------------------------- MODULE Services_proofs -------------------------
(***************************************************************************)
(* Proofs about four services.  StateRefresher shows the gateway as it is, *)
(* for every threshold of at least two rounds and any number of lives of   *)
(* the gateway.  GotifyBridge shows what it told, or it was refused.       *)
(* UserMap answers from what its files say, and a user who was removed     *)
(* pays with nobody's key.  KvmWeb starts with the port the device shows.  *)
(***************************************************************************)
EXTENDS MCServices, UserMap, SequenceTheorems, TLAPS

LEMMA OlderIs ==
    ASSUME NEW n \in 0 .. MaxRounds
    PROVE  /\ Older(n) \in 0 .. MaxRounds
           /\ n + 1 <= MaxRounds => Older(n) = n + 1
           /\ \A k \in 0 .. MaxRounds : k <= n => Older(k) <= Older(n)
BY RefresherAssumption DEF Older

----------------------------------------------------------------------------
(* The invariant *)

\* An update is under way only when the gateway lived at the last look: its
\* absence is counted from the next round on.
UnderWay ==
    /\ gateway # "down" => downFor = 0
    /\ pcR \in {"read", "replace"} => downFor = 0
    /\ pcR = "replace" => copy = "running"
\* Nothing makes the file younger than the absence.
OldAsGone == file.age >= downFor
FreshWhileUp ==
    gateway = "up" => /\ file.state = "running" /\ file.age <= 1
                      /\ pcR = "sleep" => file.age = 0
RefresherInv == RefresherTypeOK /\ UnderWay /\ OldAsGone /\ FreshWhileUp

LEMMA RefresherStart == RefresherInit => RefresherInv
BY RefresherAssumption
   DEF RefresherInit, RefresherInv, RefresherTypeOK, UnderWay, OldAsGone, FreshWhileUp, States

LEMMA WrittenIs ==
    ASSUME NEW state \in States, Written(state)
    PROVE  file' \in [state : States, age : 0 .. MaxRounds] /\ file'.state = state /\ file'.age = 0
BY RefresherAssumption DEF Written

LEMMA GatewaySteps ==
    ASSUME RefresherInv, Starting \/ StateChange \/ Stopping \/ Gone
    PROVE  RefresherInv'
<1> USE DEF RefresherInv
<1>1. CASE Starting \/ StateChange
  <2>1. file' \in [state : States, age : 0 .. MaxRounds] /\ file'.state = "running" /\ file'.age = 0
    BY <1>1, WrittenIs DEF Starting, StateChange, States
  <2>2. downFor' = 0
    BY <1>1 DEF Starting, StateChange, UnderWay
  <2> QED
    BY <1>1, <2>1, <2>2, RefresherAssumption
       DEF Starting, StateChange, RefresherTypeOK, UnderWay, OldAsGone, FreshWhileUp
<1>2. CASE Stopping
  <2>1. file' \in [state : States, age : 0 .. MaxRounds] /\ file'.age = 0
    BY <1>2, WrittenIs DEF Stopping, States
  <2> QED
    BY <1>2, <2>1 DEF Stopping, RefresherTypeOK, UnderWay, OldAsGone, FreshWhileUp
<1>3. CASE Gone
  BY <1>3 DEF Gone, RefresherTypeOK, UnderWay, OldAsGone, FreshWhileUp
<1> QED
  BY <1>1, <1>2, <1>3

LEMMA RefresherSteps ==
    ASSUME RefresherInv, CheckLock \/ ReadFile \/ Replace \/ Sleep
    PROVE  RefresherInv'
<1> USE DEF RefresherInv
<1>1. CASE CheckLock
  BY <1>1 DEF CheckLock, Alive, RefresherTypeOK, UnderWay, OldAsGone, FreshWhileUp
<1>2. CASE ReadFile
  BY <1>2 DEF ReadFile, RefresherTypeOK, UnderWay, OldAsGone, FreshWhileUp
<1>3. CASE Replace
  <2>1. copy = "running" /\ downFor = 0
    BY <1>3 DEF Replace, UnderWay
  <2>2. file' \in [state : States, age : 0 .. MaxRounds] /\ file'.state = "running" /\ file'.age = 0
    BY <1>3, <2>1, WrittenIs DEF Replace, States
  <2> QED
    BY <1>3, <2>1, <2>2 DEF Replace, RefresherTypeOK, UnderWay, OldAsGone, FreshWhileUp
<1>4. CASE Sleep
  <2>1. file.state \in States /\ file.age \in 0 .. MaxRounds /\ downFor \in 0 .. MaxRounds
    BY DEF RefresherTypeOK
  <2>2. file' \in [state : States, age : 0 .. MaxRounds] /\ file'.state = file.state /\ file'.age = Older(file.age)
    BY <1>4, <2>1, OlderIs DEF Sleep, RefresherTypeOK
  <2>3. pcR = "sleep" /\ pcR' = "check" /\ UNCHANGED <<gateway, copy, lives>>
        /\ downFor' = IF gateway = "down" THEN Older(downFor) ELSE 0
    BY <1>4 DEF Sleep
  <2>4. downFor' \in 0 .. MaxRounds /\ downFor' <= Older(file.age) /\ (gateway # "down" => downFor' = 0)
    BY <2>1, <2>3, OlderIs, RefresherAssumption DEF OldAsGone
  <2>5. gateway = "up" => Older(file.age) = 1
    BY <2>1, <2>3, OlderIs, RefresherAssumption DEF FreshWhileUp
  <2> QED
    BY <2>2, <2>3, <2>4, <2>5 DEF RefresherTypeOK, UnderWay, OldAsGone, FreshWhileUp
<1> QED
  BY <1>1, <1>2, <1>3, <1>4

LEMMA RefresherStutter ==
    ASSUME RefresherInv, UNCHANGED refresherVars
    PROVE  RefresherInv'
BY DEF refresherVars, RefresherInv, RefresherTypeOK, UnderWay, OldAsGone, FreshWhileUp

LEMMA RefresherStep == RefresherInv /\ [RefresherNext]_refresherVars => RefresherInv'
BY GatewaySteps, RefresherSteps, RefresherStutter DEF RefresherNext

\* The invariant holds in every state (gateway, file and refresher together).
THEOREM RefresherInvariant == RefresherSpec => []RefresherInv
BY RefresherStart, RefresherStep, PTL DEF RefresherSpec

----------------------------------------------------------------------------

\* A gateway that has been gone for the threshold is not shown as running,
\* whenever it went during a round of the refresher (_refresh_once).
THEOREM GoneIsNotShown == RefresherSpec => []DeadShowsDead
<1>1. RefresherInv => DeadShowsDead
  BY RefresherAssumption DEF RefresherInv, RefresherTypeOK, OldAsGone, DeadShowsDead, ShownRunning
<1> QED
  BY <1>1, RefresherInvariant, PTL

\* A gateway that runs is shown as running at every moment.
THEOREM LivingIsShown == RefresherSpec => []AliveShowsAlive
<1>1. RefresherInv => AliveShowsAlive
  BY DEF RefresherInv, FreshWhileUp, AliveShowsAlive
<1> QED
  BY <1>1, RefresherInvariant, PTL

\* What the file shows of the gateway is true, up to the threshold.
THEOREM ShownIsAlwaysTrue == RefresherSpec => []ShownIsTrue
BY GoneIsNotShown, LivingIsShown, PTL DEF ShownIsTrue


-----------------------------------------------------------------------------
(* The bridge of Alertmanager *)

Statuses == {"quiet", "firing", "resolved"}

AlertsTyped ==
    /\ firing \subseteq Alerts
    /\ next \in 0 .. Cardinality(Alerts) + 1
    /\ told \in [Alerts -> Statuses]
    /\ note \in [Alerts -> Statuses]
    /\ shown \in [Alerts -> Statuses]
    /\ refused \in [Alerts -> BOOLEAN]

\* The handler is past alert a: with the whole notification, or in its loop.
Handled(a) == next = 0 \/ a < next

\* What Alertmanager takes for delivered is the last notification; an alert that
\* was told once is never again left out of one.
ToldIsNoted ==
    /\ next = 0 => told = note
    /\ \A a \in Alerts : told[a] # "quiet" => note[a] # "quiet"

\* An alert left out was never shown, and of each one the handler is past the
\* message says the status of the group, unless Gotify refused it.
SaidOrRefused ==
    \A a \in Alerts :
        /\ note[a] = "quiet" => shown[a] = "quiet"
        /\ Handled(a) /\ note[a] # "quiet" => refused[a] \/ shown[a] = GroupStatus(note)

KeelInv == keel \in {"idle", "posting"}

BridgeInv == AlertsTyped /\ ToldIsNoted /\ SaidOrRefused /\ KeelInv

LEMMA GroupStatusIs ==
    ASSUME NEW n PROVE GroupStatus(n) \in {"firing", "resolved"}
BY DEF GroupStatus

LEMMA BridgeStart == BridgeInit => BridgeInv
<1> SUFFICES ASSUME BridgeInit PROVE BridgeInv
  OBVIOUS
<1>1. AlertsTyped
  BY BridgeAssumption DEF BridgeInit, AlertsTyped, Statuses
<1>2. ToldIsNoted /\ SaidOrRefused /\ KeelInv
  BY DEF BridgeInit, ToldIsNoted, SaidOrRefused, KeelInv
<1> QED
  BY <1>1, <1>2 DEF BridgeInv

\* An alert that was told and has ended is resolved: a notification leaves out
\* only what it always left out.
LEMMA NotifyStep == BridgeInv /\ Notify => BridgeInv'
<1> SUFFICES ASSUME BridgeInv, Notify PROVE BridgeInv'
  OBVIOUS
<1> USE DEF BridgeInv
<1>1. \A a \in Alerts : Now(a) \in Statuses /\ (Now(a) = "quiet" => told[a] = "quiet")
  BY DEF Now, Statuses, AlertsTyped
<1>2. /\ next = 0 /\ note' = [a \in Alerts |-> Now(a)] /\ next' = 1
      /\ refused' = [a \in Alerts |-> FALSE]
      /\ UNCHANGED <<firing, told, shown, keel>>
  BY DEF Notify, keelVars
<1>3. AlertsTyped'
  BY <1>1, <1>2, BridgeAssumption DEF AlertsTyped
<1>4. told = note
  BY <1>2 DEF ToldIsNoted
<1>5. ToldIsNoted'
  BY <1>1, <1>2 DEF ToldIsNoted
<1>6. SaidOrRefused'
  <2> SUFFICES ASSUME NEW a \in Alerts
               PROVE  /\ note'[a] = "quiet" => shown'[a] = "quiet"
                      /\ ~Handled(a)'
    BY DEF SaidOrRefused
  <2>1. ~Handled(a)'
    BY <1>2, BridgeAssumption DEF Handled
  <2>2. note'[a] = "quiet" => shown'[a] = "quiet"
    BY <1>1, <1>2, <1>4 DEF SaidOrRefused
  <2> QED
    BY <2>1, <2>2
<1>7. KeelInv'
  BY <1>2 DEF KeelInv
<1> QED
  BY <1>3, <1>5, <1>6, <1>7

\* One step of the loop over the alerts, or its end.
LEMMA AlertStepStep == BridgeInv /\ AlertStep => BridgeInv'
<1> SUFFICES ASSUME BridgeInv, AlertStep PROVE BridgeInv'
  OBVIOUS
<1> USE DEF BridgeInv
<1>1. UNCHANGED <<firing, note, keel>>
  BY DEF AlertStep, Skip, Forward, Refuse, Raise, Hang, ProbeRestart, Acknowledge, keelVars
<1>2. KeelInv'
  BY <1>1 DEF KeelInv
<1>3. GroupStatus(note') = GroupStatus(note)
  BY <1>1
<1>4. CASE Skip \/ Forward \/ Refuse
  <2>1. /\ next \in Alerts /\ next' = next + 1 /\ UNCHANGED told
        /\ shown' \in {shown, [shown EXCEPT ![next] = GroupStatus(note)]}
        /\ \E r \in BOOLEAN : refused' \in {refused, [refused EXCEPT ![next] = r]}
        /\ note[next] # "quiet" => shown'[next] = GroupStatus(note) \/ refused'[next]
        /\ note[next] = "quiet" => shown' = shown
    BY <1>4 DEF Skip, Forward, Refuse, Posting, Delivered, More, Said, AlertsTyped
  <2>2. AlertsTyped'
    <3>1. GroupStatus(note) \in Statuses
      BY GroupStatusIs DEF Statuses
    <3>2. shown' \in [Alerts -> Statuses]
      BY <2>1, <3>1 DEF AlertsTyped
    <3>3. refused' \in [Alerts -> BOOLEAN]
      BY <2>1 DEF AlertsTyped
    <3>4. next' \in 0 .. Cardinality(Alerts) + 1
      BY <2>1, BridgeAssumption
    <3> QED
      BY <1>1, <2>1, <3>2, <3>3, <3>4 DEF AlertsTyped
  <2>3. next' # 0 /\ ToldIsNoted'
    BY <1>1, <2>1, BridgeAssumption DEF ToldIsNoted
  <2>4. ASSUME NEW a \in Alerts
        PROVE  /\ note'[a] = "quiet" => shown'[a] = "quiet"
               /\ Handled(a)' /\ note'[a] # "quiet" => refused'[a] \/ shown'[a] = GroupStatus(note)
    <3>1. CASE a = next
      BY <1>1, <2>1, <3>1 DEF SaidOrRefused
    <3>2. CASE a # next
      <4>1. shown'[a] = shown[a] /\ refused'[a] = refused[a]
        BY <2>1, <3>2 DEF AlertsTyped
      <4>2. Handled(a)' => Handled(a)
        BY <2>1, <2>3, <3>2, BridgeAssumption DEF Handled
      <4> QED
        BY <1>1, <4>1, <4>2 DEF SaidOrRefused
    <3> QED
      BY <3>1, <3>2
  <2> QED
    BY <1>2, <1>3, <2>2, <2>3, <2>4 DEF SaidOrRefused
<1>5. CASE Raise \/ Hang \/ ProbeRestart
  <2>1. /\ next' \in {1, next} /\ next' # 0 /\ UNCHANGED <<told, refused>>
        /\ \/ shown' = shown
           \/ /\ next \in Alerts /\ note[next] # "quiet"
              /\ shown' = [shown EXCEPT ![next] = GroupStatus(note)]
    BY <1>5, BridgeAssumption DEF Raise, Hang, ProbeRestart, Posting, Delivered, More, Said
  <2>2. AlertsTyped'
    <3>1. GroupStatus(note) \in Statuses
      BY GroupStatusIs DEF Statuses
    <3>2. shown' \in [Alerts -> Statuses]
      BY <2>1, <3>1 DEF AlertsTyped
    <3>3. next' \in 0 .. Cardinality(Alerts) + 1
      BY <2>1, BridgeAssumption DEF AlertsTyped
    <3> QED
      BY <1>1, <2>1, <3>2, <3>3 DEF AlertsTyped
  <2>3. ToldIsNoted'
    BY <1>1, <2>1 DEF ToldIsNoted
  <2>4. ASSUME NEW a \in Alerts
        PROVE  /\ note'[a] = "quiet" => shown'[a] = "quiet"
               /\ Handled(a)' /\ note'[a] # "quiet" => refused'[a] \/ shown'[a] = GroupStatus(note)
    <3>1. note'[a] = "quiet" => shown'[a] = "quiet"
      BY <1>1, <2>1 DEF SaidOrRefused, AlertsTyped
    <3>2. Handled(a)' => Handled(a) /\ a # next
      BY <2>1, BridgeAssumption DEF Handled, AlertsTyped
    <3>3. a # next => shown'[a] = shown[a]
      BY <2>1 DEF AlertsTyped
    <3> QED
      BY <1>1, <2>1, <3>1, <3>2, <3>3 DEF SaidOrRefused
  <2> QED
    BY <1>2, <1>3, <2>2, <2>3, <2>4 DEF SaidOrRefused
<1>6. CASE Acknowledge
  <2>1. next # 0 /\ next \notin Alerts /\ told' = note /\ next' = 0 /\ UNCHANGED <<shown, refused>>
    BY <1>6 DEF Acknowledge, More
  <2>2. AlertsTyped'
    BY <1>1, <2>1, BridgeAssumption DEF AlertsTyped
  <2>3. \A a \in Alerts : Handled(a)
    BY <2>1, BridgeAssumption DEF Handled, AlertsTyped
  <2>4. ToldIsNoted' /\ SaidOrRefused'
    BY <1>1, <1>3, <2>1, <2>3 DEF ToldIsNoted, SaidOrRefused
  <2> QED
    BY <1>2, <2>2, <2>4
<1> QED
  BY <1>4, <1>5, <1>6 DEF AlertStep

LEMMA BridgeStep == BridgeInv /\ [BridgeNext]_bridgeVars => BridgeInv'
<1> SUFFICES ASSUME BridgeInv, [BridgeNext]_bridgeVars PROVE BridgeInv'
  OBVIOUS
<1> USE DEF BridgeInv
<1>1. ASSUME UNCHANGED <<told, note, next, shown, refused>>, firing' \subseteq Alerts, KeelInv'
      PROVE  BridgeInv'
  BY <1>1 DEF AlertsTyped, ToldIsNoted, SaidOrRefused, Handled
<1>2. ASSUME NEW a \in Alerts, AlertChange(a) PROVE BridgeInv'
  <2>1. firing' \subseteq Alerts /\ KeelInv'
    BY <1>2 DEF AlertChange, AlertsTyped, KeelInv, keelVars
  <2> QED
    BY <1>1, <1>2, <2>1 DEF AlertChange
<1>3. CASE Update \/ Post
  BY <1>1, <1>3 DEF Update, Post, alertVars, AlertsTyped, KeelInv
<1>4. CASE Stall \/ Recover
  BY <1>1, <1>4 DEF Stall, Recover, alertVars, keelVars, AlertsTyped, KeelInv
<1>5. CASE UNCHANGED bridgeVars
  BY <1>1, <1>5 DEF bridgeVars, alertVars, keelVars, AlertsTyped, KeelInv
<1> QED
  BY <1>2, <1>3, <1>4, <1>5, NotifyStep, AlertStepStep DEF BridgeNext

\* The invariant of the bridges: what was told is noted in Gotify, and what is not
\* was refused (alertmgr_gotify_bridge.py, keel_gotify_bridge.py).
THEOREM BridgeInvariant == BridgeSpec => []BridgeInv
BY BridgeStart, BridgeStep, PTL DEF BridgeSpec

\* After an acknowledged notification the last message about each of its alerts
\* says the status of its group, unless Gotify refused that message, and an alert
\* never told has none, whatever exceptions, stalls, restarts and repeats come
\* between (do_POST of alertmgr_gotify_bridge.py).
THEOREM BridgeAlwaysTells == BridgeSpec => []ToldIsShown
<1>1. ASSUME BridgeInv PROVE ToldIsShown
  BY <1>1 DEF BridgeInv, ToldIsShown, ToldIsNoted, SaidOrRefused, Handled
<1> QED
  BY <1>1, BridgeInvariant, PTL


-----------------------------------------------------------------------------
(* The user map of the Crawl4AI server *)

Shaped(r) ==
    /\ DOMAIN r.users \subseteq Users
    /\ \A u \in DOMAIN r.users : r.users[u] \in Grant
    /\ UsersFile \in r.sources
    /\ r.sources \subseteq Paths

FilesInv ==
    /\ text \in Documents \cup {Broken}
    /\ disk \in [Paths -> 0 .. MaxPublish]
    /\ published \in 1 .. MaxPublish
    /\ \A p \in Paths : disk[p] <= published
    /\ disk[UsersFile] # 0

ClockInv ==
    /\ clock \in 0 .. MaxClock
    /\ checked \in 0 .. clock
    /\ now \in [Threads -> 0 .. clock]

\* Nobody is served before the constructor is through.
ThreadsInv ==
    /\ lock \in Threads \cup {Server, Nobody}
    /\ pc \in [Threads -> {"idle", "ask", "wait", "load", "answer"}]
    /\ caller \in [Threads -> Callers]
    /\ stage \in [Threads -> {"authenticate", "precheck", "token"}]
    /\ out \in [Threads -> Outcomes]
    /\ lock = Server => \A t \in Threads : pc[t] = "idle"

\* A server that serves has a registry, and the parse under way has read what
\* is on the disk unless a file was replaced since it took the lock.
LoadInv ==
    /\ step \in {"compare", "open", "keys", "sign"}
    /\ lock = Nobody => step = "compare"
    /\ lock = Server => step # "compare"
    /\ changed \in BOOLEAN
    /\ DOMAIN draft.version \subseteq Paths
    /\ registry # NoRegistry \/ lock # Server \/ step = "sign" => Shaped(registry)
    /\ step \in {"keys", "sign"} =>
        /\ draft.doc \in Documents
        /\ UsersFile \in DOMAIN draft.version
        /\ \A p \in DOMAIN draft.version : draft.version[p] \in 1 .. MaxPublish
        /\ ~changed => /\ draft.doc = text
                       /\ \A p \in DOMAIN draft.version : draft.version[p] = disk[p]
    /\ step = "sign" => /\ Sources(draft.doc) \subseteq DOMAIN draft.version
                        /\ registry = Parse(draft.doc, draft.version)

\* The registry of a clean parse is what the files said when they were signed,
\* and another text in the users file has another signature.
SignedInv ==
    /\ clean \in BOOLEAN
    /\ DOMAIN sig \subseteq Paths
    /\ clean /\ step = "compare" =>
        \E doc \in Documents :
            /\ registry = Parse(doc, sig)
            /\ DOMAIN sig = Sources(doc)
            /\ \A p \in DOMAIN sig : sig[p] \in 1 .. published
            /\ text = doc \/ sig[UsersFile] # disk[UsersFile]

MapInv == FilesInv /\ ClockInv /\ ThreadsInv /\ LoadInv /\ SignedInv

-----------------------------------------------------------------------------
(* parse_registry *)

LEMMA SourcesAre ==
    ASSUME NEW doc \in Documents
    PROVE  /\ UsersFile \in Sources(doc) /\ Sources(doc) \subseteq Paths
           /\ \A u \in DOMAIN doc : doc[u].key \notin {NoKey, Inline} => doc[u].key \in Sources(doc)
BY MapAssumption DEF Sources, Paths, Entry

\* A key file's key carries the version of the file that was read.
LEMMA ParseShaped ==
    ASSUME NEW doc \in Documents, NEW version,
           \A p \in Sources(doc) : version[p] \in 1 .. MaxPublish
    PROVE  Shaped(Parse(doc, version)) /\ Parse(doc, version).sources = Sources(doc)
<1> DEFINE KeyOf(u) == CASE doc[u].key = NoKey -> NoKey
                         [] doc[u].key = Inline -> <<UsersFile, version[UsersFile]>>
                         [] OTHER -> <<doc[u].key, version[doc[u].key]>>
<1> DEFINE UsersOf == [u \in DOMAIN doc |->
                        [llm |-> doc[u].llm, admits |-> doc[u].admits, key |-> KeyOf(u)]]
<1>1. Parse(doc, version) = [users |-> UsersOf, sources |-> Sources(doc)]
  BY DEF Parse
<1>2. DOMAIN doc \subseteq Users /\ \A u \in DOMAIN doc : doc[u] \in Entry
  BY MapAssumption
<1>3. ASSUME NEW u \in DOMAIN doc PROVE KeyOf(u) \in {NoKey} \cup Key
  <2>1. CASE doc[u].key = NoKey
    BY <2>1, MapAssumption
  <2>2. CASE doc[u].key = Inline
    <3>1. KeyOf(u) = <<UsersFile, version[UsersFile]>>
      BY <2>2, MapAssumption
    <3>2. UsersFile \in Paths /\ version[UsersFile] \in 1 .. MaxPublish
      BY SourcesAre DEF Paths
    <3> QED
      BY <3>1, <3>2 DEF Key
  <2>3. CASE doc[u].key \notin {NoKey, Inline}
    BY <2>3, SourcesAre DEF Key
  <2> QED
    BY <2>1, <2>2, <2>3
<1> HIDE DEF KeyOf
<1>4. \A u \in DOMAIN doc : UsersOf[u] \in Grant
  BY <1>2, <1>3 DEF Grant, Entry
<1>5. DOMAIN UsersOf = DOMAIN doc
  OBVIOUS
<1> HIDE DEF UsersOf
<1> QED
  BY <1>1, <1>2, <1>4, <1>5, SourcesAre DEF Shaped

\* The registry is a matter of the files it names.
LEMMA ParseReadsSources ==
    ASSUME NEW doc \in Documents, NEW v, NEW w, \A p \in Sources(doc) : v[p] = w[p]
    PROVE  Parse(doc, v) = Parse(doc, w)
<1> DEFINE KeyOf(u, x) == CASE doc[u].key = NoKey -> NoKey
                            [] doc[u].key = Inline -> <<UsersFile, x[UsersFile]>>
                            [] OTHER -> <<doc[u].key, x[doc[u].key]>>
<1>1. ASSUME NEW u \in DOMAIN doc PROVE KeyOf(u, v) = KeyOf(u, w)
  BY <1>1, SourcesAre
<1>2. \A x : Parse(doc, x) =
        [users |-> [u \in DOMAIN doc |->
            [llm |-> doc[u].llm, admits |-> doc[u].admits, key |-> KeyOf(u, x)]],
         sources |-> Sources(doc)]
  BY DEF Parse
<1> HIDE DEF KeyOf
<1> QED
  BY <1>1, <1>2

LEMMA MapStart == Init => MapInv
<1> SUFFICES ASSUME Init PROVE MapInv
  OBVIOUS
<1>1. FilesInv
  BY MapAssumption DEF Init, FilesInv, Paths
<1>2. ClockInv
  BY MapAssumption DEF Init, ClockInv
<1>3. ThreadsInv
  BY MapAssumption DEF Init, ThreadsInv, Callers, Outcomes
<1>4. DOMAIN draft.version \subseteq Paths
  <2>1. draft.version = << >>
    BY DEF Init, NoDraft
  <2>2. DOMAIN draft.version = {}
    BY <2>1
  <2> QED
    BY <2>2
<1>5. LoadInv
  BY <1>4, MapAssumption DEF Init, LoadInv
<1>6. SignedInv
  <2>1. sig = << >> /\ ~clean
    BY DEF Init
  <2>2. DOMAIN sig = {}
    BY <2>1
  <2> QED
    BY <2>1, <2>2 DEF Init, SignedInv
<1> QED
  BY <1>1, <1>2, <1>3, <1>5, <1>6 DEF MapInv

-----------------------------------------------------------------------------
(* The files and the clock *)

\* No two versions have one signature: a replaced file is not the signed one.
LEMMA PublishStep == MapInv /\ Publish => MapInv'
<1> SUFFICES ASSUME MapInv, Publish PROVE MapInv'
  OBVIOUS
<1> USE DEF MapInv
<1>0. PICK files \in SUBSET Paths \ {{}}, gone \in SUBSET KeyFiles :
        /\ gone \subseteq files
        /\ disk' = [p \in Paths |-> CASE p \in gone -> 0
                                      [] p \in files \ gone -> published'
                                      [] OTHER -> disk[p]]
        /\ IF UsersFile \in files THEN text' \in Documents \cup {Broken} ELSE text' = text
  BY DEF Publish
<1>1. published < MaxPublish /\ published' = published + 1 /\ changed' = TRUE
      /\ UNCHANGED <<clock, checked, lock, sig, registry, step, draft, clean, pc, now, caller, stage, out>>
  BY DEF Publish, loadVars, reqVars
<1>2. UsersFile \in Paths /\ UsersFile \notin gone
  BY MapAssumption DEF Paths
<1>3. \A p \in Paths : disk'[p] = 0 \/ disk'[p] = published + 1 \/ disk'[p] = disk[p]
  BY <1>0, <1>1
<1>4. disk'[UsersFile] = IF UsersFile \in files THEN published + 1 ELSE disk[UsersFile]
  BY <1>0, <1>1, <1>2
<1>5. FilesInv'
  <2>1. text' \in Documents \cup {Broken}
    BY <1>0 DEF FilesInv
  <2>2. published' \in 1 .. MaxPublish
    BY <1>1, MapAssumption DEF FilesInv
  <2>3. \A p \in Paths : disk'[p] \in 0 .. MaxPublish /\ disk'[p] <= published'
    BY <1>1, <1>3, MapAssumption DEF FilesInv
  <2>4. disk' \in [Paths -> 0 .. MaxPublish]
    BY <1>0, <2>3
  <2>5. disk'[UsersFile] # 0
    BY <1>2, <1>4, <1>1, MapAssumption DEF FilesInv
  <2> QED
    BY <2>1, <2>2, <2>3, <2>4, <2>5 DEF FilesInv
<1>6. ClockInv' /\ ThreadsInv'
  BY <1>1 DEF ClockInv, ThreadsInv
<1>7. LoadInv'
  BY <1>1 DEF LoadInv
<1>8. SignedInv'
  <2>1. ASSUME clean, step = "compare"
        PROVE  \E doc \in Documents :
                /\ registry = Parse(doc, sig)
                /\ DOMAIN sig = Sources(doc)
                /\ \A p \in DOMAIN sig : sig[p] \in 1 .. published'
                /\ text' = doc \/ sig[UsersFile] # disk'[UsersFile]
    <3>1. PICK doc \in Documents :
            /\ registry = Parse(doc, sig)
            /\ DOMAIN sig = Sources(doc)
            /\ \A p \in DOMAIN sig : sig[p] \in 1 .. published
            /\ text = doc \/ sig[UsersFile] # disk[UsersFile]
      BY <2>1 DEF SignedInv
    <3>2. \A p \in DOMAIN sig : sig[p] \in 1 .. published' /\ sig[p] # published + 1
      BY <1>1, <3>1, MapAssumption DEF FilesInv
    <3>3. text' = doc \/ sig[UsersFile] # disk'[UsersFile]
      BY <1>0, <1>4, <3>1, <3>2, SourcesAre
    <3> QED
      BY <3>1, <3>2, <3>3
  <2> QED
    BY <1>1, <2>1 DEF SignedInv
<1> QED
  BY <1>5, <1>6, <1>7, <1>8

LEMMA TickStep == MapInv /\ Tick => MapInv'
<1> SUFFICES ASSUME MapInv, Tick PROVE MapInv'
  OBVIOUS
<1> USE DEF MapInv
<1>1. clock < MaxClock /\ clock' = clock + 1
      /\ UNCHANGED <<text, disk, published, checked, lock, sig, registry, step, draft, clean, changed,
                     pc, now, caller, stage, out>>
  BY DEF Tick, diskVars, loadVars, reqVars
<1>2. ClockInv'
  BY <1>1, MapAssumption DEF ClockInv
<1> QED
  BY <1>1, <1>2 DEF FilesInv, ThreadsInv, LoadInv, SignedInv


-----------------------------------------------------------------------------
(* The requests *)

\* What a step of a request, or of the files' clock, leaves alone.
LoadStill == UNCHANGED <<text, disk, published, sig, registry, draft, clean>>

LEMMA ArriveStep == ASSUME MapInv, NEW t \in Threads, Arrive(t) PROVE MapInv'
<1> USE DEF MapInv
<1>1. PICK c \in Callers :
        /\ caller' = [caller EXCEPT ![t] = c]
        /\ stage' = [stage EXCEPT ![t] = IF c \in Users THEN "authenticate" ELSE "precheck"]
  BY DEF Arrive
<1>2. /\ lock # Server
      /\ pc' = [pc EXCEPT ![t] = "ask"] /\ out' = [out EXCEPT ![t] = NoAnswer]
      /\ UNCHANGED <<clock, checked, lock, step, changed, now>> /\ LoadStill
  BY DEF Arrive, diskVars, loadVars, LoadStill
<1>3. ThreadsInv'
  BY <1>1, <1>2 DEF ThreadsInv, Outcomes
<1>4. FilesInv' /\ ClockInv' /\ LoadInv' /\ SignedInv'
  BY <1>2 DEF LoadStill, FilesInv, ClockInv, LoadInv, SignedInv
<1> QED
  BY <1>3, <1>4

LEMMA AskStep == ASSUME MapInv, NEW t \in Threads, Ask(t) PROVE MapInv'
<1> USE DEF MapInv
<1>1. /\ pc[t] = "ask"
      /\ UNCHANGED <<clock, checked, lock, step, changed, caller, stage, out>> /\ LoadStill
      /\ \/ pc' = [pc EXCEPT ![t] = "wait"] /\ now' = [now EXCEPT ![t] = clock]
         \/ pc' = [pc EXCEPT ![t] = "answer"] /\ now' = now
  BY DEF Ask, diskVars, loadVars, LoadStill
<1>2. lock # Server
  BY <1>1 DEF ThreadsInv
<1>3. ThreadsInv'
  BY <1>1, <1>2 DEF ThreadsInv
<1>4. ClockInv'
  BY <1>1, MapAssumption DEF ClockInv
<1>5. FilesInv' /\ LoadInv' /\ SignedInv'
  BY <1>1 DEF LoadStill, FilesInv, LoadInv, SignedInv
<1> QED
  BY <1>3, <1>4, <1>5

LEMMA AcquireStep == ASSUME MapInv, NEW t \in Threads, Acquire(t) PROVE MapInv'
<1> USE DEF MapInv
<1>1. /\ pc[t] = "wait" /\ lock = Nobody /\ now' = [now EXCEPT ![t] = 0]
      /\ UNCHANGED <<clock, caller, stage, out>> /\ LoadStill
      /\ \/ /\ checked' = now[t] /\ lock' = t /\ step' = "compare" /\ changed' = FALSE
            /\ pc' = [pc EXCEPT ![t] = "load"]
         \/ pc' = [pc EXCEPT ![t] = "answer"] /\ UNCHANGED <<checked, lock, step, changed>>
  BY DEF Acquire, diskVars, LoadStill
<1>2. lock # Server /\ lock' # Server /\ step = "compare" /\ step' = "compare"
  BY <1>1, MapAssumption DEF LoadInv
<1>3. ThreadsInv'
  BY <1>1, <1>2 DEF ThreadsInv
<1>4. ClockInv'
  BY <1>1, MapAssumption DEF ClockInv
<1>5. LoadInv'
  BY <1>1, <1>2, MapAssumption DEF LoadStill, LoadInv
<1>6. FilesInv' /\ SignedInv'
  BY <1>1, <1>2 DEF LoadStill, FilesInv, SignedInv
<1> QED
  BY <1>3, <1>4, <1>5, <1>6

LEMMA DecideIs ==
    ASSUME NEW c \in Callers, Shaped(registry)
    PROVE  /\ Decide(c) \in Outcomes
           /\ Decide(c) \in Key \cup {Default} =>
                \/ Decide(c) = Default /\ c = Operator
                \/ /\ c \in DOMAIN registry.users
                   /\ registry.users[c].llm
                   /\ registry.users[c].key = (IF Decide(c) = Default THEN NoKey ELSE Decide(c))
<1> DEFINE user == registry.users[c]
<1>1. Denied # Default /\ Denied \notin Key /\ Default \notin Key
  BY DEF Denied, Default, Key
<1>2. Shared \in {Default, Denied} /\ {Default, Denied} \subseteq Outcomes /\ Key \subseteq Outcomes
  BY DEF Shared, Outcomes
<1>3. CASE c = Operator
  <2>1. Decide(c) = Shared
    BY <1>3, MapAssumption DEF Decide, Shaped
  <2> QED
    BY <1>1, <1>2, <1>3, <2>1
<1>4. CASE c # Operator /\ c \notin DOMAIN registry.users
  <2>1. Decide(c) = Denied
    BY <1>4 DEF Decide, Callers
  <2> QED
    BY <1>1, <1>2, <2>1
<1>5. CASE c # Operator /\ c \in DOMAIN registry.users
  <2>1. user.llm \in BOOLEAN /\ user.key \in {NoKey} \cup Key /\ user.admits \in BOOLEAN
    BY <1>5 DEF Shaped, Grant
  <2>2. CASE ~user.llm
    <3>1. Decide(c) = Denied
      BY <1>5, <2>2 DEF Decide
    <3> QED
      BY <1>1, <1>2, <3>1
  <2>3. CASE user.llm /\ user.key = NoKey
    <3>1. Decide(c) = Shared
      BY <1>5, <2>3 DEF Decide
    <3> QED
      BY <1>1, <1>2, <1>5, <2>3, <3>1
  <2>4. CASE user.llm /\ user.key # NoKey /\ ~user.admits
    <3>1. Decide(c) = Denied
      BY <1>5, <2>4 DEF Decide
    <3> QED
      BY <1>1, <1>2, <3>1
  <2>5. CASE user.llm /\ user.key # NoKey /\ user.admits
    <3>1. Decide(c) = user.key
      BY <1>5, <2>5 DEF Decide
    <3> QED
      BY <1>1, <1>2, <1>5, <2>1, <2>5, <3>1
  <2> QED
    BY <2>2, <2>3, <2>4, <2>5
<1> QED
  BY <1>3, <1>4, <1>5

\* A request that is answered is answered from a registry.
LEMMA AnswersFromRegistry ==
    ASSUME MapInv, NEW t \in Threads, pc[t] = "answer"
    PROVE  lock # Server /\ Shaped(registry)
BY DEF MapInv, ThreadsInv, LoadInv

LEMMA AnswerStep ==
    ASSUME MapInv, NEW t \in Threads, Authenticate(t) \/ Precheck(t) \/ ApiToken(t)
    PROVE  MapInv'
<1> USE DEF MapInv
<1>1. /\ pc[t] = "answer"
      /\ UNCHANGED <<clock, checked, lock, step, changed, now>> /\ LoadStill
      /\ \/ \E o \in {Unauthorized, Denied, Decide(caller[t])} : Ends(t, o)
         \/ \E s \in {"precheck", "token"} : GoesOn(t, s)
  BY DEF Authenticate, Precheck, ApiToken, diskVars, loadVars, LoadStill
<1>2. lock # Server /\ Decide(caller[t]) \in Outcomes
  BY <1>1, AnswersFromRegistry, DecideIs DEF ThreadsInv
<1>3. ThreadsInv'
  <2>1. CASE \E o \in {Unauthorized, Denied, Decide(caller[t])} : Ends(t, o)
    BY <1>1, <1>2, <2>1 DEF ThreadsInv, Ends, Outcomes, Callers
  <2>2. CASE \E s \in {"precheck", "token"} : GoesOn(t, s)
    BY <1>1, <1>2, <2>2 DEF ThreadsInv, GoesOn
  <2> QED
    BY <1>1, <2>1, <2>2
<1>4. FilesInv' /\ ClockInv' /\ LoadInv' /\ SignedInv'
  BY <1>1 DEF LoadStill, FilesInv, ClockInv, LoadInv, SignedInv
<1> QED
  BY <1>3, <1>4


-----------------------------------------------------------------------------
(* The loads *)

\* What no step of a load touches.
RequestsStill == UNCHANGED <<text, disk, published, clock, now, caller, stage, out>>

LEMMA StillFiles == MapInv /\ RequestsStill => FilesInv'
BY DEF MapInv, RequestsStill, FilesInv

LEMMA NothingReadYet == DOMAIN NoDraft.version = {}
<1>1. NoDraft.version = << >>
  BY DEF NoDraft
<1> QED
  BY <1>1

\* The lock is left, with a registry and with a signature that is its own
\* unless the last parse failed or was overtaken.
LEMMA ReleaseStep ==
    ASSUME MapInv, RequestsStill, Release, lock # Nobody, lock = Server => Shaped(registry'),
           registry' = registry, changed' = changed, SignedInv'
    PROVE  MapInv'
<1> USE DEF MapInv
<1>1. /\ lock' = Nobody /\ step' = "compare" /\ draft' = NoDraft /\ checked' = checked
      /\ pc' = [t \in Threads |-> IF t = lock THEN "answer" ELSE pc[t]]
  BY DEF Release
<1>2. ThreadsInv'
  BY <1>1, MapAssumption DEF ThreadsInv, RequestsStill
<1>3. ClockInv'
  BY <1>1 DEF ClockInv, RequestsStill
<1>4. Shaped(registry')
  BY DEF LoadInv
<1>5. LoadInv'
  BY <1>1, <1>4, NothingReadYet, MapAssumption DEF LoadInv
<1> QED
  BY <1>2, <1>3, <1>5, StillFiles

LEMMA KeepPreviousStep ==
    ASSUME MapInv, RequestsStill, KeepPrevious, lock # Nobody,
           clean' = FALSE \/ (clean' = clean /\ step = "compare")
    PROVE  MapInv'
<1> USE DEF MapInv
<1>1. lock # Server /\ Release /\ UNCHANGED <<registry, sig, changed>>
  BY DEF KeepPrevious
<1>2. SignedInv'
  <2>1. CASE clean' = FALSE
    BY <1>1, <2>1 DEF SignedInv, RequestsStill
  <2>2. CASE clean' = clean /\ step = "compare"
    <3>1. clean' \in BOOLEAN /\ DOMAIN sig' \subseteq Paths
      BY <1>1, <2>2 DEF SignedInv
    <3>2. UNCHANGED <<text, disk, published, registry, sig>>
      BY <1>1 DEF RequestsStill
    <3> QED
      BY <2>2, <3>1, <3>2 DEF SignedInv
  <2> QED
    BY <2>1, <2>2
<1> QED
  BY <1>1, <1>2, ReleaseStep

LEMMA RestartStep == ASSUME MapInv, RequestsStill, Restart PROVE MapInv'
<1> USE DEF MapInv
<1>1. /\ lock = Server /\ step' = "open" /\ draft' = NoDraft /\ changed' = FALSE
      /\ checked' = clock /\ sig' = << >> /\ registry' = NoRegistry /\ clean' = FALSE
      /\ UNCHANGED <<lock, pc>>
  BY DEF Restart
<1>2. ThreadsInv'
  BY <1>1 DEF ThreadsInv, RequestsStill
<1>3. ClockInv'
  BY <1>1, MapAssumption DEF ClockInv, RequestsStill
<1>4. LoadInv'
  BY <1>1, NothingReadYet, MapAssumption DEF LoadInv
<1>5. SignedInv'
  <2>1. DOMAIN sig' = {}
    BY <1>1
  <2> QED
    BY <1>1, <2>1 DEF SignedInv
<1> QED
  BY <1>2, <1>3, <1>4, <1>5, StillFiles

LEMMA FailedStep == ASSUME MapInv, RequestsStill, Failed, lock # Nobody PROVE MapInv'
BY RestartStep, KeepPreviousStep DEF Failed

\* A step of a load that goes on: the lock, the threads and the check stay.
GoesOnLoading == UNCHANGED <<checked, lock, changed, clean, pc>>

LEMMA LoadGoesOn ==
    ASSUME MapInv, RequestsStill, GoesOnLoading, step' # "compare", lock # Nobody,
           DOMAIN sig' \subseteq Paths, LoadInv'
    PROVE  MapInv'
<1> USE DEF MapInv
<1>1. ThreadsInv' /\ ClockInv' /\ SignedInv'
  BY DEF ThreadsInv, ClockInv, SignedInv, RequestsStill, GoesOnLoading
<1> QED
  BY <1>1, StillFiles

LEMMA CompareStep == MapInv /\ Compare => MapInv'
<1> SUFFICES ASSUME MapInv, Compare PROVE MapInv'
  OBVIOUS
<1> USE DEF MapInv
<1>1. lock # Nobody /\ step = "compare" /\ RequestsStill
  BY DEF Compare, Loading, RequestsStill, diskVars
<1>2. CASE KeepPrevious /\ UNCHANGED clean
  BY <1>1, <1>2, KeepPreviousStep
<1>3. CASE /\ sig' = Signature(registry.sources) /\ step' = "open"
           /\ UNCHANGED <<checked, lock, registry, draft, changed, clean, pc>>
  <2>1. Shaped(registry)
    BY <1>1 DEF LoadInv
  <2>2. DOMAIN sig' \subseteq Paths
    BY <1>3, <2>1 DEF Signature, Shaped
  <2>3. LoadInv'
    BY <1>1, <1>3 DEF LoadInv, RequestsStill
  <2> QED
    BY <1>1, <1>3, <2>2, <2>3, LoadGoesOn DEF GoesOnLoading
<1> QED
  BY <1>2, <1>3 DEF Compare

LEMMA OpenUsersFileStep == MapInv /\ OpenUsersFile => MapInv'
<1> SUFFICES ASSUME MapInv, OpenUsersFile PROVE MapInv'
  OBVIOUS
<1> USE DEF MapInv
<1>1. lock # Nobody /\ step = "open" /\ RequestsStill
  BY DEF OpenUsersFile, Loading, RequestsStill, diskVars
<1>2. CASE Failed
  BY <1>1, <1>2, FailedStep
<1>3. CASE /\ text # Broken
           /\ draft' = [doc |-> text, version |-> [p \in {UsersFile} |-> disk[p]]]
           /\ step' = "keys"
           /\ UNCHANGED <<checked, lock, sig, registry, changed, clean, pc>>
  <2>1. draft'.doc = text /\ text \in Documents
    BY <1>3 DEF FilesInv
  <2>2. DOMAIN draft'.version = {UsersFile} /\ draft'.version[UsersFile] = disk[UsersFile]
    BY <1>3
  <2>3. UsersFile \in Paths /\ disk[UsersFile] \in 1 .. MaxPublish
    BY MapAssumption DEF Paths, FilesInv
  <2>4. LoadInv'
    BY <1>1, <1>3, <2>1, <2>2, <2>3 DEF LoadInv, RequestsStill
  <2> QED
    BY <1>1, <1>3, <2>4, LoadGoesOn DEF GoesOnLoading, SignedInv
<1> QED
  BY <1>2, <1>3 DEF OpenUsersFile

LEMMA ReadKeyFileStep == MapInv /\ ReadKeyFile => MapInv'
<1> SUFFICES ASSUME MapInv, ReadKeyFile PROVE MapInv'
  OBVIOUS
<1> USE DEF MapInv
<1>1. lock # Nobody /\ step = "keys" /\ RequestsStill
  BY DEF ReadKeyFile, Loading, RequestsStill, diskVars
<1>2. PICK k \in Sources(draft.doc) \ DOMAIN draft.version :
        \/ Failed
        \/ /\ disk[k] # 0
           /\ draft' = [draft EXCEPT !.version =
                  [p \in DOMAIN @ \cup {k} |-> IF p = k THEN disk[k] ELSE @[p]]]
           /\ UNCHANGED <<checked, lock, sig, registry, step, changed, clean, pc>>
  BY DEF ReadKeyFile
<1>3. CASE Failed
  BY <1>1, <1>3, FailedStep
<1>4. CASE /\ disk[k] # 0
           /\ draft' = [draft EXCEPT !.version =
                  [p \in DOMAIN @ \cup {k} |-> IF p = k THEN disk[k] ELSE @[p]]]
           /\ UNCHANGED <<checked, lock, sig, registry, step, changed, clean, pc>>
  <2>1. draft.doc \in Documents
    BY <1>1 DEF LoadInv
  <2>2. k \in Paths /\ disk[k] \in 1 .. MaxPublish
    BY <1>4, <2>1, SourcesAre, MapAssumption DEF FilesInv
  <2>3. draft'.doc = draft.doc /\ DOMAIN draft'.version = DOMAIN draft.version \cup {k}
    BY <1>4
  <2>4. \A p \in DOMAIN draft'.version :
            draft'.version[p] = IF p = k THEN disk[k] ELSE draft.version[p]
    BY <1>4
  <2>5. LoadInv'
    BY <1>1, <1>4, <2>2, <2>3, <2>4 DEF LoadInv, RequestsStill
  <2> QED
    BY <1>1, <1>4, <2>5, LoadGoesOn DEF GoesOnLoading, SignedInv
<1> QED
  BY <1>2, <1>3, <1>4

LEMMA InstallStep == MapInv /\ Install => MapInv'
<1> SUFFICES ASSUME MapInv, Install PROVE MapInv'
  OBVIOUS
<1> USE DEF MapInv
<1>1. /\ lock # Nobody /\ step = "keys" /\ RequestsStill
      /\ Sources(draft.doc) \subseteq DOMAIN draft.version
      /\ registry' = Parse(draft.doc, draft.version) /\ step' = "sign"
      /\ UNCHANGED <<checked, lock, sig, draft, changed, clean, pc>>
  BY DEF Install, Loading, RequestsStill, diskVars, reqVars
<1>2. draft.doc \in Documents /\ \A p \in Sources(draft.doc) : draft.version[p] \in 1 .. MaxPublish
  BY <1>1 DEF LoadInv
<1>3. Shaped(registry')
  BY <1>1, <1>2, ParseShaped
<1>4. LoadInv'
  BY <1>1, <1>3 DEF LoadInv, RequestsStill
<1> QED
  BY <1>1, <1>4, LoadGoesOn DEF GoesOnLoading, SignedInv

\* On files that stood still the signature is the one of what was read.
LEMMA SignStep == MapInv /\ Sign => MapInv'
<1> SUFFICES ASSUME MapInv, Sign PROVE MapInv'
  OBVIOUS
<1> USE DEF MapInv
<1>1. lock # Nobody /\ step = "sign" /\ RequestsStill
  BY DEF Sign, Loading, RequestsStill, diskVars
<1>2. CASE Failed
  BY <1>1, <1>2, FailedStep
<1>3. CASE /\ Statable(registry.sources) /\ sig' = Signature(registry.sources)
           /\ clean' = ~changed /\ Release /\ UNCHANGED <<registry, changed>>
  <2> DEFINE doc == draft.doc
  <2>1. doc \in Documents /\ registry = Parse(doc, draft.version) /\ Shaped(registry)
    BY <1>1 DEF LoadInv
  <2>2. registry.sources = Sources(doc)
    BY <2>1 DEF Parse
  <2>3. DOMAIN sig' = Sources(doc) /\ \A p \in Sources(doc) : sig'[p] = disk[p]
    BY <1>3, <2>2 DEF Signature
  <2>4. \A p \in Sources(doc) : disk[p] \in 1 .. published
    BY <1>3, <2>1, <2>2, SourcesAre, MapAssumption DEF Statable, FilesInv
  <2>5. ASSUME ~changed PROVE text = doc /\ registry = Parse(doc, sig')
    <3>1. text = doc /\ \A p \in Sources(doc) : draft.version[p] = disk[p]
      BY <1>1, <2>5 DEF LoadInv
    <3>2. \A p \in Sources(doc) : draft.version[p] = sig'[p]
      BY <2>3, <3>1
    <3> HIDE DEF doc
    <3>3. Parse(doc, draft.version) = Parse(doc, sig')
      BY <2>1, <3>2, ParseReadsSources
    <3> QED
      BY <2>1, <3>1, <3>3
  <2> HIDE DEF doc
  <2>6. SignedInv'
    <3>1. clean' \in BOOLEAN /\ DOMAIN sig' \subseteq Paths
      BY <1>3, <2>1, <2>3, SourcesAre DEF LoadInv
    <3>2. clean' => /\ doc \in Documents /\ registry' = Parse(doc, sig') /\ DOMAIN sig' = Sources(doc)
                    /\ \A p \in DOMAIN sig' : sig'[p] \in 1 .. published'
                    /\ text' = doc
      BY <1>1, <1>3, <2>1, <2>3, <2>4, <2>5 DEF RequestsStill
    <3> QED
      BY <3>1, <3>2 DEF SignedInv
  <2> QED
    BY <1>1, <1>3, <2>1, <2>6, ReleaseStep
<1> QED
  BY <1>2, <1>3 DEF Sign

-----------------------------------------------------------------------------
(* The theorems *)

LEMMA MapStep == MapInv /\ [Next]_vars => MapInv'
<1> SUFFICES ASSUME MapInv, [Next]_vars PROVE MapInv'
  OBVIOUS
<1>1. CASE Publish \/ Tick
  BY <1>1, PublishStep, TickStep
<1>2. CASE Load
  BY <1>2, CompareStep, OpenUsersFileStep, ReadKeyFileStep, InstallStep, SignStep DEF Load
<1>3. ASSUME NEW t \in Threads, Arrive(t) \/ Request(t) PROVE MapInv'
  BY <1>3, ArriveStep, AskStep, AcquireStep, AnswerStep DEF Request
<1>4. CASE UNCHANGED vars
  BY <1>4 DEF vars, diskVars, loadVars, reqVars, MapInv, FilesInv, ClockInv, ThreadsInv, LoadInv, SignedInv
<1> QED
  BY <1>1, <1>2, <1>3, <1>4 DEF Next

\* The invariant of the user map: what a load has read so far, what its signature
\* stands for, and which threads may hold which registry (crawl4ai_usermap.py).
THEOREM MapInvariant == Spec => []MapInv
BY MapStart, MapStep, PTL DEF Spec

\* A signature that matches after a clean parse means that the registry is what
\* the files say, for any users, key files and documents, however the files are
\* replaced between the steps of the loads.
THEOREM RegistryStaysCurrent == Spec => []RegistryCurrent
<1>1. ASSUME MapInv PROVE RegistryCurrent
  <2> USE <1>1 DEF MapInv
  <2>1. TypeOK
    BY DEF TypeOK, FilesInv, ClockInv, ThreadsInv, LoadInv, SignedInv, Shaped
  <2>2. ASSUME clean, lock = Nobody, sig = Signature(registry.sources)
        PROVE  registry = Parse(text, disk)
    <3>1. PICK doc \in Documents :
            /\ registry = Parse(doc, sig)
            /\ DOMAIN sig = Sources(doc)
            /\ text = doc \/ sig[UsersFile] # disk[UsersFile]
      BY <2>2 DEF SignedInv, LoadInv
    <3>2. \A p \in Sources(doc) : sig[p] = disk[p]
      BY <2>2, <3>1 DEF Signature, Parse
    <3>3. text = doc
      BY <3>1, <3>2, SourcesAre
    <3>4. Parse(doc, sig) = Parse(doc, disk)
      BY <3>2, ParseReadsSources
    <3> QED
      BY <3>1, <3>3, <3>4
  <2> QED
    BY <2>1, <2>2 DEF RegistryCurrent, CleanMeansCurrent
<1> QED
  BY <1>1, MapInvariant, PTL

\* What the action properties say of a step.
CheckIsSpaced == checked' # checked /\ lock # Server => checked' >= checked + Interval

PaidByItsOwner ==
    \A t \in Threads : (out'[t] # out[t] /\ out'[t] \in Key \cup {Default}) =>
        \/ out'[t] = Default /\ caller[t] = Operator
        \/ /\ caller[t] \in DOMAIN registry.users
           /\ registry.users[caller[t]].llm
           /\ registry.users[caller[t]].key = (IF out'[t] = Default THEN NoKey ELSE out'[t])

\* Two checks of the files are an interval apart, for any number of threads.
THEOREM ChecksAreSpaced == Spec => ChecksSpaced
<1>1. [Next]_vars => [CheckIsSpaced]_vars
  <2> SUFFICES ASSUME Next, checked' # checked, lock # Server
               PROVE  checked' >= checked + Interval
    BY DEF CheckIsSpaced
  <2>1. PICK t \in Threads : Acquire(t)
    BY DEF Next, Publish, Tick, Load, Compare, OpenUsersFile, ReadKeyFile, Install, Sign, Failed, Restart,
       KeepPrevious, Release, Arrive, Request, Ask, Authenticate, Precheck, ApiToken, loadVars
  <2> QED
    BY <2>1 DEF Acquire, StillDue, Due
<1> QED
  BY <1>1, PTL DEF Spec, ChecksSpaced, CheckIsSpaced

\* A user dropped by a reload in the middle of a request pays with no key, and
\* nobody pays with the key of another, however reloads fall between the three
\* questions of a request.
THEOREM RemovedPaysNothing == Spec => RemovedGetsNothing
<1>1. MapInv /\ [Next]_vars => [PaidByItsOwner]_vars
  <2> SUFFICES ASSUME MapInv, Next, NEW t \in Threads,
                      out'[t] # out[t], out'[t] \in Key \cup {Default}
               PROVE  \/ out'[t] = Default /\ caller[t] = Operator
                      \/ /\ caller[t] \in DOMAIN registry.users
                         /\ registry.users[caller[t]].llm
                         /\ registry.users[caller[t]].key = (IF out'[t] = Default THEN NoKey ELSE out'[t])
    BY DEF PaidByItsOwner
  <2> USE DEF MapInv
  <2>1. PICK s \in Threads : Arrive(s) \/ Authenticate(s) \/ Precheck(s) \/ ApiToken(s)
    BY DEF Next, Publish, Tick, Load, Compare, OpenUsersFile, ReadKeyFile, Install, Sign,
       Request, Ask, Acquire, reqVars
  <2>2. /\ {NoAnswer, Unauthorized, Denied} \cap (Key \cup {Default}) = {}
    BY DEF NoAnswer, Unauthorized, Denied, Default, Key
  <2>3. out \in [Threads -> Outcomes] /\ \E o : out' = [out EXCEPT ![s] = o]
    BY <2>1 DEF ThreadsInv, Arrive, Authenticate, Precheck, ApiToken, Ends, GoesOn
  <2>4. s = t
    BY <2>3
  <2>5. ApiToken(t)
    BY <2>1, <2>2, <2>3, <2>4 DEF Arrive, Authenticate, Precheck, Ends, GoesOn
  <2>6. pc[t] = "answer" /\ out'[t] = Decide(caller[t]) /\ caller[t] \in Callers
    BY <2>3, <2>5 DEF ApiToken, Ends, ThreadsInv
  <2> QED
    BY <2>6, AnswersFromRegistry, DecideIs
<1> QED
  BY <1>1, MapInvariant, PTL DEF Spec, RemovedGetsNothing, PaidByItsOwner

-----------------------------------------------------------------------------
(* The KVM switch *)

Codes == Ports \cup {Foreign}
Only(codes, p) == \A n \in 1 .. Len(codes) : codes[n] = p

KvmTyped ==
    /\ mode \in {"detect", "probe", "serving", "aborted"}
    /\ routed \in Ports /\ active \in Ports \cup {NoPort} /\ beating \in BOOLEAN
    /\ wire \in Seq(Codes) /\ Len(wire) <= WireMax
    /\ buf \in Seq(Codes) /\ Len(buf) <= BufMax /\ chunk \in Seq(Codes)
    /\ mon \in {"check", "read", "parse"} /\ reset \in BOOLEAN
    /\ events \in Nat

\* The lock is held by the handler that talks to the device, and by no other.
OneTalks ==
    /\ holder \in Handlers \cup {NoPort}
    /\ hand \in [Handlers -> [pc : {"idle", "lock", "command", "signal", "publish"},
                              port : Ports \cup {NoPort}, new : Ports \cup {NoPort}]]
    /\ \A h \in Handlers : /\ hand[h].pc = "command" <=> holder = h
                           /\ hand[h].pc # "idle" => hand[h].port \in Ports

\* Before the server serves nothing else runs, and until somebody switches every
\* code that is on its way names the port the device shows.
FirstPort ==
    /\ mode # "serving" => mon = "check" /\ events = 0 /\ buf = <<>> /\ chunk = <<>>
    /\ mode = "probe" => active \in Ports
    /\ events = 0 => /\ \A h \in Handlers : hand[h].pc = "idle"
                     /\ Only(wire, routed) /\ Only(buf, routed) /\ Only(chunk, routed)
                     /\ mode = "serving" => active = routed

KvmInv == KvmTyped /\ OneTalks /\ FirstPort

LEMMA ParsedIs ==
    ASSUME NEW codes \in Seq(Codes)
    PROVE  /\ Parsed(codes) \in Ports \cup {NoPort}
           /\ \A p \in Ports : Only(codes, p) /\ Parsed(codes) # NoPort => Parsed(codes) = p
<1>1. CASE codes = <<>>
  BY <1>1 DEF Parsed
<1>2. CASE codes # <<>>
  <2>1. Len(codes) \in Nat /\ 1 <= Len(codes) /\ codes[1] \in Codes
    BY <1>2
  <2>2. CASE codes[1] = Foreign
    BY <2>2 DEF Parsed
  <2>3. CASE codes[1] # Foreign
    <3>1. Parsed(codes) = codes[1] /\ codes[1] \in Ports
      BY <1>2, <2>1, <2>3 DEF Parsed, Codes
    <3>2. \A p \in Ports : Only(codes, p) => codes[1] = p
      BY <2>1 DEF Only
    <3> QED
      BY <3>1, <3>2
  <2> QED
    BY <2>2, <2>3
<1> QED
  BY <1>1, <1>2

\* What the cut leaves of the buffer is an end of it.
LEMMA CutIs ==
    ASSUME NEW codes \in Seq(Codes)
    PROVE  /\ Cut(codes) \in Seq(Codes) /\ Len(Cut(codes)) <= BufMax
           /\ \A p \in Ports : Only(codes, p) => Only(Cut(codes), p)
<1>1. BufMax \in Nat /\ BufKeep \in Nat /\ 1 <= BufKeep /\ BufKeep <= BufMax /\ Len(codes) \in Nat
  BY KvmAssumption
<1>2. CASE Len(codes) > BufMax
  <2>1. PICK low : low = Len(codes) - BufKeep + 1
    OBVIOUS
  <2>2. PICK c : c = SubSeq(codes, low, Len(codes))
    OBVIOUS
  <2>3. Cut(codes) = c
    BY <1>2, <2>1, <2>2 DEF Cut
  <2>4. low \in 1 .. Len(codes) /\ Len(codes) - low + 1 = BufKeep
    BY <1>1, <1>2, <2>1
  <2>5. c \in Seq(Codes) /\ Len(c) = BufKeep /\ \A n \in 1 .. BufKeep : c[n] = codes[low + n - 1]
    BY <1>1, <2>2, <2>4
  <2>6. \A n \in 1 .. BufKeep : low + n - 1 \in 1 .. Len(codes)
    BY <1>1, <2>4
  <2>7. \A p \in Ports : Only(codes, p) => Only(c, p)
    BY <2>5, <2>6 DEF Only
  <2> QED
    BY <1>1, <2>3, <2>5, <2>7
<1>3. CASE ~(Len(codes) > BufMax)
  BY <1>1, <1>3 DEF Cut
<1> QED
  BY <1>2, <1>3

LEMMA JoinIs ==
    ASSUME NEW s \in Seq(Codes), NEW t \in Seq(Codes)
    PROVE  s \o t \in Seq(Codes) /\ \A p \in Ports : Only(s, p) /\ Only(t, p) => Only(s \o t, p)
<1>1. s \o t \in Seq(Codes) /\ Len(s \o t) = Len(s) + Len(t) /\ Len(s) \in Nat /\ Len(t) \in Nat
  OBVIOUS
<1>2. ASSUME NEW p \in Ports, Only(s, p), Only(t, p), NEW n \in 1 .. Len(s \o t) PROVE (s \o t)[n] = p
  <2>1. n \in 1 .. Len(s) + Len(t)
    BY <1>1
  <2>2. (s \o t)[n] = IF n <= Len(s) THEN s[n] ELSE t[n - Len(s)]
    BY <2>1, ConcatProperties, Zenon
  <2>3. CASE n <= Len(s)
    BY <1>1, <1>2, <2>1, <2>2, <2>3 DEF Only
  <2>4. CASE ~(n <= Len(s))
    <3>1. n - Len(s) \in 1 .. Len(t)
      BY <1>1, <2>1, <2>4
    <3> QED
      BY <1>2, <2>2, <2>4, <3>1 DEF Only
  <2> QED
    BY <2>3, <2>4
<1> QED
  BY <1>1, <1>2 DEF Only

LEMMA NoCodes == <<>> \in Seq(Codes) /\ Len(<<>>) = 0 /\ \A p \in Ports : Only(<<>>, p)
BY DEF Only

LEMMA KvmStart == KvmInit => KvmInv
<1> SUFFICES ASSUME KvmInit PROVE KvmInv
  OBVIOUS
<1>1. mode = "detect" /\ routed \in Ports /\ beating \in BOOLEAN /\ wire = <<>> /\ buf = <<>> /\ chunk = <<>>
      /\ active = NoPort /\ mon = "check" /\ reset = FALSE /\ holder = NoPort /\ hand = [h \in Handlers |-> Idle]
      /\ events = 0
  BY DEF KvmInit
<1>2. KvmTyped
  <2>1. 0 <= WireMax /\ 0 <= BufMax
    BY KvmAssumption
  <2> QED
    BY <1>1, <2>1, NoCodes DEF KvmTyped
<1>3. OneTalks
  BY <1>1, KvmAssumption DEF OneTalks, Idle
<1>4. FirstPort
  BY <1>1, NoCodes DEF FirstPort, Idle
<1> QED
  BY <1>2, <1>3, <1>4 DEF KvmInv

\* Codes of the device, and buttons pressed on it.
LEMMA DeviceStep ==
    ASSUME KvmInv, Beat \/ Remote \/ \E p \in Ports : Press(p)
    PROVE  KvmInv'
<1> USE DEF KvmInv
<1>1. UNCHANGED <<mode, active, monVars, reset, holder, hand>>
  BY DEF Beat, Remote, Press
<1>2. OneTalks'
  BY <1>1 DEF OneTalks
<1>3. CASE Beat
  <2>1. wire' = Append(wire, routed) /\ Len(wire) < WireMax /\ UNCHANGED <<routed, beating, events>>
    BY <1>3 DEF Beat
  <2>2. wire' \in Seq(Codes) /\ Len(wire') = Len(wire) + 1 /\ Len(wire) \in Nat
        /\ \A n \in 1 .. Len(wire) + 1 : wire'[n] = IF n <= Len(wire) THEN wire[n] ELSE routed
    BY <2>1 DEF KvmTyped, Codes
  <2>3. Len(wire') <= WireMax
    BY <2>1, <2>2, KvmAssumption
  <2>4. Only(wire, routed) => Only(wire', routed)
    BY <2>2 DEF Only
  <2>5. KvmTyped'
    BY <1>1, <2>1, <2>2, <2>3 DEF KvmTyped, monVars
  <2>6. FirstPort'
    BY <1>1, <2>1, <2>4 DEF FirstPort, monVars, Only
  <2> QED
    BY <1>2, <2>5, <2>6
<1>4. CASE Remote
  <2>1. wire' = Append(wire, Foreign) /\ Len(wire) < WireMax /\ UNCHANGED <<routed, beating>>
        /\ events' = events + 1 /\ mode = "serving"
    BY <1>4 DEF Remote, Event
  <2>2. wire' \in Seq(Codes) /\ Len(wire') = Len(wire) + 1 /\ Len(wire) \in Nat
    BY <2>1 DEF KvmTyped, Codes
  <2>3. Len(wire') <= WireMax
    BY <2>1, <2>2, KvmAssumption
  <2>4. KvmTyped'
    BY <1>1, <2>1, <2>2, <2>3 DEF KvmTyped, monVars
  <2>5. FirstPort'
    BY <1>1, <2>1 DEF FirstPort, KvmTyped, monVars
  <2> QED
    BY <1>2, <2>4, <2>5
<1>5. ASSUME NEW p \in Ports, Press(p) PROVE KvmInv'
  <2>1. routed' = p /\ UNCHANGED <<beating, wire>> /\ events' = events + 1 /\ mode = "serving"
    BY <1>5 DEF Press, Event
  <2>2. KvmTyped'
    BY <1>1, <2>1 DEF KvmTyped, monVars
  <2>3. FirstPort'
    BY <1>1, <2>1 DEF FirstPort, KvmTyped, monVars
  <2> QED
    BY <1>2, <2>2, <2>3
<1> QED
  BY <1>3, <1>4, <1>5

\* The port is found before anything else moves.
LEMMA StartingStep ==
    ASSUME KvmInv, StartStep
    PROVE  KvmInv'
<1> USE DEF KvmInv
<1>1. UNCHANGED <<monVars, reset, holder, hand, events>> /\ mode # "serving" /\ wire' = <<>>
  BY DEF StartStep, Listen, Probe, ProbeBack
<1>2. OneTalks'
  BY <1>1 DEF OneTalks
<1>3. events = 0 /\ mon = "check" /\ Only(wire, routed) /\ Only(buf, routed) /\ Only(chunk, routed)
      /\ routed \in Ports /\ (\A h \in Handlers : hand[h].pc = "idle") /\ buf = <<>> /\ chunk = <<>>
  BY <1>1 DEF FirstPort, KvmTyped
<1>4. Len(wire') <= WireMax /\ wire' \in Seq(Codes) /\ \A p \in Ports : Only(wire', p)
  BY <1>1, NoCodes, KvmAssumption
<1>5. CASE Listen
  <2>1. Parsed(wire) # NoPort /\ active' = Parsed(wire) /\ mode' = "serving" /\ UNCHANGED <<routed, beating>>
    BY <1>5 DEF Listen
  <2>2. active' = routed
    BY <1>3, <2>1, ParsedIs DEF KvmTyped
  <2>3. KvmTyped'
    BY <1>1, <1>4, <2>1, <2>2 DEF KvmTyped, monVars
  <2>4. FirstPort'
    BY <1>1, <1>3, <1>4, <2>1, <2>2 DEF FirstPort, monVars, Only
  <2> QED
    BY <1>2, <2>3, <2>4
<1>6. CASE Probe
  <2>1. routed' = 1 /\ beating' = TRUE /\ 1 \in Ports
    BY <1>6, KvmAssumption DEF Probe, SwitchTo
  <2>2. PICK a \in Answers(1) :
            \/ a[1] = NoPort /\ mode' = "aborted" /\ UNCHANGED active
            \/ a[1] = 1 /\ mode' = "serving" /\ active' = 1
            \/ a[1] \notin {1, NoPort} /\ mode' = "probe" /\ active' = a[1]
    BY <1>6 DEF Probe
  <2>3. a[1] \in Ports \cup {NoPort}
    BY <1>3, <2>2 DEF Answers
  <2>4. /\ mode' \in {"aborted", "serving", "probe"} /\ active' \in Ports \cup {NoPort}
        /\ mode' = "serving" => active' = 1
        /\ mode' = "probe" => active' \in Ports
    BY <2>1, <2>2, <2>3 DEF KvmTyped
  <2>5. KvmTyped'
    BY <1>1, <1>4, <2>1, <2>4 DEF KvmTyped, monVars
  <2>6. Only(buf', routed') /\ Only(chunk', routed')
    BY <1>1, <1>3, <2>1, NoCodes DEF monVars
  <2>7. FirstPort'
    BY <1>1, <1>3, <1>4, <2>1, <2>4, <2>6 DEF FirstPort, monVars
  <2> QED
    BY <1>2, <2>5, <2>7
<1>7. CASE ProbeBack
  <2>1. mode = "probe" /\ routed' = active /\ beating' = TRUE /\ mode' = "serving" /\ active' = active
    BY <1>7 DEF ProbeBack, SwitchTo
  <2>2. active \in Ports
    BY <2>1 DEF FirstPort
  <2>3. KvmTyped'
    BY <1>1, <1>4, <2>1, <2>2 DEF KvmTyped, monVars
  <2>4. Only(buf', routed') /\ Only(chunk', routed')
    BY <1>1, <1>3, <2>1, <2>2, NoCodes DEF monVars
  <2>5. FirstPort'
    BY <1>1, <1>3, <1>4, <2>1, <2>2, <2>4 DEF FirstPort, monVars
  <2> QED
    BY <1>2, <2>3, <2>5
<1> QED
  BY <1>5, <1>6, <1>7 DEF StartStep

\* A heartbeat that is read and parsed names the port that is shown.
LEMMA MonitoringStep ==
    ASSUME KvmInv, MonitorStep
    PROVE  KvmInv'
<1> USE DEF KvmInv
<1>1. UNCHANGED <<mode, routed, beating, holder, hand, events>>
  BY DEF MonitorStep, MonitorCheck, MonitorRead, MonitorParse, deviceVars
<1>2. OneTalks'
  BY <1>1 DEF OneTalks
<1>3. CASE MonitorCheck
  <2>1. mode = "serving" /\ mon' = "read" /\ reset' = FALSE /\ buf' \in {<<>>, buf} /\ UNCHANGED <<wire, active, chunk>>
    BY <1>3 DEF MonitorCheck, deviceVars
  <2>2. buf' \in Seq(Codes) /\ Len(buf') <= BufMax /\ (Only(buf, routed) => Only(buf', routed))
    <3>1. <<>> \in Seq(Codes) /\ Len(<<>>) <= BufMax /\ Only(<<>>, routed)
      BY NoCodes, KvmAssumption DEF KvmTyped
    <3>2. CASE buf' = <<>>
      BY <3>1, <3>2, Zenon
    <3>3. CASE buf' = buf
      BY <3>3, Zenon DEF KvmTyped
    <3> QED
      BY <2>1, <3>2, <3>3
  <2>3. KvmTyped'
    BY <1>1, <2>1, <2>2 DEF KvmTyped
  <2>4. FirstPort'
    BY <1>1, <2>1, <2>2 DEF FirstPort, Only
  <2> QED
    BY <1>2, <2>3, <2>4
<1>4. CASE MonitorRead
  <2>1. mon = "read" /\ chunk' = wire /\ wire' = <<>> /\ mon' \in {"check", "parse"} /\ UNCHANGED <<active, buf, reset>>
    BY <1>4 DEF MonitorRead
  <2>2. mode = "serving"
    BY <2>1 DEF FirstPort
  <2>3. wire' \in Seq(Codes) /\ Len(wire') <= WireMax /\ Only(wire', routed)
    BY <2>1, NoCodes, KvmAssumption DEF KvmTyped
  <2>4. KvmTyped'
    BY <1>1, <2>1, <2>3 DEF KvmTyped
  <2>5. FirstPort'
    BY <1>1, <2>1, <2>2, <2>3 DEF FirstPort, Only
  <2> QED
    BY <1>2, <2>4, <2>5
<1>5. CASE MonitorParse
  <2>1. PICK all : all = buf \o chunk
    OBVIOUS
  <2>2. /\ mon = "parse" /\ mon' = "check" /\ chunk' = <<>> /\ UNCHANGED <<wire, reset>>
        /\ \/ Parsed(all) # NoPort /\ active' = Parsed(all) /\ buf' = <<>>
           \/ UNCHANGED active /\ buf' = Cut(all)
    BY <1>5, <2>1 DEF MonitorParse, deviceVars
  <2>3. mode = "serving" /\ routed \in Ports
    BY <2>2 DEF FirstPort, KvmTyped
  <2>4. all \in Seq(Codes) /\ (Only(buf, routed) /\ Only(chunk, routed) => Only(all, routed))
    BY <2>1, <2>3, JoinIs DEF KvmTyped
  <2>5. active' \in Ports \cup {NoPort} /\ (Only(all, routed) /\ active = routed => active' = routed)
    BY <2>2, <2>3, <2>4, ParsedIs DEF KvmTyped
  <2>6. buf' \in Seq(Codes) /\ Len(buf') <= BufMax /\ (Only(all, routed) => Only(buf', routed))
    <3>1. Cut(all) \in Seq(Codes) /\ Len(Cut(all)) <= BufMax /\ (Only(all, routed) => Only(Cut(all), routed))
      BY <2>3, <2>4, CutIs
    <3>2. <<>> \in Seq(Codes) /\ Len(<<>>) <= BufMax /\ Only(<<>>, routed)
      BY <2>3, NoCodes, KvmAssumption
    <3>3. buf' \in {<<>>, Cut(all)}
      BY <2>2
    <3> QED
      BY <3>1, <3>2, <3>3
  <2>7. chunk' \in Seq(Codes) /\ Only(chunk', routed)
    BY <2>2, <2>3, NoCodes
  <2>8. KvmTyped'
    BY <1>1, <2>2, <2>5, <2>6, <2>7 DEF KvmTyped
  <2>9. FirstPort'
    BY <1>1, <2>2, <2>3, <2>4, <2>5, <2>6, <2>7 DEF FirstPort, Only
  <2> QED
    BY <1>2, <2>8, <2>9
<1> QED
  BY <1>3, <1>4, <1>5 DEF MonitorStep

\* A request holds the lock while it talks to the device, and nobody else then.
LEMMA RequestStep ==
    ASSUME KvmInv, NEW h \in Handlers, HandlerStep(h) \/ \E p \in Ports : SwitchRequest(h, p)
    PROVE  KvmInv'
<1> USE DEF KvmInv
<1>1. UNCHANGED <<mode, monVars>> /\ hand \in [Handlers -> [pc : {"idle", "lock", "command", "signal", "publish"},
                                                           port : Ports \cup {NoPort}, new : Ports \cup {NoPort}]]
  BY DEF HandlerStep, TakeLine, Command, Signal, PublishPort, SwitchRequest, deviceVars, OneTalks
<1>2. <<>> \in Seq(Codes) /\ Len(<<>>) <= WireMax /\ \A p \in Ports : Only(<<>>, p)
  BY NoCodes, KvmAssumption
<1>3. ASSUME NEW p \in Ports, SwitchRequest(h, p) PROVE KvmInv'
  <2>1. /\ events' = events + 1 /\ mode = "serving" /\ hand[h].pc = "idle"
        /\ hand' = [hand EXCEPT ![h] = [pc |-> "lock", port |-> p, new |-> NoPort]]
        /\ UNCHANGED <<routed, beating, wire, active, reset, holder>>
    BY <1>3 DEF SwitchRequest, Event, deviceVars
  <2>2. KvmTyped'
    BY <1>1, <2>1 DEF KvmTyped, monVars
  <2>3. OneTalks'
    BY <1>1, <2>1 DEF OneTalks
  <2>4. FirstPort'
    BY <1>1, <2>1 DEF FirstPort, KvmTyped, monVars
  <2> QED
    BY <2>2, <2>3, <2>4
<1>4. CASE HandlerStep(h)
  <2>1. hand[h].pc # "idle" /\ events' = events
    BY <1>4 DEF HandlerStep, TakeLine, Command, Signal, PublishPort
  <2>2. events # 0 /\ mode = "serving"
    BY <2>1 DEF FirstPort
  <2>3. FirstPort'
    BY <1>1, <2>1, <2>2 DEF FirstPort
  <2>4. hand[h].port \in Ports /\ hand[h].new \in Ports \cup {NoPort}
    BY <1>1, <2>1 DEF OneTalks
  <2>5. CASE TakeLine(h)
    <3>1. /\ hand[h].pc = "lock" /\ holder = NoPort /\ holder' = h /\ wire' = <<>>
          /\ hand' = [hand EXCEPT ![h].pc = "command"] /\ UNCHANGED <<routed, beating, active, reset>>
      BY <2>5 DEF TakeLine
    <3>2. \A g \in Handlers : hand[g].pc # "command"
      BY <3>1, KvmAssumption DEF OneTalks
    <3>3. KvmTyped'
      BY <1>1, <1>2, <2>1, <3>1 DEF KvmTyped, monVars
    <3>4. OneTalks'
      BY <1>1, <2>4, <3>1, <3>2 DEF OneTalks
    <3> QED
      BY <2>3, <3>3, <3>4
  <2>6. CASE Command(h)
    <3>1. /\ hand[h].pc = "command" /\ routed' = hand[h].port /\ beating' = TRUE /\ wire' = <<>> /\ holder' = NoPort
          /\ UNCHANGED <<active, reset>>
      BY <2>6 DEF Command, SwitchTo
    <3>2. PICK a \in Answers(hand[h].port) : hand' = [hand EXCEPT ![h].pc = "signal", ![h].new = a[2]]
      BY <2>6 DEF Command
    <3>3. a[2] \in Ports \cup {NoPort}
      BY <2>4, <3>2 DEF Answers
    <3>4. \A g \in Handlers : hand[g].pc = "command" => g = h
      BY <3>1 DEF OneTalks
    <3>5. KvmTyped'
      BY <1>1, <1>2, <2>1, <2>4, <3>1 DEF KvmTyped, monVars
    <3>6. OneTalks'
      <4>1. hand' \in [Handlers -> [pc : {"idle", "lock", "command", "signal", "publish"},
                                    port : Ports \cup {NoPort}, new : Ports \cup {NoPort}]]
        BY <1>1, <3>2, <3>3
      <4>2. /\ hand'[h].pc = "signal" /\ hand'[h].port = hand[h].port
            /\ \A g \in Handlers : g # h => hand'[g] = hand[g]
        BY <1>1, <3>2
      <4>3. \A g \in Handlers : hand'[g].pc # "command" /\ (hand'[g].pc # "idle" => hand'[g].port \in Ports)
        BY <2>4, <3>4, <4>2 DEF OneTalks
      <4>4. \A g \in Handlers : g # NoPort
        BY KvmAssumption
      <4> QED
        BY <3>1, <4>1, <4>3, <4>4 DEF OneTalks
    <3> QED
      BY <2>3, <3>5, <3>6
  <2>7. CASE Signal(h)
    <3>1. /\ hand[h].pc = "signal" /\ reset' = TRUE /\ hand' = [hand EXCEPT ![h].pc = "publish"]
          /\ UNCHANGED <<routed, beating, wire, active, holder>>
      BY <2>7 DEF Signal, deviceVars
    <3>2. KvmTyped'
      BY <1>1, <2>1, <3>1 DEF KvmTyped, monVars
    <3>3. OneTalks'
      BY <1>1, <2>4, <3>1 DEF OneTalks
    <3> QED
      BY <2>3, <3>2, <3>3
  <2>8. CASE PublishPort(h)
    <3>1. /\ hand[h].pc = "publish" /\ active' \in Ports /\ hand' = [hand EXCEPT ![h] = Idle]
          /\ UNCHANGED <<routed, beating, wire, reset, holder>>
      BY <2>4, <2>8 DEF PublishPort, deviceVars
    <3>2. KvmTyped'
      BY <1>1, <2>1, <3>1 DEF KvmTyped, monVars
    <3>3. OneTalks'
      BY <1>1, <3>1 DEF OneTalks, Idle
    <3> QED
      BY <2>3, <3>2, <3>3
  <2> QED
    BY <1>4, <2>5, <2>6, <2>7, <2>8 DEF HandlerStep
<1> QED
  BY <1>3, <1>4

LEMMA KvmStep == KvmInv /\ [KvmNext]_kvmVars => KvmInv'
<1>1. ASSUME KvmInv, UNCHANGED kvmVars PROVE KvmInv'
  BY <1>1 DEF kvmVars, deviceVars, monVars, KvmInv, KvmTyped, OneTalks, FirstPort, Only
<1> QED
  BY <1>1, DeviceStep, StartingStep, MonitoringStep, RequestStep DEF KvmNext

\* The invariant that the other theorems follow from: the buffers of the monitor
\* stay bounded, one handler talks to the device, and nothing but the port the
\* device shows is on its way until somebody switches.
THEOREM KvmInvariant == KvmSpec => []KvmInv
BY KvmStart, KvmStep, PTL DEF KvmSpec

\* The server starts with the port the device really shows, whether it listened
\* or probed, for any number of ports and bounds of the buffer (detect_port).
THEOREM KvmStartsOnPort == KvmSpec => []StartsOnPort
<1>1. KvmInv => StartsOnPort
  BY DEF KvmInv, FirstPort, StartsOnPort
<1> QED
  BY <1>1, KvmInvariant, PTL

LEMMA KvmTypes == KvmInv => KvmTypeOK
BY KvmAssumption DEF KvmInv, KvmTyped, OneTalks, KvmTypeOK

-----------------------------------------------------------------------------
(* The three services of MCServices, side by side *)

\* Each service behaves as its own specification says but for its fairness, so
\* that what is proved of each holds of their common runs.
THEOREM ServicesRunEach ==
    ServicesSpec => [](KvmInv /\ BridgeInv /\ RefresherInv)
<1>1. ServicesInit => KvmInv /\ BridgeInv /\ RefresherInv
  BY KvmStart, BridgeStart, RefresherStart DEF ServicesInit
<1>2. [ServicesNext]_serviceAll => [KvmNext]_kvmVars /\ [BridgeNext]_bridgeVars /\ [RefresherNext]_refresherVars
  <2> SUFFICES ASSUME [ServicesNext]_serviceAll
               PROVE  [KvmNext]_kvmVars /\ [BridgeNext]_bridgeVars /\ [RefresherNext]_refresherVars
    OBVIOUS
  <2>1. CASE RunKvm(KvmNext)
    BY <2>1 DEF RunKvm
  <2>2. CASE RunBridge(BridgeNext)
    BY <2>2 DEF RunBridge
  <2>3. CASE RunRefresher(RefresherNext)
    BY <2>3 DEF RunRefresher
  <2>4. CASE UNCHANGED serviceAll
    BY <2>4 DEF serviceAll
  <2> QED
    BY <2>1, <2>2, <2>3, <2>4 DEF ServicesNext
<1> QED
  BY <1>1, <1>2, KvmStep, BridgeStep, RefresherStep, PTL DEF ServicesSpec

\* The buffer of the KVM monitor, its lock, the alerts and the ages of the state
\* file stay within their bounds.
THEOREM ServicesKeepTypes == ServicesSpec => []ServicesTypeOK
<1>1. KvmInv /\ BridgeInv /\ RefresherInv => ServicesTypeOK
  <2>1. BridgeInv => BridgeTypeOK
    BY DEF BridgeInv, AlertsTyped, KeelInv, BridgeTypeOK, Statuses
  <2>2. RefresherInv => RefresherTypeOK
    BY DEF RefresherInv
  <2> QED
    BY <2>1, <2>2, KvmTypes DEF ServicesTypeOK
<1> QED
  BY <1>1, ServicesRunEach, PTL

=============================================================================
