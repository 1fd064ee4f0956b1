----------------------------- MODULE Mail_proofs -----------------------------
(***************************************************************************)
(* Proofs about the Hermes mail gateway.  MailGateway: no mail reaches the *)
(* agent twice, and each is accounted for.  MailReply: a reply quotes the  *)
(* mail it answers, once.  MailAuth: what is handed over was vouched for.  *)
(* MCMail runs the three side by side.                                     *)
(***************************************************************************)
EXTENDS MCMail, TLAPS, SequenceTheorems, WellFoundedInduction

-----------------------------------------------------------------------------
(* The inductive invariant. *)

Touched(m) == fate[m] \notin {"away", "waiting"}

\* Only the running adapter waits or dispatches; what the poll task or the
\* thread has at hand where it stands.
Posted(a) ==
    /\ ad[a].pc \in {"idle", "dispatch"} => a = live
    /\ ad[a].pc = "finalize" /\ ad[a].after # "cancelled" => a = live
    /\ ad[a].pc \notin {"header", "body", "park"} => ad[a].todo = {}
    /\ ad[a].pc # "finalize" => ad[a].after = "next"
    /\ ad[a].pc = "finalize" => Current(ad[a].batch) \in ad[a].batch
    /\ ad[a].pc = "finalize" /\ ad[a].after # "next" => ad[a].batch = {Current(ad[a].batch)}
    /\ ad[a].pc = "park" => Current(ad[a].todo) \in ad[a].batch

\* What a search found has arrived; what an adapter has fetched is no longer
\* unread; what one has seen or fetched was looked at.
Known(a) ==
    /\ \A m \in ad[a].todo : fate[m] # "away"
    /\ \A m \in ad[a].batch : Touched(m) /\ m \notin unread
    /\ \A m \in ad[a].seen : Touched(m)

\* The finally comes after the decision.
DecidedFirst(a) == ad[a].pc = "finalize" => fate[Current(ad[a].batch)] \in Decided

\* What the running adapter has at hand of the mails handed over: one, to finalise it.
NoSecond(a) ==
    a = live => \A m \in Mails : handed[m] # 0 =>
        /\ m \notin ad[a].todo
        /\ m \in ad[a].batch => ad[a].pc = "finalize" /\ m = Current(ad[a].batch)

AdapterInv(a) == Posted(a) /\ Known(a) /\ DecidedFirst(a) /\ NoSecond(a)

MailInv(m) ==
    /\ m \in unread => fate[m] # "away"
    /\ fate[m] = "waiting" => m \in unread /\ at[m] = {"inbox"}
    /\ "done" \in at[m] => fate[m] \in Decided
    /\ fate[m] = "fetched" => \E a \in Adapters : m \in ad[a].batch
    /\ handed[m] <= 1
    /\ handed[m] # 0 => fate[m] \in Decided /\ m \notin unread

SnapshotInv == snapshot # NoSnapshot => \A m \in snapshot : Touched(m)

GatewayInv ==
    /\ TypeOK
    /\ \A a \in Adapters : AdapterInv(a)
    /\ \A m \in Mails : MailInv(m)
    /\ SnapshotInv

-----------------------------------------------------------------------------
(* The operators. *)

\* The mail at hand is one of those that are left.
LEMMA CurrentIn ==
    ASSUME NEW S \in SUBSET Mails, S # {}
    PROVE  Current(S) \in S
<1> DEFINE Less == {ss \in Nat \X Nat : ss[1] < ss[2]}
<1>1. IsWellFoundedOn(Less, Nat)
  BY NatLessThanWellFounded, Zenon DEF OpToRel
<1>2. S \subseteq Nat
  BY GatewayAssumption DEF Mails
<1>3. PICK x \in S : \A y \in S : ~(<<y, x>> \in Less)
  <2> HIDE DEF Less
  <2> QED BY <1>1, <1>2, WFMin
<1>4. \A y \in S : x \in Nat /\ y \in Nat /\ ~(y < x)
  BY <1>2, <1>3
<1>5. \A y \in S : x <= y
  BY <1>4
<1> QED BY <1>5 DEF Current

\* Trimming adds nothing.
LEMMA TrimLess == ASSUME NEW S PROVE Trim(S) \subseteq S
BY DEF Trim

\* A move leaves m somewhere, at most in one folder more; nothing else moves.
LEMMA Moved ==
    ASSUME TypeOK, NEW m \in Mails, NEW src \in Folders, NEW dst \in Folders, NEW ok \in BOOLEAN,
           at[m] # {}, MoveTo(m, src, dst, ok)
    PROVE  /\ at' \in [Mails -> SUBSET Folders]
           /\ at'[m] # {} /\ at'[m] \subseteq at[m] \cup {dst}
           /\ \A n \in Mails : n # m => at'[n] = at[n]
           /\ faults' \in 0 .. MaxFaults
<1>1. at \in [Mails -> SUBSET Folders] /\ faults \in 0 .. MaxFaults
  BY DEF TypeOK
<1> DEFINE gone == [at EXCEPT ![m] = (@ \ {src}) \cup {dst}]
           copied == [at EXCEPT ![m] = @ \cup {dst}]
<1>2. at' \in {at, gone, copied}
  BY DEF MoveTo
<1>3. faults' = faults \/ (faults < MaxFaults /\ faults' = faults + 1)
  BY DEF MoveTo, Fault, NoFault
<1>4. faults' \in 0 .. MaxFaults
  BY <1>1, <1>3, GatewayAssumption
<1> HIDE DEF MoveTo
<1> QED BY <1>1, <1>2, <1>4

\* What a thread finds out of m concerns m, and no decision.
LEMMA JudgedIs ==
    ASSUME TypeOK, NEW m \in Mails, NEW f
    PROVE  /\ \A n \in Mails : n # m => Judged(m, f)[n] = fate[n]
           /\ Judged(m, f)[m] = IF fate[m] \in Decided THEN fate[m] ELSE f
           /\ f \in Fates => Judged(m, f) \in [Mails -> Fates]
BY DEF TypeOK, Judged

-----------------------------------------------------------------------------
(* A step of one adapter. *)

\* What it may do to a mail: decisions stand, and nothing becomes untouched
\* again; what was fetched is in its batch or in that of another adapter.
MailStep(a, m) ==
    /\ fate'[m] = "away" <=> fate[m] = "away"
    /\ fate[m] \in Decided => fate'[m] \in Decided
    /\ fate'[m] = "waiting" => fate[m] = "waiting" /\ at'[m] = at[m] /\ (m \in unread => m \in unread')
    /\ at'[m] = {} <=> fate'[m] = "away"
    /\ "done" \in at'[m] => "done" \in at[m] \/ fate'[m] \in Decided
    /\ fate'[m] = "fetched" =>
          \/ m \in ad'[a].batch
          \/ /\ fate[m] = "fetched"
             /\ m \in ad[a].batch => \E b \in Adapters : b # a /\ m \in ad[b].batch
    /\ \/ handed'[m] = handed[m]
       \/ /\ handed[m] = 0 /\ handed'[m] = 1 /\ a = live
          /\ m \notin unread' /\ fate'[m] \in Decided

\* What it may become.
Proper(r) ==
    /\ r \in Adapter
    /\ r.pc \in {"off", "idle"} => r.batch = {}
    /\ r.pc \in {"body", "park"} => r.todo # {}
    /\ r.parked \subseteq r.batch

Elsewhere(a) ==
    /\ at' \in [Mails -> SUBSET Folders]
    /\ unread' \subseteq unread
    /\ fate' \in [Mails -> Fates]
    /\ handed' \in [Mails -> Nat]
    /\ live' = live \/ (a = live /\ live' = NoAdapter)
    /\ died' = died
    /\ faults' \in 0 .. MaxFaults

LEMMA OwnStep ==
    ASSUME GatewayInv, NEW a \in Adapters, NEW r, Proper(r),
           ad' = [ad EXCEPT ![a] = r],
           Elsewhere(a),
           snapshot' \in {snapshot, ad[a].seen},
           \A m \in Mails : MailStep(a, m),
           AdapterInv(a)'
    PROVE  GatewayInv'
<1> USE DEF GatewayInv
<1>1. ad \in [Adapters -> Adapter] /\ unread \subseteq Mails /\ fate \in [Mails -> Fates]
  BY DEF TypeOK
<1>2. ad'[a] = r /\ (\A b \in Adapters : b # a => ad'[b] = ad[b]) /\ ad' \in [Adapters -> Adapter]
  BY <1>1 DEF Proper
<1>3. \A m \in Mails : Touched(m) => Touched(m)'
  BY DEF MailStep, Touched
<1>4. ad[a].seen \subseteq Mails /\ \A m \in ad[a].seen : Touched(m)
  BY <1>1 DEF Adapter, AdapterInv, Known
<1>5. TypeOK'
  <2>1. snapshot' = NoSnapshot \/ snapshot' \subseteq Mails
    BY <1>4 DEF TypeOK
  <2>2. \A m \in Mails : fate'[m] = "away" <=> at'[m] = {}
    BY DEF MailStep
  <2>3. ASSUME NEW b \in Adapters
        PROVE  /\ ad'[b].pc \in {"off", "idle"} => ad'[b].batch = {}
               /\ ad'[b].pc \in {"body", "park"} => ad'[b].todo # {}
               /\ ad'[b].parked \subseteq ad'[b].batch
    <3>1. CASE b = a
      BY <1>2, <3>1 DEF Proper
    <3>2. CASE b # a
      BY <1>2, <3>2 DEF TypeOK
    <3> QED BY <3>1, <3>2
  <2>4. live' \in Adapters \cup {NoAdapter} /\ died' \subseteq Mails
    BY DEF Elsewhere, TypeOK
  <2>5. at' \in [Mails -> SUBSET Folders] /\ fate' \in [Mails -> Fates] /\ handed' \in [Mails -> Nat]
    BY DEF Elsewhere
  <2>6. unread' \subseteq Mails /\ faults' \in 0 .. MaxFaults
    BY <1>1 DEF Elsewhere
  <2> QED BY <1>2, <2>1, <2>2, <2>3, <2>4, <2>5, <2>6 DEF TypeOK
<1>6. ASSUME NEW b \in Adapters PROVE AdapterInv(b)'
  <2>1. CASE b = a
    BY <2>1
  <2>2. CASE b # a
    <3>1. ad'[b] = ad[b] /\ ad[b] \in Adapter /\ (b = live <=> b = live')
      BY <1>1, <1>2, <2>2, GatewayAssumption DEF Elsewhere
    <3>2. AdapterInv(b)
      OBVIOUS
    <3>3. Posted(b)'
      BY <3>1, <3>2 DEF Posted, AdapterInv, Elsewhere
    <3>4. Known(b)'
      <4>1. \A m \in ad[b].todo \cup ad[b].batch \cup ad[b].seen : m \in Mails
        BY <3>1 DEF Adapter
      <4> QED BY <3>1, <3>2, <4>1, <1>3 DEF Known, AdapterInv, Elsewhere, MailStep
    <3>5. DecidedFirst(b)'
      <4>1. ASSUME ad[b].pc = "finalize" PROVE fate'[Current(ad[b].batch)] \in Decided
        <5>1. Current(ad[b].batch) \in Mails /\ fate[Current(ad[b].batch)] \in Decided
          BY <3>1, <3>2, <4>1 DEF AdapterInv, Posted, DecidedFirst, Adapter
        <5> QED BY <5>1 DEF MailStep
      <4> QED BY <3>1, <4>1 DEF DecidedFirst
    <3>6. NoSecond(b)'
      <4>1. b = live => \A m \in Mails : handed'[m] = handed[m]
        BY <2>2 DEF MailStep
      <4> QED BY <3>1, <3>2, <4>1 DEF NoSecond, AdapterInv, Elsewhere
    <3> QED BY <3>3, <3>4, <3>5, <3>6 DEF AdapterInv
  <2> QED BY <2>1, <2>2
<1>7. ASSUME NEW m \in Mails PROVE MailInv(m)'
  <2>1. MailInv(m) /\ MailStep(a, m)
    OBVIOUS
  <2>2. (m \in unread => fate[m] # "away")' /\ (fate[m] = "waiting" => m \in unread /\ at[m] = {"inbox"})'
    BY <2>1 DEF MailInv, MailStep, Elsewhere
  <2>3. ("done" \in at[m] => fate[m] \in Decided)'
    BY <2>1 DEF MailInv, MailStep
  <2>4. (fate[m] = "fetched" => \E b \in Adapters : m \in ad[b].batch)'
    <3>1. CASE m \in ad'[a].batch
      BY <3>1
    <3>2. CASE m \notin ad'[a].batch /\ fate'[m] = "fetched"
      <4>1. PICK b \in Adapters : b # a /\ m \in ad[b].batch
        BY <2>1, <3>2 DEF MailInv, MailStep
      <4> QED BY <4>1, <1>2
    <3> QED BY <3>1, <3>2
  <2>5. (handed[m] <= 1)' /\ (handed[m] # 0 => fate[m] \in Decided /\ m \notin unread)'
    BY <2>1 DEF MailInv, MailStep, Elsewhere
  <2> QED BY <2>2, <2>3, <2>4, <2>5 DEF MailInv
<1>8. SnapshotInv'
  <2>1. \A m \in ad[a].seen : Touched(m)'
    BY <1>3, <1>4
  <2>2. SnapshotInv /\ (snapshot = NoSnapshot \/ snapshot \subseteq Mails)
    BY DEF TypeOK
  <2> QED BY <1>3, <2>1, <2>2 DEF SnapshotInv
<1> QED BY <1>5, <1>6, <1>7, <1>8

\* A step that only concerns what an adapter is about to do.
LEMMA QuietStep ==
    ASSUME GatewayInv, NEW a \in Adapters, NEW r, Proper(r),
           ad' = [ad EXCEPT ![a] = r],
           UNCHANGED <<boxVars, live, snapshot, histVars>>,
           Fault \/ NoFault,
           ad[a].batch \subseteq r.batch,
           AdapterInv(a)'
    PROVE  GatewayInv'
<1> USE DEF boxVars, histVars
<1>1. TypeOK
  BY DEF GatewayInv
<1>2. faults' \in 0 .. MaxFaults
  BY <1>1, GatewayAssumption DEF TypeOK, Fault, NoFault
<1>3. Elsewhere(a)
  BY <1>1, <1>2 DEF TypeOK, Elsewhere
<1>4. ad'[a] = r
  BY <1>1 DEF TypeOK
<1>5. ASSUME NEW m \in Mails PROVE MailStep(a, m)
  BY <1>1, <1>4 DEF MailStep, TypeOK
<1> QED BY <1>3, <1>5, OwnStep

-----------------------------------------------------------------------------
(* The worker thread. *)

LEMMA FaultBound == ASSUME TypeOK, Fault \/ NoFault PROVE faults' \in 0 .. MaxFaults
BY GatewayAssumption DEF TypeOK, Fault, NoFault

LEMMA PollStep ==
    ASSUME GatewayInv, NEW a \in Adapters, Poll(a)
    PROVE  GatewayInv'
<1>1. TypeOK /\ AdapterInv(a) /\ ad[a] \in Adapter /\ ad[a].pc = "idle" /\ a = live
  BY DEF GatewayInv, TypeOK, Poll
<1>2. ad[a].batch = {} /\ ad[a].todo = {} /\ ad[a].after = "next" /\ ad[a].parked = {}
  BY <1>1 DEF TypeOK, AdapterInv, Posted
<1>3. PICK T \in SUBSET Candidates(a), f \in BOOLEAN :
         ad' = [ad EXCEPT ![a] = [ad[a] EXCEPT !.pc = "header", !.todo = T, !.failed = f]]
  <2>0. ad[a].failed \in BOOLEAN
    BY <1>1 DEF Adapter
  <2>1. CASE ad' = [ad EXCEPT ![a].pc = "header", ![a].todo = Candidates(a)]
    <3>1. ad' = [ad EXCEPT ![a] = [ad[a] EXCEPT !.pc = "header", !.todo = Candidates(a), !.failed = ad[a].failed]]
      BY <1>1, <1>2, <2>1 DEF Adapter
    <3> QED BY <2>0, <3>1
  <2>2. CASE ad' = [ad EXCEPT ![a].pc = "header"]
    <3>1. ad' = [ad EXCEPT ![a] = [ad[a] EXCEPT !.pc = "header", !.todo = {}, !.failed = ad[a].failed]]
      BY <1>1, <1>2, <2>2 DEF Adapter
    <3> QED BY <2>0, <3>1
  <2>3. CASE Lost(a)
    <3>1. ad' = [ad EXCEPT ![a] = [ad[a] EXCEPT !.pc = "header", !.todo = {}, !.failed = TRUE]]
      BY <1>1, <1>2, <2>3 DEF Adapter, Lost
    <3> QED BY <2>0, <3>1
  <2> QED BY <2>1, <2>2, <2>3 DEF Poll
<1> DEFINE r == [ad[a] EXCEPT !.pc = "header", !.todo = T, !.failed = f]
<1>4. T \subseteq unread /\ T \subseteq Mails
  BY <1>1 DEF Candidates, TypeOK
<1>5. Proper(r)
  BY <1>1, <1>2, <1>4 DEF Proper, Adapter
<1>6. /\ ad'[a] = r /\ r.pc = "header" /\ r.todo = T /\ r.batch = {} /\ r.after = "next"
      /\ r.seen = ad[a].seen
  BY <1>1, <1>2, <1>3 DEF TypeOK, Adapter
<1>7. UNCHANGED <<boxVars, live, snapshot, histVars>> /\ (Fault \/ NoFault)
  BY DEF Poll
<1> HIDE DEF r
<1>8. AdapterInv(a)'
  <2> USE <1>6, <1>7 DEF boxVars, histVars
  <2>1. Posted(a)'
    BY DEF Posted
  <2>2. Known(a)'
    BY <1>1, <1>4 DEF Known, AdapterInv, GatewayInv, MailInv, Touched
  <2>3. DecidedFirst(a)'
    BY DEF DecidedFirst
  <2>4. NoSecond(a)'
    BY <1>4 DEF NoSecond, GatewayInv, MailInv
  <2> QED BY <2>1, <2>2, <2>3, <2>4 DEF AdapterInv
<1>9. ad' = [ad EXCEPT ![a] = r]
  BY <1>3 DEF r
<1> QED BY <1>2, <1>5, <1>6, <1>7, <1>8, <1>9, QuietStep

\* The mail that the header is asked for.
LEMMA AtHeader ==
    ASSUME GatewayInv, NEW a \in Adapters, ad[a].pc \in {"header", "body", "park"}, ad[a].todo # {}
    PROVE  /\ TypeOK /\ AdapterInv(a) /\ ad[a] \in Adapter
           /\ ad[a].after = "next" /\ ad[a].parked \subseteq ad[a].batch
           /\ Current(ad[a].todo) \in ad[a].todo /\ Current(ad[a].todo) \in Mails
           /\ fate[Current(ad[a].todo)] # "away" /\ at[Current(ad[a].todo)] # {}
<1>1. TypeOK /\ AdapterInv(a) /\ ad[a] \in Adapter
  BY DEF GatewayInv, TypeOK
<1>2. ad[a].todo \in SUBSET Mails
  BY <1>1 DEF Adapter
<1>3. Current(ad[a].todo) \in ad[a].todo
  BY <1>2, CurrentIn
<1>4. fate[Current(ad[a].todo)] # "away"
  BY <1>1, <1>3 DEF AdapterInv, Known
<1>5. ad[a].after = "next" /\ ad[a].parked \subseteq ad[a].batch
  BY <1>1 DEF AdapterInv, Posted, TypeOK
<1> QED BY <1>1, <1>2, <1>3, <1>4, <1>5 DEF TypeOK

LEMMA HeaderStep ==
    ASSUME GatewayInv, NEW a \in Adapters, Header(a)
    PROVE  GatewayInv'
<1>1. ad[a].pc = "header" /\ ad[a].todo # {}
  BY DEF Header
<1>2. /\ TypeOK /\ AdapterInv(a) /\ ad[a] \in Adapter
      /\ ad[a].after = "next" /\ ad[a].parked \subseteq ad[a].batch
  BY <1>1, AtHeader
<1>3. PICK p \in {"header", "body"}, T \in SUBSET ad[a].todo, f \in BOOLEAN :
         /\ ad' = [ad EXCEPT ![a] = [ad[a] EXCEPT !.pc = p, !.todo = T, !.failed = f]]
         /\ p = "body" => T # {}
  <2> DEFINE m == Current(ad[a].todo)
  <2>0. ad[a].failed \in BOOLEAN
    BY <1>2 DEF Adapter
  <2>1. CASE ad' = [ad EXCEPT ![a].pc = "body"]
    <3>1. ad' = [ad EXCEPT ![a] = [ad[a] EXCEPT !.pc = "body", !.todo = ad[a].todo, !.failed = ad[a].failed]]
      BY <1>2, <2>1 DEF Adapter
    <3> QED BY <1>1, <2>0, <3>1
  <2>2. CASE NextMail(a, m)
    <3>1. ad' = [ad EXCEPT ![a] = [ad[a] EXCEPT !.pc = "header", !.todo = ad[a].todo \ {m}, !.failed = ad[a].failed]]
      BY <1>2, <2>2 DEF Adapter, NextMail
    <3> QED BY <2>0, <3>1
  <2>3. CASE Lost(a)
    <3>1. ad' = [ad EXCEPT ![a] = [ad[a] EXCEPT !.pc = "header", !.todo = {}, !.failed = TRUE]]
      BY <1>2, <2>3 DEF Adapter, Lost
    <3> QED BY <2>0, <3>1
  <2> QED BY <2>1, <2>2, <2>3 DEF Header
<1> DEFINE r == [ad[a] EXCEPT !.pc = p, !.todo = T, !.failed = f]
<1>4. Proper(r)
  BY <1>2, <1>3 DEF Proper, Adapter
<1>5. /\ ad'[a] = r /\ r.pc \in {"header", "body"} /\ r.todo \subseteq ad[a].todo
      /\ r.batch = ad[a].batch /\ r.after = "next" /\ r.seen = ad[a].seen
  BY <1>2, <1>3 DEF TypeOK, Adapter
<1>6. UNCHANGED <<boxVars, live, snapshot, histVars>> /\ (Fault \/ NoFault)
  BY DEF Header
<1>7. ad' = [ad EXCEPT ![a] = r]
  BY <1>3
<1> HIDE DEF r
<1>8. AdapterInv(a)'
  <2> USE <1>5, <1>6 DEF boxVars, histVars
  <2>1. Posted(a)'
    BY DEF Posted
  <2>2. Known(a)'
    BY <1>2 DEF Known, AdapterInv, Touched
  <2>3. DecidedFirst(a)'
    BY DEF DecidedFirst
  <2>4. NoSecond(a)'
    BY <1>1, <1>2 DEF NoSecond, AdapterInv
  <2> QED BY <2>1, <2>2, <2>3, <2>4 DEF AdapterInv
<1> QED BY <1>4, <1>5, <1>6, <1>7, <1>8, QuietStep

LEMMA ConsumeStep ==
    ASSUME GatewayInv, NEW a \in Adapters, Consume(a)
    PROVE  GatewayInv'
<1>1. ad[a].pc = "header" /\ ad[a].todo # {}
  BY DEF Consume
<1>0. PICK m \in Mails : m = Current(ad[a].todo)
  BY <1>1, AtHeader
<1>2. /\ TypeOK /\ AdapterInv(a) /\ ad[a] \in Adapter
      /\ ad[a].after = "next" /\ ad[a].parked \subseteq ad[a].batch
      /\ m \in ad[a].todo /\ m \in Mails /\ fate[m] # "away" /\ at[m] # {}
  BY <1>0, <1>1, AtHeader
<1>3. PICK T \in SUBSET ad[a].todo, f \in BOOLEAN :
         ad' = [ad EXCEPT ![a] = [ad[a] EXCEPT !.seen = Trim(ad[a].seen \cup {m}), !.todo = T, !.failed = f]]
  <2> DEFINE noted == [ad[a] EXCEPT !.seen = Trim(@ \cup {m})]
  <2>0. ad[a].failed \in BOOLEAN
    BY <1>2 DEF Adapter
  <2>1. CASE ad' = [ad EXCEPT ![a] = [noted EXCEPT !.todo = @ \ {m}]]
    <3>1. ad' = [ad EXCEPT ![a] = [ad[a] EXCEPT !.seen = Trim(ad[a].seen \cup {m}), !.todo = ad[a].todo \ {m},
                                                !.failed = ad[a].failed]]
      BY <1>2, <2>1 DEF Adapter
    <3> QED BY <2>0, <3>1
  <2>2. CASE ad' = [ad EXCEPT ![a] = [noted EXCEPT !.todo = {}, !.failed = TRUE]]
    <3>1. ad' = [ad EXCEPT ![a] = [ad[a] EXCEPT !.seen = Trim(ad[a].seen \cup {m}), !.todo = {}, !.failed = TRUE]]
      BY <1>2, <2>2 DEF Adapter
    <3> QED BY <2>0, <3>1
  <2> QED BY <1>0, <2>1, <2>2 DEF Consume
<1> DEFINE r == [ad[a] EXCEPT !.seen = Trim(ad[a].seen \cup {m}), !.todo = T, !.failed = f]
<1>4. Trim(ad[a].seen \cup {m}) \subseteq ad[a].seen \cup {m}
  BY TrimLess
<1>5. Proper(r)
  BY <1>1, <1>2, <1>3, <1>4 DEF Proper, Adapter
<1>6. /\ ad'[a] = r /\ r.pc = "header" /\ r.todo \subseteq ad[a].todo /\ r.batch = ad[a].batch
      /\ r.after = "next" /\ r.seen \subseteq ad[a].seen \cup {m}
  BY <1>1, <1>2, <1>3, <1>4 DEF TypeOK, Adapter
<1>7. /\ at' \in [Mails -> SUBSET Folders] /\ at'[m] # {}
      /\ \A n \in Mails : n # m => at'[n] = at[n]
      /\ faults' \in 0 .. MaxFaults
      /\ unread' \in {unread, unread \ {m}}
  <2>1. CASE \E ok \in BOOLEAN : MoveTo(m, "inbox", "done", ok) /\ unread' = unread \ {m}
    BY <1>2, <2>1, Moved DEF Folders
  <2>2. CASE Fault /\ unread' \in {unread, unread \ {m}} /\ at' = at
    BY <1>2, <2>2, FaultBound DEF TypeOK
  <2>3. CASE Fault /\ unread' = unread /\ at' = [at EXCEPT ![m] = (@ \ {"inbox"}) \cup {"done"}]
    BY <1>2, <2>3, FaultBound DEF TypeOK, Folders
  <2> QED BY <1>0, <2>1, <2>2, <2>3 DEF Consume
<1>8. /\ fate' \in [Mails -> Fates] /\ fate'[m] \in Decided
      /\ \A n \in Mails : n # m => fate'[n] = fate[n]
      /\ \A n \in Mails : fate[n] \in Decided => fate'[n] \in Decided
  BY <1>0, <1>2, JudgedIs DEF Consume, Decided, Fates
<1>9. UNCHANGED <<live, snapshot, handed, died>>
  BY DEF Consume
<1>10. ad' = [ad EXCEPT ![a] = r]
  BY <1>3
<1> HIDE DEF r
<1>11. Elsewhere(a)
  BY <1>2, <1>7, <1>8, <1>9 DEF Elsewhere, TypeOK
<1>12. ASSUME NEW n \in Mails PROVE MailStep(a, n)
  <2>1. CASE n = m
    BY <1>2, <1>7, <1>8, <1>9, <2>1 DEF MailStep, Decided
  <2>2. CASE n # m
    BY <1>2, <1>6, <1>7, <1>8, <1>9, <2>2 DEF MailStep, TypeOK
  <2> QED BY <2>1, <2>2
<1>13. AdapterInv(a)'
  <2> USE <1>6, <1>9
  <2>1. Posted(a)'
    BY DEF Posted
  <2>2. Known(a)'
    <3>1. \A n \in Mails : (fate[n] # "away" => fate'[n] # "away") /\ (Touched(n) => Touched(n)') /\ Touched(m)'
      BY <1>2, <1>8 DEF Touched, Decided
    <3>2. ad[a].todo \cup ad[a].batch \cup ad[a].seen \subseteq Mails
      BY <1>2 DEF Adapter
    <3> QED BY <1>2, <1>7, <3>1, <3>2 DEF Known, AdapterInv
  <2>3. DecidedFirst(a)'
    BY DEF DecidedFirst
  <2>4. NoSecond(a)'
    BY <1>1, <1>2 DEF NoSecond, AdapterInv
  <2> QED BY <2>1, <2>2, <2>3, <2>4 DEF AdapterInv
<1> QED BY <1>5, <1>9, <1>10, <1>11, <1>12, <1>13, OwnStep

LEMMA BodyStep ==
    ASSUME GatewayInv, NEW a \in Adapters, Body(a)
    PROVE  GatewayInv'
<1>1. ad[a].pc = "body" /\ ad[a].todo # {}
  BY DEF Body, GatewayInv, TypeOK
<1>0. PICK m \in Mails : m = Current(ad[a].todo)
  BY <1>1, AtHeader
<1>2. /\ TypeOK /\ AdapterInv(a) /\ ad[a] \in Adapter
      /\ ad[a].after = "next" /\ ad[a].parked \subseteq ad[a].batch
      /\ m \in ad[a].todo /\ fate[m] # "away" /\ at[m] # {}
  BY <1>0, <1>1, AtHeader
<1>3. MailInv(m)
  BY DEF GatewayInv
<1> DEFINE became(g) == IF fate[m] = "fetched" THEN fate ELSE Judged(m, g)
           Becomes(p, T, f, B, S) ==
             [ad[a] EXCEPT !.pc = p, !.todo = T, !.failed = f, !.batch = B, !.seen = S]
           More == Trim(ad[a].seen \cup {m})
           Looked(B, S) ==
             \/ UNCHANGED <<unread, fate>> /\ B = ad[a].batch /\ S = ad[a].seen
             \/ /\ Read(m) /\ B = ad[a].batch /\ S \in {ad[a].seen, More}
                /\ \E g \in {"swallowed", "garbage"} :
                       fate' = IF "inbox" \in at[m] THEN became(g) ELSE fate
             \/ Read(m) /\ B = ad[a].batch \cup {m} /\ S = More /\ fate' = Judged(m, "fetched")
<1>4. \E p \in {"header", "park"}, T \in SUBSET ad[a].todo, f \in BOOLEAN,
         B \in {ad[a].batch, ad[a].batch \cup {m}}, S \in {ad[a].seen, More} :
         /\ ad' = [ad EXCEPT ![a] = Becomes(p, T, f, B, S)]
         /\ p = "park" => T = ad[a].todo /\ m \in B
         /\ Looked(B, S)
         /\ Fault \/ NoFault
  <2>0. ad[a].failed \in BOOLEAN
    BY <1>2 DEF Adapter
  <2> DEFINE taken == [ad[a] EXCEPT !.seen = Trim(@ \cup {m})]
             skip == [taken EXCEPT !.pc = "header", !.todo = @ \ {m}]
  <2>1. CASE Fault /\ NextMail(a, m) /\ UNCHANGED <<unread, fate>>
    <3>1. ad' = [ad EXCEPT ![a] = Becomes("header", ad[a].todo \ {m}, ad[a].failed, ad[a].batch, ad[a].seen)]
      BY <1>2, <2>1 DEF Adapter, NextMail
    <3> QED BY <2>0, <2>1, <3>1
  <2>2. CASE Fault /\ Lost(a) /\ (\/ UNCHANGED <<unread, fate>>
                                  \/ /\ Read(m)
                                     /\ fate' = IF "inbox" \in at[m] THEN became("swallowed") ELSE fate)
    <3>1. ad' = [ad EXCEPT ![a] = Becomes("header", {}, TRUE, ad[a].batch, ad[a].seen)]
      BY <1>2, <2>2 DEF Adapter, Lost
    <3> QED BY <2>2, <3>1
  <2>3. CASE /\ NoFault /\ Read(m)
             /\ ad' = [ad EXCEPT ![a] = skip]
             /\ fate' = IF "inbox" \in at[m] THEN became("garbage") ELSE fate
    <3>1. ad' = [ad EXCEPT ![a] = Becomes("header", ad[a].todo \ {m}, ad[a].failed, ad[a].batch, More)]
      BY <1>2, <2>3 DEF Adapter
    <3> QED BY <2>0, <2>3, <3>1
  <2>4. CASE /\ NoFault /\ Read(m)
             /\ ad' = [ad EXCEPT ![a] = [taken EXCEPT !.pc = "park", !.batch = @ \cup {m}]]
             /\ fate' = Judged(m, "fetched")
    <3>1. ad' = [ad EXCEPT ![a] = Becomes("park", ad[a].todo, ad[a].failed, ad[a].batch \cup {m}, More)]
      BY <1>2, <2>4 DEF Adapter
    <3> QED BY <2>0, <2>4, <3>1
  <2>5. CASE /\ NoFault /\ Read(m)
             /\ ad' = [ad EXCEPT ![a] = [skip EXCEPT !.batch = @ \cup {m}]]
             /\ fate' = Judged(m, "fetched")
    <3>1. ad' = [ad EXCEPT ![a] = Becomes("header", ad[a].todo \ {m}, ad[a].failed, ad[a].batch \cup {m}, More)]
      BY <1>2, <2>5 DEF Adapter
    <3> QED BY <2>0, <2>5, <3>1
  <2> HIDE DEF Becomes, Looked, More
  <2> QED BY <1>0, <2>1, <2>2, <2>3, <2>4, <2>5 DEF Body
<1>5. PICK p \in {"header", "park"}, T \in SUBSET ad[a].todo, f \in BOOLEAN,
          B \in {ad[a].batch, ad[a].batch \cup {m}}, S \in {ad[a].seen, More} :
         /\ ad' = [ad EXCEPT ![a] = Becomes(p, T, f, B, S)]
         /\ p = "park" => T = ad[a].todo /\ m \in B
         /\ Looked(B, S)
         /\ Fault \/ NoFault
  BY <1>4
<1> DEFINE r == Becomes(p, T, f, B, S)
<1>6. S \subseteq ad[a].seen \cup {m}
  BY TrimLess
<1>7. Proper(r)
  BY <1>1, <1>2, <1>5, <1>6 DEF Proper, Adapter
<1>8. /\ ad' = [ad EXCEPT ![a] = r] /\ ad'[a] = r /\ r.pc = p /\ r.todo = T /\ r.batch = B
      /\ r.after = "next" /\ r.seen = S
  BY <1>2, <1>5 DEF TypeOK, Adapter
<1>9. /\ fate' \in [Mails -> Fates] /\ fate'[m] # "away"
      /\ \A n \in Mails : n # m => fate'[n] = fate[n]
      /\ unread' \in {unread, unread \ {m}}
      /\ fate[m] \in Decided => fate'[m] \in Decided
      /\ fate'[m] = "waiting" => fate[m] = "waiting" /\ unread' = unread
      /\ fate'[m] = "fetched" => m \in B \/ fate[m] = "fetched"
      /\ m \in B /\ m \notin ad[a].batch => m \notin unread'
      /\ (m \in B /\ m \notin ad[a].batch) \/ (m \in S /\ m \notin ad[a].seen) => fate'[m] # "waiting"
  <2>1. CASE UNCHANGED <<unread, fate>> /\ B = ad[a].batch /\ S = ad[a].seen
    BY <1>2, <2>1 DEF TypeOK
  <2>2. CASE Read(m) /\ B = ad[a].batch /\ fate' = fate /\ fate[m] # "waiting"
    BY <1>2, <2>2 DEF TypeOK, Read
  <2>3. CASE /\ Read(m) /\ B = ad[a].batch
             /\ \E g \in {"swallowed", "garbage"} : fate' = Judged(m, g)
    <3>1. PICK g \in {"swallowed", "garbage"} : fate' = Judged(m, g)
      BY <2>3
    <3>2. g \in Fates
      BY DEF Fates
    <3>3. /\ fate' \in [Mails -> Fates] /\ (\A n \in Mails : n # m => fate'[n] = fate[n])
          /\ fate'[m] = IF fate[m] \in Decided THEN fate[m] ELSE g
      BY <1>2, <3>1, <3>2, JudgedIs
    <3> QED BY <1>2, <2>3, <3>3 DEF Decided, Read
  <2>4. CASE Read(m) /\ B = ad[a].batch \cup {m} /\ fate' = Judged(m, "fetched")
    <3>1. "fetched" \in Fates
      BY DEF Fates
    <3>2. /\ fate' \in [Mails -> Fates] /\ (\A n \in Mails : n # m => fate'[n] = fate[n])
          /\ fate'[m] = IF fate[m] \in Decided THEN fate[m] ELSE "fetched"
      BY <1>2, <2>4, <3>1, JudgedIs
    <3> QED BY <1>2, <2>4, <3>2 DEF Decided, Read
  <2>5. fate[m] = "waiting" => "inbox" \in at[m]
    BY <1>3 DEF MailInv
  <2> HIDE DEF More
  <2> QED BY <1>5, <2>1, <2>2, <2>3, <2>4, <2>5
<1>10. UNCHANGED <<at, live, snapshot, handed, died>>
  BY DEF Body
<1> HIDE DEF r, Becomes, Looked, More
<1>11. Elsewhere(a)
  BY <1>2, <1>5, <1>9, <1>10, FaultBound DEF Elsewhere, TypeOK
<1>12. ASSUME NEW n \in Mails PROVE MailStep(a, n)
  <2>1. CASE n = m
    <3>1. m \in ad[a].batch => m \in B
      OBVIOUS
    <3> QED BY <1>2, <1>3, <1>8, <1>9, <1>10, <2>1, <3>1 DEF MailStep, MailInv
  <2>2. CASE n # m
    BY <1>2, <1>8, <1>9, <1>10, <2>2 DEF MailStep, TypeOK
  <2> QED BY <2>1, <2>2
<1>13. AdapterInv(a)'
  <2> USE <1>8, <1>10
  <2>1. Posted(a)'
    BY <1>0, <1>5 DEF Posted
  <2>2. Known(a)'
    <3>1. \A n \in Mails : (fate[n] # "away" => fate'[n] # "away") /\ (Touched(n) => Touched(n)')
      BY <1>9 DEF Touched
    <3>2. ad[a].todo \cup ad[a].batch \cup ad[a].seen \subseteq Mails
      BY <1>2 DEF Adapter
    <3>3. \A n \in T : fate'[n] # "away"
      BY <1>2, <3>1, <3>2 DEF Known, AdapterInv
    <3>4. \A n \in B : Touched(n)' /\ n \notin unread'
      BY <1>2, <1>9, <3>1, <3>2 DEF Known, AdapterInv, Touched
    <3>5. \A n \in S : Touched(n)'
      BY <1>2, <1>6, <1>9, <3>1, <3>2 DEF Known, AdapterInv, Touched
    <3> QED BY <3>3, <3>4, <3>5 DEF Known
  <2>3. DecidedFirst(a)'
    BY DEF DecidedFirst
  <2>4. NoSecond(a)'
    BY <1>1, <1>2 DEF NoSecond, AdapterInv
  <2> QED BY <2>1, <2>2, <2>3, <2>4 DEF AdapterInv
<1> QED BY <1>7, <1>8, <1>10, <1>11, <1>12, <1>13, OwnStep

LEMMA ParkStep ==
    ASSUME GatewayInv, NEW a \in Adapters, Park(a)
    PROVE  GatewayInv'
<1>1. ad[a].pc = "park" /\ ad[a].todo # {}
  BY DEF Park, GatewayInv, TypeOK
<1>0. PICK m \in Mails : m = Current(ad[a].todo)
  BY <1>1, AtHeader
<1>2. /\ TypeOK /\ AdapterInv(a) /\ ad[a] \in Adapter
      /\ ad[a].after = "next" /\ ad[a].parked \subseteq ad[a].batch
      /\ m \in ad[a].todo /\ fate[m] # "away" /\ at[m] # {}
  BY <1>0, <1>1, AtHeader
<1>3. m \in ad[a].batch /\ fate[m] # "waiting"
  BY <1>0, <1>1, <1>2 DEF AdapterInv, Posted, Known, Touched
<1>4. PICK ok \in BOOLEAN :
         /\ MoveTo(m, "inbox", "working", ok)
         /\ ad' = [ad EXCEPT ![a].pc = "header", ![a].todo = @ \ {m},
                             ![a].parked = IF ok THEN @ \cup {m} ELSE @]
  BY <1>0 DEF Park
<1> DEFINE P == IF ok THEN ad[a].parked \cup {m} ELSE ad[a].parked
           r == [ad[a] EXCEPT !.pc = "header", !.todo = ad[a].todo \ {m}, !.parked = P]
<1>5. ad' = [ad EXCEPT ![a] = r]
  BY <1>2, <1>4 DEF Adapter
<1>6. Proper(r)
  BY <1>2, <1>3 DEF Proper, Adapter
<1>7. /\ ad'[a] = r /\ r.pc = "header" /\ r.todo \subseteq ad[a].todo /\ r.batch = ad[a].batch
      /\ r.after = "next" /\ r.seen = ad[a].seen
  BY <1>2, <1>5 DEF TypeOK, Adapter
<1>8. /\ at' \in [Mails -> SUBSET Folders] /\ at'[m] # {} /\ at'[m] \subseteq at[m] \cup {"working"}
      /\ \A n \in Mails : n # m => at'[n] = at[n]
      /\ faults' \in 0 .. MaxFaults
  BY <1>2, <1>4, Moved DEF Folders
<1>9. UNCHANGED <<unread, live, snapshot, histVars>>
  BY DEF Park
<1> HIDE DEF r
<1> USE <1>9 DEF histVars
<1>10. Elsewhere(a)
  BY <1>2, <1>8 DEF Elsewhere, TypeOK
<1>11. ASSUME NEW n \in Mails PROVE MailStep(a, n)
  <2>1. CASE n = m
    BY <1>2, <1>3, <1>7, <1>8, <2>1 DEF MailStep
  <2>2. CASE n # m
    BY <1>2, <1>7, <1>8, <2>2 DEF MailStep, TypeOK
  <2> QED BY <2>1, <2>2
<1>12. AdapterInv(a)'
  <2> USE <1>7
  <2>1. Posted(a)'
    BY DEF Posted
  <2>2. Known(a)'
    BY <1>2 DEF Known, AdapterInv, Touched
  <2>3. DecidedFirst(a)'
    BY DEF DecidedFirst
  <2>4. NoSecond(a)'
    BY <1>1, <1>2 DEF NoSecond, AdapterInv
  <2> QED BY <2>1, <2>2, <2>3, <2>4 DEF AdapterInv
<1> QED BY <1>5, <1>6, <1>10, <1>11, <1>12, OwnStep

\* A fetched mail that a gives up without losing it is in the batch of another adapter.
LEMMA NotOrphaned ==
    ASSUME NEW a \in Adapters, NEW m, NEW S,
           m \in S, fate[m] = "fetched", m \in ad[a].batch, ~Orphaned(m, a, S)
    PROVE  \E b \in Adapters : b # a /\ m \in ad[b].batch
<1>1. Holders(m) # {a} /\ a \in Holders(m)
  BY DEF Orphaned, Holders
<1>2. PICK b \in Holders(m) : b # a
  BY <1>1
<1> QED BY <1>2 DEF Holders

\* An adapter that is off has nothing at hand.
LEMMA OffInv ==
    ASSUME NEW a \in Adapters, ad[a] = Off
    PROVE  AdapterInv(a)
BY DEF AdapterInv, Posted, Known, DecidedFirst, NoSecond, Off

LEMMA OffProper == Proper(Off)
BY DEF Proper, Off, Adapter

LEMMA FetchEndStep ==
    ASSUME GatewayInv, NEW a \in Adapters, FetchEnd(a)
    PROVE  GatewayInv'
<1>1. TypeOK /\ AdapterInv(a) /\ ad[a] \in Adapter /\ ad[a].pc = "header" /\ ad[a].todo = {}
  BY DEF GatewayInv, TypeOK, FetchEnd
<1>2. ad[a].after = "next" /\ ad[a].parked \subseteq ad[a].batch
  BY <1>1 DEF AdapterInv, Posted, TypeOK
<1>3. snapshot' = ad[a].seen /\ UNCHANGED <<boxVars, live, handed, died, faults>>
  BY DEF FetchEnd
<1> USE DEF boxVars
<1>4. CASE a = live
  <2> DEFINE r == [ad[a] EXCEPT !.pc = "dispatch"]
  <2>1. ad' = [ad EXCEPT ![a] = r] /\ fate' = fate
    BY <1>1, <1>4 DEF FetchEnd, Adapter
  <2>2. Proper(r)
    BY <1>1, <1>2 DEF Proper, Adapter
  <2>3. /\ ad'[a] = r /\ r.pc = "dispatch" /\ r.todo = {} /\ r.batch = ad[a].batch
        /\ r.after = "next" /\ r.seen = ad[a].seen
    BY <1>1, <1>2, <2>1 DEF TypeOK, Adapter
  <2> HIDE DEF r
  <2>4. Elsewhere(a)
    BY <1>1, <1>3, <2>1 DEF Elsewhere, TypeOK
  <2>5. \A n \in Mails : MailStep(a, n)
    BY <1>1, <1>3, <2>1, <2>3 DEF MailStep, TypeOK
  <2>6. AdapterInv(a)'
    <3> USE <1>3, <2>1, <2>3
    <3>1. Posted(a)'
      BY <1>4 DEF Posted
    <3>2. Known(a)'
      BY <1>1 DEF Known, AdapterInv, Touched
    <3>3. DecidedFirst(a)'
      BY DEF DecidedFirst
    <3>4. NoSecond(a)'
      BY <1>1 DEF NoSecond, AdapterInv
    <3> QED BY <3>1, <3>2, <3>3, <3>4 DEF AdapterInv
  <2> QED BY <1>3, <2>1, <2>2, <2>4, <2>5, <2>6, OwnStep
<1>5. CASE a # live
  <2>1. ad' = [ad EXCEPT ![a] = Off] /\ CutOff(a, ad[a].batch)
    BY <1>5 DEF FetchEnd
  <2>2. ad'[a] = Off /\ ad'[a].batch = {}
    BY <1>1, <2>1 DEF TypeOK, Off
  <2>3. /\ fate' \in [Mails -> Fates]
        /\ \A n \in Mails : \/ fate'[n] = fate[n] /\ ~Orphaned(n, a, ad[a].batch)
                            \/ fate[n] = "fetched" /\ fate'[n] = "cut"
    BY <1>1, <2>1 DEF CutOff, Orphaned, TypeOK, Fates
  <2>4. Elsewhere(a)
    BY <1>1, <1>3, <2>3 DEF Elsewhere, TypeOK
  <2>5. ASSUME NEW n \in Mails PROVE MailStep(a, n)
    <3>1. fate'[n] = "fetched" => fate[n] = "fetched" /\ (n \in ad[a].batch => \E b \in Adapters : b # a /\ n \in ad[b].batch)
      BY <2>3, NotOrphaned
    <3> QED BY <1>1, <1>3, <2>3, <3>1 DEF MailStep, TypeOK, Decided
  <2>6. AdapterInv(a)'
    BY <2>2 DEF AdapterInv, Posted, Known, DecidedFirst, NoSecond, Off
  <2> QED BY <1>3, <2>1, <2>4, <2>5, <2>6, OffProper, OwnStep
<1> QED BY <1>4, <1>5

-----------------------------------------------------------------------------
(* The poll task. *)

\* The mail that is dispatched or finalised.
LEMMA AtDispatch ==
    ASSUME GatewayInv, NEW a \in Adapters, ad[a].pc \in {"dispatch", "finalize"}, ad[a].batch # {}
    PROVE  /\ TypeOK /\ AdapterInv(a) /\ ad[a] \in Adapter
           /\ ad[a].todo = {} /\ ad[a].parked \subseteq ad[a].batch
           /\ Current(ad[a].batch) \in ad[a].batch /\ Current(ad[a].batch) \in Mails
           /\ Touched(Current(ad[a].batch)) /\ Current(ad[a].batch) \notin unread
           /\ at[Current(ad[a].batch)] # {}
<1>1. TypeOK /\ AdapterInv(a) /\ ad[a] \in Adapter
  BY DEF GatewayInv, TypeOK
<1>2. ad[a].batch \in SUBSET Mails
  BY <1>1 DEF Adapter
<1>3. Current(ad[a].batch) \in ad[a].batch
  BY <1>2, CurrentIn
<1>4. Touched(Current(ad[a].batch)) /\ Current(ad[a].batch) \notin unread
  BY <1>1, <1>3 DEF AdapterInv, Known
<1>5. ad[a].todo = {} /\ ad[a].parked \subseteq ad[a].batch
  BY <1>1 DEF AdapterInv, Posted, TypeOK
<1> QED BY <1>1, <1>2, <1>3, <1>4, <1>5 DEF TypeOK, Touched

LEMMA CurrentOnly == ASSUME NEW m \in Mails PROVE Current({m}) = m
BY CurrentIn

\* The mail is handed over or dropped: it was not handed over before, the rest waits.
LEMMA DispatchStep ==
    ASSUME GatewayInv, NEW a \in Adapters, Dispatch(a)
    PROVE  GatewayInv'
<1>1. ad[a].pc = "dispatch" /\ ad[a].batch # {}
  BY DEF Dispatch
<1>0. PICK m \in Mails : m = Current(ad[a].batch)
  BY <1>1, AtDispatch
<1>2. /\ TypeOK /\ AdapterInv(a) /\ ad[a] \in Adapter
      /\ ad[a].todo = {} /\ ad[a].parked \subseteq ad[a].batch
      /\ m \in ad[a].batch /\ Touched(m) /\ m \notin unread /\ at[m] # {}
  BY <1>0, <1>1, AtDispatch
<1>3. a = live /\ ad[a].after = "next" /\ \A n \in ad[a].batch : handed[n] = 0
  <2>1. a = live /\ ad[a].after = "next" /\ ad[a].batch \subseteq Mails
    BY <1>1, <1>2 DEF AdapterInv, Posted, Adapter
  <2> QED BY <1>1, <1>2, <2>1 DEF AdapterInv, NoSecond
<1>4. UNCHANGED <<boxVars, live, snapshot, died>>
  BY DEF Dispatch
<1> USE <1>4 DEF boxVars
<1>5. CASE /\ NoFault
           /\ ad' = [ad EXCEPT ![a].pc = "finalize"]
           /\ \/ handed' = [handed EXCEPT ![m] = @ + 1] /\ fate' = [fate EXCEPT ![m] = "given"]
              \/ UNCHANGED handed /\ fate' = [fate EXCEPT ![m] = "dropped"]
  <2> DEFINE r == [ad[a] EXCEPT !.pc = "finalize"]
  <2>1. ad' = [ad EXCEPT ![a] = r]
    BY <1>2, <1>5 DEF Adapter
  <2>2. Proper(r)
    BY <1>2 DEF Proper, Adapter
  <2>3. /\ ad'[a] = r /\ r.pc = "finalize" /\ r.todo = {} /\ r.batch = ad[a].batch
        /\ r.after = "next" /\ r.seen = ad[a].seen
    BY <1>2, <1>3, <2>1 DEF TypeOK, Adapter
  <2> HIDE DEF r
  <2>4. /\ fate' \in [Mails -> Fates] /\ fate'[m] \in Decided
        /\ handed' \in [Mails -> Nat] /\ handed'[m] \in {0, 1}
        /\ \A n \in Mails : n # m => fate'[n] = fate[n] /\ handed'[n] = handed[n]
    <3>1. handed \in [Mails -> Nat] /\ handed[m] = 0 /\ fate \in [Mails -> Fates]
      BY <1>2, <1>3 DEF TypeOK
    <3>2. CASE handed' = [handed EXCEPT ![m] = @ + 1] /\ fate' = [fate EXCEPT ![m] = "given"]
      BY <3>1, <3>2 DEF Fates, Decided
    <3>3. CASE UNCHANGED handed /\ fate' = [fate EXCEPT ![m] = "dropped"]
      BY <3>1, <3>3 DEF Fates, Decided
    <3> QED BY <1>5, <3>2, <3>3
  <2>5. Elsewhere(a)
    BY <1>2, <1>5, <2>4, FaultBound DEF Elsewhere, TypeOK
  <2>6. ASSUME NEW n \in Mails PROVE MailStep(a, n)
    <3>1. CASE n = m
      BY <1>2, <1>3, <2>3, <2>4, <3>1 DEF MailStep, Decided, Touched
    <3>2. CASE n # m
      BY <1>2, <2>3, <2>4, <3>2 DEF MailStep, TypeOK
    <3> QED BY <3>1, <3>2
  <2>7. AdapterInv(a)'
    <3> USE <2>3
    <3>1. Posted(a)'
      BY <1>0, <1>2, <1>3 DEF Posted
    <3>2. Known(a)'
      <4>1. ad[a].seen \subseteq Mails /\ ad[a].batch \subseteq Mails
        BY <1>2 DEF Adapter
      <4> QED BY <1>2, <2>4, <4>1 DEF Known, AdapterInv, Touched, Decided
    <3>3. DecidedFirst(a)'
      BY <1>0, <2>4 DEF DecidedFirst
    <3>4. NoSecond(a)'
      BY <1>0, <1>3, <2>4 DEF NoSecond
    <3> QED BY <3>1, <3>2, <3>3, <3>4 DEF AdapterInv
  <2> QED BY <2>1, <2>2, <2>5, <2>6, <2>7, OwnStep
<1>6. CASE /\ Fault
           /\ ad' = [ad EXCEPT ![a].pc = "finalize", ![a].batch = {m}, ![a].parked = @ \cap {m},
                               ![a].after = "raised"]
           /\ fate' = [n \in Mails |-> IF n = m THEN "raised"
                           ELSE IF Orphaned(n, a, ad[a].batch) THEN "lost" ELSE fate[n]]
           /\ UNCHANGED handed
  <2> DEFINE r == [ad[a] EXCEPT !.pc = "finalize", !.batch = {m}, !.parked = ad[a].parked \cap {m},
                                !.after = "raised"]
  <2>1. ad' = [ad EXCEPT ![a] = r]
    BY <1>2, <1>6 DEF Adapter
  <2>2. Proper(r)
    BY <1>2 DEF Proper, Adapter
  <2>3. /\ ad'[a] = r /\ r.pc = "finalize" /\ r.todo = {} /\ r.batch = {m} /\ Current(r.batch) = m
        /\ r.after = "raised" /\ r.seen = ad[a].seen
    BY <1>2, <2>1, CurrentOnly DEF TypeOK, Adapter
  <2> HIDE DEF r
  <2>4. /\ fate' \in [Mails -> Fates] /\ fate'[m] = "raised"
        /\ \A n \in Mails : n # m => \/ fate'[n] = fate[n] /\ ~Orphaned(n, a, ad[a].batch)
                                     \/ fate[n] = "fetched" /\ fate'[n] = "lost"
    BY <1>2, <1>6 DEF Orphaned, TypeOK, Fates
  <2>5. Elsewhere(a)
    BY <1>2, <1>6, <2>4, FaultBound DEF Elsewhere, TypeOK
  <2>6. ASSUME NEW n \in Mails PROVE MailStep(a, n)
    <3>1. CASE n = m
      BY <1>2, <1>6, <2>3, <2>4, <3>1 DEF MailStep, Decided, Touched
    <3>2. CASE n # m
      <4>1. fate'[n] = "fetched" => fate[n] = "fetched" /\ (n \in ad[a].batch => \E b \in Adapters : b # a /\ n \in ad[b].batch)
        BY <2>4, <3>2, NotOrphaned
      <4> QED BY <1>2, <1>6, <2>4, <3>2, <4>1 DEF MailStep, TypeOK, Decided
    <3> QED BY <3>1, <3>2
  <2>7. AdapterInv(a)'
    <3> USE <2>3
    <3>1. Posted(a)'
      BY <1>3 DEF Posted
    <3>2. Known(a)'
      <4>1. ad[a].seen \subseteq Mails
        BY <1>2 DEF Adapter
      <4> QED BY <1>2, <2>4, <4>1 DEF Known, AdapterInv, Touched
    <3>3. DecidedFirst(a)'
      BY <2>4 DEF DecidedFirst, Decided
    <3>4. NoSecond(a)'
      BY DEF NoSecond
    <3> QED BY <3>1, <3>2, <3>3, <3>4 DEF AdapterInv
  <2> QED BY <2>1, <2>2, <2>5, <2>6, <2>7, OwnStep
<1> QED BY <1>0, <1>5, <1>6 DEF Dispatch

\* The mail at hand leaves the batch, decided about; the rest keeps its holder.
LEMMA FinalizeStep ==
    ASSUME GatewayInv, NEW a \in Adapters, Finalize(a)
    PROVE  GatewayInv'
<1>1. ad[a].pc = "finalize" /\ ad[a].batch # {}
  BY DEF Finalize, GatewayInv, AdapterInv, Posted
<1>0. PICK m \in Mails : m = Current(ad[a].batch)
  BY <1>1, AtDispatch
<1>2. /\ TypeOK /\ AdapterInv(a) /\ ad[a] \in Adapter
      /\ ad[a].todo = {} /\ ad[a].parked \subseteq ad[a].batch
      /\ m \in ad[a].batch /\ at[m] # {}
  BY <1>0, <1>1, AtDispatch
<1>3. /\ fate[m] \in Decided
      /\ ad[a].after # "cancelled" => a = live
      /\ ad[a].after # "next" => ad[a].batch = {m}
  BY <1>0, <1>1, <1>2 DEF AdapterInv, Posted, DecidedFirst
<1>4. UNCHANGED <<unread, live, snapshot, histVars>>
  BY DEF Finalize
<1> USE <1>4 DEF histVars
<1>5. /\ at' \in [Mails -> SUBSET Folders] /\ at'[m] # {}
      /\ \A n \in Mails : n # m => at'[n] = at[n]
      /\ faults' \in 0 .. MaxFaults
  <2> DEFINE src == IF m \in ad[a].parked THEN "working" ELSE "inbox"
  <2>1. CASE \E ok \in BOOLEAN : MoveTo(m, src, "done", ok)
    <3>1. PICK ok \in BOOLEAN : MoveTo(m, src, "done", ok)
      BY <2>1
    <3>2. src \in Folders /\ "done" \in Folders
      BY DEF Folders
    <3> HIDE DEF src
    <3> QED BY <1>2, <3>1, <3>2, Moved
  <2>2. CASE NoFault /\ UNCHANGED at
    BY <1>2, <2>2 DEF TypeOK, NoFault
  <2> QED BY <1>0, <2>1, <2>2 DEF Finalize
<1> DEFINE R(p) == [ad[a] EXCEPT !.pc = p, !.batch = ad[a].batch \ {m}, !.parked = ad[a].parked \ {m},
                                 !.after = "next"]
<1>6. PICK r : /\ ad' = [ad EXCEPT ![a] = r]
               /\ \/ ad[a].after = "next" /\ r = R("dispatch")
                  \/ ad[a].after = "raised" /\ r = R("idle")
                  \/ ad[a].after = "cancelled" /\ r = Off
  <2>1. ad[a].after \in {"next", "raised", "cancelled"}
    BY <1>2 DEF Adapter
  <2>2. CASE ad[a].after = "next"
    <3> DEFINE c == Current(ad[a].batch)
    <3>1. ad' = [ad EXCEPT ![a] = [[ad[a] EXCEPT !.batch = @ \ {c}, !.parked = @ \ {c}, !.after = "next"]
                                    EXCEPT !.pc = "dispatch"]]
      BY <2>2 DEF Finalize
    <3>2. R("dispatch") = [[ad[a] EXCEPT !.batch = @ \ {c}, !.parked = @ \ {c}, !.after = "next"]
                              EXCEPT !.pc = "dispatch"]
      BY <1>0, <1>2 DEF Adapter
    <3> QED
      BY <2>2, <3>1, <3>2
  <2>3. CASE ad[a].after = "raised"
    <3> DEFINE c == Current(ad[a].batch)
    <3>1. ad' = [ad EXCEPT ![a] = [[ad[a] EXCEPT !.batch = @ \ {c}, !.parked = @ \ {c}, !.after = "next"]
                                    EXCEPT !.pc = "idle"]]
      BY <2>3 DEF Finalize
    <3>2. R("idle") = [[ad[a] EXCEPT !.batch = @ \ {c}, !.parked = @ \ {c}, !.after = "next"]
                              EXCEPT !.pc = "idle"]
      BY <1>0, <1>2 DEF Adapter
    <3> QED
      BY <2>3, <3>1, <3>2
  <2>4. CASE ad[a].after = "cancelled"
    BY <2>4 DEF Finalize
  <2> QED BY <2>1, <2>2, <2>3, <2>4
<1>7. /\ ad'[a] = r /\ r.todo = {} /\ r.batch = ad[a].batch \ {m} /\ r.after = "next"
      /\ r.seen \subseteq ad[a].seen /\ r.pc \in {"dispatch", "idle", "off"}
      /\ r.pc # "off" => a = live
      /\ r.pc # "dispatch" => r.batch = {}
      /\ Proper(r)
  <2>1. ad'[a] = r
    BY <1>2, <1>6 DEF TypeOK
  <2>2. CASE ad[a].after = "next" /\ r = R("dispatch")
    <3>1. ad[a].batch \ {m} \in SUBSET Mails /\ ad[a].parked \ {m} \in SUBSET Mails
      BY <1>2 DEF Adapter
    <3>2. /\ r.todo = {} /\ r.batch = ad[a].batch \ {m} /\ r.after = "next" /\ r.seen = ad[a].seen
          /\ r.pc = "dispatch" /\ r.parked = ad[a].parked \ {m}
      BY <1>2, <2>2 DEF Adapter
    <3>3. r \in Adapter
      BY <1>2, <2>2, <3>1 DEF Adapter
    <3>4. Proper(r)
      BY <1>2, <3>2, <3>3 DEF Proper
    <3> QED BY <1>3, <2>1, <2>2, <3>2, <3>4
  <2>3. CASE ad[a].after = "raised" /\ r = R("idle")
    BY <1>2, <1>3, <2>1, <2>3 DEF Adapter, Proper
  <2>4. CASE ad[a].after = "cancelled" /\ r = Off
    BY <1>2, <1>3, <2>1, <2>4, OffProper DEF Off
  <2> QED BY <1>6, <2>2, <2>3, <2>4
<1> HIDE DEF R
<1>8. Elsewhere(a)
  BY <1>2, <1>5 DEF Elsewhere, TypeOK
<1>9. ASSUME NEW n \in Mails PROVE MailStep(a, n)
  <2>1. CASE n = m
    BY <1>2, <1>3, <1>5, <2>1 DEF MailStep, Decided, TypeOK
  <2>2. CASE n # m
    BY <1>2, <1>5, <1>7, <2>2 DEF MailStep, TypeOK
  <2> QED BY <2>1, <2>2
<1>10. AdapterInv(a)'
  <2> USE <1>7
  <2>1. Posted(a)'
    BY DEF Posted
  <2>2. Known(a)'
    BY <1>2 DEF Known, AdapterInv, Touched
  <2>3. DecidedFirst(a)'
    BY DEF DecidedFirst
  <2>4. NoSecond(a)'
    BY <1>0, <1>2 DEF NoSecond, AdapterInv
  <2> QED BY <2>1, <2>2, <2>3, <2>4 DEF AdapterInv
<1> QED BY <1>6, <1>7, <1>8, <1>9, <1>10, OwnStep

LEMMA EscalateStep ==
    ASSUME GatewayInv, NEW a \in Adapters, Escalate(a)
    PROVE  GatewayInv'
<1>1. TypeOK /\ AdapterInv(a) /\ ad[a] \in Adapter /\ ad[a].pc = "dispatch" /\ ad[a].batch = {}
  BY DEF GatewayInv, TypeOK, Escalate
<1>2. ad[a].todo = {} /\ ad[a].after = "next" /\ ad[a].parked = {} /\ a = live
  BY <1>1 DEF AdapterInv, Posted, TypeOK
<1> DEFINE F == ad[a].fatal \/ ad[a].failed
           r == [ad[a] EXCEPT !.pc = "idle", !.failed = FALSE, !.fatal = F]
<1>3. F \in BOOLEAN
  OBVIOUS
<1>4. ad' = [ad EXCEPT ![a] = r]
  BY <1>1 DEF Escalate, Adapter
<1> HIDE DEF F
<1>5. Proper(r)
  BY <1>1, <1>2, <1>3 DEF Proper, Adapter
<1>6. /\ ad'[a] = r /\ r.pc = "idle" /\ r.todo = {} /\ r.batch = {} /\ r.after = "next"
      /\ r.seen = ad[a].seen
  BY <1>1, <1>2, <1>4 DEF TypeOK, Adapter
<1> HIDE DEF r
<1>7. UNCHANGED <<boxVars, live, snapshot, histVars>> /\ (Fault \/ NoFault)
  BY DEF Escalate, NoFault
<1>8. AdapterInv(a)'
  <2> USE <1>6, <1>7 DEF boxVars, histVars
  <2>1. Posted(a)'
    BY <1>2 DEF Posted
  <2>2. Known(a)'
    BY <1>1 DEF Known, AdapterInv, Touched
  <2>3. DecidedFirst(a)'
    BY DEF DecidedFirst
  <2>4. NoSecond(a)'
    BY DEF NoSecond
  <2> QED BY <2>1, <2>2, <2>3, <2>4 DEF AdapterInv
<1> QED BY <1>1, <1>4, <1>5, <1>6, <1>7, <1>8, QuietStep

-----------------------------------------------------------------------------
(* The mailbox and the gateway. *)

\* A mail that arrives was in no list: what an adapter has was looked at.
LEMMA ArriveStep ==
    ASSUME GatewayInv, NEW m \in Mails, Arrive(m)
    PROVE  GatewayInv'
<1> USE DEF GatewayInv
<1>1. /\ TypeOK /\ MailInv(m) /\ fate[m] = "away"
      /\ at' = [at EXCEPT ![m] = {"inbox"}] /\ unread' = unread \cup {m}
      /\ fate' = [fate EXCEPT ![m] = "waiting"]
      /\ UNCHANGED <<ad, live, snapshot, handed, died, faults>>
  BY DEF Arrive
<1>2. /\ at' \in [Mails -> SUBSET Folders] /\ fate' \in [Mails -> Fates] /\ unread' \subseteq Mails
      /\ at'[m] = {"inbox"} /\ fate'[m] = "waiting" /\ m \in unread'
      /\ \A n \in Mails : n # m => at'[n] = at[n] /\ fate'[n] = fate[n] /\ (n \in unread' <=> n \in unread)
  BY <1>1 DEF TypeOK, Folders, Fates
<1> USE <1>1
<1>3. TypeOK'
  <2>1. \A n \in Mails : fate'[n] = "away" <=> at'[n] = {}
    BY <1>2 DEF TypeOK
  <2> QED BY <1>2, <2>1 DEF TypeOK
<1>4. \A n : Touched(n) /\ n \in Mails => n # m /\ Touched(n)'
  BY <1>2 DEF Touched
<1>5. ASSUME NEW b \in Adapters PROVE AdapterInv(b)'
  <2>1. AdapterInv(b) /\ ad[b].todo \subseteq Mails /\ ad[b].batch \subseteq Mails /\ ad[b].seen \subseteq Mails
    BY DEF TypeOK, Adapter
  <2>2. Posted(b)'
    BY <2>1 DEF AdapterInv, Posted
  <2>3. Known(b)'
    BY <1>2, <1>4, <2>1 DEF AdapterInv, Known
  <2>4. DecidedFirst(b)'
    <3>1. ASSUME ad[b].pc = "finalize" PROVE fate'[Current(ad[b].batch)] \in Decided
      <4>1. Current(ad[b].batch) \in Mails /\ fate[Current(ad[b].batch)] \in Decided
        BY <2>1, <3>1 DEF AdapterInv, Posted, DecidedFirst
      <4>2. Current(ad[b].batch) # m
        BY <4>1 DEF Decided
      <4> QED BY <1>2, <4>1, <4>2
    <3> QED BY <3>1 DEF DecidedFirst
  <2>5. NoSecond(b)'
    BY <2>1 DEF AdapterInv, NoSecond
  <2> QED BY <2>2, <2>3, <2>4, <2>5 DEF AdapterInv
<1>6. ASSUME NEW n \in Mails PROVE MailInv(n)'
  <2>1. CASE n = m
    BY <1>2, <2>1 DEF MailInv, Decided
  <2>2. CASE n # m
    BY <1>2, <2>2 DEF MailInv
  <2> QED BY <2>1, <2>2
<1>7. SnapshotInv'
  BY <1>4 DEF SnapshotInv, TypeOK
<1> QED BY <1>3, <1>5, <1>6, <1>7

\* The poll task of the running adapter ends; a mail at hand is finalised, the
\* others are cut off.
LEMMA DisconnectStep ==
    ASSUME GatewayInv, NEW a \in Adapters, Disconnect(a)
    PROVE  GatewayInv'
<1>1. /\ TypeOK /\ AdapterInv(a) /\ ad[a] \in Adapter /\ a = live /\ live' = NoAdapter
      /\ UNCHANGED <<boxVars, snapshot, handed, died>>
      /\ Fault \/ NoFault
  BY DEF GatewayInv, TypeOK, Disconnect
<1> USE <1>1 DEF boxVars
<1>2. a # live'
  BY GatewayAssumption
<1> DEFINE Kept(n) == \/ fate'[n] = fate[n] /\ (n \in ad[a].batch /\ fate[n] = "fetched" => Holders(n) # {a})
                      \/ fate[n] = "fetched" /\ fate'[n] = "cut"
           Cancelled(m) == [ad[a] EXCEPT !.pc = "finalize", !.batch = {m}, !.parked = ad[a].parked \cap {m},
                                         !.after = "cancelled"]
<1>3. CASE ad[a].pc \in {"header", "body", "park"} /\ UNCHANGED <<ad, fate>>
  <2>1. Proper(ad[a])
    BY <1>3 DEF Proper, TypeOK
  <2>2. ad' = [ad EXCEPT ![a] = ad[a]]
    BY <1>3 DEF TypeOK
  <2>3. Elsewhere(a)
    BY <1>3, FaultBound DEF Elsewhere, TypeOK
  <2>4. \A n \in Mails : MailStep(a, n)
    BY <1>3 DEF MailStep, TypeOK
  <2>5. AdapterInv(a)'
    <3>1. Posted(a)'
      BY <1>3 DEF AdapterInv, Posted
    <3>2. Known(a)'
      BY <1>3 DEF AdapterInv, Known, Touched
    <3>3. DecidedFirst(a)' /\ NoSecond(a)'
      BY <1>2, <1>3 DEF DecidedFirst, NoSecond
    <3> QED BY <3>1, <3>2, <3>3 DEF AdapterInv
  <2> QED BY <2>1, <2>2, <2>3, <2>4, <2>5, OwnStep
<1>4. CASE ad' = [ad EXCEPT ![a] = Off] /\ CutOff(a, ad[a].batch)
  <2>1. ad'[a] = Off
    BY <1>4 DEF TypeOK
  <2>2. fate' \in [Mails -> Fates] /\ \A n \in Mails : Kept(n)
    BY <1>4 DEF CutOff, Orphaned, TypeOK, Fates
  <2>3. Elsewhere(a)
    BY <2>2, FaultBound DEF Elsewhere, TypeOK
  <2>4. ASSUME NEW n \in Mails PROVE MailStep(a, n)
    <3>1. fate'[n] = "fetched" => fate[n] = "fetched" /\ (n \in ad[a].batch => \E b \in Adapters : b # a /\ n \in ad[b].batch)
      BY <2>2 DEF Holders
    <3> QED BY <2>2, <3>1 DEF MailStep, TypeOK, Decided
  <2>5. AdapterInv(a)'
    BY <2>1 DEF AdapterInv, Posted, Known, DecidedFirst, NoSecond, Off
  <2> QED BY <1>4, <2>3, <2>4, <2>5, OffProper, OwnStep
<1>5. ASSUME NEW m \in Mails, ad[a].pc \in {"dispatch", "finalize"}, m \in ad[a].batch,
             ad' = [ad EXCEPT ![a] = Cancelled(m)],
             fate' \in [Mails -> Fates], fate'[m] \in Decided,
             \A n \in Mails : n # m => Kept(n)
      PROVE  GatewayInv'
  <2>1. Proper(Cancelled(m))
    BY <1>5 DEF Proper, Adapter
  <2>2. /\ ad'[a] = Cancelled(m) /\ ad'[a].pc = "finalize" /\ ad'[a].todo = {} /\ ad'[a].batch = {m}
        /\ Current(ad'[a].batch) = m /\ ad'[a].after = "cancelled" /\ ad'[a].seen = ad[a].seen
    <3>1. ad[a].todo = {}
      BY <1>5 DEF AdapterInv, Posted
    <3> QED BY <1>5, <3>1, CurrentOnly DEF TypeOK, Adapter
  <2> HIDE DEF Cancelled
  <2>3. Elsewhere(a)
    BY <1>5, FaultBound DEF Elsewhere, TypeOK
  <2>4. Touched(m) /\ m \notin unread
    BY <1>5 DEF AdapterInv, Known
  <2>5. ASSUME NEW n \in Mails PROVE MailStep(a, n)
    <3>1. CASE n = m
      BY <1>5, <2>2, <2>4, <3>1 DEF MailStep, Decided, TypeOK, Touched
    <3>2. CASE n # m
      <4>1. fate'[n] = "fetched" => fate[n] = "fetched" /\ (n \in ad[a].batch => \E b \in Adapters : b # a /\ n \in ad[b].batch)
        BY <1>5, <3>2 DEF Holders
      <4> QED BY <1>5, <3>2, <4>1 DEF MailStep, TypeOK, Decided
    <3> QED BY <3>1, <3>2
  <2>6. AdapterInv(a)'
    <3> USE <2>2
    <3>1. Posted(a)'
      BY DEF Posted
    <3>2. Known(a)'
      <4>1. ad[a].seen \subseteq Mails
        BY DEF Adapter
      <4> QED BY <1>5, <2>4, <4>1 DEF Known, AdapterInv, Touched, Decided
    <3>3. DecidedFirst(a)' /\ NoSecond(a)'
      BY <1>2, <1>5 DEF DecidedFirst, NoSecond
    <3> QED BY <3>1, <3>2, <3>3 DEF AdapterInv
  <2> QED BY <1>5, <2>1, <2>3, <2>5, <2>6, OwnStep
<1>6. CASE /\ ad[a].pc = "finalize"
           /\ ad' = [ad EXCEPT ![a] = Cancelled(Current(ad[a].batch))]
           /\ CutOff(a, ad[a].batch \ {Current(ad[a].batch)})
  <2>1. ad[a].batch # {}
    BY <1>6 DEF AdapterInv, Posted
  <2>2. PICK m \in Mails : m = Current(ad[a].batch)
    BY <1>6, <2>1, AtDispatch
  <2>3. m \in ad[a].batch /\ fate[m] \in Decided
    BY <1>6, <2>1, <2>2, AtDispatch DEF AdapterInv, DecidedFirst
  <2>4. fate' \in [Mails -> Fates] /\ fate'[m] \in Decided
    BY <1>6, <2>3 DEF CutOff, Orphaned, TypeOK, Fates, Decided
  <2>5. \A n \in Mails : n # m => Kept(n)
    BY <1>6, <2>2 DEF CutOff, Orphaned
  <2> QED BY <1>5, <1>6, <2>2, <2>3, <2>4, <2>5
<1>7. CASE /\ ad[a].pc = "dispatch" /\ ad[a].batch # {}
           /\ ad' = [ad EXCEPT ![a] = Cancelled(Current(ad[a].batch))]
           /\ fate' = [n \in Mails |-> IF n = Current(ad[a].batch) THEN "interrupted"
                          ELSE IF Orphaned(n, a, ad[a].batch) THEN "cut" ELSE fate[n]]
  <2>1. PICK m \in Mails : m = Current(ad[a].batch)
    BY <1>7, AtDispatch
  <2>2. m \in ad[a].batch
    BY <1>7, <2>1, AtDispatch
  <2>3. fate' \in [Mails -> Fates] /\ fate'[m] \in Decided
    BY <1>7, <2>1 DEF Orphaned, TypeOK, Fates, Decided
  <2>4. \A n \in Mails : n # m => Kept(n)
    BY <1>7, <2>1 DEF Orphaned
  <2> QED BY <1>5, <1>7, <2>1, <2>2, <2>3, <2>4
<1> HIDE DEF Kept
<1> QED BY <1>3, <1>4, <1>6, <1>7 DEF Disconnect

\* The new adapter starts with what was looked at, and with nothing at hand.
LEMMA ConnectStep ==
    ASSUME GatewayInv, NEW a \in Adapters, Connect(a)
    PROVE  GatewayInv'
<1> USE DEF GatewayInv
<1> DEFINE r == [Off EXCEPT !.pc = "idle", !.seen = Baseline]
<1>1. /\ TypeOK /\ SnapshotInv /\ live = NoAdapter /\ ad[a].pc = "off" /\ live' = a
      /\ snapshot' = Baseline /\ ad' = [ad EXCEPT ![a] = r]
      /\ UNCHANGED <<boxVars, histVars, faults>>
  BY DEF Connect
<1>2. Baseline \subseteq Mails /\ \A n \in Baseline : Touched(n)
  BY <1>1, TrimLess DEF Baseline, SnapshotInv, TypeOK
<1>3. r \in Adapter /\ r.pc = "idle" /\ r.todo = {} /\ r.batch = {} /\ r.parked = {} /\ r.after = "next"
      /\ r.seen = Baseline
  BY <1>2 DEF Off, Adapter
<1>4. ad'[a] = r /\ ad' \in [Adapters -> Adapter] /\ \A b \in Adapters : b # a => ad'[b] = ad[b]
  BY <1>1, <1>3 DEF TypeOK
<1> HIDE DEF r
<1> USE <1>1 DEF boxVars, histVars
<1>5. TypeOK'
  <2>1. ASSUME NEW b \in Adapters
        PROVE  /\ ad'[b].pc \in {"off", "idle"} => ad'[b].batch = {}
               /\ ad'[b].pc \in {"body", "park"} => ad'[b].todo # {}
               /\ ad'[b].parked \subseteq ad'[b].batch
    BY <1>3, <1>4 DEF TypeOK
  <2> QED BY <1>2, <1>4, <2>1 DEF TypeOK
<1>6. ASSUME NEW b \in Adapters PROVE AdapterInv(b)'
  <2>1. CASE b = a
    <3> USE <1>3, <1>4, <2>1
    <3>1. Posted(b)'
      BY DEF Posted
    <3>2. Known(b)'
      BY <1>2 DEF Known, Touched
    <3>3. DecidedFirst(b)' /\ NoSecond(b)'
      BY DEF DecidedFirst, NoSecond
    <3> QED BY <3>1, <3>2, <3>3 DEF AdapterInv
  <2>2. CASE b # a
    <3> USE <1>4, <2>2
    <3>1. AdapterInv(b) /\ b # live
      BY GatewayAssumption
    <3>2. Posted(b)'
      BY <3>1 DEF AdapterInv, Posted
    <3>3. Known(b)'
      BY <3>1 DEF AdapterInv, Known, Touched
    <3>4. DecidedFirst(b)' /\ NoSecond(b)'
      BY <3>1 DEF AdapterInv, DecidedFirst, NoSecond
    <3> QED BY <3>2, <3>3, <3>4 DEF AdapterInv
  <2> QED BY <2>1, <2>2
<1>7. ASSUME NEW n \in Mails PROVE MailInv(n)'
  <2>1. ad[a].batch = {}
    BY DEF TypeOK
  <2>2. (fate[n] = "fetched" => \E b \in Adapters : n \in ad[b].batch)'
    BY <1>4, <2>1 DEF MailInv
  <2> QED BY <2>2 DEF MailInv
<1>8. SnapshotInv'
  BY <1>2 DEF SnapshotInv, Touched
<1> QED BY <1>5, <1>6, <1>7, <1>8

\* What the process held dies with it; what was decided stands.
LEMMA CrashStep ==
    ASSUME GatewayInv, Crash
    PROVE  GatewayInv'
<1> USE DEF GatewayInv
<1>1. /\ TypeOK /\ live' = NoAdapter /\ ad' = [a \in Adapters |-> Off] /\ snapshot' = NoSnapshot
      /\ died' = died \cup {m \in Mails : Holders(m) # {}}
      /\ fate' = [m \in Mails |-> IF fate[m] = "fetched" THEN "died" ELSE fate[m]]
      /\ UNCHANGED <<boxVars, handed>> /\ Fault
  BY DEF Crash
<1> USE <1>1 DEF boxVars
<1>2. /\ fate' \in [Mails -> Fates]
      /\ \A n \in Mails : fate'[n] = fate[n] \/ (fate[n] = "fetched" /\ fate'[n] = "died")
      /\ \A n \in Mails : fate'[n] # "fetched"
  BY DEF TypeOK, Fates
<1>3. ad' \in [Adapters -> Adapter] /\ \A b \in Adapters : ad'[b] = Off
  BY OffProper DEF Proper
<1>4. TypeOK'
  <2>1. \A n \in Mails : fate'[n] = "away" <=> at'[n] = {}
    BY <1>2 DEF TypeOK
  <2>2. ASSUME NEW b \in Adapters
        PROVE  /\ ad'[b].pc \in {"off", "idle"} => ad'[b].batch = {}
               /\ ad'[b].pc \in {"body", "park"} => ad'[b].todo # {}
               /\ ad'[b].parked \subseteq ad'[b].batch
    BY <1>3, OffProper DEF Proper
  <2>3. faults' \in 0 .. MaxFaults
    BY FaultBound
  <2> QED BY <1>2, <1>3, <2>1, <2>2, <2>3 DEF TypeOK
<1>5. ASSUME NEW b \in Adapters PROVE AdapterInv(b)'
  BY <1>3 DEF AdapterInv, Posted, Known, DecidedFirst, NoSecond, Off
<1>6. ASSUME NEW n \in Mails PROVE MailInv(n)'
  BY <1>2 DEF MailInv, Decided
<1>7. SnapshotInv'
  BY DEF SnapshotInv
<1> QED BY <1>4, <1>5, <1>6, <1>7

-----------------------------------------------------------------------------
(* The theorems. *)

LEMMA GatewayInit == Init => GatewayInv
<1> SUFFICES ASSUME Init PROVE GatewayInv
  OBVIOUS
<1> USE GatewayAssumption DEF Init
<1>1. TypeOK
  <2>1. at \in [Mails -> SUBSET Folders] /\ fate \in [Mails -> Fates] /\ handed \in [Mails -> Nat]
    BY DEF Folders, Fates
  <2>2. unread \subseteq Mails
    BY DEF Mails
  <2>3. ad \in [Adapters -> Adapter] /\ \A a \in Adapters : ad[a] = Off
    BY OffProper DEF Proper
  <2>4. \A a \in Adapters : /\ ad[a].pc \in {"off", "idle"} => ad[a].batch = {}
                            /\ ad[a].pc \in {"body", "park"} => ad[a].todo # {}
                            /\ ad[a].parked \subseteq ad[a].batch
    BY <2>3, OffProper DEF Proper
  <2>5. \A m \in Mails : fate[m] = "away" <=> at[m] = {}
    OBVIOUS
  <2> QED BY <2>1, <2>2, <2>3, <2>4, <2>5 DEF TypeOK
<1>2. ASSUME NEW a \in Adapters PROVE AdapterInv(a)
  BY OffInv
<1>3. ASSUME NEW m \in Mails PROVE MailInv(m)
  BY DEF MailInv, Mails
<1>4. SnapshotInv
  BY DEF SnapshotInv
<1> QED BY <1>1, <1>2, <1>3, <1>4 DEF GatewayInv

LEMMA GatewayStep == GatewayInv /\ [Next]_vars => GatewayInv'
<1> SUFFICES ASSUME GatewayInv, [Next]_vars PROVE GatewayInv'
  OBVIOUS
<1>1. ASSUME NEW m \in Mails, Arrive(m) PROVE GatewayInv'
  BY <1>1, ArriveStep
<1>2. ASSUME NEW a \in Adapters, Work(a) PROVE GatewayInv'
  BY <1>2, PollStep, HeaderStep, ConsumeStep, BodyStep, ParkStep, FetchEndStep,
     DispatchStep, FinalizeStep, EscalateStep DEF Work
<1>3. ASSUME NEW a \in Adapters, Disconnect(a) PROVE GatewayInv'
  BY <1>3, DisconnectStep
<1>4. ASSUME NEW a \in Adapters, Connect(a) PROVE GatewayInv'
  BY <1>4, ConnectStep
<1>5. CASE Crash
  BY <1>5, CrashStep
<1>6. CASE UNCHANGED vars
  BY <1>6 DEF GatewayInv, TypeOK, AdapterInv, Posted, Known, DecidedFirst, NoSecond, MailInv,
     SnapshotInv, Touched, vars, boxVars, histVars
<1> QED BY <1>1, <1>2, <1>3, <1>4, <1>5, <1>6 DEF Next

\* The invariant that the other theorems follow from: what a mail's fate says
\* about where it is, who holds it, and who may still fetch it.
THEOREM GatewayInvariant == Spec => []GatewayInv
BY GatewayInit, GatewayStep, PTL DEF Spec

\* The types hold, every mail that arrived stays in some folder, and an adapter
\* that waits holds no mail (_imap_move, _check_inbox).
THEOREM GatewayTyped == Spec => []TypeOK
<1>1. GatewayInv => TypeOK
  BY DEF GatewayInv
<1> QED BY <1>1, GatewayInvariant, PTL

\* handle_message gets no mail twice, whatever the bound of the seen set, the
\* number of adapters and the threads that outlive their adapter.
THEOREM HandedAtMostOnce == Spec => []AtMostOnce
<1>1. GatewayInv => AtMostOnce
  BY DEF GatewayInv, MailInv, AtMostOnce
<1> QED BY <1>1, GatewayInvariant, PTL

\* As long as nothing has failed no adapter was replaced, and no mail was lost.
CalmInv ==
    /\ faults = 0 =>
           /\ \A m \in Mails : fate[m] \notin {"swallowed", "lost", "cut", "died"}
           /\ \A a \in Adapters : /\ ad[a].failed = FALSE /\ ad[a].fatal = FALSE
                                  /\ a # live => ad[a].pc = "off"
    /\ \A m \in Mails : fate[m] = "died" => m \in died

LEMMA CalmStep == GatewayInv /\ CalmInv /\ [Next]_vars => CalmInv'
<1> SUFFICES ASSUME GatewayInv, CalmInv, [Next]_vars PROVE CalmInv'
  OBVIOUS
<1>0. TypeOK /\ faults \in Nat
  BY GatewayAssumption DEF GatewayInv, TypeOK
<1>1. ASSUME NEW m \in Mails, fate'[m] = "died" PROVE m \in died'
  <2>1. CASE fate[m] = "died"
    <3>1. died \subseteq died'
      BY DEF Next, Work, Arrive, Poll, Header, Consume, Body, Park, FetchEnd, Dispatch, Finalize,
         Escalate, Disconnect, Connect, Crash, vars, histVars
    <3> QED BY <2>1, <3>1 DEF CalmInv
  <2>2. CASE fate[m] # "died" /\ Crash
    <3>1. fate[m] = "fetched" /\ \E a \in Adapters : m \in ad[a].batch
      BY <1>0, <1>1, <2>2 DEF Crash, TypeOK, GatewayInv, MailInv
    <3> QED BY <2>2, <3>1 DEF Crash, Holders
  <2>3. CASE fate[m] # "died" /\ ~Crash
    <3> USE <1>0, <1>1, <2>3 DEF TypeOK, histVars
    <3>1. ASSUME NEW n \in Mails, Arrive(n) PROVE FALSE
      BY <3>1 DEF Arrive
    <3>2. ASSUME NEW a \in Adapters, Work(a) PROVE FALSE
      <4>1. ~(Poll(a) \/ Header(a) \/ Park(a) \/ Finalize(a) \/ Escalate(a))
        BY DEF Poll, Header, Park, Finalize, Escalate
      <4>2. ~(Consume(a) \/ Body(a))
        BY DEF Consume, Body, Judged
      <4>3. ~(FetchEnd(a) \/ Dispatch(a))
        BY DEF FetchEnd, Dispatch, CutOff
      <4> QED BY <3>2, <4>1, <4>2, <4>3 DEF Work
    <3>3. ASSUME NEW a \in Adapters, Disconnect(a) PROVE FALSE
      BY <3>3 DEF Disconnect, CutOff
    <3>4. ASSUME NEW a \in Adapters, Connect(a) PROVE FALSE
      BY <3>4 DEF Connect
    <3>5. CASE UNCHANGED vars
      BY <3>5 DEF vars
    <3> QED BY <3>1, <3>2, <3>3, <3>4, <3>5 DEF Next
  <2> QED BY <2>1, <2>2, <2>3
<1>2. ASSUME faults' = 0
      PROVE  /\ \A m \in Mails : fate'[m] \notin {"swallowed", "lost", "cut", "died"}
             /\ \A a \in Adapters : /\ ad'[a].failed = FALSE /\ ad'[a].fatal = FALSE
                                    /\ a # live' => ad'[a].pc = "off"
  <2>1. ~Fault
    BY <1>0, <1>2 DEF Fault
  <2>2. faults = 0
    <3> USE <1>0, <1>2, <2>1 DEF NoFault
    <3>1. \A m \in Mails : Arrive(m) => faults = 0
      BY DEF Arrive
    <3>2. ASSUME NEW a \in Adapters, Work(a) PROVE faults = 0
      <4>1. Poll(a) \/ Header(a) \/ FetchEnd(a) \/ Escalate(a) \/ Dispatch(a) => faults = 0
        BY DEF Poll, Header, FetchEnd, Escalate, Dispatch
      <4>2. \A m, src, dst, ok : MoveTo(m, src, dst, ok) => NoFault
        BY DEF MoveTo
      <4>3. Consume(a) => faults = 0
        BY <4>2 DEF Consume
      <4>4. Body(a) => faults = 0
        BY DEF Body
      <4>5. Park(a) \/ Finalize(a) => faults = 0
        BY <4>2 DEF Park, Finalize
      <4> QED BY <3>2, <4>1, <4>3, <4>4, <4>5 DEF Work
    <3>3. \A a \in Adapters : Disconnect(a) \/ Connect(a) => faults = 0
      BY DEF Disconnect, Connect
    <3>4. ~Crash
      BY DEF Crash
    <3>5. UNCHANGED vars => faults = 0
      BY DEF vars
    <3> QED BY <3>1, <3>2, <3>3, <3>4, <3>5 DEF Next
  <2>3. /\ \A m \in Mails : fate[m] \notin {"swallowed", "lost", "cut", "died"}
        /\ \A a \in Adapters : /\ ad[a] \in Adapter /\ ad[a].failed = FALSE /\ ad[a].fatal = FALSE
                               /\ a # live => ad[a].pc = "off"
    BY <1>0, <2>2 DEF CalmInv, TypeOK
  <2> USE <1>0, <2>1, <2>3 DEF TypeOK, histVars
  <2>4. ASSUME NEW n \in Mails, Arrive(n)
        PROVE  UNCHANGED <<ad, live>> /\ \A m \in Mails : fate'[m] \in {fate[m], "waiting"}
    BY <2>4 DEF Arrive
  <2>5. ASSUME NEW a \in Adapters, Work(a)
        PROVE  /\ live' = live
               /\ \A m \in Mails : fate'[m] \in {fate[m], "rejected", "garbage", "fetched", "given", "dropped"}
               /\ \A b \in Adapters : b # a => ad'[b] = ad[b]
               /\ ad'[a].failed = FALSE /\ ad'[a].fatal = FALSE /\ a = live
    <3>0. ad[a].pc # "off" => a = live
      OBVIOUS
    <3>1. CASE Poll(a) \/ Header(a) \/ Park(a) \/ Finalize(a) \/ Escalate(a)
      <4>1. UNCHANGED <<live, fate>> /\ ad[a].pc # "off"
        BY <3>1 DEF Poll, Header, Park, Finalize, Escalate
      <4>2. CASE Poll(a) \/ Header(a)
        BY <3>0, <4>1, <4>2 DEF Poll, Header, NextMail, Adapter
      <4>3. CASE Park(a)
        BY <3>0, <4>1, <4>3 DEF Park, Adapter
      <4>4. CASE Finalize(a)
        BY <3>0, <4>1, <4>4 DEF Finalize, Adapter, Off
      <4>5. CASE Escalate(a)
        BY <3>0, <4>1, <4>5 DEF Escalate, Adapter
      <4> QED BY <3>1, <4>2, <4>3, <4>4, <4>5
    <3>2. CASE Consume(a)
      <4>1. live' = live /\ a = live /\ fate' = Judged(Current(ad[a].todo), "rejected")
        BY <3>0, <3>2 DEF Consume
      <4>2. \E r \in Adapter : r.failed = FALSE /\ r.fatal = FALSE /\ ad' = [ad EXCEPT ![a] = r]
        <5> DEFINE r == [ad[a] EXCEPT !.seen = Trim(@ \cup {Current(ad[a].todo)}),
                                      !.todo = @ \ {Current(ad[a].todo)}]
        <5>1. ad' = [ad EXCEPT ![a] = r]
          BY <3>2 DEF Consume
        <5>2. ad'[a] \in Adapter /\ r = ad'[a]
          BY <5>1, <2>5, ConsumeStep, <3>2 DEF GatewayInv
        <5>3. r.failed = FALSE /\ r.fatal = FALSE
          BY DEF Adapter
        <5> QED BY <5>1, <5>2, <5>3
      <4> QED BY <4>1, <4>2 DEF Judged
    <3>3. CASE Body(a)
      <4> DEFINE m == Current(ad[a].todo)
                 taken == [ad[a] EXCEPT !.seen = Trim(@ \cup {m})]
                 skip == [taken EXCEPT !.pc = "header", !.todo = @ \ {m}]
      <4>1. live' = live /\ a = live
        BY <3>0, <3>3 DEF Body
      <4>2. fate' \in {fate, Judged(m, "garbage"), Judged(m, "fetched")}
        BY <3>3 DEF Body
      <4>3. ad' = [ad EXCEPT ![a] = skip] \/ ad' = [ad EXCEPT ![a] = [taken EXCEPT !.pc = "park", !.batch = @ \cup {m}]]
                \/ ad' = [ad EXCEPT ![a] = [skip EXCEPT !.batch = @ \cup {m}]]
        BY <3>3 DEF Body
      <4>4. \A b \in Adapters : b # a => ad'[b] = ad[b]
        BY <4>3
      <4>5. ad'[a].failed = FALSE /\ ad'[a].fatal = FALSE
        <5>1. /\ taken.failed = FALSE /\ taken.fatal = FALSE
              /\ skip.failed = FALSE /\ skip.fatal = FALSE
          BY DEF Adapter
        <5>2. CASE ad' = [ad EXCEPT ![a] = skip]
          BY <5>1, <5>2
        <5>3. CASE ad' = [ad EXCEPT ![a] = [taken EXCEPT !.pc = "park", !.batch = @ \cup {m}]]
          BY <5>3 DEF Adapter
        <5>4. CASE ad' = [ad EXCEPT ![a] = [skip EXCEPT !.batch = @ \cup {m}]]
          BY <5>4 DEF Adapter
        <5> QED BY <4>3, <5>2, <5>3, <5>4
      <4> QED BY <4>1, <4>2, <4>4, <4>5 DEF Judged
    <3>4. CASE FetchEnd(a)
      BY <3>0, <3>4 DEF FetchEnd, Adapter
    <3>5. CASE Dispatch(a)
      BY <3>0, <3>5 DEF Dispatch, Adapter
    <3> QED BY <2>5, <3>1, <3>2, <3>3, <3>4, <3>5 DEF Work
  <2>6. ASSUME NEW a \in Adapters PROVE ~Disconnect(a)
    BY <2>6 DEF Disconnect
  <2>7. ASSUME NEW a \in Adapters, Connect(a)
        PROVE  /\ UNCHANGED fate /\ live' = a
               /\ \A b \in Adapters : b # a => ad'[b] = ad[b] /\ b # live
               /\ ad'[a].failed = FALSE /\ ad'[a].fatal = FALSE
    BY <2>7, GatewayAssumption DEF Connect, Off
  <2>8. ~Crash
    BY DEF Crash
  <2>9. UNCHANGED vars => UNCHANGED <<ad, live, fate>>
    BY DEF vars
  <2> DEFINE Calm == /\ \A m \in Mails : fate'[m] \notin {"swallowed", "lost", "cut", "died"}
                     /\ \A a \in Adapters : /\ ad'[a].failed = FALSE /\ ad'[a].fatal = FALSE
                                            /\ a # live' => ad'[a].pc = "off"
  <2>10. \A n \in Mails : Arrive(n) => Calm
    BY <2>4
  <2>11. ASSUME NEW a \in Adapters, Work(a) PROVE Calm
    <3>1. a = live /\ live' = live /\ \A b \in Adapters : b # a => ad'[b] = ad[b]
      BY <2>5, <2>11
    <3>2. ad'[a].failed = FALSE /\ ad'[a].fatal = FALSE
      BY <2>5, <2>11
    <3>3. \A m \in Mails : fate'[m] \notin {"swallowed", "lost", "cut", "died"}
      BY <2>5, <2>11
    <3> QED BY <3>1, <3>2, <3>3
  <2>12. \A a \in Adapters : Connect(a) => Calm
    BY <2>7
  <2>13. UNCHANGED vars => Calm
    BY <2>9
  <2> HIDE DEF Calm
  <2>14. Calm
    BY <2>6, <2>8, <2>10, <2>11, <2>12, <2>13 DEF Next
  <2> QED BY <2>14 DEF Calm
<1> QED BY <1>1, <1>2 DEF CalmInv

\* A mail that was fetched stays in the batch of an adapter, an untouched one
\* stays unread in INBOX and unseen, Done holds only mails that were decided
\* about; every other mail does not parse or was lost after a failure, by an
\* answer that did not arrive, an exception before its turn, a disconnect, or the
\* death of the process that held it (_fetch_new_messages, _check_inbox,
\* _finalize_message).
THEOREM MailsAreAccounted == Spec => []MailsAccounted
<1>1. ASSUME GatewayInv, CalmInv PROVE MailsAccounted
  <2> USE <1>1 DEF GatewayInv
  <2>1. FetchedInHand
    BY DEF FetchedInHand, InHand, Holders, MailInv
  <2>2. WaitingStaysEligible
    <3>1. ASSUME NEW m \in Mails, fate[m] = "waiting", snapshot # NoSnapshot PROVE m \notin snapshot
      BY <3>1 DEF SnapshotInv, Touched
    <3>2. ASSUME NEW m \in Mails, fate[m] = "waiting", live # NoAdapter PROVE m \notin ad[live].seen
      BY <3>2 DEF TypeOK, AdapterInv, Known, Touched
    <3>3. \A m \in Mails : fate[m] = "waiting" => m \in unread /\ at[m] = {"inbox"}
      BY DEF MailInv
    <3> QED BY <3>1, <3>2, <3>3 DEF WaitingStaysEligible
  <2>3. DoneMeansSettled
    BY DEF DoneMeansSettled, MailInv
  <2>4. LossNeedsFailure
    <3>1. faults \in Nat
      BY GatewayAssumption DEF TypeOK
    <3> QED BY <3>1 DEF LossNeedsFailure, CalmInv
  <2> QED BY <2>1, <2>2, <2>3, <2>4 DEF MailsAccounted
<1>2. Init => CalmInv
  BY DEF Init, CalmInv, Off
<1> QED BY <1>1, <1>2, CalmStep, GatewayInvariant, PTL DEF Spec

-----------------------------------------------------------------------------
(* Replies. *)

Ids == {NoId} \cup {MsgId[m] : m \in Letters}

ReplyTyped ==
    /\ arrivedL \subseteq Letters
    /\ quoteState \in [Letters -> {"", "pending", "done"}]
    /\ threadAt \in [Authors -> Ids]
    /\ sends \in [Threads -> Send]
    /\ confirmed \in [Letters -> Nat]

\* A thread quotes what it has claimed; one that was asked to name the mail it
\* answers quotes that mail.
Quoting(s) ==
    /\ sends[s].pc \in {"free", "claim"} => sends[s].quote = NoLetter
    /\ sends[s].pc # "free" => sends[s].turn \in Letters
    /\ sends[s].sent => sends[s].pc = "settle"
    /\ sends[s].explicit =>
          /\ sends[s].want = MsgId[sends[s].turn] /\ sends[s].want # NoId
          /\ sends[s].quote # NoLetter => /\ MsgId[sends[s].quote] = MsgId[sends[s].turn]
                                          /\ Author[sends[s].quote] = Author[sends[s].turn]

\* What the claim on a mail says about the sends that quoted it: one has succeeded
\* exactly when the claim is settled, or its owner is past SMTP.
Claimed(m) ==
    /\ quoteState[m] = "" => confirmed[m] = 0
    /\ quoteState[m] = "done" => confirmed[m] = 1
    /\ quoteState[m] = "pending" => \E s \in Threads : sends[s].quote = m

Delivered(s) == sends[s].pc = "archive" \/ sends[s].sent = TRUE

Owner(s) ==
    sends[s].quote # NoLetter =>
        /\ quoteState[sends[s].quote] = "pending"
        /\ Delivered(s) => confirmed[sends[s].quote] = 1
        /\ ~Delivered(s) => confirmed[sends[s].quote] = 0

OneOwner ==
    \A s, t \in Threads : sends[s].quote = sends[t].quote /\ sends[s].quote # NoLetter => s = t

ReplyInv ==
    /\ ReplyTyped
    /\ \A s \in Threads : Quoting(s) /\ Owner(s)
    /\ \A m \in Letters : Claimed(m)
    /\ OneOwner
    /\ QuotesNamedMail

\* A step of thread s that keeps its quote, and what it says about the quote.
LEMMA SameQuote ==
    ASSUME ReplyInv, NEW s \in Threads, NEW r \in Send,
           sends' = [sends EXCEPT ![s] = r], r.quote = sends[s].quote,
           UNCHANGED <<arrivedL, threadAt, quoteState>>,
           confirmed' \in [Letters -> Nat],
           \A m \in Letters : m # r.quote => confirmed'[m] = confirmed[m],
           Quoting(s)', Owner(s)', QuotesNamedMail'
    PROVE  ReplyInv'
<1> USE DEF ReplyInv
<1>1. ReplyTyped /\ sends'[s] = r /\ (\A t \in Threads : t # s => sends'[t] = sends[t])
  BY DEF ReplyTyped
<1>2. ReplyTyped'
  BY <1>1 DEF ReplyTyped
<1>3. \A t \in Threads : sends'[t].quote = sends[t].quote
  BY <1>1
<1>4. ASSUME NEW t \in Threads PROVE Quoting(t)' /\ Owner(t)'
  <2>1. CASE t = s
    BY <2>1
  <2>2. CASE t # s
    <3>1. sends'[t] = sends[t] /\ sends[t] \in Send /\ Quoting(t) /\ Owner(t)
      BY <1>1, <2>2 DEF ReplyTyped
    <3>2. sends[t].quote # NoLetter => sends[t].quote \in Letters /\ sends[t].quote # r.quote
      BY <2>2, <3>1 DEF Send, OneOwner
    <3> QED BY <3>1, <3>2 DEF Quoting, Owner, Delivered
  <2> QED BY <2>1, <2>2
<1>5. ASSUME NEW m \in Letters PROVE Claimed(m)'
  <2>1. CASE m = r.quote
    <3>1. quoteState'[m] = "pending" /\ sends'[s].quote = m
      BY <1>1, <2>1, ReplyAssumption DEF Owner
    <3> QED BY <3>1 DEF Claimed
  <2>2. CASE m # r.quote
    <3>1. Claimed(m) /\ confirmed'[m] = confirmed[m] /\ quoteState' = quoteState
      BY <2>2
    <3> QED BY <1>3, <3>1 DEF Claimed
  <2> QED BY <2>1, <2>2
<1>6. OneOwner'
  BY <1>3 DEF OneOwner
<1> QED BY <1>2, <1>4, <1>5, <1>6

\* _dispatch_message touches the records only: a claim outlives its record.
LEMMA ReceivedStep ==
    ASSUME ReplyInv, NEW m \in Letters, NEW granted \in BOOLEAN, Received(m, granted)
    PROVE  ReplyInv'
<1>1. /\ arrivedL' = arrivedL \cup {m} /\ threadAt' = [threadAt EXCEPT ![Author[m]] = MsgId[m]]
      /\ UNCHANGED <<quoteState, sends, pages, confirmed>>
  BY DEF Received
<1>2. ReplyTyped'
  BY <1>1 DEF ReplyInv, ReplyTyped, Ids
<1>3. ASSUME NEW s \in Threads PROVE Quoting(s)' /\ Owner(s)'
  BY <1>1 DEF ReplyInv, Quoting, Owner, Delivered
<1>4. \A n \in Letters : Claimed(n)'
  BY <1>1 DEF ReplyInv, Claimed
<1>5. OneOwner' /\ QuotesNamedMail'
  BY <1>1 DEF ReplyInv, OneOwner, QuotesNamedMail
<1> QED BY <1>2, <1>3, <1>4, <1>5 DEF ReplyInv

LEMMA StartSendStep ==
    ASSUME ReplyInv, NEW s \in Threads, NEW m \in Letters, NEW explicit \in BOOLEAN,
           StartSend(s, m, explicit)
    PROVE  ReplyInv'
<1> DEFINE w == IF explicit THEN MsgId[m] ELSE threadAt[Author[m]]
           r == [Free EXCEPT !.pc = "claim", !.turn = m, !.explicit = explicit, !.want = w]
<1>1. /\ ReplyTyped /\ sends[s].pc = "free" /\ (explicit => MsgId[m] # NoId)
      /\ sends' = [sends EXCEPT ![s] = r]
      /\ UNCHANGED <<arrivedL, quoteState, threadAt, pages, confirmed>>
  BY DEF ReplyInv, StartSend
<1>2. w \in Ids
  BY <1>1 DEF ReplyTyped, Ids, Authors
<1>3. r \in Send
  BY <1>2 DEF Free, Send, Ids
<1>4. /\ r.pc = "claim" /\ r.turn = m /\ r.explicit = explicit /\ r.want = w /\ r.quote = NoLetter
      /\ r.sent = FALSE
  BY DEF Free
<1>5. sends[s].quote = NoLetter
  BY <1>1 DEF ReplyInv, Quoting
<1>6. sends'[s] = r
  BY <1>1 DEF ReplyTyped
<1> HIDE DEF r
<1>7. Quoting(s)' /\ Owner(s)'
  BY <1>1, <1>4, <1>6 DEF Quoting, Owner
<1>8. QuotesNamedMail'
  BY <1>1 DEF ReplyInv, QuotesNamedMail
<1> QED BY <1>1, <1>3, <1>4, <1>5, <1>7, <1>8, SameQuote DEF ReplyTyped

\* The lock: only a mail nobody has claimed and nobody has quoted is claimed.
LEMMA ClaimStep ==
    ASSUME ReplyInv, NEW s \in Threads, Claim(s)
    PROVE  ReplyInv'
<1>1. /\ ReplyTyped /\ Quoting(s) /\ sends[s] \in Send /\ sends[s].pc = "claim" /\ sends[s].quote = NoLetter
      /\ UNCHANGED <<arrivedL, threadAt, pages, confirmed>>
  BY DEF ReplyInv, ReplyTyped, Claim, Quoting
<1>2. QuotesNamedMail'
  BY <1>1 DEF ReplyInv, QuotesNamedMail
<1>3. CASE sends' = [sends EXCEPT ![s].pc = "build"] /\ UNCHANGED quoteState
  <2> DEFINE r == [sends[s] EXCEPT !.pc = "build"]
  <2>1. sends' = [sends EXCEPT ![s] = r] /\ r \in Send
    BY <1>1, <1>3 DEF Send
  <2>2. /\ sends'[s] = r /\ r.pc = "build" /\ r.turn = sends[s].turn /\ r.explicit = sends[s].explicit
        /\ r.want = sends[s].want /\ r.quote = NoLetter /\ r.sent = sends[s].sent
    BY <1>1, <2>1 DEF Send, ReplyTyped
  <2> HIDE DEF r
  <2>3. Quoting(s)' /\ Owner(s)'
    BY <1>1, <2>2 DEF Quoting, Owner
  <2> QED BY <1>1, <1>2, <1>3, <2>1, <2>2, <2>3, SameQuote DEF ReplyTyped
<1>4. ASSUME NEW m \in Claimable(s),
             sends' = [sends EXCEPT ![s].pc = "build", ![s].quote = m],
             quoteState' = [quoteState EXCEPT ![m] = "pending"]
      PROVE  ReplyInv'
  <2>1. /\ m \in Letters /\ quoteState[m] = "" /\ Author[m] = Author[sends[s].turn]
        /\ sends[s].want # NoId => MsgId[m] = sends[s].want
    BY DEF Claimable, Lookup
  <2> DEFINE r == [sends[s] EXCEPT !.pc = "build", !.quote = m]
  <2>2. sends' = [sends EXCEPT ![s] = r] /\ r \in Send
    BY <1>1, <1>4, <2>1 DEF Send
  <2>3. /\ sends'[s] = r /\ r.pc = "build" /\ r.turn = sends[s].turn /\ r.explicit = sends[s].explicit
        /\ r.want = sends[s].want /\ r.quote = m /\ r.sent = sends[s].sent
        /\ \A t \in Threads : t # s => sends'[t] = sends[t]
    BY <1>1, <2>2 DEF Send, ReplyTyped
  <2> HIDE DEF r
  <2>4. m # NoLetter /\ confirmed[m] = 0 /\ \A t \in Threads : sends[t].quote # m
    <3>1. Claimed(m) /\ m # NoLetter
      BY <2>1, ReplyAssumption DEF ReplyInv
    <3>2. ASSUME NEW t \in Threads, sends[t].quote = m PROVE FALSE
      <4>1. Owner(t)
        BY DEF ReplyInv
      <4> QED BY <2>1, <3>1, <3>2, <4>1 DEF Owner
    <3> QED BY <2>1, <3>1, <3>2 DEF Claimed
  <2>5. ReplyTyped'
    BY <1>1, <1>4, <2>1, <2>2 DEF ReplyTyped
  <2>6. quoteState'[m] = "pending" /\ \A n \in Letters : n # m => quoteState'[n] = quoteState[n]
    BY <1>1, <1>4, <2>1 DEF ReplyTyped
  <2>7. ASSUME NEW t \in Threads PROVE Quoting(t)' /\ Owner(t)'
    <3>1. CASE t = s
      <4>1. ~Delivered(s)'
        BY <1>1, <2>3 DEF Delivered, Quoting
      <4> QED BY <1>1, <2>1, <2>3, <2>4, <2>6, <3>1, <4>1 DEF Quoting, Owner
    <3>2. CASE t # s
      <4>1. sends'[t] = sends[t] /\ sends[t] \in Send /\ Quoting(t) /\ Owner(t)
        BY <1>1, <2>3, <3>2 DEF ReplyInv, ReplyTyped
      <4>2. sends[t].quote # NoLetter => quoteState'[sends[t].quote] = quoteState[sends[t].quote]
        BY <2>4, <2>6, <4>1 DEF Send
      <4> QED BY <1>1, <4>1, <4>2 DEF Quoting, Owner, Delivered
    <3> QED BY <3>1, <3>2
  <2>9. ASSUME NEW n \in Letters PROVE Claimed(n)'
    <3>1. CASE n = m
      BY <2>3, <2>6, <3>1 DEF Claimed
    <3>2. CASE n # m
      <4>1. Claimed(n) /\ quoteState'[n] = quoteState[n] /\ confirmed'[n] = confirmed[n] /\ n # NoLetter
        BY <1>1, <2>6, <3>2, ReplyAssumption DEF ReplyInv
      <4>2. \A t \in Threads : sends[t].quote = n => sends'[t].quote = n
        BY <1>1, <2>3, <3>2, <4>1
      <4> QED BY <4>1, <4>2 DEF Claimed
    <3> QED BY <3>1, <3>2
  <2>8. OneOwner'
    BY <2>3, <2>4 DEF ReplyInv, OneOwner
  <2> QED BY <1>2, <2>5, <2>7, <2>8, <2>9 DEF ReplyInv
<1> QED BY <1>3, <1>4 DEF Claim

\* The end of a send that did not get through, or of one that was archived.
LEMMA EndedStep ==
    ASSUME ReplyInv, NEW s \in Threads, NEW sent \in BOOLEAN, Ended(s, sent),
           sends[s].pc \notin {"free", "claim", "settle"}, sent <=> sends[s].pc = "archive",
           UNCHANGED <<arrivedL, threadAt, quoteState, confirmed>>,
           QuotesNamedMail'
    PROVE  ReplyInv'
<1> DEFINE r == [sends[s] EXCEPT !.pc = "settle", !.sent = sent]
<1>1. ReplyTyped /\ Quoting(s) /\ sends[s] \in Send
  BY DEF ReplyInv, ReplyTyped
<1>2. sends' = [sends EXCEPT ![s] = r] /\ r \in Send
  BY <1>1 DEF Send, Ended
<1>3. /\ sends'[s] = r /\ r.pc = "settle" /\ r.turn = sends[s].turn /\ r.explicit = sends[s].explicit
      /\ r.want = sends[s].want /\ r.quote = sends[s].quote /\ r.sent = sent
  BY <1>1, <1>2 DEF Send, ReplyTyped
<1> HIDE DEF r
<1>4. Delivered(s)' <=> Delivered(s)
  BY <1>1, <1>3 DEF Delivered, Quoting
<1>5. Quoting(s)' /\ Owner(s)'
  BY <1>1, <1>3, <1>4 DEF ReplyInv, Quoting, Owner
<1> QED BY <1>1, <1>2, <1>3, <1>5, SameQuote DEF ReplyTyped

LEMMA BuildStep ==
    ASSUME ReplyInv, NEW s \in Threads, Build(s)
    PROVE  ReplyInv'
<1>1. /\ ReplyTyped /\ Quoting(s) /\ sends[s] \in Send /\ sends[s].pc = "build"
      /\ UNCHANGED <<arrivedL, quoteState, threadAt, pages, confirmed>>
  BY DEF ReplyInv, ReplyTyped, Build
<1>2. QuotesNamedMail'
  BY <1>1 DEF ReplyInv, QuotesNamedMail
<1>3. CASE Ended(s, FALSE)
  BY <1>1, <1>2, <1>3, EndedStep
<1> DEFINE x == IF sends[s].explicit THEN sends[s].want ELSE threadAt[Author[sends[s].turn]]
           r == [sends[s] EXCEPT !.pc = "smtp", !.re = x]
<1>4. CASE sends' = [sends EXCEPT ![s].pc = "smtp", ![s].re = x]
  <2>1. x \in Ids
    BY <1>1 DEF ReplyTyped, Quoting, Send, Ids, Authors
  <2>2. sends' = [sends EXCEPT ![s] = r]
    BY <1>1, <1>4 DEF Send
  <2>3. r \in Send
    BY <1>1, <2>1 DEF Send, Ids
  <2>4. /\ sends'[s] = r /\ r.pc = "smtp" /\ r.turn = sends[s].turn /\ r.explicit = sends[s].explicit
        /\ r.want = sends[s].want /\ r.quote = sends[s].quote /\ r.sent = sends[s].sent
    BY <1>1, <2>2 DEF Send, ReplyTyped
  <2> HIDE DEF r
  <2>5. Delivered(s)' <=> Delivered(s)
    BY <1>1, <2>4 DEF Delivered
  <2>6. Quoting(s)' /\ Owner(s)'
    BY <1>1, <2>4, <2>5 DEF ReplyInv, Quoting, Owner
  <2> QED BY <1>1, <1>2, <2>2, <2>3, <2>4, <2>6, SameQuote DEF ReplyTyped
<1> QED BY <1>3, <1>4 DEF Build

LEMMA SmtpStep ==
    ASSUME ReplyInv, NEW s \in Threads, Smtp(s)
    PROVE  ReplyInv'
<1>1. /\ ReplyTyped /\ Quoting(s) /\ sends[s] \in Send /\ sends[s].pc = "smtp"
      /\ UNCHANGED <<arrivedL, quoteState, threadAt>>
      /\ pages' \in {pages, pages \cup Page(s)}
  BY DEF ReplyInv, ReplyTyped, Smtp
<1>2. QuotesNamedMail'
  <2>1. ASSUME NEW p \in Page(s), p.explicit
        PROVE  MsgId[p.quote] = MsgId[p.turn] /\ Author[p.quote] = Author[p.turn]
    BY <1>1, <2>1 DEF Page, Quoting
  <2> QED BY <1>1, <2>1 DEF ReplyInv, QuotesNamedMail
<1>3. CASE Ended(s, FALSE) /\ UNCHANGED confirmed
  BY <1>1, <1>2, <1>3, EndedStep
<1>4. CASE /\ confirmed' = [m \in Letters |-> confirmed[m] + IF m = sends[s].quote THEN 1 ELSE 0]
           /\ sends' = [sends EXCEPT ![s].pc = "archive"]
  <2> DEFINE r == [sends[s] EXCEPT !.pc = "archive"]
  <2>1. sends' = [sends EXCEPT ![s] = r] /\ r \in Send
    BY <1>1, <1>4 DEF Send
  <2>2. /\ sends'[s] = r /\ r.pc = "archive" /\ r.turn = sends[s].turn /\ r.explicit = sends[s].explicit
        /\ r.want = sends[s].want /\ r.quote = sends[s].quote /\ r.sent = sends[s].sent
    BY <1>1, <2>1 DEF Send, ReplyTyped
  <2> HIDE DEF r
  <2>3. \A m \in Letters : confirmed'[m] = IF m = r.quote THEN confirmed[m] + 1 ELSE confirmed[m]
    <3>1. ASSUME NEW m \in Letters
          PROVE  confirmed'[m] = confirmed[m] + (IF m = r.quote THEN 1 ELSE 0) /\ confirmed[m] \in Nat
      BY <1>1, <1>4, <2>2 DEF ReplyTyped
    <3>2. ASSUME NEW m \in Letters, m = r.quote PROVE confirmed'[m] = confirmed[m] + 1
      BY <3>1, <3>2
    <3>3. ASSUME NEW m \in Letters, m # r.quote PROVE confirmed'[m] = confirmed[m]
      <4>1. confirmed'[m] = confirmed[m] + 0
        BY <3>1, <3>3
      <4> QED BY <3>1, <4>1
    <3> QED BY <3>2, <3>3
  <2>4. confirmed' \in [Letters -> Nat]
    <3>1. DOMAIN confirmed' = Letters /\ confirmed' = [m \in Letters |-> confirmed'[m]]
      BY <1>4
    <3>2. \A m \in Letters : confirmed[m] \in Nat
      BY <1>1 DEF ReplyTyped
    <3>3. \A m \in Letters : confirmed'[m] \in Nat
      BY <2>3, <3>2
    <3> QED BY <3>1, <3>3
  <2>5. r.quote # NoLetter => r.quote \in Letters /\ quoteState[r.quote] = "pending" /\ confirmed'[r.quote] = 1
    BY <1>1, <2>2, <2>3 DEF ReplyInv, Owner, Delivered, Quoting, Send
  <2>6. Quoting(s)' /\ Owner(s)'
    BY <1>1, <2>2, <2>5 DEF Quoting, Owner, Delivered
  <2> QED BY <1>1, <1>2, <2>1, <2>2, <2>3, <2>4, <2>6, SameQuote
<1> QED BY <1>3, <1>4 DEF Smtp

LEMMA ArchiveStep ==
    ASSUME ReplyInv, NEW s \in Threads, Archive(s)
    PROVE  ReplyInv'
<1>1. /\ sends[s].pc = "archive" /\ Ended(s, TRUE)
      /\ UNCHANGED <<arrivedL, quoteState, threadAt, pages, confirmed>>
  BY DEF Archive
<1>2. QuotesNamedMail'
  BY <1>1 DEF ReplyInv, QuotesNamedMail
<1> QED BY <1>1, <1>2, EndedStep

\* The claim is settled by its owner, who knows whether the mail went out.
LEMMA SettleStep ==
    ASSUME ReplyInv, NEW s \in Threads, Settle(s)
    PROVE  ReplyInv'
<1>1. /\ ReplyTyped /\ sends[s] \in Send /\ sends[s].pc = "settle"
      /\ quoteState' = [m \in Letters |-> IF m = sends[s].quote THEN Settled(sends[s].sent)
                                          ELSE quoteState[m]]
      /\ sends' = [sends EXCEPT ![s] = Free]
      /\ UNCHANGED <<arrivedL, threadAt, pages, confirmed>>
  BY DEF ReplyInv, ReplyTyped, Settle
<1>2. Free \in Send /\ Free.quote = NoLetter /\ Free.pc = "free" /\ ~Free.explicit /\ ~Free.sent
  BY DEF Free, Send
<1>3. sends'[s] = Free /\ \A t \in Threads : t # s => sends'[t] = sends[t]
  BY <1>1 DEF ReplyTyped
<1>4. ReplyTyped'
  BY <1>1, <1>2 DEF ReplyTyped, Settled
<1>5. ASSUME NEW t \in Threads PROVE Quoting(t)' /\ Owner(t)'
  <2>1. CASE t = s
    BY <1>2, <1>3, <2>1 DEF Quoting, Owner
  <2>2. CASE t # s
    <3>1. sends'[t] = sends[t] /\ sends[t] \in Send /\ Quoting(t) /\ Owner(t)
      BY <1>1, <1>3, <2>2 DEF ReplyInv, ReplyTyped
    <3>2. sends[t].quote # NoLetter => quoteState'[sends[t].quote] = quoteState[sends[t].quote]
      BY <1>1, <2>2, <3>1 DEF ReplyInv, OneOwner, Send
    <3> QED BY <1>1, <3>1, <3>2 DEF Quoting, Owner, Delivered
  <2> QED BY <2>1, <2>2
<1>6. ASSUME NEW m \in Letters PROVE Claimed(m)'
  <2>0. m # NoLetter /\ confirmed'[m] = confirmed[m] /\ Claimed(m)
    BY <1>1, ReplyAssumption DEF ReplyInv
  <2>1. CASE m = sends[s].quote
    <3>1. Delivered(s) <=> sends[s].sent = TRUE
      BY <1>1 DEF Delivered
    <3>2. quoteState'[m] = Settled(sends[s].sent) /\ sends[s].sent \in BOOLEAN
      BY <1>1, <2>1 DEF Send
    <3> QED BY <2>0, <2>1, <3>1, <3>2 DEF ReplyInv, Owner, Claimed, Settled
  <2>2. CASE m # sends[s].quote
    <3>1. quoteState'[m] = quoteState[m]
      BY <1>1, <2>2
    <3>2. \A t \in Threads : sends[t].quote = m => sends'[t].quote = m
      BY <1>3, <2>2
    <3> QED BY <2>0, <3>1, <3>2 DEF Claimed
  <2> QED BY <2>1, <2>2
<1>7. OneOwner'
  BY <1>2, <1>3 DEF ReplyInv, OneOwner
<1>8. QuotesNamedMail'
  BY <1>1 DEF ReplyInv, QuotesNamedMail
<1> QED BY <1>4, <1>5, <1>6, <1>7, <1>8 DEF ReplyInv

LEMMA ReplyStart == ReplyInit => ReplyInv
<1> SUFFICES ASSUME ReplyInit PROVE ReplyInv
  OBVIOUS
<1> USE ReplyAssumption DEF ReplyInit
<1>1. /\ Free \in Send /\ Free.quote = NoLetter /\ Free.pc = "free" /\ ~Free.explicit /\ ~Free.sent
  BY DEF Free, Send
<1>2. ReplyTyped
  BY <1>1 DEF ReplyTyped, Ids
<1>3. \A s \in Threads : Quoting(s) /\ Owner(s)
  BY <1>1 DEF Quoting, Owner
<1>4. \A m \in Letters : Claimed(m)
  BY <1>1 DEF Claimed
<1> QED BY <1>1, <1>2, <1>3, <1>4 DEF ReplyInv, OneOwner, QuotesNamedMail

LEMMA ReplyStep == ReplyInv /\ [ReplyNext]_replyVars => ReplyInv'
<1> SUFFICES ASSUME ReplyInv, [ReplyNext]_replyVars PROVE ReplyInv'
  OBVIOUS
<1>1. CASE UNCHANGED replyVars
  BY <1>1 DEF replyVars, ReplyInv, ReplyTyped, Quoting, Owner, Claimed, Delivered, OneOwner,
     QuotesNamedMail
<1>2. ASSUME NEW s \in Threads, SendStep(s) PROVE ReplyInv'
  BY <1>2, ClaimStep, BuildStep, SmtpStep, ArchiveStep, SettleStep DEF SendStep
<1> QED BY <1>1, <1>2, ReceivedStep, StartSendStep DEF ReplyNext

\* However sends fail, are repeated and overtake each other, a mail is quoted by
\* one reply, the reply to it, and a claim lasts as long as its send
\* (_claim_quote, _settle_quote).
THEOREM QuotesAlwaysHold == ReplySpec => []QuotesHold
<1>1. ASSUME ReplyInv PROVE QuotesHold
  <2> USE <1>1 DEF ReplyInv
  <2>1. ASSUME NEW m \in Letters
        PROVE  /\ confirmed[m] <= 1
               /\ quoteState[m] = "pending" => \E s \in Threads : sends[s].quote = m
               /\ quoteState[m] = "done" <=> confirmed[m] = 1 /\ ~\E s \in Threads : sends[s].quote = m
    <3>1. quoteState[m] \in {"", "pending", "done"} /\ m # NoLetter /\ Claimed(m)
      BY ReplyAssumption DEF ReplyTyped
    <3>2. ASSUME NEW s \in Threads, sends[s].quote = m
          PROVE  quoteState[m] = "pending" /\ confirmed[m] \in {0, 1}
      BY <3>1, <3>2 DEF Owner
    <3>3. CASE \E s \in Threads : sends[s].quote = m
      BY <3>2, <3>3
    <3>4. CASE ~\E s \in Threads : sends[s].quote = m
      <4>1. quoteState[m] # "pending" /\ (quoteState[m] = "" => confirmed[m] = 0)
            /\ (quoteState[m] = "done" => confirmed[m] = 1)
        BY <3>1, <3>4 DEF Claimed
      <4>2. confirmed[m] \in {0, 1} /\ (quoteState[m] = "done" <=> confirmed[m] = 1)
        <5>0. confirmed[m] \in Nat
          BY DEF ReplyTyped
        <5>1. CASE quoteState[m] = ""
          <6>1. confirmed[m] = 0 /\ quoteState[m] # "done"
            BY <4>1, <5>1
          <6> QED BY <6>1
        <5>2. CASE quoteState[m] = "done"
          BY <4>1, <5>2
        <5> QED BY <3>1, <4>1, <5>1, <5>2
      <4>3. confirmed[m] <= 1
        BY <4>2
      <4> QED BY <3>4, <4>1, <4>2, <4>3
    <3> QED BY <3>3, <3>4
  <2>2. QuotedOnce
    BY <2>1 DEF QuotedOnce, OneOwner
  <2>3. PendingIsOwned
    BY <2>1 DEF PendingIsOwned
  <2> QED BY <2>2, <2>3 DEF QuotesHold
<1> QED BY <1>1, ReplyStart, ReplyStep, PTL DEF ReplySpec

-----------------------------------------------------------------------------
(* The records a reply may quote. *)

\* What removing the entry at position k leaves: the others, in their order.
Gap(k, i) == IF i < k THEN i ELSE i + 1

LEMMA WithoutOne ==
    ASSUME NEW S, NEW seq \in Seq(S), NEW k \in DOMAIN seq
    PROVE  /\ RemoveAt(seq, k) \in Seq(S) /\ Len(RemoveAt(seq, k)) = Len(seq) - 1
           /\ \A i \in 1 .. Len(seq) - 1 : RemoveAt(seq, k)[i] = seq[Gap(k, i)]
<1> DEFINE low == SubSeq(seq, 1, k - 1)
           high == SubSeq(seq, k + 1, Len(seq))
<1>1. k \in Nat /\ 1 <= k /\ k <= Len(seq) /\ Len(seq) \in Nat
  OBVIOUS
<1>2. low \in Seq(S) /\ Len(low) = k - 1 /\ \A i \in 1 .. k - 1 : low[i] = seq[i]
  BY <1>1
<1>3. high \in Seq(S) /\ Len(high) = Len(seq) - k /\ \A i \in 1 .. Len(seq) - k : high[i] = seq[k + i]
  BY <1>1
<1>4. RemoveAt(seq, k) = low \o high
  BY DEF RemoveAt
<1> HIDE DEF low, high
<1>5. low \o high \in Seq(S) /\ Len(low \o high) = Len(seq) - 1
  BY <1>1, <1>2, <1>3
<1>6. ASSUME NEW i \in 1 .. Len(seq) - 1 PROVE (low \o high)[i] = seq[Gap(k, i)]
  <2>1. CASE i < k
    BY <1>1, <1>2, <1>3, <2>1 DEF Gap
  <2>2. CASE ~(i < k)
    <3>1. (low \o high)[i] = high[i - (k - 1)]
      <4>1. i \in 1 .. Len(low) + Len(high) /\ ~(i <= Len(low)) /\ Len(low) = k - 1
        BY <1>1, <1>2, <1>3, <2>2
      <4>2. low \in Seq(S) /\ high \in Seq(S)
        BY <1>2, <1>3
      <4>3. (low \o high)[i] = IF i <= Len(low) THEN low[i] ELSE high[i - Len(low)]
        BY <4>1, <4>2, ConcatProperties, Zenon
      <4>4. (low \o high)[i] = high[i - Len(low)]
        BY <4>1, <4>3, Zenon
      <4> QED BY <4>1, <4>4, Zenon
    <3>2. i - (k - 1) \in 1 .. Len(seq) - k /\ k + (i - (k - 1)) = i + 1
      BY <1>1, <2>2
    <3>3. high[i - (k - 1)] = seq[i + 1]
      BY <1>3, <3>2
    <3> QED BY <2>2, <3>1, <3>3 DEF Gap
  <2> QED BY <2>1, <2>2
<1> QED BY <1>4, <1>5, <1>6

\* A dictionary over S, without its bound.
Entries(S, seq, key) == seq \in Seq(S) /\ \A i, j \in DOMAIN seq : key[seq[i]] = key[seq[j]] => i = j

\* Taking a key out leaves a dictionary without that key.
LEMMA PoppedIs ==
    ASSUME NEW S, NEW seq, NEW key, NEW m, Entries(S, seq, key)
    PROVE  /\ Entries(S, Popped(seq, m, key), key) /\ Len(Popped(seq, m, key)) <= Len(seq)
           /\ \A i \in DOMAIN Popped(seq, m, key) : key[Popped(seq, m, key)[i]] # key[m]
<1> DEFINE same == {i \in DOMAIN seq : key[seq[i]] = key[m]}
<1>1. seq \in Seq(S) /\ Len(seq) \in Nat /\ DOMAIN seq = 1 .. Len(seq)
  BY DEF Entries
<1>2. \A i, j \in DOMAIN seq : key[seq[i]] = key[seq[j]] => i = j
  BY DEF Entries
<1>3. CASE same = {}
  <2>1. Popped(seq, m, key) = seq
    BY <1>3 DEF Popped
  <2>2. \A i \in DOMAIN seq : key[seq[i]] # key[m]
    BY <1>3
  <2> QED BY <1>1, <2>1, <2>2
<1>4. CASE same # {}
  <2>1. PICK k : k = CHOOSE i \in same : TRUE
    OBVIOUS
  <2>2. k \in DOMAIN seq /\ key[seq[k]] = key[m]
    BY <1>4, <2>1
  <2>3. PICK p : p = RemoveAt(seq, k)
    OBVIOUS
  <2>4. Popped(seq, m, key) = p
    BY <1>4, <2>1, <2>3 DEF Popped
  <2>5. p \in Seq(S) /\ Len(p) = Len(seq) - 1 /\ \A i \in 1 .. Len(seq) - 1 : p[i] = seq[Gap(k, i)]
    BY <1>1, <2>2, <2>3, WithoutOne
  <2>6. DOMAIN p = 1 .. Len(seq) - 1
    BY <1>1, <2>5
  <2>7. \A i \in DOMAIN p : Gap(k, i) \in DOMAIN seq /\ Gap(k, i) # k
    BY <1>1, <2>2, <2>6 DEF Gap
  <2>8. \A i, j \in DOMAIN p : Gap(k, i) = Gap(k, j) => i = j
    BY <1>1, <2>2, <2>6 DEF Gap
  <2>9. \A i \in DOMAIN p : key[p[i]] # key[m]
    BY <1>2, <2>2, <2>5, <2>6, <2>7
  <2>10. \A i, j \in DOMAIN p : key[p[i]] = key[p[j]] => i = j
    BY <1>2, <2>5, <2>6, <2>7, <2>8
  <2>11. Entries(S, p, key)
    BY <2>5, <2>10 DEF Entries
  <2>12. Len(p) <= Len(seq)
    BY <1>1, <2>5
  <2> QED BY <2>4, <2>9, <2>11, <2>12
<1> QED BY <1>3, <1>4

\* A new record replaces the one of its key, and of too many the oldest goes.
LEMMA RenewIs ==
    ASSUME NEW S, NEW seq, NEW key, NEW m \in S, Entries(S, seq, key), Len(seq) <= LookupMax
    PROVE  Entries(S, Renew(seq, m, key), key) /\ Len(Renew(seq, m, key)) <= LookupMax
<1>1. PICK p : p = Popped(seq, m, key)
  OBVIOUS
<1>2. /\ p \in Seq(S) /\ Len(p) <= Len(seq) /\ Len(p) \in Nat /\ DOMAIN p = 1 .. Len(p)
      /\ Len(seq) \in Nat /\ LookupMax \in Nat /\ 1 <= LookupMax
  BY <1>1, PoppedIs, ReplyAssumption DEF Entries
<1>3. /\ \A i \in DOMAIN p : key[p[i]] # key[m]
      /\ \A i, j \in DOMAIN p : key[p[i]] = key[p[j]] => i = j
  BY <1>1, PoppedIs DEF Entries
<1>4. PICK q : q = Append(p, m)
  OBVIOUS
<1>5. /\ q \in Seq(S) /\ Len(q) = Len(p) + 1 /\ DOMAIN q = 1 .. Len(p) + 1
      /\ q[Len(p) + 1] = m /\ \A i \in 1 .. Len(p) : q[i] = p[i]
  BY <1>2, <1>4
<1>6. \A i, j \in DOMAIN q : key[q[i]] = key[q[j]] => i = j
  <2> SUFFICES ASSUME NEW i \in DOMAIN q, NEW j \in DOMAIN q, key[q[i]] = key[q[j]] PROVE i = j
    OBVIOUS
  <2>1. CASE i \in 1 .. Len(p) /\ j \in 1 .. Len(p)
    <3>1. q[i] = p[i] /\ q[j] = p[j]
      BY <1>5, <2>1
    <3> QED BY <1>2, <1>3, <2>1, <3>1
  <2>2. CASE i \in 1 .. Len(p) /\ j = Len(p) + 1
    <3>1. q[i] = p[i] /\ q[j] = m
      BY <1>5, <2>2
    <3> QED BY <1>2, <1>3, <2>2, <3>1
  <2>3. CASE i = Len(p) + 1 /\ j \in 1 .. Len(p)
    <3>1. q[i] = m /\ q[j] = p[j]
      BY <1>5, <2>3
    <3> QED BY <1>2, <1>3, <2>3, <3>1
  <2>4. CASE i = Len(p) + 1 /\ j = Len(p) + 1
    BY <2>4
  <2> QED BY <1>2, <1>5, <2>1, <2>2, <2>3, <2>4
<1>7. Renew(seq, m, key) = IF Len(q) > LookupMax THEN Tail(q) ELSE q
  BY <1>1, <1>4 DEF Renew, Bounded
<1>8. CASE Len(q) > LookupMax
  <2>1. PICK t : t = Tail(q)
    OBVIOUS
  <2>2. /\ t \in Seq(S) /\ Len(t) = Len(p) /\ DOMAIN t = 1 .. Len(p)
        /\ \A i \in 1 .. Len(p) : t[i] = q[i + 1]
    BY <1>2, <1>5, <2>1
  <2>3. \A i \in 1 .. Len(p) : i + 1 \in DOMAIN q
    BY <1>2, <1>5
  <2>4. \A i, j \in DOMAIN t : key[t[i]] = key[t[j]] => i = j
    <3> SUFFICES ASSUME NEW i \in DOMAIN t, NEW j \in DOMAIN t, key[t[i]] = key[t[j]] PROVE i = j
      OBVIOUS
    <3>1. i + 1 = j + 1
      BY <1>6, <2>2, <2>3
    <3> QED BY <1>2, <2>2, <3>1
  <2> QED BY <1>2, <1>7, <1>8, <2>1, <2>2, <2>4 DEF Entries
<1>9. CASE ~(Len(q) > LookupMax)
  BY <1>2, <1>5, <1>6, <1>7, <1>9 DEF Entries
<1> QED BY <1>8, <1>9

\* The two dictionaries of the adapter, and how many sends there were.
RecordsInv ==
    /\ Table(byId, MsgId) /\ Table(lastOf, Author)
    /\ sendCount \in 0 .. MaxSends

LEMMA RecordsStep == ReplyInv /\ RecordsInv /\ [ReplyNext]_replyVars => RecordsInv'
<1> SUFFICES ASSUME ReplyInv, RecordsInv, [ReplyNext]_replyVars PROVE RecordsInv'
  OBVIOUS
<1>1. CASE UNCHANGED <<arrivedL, byId, lastOf, sendCount>>
  BY <1>1 DEF RecordsInv, Table
<1>2. ASSUME NEW m \in Letters, NEW granted \in BOOLEAN, Received(m, granted) PROVE RecordsInv'
  <2>1. PICK S : S = arrivedL \cup {m}
    OBVIOUS
  <2>2. arrivedL' = S /\ m \in S /\ sendCount' = sendCount
    BY <1>2, <2>1 DEF Received
  <2>3. Entries(S, byId, MsgId) /\ Len(byId) <= LookupMax
    BY <2>1 DEF RecordsInv, Table, Entries
  <2>4. Entries(S, lastOf, Author) /\ Len(lastOf) <= LookupMax
    BY <2>1 DEF RecordsInv, Table, Entries
  <2>5. Entries(S, byId', MsgId) /\ Len(byId') <= LookupMax
    <3>1. byId' \in {byId, Renew(byId, m, MsgId)}
      BY <1>2 DEF Received, Remember, Forget
    <3>2. Entries(S, Renew(byId, m, MsgId), MsgId) /\ Len(Renew(byId, m, MsgId)) <= LookupMax
      BY <2>2, <2>3, RenewIs
    <3> QED BY <2>3, <3>1, <3>2
  <2>6. Entries(S, lastOf', Author) /\ Len(lastOf') <= LookupMax
    <3>1. lastOf' \in {Popped(lastOf, m, Author), Renew(lastOf, m, Author)}
      BY <1>2 DEF Received, Remember, Forget
    <3>2. Entries(S, Renew(lastOf, m, Author), Author) /\ Len(Renew(lastOf, m, Author)) <= LookupMax
      BY <2>2, <2>4, RenewIs
    <3>3. Entries(S, Popped(lastOf, m, Author), Author) /\ Len(Popped(lastOf, m, Author)) <= LookupMax
      <4>1. Entries(S, Popped(lastOf, m, Author), Author) /\ Len(Popped(lastOf, m, Author)) <= Len(lastOf)
        BY <2>4, PoppedIs
      <4>2. Len(Popped(lastOf, m, Author)) \in Nat /\ Len(lastOf) \in Nat /\ LookupMax \in Nat
        BY <2>4, <4>1, ReplyAssumption DEF Entries
      <4> QED BY <2>4, <4>1, <4>2
    <3> QED BY <3>1, <3>2, <3>3
  <2> QED BY <2>2, <2>5, <2>6 DEF RecordsInv, Table, Entries
<1>3. ASSUME NEW s \in Threads, NEW m \in Letters, NEW explicit \in BOOLEAN, StartSend(s, m, explicit)
      PROVE  RecordsInv'
  <2>1. sendCount < MaxSends /\ sendCount' = sendCount + 1 /\ UNCHANGED <<arrivedL, byId, lastOf>>
    BY <1>3 DEF StartSend
  <2>2. sendCount' \in 0 .. MaxSends
    BY <2>1, ReplyAssumption DEF RecordsInv
  <2> QED BY <2>1, <2>2 DEF RecordsInv, Table
<1>4. ASSUME NEW s \in Threads, SendStep(s) PROVE UNCHANGED <<arrivedL, byId, lastOf, sendCount>>
  BY <1>4 DEF SendStep, Claim, Build, Smtp, Archive, Settle
<1>5. CASE UNCHANGED replyVars
  BY <1>1, <1>5 DEF replyVars
<1> QED BY <1>1, <1>2, <1>3, <1>4, <1>5 DEF ReplyNext

\* The two dictionaries keep one record of a Message-ID and one of a sender, of
\* mails that arrived and never more than their bound (_remember_original,
\* _forget_sender_original).
THEOREM RepliesTyped == ReplySpec => []ReplyTypeOK
<1>1. ReplyInit => RecordsInv
  <2> SUFFICES ASSUME ReplyInit PROVE RecordsInv
    OBVIOUS
  <2>1. byId = <<>> /\ lastOf = <<>> /\ sendCount = 0 /\ arrivedL = {}
    BY DEF ReplyInit
  <2>4. <<>> \in Seq({})
    OBVIOUS
  <2>5. Len(<<>>) <= LookupMax
    <3>1. Len(<<>>) = 0
      OBVIOUS
    <3> QED BY <3>1, ReplyAssumption
  <2>2. DOMAIN <<>> = {}
    OBVIOUS
  <2>3. Table(byId, MsgId) /\ Table(lastOf, Author)
    BY <2>1, <2>2, <2>4, <2>5 DEF Table
  <2> QED BY <2>1, <2>3, ReplyAssumption DEF RecordsInv
<1>2. ReplyInv /\ RecordsInv => ReplyTypeOK
  BY DEF ReplyInv, ReplyTyped, RecordsInv, ReplyTypeOK
<1> QED BY <1>1, <1>2, ReplyStart, ReplyStep, RecordsStep, PTL DEF ReplySpec

-----------------------------------------------------------------------------
(* The check of the sender. *)

AuthInv ==
    /\ policy \in Policies
    /\ stageA \notin {"new", "fetched", "refused"} => proven = Verified(header)
    /\ stageA = "handed" /\ policy.require => proven
    /\ stageA \in {"new", "fetched", "parsed"} => ~moved
    /\ stageA = "downloaded" /\ ~moved => Accepted
    /\ stageA = "dropped" => moved

LEMMA AuthStep == AuthInv /\ [AuthNext]_authVars => AuthInv'
<1> SUFFICES ASSUME AuthInv, [AuthNext]_authVars PROVE AuthInv'
  OBVIOUS
<1> USE DEF AuthInv
<1>1. CASE \E h \in Headers, s \in Senders, p \in Policies : Fetch(h, s, p)
  BY <1>1 DEF Fetch
<1>2. CASE Parse
  <2>1. CASE sender \in {"automated", "unparsable"}
    BY <1>2, <2>1 DEF Parse
  <2>2. CASE sender \notin {"automated", "unparsable"}
    BY <1>2, <2>2 DEF Parse
  <2> QED BY <2>1, <2>2
<1>3. CASE Preauthorize
  BY <1>3 DEF Preauthorize, Preflight, Accepted, Granted
<1>4. CASE DispatchA
  BY <1>4 DEF DispatchA, Accepted, Granted
<1>5. ASSUME NEW v \in {"granted", "denied"}, Pair(v) PROVE AuthInv'
  <2>1. policy' \in Policies /\ policy'.require = policy.require
    BY <1>5 DEF Pair, Policies
  <2> QED BY <1>5, <2>1 DEF Pair
<1>6. CASE UNCHANGED authVars
  BY <1>6 DEF authVars, Accepted, Granted
<1> QED BY <1>1, <1>2, <1>3, <1>4, <1>5, <1>6 DEF AuthNext

\* A header that verifies has a clause that passed for the From domain alone,
\* and no second dmarc result.
LEMMA VerifiedVouches ==
    ASSUME Verified(header)
    PROVE  /\ header.stamp = "trusted"
           /\ \E c \in ToSet(header.clauses) : Vouches(c)
           /\ \A i, j \in DOMAIN header.clauses :
                  header.clauses[i].method = "dmarc" /\ header.clauses[j].method = "dmarc" => i = j
<1>1. PICK i \in DOMAIN header.clauses : Vouches(header.clauses[i])
  BY DEF Verified, Passed, Of, DmarcPasses, SpfPasses, DkimPasses, Aligned, Vouches
<1>2. header.clauses[i] \in ToSet(header.clauses)
  BY DEF ToSet
<1>3. \A k, j \in DOMAIN header.clauses :
          header.clauses[k].method = "dmarc" /\ header.clauses[j].method = "dmarc" => k = j
  BY DEF Verified, AtMostOne, Of
<1> QED BY <1>1, <1>2, <1>3 DEF Verified

\* With sender authentication on, the agent gets only mail that a result of the
\* pinned server vouches for; the check on the headers and the one at dispatch
\* agree unless a pairing changed between them (_sender_accepted).
THEOREM AuthAlwaysAgrees == AuthSpec => []AuthAgrees
<1>1. AuthInit => AuthInv
  BY DEF AuthInit, AuthInv, Policies
<1>2. ASSUME AuthInv PROVE AuthAgrees
  <2>1. HandedIsVouched
    BY <1>2, VerifiedVouches DEF AuthInv, HandedIsVouched
  <2>2. DroppedMeansMoved
    BY <1>2 DEF AuthInv, DroppedMeansMoved
  <2> QED BY <2>1, <2>2 DEF AuthAgrees
<1> QED BY <1>1, <1>2, AuthStep, PTL DEF AuthSpec

-----------------------------------------------------------------------------
(* The three side by side. *)

\* Each part of MCMail behaves as its own specification says, so that what is
\* proved of receiving, replying and the check holds of their common runs.
THEOREM MailRunsEach == MailSpec => Spec /\ ReplySpec /\ AuthSpec
<1>1. MailInit => Init /\ ReplyInit /\ AuthInit
  BY DEF MailInit
<1>2. [MailNext]_mailAll => [Next]_vars /\ [ReplyNext]_replyVars /\ [AuthNext]_authVars
  <2> SUFFICES ASSUME [MailNext]_mailAll PROVE [Next]_vars /\ [ReplyNext]_replyVars /\ [AuthNext]_authVars
    OBVIOUS
  <2>1. CASE Next /\ UNCHANGED <<replyVars, authVars>>
    BY <2>1
  <2>2. CASE ReplyNext /\ UNCHANGED <<vars, authVars>>
    BY <2>2
  <2>3. CASE AuthNext /\ UNCHANGED <<vars, replyVars>>
    BY <2>3
  <2>4. CASE UNCHANGED mailAll
    BY <2>4 DEF mailAll
  <2> QED BY <2>1, <2>2, <2>3, <2>4 DEF MailNext
<1> QED BY <1>1, <1>2, PTL DEF MailSpec, Spec, ReplySpec, AuthSpec

\* A mail that arrived stays in a folder, an adapter that waits holds none, and
\* the records of the replies stay bounded with one of a key.
THEOREM MailKeepsTypes == MailSpec => []MailTypeOK
<1>1. TypeOK /\ ReplyTypeOK => MailTypeOK
  BY DEF MailTypeOK
<1> QED BY <1>1, MailRunsEach, GatewayTyped, RepliesTyped, PTL

=============================================================================
