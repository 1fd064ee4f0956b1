------------------------------ MODULE UserMap ------------------------------
(***************************************************************************)
(* The user map of the Crawl4AI server                                     *)
(* (roles/k8s_infra/files/crawl4ai/crawl4ai_usermap.py, switched on).      *)
(*                                                                         *)
(* Request threads share one registry of users, parsed from the users file *)
(* and the key files it names.  When Interval has passed, the next request *)
(* compares the signature of these files (mtime, size, inode) with the     *)
(* recorded one and, when it changed, parses them again; the lock is held  *)
(* for that long, and the files may be replaced at any moment of it.       *)
(* A request asks the registry three times: to authenticate, before it     *)
(* starts LLM work, and for the key it pays with.                          *)
(***************************************************************************)
EXTENDS Naturals, FiniteSets

CONSTANTS
    Users,
    Operator,       \* a caller that is no user: static token or JWT
    KeyFiles,
    UsersFile,      \* CRAWL4AI_USERMAP_FILE
    Documents,      \* valid contents of the users file
    Broken,         \* a content that does not parse
    NoKey, Inline,  \* an entry without a key, with litellm_key
    Fallback,       \* CRAWL4AI_USERMAP_FALLBACK_OPENAI_KEY
    Threads,
    Server,         \* holds the lock while the constructor runs
    Nobody, NoRegistry,
    Interval,       \* RELOAD_SECONDS
    MaxClock,       \* bound: the last moment of the run
    MaxPublish      \* bound: how often the files are replaced

Paths == {UsersFile} \cup KeyFiles
Callers == Users \cup {Operator}

\* A user of the users file; admits abstracts "models" for the model asked for.
Entry == [llm : BOOLEAN, key : {NoKey, Inline} \cup KeyFiles, admits : BOOLEAN]

ASSUME MapAssumption ==
    /\ \A doc \in Documents : DOMAIN doc \subseteq Users /\ \A u \in DOMAIN doc : doc[u] \in Entry
    /\ Broken \notin Documents
    /\ Operator \notin Users
    /\ UsersFile \notin KeyFiles
    /\ {NoKey, Inline} \cap KeyFiles = {}
    /\ NoKey # Inline
    /\ {Server, Nobody} \cap Threads = {}
    /\ Server # Nobody
    /\ Fallback \in BOOLEAN
    /\ Interval \in Nat \ {0}
    /\ MaxClock \in Nat
    /\ MaxPublish \in Nat \ {0}

VARIABLES
    text,       \* what the users file holds
    disk,       \* disk[p]: the version of file p, 0 when it does not exist
    published,
    clock,      \* time.monotonic()
    checked,    \* _checked
    lock,       \* the holder of _lock
    sig,        \* _sig
    registry,   \* _registry
    step,       \* what the holder of the lock does next in _reload
    draft,      \* parse_registry so far: the users file and key files read
    changed,    \* files were replaced since the lock was taken (history)
    clean,      \* the last parse succeeded, on files that stood still (history)
    pc,
    now,        \* now[t] in registry(), while it waits for the lock
    caller,
    stage,      \* which of its three questions a request asks
    out         \* out[t]: how the request of t ended

diskVars == <<text, disk, published>>
loadVars == <<checked, lock, sig, registry, step, draft, clean>>
reqVars == <<pc, now, caller, stage, out>>
vars == <<diskVars, clock, loadVars, changed, reqVars>>

\* A key is told apart by the file, and the version of it, that it stands in.
Key == Paths \X (1 .. MaxPublish)
Grant == [llm : BOOLEAN, key : {NoKey} \cup Key, admits : BOOLEAN]
NoAnswer == <<"none">>
Unauthorized == <<"unauthorized">>
Denied == <<"denied">>
Default == <<"default">>
Outcomes == {NoAnswer, Unauthorized, Denied, Default} \cup Key

\* Registry.sources: the users file and the key files it names.
Sources(doc) == {UsersFile} \cup {k \in KeyFiles : \E u \in DOMAIN doc : doc[u].key = k}

Parse(doc, version) ==
    [users |-> [u \in DOMAIN doc |->
        [llm |-> doc[u].llm,
         admits |-> doc[u].admits,
         key |-> CASE doc[u].key = NoKey -> NoKey
                   [] doc[u].key = Inline -> <<UsersFile, version[UsersFile]>>
                   [] OTHER -> <<doc[u].key, version[doc[u].key]>>]],
     sources |-> Sources(doc)]

Readable == disk[UsersFile] # 0 /\ text # Broken /\ \A p \in Sources(text) : disk[p] # 0

\* Mutant: only the users file is signed.
Signature_UsersFile(files) == [p \in files \cap {UsersFile} |-> disk[p]]

\* _signature: os.stat raises for a missing file.
Statable(files) == \A p \in files : disk[p] # 0
Signature(files) == [p \in files |-> disk[p]]

TypeOK ==
    /\ text \in Documents \cup {Broken}
    /\ disk \in [Paths -> 0 .. MaxPublish]
    /\ published \in 1 .. MaxPublish
    /\ clock \in 0 .. MaxClock
    /\ checked \in 0 .. clock
    /\ lock \in Threads \cup {Server, Nobody}
    /\ registry # NoRegistry =>
        /\ DOMAIN registry.users \subseteq Users
        /\ \A u \in DOMAIN registry.users : registry.users[u] \in Grant
        /\ UsersFile \in registry.sources
        /\ registry.sources \subseteq Paths
    /\ DOMAIN sig \subseteq Paths
    /\ step \in {"compare", "open", "keys", "sign"}
    /\ DOMAIN draft.version \subseteq Paths
    /\ {changed, clean} \subseteq BOOLEAN
    /\ pc \in [Threads -> {"idle", "ask", "wait", "load", "answer"}]
    /\ now \in [Threads -> 0 .. clock]
    /\ caller \in [Threads -> Callers]
    /\ stage \in [Threads -> {"authenticate", "precheck", "token"}]
    /\ out \in [Threads -> Outcomes]

NoDraft == [doc |-> << >>, version |-> << >>]

\* The module is imported: __init__ starts to parse, _sig is empty.
Init ==
    /\ text \in Documents
    /\ disk = [p \in Paths |-> 1]
    /\ published = 1
    /\ clock = 0 /\ checked = 0
    /\ lock = Server /\ step = "open" /\ draft = NoDraft
    /\ sig = << >> /\ registry = NoRegistry
    /\ changed = FALSE /\ clean = FALSE
    /\ pc = [t \in Threads |-> "idle"]
    /\ now = [t \in Threads |-> 0]
    /\ caller = [t \in Threads |-> Operator]
    /\ stage = [t \in Threads |-> "authenticate"]
    /\ out = [t \in Threads |-> NoAnswer]

(***************************************************************************)
(* The operator and the kubelet replace files: one of them, or all at once *)
(* when a Secret volume is switched.  No two versions have one signature.  *)
(***************************************************************************)
Publish ==
    /\ published < MaxPublish
    /\ published' = published + 1
    /\ \E files \in SUBSET Paths \ {{}}, gone \in SUBSET KeyFiles :
        /\ gone \subseteq files
        /\ disk' = [p \in Paths |-> CASE p \in gone -> 0
                                      [] p \in files \ gone -> published'
                                      [] OTHER -> disk[p]]
        /\ IF UsersFile \in files THEN text' \in Documents \cup {Broken} ELSE text' = text
    /\ changed' = TRUE
    /\ UNCHANGED <<clock, loadVars, reqVars>>

Tick ==
    /\ clock < MaxClock
    /\ clock' = clock + 1
    /\ UNCHANGED <<diskVars, loadVars, changed, reqVars>>

-----------------------------------------------------------------------------
\* A request arrives.  auth_gate asks authenticate() for a user's token only.
Arrive(t) ==
    /\ pc[t] = "idle" /\ lock # Server
    /\ \E c \in Callers :
        /\ caller' = [caller EXCEPT ![t] = c]
        /\ stage' = [stage EXCEPT ![t] = IF c \in Users THEN "authenticate" ELSE "precheck"]
    /\ pc' = [pc EXCEPT ![t] = "ask"]
    /\ out' = [out EXCEPT ![t] = NoAnswer]
    /\ UNCHANGED <<diskVars, clock, loadVars, changed, now>>

Due(moment) == moment >= checked + Interval

\* registry(): read the clock, look at _checked without the lock.
Ask(t) ==
    /\ pc[t] = "ask"
    /\ IF Due(clock)
       THEN pc' = [pc EXCEPT ![t] = "wait"] /\ now' = [now EXCEPT ![t] = clock]
       ELSE pc' = [pc EXCEPT ![t] = "answer"] /\ UNCHANGED now
    /\ UNCHANGED <<diskVars, clock, loadVars, changed, caller, stage, out>>

\* Mutant: no second look at _checked.
StillDue_Once(t) == TRUE

\* ... and again under it: another thread may have reloaded meanwhile.
StillDue(t) == Due(now[t])

Acquire(t) ==
    /\ pc[t] = "wait" /\ lock = Nobody
    /\ IF StillDue(t)
       THEN /\ checked' = now[t]
            /\ lock' = t /\ step' = "compare" /\ changed' = FALSE
            /\ pc' = [pc EXCEPT ![t] = "load"]
       ELSE /\ pc' = [pc EXCEPT ![t] = "answer"]
            /\ UNCHANGED <<checked, lock, step, changed>>
    /\ now' = [now EXCEPT ![t] = 0]
    /\ UNCHANGED <<diskVars, clock, sig, registry, draft, clean, caller, stage, out>>

-----------------------------------------------------------------------------
(***************************************************************************)
(* _reload, step by step, and the parse and signature of __init__.         *)
(***************************************************************************)
Loading(s) == lock # Nobody /\ step = s

\* The end of the with statement; a constructor leaves a server that serves.
Release ==
    /\ lock' = Nobody
    /\ pc' = [t \in Threads |-> IF t = lock THEN "answer" ELSE pc[t]]
    /\ step' = "compare" /\ draft' = NoDraft
    /\ UNCHANGED checked

\* The constructor raises, the server ends and its container starts again.
Restart ==
    /\ lock = Server
    /\ step' = "open" /\ draft' = NoDraft /\ changed' = FALSE
    /\ checked' = clock
    /\ sig' = << >> /\ registry' = NoRegistry /\ clean' = FALSE
    /\ UNCHANGED <<lock, pc>>

\* except Exception: the previous registry stays.
KeepPrevious ==
    /\ lock # Server
    /\ Release
    /\ UNCHANGED <<registry, sig, changed>>

Failed == Restart \/ (KeepPrevious /\ clean' = FALSE)

Compare ==
    /\ Loading("compare")
    /\ IF ~Statable(registry.sources) THEN KeepPrevious /\ UNCHANGED clean
       ELSE IF sig = Signature(registry.sources) THEN KeepPrevious /\ UNCHANGED clean
       ELSE /\ sig' = Signature(registry.sources)
            /\ step' = "open"
            /\ UNCHANGED <<checked, lock, registry, draft, changed, clean, pc>>
    /\ UNCHANGED <<diskVars, clock, now, caller, stage, out>>

OpenUsersFile ==
    /\ Loading("open")
    /\ IF text = Broken THEN Failed
       ELSE /\ draft' = [doc |-> text, version |-> [p \in {UsersFile} |-> disk[p]]]
            /\ step' = "keys"
            /\ UNCHANGED <<checked, lock, sig, registry, changed, clean, pc>>
    /\ UNCHANGED <<diskVars, clock, now, caller, stage, out>>

ReadKeyFile ==
    /\ Loading("keys")
    /\ \E k \in Sources(draft.doc) \ DOMAIN draft.version :
        IF disk[k] = 0 THEN Failed
        ELSE /\ draft' = [draft EXCEPT !.version =
                    [p \in DOMAIN @ \cup {k} |-> IF p = k THEN disk[k] ELSE @[p]]]
             /\ UNCHANGED <<checked, lock, sig, registry, step, changed, clean, pc>>
    /\ UNCHANGED <<diskVars, clock, now, caller, stage, out>>

Install ==
    /\ Loading("keys") /\ Sources(draft.doc) \subseteq DOMAIN draft.version
    /\ registry' = Parse(draft.doc, draft.version)
    /\ step' = "sign"
    /\ UNCHANGED <<diskVars, clock, checked, lock, sig, draft, changed, clean, reqVars>>

\* The files are signed after they were read.
Sign ==
    /\ Loading("sign")
    /\ IF ~Statable(registry.sources) THEN Failed
       ELSE /\ sig' = Signature(registry.sources)
            /\ clean' = ~changed
            /\ Release
            /\ UNCHANGED <<registry, changed>>
    /\ UNCHANGED <<diskVars, clock, now, caller, stage, out>>

-----------------------------------------------------------------------------
\* decide(): denied, the shared key, or the user's own.
Shared == IF Fallback THEN Default ELSE Denied

\* Mutant: a user who is not in the file is a caller without a mapping.
Decide_NoMapping(c) ==
    LET user == registry.users[c] IN
    IF c \notin DOMAIN registry.users THEN Shared
    ELSE IF ~user.llm THEN Denied
    ELSE IF user.key = NoKey THEN Shared
    ELSE IF user.admits THEN user.key ELSE Denied

Decide(c) ==
    LET user == registry.users[c] IN
    IF c = Operator THEN Shared
    ELSE IF c \notin DOMAIN registry.users \/ ~user.llm THEN Denied
    ELSE IF user.key = NoKey THEN Shared
    ELSE IF user.admits THEN user.key ELSE Denied

Ends(t, outcome) ==
    /\ out' = [out EXCEPT ![t] = outcome]
    /\ pc' = [pc EXCEPT ![t] = "idle"]
    /\ caller' = [caller EXCEPT ![t] = Operator]
    /\ stage' = [stage EXCEPT ![t] = "authenticate"]

GoesOn(t, next) ==
    /\ stage' = [stage EXCEPT ![t] = next]
    /\ pc' = [pc EXCEPT ![t] = "ask"]
    /\ UNCHANGED <<caller, out>>

\* registry() returns what _registry is now; the rest works on that snapshot.
Authenticate(t) ==
    /\ pc[t] = "answer" /\ stage[t] = "authenticate"
    /\ IF caller[t] \in DOMAIN registry.users THEN GoesOn(t, "precheck") ELSE Ends(t, Unauthorized)
    /\ UNCHANGED <<diskVars, clock, loadVars, changed, now>>

\* precheck_llm(); a job waits in its queue between this and the next.
Precheck(t) ==
    /\ pc[t] = "answer" /\ stage[t] = "precheck"
    /\ IF Decide(caller[t]) = Denied THEN Ends(t, Denied) ELSE GoesOn(t, "token")
    /\ UNCHANGED <<diskVars, clock, loadVars, changed, now>>

\* llm_api_token(): the decision is taken anew for the identity of before.
ApiToken(t) ==
    /\ pc[t] = "answer" /\ stage[t] = "token"
    /\ Ends(t, Decide(caller[t]))
    /\ UNCHANGED <<diskVars, clock, loadVars, changed, now>>

Request(t) == Ask(t) \/ Acquire(t) \/ Authenticate(t) \/ Precheck(t) \/ ApiToken(t)
Load == Compare \/ OpenUsersFile \/ ReadKeyFile \/ Install \/ Sign

Next ==
    \/ Publish
    \/ Tick
    \/ Load
    \/ \E t \in Threads : Arrive(t) \/ Request(t)

Spec == Init /\ [][Next]_vars

-----------------------------------------------------------------------------
\* Two checks of the files are an interval apart by the clock the callers
\* read, however many requests found the check due at once (registry(),
\* the second look under the lock).
ChecksSpaced == [][(checked' # checked /\ lock # Server) => (checked' >= checked + Interval)]_vars

\* After a parse that succeeded while the files stood still, a signature that
\* still matches means that the registry is what the files say: no change of
\* the users file or of a key file of it stays unseen (_reload, _signature).
CleanMeansCurrent ==
    clean /\ lock = Nobody /\ Readable /\ Statable(registry.sources)
          /\ sig = Signature(registry.sources)
        => registry = Parse(text, disk)

\* The registry keeps its shape and is never behind files that stand still.
RegistryCurrent == TypeOK /\ CleanMeansCurrent

\* A user whom a reload dropped between the authentication of a request and
\* its LLM call gets neither a key nor the shared one (decide, user_removed),
\* and no caller without a key of his own gets the one of a user.
RemovedGetsNothing ==
    [][\A t \in Threads : (out'[t] # out[t] /\ out'[t] \in Key \cup {Default}) =>
        \/ out'[t] = Default /\ caller[t] = Operator
        \/ /\ caller[t] \in DOMAIN registry.users
           /\ registry.users[caller[t]].llm
           /\ registry.users[caller[t]].key = (IF out'[t] = Default THEN NoKey ELSE out'[t])]_vars

\* README.md: the users file and the key files are re-read (checked every 5 s)
\* when mtime, size or inode changes.  A check that begins and ends on files
\* that can all be read leaves the registry they describe, even when no reload
\* before it failed or was overtaken by a change.
ChangeIsReread ==
    [][(lock \in Threads /\ lock' = Nobody /\ ~changed /\ clean /\ Readable)
        => (registry' = Parse(text, disk))]_vars
=============================================================================
