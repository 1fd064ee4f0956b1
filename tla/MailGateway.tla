---------------------------- MODULE MailGateway ----------------------------
(***************************************************************************)
(* Receiving mail in the Hermes e-mail gateway                             *)
(* (roles/k8s_infra/files/hermes_email_gateway_patched.py), with both      *)
(* folders configured and process_existing as shipped (true).              *)
(*                                                                         *)
(* An adapter polls INBOX: a worker thread searches for unread mails, asks *)
(* for the headers, lets the event loop accept the sender, fetches the     *)
(* mail and moves it to Working; then the event loop hands the mails to    *)
(* the agent one by one, each moved to Done afterwards.  After an IMAP     *)
(* failure the gateway replaces the adapter.  The worker thread of the old *)
(* adapter cannot be cancelled and goes on beside the new one.             *)
(***************************************************************************)
EXTENDS Naturals, FiniteSets

CONSTANTS
    Count,      \* mails are numbered by their UID in INBOX, 1 .. Count
    WithId,     \* the mails that have a Message-ID
    Backlog,    \* how many unread mails are in INBOX at the start
    Adapters,
    NoAdapter, NoSnapshot,
    SeenMax,    \* _seen_uids_max
    MaxFaults   \* bound: refused or lost IMAP commands, errors, disconnects, crashes

Mails == 1 .. Count

ASSUME GatewayAssumption ==
    /\ Count \in Nat
    /\ WithId \subseteq Mails
    /\ Backlog \in 0 .. Count
    /\ NoAdapter \notin Adapters
    /\ SeenMax \in Nat \ {0, 1}
    /\ MaxFaults \in Nat

Folders == {"inbox", "working", "done"}

VARIABLES
    at,         \* at[m]: the folders that hold m; a failed move may leave two
    unread,     \* mails without \Seen in INBOX
    ad,         \* the adapters
    live,       \* the adapter the gateway runs
    snapshot,   \* _seen_uids_snapshot of this account
    fate,       \* what became of each mail (history)
    handed,     \* handed[m]: how often m was given to the agent (history)
    died,       \* mails the process had fetched when it died (history)
    faults

boxVars == <<at, unread>>
histVars == <<fate, handed, died>>
vars == <<boxVars, ad, live, snapshot, histVars, faults>>

Fates == {"away", "waiting", "rejected", "garbage", "swallowed", "fetched", "given",
          "dropped", "raised", "interrupted", "lost", "cut", "died"}

\* pc: where the poll task or its worker thread stands; after: how the poll
\* task goes on when the mail in hand is finalised.
Adapter == [pc : {"off", "idle", "header", "body", "park", "dispatch", "finalize"},
            todo : SUBSET Mails, batch : SUBSET Mails, parked : SUBSET Mails,
            seen : SUBSET Mails, failed : BOOLEAN, fatal : BOOLEAN,
            after : {"next", "raised", "cancelled"}]

Off == [pc |-> "off", todo |-> {}, batch |-> {}, parked |-> {}, seen |-> {},
        failed |-> FALSE, fatal |-> FALSE, after |-> "next"]

Init ==
    /\ at = [m \in Mails |-> IF m <= Backlog THEN {"inbox"} ELSE {}]
    /\ unread = 1 .. Backlog
    /\ ad = [a \in Adapters |-> Off]
    /\ live = NoAdapter
    /\ snapshot = NoSnapshot
    /\ fate = [m \in Mails |-> IF m <= Backlog THEN "waiting" ELSE "away"]
    /\ handed = [m \in Mails |-> 0]
    /\ died = {}
    /\ faults = 0

Fault == faults < MaxFaults /\ faults' = faults + 1
NoFault == UNCHANGED faults

----------------------------------------------------------------------------
(* The mailbox *)

Arrive(m) ==
    /\ fate[m] = "away"
    /\ \A n \in Mails : n < m => fate[n] # "away"
    /\ at' = [at EXCEPT ![m] = {"inbox"}]
    /\ unread' = unread \cup {m}
    /\ fate' = [fate EXCEPT ![m] = "waiting"]
    /\ UNCHANGED <<ad, live, snapshot, handed, died, faults>>

\* _imap_move: MOVE, or COPY, STORE \Deleted and EXPUNGE.  A refused STORE goes
\* unnoticed and leaves both copies; a command whose answer is lost may have
\* been carried out.  A UID that is not there is moved with either answer.
MoveTo(m, src, dst, ok) ==
    LET moved == [at EXCEPT ![m] = (@ \ {src}) \cup {dst}]
        copied == [at EXCEPT ![m] = @ \cup {dst}]
    IN  \/ src \notin at[m] /\ NoFault /\ UNCHANGED at
        \/ src \in at[m] /\ ok /\ NoFault /\ at' = moved
        \/ src \in at[m] /\ Fault /\ at' \in (IF ok THEN {copied} ELSE {at, copied, moved})

----------------------------------------------------------------------------
(* The worker thread: _fetch_new_messages *)

Decided == {"rejected", "given", "dropped", "raised", "interrupted"}

\* What a thread finds out about m; a decision on m stands.
Judged(m, f) == [fate EXCEPT ![m] = IF @ \in Decided THEN @ ELSE f]

Current(S) == CHOOSE m \in S : \A n \in S : m <= n

\* _trim_seen_uids
Trim(S) ==
    IF Cardinality(S) <= SeenMax THEN S
    ELSE {m \in S : Cardinality({n \in S : n > m}) < SeenMax \div 2}

\* A lost connection ends the loop; what was fetched so far is still returned.
Lost(a) == ad' = [ad EXCEPT ![a].pc = "header", ![a].todo = {}, ![a].failed = TRUE]
NextMail(a, m) == ad' = [ad EXCEPT ![a].pc = "header", ![a].todo = @ \ {m}]

Candidates(a) == {m \in unread : "inbox" \in at[m]} \ ad[a].seen

Poll(a) ==
    /\ a = live
    /\ ad[a].pc = "idle"
    /\ \/ NoFault /\ ad' = [ad EXCEPT ![a].pc = "header", ![a].todo = Candidates(a)]
       \/ Fault /\ ad' = [ad EXCEPT ![a].pc = "header"]     \* SEARCH refused
       \/ Fault /\ Lost(a)
    /\ UNCHANGED <<boxVars, live, snapshot, histVars>>

\* The header fetch and the verdict on the sender.
Header(a) ==
    LET m == Current(ad[a].todo) IN
    /\ ad[a].pc = "header"
    /\ ad[a].todo # {}
    /\ \/ NoFault /\ "inbox" \in at[m] /\ ad' = [ad EXCEPT ![a].pc = "body"]
       \/ Fault /\ NextMail(a, m)
       \/ Fault /\ Lost(a)
    /\ UNCHANGED <<boxVars, live, snapshot, histVars>>

\* _mark_uid_consumed: STORE \Seen, whose refusal is logged, and straight to Done.
Consume(a) ==
    LET m == Current(ad[a].todo)
        noted == [ad[a] EXCEPT !.seen = Trim(@ \cup {m})]
    IN  /\ ad[a].pc = "header"
        /\ ad[a].todo # {}
        /\ fate' = Judged(m, "rejected")
        /\ \/ /\ \E ok \in BOOLEAN : MoveTo(m, "inbox", "done", ok)
              /\ unread' = unread \ {m}
              /\ ad' = [ad EXCEPT ![a] = [noted EXCEPT !.todo = @ \ {m}]]
           \/ /\ Fault
              /\ unread' = unread
              /\ \/ at' = at
                 \/ "inbox" \in at[m] /\ at' = [at EXCEPT ![m] = (@ \ {"inbox"}) \cup {"done"}]
              /\ ad' = [ad EXCEPT ![a] = [noted EXCEPT !.todo = @ \ {m}]]
           \/ /\ Fault
              /\ unread' \in {unread, unread \ {m}}
              /\ UNCHANGED at
              /\ ad' = [ad EXCEPT ![a] = [noted EXCEPT !.todo = {}, !.failed = TRUE]]
        /\ UNCHANGED <<live, snapshot, handed, died>>

\* RFC822 makes the server set \Seen when it answers.
Read_Peek(m) == UNCHANGED unread
Read(m) == unread' = unread \ {m}

\* The fetch of the whole mail.
Body(a) ==
    LET m == Current(ad[a].todo)
        taken == [ad[a] EXCEPT !.seen = Trim(@ \cup {m})]
        skip == [taken EXCEPT !.pc = "header", !.todo = @ \ {m}]
        became(f) == IF fate[m] = "fetched" THEN fate ELSE Judged(m, f)
    IN  /\ ad[a].pc = "body"
        /\ \/ Fault /\ NextMail(a, m) /\ UNCHANGED <<unread, fate>>      \* refused
           \/ Fault /\ Lost(a) /\ UNCHANGED <<unread, fate>>
           \/ /\ Fault /\ Lost(a)                          \* the answer is lost
              /\ Read(m)
              /\ fate' = IF "inbox" \in at[m] THEN became("swallowed") ELSE fate
           \/ /\ NoFault          \* no payload (moved away), or it does not parse
              /\ Read(m)
              /\ ad' = [ad EXCEPT ![a] = skip]
              /\ fate' = IF "inbox" \in at[m] THEN became("garbage") ELSE fate
           \/ /\ NoFault
              /\ "inbox" \in at[m]
              /\ Read(m)
              /\ ad' = [ad EXCEPT ![a] = IF m \in WithId
                            THEN [taken EXCEPT !.pc = "park", !.batch = @ \cup {m}]
                            ELSE [skip EXCEPT !.batch = @ \cup {m}]]
              /\ fate' = Judged(m, "fetched")
        /\ UNCHANGED <<at, live, snapshot, handed, died>>

\* The move to Working; when it fails the mail is processed from INBOX.
Park(a) ==
    LET m == Current(ad[a].todo) IN
    /\ ad[a].pc = "park"
    /\ \E ok \in BOOLEAN :
           /\ MoveTo(m, "inbox", "working", ok)
           /\ ad' = [ad EXCEPT ![a].pc = "header", ![a].todo = @ \ {m},
                               ![a].parked = IF ok THEN @ \cup {m} ELSE @]
    /\ UNCHANGED <<unread, live, snapshot, histVars>>

Holders(m) == {a \in Adapters : m \in ad[a].batch}

\* Nobody has m any more once adapter a gives up its mails S.
Orphaned(m, a, S) == m \in S /\ fate[m] = "fetched" /\ Holders(m) = {a}
CutOff(a, S) == fate' = [m \in Mails |-> IF Orphaned(m, a, S) THEN "cut" ELSE fate[m]]

\* The end of _fetch_new_messages.  The poll task of a disconnected adapter is
\* gone: what its thread returns reaches nobody, the snapshot is written.
FetchEnd(a) ==
    /\ ad[a].pc = "header"
    /\ ad[a].todo = {}
    /\ snapshot' = ad[a].seen
    /\ IF a = live THEN ad' = [ad EXCEPT ![a].pc = "dispatch"] /\ UNCHANGED fate
                   ELSE ad' = [ad EXCEPT ![a] = Off] /\ CutOff(a, ad[a].batch)
    /\ UNCHANGED <<boxVars, live, handed, died, faults>>

----------------------------------------------------------------------------
(* The poll task: _check_inbox and _dispatch_message *)

\* _dispatch_message up to its finally: the sender is judged once more, then
\* handle_message takes the mail or raises.  Nothing catches what it raises
\* before _poll_loop does, so the mails behind it are dropped.
Dispatch(a) ==
    LET m == Current(ad[a].batch) IN
    /\ ad[a].pc = "dispatch"
    /\ ad[a].batch # {}
    /\ \/ /\ NoFault
          /\ ad' = [ad EXCEPT ![a].pc = "finalize"]
          /\ \/ /\ handed' = [handed EXCEPT ![m] = @ + 1]
                /\ fate' = [fate EXCEPT ![m] = "given"]
             \/ /\ UNCHANGED handed
                /\ fate' = [fate EXCEPT ![m] = "dropped"]
       \/ /\ Fault
          /\ ad' = [ad EXCEPT ![a].pc = "finalize", ![a].batch = {m}, ![a].parked = @ \cap {m},
                              ![a].after = "raised"]
          /\ fate' = [n \in Mails |-> IF n = m THEN "raised"
                          ELSE IF Orphaned(n, a, ad[a].batch) THEN "lost" ELSE fate[n]]
          /\ UNCHANGED handed
    /\ UNCHANGED <<boxVars, live, snapshot, died>>

\* The finally: _finalize_message, every failure of which is logged only.
Finalize(a) ==
    LET m == Current(ad[a].batch)
        src == IF m \in ad[a].parked THEN "working" ELSE "inbox"
        done == [ad[a] EXCEPT !.batch = @ \ {m}, !.parked = @ \ {m}, !.after = "next"]
    IN  /\ ad[a].pc = "finalize"
        /\ IF m \in WithId THEN \E ok \in BOOLEAN : MoveTo(m, src, "done", ok)
                           ELSE NoFault /\ UNCHANGED at
        /\ ad' = [ad EXCEPT ![a] =
               CASE ad[a].after = "next" -> [done EXCEPT !.pc = "dispatch"]
                 [] ad[a].after = "raised" -> [done EXCEPT !.pc = "idle"]
                 [] ad[a].after = "cancelled" -> Off]
        /\ UNCHANGED <<unread, live, snapshot, histVars>>

\* The batch is through: a failed fetch is reported now, after the dispatches.
Escalate(a) ==
    /\ ad[a].pc = "dispatch"
    /\ ad[a].batch = {}
    /\ ad' = [ad EXCEPT ![a].pc = "idle", ![a].failed = FALSE,
                        ![a].fatal = @ \/ ad[a].failed]
    /\ UNCHANGED <<boxVars, live, snapshot, histVars, faults>>

----------------------------------------------------------------------------
(* The gateway *)

\* disconnect(): cancels the poll task where it waits.  A worker thread goes
\* on; a mail in handle_message is interrupted there, and finalised.
Disconnect(a) ==
    LET cancelled(m) == [ad[a] EXCEPT !.pc = "finalize", !.batch = {m}, !.parked = @ \cap {m},
                                      !.after = "cancelled"]
    IN  /\ a = live
        /\ live' = NoAdapter
        /\ IF ad[a].fatal THEN NoFault ELSE Fault
        /\ \/ /\ ad[a].pc \in {"header", "body", "park"}
              /\ UNCHANGED <<ad, fate>>
           \/ /\ ad[a].pc \in {"idle", "dispatch"}
              /\ ad' = [ad EXCEPT ![a] = Off]
              /\ CutOff(a, ad[a].batch)
           \/ /\ ad[a].pc = "finalize"
              /\ LET m == Current(ad[a].batch) IN
                     /\ ad' = [ad EXCEPT ![a] = cancelled(m)]
                     /\ CutOff(a, ad[a].batch \ {m})
           \/ /\ ad[a].pc = "dispatch"
              /\ ad[a].batch # {}
              /\ LET m == Current(ad[a].batch) IN
                     /\ ad' = [ad EXCEPT ![a] = cancelled(m)]
                     /\ fate' = [n \in Mails |-> IF n = m THEN "interrupted"
                                    ELSE IF Orphaned(n, a, ad[a].batch) THEN "cut" ELSE fate[n]]
        /\ UNCHANGED <<boxVars, snapshot, handed, died>>

\* connect(): the first one of a process starts with nothing seen, a later one
\* with the snapshot.
Baseline_Everything == {m \in Mails : "inbox" \in at[m]}
Baseline == Trim(IF snapshot = NoSnapshot THEN {} ELSE snapshot)

Connect(a) ==
    /\ live = NoAdapter
    /\ ad[a].pc = "off"
    /\ live' = a
    /\ snapshot' = Baseline
    /\ ad' = [ad EXCEPT ![a] = [Off EXCEPT !.pc = "idle", !.seen = Baseline]]
    /\ UNCHANGED <<boxVars, histVars, faults>>

\* The process ends, with everything it kept in memory.
Crash ==
    /\ live # NoAdapter
    /\ Fault
    /\ live' = NoAdapter
    /\ ad' = [a \in Adapters |-> Off]
    /\ snapshot' = NoSnapshot
    /\ died' = died \cup {m \in Mails : Holders(m) # {}}
    /\ fate' = [m \in Mails |-> IF fate[m] = "fetched" THEN "died" ELSE fate[m]]
    /\ UNCHANGED <<boxVars, handed>>

----------------------------------------------------------------------------
Work(a) ==
    \/ Poll(a) \/ Header(a) \/ Consume(a) \/ Body(a) \/ Park(a) \/ FetchEnd(a)
    \/ Dispatch(a) \/ Finalize(a) \/ Escalate(a)

Next ==
    \/ \E m \in Mails : Arrive(m)
    \/ \E a \in Adapters : Work(a) \/ Disconnect(a) \/ Connect(a)
    \/ Crash

Spec == Init /\ [][Next]_vars

----------------------------------------------------------------------------
(* Properties *)

\* Types: every mail that arrived is in a folder, an idle adapter holds no
\* mails, only a disconnected adapter finalises on its own.
TypeOK ==
    /\ at \in [Mails -> SUBSET Folders]
    /\ unread \subseteq Mails
    /\ ad \in [Adapters -> Adapter]
    /\ live \in Adapters \cup {NoAdapter}
    /\ snapshot = NoSnapshot \/ snapshot \subseteq Mails
    /\ fate \in [Mails -> Fates]
    /\ handed \in [Mails -> Nat]
    /\ died \subseteq Mails
    /\ faults \in 0 .. MaxFaults
    /\ \A m \in Mails : fate[m] = "away" <=> at[m] = {}
    /\ \A a \in Adapters : /\ ad[a].pc \in {"off", "idle"} => ad[a].batch = {}
                           /\ ad[a].pc \in {"body", "park"} => ad[a].todo # {}
                           /\ ad[a].parked \subseteq ad[a].batch

\* No mail reaches the agent twice: not after a reconnect with its snapshot, not
\* beside the thread of a disconnected adapter, not after a restart with an
\* empty seen set or one cut down by _trim_seen_uids, not from a second copy
\* that a failed move has left behind.
AtMostOnce == \A m \in Mails : handed[m] <= 1

InHand(m) == Holders(m) # {}

\* A mail that was fetched, and that nothing further befell, is in the batch of
\* an adapter: of the running one, or of a thread that outlives its adapter and
\* will lose it.  _check_inbox dispatches what was fetched before it reports a
\* failure, so that neither a refused command nor a lost connection costs it.
FetchedInHand == \A m \in Mails : fate[m] = "fetched" => InHand(m)

\* A mail nobody has touched stays eligible: it is unread in INBOX, and neither
\* the running adapter nor the snapshot of the next one takes it for seen,
\* whatever refused commands, threads of earlier adapters and reconnects do.
WaitingStaysEligible ==
    \A m \in Mails : fate[m] = "waiting" =>
        /\ m \in unread
        /\ at[m] = {"inbox"}
        /\ snapshot # NoSnapshot => m \notin snapshot
        /\ live # NoAdapter => m \notin ad[live].seen

\* Done holds only mails that were decided about: turned away, or brought as
\* far as handle_message.
DoneMeansSettled ==
    \A m \in Mails : "done" \in at[m] /\ ~InHand(m) =>
        fate[m] \in Decided

\* A mail in Working that was never handed to the agent, and that nobody holds,
\* was fetched by a process that died.
StuckMeansDied ==
    \A m \in Mails :
        "working" \in at[m] /\ fate[m] \in {"fetched", "lost", "cut", "died"} /\ ~InHand(m)
            => m \in died

\* How a mail that is not decided about may be lost, besides one that does not
\* parse ("garbage"): the answer that brings it does not arrive, an exception
\* ends the dispatches before its turn, its adapter is disconnected, the process
\* dies.  The first refusal, broken connection or error comes before any of them,
\* and only a mail in somebody's hand dies with the process.
LossNeedsFailure ==
    \A m \in Mails : /\ fate[m] \in {"swallowed", "lost", "cut", "died"} => faults > 0
                     /\ fate[m] = "died" => m \in died

\* Every mail is accounted for: it waits unread, is in somebody's hand, was
\* decided about, does not parse, or fell to a failure in one of the four ways
\* that LossNeedsFailure names (_fetch_new_messages, _check_inbox,
\* _finalize_message).  Those four are real: such a mail is read on the server
\* and reaches nobody (StuckMeansDied).
MailsAccounted ==
    FetchedInHand /\ WaitingStaysEligible /\ DoneMeansSettled /\ LossNeedsFailure
=============================================================================
