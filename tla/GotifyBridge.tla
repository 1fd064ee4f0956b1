----------------------------- MODULE GotifyBridge -----------------------------
(***************************************************************************)
(* The webhook bridges to Gotify: alerts of Alertmanager                   *)
(* (roles/k8s_infra/files/alertmgr_gotify_bridge.py) and updates of Keel   *)
(* (keel_gotify_bridge.py).  Each is a server with one thread.             *)
(*                                                                         *)
(* Alertmanager notifies about a group of alerts whenever one of them      *)
(* changed, and repeats the notification until it is answered 200.  Keel   *)
(* repeats one that is not answered with a 2xx, and waits meanwhile.       *)
(* Gotify may refuse a message, drop the connection, or accept requests    *)
(* and answer none; the post of the first bridge has no timeout.           *)
(***************************************************************************)
EXTENDS Naturals, FiniteSets

CONSTANTS
    Alerts,         \* 1 .. n: the alerts of one group, in the order they are sent
    MaxChanges,     \* bound: alerts that start or end
    MaxFaultsB,     \* bound: refusals, dropped connections and stalls of Gotify
    MaxUpdates      \* bound: updates Keel reports

ASSUME BridgeAssumption ==
    /\ Cardinality(Alerts) \in Nat /\ Alerts = 1 .. Cardinality(Alerts)
    /\ {MaxChanges, MaxFaultsB, MaxUpdates} \subseteq Nat

VARIABLES
    firing,     \* alerts that fire
    told,       \* told[a]: what the last notification answered 200 said of a
    note,       \* the notification being handled: what it says of each alert
    next,       \* the alert of note that is forwarded next; 0: none is handled
    shown,      \* shown[a]: what the last message in Gotify says of a
    refused,    \* refused[a]: Gotify refused the message about a of this note
    hung,       \* the post about the next alert waits for its answer
    changes,
    stalled,    \* Gotify accepts requests and does not answer
    faultsB,
    keel, updates

alertVars == <<firing, told, note, next, shown, refused, hung, changes>>
gotifyVars == <<stalled, faultsB>>
keelVars == <<keel, updates>>
bridgeVars == <<alertVars, gotifyVars, keelVars>>

BridgeInit ==
    /\ firing = {} /\ changes = 0 /\ faultsB = 0
    /\ told = [a \in Alerts |-> "quiet"] /\ note = told /\ shown = told
    /\ next = 0 /\ refused = [a \in Alerts |-> FALSE]
    /\ hung = FALSE /\ stalled = FALSE
    /\ keel = "idle" /\ updates = 0

Now(a) == IF a \in firing THEN "firing" ELSE IF told[a] = "quiet" THEN "quiet" ELSE "resolved"
GroupStatus(n) == IF \E a \in Alerts : n[a] = "firing" THEN "firing" ELSE "resolved"

----------------------------------------------------------------------------
(* Alertmanager and Gotify *)

AlertChange(a) ==
    /\ changes < MaxChanges /\ changes' = changes + 1
    /\ firing' = IF a \in firing THEN firing \ {a} ELSE firing \cup {a}
    /\ UNCHANGED <<told, note, next, shown, refused, hung, gotifyVars, keelVars>>

Notify == /\ next = 0
          /\ \E a \in Alerts : Now(a) # told[a]
          /\ note' = [a \in Alerts |-> Now(a)]
          /\ next' = 1
          /\ refused' = [a \in Alerts |-> FALSE]
          /\ UNCHANGED <<firing, told, shown, hung, changes, gotifyVars, keelVars>>

FaultB == faultsB < MaxFaultsB /\ faultsB' = faultsB + 1

Stall == /\ ~stalled /\ FaultB
         /\ stalled' = TRUE
         /\ UNCHANGED <<alertVars, keelVars>>

Recover == /\ stalled
           /\ stalled' = FALSE
           /\ UNCHANGED <<alertVars, faultsB, keelVars>>

----------------------------------------------------------------------------
(* do_POST of the Alertmanager bridge *)

\* The title and the priority say the status of the group, for every alert.
Said(a) == GroupStatus(note)

More == next \in Alerts
Posting == More /\ note[next] # "quiet"
Delivered == [shown EXCEPT ![next] = Said(next)]

Skip == /\ More /\ note[next] = "quiet"
        /\ next' = next + 1
        /\ UNCHANGED <<firing, told, note, shown, refused, hung, changes, gotifyVars, keelVars>>

Forward == /\ Posting /\ ~stalled
           /\ next' = next + 1 /\ hung' = FALSE
           /\ shown' = Delivered
           /\ refused' = [refused EXCEPT ![next] = FALSE]
           /\ UNCHANGED <<firing, told, note, changes, gotifyVars, keelVars>>

\* An answer other than 200 is logged and the loop goes on.
Refuse == /\ Posting /\ ~stalled /\ FaultB
          /\ refused' = [refused EXCEPT ![next] = TRUE]
          /\ next' = next + 1 /\ hung' = FALSE
          /\ UNCHANGED <<firing, told, note, shown, changes, stalled, keelVars>>

\* An exception, before or after Gotify took the message: 500, and
\* Alertmanager sends the notification once more.
\* (Mutant: the exception is answered 200.)
Raise_Answer200 == /\ Posting /\ FaultB
                   /\ shown' \in {shown, Delivered}
                   /\ next' = 0 /\ hung' = FALSE /\ told' = note
                   /\ UNCHANGED <<firing, note, refused, changes, stalled, keelVars>>
Raise == /\ Posting /\ FaultB
         /\ shown' \in {shown, Delivered}
         /\ next' = 1 /\ hung' = FALSE
         /\ UNCHANGED <<firing, told, note, refused, changes, stalled, keelVars>>

\* requests.post without a timeout: it waits, and the only thread with it.
Hang == /\ Posting /\ stalled /\ ~hung
        /\ hung' = TRUE
        /\ shown' \in {shown, Delivered}
        /\ UNCHANGED <<firing, told, note, next, refused, changes, gotifyVars, keelVars>>

\* The livenessProbe of the Deployment asks the same thread for /healthz: the
\* container is restarted, and Alertmanager repeats the notification (mutant: no
\* probe).
ProbeRestart_Never == FALSE /\ UNCHANGED bridgeVars
ProbeRestart == /\ hung
                /\ hung' = FALSE /\ next' = 1
                /\ UNCHANGED <<firing, told, note, shown, refused, changes, gotifyVars, keelVars>>

Acknowledge == /\ next # 0 /\ ~More
               /\ told' = note /\ next' = 0
               /\ UNCHANGED <<firing, note, shown, refused, hung, changes, gotifyVars, keelVars>>

AlertStep == Skip \/ Forward \/ Refuse \/ Raise \/ Hang \/ ProbeRestart \/ Acknowledge

----------------------------------------------------------------------------
(* Keel and do_POST of its bridge *)

Update == /\ keel = "idle" /\ updates < MaxUpdates
          /\ updates' = updates + 1
          /\ keel' = "posting"
          /\ UNCHANGED <<alertVars, gotifyVars>>

\* requests.post, which gives up after 10 seconds; whatever it comes to, the
\* answer to Keel is 200.
Post == /\ keel = "posting"
        /\ keel' = "idle"
        /\ UNCHANGED <<alertVars, gotifyVars, updates>>

BridgeNext == \/ \E a \in Alerts : AlertChange(a)
              \/ Notify \/ Stall \/ Recover \/ AlertStep \/ Update \/ Post

\* Alertmanager repeats its notifications; a post that is not kept waiting comes
\* to an end; one that is kept waiting is ended by the kubelet and not by Gotify,
\* which need not recover.
BridgeFairness == /\ WF_bridgeVars(Notify) /\ WF_bridgeVars(~hung /\ AlertStep)
                  /\ WF_bridgeVars(ProbeRestart) /\ WF_bridgeVars(Post)

BridgeSpec == BridgeInit /\ [][BridgeNext]_bridgeVars /\ BridgeFairness

----------------------------------------------------------------------------
(* Properties *)

BridgeTypeOK == /\ firing \subseteq Alerts /\ next \in 0 .. Cardinality(Alerts) + 1
                /\ \A a \in Alerts : {told[a], note[a], shown[a]} \subseteq {"quiet", "firing", "resolved"}
                /\ keel \in {"idle", "posting"}

\* What Alertmanager takes for delivered is what Gotify shows.  After a
\* notification that was answered 200 the last message about each of its alerts
\* says the status of that notification's group, whatever exceptions, stalls and
\* restarts came between and whatever was sent twice; the one exception is a
\* message that Gotify refused, which do_POST logs and answers 200.  An alert no
\* notification named has no message.  (It is the status of the group, not of the
\* alert: PriorityPerAlert fails.)
ToldIsShown ==
    next = 0 =>
        \A a \in Alerts : IF told[a] = "quiet" THEN shown[a] = "quiet"
                          ELSE shown[a] = GroupStatus(told) \/ refused[a]

\* In the end every alert is told as it is, unless Gotify stays stalled for good.
AlertsTold == <>[](stalled \/ \A a \in Alerts : told[a] = Now(a))

\* Keel is answered, so that its further updates do not wait, even by a Gotify
\* that stays stalled (the comments in do_POST).
KeelAnswered == keel = "posting" ~> keel = "idle"

\* Neither sender is held up for good by a Gotify that only now and then refuses
\* messages, drops connections or stalls.
BridgesSettle == AlertsTold /\ KeelAnswered

\* The message about an alert says what the alert does: firing or resolved
\* (the docstring of do_POST: 8 for firing alerts and 5 for resolved alerts).
PriorityPerAlert ==
    \A a \in Alerts : next = 0 /\ told[a] # "quiet" /\ ~refused[a] => shown[a] = told[a]
=============================================================================
