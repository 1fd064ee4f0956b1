---------------------------- MODULE StateRefresher ----------------------------
(***************************************************************************)
(* The sidecar that keeps gateway_state.json fresh                         *)
(* (roles/k8s_infra/files/hermes_gateway_state_refresher.py) beside the    *)
(* Hermes gateway, which writes the file on changes only and holds a lock  *)
(* while it lives, and the WebUI, which takes the gateway for running when *)
(* the file says so and is not older than a threshold.                     *)
(*                                                                         *)
(* Time goes in rounds of the refresher: its steps take no time against    *)
(* the interval it sleeps.                                                 *)
(***************************************************************************)
EXTENDS Naturals

CONSTANTS
    Threshold,  \* GATEWAY_FRESHNESS_THRESHOLD_S in rounds
    MaxLives,   \* bound: starts of the gateway
    MaxRounds   \* bound on the ages that are told apart

ASSUME RefresherAssumption ==
    Threshold \in Nat \ {0, 1} /\ MaxLives \in Nat /\ MaxRounds \in Nat /\ MaxRounds > Threshold

VARIABLES
    gateway,    \* "down", "up" or "stopping"
    file,       \* gateway_state.json: its gateway_state, and the age of updated_at
    pcR, copy,  \* the refresher: where it stands, the file it has read
    downFor,    \* rounds without a gateway that holds the lock
    lives

refresherVars == <<gateway, file, pcR, copy, downFor, lives>>

States == {"none", "running", "stopped"}    \* "none": no file, or not a JSON object

RefresherInit ==
    /\ gateway = "down" /\ file = [state |-> "none", age |-> 0]
    /\ pcR = "check" /\ copy = "none" /\ downFor = 0 /\ lives = 0

Written(state) == file' = [state |-> state, age |-> 0]

----------------------------------------------------------------------------
(* The gateway: acquires the lock, writes the file, writes it when it stops *)

Starting == /\ gateway = "down" /\ lives < MaxLives
            /\ lives' = lives + 1
            /\ gateway' = "up" /\ Written("running") /\ downFor' = 0
            /\ UNCHANGED <<pcR, copy>>

StateChange == /\ gateway = "up"
               /\ Written("running")
               /\ UNCHANGED <<gateway, pcR, copy, downFor, lives>>

Stopping == /\ gateway = "up"
            /\ gateway' = "stopping" /\ Written("stopped")
            /\ UNCHANGED <<pcR, copy, downFor, lives>>

\* The kernel releases the lock: after a stop, or when the process is killed.
Gone == /\ gateway # "down"
        /\ gateway' = "down"
        /\ UNCHANGED <<file, pcR, copy, downFor, lives>>

----------------------------------------------------------------------------
(* The refresher: _gateway_alive, _refresh_once *)

Alive_Always == TRUE
Alive == gateway # "down"

CheckLock == /\ pcR = "check"
             /\ pcR' = IF Alive THEN "read" ELSE "sleep"
             /\ UNCHANGED <<gateway, file, copy, downFor, lives>>

ReadFile == /\ pcR = "read"
            /\ copy' = file.state
            /\ pcR' = IF file.state = "running" THEN "replace" ELSE "sleep"
            /\ UNCHANGED <<gateway, file, downFor, lives>>

\* The temporary file replaces the file, whatever was written to it meanwhile.
Replace == /\ pcR = "replace"
           /\ Written(copy)
           /\ pcR' = "sleep"
           /\ UNCHANGED <<gateway, copy, downFor, lives>>

Older(n) == IF n < MaxRounds THEN n + 1 ELSE n

Sleep == /\ pcR = "sleep"
         /\ pcR' = "check"
         /\ file' = [file EXCEPT !.age = Older(@)]
         /\ downFor' = IF gateway = "down" THEN Older(downFor) ELSE 0
         /\ UNCHANGED <<gateway, copy, lives>>

RefresherNext == \/ Starting \/ StateChange \/ Stopping \/ Gone
                 \/ CheckLock \/ ReadFile \/ Replace \/ Sleep

RefresherSpec == RefresherInit /\ [][RefresherNext]_refresherVars

----------------------------------------------------------------------------
(* Properties *)

RefresherTypeOK == /\ gateway \in {"down", "up", "stopping"}
                   /\ file \in [state : States, age : 0 .. MaxRounds]
                   /\ pcR \in {"check", "read", "replace", "sleep"}
                   /\ copy \in States /\ downFor \in 0 .. MaxRounds

\* What the WebUI shows.
ShownRunning == file.state = "running" /\ file.age < Threshold

\* A gateway that is gone, stopped or killed at any moment, is shown as running
\* for less than the threshold: an update that was under way when it went, even
\* one that overwrote its last word, is the last one.
DeadShowsDead == downFor >= Threshold => ~ShownRunning

\* A gateway that runs, however long it has nothing to write, is shown running:
\* no update that overlaps a write of its own, or that was begun under an earlier
\* life, lets the file go stale or puts an old state back.
AliveShowsAlive == gateway = "up" => file.state = "running" /\ file.age <= 1

\* A gateway is shown as running while it runs, and not for long afterwards.
ShownIsTrue == DeadShowsDead /\ AliveShowsAlive
=============================================================================
