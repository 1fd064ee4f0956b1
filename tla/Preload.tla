------------------------------- MODULE Preload -------------------------------
(***************************************************************************)
(* Getting models onto the nodes: the download program                     *)
(* (roles/k8s_dgx/files/hf_preload_download.py), which also copies them to *)
(* other nodes, and the init container around it (sglang_preload.sh): the  *)
(* head leaves a marker per model on the shared file system and the        *)
(* workers wait for the markers.                                           *)
(*                                                                         *)
(* A peer, the same program in a pod elsewhere, may download the same      *)
(* models to the same cache; a model is one blob under one lock.           *)
(***************************************************************************)
EXTENDS Naturals, FiniteSets

CONSTANTS
    Models,     \* 1 .. n, in the order they are downloaded
    Targets,    \* RSYNC_TARGETS, 1 .. k
    Frags,      \* bound: *.incomplete files that exist at a time
    MaxDown,    \* bound: pods that die
    MaxFaults   \* bound: requests and copies that fail

ASSUME PreloadAssumption ==
    /\ Cardinality(Models) \in Nat \ {0} /\ Models = 1 .. Cardinality(Models)
    /\ Cardinality(Targets) \in Nat /\ Targets = 1 .. Cardinality(Targets)
    /\ 0 \notin Frags
    /\ {MaxDown, MaxFaults} \subseteq Nat

VARIABLES
    hub,        \* models that are complete in the cache
    begun,      \* models that have a snapshot directory there, complete or not
    frags,      \* the fragments: their model, who writes them, untouched for long
    lock,       \* lock[m]: who holds the lock of the model's blob
    peer,       \* the peer's download: its fragment, or 0
    prePc, model, target, victim,   \* the program: where it stands, what it works on
    failed,     \* failed: models and copies
    fromCache,  \* models taken from the cache because the online path failed
    blind,      \* history: models taken from the cache that were not complete
    remote,     \* remote[t]: models that are complete on a target
    markers,    \* the markers of the head
    worker,     \* the worker: "wait", "go", "late"
    downs, faults

mainVars == <<prePc, model, target, victim, failed, fromCache>>
cacheVars == <<hub, begun, frags, lock, peer>>
preloadVars == <<cacheVars, mainVars, blind, remote, markers, worker, downs, faults>>

None == [model |-> 0, by |-> "none", old |-> FALSE]

PreloadInit ==
    /\ hub = {} /\ begun = {} /\ blind = {} /\ frags = [f \in Frags |-> None]
    /\ lock = [m \in Models |-> "free"] /\ peer = 0
    /\ prePc = "info" /\ model = 1 /\ target = 1 /\ victim = 0
    /\ failed = {} /\ fromCache = {}
    /\ remote = [t \in Targets |-> {}]
    /\ markers = {} /\ worker = "wait"
    /\ downs = 0 /\ faults = 0

Fault == faults < MaxFaults /\ faults' = faults + 1

----------------------------------------------------------------------------
(* huggingface_hub: a download holds the lock of the blob and writes to a   *)
(* fragment of its own, which becomes the blob; the first small file of a   *)
(* model makes its snapshot directory, long before the model is complete    *)

Opened(f, m, who) ==
    /\ frags[f] = None
    /\ frags' = [frags EXCEPT ![f] = [model |-> m, by |-> who, old |-> FALSE]]
    /\ begun' \in {begun, begun \cup {m}}

PeerStart(m, f) ==
    /\ peer = 0 /\ lock[m] = "free" /\ m \notin hub
    /\ Opened(f, m, "peer")
    /\ lock' = [lock EXCEPT ![m] = "peer"] /\ peer' = f
    /\ UNCHANGED <<hub, mainVars, blind, remote, markers, worker, downs, faults>>

\* It completes the blob or dies; a dead writer leaves its fragment behind.
PeerEnds ==
    /\ peer # 0
    /\ LET m == frags[peer].model IN
       /\ lock' = [lock EXCEPT ![m] = "free"]
       /\ \/ /\ hub' = hub \cup {m} /\ begun' = begun \cup {m}
             /\ frags' = [frags EXCEPT ![peer] = None] /\ UNCHANGED downs
          \/ /\ downs < MaxDown /\ downs' = downs + 1
             /\ frags' = [frags EXCEPT ![peer].by = "nobody"]
             /\ UNCHANGED <<hub, begun>>
    /\ peer' = 0
    /\ UNCHANGED <<mainVars, blind, remote, markers, worker, faults>>

\* A fragment is not written to for INCOMPLETE_MIN_AGE_S; the writer may be alive.
Stall(f) ==
    /\ frags[f] # None /\ ~frags[f].old
    /\ frags' = [frags EXCEPT ![f].old = TRUE]
    /\ UNCHANGED <<hub, begun, lock, peer, mainVars, blind, remote, markers, worker, downs, faults>>

----------------------------------------------------------------------------
(* The program, model by model *)

NextModel(pc) ==
    IF model + 1 \in Models THEN prePc' = "info" /\ model' = model + 1 /\ target' = 1
                            ELSE prePc' = pc /\ UNCHANGED <<model, target>>

Done(fails) == NextModel(IF fails = {} THEN "exit0" ELSE "exit1")

\* model_info
Info ==
    /\ prePc = "info"
    /\ \/ prePc' = "prune" /\ UNCHANGED faults
       \/ Fault /\ prePc' = "offline"
    /\ UNCHANGED <<cacheVars, model, target, victim, failed, fromCache, blind, remote, markers, worker, downs>>

\* _prune_incomplete looks at a fragment; _blob_lock_held is false or the
\* fragment is left alone.
Look_Unlocked(f) ==
    /\ prePc = "prune"
    /\ frags[f].model = model
    /\ victim' = f /\ prePc' = "remove"
    /\ UNCHANGED <<cacheVars, model, target, failed, fromCache, blind, remote, markers, worker, downs, faults>>
Look(f) ==
    /\ prePc = "prune"
    /\ frags[f].model = model /\ lock[model] = "free"
    /\ victim' = f /\ prePc' = "remove"
    /\ UNCHANGED <<cacheVars, model, target, failed, fromCache, blind, remote, markers, worker, downs, faults>>

\* It removes the file under the name it saw, unless that is gone or young.
RemoveFragment ==
    /\ prePc = "remove"
    /\ prePc' = "prune" /\ victim' = 0
    /\ frags' = IF frags[victim].old THEN [frags EXCEPT ![victim] = None] ELSE frags
    /\ UNCHANGED <<hub, begun, lock, peer, model, target, failed, fromCache, blind, remote, markers, worker, downs, faults>>

\* snapshot_download, which waits for the lock
Fetch(f) ==
    /\ prePc = "prune" /\ lock[model] = "free"
    /\ IF model \in hub THEN prePc' = "sync" /\ UNCHANGED <<begun, frags, lock>>
       ELSE /\ prePc' = "fetch"
            /\ Opened(f, model, "self") /\ lock' = [lock EXCEPT ![model] = "self"]
    /\ UNCHANGED <<hub, peer, model, target, victim, failed, fromCache, blind, remote, markers, worker, downs, faults>>

Mine == CHOOSE f \in Frags : frags[f].by = "self"

FetchEnds ==
    /\ prePc = "fetch"
    /\ lock' = [lock EXCEPT ![model] = "free"]
    /\ \/ /\ hub' = hub \cup {model} /\ begun' = begun \cup {model}
          /\ frags' = [frags EXCEPT ![Mine] = None]
          /\ prePc' = "sync" /\ UNCHANGED faults
       \/ /\ Fault
          /\ frags' = [frags EXCEPT ![Mine].by = "nobody"]
          /\ prePc' = "offline" /\ UNCHANGED <<hub, begun>>
    /\ UNCHANGED <<peer, model, target, victim, failed, fromCache, blind, remote, markers, worker, downs>>

\* rsync to one target: done, a bad exit status, or no rsync at all, which is an
\* exception and sends the model down the offline path.
Sync ==
    /\ prePc = "sync" /\ target \in Targets
    /\ \/ /\ remote' = [remote EXCEPT ![target] = @ \cup {model}]
          /\ target' = target + 1 /\ UNCHANGED <<prePc, failed, faults>>
       \/ /\ Fault
          /\ failed' = failed \cup {<<model, target>>}
          /\ target' = target + 1 /\ UNCHANGED <<prePc, remote>>
       \/ Fault /\ prePc' = "offline" /\ UNCHANGED <<target, failed, remote>>
    /\ UNCHANGED <<cacheVars, model, victim, fromCache, blind, markers, worker, downs>>

Synced ==
    /\ prePc = "sync" /\ target \notin Targets
    /\ Done(failed)
    /\ UNCHANGED <<cacheVars, victim, failed, fromCache, blind, remote, markers, worker, downs, faults>>

\* local_files_only: any snapshot directory of the model will do, nobody looks
\* whether its files are all there; and it is not copied to the targets.
Offline ==
    /\ prePc = "offline"
    /\ IF model \in begun
       THEN /\ fromCache' = fromCache \cup {model}
            /\ blind' = IF model \in hub THEN blind ELSE blind \cup {model}
            /\ UNCHANGED failed
       ELSE failed' = failed \cup {<<model, 0>>} /\ UNCHANGED <<fromCache, blind>>
    /\ Done(failed')
    /\ UNCHANGED <<cacheVars, victim, remote, markers, worker, downs, faults>>

\* The head: only a program that ended with 0 leaves markers, one after the other.
Mark(m) ==
    /\ prePc = "exit0" /\ m \notin markers
    /\ markers' = markers \cup {m}
    /\ UNCHANGED <<cacheVars, mainVars, blind, remote, worker, downs, faults>>

\* The pod dies or its program has failed: the container is started again.
Restart ==
    /\ \/ prePc = "exit1" /\ UNCHANGED downs
       \/ prePc # "exit1" /\ downs < MaxDown /\ downs' = downs + 1
    /\ prePc' = "info" /\ model' = 1 /\ target' = 1 /\ victim' = 0
    /\ failed' = {} /\ fromCache' = {}
    /\ lock' = [m \in Models |-> IF lock[m] = "self" THEN "free" ELSE lock[m]]
    /\ frags' = [f \in Frags |-> IF frags[f].by = "self" THEN [frags[f] EXCEPT !.by = "nobody"] ELSE frags[f]]
    /\ UNCHANGED <<hub, begun, peer, blind, remote, markers, worker, faults>>

----------------------------------------------------------------------------
(* The worker *)

WorkerGoes ==
    /\ worker = "wait" /\ markers = Models
    /\ worker' = "go"
    /\ UNCHANGED <<cacheVars, mainVars, blind, remote, markers, downs, faults>>

\* After 30 minutes it goes on without the markers.
WorkerTimeout ==
    /\ worker = "wait" /\ markers # Models
    /\ worker' = "late"
    /\ UNCHANGED <<cacheVars, mainVars, blind, remote, markers, downs, faults>>

ProgramStep == \/ Info \/ RemoveFragment \/ FetchEnds \/ Sync \/ Synced \/ Offline
               \/ \E f \in Frags : Look(f) \/ Fetch(f)

PreloadNext ==
    \/ ProgramStep \/ PeerEnds \/ Restart \/ WorkerGoes \/ WorkerTimeout
    \/ \E m \in Models : Mark(m) \/ \E f \in Frags : PeerStart(m, f)
    \/ \E f \in Frags : Stall(f)

PreloadSpec == PreloadInit /\ [][PreloadNext]_preloadVars

----------------------------------------------------------------------------
(* Properties *)

PreloadTypeOK ==
    /\ model \in Models
    /\ hub \subseteq begun /\ begun \subseteq Models /\ blind \subseteq Models /\ markers \subseteq Models /\ fromCache \subseteq Models
    /\ frags \in [Frags -> [model : Models \cup {0}, by : {"none", "self", "peer", "nobody"}, old : BOOLEAN]]
    /\ lock \in [Models -> {"free", "self", "peer"}]
    /\ peer \in Frags \cup {0} /\ victim \in Frags \cup {0}
    /\ failed \subseteq Models \X (Targets \cup {0})
    /\ prePc = "fetch" => \E f \in Frags : frags[f].by = "self" /\ frags[f].model = model

\* Pruning takes no fragment from a download that is alive in another pod, however
\* long it stalls and whenever it starts, ends or dies.
PruneSparesLive == peer # 0 => frags[peer].by = "peer"

\* A worker that goes on because of the markers finds every model complete, although
\* markers outlive the pods that wrote them and a program that failed is repeated,
\* except for models that a program took from the cache while they were not.
GoMeansThere == worker = "go" => Models \subseteq hub \cup blind

\* A program that reports success has every model in the cache, complete or taken
\* for complete, and on every target unless its online path failed.
SuccessIsSynced ==
    prePc = "exit0" =>
        \A m \in Models : /\ m \in hub \cup blind
                          /\ m \in fromCache \/ \A t \in Targets : m \in remote[t]

\* What is taken for complete, and what stays off a target, takes a request or a
\* copy that failed; pods that die and come back, and the peer, do not suffice.
DoubtNeedsFailure == blind \cup fromCache # {} => faults > 0

\* Pods that download, prune, copy and wait beside each other take nothing from
\* one another, and without a failed request or copy none goes on without a model.
PreloadSound == PruneSparesLive /\ GoMeansThere /\ SuccessIsSynced /\ DoubtNeedsFailure

\* What the comments of the program say of its offline path; neither holds.
\* A model that is not wholly cached is a real failure, so a worker that goes on
\* finds every model complete (":253 treat a complete local snapshot as success").
GoMeansComplete == worker = "go" => Models \subseteq hub

\* Success is never reported while a target node lacks a model (the comment on a
\* failed rsync: it must not be taken for the case that falls back to the cache).
ReadyOnTargets == prePc = "exit0" => \A t \in Targets : Models \subseteq remote[t]
=============================================================================
