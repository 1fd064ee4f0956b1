----------------------------- MODULE Tools_proofs -----------------------------
(***************************************************************************)
(* The programs that bring models to the nodes and watch their images, for *)
(* any number of deployments, models, shapes, targets, fragments, jobs,    *)
(* pods, deaths and faults: the sharding job serves one run; the preload   *)
(* takes nothing from a download beside it and reports only what it has;   *)
(* keel-drift's verdicts are true of the images it looked at; and what the *)
(* CPU sharding marks as cut is whole, in every directory and over both.   *)
(***************************************************************************)
EXTENDS CpuShard, Preload, ShardJob, KeelDrift, FiniteSetTheorems, WellFoundedInduction, TLAPS

----------------------------------------------------------------------------
(* The sharding job *)

HeadPcs == {"absent", "pending", "launch", "check", "engine", "sync", "success", "failed"}
WorkerPcs == {"absent", "launch", "check", "engine", "finish", "success", "failed"}
Dirs == [parts : {"none", "some", "whole"}, by : Nat, index : {"none", "model", "shards"}]

JobTyped ==
    /\ deploys \in Nat
    /\ jobPc \in [Nodes -> HeadPcs \cup WorkerPcs]
    /\ jobPc["head"] \in HeadPcs /\ jobPc["worker"] \in WorkerPcs
    /\ shardDir \in [Nodes -> Dirs]

\* A directory names a run just when it holds something.
PartsNamed == \A n \in Nodes : /\ shardDir[n].parts = "none" <=> shardDir[n].by = 0
                               /\ shardDir[n].by <= deploys
DeployRuns == (\E n \in Nodes : ~JobAt(n, "absent")) => deploys > 0

\* Parts are saved between the engines of one deployment, and not before both
\* programs have looked at their directories.
SavingPcs ==
    saving => /\ jobPc["head"] \in {"engine", "sync", "success", "failed"}
              /\ jobPc["worker"] \in {"engine", "finish", "success", "failed"}

\* What waits to be checked without an index was emptied by the script; the
\* engine of the head never runs over an index.
CheckedClean ==
    /\ \A n \in Nodes : JobAt(n, "check") /\ shardDir[n].index = "none" => shardDir[n] = NoDir
    /\ JobAt("head", "engine") => shardDir["head"].index = "none"

\* The index of the head is the mark of a whole save of both ranks; the worker
\* may lose its parts afterwards, and gets others only when the mark is gone.
HeadMarked ==
    shardDir["head"].index # "none" =>
        /\ shardDir["head"].index = "shards" /\ shardDir["head"].parts = "whole"
        /\ shardDir["worker"].by \in {0, shardDir["head"].by}
        /\ saving /\ JobAt("worker", "engine") => WholeNow("worker")

JobInv == JobTyped /\ PartsNamed /\ DeployRuns /\ SavingPcs /\ CheckedClean /\ HeadMarked /\ SavesIntoEmpty


\* What a directory holds, field by field.
LEMMA DirIs ==
    ASSUME JobTyped, NEW n \in Nodes
    PROVE  /\ shardDir[n] \in Dirs
           /\ shardDir[n].parts \in {"none", "some", "whole"}
           /\ shardDir[n].by \in Nat
           /\ shardDir[n].index \in {"none", "model", "shards"}
BY DEF JobTyped, Dirs

LEMMA EmptyDir ==
    NoDir \in Dirs /\ NoDir.parts = "none" /\ NoDir.by = 0 /\ NoDir.index = "none"
BY DEF NoDir, Dirs

LEMMA JobStart == JobInit => JobInv
<1> SUFFICES ASSUME JobInit PROVE JobInv
  OBVIOUS
<1>1. \A n \in Nodes : shardDir[n] = NoDir /\ jobPc[n] = "absent"
  BY DEF JobInit
<1>2. JobTyped
  BY EmptyDir DEF JobInit, JobTyped, Nodes, HeadPcs, WorkerPcs
<1> QED
  BY <1>1, <1>2, EmptyDir
     DEF JobInit, JobInv, PartsNamed, DeployRuns, SavingPcs, CheckedClean, HeadMarked, SavesIntoEmpty,
         JobAt, Nodes

LEMMA DeployStep ==
    ASSUME JobInv, NEW f \in BOOLEAN, DeployJobs(f)
    PROVE  JobInv'
<1> USE DEF JobInv
<1>1. /\ deploys' = deploys + 1 /\ force' = f /\ saving' = FALSE /\ shardDir' = shardDir
      /\ jobPc'["head"] = "pending" /\ jobPc'["worker"] = "launch"
      /\ jobPc' \in [Nodes -> HeadPcs \cup WorkerPcs]
  BY DEF DeployJobs, Nodes, HeadPcs, WorkerPcs
<1>2. deploys \in Nat
  BY DEF JobTyped
<1>3. JobTyped'
  <2>1. deploys' \in Nat
    BY <1>1, <1>2
  <2>2. jobPc'["head"] \in HeadPcs /\ jobPc'["worker"] \in WorkerPcs
    BY <1>1 DEF HeadPcs, WorkerPcs
  <2>3. shardDir' \in [Nodes -> Dirs]
    BY <1>1 DEF JobTyped
  <2> QED BY <1>1, <2>1, <2>2, <2>3 DEF JobTyped
<1>4. PartsNamed'
  BY <1>1, <1>2, DirIs DEF PartsNamed
<1>5. DeployRuns' /\ SavingPcs'
  BY <1>1, <1>2 DEF DeployRuns, SavingPcs
<1>6. CheckedClean' /\ SavesIntoEmpty'
  BY <1>1 DEF CheckedClean, SavesIntoEmpty, JobAt, Nodes
<1>7. HeadMarked'
  BY <1>1 DEF HeadMarked
<1> QED
  BY <1>3, <1>4, <1>5, <1>6, <1>7

\* A step of one pod that leaves the directories alone and begins no check and
\* no engine.
LEMMA PodMoves ==
    ASSUME JobInv, NEW n \in Nodes, NEW pc, Becomes(n, pc), ~JobAt(n, "absent"),
           UNCHANGED <<deploys, force, shardDir, saving>>,
           pc \in IF n = "head" THEN HeadPcs ELSE WorkerPcs,
           pc \notin {"check", "engine"},
           saving => pc \in {"sync", "finish", "success", "failed"}
    PROVE  JobInv'
<1> USE DEF JobInv
<1>1. /\ jobPc' \in [Nodes -> HeadPcs \cup WorkerPcs] /\ jobPc'[n] = pc
      /\ \A m \in Nodes : m # n => jobPc'[m] = jobPc[m]
  BY DEF Becomes, JobTyped
<1>2. JobTyped'
  BY <1>1 DEF JobTyped, Nodes
<1>3. PartsNamed'
  BY DEF PartsNamed
<1>4. DeployRuns'
  BY DEF DeployRuns
<1>5. SavingPcs'
  BY <1>1, <1>2 DEF SavingPcs, JobTyped, Nodes, HeadPcs, WorkerPcs
<1>6. CheckedClean' /\ SavesIntoEmpty'
  BY <1>1 DEF CheckedClean, SavesIntoEmpty, JobAt, Nodes
<1>7. HeadMarked'
  BY <1>1 DEF HeadMarked, JobAt, WholeNow, Nodes
<1> QED
  BY <1>2, <1>3, <1>4, <1>5, <1>6, <1>7

LEMMA PodSteps ==
    ASSUME JobInv,
           CreateHead \/ \E n \in Nodes : Kill(n) \/ Deserted(n) \/ ProgramDies(n)
    PROVE  JobInv'
<1> USE DEF JobInv, JobAt, Nodes, HeadPcs, WorkerPcs
<1>1. CASE CreateHead
  BY <1>1, PodMoves DEF CreateHead, SavingPcs
<1>2. ASSUME NEW n \in Nodes, ProgramDies(n)
      PROVE  JobInv'
  BY <1>2, PodMoves DEF ProgramDies, ProgramFails
<1>3. ASSUME NEW n \in Nodes, Kill(n)
      PROVE  JobInv'
  BY <1>3, PodMoves DEF Kill
<1>4. ASSUME NEW n \in Nodes, Deserted(n)
      PROVE  JobInv'
  BY <1>4, PodMoves DEF Deserted, ProgramFails
<1> QED
  BY <1>1, <1>2, <1>3, <1>4

LEMMA LaunchStep ==
    ASSUME JobInv, NEW n \in Nodes, Launch(n)
    PROVE  JobInv'
<1> USE DEF JobInv
<1>1. /\ jobPc[n] = "launch" /\ jobPc'[n] = "check"
      /\ jobPc' \in [Nodes -> HeadPcs \cup WorkerPcs]
      /\ \A m \in Nodes : m # n => jobPc'[m] = jobPc[m]
      /\ UNCHANGED <<deploys, force, saving>>
  BY DEF Launch, Becomes, JobAt, JobTyped, HeadPcs
<1>2. /\ shardDir' \in [Nodes -> Dirs]
      /\ shardDir'[n] = IF shardDir[n].index = "none" THEN NoDir ELSE shardDir[n]
      /\ \A m \in Nodes : m # n => shardDir'[m] = shardDir[m]
  BY EmptyDir DEF Launch, JobTyped
<1>3. ~saving
  BY <1>1 DEF SavingPcs, Nodes
<1>4. JobTyped'
  BY <1>1, <1>2 DEF JobTyped, Nodes, HeadPcs, WorkerPcs
<1>5. PartsNamed'
  BY <1>1, <1>2, EmptyDir DEF PartsNamed, JobTyped
<1>6. DeployRuns' /\ SavingPcs'
  BY <1>1, <1>3 DEF DeployRuns, SavingPcs, JobAt
<1>7. CheckedClean' /\ SavesIntoEmpty'
  BY <1>1, <1>2, EmptyDir DEF CheckedClean, SavesIntoEmpty, JobAt, Nodes
<1>8. HeadMarked'
  BY <1>1, <1>2, <1>3, EmptyDir DEF HeadMarked, Nodes
<1> QED
  BY <1>4, <1>5, <1>6, <1>7, <1>8

LEMMA CheckStep ==
    ASSUME JobInv, NEW n \in Nodes, Check(n)
    PROVE  JobInv'
<1> USE DEF JobInv
<1>1. jobPc[n] = "check" /\ UNCHANGED <<deploys, force, saving>> /\ ~saving
  BY DEF Check, JobAt, SavingPcs, Nodes
<1>2. CASE Skips(n)
  <2>1. CASE n = "head"
    BY <1>1, <1>2, <2>1, PodMoves DEF Check, Skips, Skip, JobAt, HeadPcs, Nodes
  <2>2. CASE n # "head"
    BY <1>1, <1>2, <2>2, PodMoves DEF Check, Skips, Skip, JobAt, WorkerPcs, Nodes
  <2> QED BY <2>1, <2>2
<1>3. CASE ~Skips(n)
  <2>1. /\ jobPc'[n] = "engine" /\ jobPc' \in [Nodes -> HeadPcs \cup WorkerPcs]
        /\ \A m \in Nodes : m # n => jobPc'[m] = jobPc[m]
    BY <1>3 DEF Check, Becomes, JobTyped, HeadPcs
  <2>2. /\ shardDir' \in [Nodes -> Dirs] /\ shardDir'[n] = NoDir
        /\ \A m \in Nodes : m # n => shardDir'[m] = shardDir[m]
    BY <1>1, <1>3, EmptyDir DEF Check, JobTyped, CheckedClean, JobAt
  <2>3. JobTyped'
    BY <1>1, <2>1, <2>2 DEF JobTyped, Nodes, HeadPcs, WorkerPcs
  <2>4. PartsNamed'
    BY <1>1, <2>2, EmptyDir DEF PartsNamed, JobTyped
  <2>5. DeployRuns' /\ SavingPcs'
    BY <1>1 DEF DeployRuns, SavingPcs, JobAt
  <2>6. CheckedClean' /\ SavesIntoEmpty'
    BY <1>1, <2>1, <2>2, EmptyDir DEF CheckedClean, SavesIntoEmpty, JobAt, Nodes
  <2>7. HeadMarked'
    BY <1>1, <2>1, <2>2, EmptyDir DEF HeadMarked, Nodes
  <2> QED
    BY <2>3, <2>4, <2>5, <2>6, <2>7
<1> QED
  BY <1>2, <1>3

LEMMA CallSaveStep ==
    ASSUME JobInv, CallSave
    PROVE  JobInv'
<1> USE DEF JobInv
<1>1. /\ JobAt("head", "engine") /\ JobAt("worker", "engine") /\ saving' = TRUE
      /\ UNCHANGED <<deploys, force, jobPc, shardDir>>
  BY DEF CallSave
<1>2. JobTyped' /\ PartsNamed' /\ DeployRuns' /\ SavingPcs' /\ CheckedClean' /\ SavesIntoEmpty'
  BY <1>1 DEF JobTyped, PartsNamed, DeployRuns, SavingPcs, CheckedClean, SavesIntoEmpty, JobAt
<1>3. HeadMarked'
  BY <1>1 DEF HeadMarked, CheckedClean
<1> QED
  BY <1>2, <1>3

LEMMA WritePartsStep ==
    ASSUME JobInv, NEW n \in Nodes, WriteParts(n)
    PROVE  JobInv'
<1> USE DEF JobInv
<1>1. /\ saving /\ jobPc[n] = "engine" /\ ~WholeNow(n)
      /\ UNCHANGED <<deploys, force, jobPc, saving>>
  BY DEF WriteParts, JobAt, WholeNow
<1>2. deploys \in Nat /\ deploys > 0
  BY <1>1 DEF JobTyped, DeployRuns, JobAt
<1>4. PICK p \in {"some", "whole"} :
          /\ shardDir' \in [Nodes -> Dirs]
          /\ shardDir'[n].parts = p /\ shardDir'[n].by = deploys /\ shardDir'[n].index = shardDir[n].index
          /\ \A m \in Nodes : m # n => shardDir'[m] = shardDir[m]
  <2> DEFINE p == IF shardDir[n].by = deploys /\ shardDir[n].parts = "some" THEN "whole" ELSE "some"
             d == [shardDir EXCEPT ![n].by = deploys]
  <2>1. /\ d \in [Nodes -> Dirs] /\ d[n].by = deploys
        /\ d[n].parts = shardDir[n].parts /\ d[n].index = shardDir[n].index
        /\ \A m \in Nodes : m # n => d[m] = shardDir[m]
    BY <1>2, DirIs DEF JobTyped, Dirs
  <2>2. shardDir' = [d EXCEPT ![n].parts = p]
    BY DEF WriteParts
  <2>3. p \in {"some", "whole"}
    OBVIOUS
  <2> HIDE DEF p, d
  <2> QED BY <2>1, <2>2, <2>3 DEF Dirs
<1>5. JobTyped'
  BY <1>1, <1>4 DEF JobTyped
<1>6. PartsNamed'
  BY <1>1, <1>2, <1>4 DEF PartsNamed
<1>7. DeployRuns' /\ SavingPcs'
  BY <1>1 DEF DeployRuns, SavingPcs, JobAt
<1>8. CheckedClean' /\ SavesIntoEmpty'
  BY <1>1, <1>4 DEF CheckedClean, SavesIntoEmpty, JobAt, Nodes
<1>9. HeadMarked'
  <2>1. CASE n = "head"
    BY <1>1, <1>4, <2>1 DEF HeadMarked, CheckedClean, JobAt, Nodes
  <2>2. CASE n = "worker"
    <3>1. shardDir["head"].index = "none"
      BY <1>1, <2>2 DEF HeadMarked, JobAt
    <3> QED BY <1>4, <2>2, <3>1 DEF HeadMarked, Nodes
  <2> QED BY <2>1, <2>2 DEF Nodes
<1> QED
  BY <1>5, <1>6, <1>7, <1>8, <1>9

LEMMA SaveReturnsStep ==
    ASSUME JobInv, SaveReturns
    PROVE  JobInv'
<1> USE DEF JobInv
<1>1. /\ saving /\ jobPc["head"] = "engine" /\ WholeNow("head") /\ WholeNow("worker")
      /\ UNCHANGED <<deploys, force, saving>>
  BY DEF SaveReturns, JobAt, Nodes
<1>2. /\ jobPc' \in [Nodes -> HeadPcs \cup WorkerPcs]
      /\ jobPc'["head"] = "sync" /\ jobPc'["worker"] = jobPc["worker"]
  BY DEF SaveReturns, Becomes, JobTyped, HeadPcs, Nodes
<1>3. /\ shardDir' \in [Nodes -> Dirs] /\ shardDir'["worker"] = shardDir["worker"]
      /\ shardDir'["head"].parts = shardDir["head"].parts
      /\ shardDir'["head"].by = shardDir["head"].by
      /\ shardDir'["head"].index = "shards"
  BY DirIs DEF SaveReturns, JobTyped, Dirs, Nodes
<1>4. JobTyped'
  BY <1>1, <1>2, <1>3 DEF JobTyped, HeadPcs, Nodes
<1>5. PartsNamed'
  BY <1>1, <1>3 DEF PartsNamed, Nodes
<1>6. DeployRuns' /\ SavingPcs'
  BY <1>1, <1>2 DEF DeployRuns, SavingPcs, JobAt, Nodes
<1>7. CheckedClean' /\ SavesIntoEmpty'
  BY <1>1, <1>2, <1>3 DEF CheckedClean, SavesIntoEmpty, JobAt, Nodes
<1>8. HeadMarked'
  BY <1>1, <1>2, <1>3 DEF HeadMarked, WholeNow, JobAt
<1> QED
  BY <1>4, <1>5, <1>6, <1>7, <1>8

\* A step that says what the worker's index is and ends one of the pods.
LEMMA IndexCopied ==
    ASSUME JobInv, NEW n \in Nodes, NEW i \in {"model", "shards"}, Becomes(n, "success"),
           jobPc[n] \in {"finish", "sync"},
           shardDir' = [shardDir EXCEPT !["worker"].index = i],
           UNCHANGED <<deploys, force, saving>>
    PROVE  JobInv'
<1> USE DEF JobInv
<1>1. /\ jobPc' \in [Nodes -> HeadPcs \cup WorkerPcs] /\ jobPc'[n] = "success"
      /\ \A m \in Nodes : m # n => jobPc'[m] = jobPc[m]
  BY DEF Becomes, JobTyped, HeadPcs
<1>2. /\ shardDir' \in [Nodes -> Dirs] /\ shardDir'["head"] = shardDir["head"]
      /\ shardDir'["worker"].parts = shardDir["worker"].parts
      /\ shardDir'["worker"].by = shardDir["worker"].by
      /\ shardDir'["worker"].index = i
  BY DirIs DEF JobTyped, Dirs, Nodes
<1>3. JobTyped'
  BY <1>1, <1>2 DEF JobTyped, HeadPcs, WorkerPcs, Nodes
<1>4. PartsNamed'
  BY <1>2 DEF PartsNamed, Nodes
<1>5. DeployRuns' /\ SavingPcs'
  BY <1>1 DEF DeployRuns, SavingPcs, JobAt, Nodes
<1>6. CheckedClean' /\ SavesIntoEmpty'
  BY <1>1, <1>2 DEF CheckedClean, SavesIntoEmpty, JobAt, Nodes
<1>7. HeadMarked'
  BY <1>1, <1>2 DEF HeadMarked, WholeNow, JobAt, Nodes
<1> QED
  BY <1>3, <1>4, <1>5, <1>6, <1>7

LEMMA FinishStep ==
    ASSUME JobInv, Finish
    PROVE  JobInv'
<1> USE DEF JobInv
<1>1. jobPc["worker"] = "finish" /\ UNCHANGED <<deploys, force, saving>>
  BY DEF Finish, JobAt
<1>2. CASE shardDir["worker"].parts = "none"
  BY <1>1, <1>2, PodMoves DEF Finish, JobAt, Nodes, WorkerPcs
<1>3. CASE shardDir["worker"].parts # "none"
  <2> DEFINE i == IF shardDir["worker"].index = "none" THEN "model" ELSE shardDir["worker"].index
  <2>1. i \in {"model", "shards"}
    BY DirIs DEF Nodes
  <2>2. shardDir' = [shardDir EXCEPT !["worker"].index = i] /\ Becomes("worker", "success")
    BY <1>3 DEF Finish
  <2> QED BY <1>1, <2>1, <2>2, IndexCopied DEF Nodes
<1> QED
  BY <1>2, <1>3

LEMMA SyncDirStep ==
    ASSUME JobInv, SyncDir
    PROVE  JobInv'
<1>1. /\ jobPc["head"] = "sync" /\ Becomes("head", "success")
      /\ UNCHANGED <<deploys, force, saving>>
      /\ shardDir["head"].index \in {"none", "model", "shards"}
  BY DirIs DEF JobInv, SyncDir, JobAt, Nodes
<1>2. CASE shardDir["head"].index = "none"
  BY <1>1, <1>2, PodMoves DEF SyncDir, JobAt, Nodes, HeadPcs
<1>3. CASE shardDir["head"].index # "none"
  BY <1>1, <1>3, IndexCopied DEF SyncDir, Nodes
<1> QED
  BY <1>2, <1>3

LEMMA JobStep == JobInv /\ [JobNext]_jobVars => JobInv'
<1> SUFFICES ASSUME JobInv, [JobNext]_jobVars PROVE JobInv'
  OBVIOUS
<1>1. ASSUME NEW f \in BOOLEAN, DeployJobs(f) PROVE JobInv'
  BY <1>1, DeployStep
<1>2. CASE CreateHead \/ \E n \in Nodes : Kill(n) \/ Deserted(n) \/ ProgramDies(n)
  BY <1>2, PodSteps
<1>3. CASE CallSave \/ SaveReturns \/ Finish \/ SyncDir
  BY <1>3, CallSaveStep, SaveReturnsStep, FinishStep, SyncDirStep
<1>4. CASE \E n \in Nodes : Launch(n) \/ Check(n) \/ WriteParts(n)
  BY <1>4, LaunchStep, CheckStep, WritePartsStep
<1>5. CASE UNCHANGED jobVars
  BY <1>5
     DEF jobVars, JobInv, JobTyped, PartsNamed, DeployRuns, SavingPcs, CheckedClean, HeadMarked,
         SavesIntoEmpty, JobAt, WholeNow
<1> QED
  BY <1>1, <1>2, <1>3, <1>4, <1>5 DEF JobNext

\* The invariant of the sharding job: the index of the head marks one whole run,
\* and the worker's parts are of that run or gone.
THEOREM JobInvariant == JobSpec => []JobInv
BY JobStart, JobStep, PTL DEF JobSpec

\* What is served never mixes two runs, and no rank saves into parts of an
\* earlier run, however jobs die, are deployed again or forced
\* (sglang_save_sharded.py, sglang_shard_launch.sh).
THEOREM OneRunIsServed == JobSpec => []OneRunServed
<1>1. JobInv => OneRunServed
  BY DEF JobInv, PartsNamed, HeadMarked, OneRunServed, NeverMixed, Nodes
<1> QED
  BY <1>1, JobInvariant, PTL


----------------------------------------------------------------------------
(* The preload *)

PrePcs == {"info", "prune", "remove", "fetch", "sync", "offline", "exit0", "exit1"}
Fragments == [model : Models \cup {0}, by : {"none", "self", "peer", "nobody"}, old : BOOLEAN]

PreTyped ==
    /\ prePc \in PrePcs /\ model \in Models /\ target \in Nat \ {0}
    /\ hub \subseteq Models
    /\ frags \in [Frags -> Fragments]
    /\ lock \in [Models -> {"free", "self", "peer"}]
    /\ peer \in Frags \cup {0} /\ victim \in Frags \cup {0}
    /\ remote \in [Targets -> SUBSET Models] /\ blind \subseteq Models
    /\ fromCache \subseteq Models /\ markers \subseteq Models
    /\ failed \subseteq Models \X (Targets \cup {0})

\* A fragment is there when it is of a model; the one that is pruned was left behind.
FragmentsNamed ==
    /\ \A f \in Frags : frags[f].by = "none" <=> frags[f].model = 0
    /\ \A f \in Frags : frags[f].model = 0 => frags[f] = None
    /\ prePc = "remove" => victim \in Frags /\ frags[victim].by = "nobody"

\* The peer's one fragment is written under the lock of its model, and so is
\* the program's own.
PeerHolds ==
    /\ \A f \in Frags : frags[f].by = "peer" => f = peer
    /\ peer # 0 => frags[peer].by = "peer" /\ lock[frags[peer].model] = "peer"
SelfHolds ==
    /\ \A f \in Frags : frags[f].by = "self" => prePc = "fetch"
    /\ \A f, g \in Frags : frags[f].by = "self" /\ frags[g].by = "self" => f = g
    /\ prePc = "fetch" => /\ lock[model] = "self"
                          /\ \E f \in Frags : frags[f].by = "self" /\ frags[f].model = model

\* m is in the cache or was taken for it, and is on every target unless it was only taken from there.
BroughtOver(m) == m \in hub \cup blind /\ (m \in fromCache \/ \A t \in Targets : m \in remote[t])

\* While nothing failed the models before the present one are brought, and the
\* present one to the targets before the present one.
Progress ==
    /\ failed = {} => \A m \in Models : m < model => BroughtOver(m)
    /\ prePc \in {"info", "prune", "remove", "fetch"} => target = 1
    /\ prePc = "sync" => /\ model \in hub
                         /\ failed = {} => \A t \in Targets : t < target => model \in remote[t]
    /\ prePc = "exit0" => \A m \in Models : BroughtOver(m)

\* Markers and workers outlive the program; what they stand for stays.
MarksTrue == (markers # {} \/ worker = "go") => Models \subseteq hub \cup blind

CopyInv == PreTyped /\ FragmentsNamed /\ PeerHolds /\ SelfHolds /\ Progress /\ MarksTrue

\* A complete model has a snapshot directory, and without a failed request or copy
\* no model goes the offline way.
CalmInv ==
    /\ hub \subseteq begun /\ begun \subseteq Models /\ faults \in Nat
    /\ faults = 0 => fromCache = {} /\ blind = {} /\ prePc # "offline"

PreloadInv == CopyInv /\ CalmInv


LEMMA ModelsAre ==
    /\ Models \subseteq Nat /\ 0 \notin Models /\ 1 \in Models
    /\ \A m \in Models : m + 1 \notin Models => \A k \in Models : k <= m
    /\ Targets \subseteq Nat /\ 0 \notin Targets
    /\ \A t \in Nat \ {0} : t \notin Targets => \A k \in Targets : k < t
<1> DEFINE n == Cardinality(Models)
           k == Cardinality(Targets)
<1>1. n \in Nat \ {0} /\ Models = 1 .. n /\ k \in Nat /\ Targets = 1 .. k
  BY PreloadAssumption
<1> HIDE DEF n, k
<1> QED
  BY <1>1

LEMMA NoneIs == None \in Fragments /\ None.model = 0 /\ None.by = "none"
BY DEF None, Fragments

LEMMA FragmentIs ==
    ASSUME PreTyped, NEW f \in Frags
    PROVE  /\ frags[f].model \in Models \cup {0}
           /\ frags[f].by \in {"none", "self", "peer", "nobody"}
           /\ frags[f].old \in BOOLEAN
           /\ frags[f] \in Fragments
BY DEF PreTyped, Fragments

\* Another writer's name in a fragment.
LEMMA LeftBehind ==
    ASSUME PreTyped, NEW f \in Frags, frags' = [frags EXCEPT ![f].by = "nobody"]
    PROVE  /\ frags' \in [Frags -> Fragments]
           /\ frags'[f].by = "nobody" /\ frags'[f].model = frags[f].model
           /\ \A g \in Frags : g # f => frags'[g] = frags[g]
BY FragmentIs DEF PreTyped, Fragments

LEMMA Cleared ==
    ASSUME PreTyped, NEW f \in Frags, frags' = [frags EXCEPT ![f] = None]
    PROVE  /\ frags' \in [Frags -> Fragments] /\ frags'[f] = None
           /\ \A g \in Frags : g # f => frags'[g] = frags[g]
BY NoneIs DEF PreTyped

LEMMA OpenedIs ==
    ASSUME PreTyped, FragmentsNamed, NEW f \in Frags, NEW m \in Models, NEW who \in {"self", "peer"},
           Opened(f, m, who)
    PROVE  /\ frags[f].by = "none"
           /\ frags' \in [Frags -> Fragments]
           /\ frags'[f].by = who /\ frags'[f].model = m
           /\ \A g \in Frags : g # f => frags'[g] = frags[g]
<1>1. [model |-> m, by |-> who, old |-> FALSE] \in Fragments
  BY DEF Fragments
<1> QED
  BY <1>1, NoneIs DEF Opened, PreTyped, FragmentsNamed

\* After a model comes the next one, or the end of the program.
LEMMA NextModelIs ==
    ASSUME PreTyped, NEW pc \in {"exit0", "exit1"}, NextModel(pc)
    PROVE  /\ model' \in Models /\ target' \in Nat \ {0}
           /\ \/ prePc' = "info" /\ target' = 1 /\ \A m \in Models : m < model' => m <= model
              \/ prePc' = pc /\ model' = model /\ \A m \in Models : m <= model
<1>1. model \in Models /\ target \in Nat \ {0} /\ model \in Nat
  BY ModelsAre DEF PreTyped
<1>2. CASE model + 1 \in Models
  BY <1>1, <1>2, ModelsAre DEF NextModel
<1>3. CASE model + 1 \notin Models
  BY <1>1, <1>3, ModelsAre DEF NextModel
<1> QED
  BY <1>2, <1>3

LEMMA CopyStart == PreloadInit => CopyInv
<1> SUFFICES ASSUME PreloadInit PROVE CopyInv
  OBVIOUS
<1> USE DEF PreloadInit
<1>1. PreTyped
  BY ModelsAre, NoneIs DEF PreTyped, PrePcs
<1>2. FragmentsNamed /\ PeerHolds /\ SelfHolds
  BY NoneIs, PreloadAssumption DEF FragmentsNamed, PeerHolds, SelfHolds
<1>3. Progress
  BY ModelsAre DEF Progress
<1>4. MarksTrue
  BY DEF MarksTrue
<1> QED
  BY <1>1, <1>2, <1>3, <1>4 DEF CopyInv

LEMMA PeerStartStep ==
    ASSUME CopyInv, NEW m \in Models, NEW f \in Frags, PeerStart(m, f)
    PROVE  CopyInv'
<1> USE DEF CopyInv
<1>1. /\ peer = 0 /\ lock[m] = "free" /\ Opened(f, m, "peer")
      /\ lock' = [lock EXCEPT ![m] = "peer"] /\ peer' = f
      /\ UNCHANGED <<hub, mainVars, blind, remote, markers, worker>>
  BY DEF PeerStart
<1> USE DEF mainVars
<1>2. /\ frags[f].by = "none" /\ frags' \in [Frags -> Fragments]
      /\ frags'[f].by = "peer" /\ frags'[f].model = m
      /\ \A g \in Frags : g # f => frags'[g] = frags[g]
  BY <1>1, OpenedIs
<1>3. PreTyped'
  BY <1>1, <1>2 DEF PreTyped
<1>4. FragmentsNamed'
  BY <1>1, <1>2, ModelsAre DEF FragmentsNamed
<1>5. PeerHolds'
  BY <1>1, <1>2, PreloadAssumption DEF PeerHolds, PreTyped
<1>6. SelfHolds'
  <2>1. \A g \in Frags : frags'[g].by = "self" => g # f /\ frags[g].by = "self"
    BY <1>2
  <2>2. prePc = "fetch" => lock'[model] = "self" /\ model # m
    BY <1>1 DEF SelfHolds, PreTyped
  <2>3. prePc = "fetch" => \E g \in Frags : frags'[g].by = "self" /\ frags'[g].model = model
    BY <1>2 DEF SelfHolds
  <2> QED BY <1>1, <2>1, <2>2, <2>3 DEF SelfHolds
<1>7. Progress' /\ MarksTrue'
  BY <1>1 DEF Progress, BroughtOver, MarksTrue
<1> QED
  BY <1>3, <1>4, <1>5, <1>6, <1>7

LEMMA PeerEndsStep ==
    ASSUME CopyInv, PeerEnds
    PROVE  CopyInv'
<1> USE DEF CopyInv
<1>1. PICK m \in Models \cup {0} : m = frags[peer].model
  BY FragmentIs DEF PeerEnds, PreTyped
<1>2. /\ peer \in Frags /\ peer' = 0 /\ lock' = [lock EXCEPT ![m] = "free"]
      /\ frags[peer].by = "peer" /\ lock[m] = "peer" /\ m \in Models
      /\ UNCHANGED <<mainVars, blind, remote, markers, worker>>
      /\ \/ hub' = hub \cup {m} /\ frags' = [frags EXCEPT ![peer] = None]
         \/ frags' = [frags EXCEPT ![peer].by = "nobody"] /\ hub' = hub
  BY <1>1 DEF PeerEnds, PeerHolds, PreTyped, FragmentsNamed
<1> USE DEF mainVars
<1>3. /\ frags' \in [Frags -> Fragments]
      /\ frags'[peer] = None \/ (frags'[peer].by = "nobody" /\ frags'[peer].model = m)
      /\ \A g \in Frags : g # peer => frags'[g] = frags[g]
  BY <1>1, <1>2, LeftBehind, Cleared
<1>4. PreTyped'
  BY <1>2, <1>3 DEF PreTyped
<1>5. FragmentsNamed'
  BY <1>2, <1>3, NoneIs, ModelsAre DEF FragmentsNamed
<1>6. PeerHolds'
  BY <1>2, <1>3, NoneIs DEF PeerHolds
<1>7. SelfHolds'
  <2>1. \A g \in Frags : frags'[g].by = "self" => g # peer /\ frags[g].by = "self"
    BY <1>3, NoneIs
  <2>2. prePc = "fetch" => lock'[model] = "self"
    BY <1>2 DEF SelfHolds, PreTyped
  <2>3. prePc = "fetch" => \E g \in Frags : frags'[g].by = "self" /\ frags'[g].model = model
    BY <1>2, <1>3 DEF SelfHolds
  <2> QED BY <1>2, <2>1, <2>2, <2>3 DEF SelfHolds
<1>8. hub \subseteq hub' /\ Progress' /\ MarksTrue'
  BY <1>2 DEF Progress, BroughtOver, MarksTrue
<1> QED
  BY <1>4, <1>5, <1>6, <1>7, <1>8

LEMMA StallStep ==
    ASSUME CopyInv, NEW f \in Frags, Stall(f)
    PROVE  CopyInv'
<1> USE DEF CopyInv
<1>1. /\ frags[f] # None /\ frags' = [frags EXCEPT ![f].old = TRUE]
      /\ UNCHANGED <<hub, lock, peer, mainVars, blind, remote, markers, worker>>
  BY DEF Stall
<1> USE DEF mainVars
<1>2. /\ frags' \in [Frags -> Fragments]
      /\ frags'[f].by = frags[f].by /\ frags'[f].model = frags[f].model
      /\ \A g \in Frags : g # f => frags'[g] = frags[g]
  BY <1>1, FragmentIs DEF PreTyped, Fragments
<1>3. \A g \in Frags : frags'[g].by = frags[g].by /\ frags'[g].model = frags[g].model
  BY <1>2
<1>4. PreTyped'
  BY <1>1, <1>2 DEF PreTyped
<1>5. FragmentsNamed'
  BY <1>1, <1>2, <1>3 DEF FragmentsNamed
<1>6. PeerHolds'
  BY <1>1, <1>3, PreloadAssumption DEF PeerHolds, PreTyped
<1>7. SelfHolds'
  BY <1>1, <1>3 DEF SelfHolds
<1>8. Progress' /\ MarksTrue'
  BY <1>1 DEF Progress, BroughtOver, MarksTrue
<1> QED
  BY <1>4, <1>5, <1>6, <1>7, <1>8


\* The program's steps leave the peer alone, and the marks as they are.
LEMMA InfoStep ==
    ASSUME CopyInv, Info
    PROVE  CopyInv'
<1> USE DEF CopyInv
<1>1. /\ prePc = "info" /\ prePc' \in {"prune", "offline"}
      /\ UNCHANGED <<cacheVars, model, target, victim, failed, fromCache, blind, remote, markers, worker>>
  BY DEF Info
<1> USE <1>1 DEF cacheVars
<1>2. PreTyped' /\ FragmentsNamed'
  BY DEF PreTyped, PrePcs, FragmentsNamed
<1>3. PeerHolds' /\ SelfHolds'
  BY DEF PeerHolds, SelfHolds
<1>4. Progress' /\ MarksTrue'
  BY DEF Progress, BroughtOver, MarksTrue
<1> QED
  BY <1>2, <1>3, <1>4

\* What is removed later is nobody's: the lock is free, so the peer does not
\* write it, and when it starts meanwhile it takes a fragment of its own.
LEMMA LookStep ==
    ASSUME CopyInv, NEW f \in Frags, Look(f)
    PROVE  CopyInv'
<1> USE DEF CopyInv
<1>1. /\ prePc = "prune" /\ frags[f].model = model /\ lock[model] = "free"
      /\ victim' = f /\ prePc' = "remove"
      /\ UNCHANGED <<cacheVars, model, target, failed, fromCache, blind, remote, markers, worker>>
  BY DEF Look
<1> USE <1>1 DEF cacheVars
<1>2. frags[f].by = "nobody"
  <2>1. frags[f].by # "none"
    BY ModelsAre DEF FragmentsNamed, PreTyped
  <2>2. frags[f].by # "peer"
    BY PreloadAssumption DEF PeerHolds
  <2>3. frags[f].by # "self"
    BY DEF SelfHolds
  <2> QED BY <2>1, <2>2, <2>3, FragmentIs
<1>3. PreTyped' /\ FragmentsNamed'
  BY <1>2 DEF PreTyped, PrePcs, FragmentsNamed
<1>4. PeerHolds' /\ SelfHolds'
  BY DEF PeerHolds, SelfHolds
<1>5. Progress' /\ MarksTrue'
  BY DEF Progress, BroughtOver, MarksTrue
<1> QED
  BY <1>3, <1>4, <1>5

LEMMA RemoveStep ==
    ASSUME CopyInv, RemoveFragment
    PROVE  CopyInv'
<1> USE DEF CopyInv
<1>1. /\ prePc = "remove" /\ prePc' = "prune" /\ victim' = 0
      /\ victim \in Frags /\ frags[victim].by = "nobody"
      /\ UNCHANGED <<hub, lock, peer, model, target, failed, fromCache, blind, remote, markers, worker>>
  BY DEF RemoveFragment, FragmentsNamed
<1> USE <1>1
<1>2. /\ frags' \in [Frags -> Fragments]
      /\ frags'[victim] \in {frags[victim], None}
      /\ \A g \in Frags : g # victim => frags'[g] = frags[g]
  BY Cleared DEF RemoveFragment, PreTyped
<1>3. PreTyped'
  BY <1>2 DEF PreTyped, PrePcs
<1>4. FragmentsNamed'
  BY <1>2, NoneIs DEF FragmentsNamed
<1>5. PeerHolds'
  <2>1. peer # victim
    BY PreloadAssumption DEF PeerHolds
  <2>2. peer # 0 => frags'[peer] = frags[peer]
    BY <1>2, <2>1 DEF PreTyped
  <2>3. \A g \in Frags : frags'[g].by = "peer" => frags[g].by = "peer"
    BY <1>2, NoneIs
  <2> QED BY <2>2, <2>3 DEF PeerHolds
<1>6. SelfHolds'
  BY <1>2, NoneIs DEF SelfHolds
<1>7. Progress' /\ MarksTrue'
  BY DEF Progress, BroughtOver, MarksTrue
<1> QED
  BY <1>3, <1>4, <1>5, <1>6, <1>7

LEMMA FetchStep ==
    ASSUME CopyInv, NEW f \in Frags, Fetch(f)
    PROVE  CopyInv'
<1> USE DEF CopyInv
<1>1. /\ prePc = "prune" /\ lock[model] = "free"
      /\ UNCHANGED <<hub, peer, model, target, victim, failed, fromCache, blind, remote, markers, worker>>
  BY DEF Fetch
<1> USE <1>1
<1>2. \A g \in Frags : frags[g].by # "self"
  BY DEF SelfHolds
<1>3. failed = {} => \A m \in Models : m < model => BroughtOver(m)
  BY DEF Progress
<1>4. MarksTrue'
  BY DEF MarksTrue
<1>5. CASE model \in hub
  <2>1. prePc' = "sync" /\ UNCHANGED <<frags, lock>>
    BY <1>5 DEF Fetch
  <2>2. PreTyped' /\ FragmentsNamed' /\ PeerHolds' /\ SelfHolds'
    BY <1>2, <2>1 DEF PreTyped, PrePcs, FragmentsNamed, PeerHolds, SelfHolds
  <2>3. Progress'
    <3>0. target = 1
      BY DEF Progress
    <3>1. \A t \in Targets : ~(t < target)
      BY <3>0, ModelsAre
    <3>2. failed = {} => \A m \in Models : m < model => BroughtOver(m)'
      BY <1>3 DEF BroughtOver
    <3> QED BY <1>5, <2>1, <3>0, <3>1, <3>2 DEF Progress, BroughtOver
  <2> QED BY <1>4, <2>2, <2>3
<1>6. CASE model \notin hub
  <2>1. prePc' = "fetch" /\ Opened(f, model, "self") /\ lock' = [lock EXCEPT ![model] = "self"]
    BY <1>6 DEF Fetch
  <2>2. /\ frags[f].by = "none" /\ frags' \in [Frags -> Fragments]
        /\ frags'[f].by = "self" /\ frags'[f].model = model
        /\ \A g \in Frags : g # f => frags'[g] = frags[g]
    BY <2>1, OpenedIs DEF PreTyped
  <2>3. PreTyped'
    BY <2>1, <2>2 DEF PreTyped, PrePcs
  <2>4. FragmentsNamed'
    BY <2>1, <2>2, ModelsAre DEF FragmentsNamed, PreTyped
  <2>5. PeerHolds'
    <3>1. peer # 0 => peer # f /\ frags'[peer] = frags[peer] /\ frags[peer].model # model
      BY <2>2 DEF PeerHolds, PreTyped
    <3>2. peer # 0 => lock'[frags'[peer].model] = "peer"
      BY <2>1, <3>1, FragmentIs DEF PeerHolds, PreTyped, FragmentsNamed
    <3>3. \A g \in Frags : frags'[g].by = "peer" => g = peer
      BY <2>2 DEF PeerHolds
    <3> QED BY <3>1, <3>2, <3>3 DEF PeerHolds
  <2>6. SelfHolds'
    BY <1>2, <2>1, <2>2 DEF SelfHolds, PreTyped
  <2>7. Progress'
    BY <1>3, <2>1 DEF Progress, BroughtOver
  <2> QED BY <1>4, <2>3, <2>4, <2>5, <2>6, <2>7
<1> QED
  BY <1>5, <1>6


LEMMA MineIs ==
    ASSUME PreTyped, SelfHolds, prePc = "fetch"
    PROVE  /\ Mine \in Frags /\ frags[Mine].by = "self" /\ frags[Mine].model = model
           /\ \A g \in Frags : g # Mine => frags[g].by # "self"
<1>1. \E f \in Frags : frags[f].by = "self" /\ frags[f].model = model
  BY DEF SelfHolds
<1>2. Mine \in Frags /\ frags[Mine].by = "self"
  BY <1>1 DEF Mine
<1> QED
  BY <1>1, <1>2 DEF SelfHolds

LEMMA FetchEndsStep ==
    ASSUME CopyInv, FetchEnds
    PROVE  CopyInv'
<1> USE DEF CopyInv
<1>1. PICK f \in Frags : f = Mine /\ frags[f].by = "self" /\ frags[f].model = model
                         /\ \A g \in Frags : g # f => frags[g].by # "self"
  BY MineIs DEF FetchEnds
<1>2. /\ prePc = "fetch" /\ lock[model] = "self" /\ lock' = [lock EXCEPT ![model] = "free"]
      /\ \/ hub' = hub \cup {model} /\ frags' = [frags EXCEPT ![f] = None] /\ prePc' = "sync"
         \/ frags' = [frags EXCEPT ![f].by = "nobody"] /\ prePc' = "offline" /\ hub' = hub
      /\ UNCHANGED <<peer, model, target, victim, failed, fromCache, blind, remote, markers, worker>>
  BY <1>1 DEF FetchEnds, SelfHolds
<1>3. /\ frags' \in [Frags -> Fragments]
      /\ frags'[f] = None \/ (frags'[f].by = "nobody" /\ frags'[f].model = model)
      /\ \A g \in Frags : g # f => frags'[g] = frags[g]
  BY <1>1, <1>2, LeftBehind, Cleared
<1>4. PreTyped'
  BY <1>2, <1>3 DEF PreTyped, PrePcs
<1>5. FragmentsNamed'
  BY <1>1, <1>2, <1>3, NoneIs, ModelsAre DEF FragmentsNamed, PreTyped
<1>6. PeerHolds'
  <2>1. peer # 0 => peer # f /\ frags'[peer] = frags[peer] /\ frags[peer].model # model
    BY <1>1, <1>2, <1>3 DEF PeerHolds, PreTyped
  <2>2. peer # 0 => lock'[frags'[peer].model] = "peer"
    BY <1>2, <2>1, FragmentIs DEF PeerHolds, PreTyped, FragmentsNamed
  <2>3. \A g \in Frags : frags'[g].by = "peer" => g = peer
    BY <1>3, NoneIs DEF PeerHolds
  <2> QED BY <1>2, <2>1, <2>2, <2>3 DEF PeerHolds
<1>7. SelfHolds'
  BY <1>1, <1>2, <1>3, NoneIs DEF SelfHolds
<1>8. Progress'
  <2>1. target = 1 /\ \A t \in Targets : ~(t < target)
    BY <1>2, ModelsAre DEF Progress
  <2>2. failed = {} => \A m \in Models : m < model => BroughtOver(m)'
    BY <1>2 DEF Progress, BroughtOver
  <2>3. prePc' = "sync" => model \in hub'
    BY <1>2
  <2> QED BY <1>2, <2>1, <2>2, <2>3 DEF Progress
<1>9. MarksTrue'
  BY <1>2 DEF MarksTrue
<1> QED
  BY <1>4, <1>5, <1>6, <1>7, <1>8, <1>9

\* A step outside pruning and downloading leaves the fragments and locks alone.
LEMMA CacheStays ==
    ASSUME CopyInv, UNCHANGED <<cacheVars, victim>>, PreTyped',
           prePc \notin {"remove", "fetch"}, prePc' \notin {"remove", "fetch"}
    PROVE  FragmentsNamed' /\ PeerHolds' /\ SelfHolds'
<1>1. FragmentsNamed'
  BY DEF CopyInv, cacheVars, FragmentsNamed
<1>2. PeerHolds'
  BY DEF CopyInv, cacheVars, PeerHolds
<1>3. SelfHolds'
  BY DEF CopyInv, cacheVars, SelfHolds
<1> QED
  BY <1>1, <1>2, <1>3

LEMMA SyncStep ==
    ASSUME CopyInv, Sync
    PROVE  CopyInv'
<1> USE DEF CopyInv
<1>1. /\ prePc = "sync" /\ target \in Targets /\ model \in hub
      /\ UNCHANGED <<cacheVars, model, victim, fromCache, blind, markers, worker>>
      /\ \/ /\ remote' = [remote EXCEPT ![target] = remote[target] \cup {model}]
            /\ target' = target + 1 /\ UNCHANGED <<prePc, failed>>
         \/ /\ failed' = failed \cup {<<model, target>>}
            /\ target' = target + 1 /\ UNCHANGED <<prePc, remote>>
         \/ prePc' = "offline" /\ UNCHANGED <<target, failed, remote>>
  BY DEF Sync, Progress
<1>2. UNCHANGED <<hub, frags, lock, peer>>
  BY <1>1 DEF cacheVars
<1>3. target \in Nat \ {0} /\ model \in Models /\ target + 1 \in Nat \ {0}
  BY DEF PreTyped
<1>4. /\ remote' \in [Targets -> SUBSET Models]
      /\ \A t \in Targets : remote[t] \subseteq remote'[t]
  BY <1>1, <1>3 DEF PreTyped
<1>5. PreTyped'
  <2>1. failed' \subseteq Models \X (Targets \cup {0})
    BY <1>1, <1>3 DEF PreTyped
  <2>2. prePc' \in PrePcs
    BY <1>1 DEF PrePcs
  <2>3. target' \in Nat \ {0}
    BY <1>1, <1>3
  <2> QED BY <1>1, <1>2, <1>4, <2>1, <2>2, <2>3 DEF PreTyped
<1>6. FragmentsNamed' /\ PeerHolds' /\ SelfHolds'
  BY <1>1, <1>5, CacheStays
<1>7. Progress'
  <2>1. failed' = {} => failed = {}
    BY <1>1
  <2>2. failed' = {} => \A m \in Models : m < model' => BroughtOver(m)'
    BY <1>1, <1>2, <1>4, <2>1 DEF Progress, BroughtOver
  <2>3. ASSUME prePc' = "sync", failed' = {}, NEW t \in Targets, t < target'
        PROVE  model' \in remote'[t]
    <3>1. remote' = [remote EXCEPT ![target] = remote[target] \cup {model}] /\ target' = target + 1
      BY <1>1, <2>3
    <3>2. CASE t = target
      BY <1>1, <3>1, <3>2 DEF PreTyped
    <3>3. CASE t # target
      <4>1. t < target
        BY <1>3, <2>3, <3>1, <3>3, ModelsAre
      <4>2. model \in remote[t]
        BY <1>1, <2>1, <2>3, <4>1 DEF Progress
      <4> QED BY <1>1, <1>4, <4>2
    <3> QED BY <3>2, <3>3
  <2>4. prePc' \in {"sync", "offline"} /\ model' \in hub'
    BY <1>1, <1>2
  <2> QED BY <2>2, <2>3, <2>4 DEF Progress
<1>8. MarksTrue'
  BY <1>1, <1>2 DEF MarksTrue
<1> QED
  BY <1>5, <1>6, <1>7, <1>8

\* The program goes to the next model or ends, with the present one brought
\* unless something failed.
LEMMA ModelDone ==
    ASSUME CopyInv, prePc \in {"sync", "offline"}, Done(failed'),
           UNCHANGED <<cacheVars, victim, remote, markers, worker>>,
           fromCache \subseteq fromCache', fromCache' \subseteq Models,
           blind \subseteq blind', blind' \subseteq Models,
           failed \subseteq failed', failed' \subseteq Models \X (Targets \cup {0}),
           failed' = {} => /\ model \in hub \cup blind'
                           /\ model \in fromCache' \/ \A t \in Targets : model \in remote[t]
    PROVE  CopyInv'
<1> USE DEF CopyInv
<1>1. UNCHANGED <<hub, frags, lock, peer>>
  BY DEF cacheVars
<1> DEFINE pc == IF failed' = {} THEN "exit0" ELSE "exit1"
<1>2. NextModel(pc) /\ pc \in {"exit0", "exit1"}
  BY DEF Done
<1>3. pc = "exit0" => failed' = {}
  OBVIOUS
<1> HIDE DEF pc
<1>4. /\ model' \in Models /\ target' \in Nat \ {0}
      /\ \/ prePc' = "info" /\ target' = 1 /\ \A m \in Models : m < model' => m <= model
         \/ prePc' = pc /\ model' = model /\ \A m \in Models : m <= model
  BY <1>2, NextModelIs
<1>5. prePc' \in {"info", "exit0", "exit1"} /\ (prePc' = "exit0" => failed' = {})
  BY <1>2, <1>3, <1>4
<1>6. PreTyped'
  BY <1>1, <1>4, <1>5 DEF PreTyped, PrePcs
<1>7. FragmentsNamed' /\ PeerHolds' /\ SelfHolds'
  BY <1>5, <1>6, CacheStays
<1>8. ASSUME failed' = {}, NEW m \in Models, m <= model
      PROVE  BroughtOver(m)'
  <2>1. CASE m = model
    BY <1>1, <1>8, <2>1 DEF BroughtOver
  <2>2. CASE m # model
    <3>1. m < model
      BY <1>8, <2>2, ModelsAre DEF PreTyped
    <3>2. BroughtOver(m)
      BY <1>8, <3>1 DEF Progress
    <3> QED BY <1>1, <3>2 DEF BroughtOver
  <2> QED BY <2>1, <2>2
<1>9. Progress'
  <2>1. failed' = {} => \A m \in Models : m < model' => BroughtOver(m)'
    <3>1. \A m \in Models : m < model' => m <= model
      BY <1>4, ModelsAre DEF PreTyped
    <3> QED BY <1>8, <3>1
  <2>2. prePc' = "exit0" => \A m \in Models : BroughtOver(m)'
    BY <1>4, <1>5, <1>8
  <2>3. prePc' = "info" => target' = 1
    BY <1>4, <1>5, <1>2
  <2> QED BY <1>5, <2>1, <2>2, <2>3 DEF Progress, BroughtOver
<1>10. MarksTrue'
  BY <1>1 DEF MarksTrue
<1> QED
  BY <1>6, <1>7, <1>9, <1>10


LEMMA SyncedStep ==
    ASSUME CopyInv, Synced
    PROVE  CopyInv'
<1>1. /\ prePc = "sync" /\ Done(failed') /\ target \notin Targets
      /\ UNCHANGED <<cacheVars, victim, failed, fromCache, blind, remote, markers, worker>>
  BY DEF Synced
<1>2. fromCache' \subseteq Models /\ blind' \subseteq Models /\ failed' \subseteq Models \X (Targets \cup {0})
  BY <1>1 DEF CopyInv, PreTyped
<1>3. failed = {} => model \in hub /\ \A t \in Targets : model \in remote[t]
  BY <1>1, ModelsAre DEF CopyInv, PreTyped, Progress
<1> QED
  BY <1>1, <1>2, <1>3, ModelDone

LEMMA OfflineStep ==
    ASSUME CopyInv, Offline
    PROVE  CopyInv'
<1>1. /\ prePc = "offline" /\ Done(failed')
      /\ UNCHANGED <<cacheVars, victim, remote, markers, worker>>
      /\ model \in Models /\ fromCache \subseteq Models /\ blind \subseteq Models
      /\ failed \subseteq Models \X (Targets \cup {0})
  BY DEF Offline, CopyInv, PreTyped
<1>2. \/ /\ fromCache' = fromCache \cup {model} /\ failed' = failed
         /\ blind' = IF model \in hub THEN blind ELSE blind \cup {model}
      \/ failed' = failed \cup {<<model, 0>>} /\ fromCache' = fromCache /\ blind' = blind
  BY DEF Offline
<1>3. /\ fromCache \subseteq fromCache' /\ fromCache' \subseteq Models
      /\ blind \subseteq blind' /\ blind' \subseteq Models
  BY <1>1, <1>2
<1>4. /\ failed \subseteq failed' /\ failed' \subseteq Models \X (Targets \cup {0})
      /\ failed' = {} => model \in hub \cup blind' /\ model \in fromCache'
  <2>1. CASE model \in begun
    BY <1>1, <2>1 DEF Offline
  <2>2. CASE model \notin begun
    <3>1. failed' = failed \cup {<<model, 0>>}
      BY <2>2 DEF Offline
    <3>2. <<model, 0>> \in Models \X (Targets \cup {0})
      BY <1>1
    <3>3. failed' # {}
      BY <3>1
    <3> QED BY <1>1, <3>1, <3>2, <3>3
  <2> QED BY <2>1, <2>2
<1> QED
  BY <1>1, <1>3, <1>4, ModelDone

\* A restart leaves the program's fragment behind and keeps what is on disk.
LEMMA RestartStep ==
    ASSUME CopyInv, Restart
    PROVE  CopyInv'
<1> USE DEF CopyInv
<1>1. /\ prePc' = "info" /\ model' = 1 /\ target' = 1 /\ victim' = 0
      /\ failed' = {} /\ fromCache' = {}
      /\ lock' = [m \in Models |-> IF lock[m] = "self" THEN "free" ELSE lock[m]]
      /\ frags' = [f \in Frags |-> IF frags[f].by = "self" THEN [frags[f] EXCEPT !.by = "nobody"] ELSE frags[f]]
      /\ UNCHANGED <<hub, peer, blind, remote, markers, worker>>
  BY DEF Restart
<1>2. ASSUME NEW f \in Frags
      PROVE  /\ frags'[f] \in Fragments
             /\ frags'[f].model = frags[f].model
             /\ frags[f].by = "self" => frags'[f].by = "nobody"
             /\ frags[f].by # "self" => frags'[f] = frags[f]
  BY <1>1, FragmentIs DEF Fragments
<1>3. lock' \in [Models -> {"free", "self", "peer"}]
      /\ \A m \in Models : lock[m] = "peer" => lock'[m] = "peer"
  BY <1>1 DEF PreTyped
<1>4. PreTyped'
  <2>1. frags' \in [Frags -> Fragments]
    BY <1>1, <1>2
  <2>2. model' \in Models /\ target' \in Nat \ {0} /\ failed' \subseteq Models \X (Targets \cup {0})
    BY <1>1, ModelsAre
  <2> QED BY <1>1, <1>3, <2>1, <2>2 DEF PreTyped, PrePcs
<1>5. FragmentsNamed'
  <2>1. \A f \in Frags : frags'[f].by = "none" <=> frags[f].by = "none"
    BY <1>2
  <2> QED BY <1>1, <1>2, <2>1 DEF FragmentsNamed
<1>6. PeerHolds'
  <2>1. \A f \in Frags : frags'[f].by = "peer" <=> frags[f].by = "peer"
    BY <1>2
  <2>2. peer # 0 => frags[peer].model \in Models
    BY FragmentIs DEF PeerHolds, PreTyped, FragmentsNamed
  <2> QED BY <1>1, <1>2, <1>3, <2>1, <2>2 DEF PeerHolds, PreTyped
<1>7. SelfHolds'
  <2>1. \A f \in Frags : frags'[f].by # "self"
    BY <1>2
  <2> QED BY <1>1, <2>1 DEF SelfHolds
<1>8. Progress'
  BY <1>1, ModelsAre DEF Progress
<1>9. MarksTrue'
  BY <1>1 DEF MarksTrue
<1> QED
  BY <1>4, <1>5, <1>6, <1>7, <1>8, <1>9

\* The markers and the worker change nothing that others look at.
LEMMA MarkSteps ==
    ASSUME CopyInv, (\E m \in Models : Mark(m)) \/ WorkerGoes \/ WorkerTimeout
    PROVE  CopyInv'
<1> USE DEF CopyInv
<1>1. UNCHANGED <<cacheVars, mainVars, blind, remote>>
  BY DEF Mark, WorkerGoes, WorkerTimeout
<1> USE <1>1 DEF cacheVars, mainVars
<1>2. markers' \subseteq Models
  BY DEF Mark, WorkerGoes, WorkerTimeout, PreTyped
<1>3. PreTyped' /\ FragmentsNamed'
  BY <1>2 DEF PreTyped, FragmentsNamed
<1>4. PeerHolds' /\ SelfHolds'
  BY DEF PeerHolds, SelfHolds
<1>5. Progress'
  BY DEF Progress, BroughtOver
<1>6. MarksTrue'
  <2>1. CASE \E m \in Models : Mark(m)
    BY <2>1 DEF Mark, MarksTrue, Progress, BroughtOver
  <2>2. CASE WorkerGoes \/ WorkerTimeout
    <3>1. Models # {}
      BY ModelsAre
    <3> QED BY <2>2, <3>1 DEF WorkerGoes, WorkerTimeout, MarksTrue
  <2> QED BY <2>1, <2>2
<1> QED
  BY <1>3, <1>4, <1>5, <1>6

LEMMA CopyStep == CopyInv /\ [PreloadNext]_preloadVars => CopyInv'
<1> SUFFICES ASSUME CopyInv, [PreloadNext]_preloadVars PROVE CopyInv'
  OBVIOUS
<1>1. CASE Info \/ RemoveFragment \/ FetchEnds \/ Sync \/ Synced \/ Offline
  BY <1>1, InfoStep, RemoveStep, FetchEndsStep, SyncStep, SyncedStep, OfflineStep
<1>2. CASE \E f \in Frags : Look(f) \/ Fetch(f)
  BY <1>2, LookStep, FetchStep
<1>3. CASE PeerEnds \/ Restart \/ WorkerGoes \/ WorkerTimeout \/ \E m \in Models : Mark(m)
  BY <1>3, PeerEndsStep, RestartStep, MarkSteps
<1>4. CASE \E m \in Models, f \in Frags : PeerStart(m, f)
  BY <1>4, PeerStartStep
<1>5. CASE \E f \in Frags : Stall(f)
  BY <1>5, StallStep
<1>6. CASE UNCHANGED preloadVars
  BY <1>6
     DEF preloadVars, cacheVars, mainVars, CopyInv, PreTyped, FragmentsNamed, PeerHolds, SelfHolds,
         Progress, BroughtOver, MarksTrue
<1> QED
  BY <1>1, <1>2, <1>3, <1>4, <1>5, <1>6 DEF PreloadNext, ProgramStep

LEMMA CalmStep == PreloadInv /\ [PreloadNext]_preloadVars => CalmInv'
<1> SUFFICES ASSUME PreloadInv, [PreloadNext]_preloadVars PROVE CalmInv'
  OBVIOUS
<1> USE DEF PreloadInv, CalmInv
<1>1. model \in Models /\ fromCache \subseteq Models
  BY DEF CopyInv, PreTyped
<1>2. Fault => faults' \in Nat /\ faults' # 0
  BY DEF Fault
<1>3. CASE Info
  BY <1>2, <1>3 DEF Info, cacheVars
<1>4. CASE RemoveFragment \/ (\E f \in Frags : Look(f) \/ Stall(f))
  BY <1>4 DEF RemoveFragment, Look, Stall, cacheVars, mainVars
<1>5. CASE \E f \in Frags : Fetch(f)
  BY <1>1, <1>5 DEF Fetch, Opened
<1>6. CASE FetchEnds
  BY <1>1, <1>2, <1>6 DEF FetchEnds
<1>7. CASE Sync
  BY <1>2, <1>7 DEF Sync, cacheVars
<1>8. CASE Synced
  <2>1. prePc' # "offline"
    BY <1>8 DEF Synced, Done, NextModel
  <2> QED BY <1>8, <2>1 DEF Synced, cacheVars
<1>9. CASE Offline
  BY <1>9 DEF Offline, cacheVars
<1>10. CASE PeerEnds
  <2>1. frags[peer].model \in Models
    BY <1>10 DEF PeerEnds, CopyInv, PeerHolds, PreTyped, FragmentsNamed, Fragments
  <2> QED BY <1>10, <2>1 DEF PeerEnds, mainVars
<1>11. CASE \E m \in Models, f \in Frags : PeerStart(m, f)
  BY <1>11 DEF PeerStart, Opened, mainVars
<1>12. CASE Restart
  BY <1>12 DEF Restart
<1>13. CASE WorkerGoes \/ WorkerTimeout \/ \E m \in Models : Mark(m)
  BY <1>13 DEF WorkerGoes, WorkerTimeout, Mark, cacheVars, mainVars
<1>14. CASE UNCHANGED preloadVars
  BY <1>14 DEF preloadVars, cacheVars, mainVars
<1> QED
  BY <1>3, <1>4, <1>5, <1>6, <1>7, <1>8, <1>9, <1>10, <1>11, <1>12, <1>13, <1>14
     DEF PreloadNext, ProgramStep

LEMMA PreloadStart == PreloadInit => PreloadInv
BY CopyStart DEF PreloadInv, CalmInv, PreloadInit

LEMMA PreloadStep == PreloadInv /\ [PreloadNext]_preloadVars => PreloadInv'
BY CopyStep, CalmStep DEF PreloadInv

\* The invariant of the preload: who writes which fragment under which lock, what is
\* brought while nothing failed, and what takes a failed request or copy
\* (hf_preload_download.py, with its offline path as it is, :246-264).
THEOREM PreloadInvariant == PreloadSpec => []PreloadInv
BY PreloadStart, PreloadStep, PTL DEF PreloadSpec

\* Pruning spares the download of a live peer; a worker that goes on, and a program
\* that reports success, find every model complete in the cache or taken for complete
\* by the offline path, and on the targets unless it went that path; which it does
\* only after a failed request or copy (hf_preload_download.py, sglang_preload.sh).
THEOREM PreloadIsSound == PreloadSpec => []PreloadSound
<1>1. PreloadInv => PruneSparesLive
  BY DEF PreloadInv, CopyInv, PeerHolds, PruneSparesLive
<1>2. PreloadInv => GoMeansThere
  BY DEF PreloadInv, CopyInv, MarksTrue, GoMeansThere
<1>3. PreloadInv => SuccessIsSynced
  BY DEF PreloadInv, CopyInv, Progress, BroughtOver, SuccessIsSynced
<1>4. PreloadInv => DoubtNeedsFailure
  BY DEF PreloadInv, CalmInv, DoubtNeedsFailure
<1> QED
  BY <1>1, <1>2, <1>3, <1>4, PreloadInvariant, PTL DEF PreloadSound


----------------------------------------------------------------------------
(* keel-drift *)

\* What a digest may be: a manifest, which contains itself alone, or an index.
Builds == Platforms \X Nat
Digests == {d \in [shell : Nat, of : SUBSET Builds] :
                d.of # {} /\ (d.shell = 0 => \E m \in d.of : d.of = {m})}

ClusterTyped ==
    /\ tag.pushes \in Nat /\ tag.now \in Digests /\ tag.now.shell # 0
    /\ running \in [Workloads -> [1 .. Pods -> Digests \cup {Down}]]
    /\ ran \in [Workloads -> Digests \cup {Down}]
    /\ verdict \in [Workloads -> {"open", "unclear", "current", "stale"}]

\* The digests that are accepted are those of one index, which the tag named.
LookupTrue ==
    lookup # <<>> /\ lookup[1].error # TRUE =>
        \E shell \in Nat \ {0} :
            LET t == [shell |-> shell, of |-> lookup[1].of] IN
            /\ t \in Digests
            /\ lookup[1].acceptable \in {{}, {t}, ManifestsOf(t), {t} \cup ManifestsOf(t)}

\* The cache knows a digest's manifests, or that the registry did not tell.
CacheTrue ==
    \A d \in DOMAIN childCache :
        /\ childCache[d].parts \subseteq ManifestsOf(d)
        /\ childCache[d].failed = TRUE \/ childCache[d].parts = ManifestsOf(d)

Unclear(d) == lookup[1].error = TRUE \/ lookup[1].acceptable = {} \/ d = Down
Accepted(d) == d \in lookup[1].acceptable
Known(d) == d \in DOMAIN childCache
Inside(d) == Known(d) /\ childCache[d].parts \cap lookup[1].acceptable # {}

DriftControl ==
    /\ driftPc \in {"pods", "lookup", "compare", "children", "children known", "exit"}
    /\ job \in Nat /\ (driftPc # "exit" => job \in Workloads)
    /\ driftPc \in {"compare", "children", "children known"} => lookup # <<>>
    /\ driftPc = "lookup" => lookup = <<>>
    /\ driftPc \in {"children", "children known"} => ~Unclear(ran[job]) /\ ~Accepted(ran[job])
    /\ driftPc = "children" => ~Known(ran[job])
    /\ driftPc = "children known" => Known(ran[job])

\* A verdict depends on the digest alone, by a look-up and entries of the cache
\* that do not change any more.
Grounded ==
    \A w \in Workloads :
        /\ verdict[w] # "open" => w < job /\ lookup # <<>>
        /\ verdict[w] = "unclear" => Unclear(ran[w])
        /\ verdict[w] = "current" => ~Unclear(ran[w]) /\ (Accepted(ran[w]) \/ Inside(ran[w]))
        /\ verdict[w] = "stale" => /\ ~Unclear(ran[w]) /\ ~Accepted(ran[w])
                                   /\ Known(ran[w]) /\ ~Inside(ran[w])

DriftInv == ClusterTyped /\ LookupTrue /\ CacheTrue /\ DriftControl /\ Grounded


\* Of some positions there is a last one.
LEMMA LastOf ==
    ASSUME NEW n \in Nat, NEW S \in SUBSET (1 .. n), S # {}
    PROVE  (CHOOSE i \in S : \A k \in S : k <= i) \in S
<1> DEFINE Less == {ss \in Nat \X Nat : ss[1] < ss[2]}
           T == {n - i : i \in S}
<1>1. IsWellFoundedOn(Less, Nat)
  BY NatLessThanWellFounded, Zenon DEF OpToRel
<1>2. T \in SUBSET Nat /\ T # {}
  <2>1. \A i \in S : i \in Nat /\ i <= n /\ n - i \in Nat
    OBVIOUS
  <2> QED BY <2>1
<1>3. PICK x \in T : \A y \in T : ~(<<y, x>> \in Less)
  <2> HIDE DEF Less, T
  <2> QED BY <1>1, <1>2, WFMin
<1>4. \A y \in T : x <= y
  <2>1. \A y \in T : x \in Nat /\ y \in Nat /\ ~(y < x)
    <3> HIDE DEF T
    <3> QED BY <1>2, <1>3
  <2> QED BY <2>1
<1>5. PICK i \in S : x = n - i
  BY <1>3
<1>6. ASSUME NEW k \in S
      PROVE  k <= i
  <2>1. n - k \in T /\ k \in Nat /\ i \in Nat
    OBVIOUS
  <2>2. n - i <= n - k
    BY <1>4, <1>5, <2>1
  <2> QED BY <2>1, <2>2
<1> QED
  BY <1>5, <1>6

LEMMA RunningIs ==
    ASSUME ClusterTyped, NEW w \in Workloads
    PROVE  RunningDigest(w) \in Digests \cup {Down}
<1> DEFINE up == {i \in 1 .. Pods : running[w][i] # Down}
<1>1. CASE up = {}
  BY <1>1 DEF RunningDigest
<1>2. CASE up # {}
  <2>1. (CHOOSE i \in up : \A k \in up : k <= i) \in up
    <3>1. up \in SUBSET (1 .. Pods) /\ Pods \in Nat
      BY DriftAssumption
    <3> HIDE DEF up
    <3> QED BY <1>2, <3>1, LastOf
  <2>2. RunningDigest(w) = running[w][CHOOSE i \in up : \A k \in up : k <= i]
    BY <1>2 DEF RunningDigest
  <2> HIDE DEF up
  <2>3. \A i \in 1 .. Pods : running[w][i] \in Digests \cup {Down}
    BY DEF ClusterTyped
  <2>4. up \subseteq 1 .. Pods
    BY DEF up
  <2> QED BY <2>1, <2>2, <2>3, <2>4
<1> QED
  BY <1>1, <1>2

\* A manifest is a digest; the manifests of a digest are those of its builds.
LEMMA ManifestIs ==
    ASSUME NEW m \in Builds
    PROVE  Manifest(m) \in Digests /\ Manifest(m).shell = 0 /\ Manifest(m).of = {m}
BY DEF Manifest, Digests

LEMMA FirstBuildIs == FirstBuild \in Digests /\ FirstBuild.shell = 1
<1>1. Platforms \X {0} \subseteq Builds
  BY DEF Builds
<1>2. <<1, 0>> \in Platforms \X {0}
  BY DriftAssumption
<1> QED
  BY <1>1, <1>2 DEF FirstBuild, Digests

LEMMA DriftStart == DriftInit => DriftInv
<1> SUFFICES ASSUME DriftInit PROVE DriftInv
  OBVIOUS
<1>1. ClusterTyped
  BY FirstBuildIs DEF DriftInit, ClusterTyped
<1>2. LookupTrue /\ CacheTrue
  BY DEF DriftInit, LookupTrue, CacheTrue
<1>3. DriftControl
  BY DriftAssumption DEF DriftInit, DriftControl, Workloads
<1>4. Grounded
  BY DEF DriftInit, Grounded
<1> QED
  BY <1>1, <1>2, <1>3, <1>4 DEF DriftInv

\* The registry and the cluster change nothing the program has noted.
LEMMA ClusterSteps ==
    ASSUME DriftInv,
           (\E new \in SUBSET Platforms : Push(new)) \/ (\E w \in Workloads, i \in 1 .. Pods : Move(w, i))
    PROVE  DriftInv'
<1> USE DEF DriftInv
<1>1. UNCHANGED programVars
  BY DEF Push, Move
<1>2. LookupTrue' /\ CacheTrue' /\ DriftControl' /\ Grounded'
  BY <1>1 DEF programVars, LookupTrue, CacheTrue, DriftControl, Grounded, Unclear, Accepted, Known, Inside
<1>3. CASE \E new \in SUBSET Platforms : Push(new)
  <2>1. PICK new \in SUBSET Platforms : Push(new)
    BY <1>3
  <2> DEFINE of == {IF m[1] \in new THEN Rebuilt(m) ELSE m : m \in tag.now.of}
  <2>2. tag.pushes \in Nat /\ tag.now.of \subseteq Builds /\ tag.now.of # {}
    BY DEF ClusterTyped, Digests
  <2>3. \A m \in Builds : Rebuilt(m) \in Builds
    BY <2>2 DEF Rebuilt, Builds
  <2>4. of \in SUBSET Builds /\ of # {}
    BY <2>2, <2>3
  <2>5. tag' = [now |-> [shell |-> tag.pushes + 2, of |-> of], pushes |-> tag.pushes + 1]
        /\ UNCHANGED running
    BY <2>1 DEF Push
  <2> HIDE DEF of
  <2>6. [shell |-> tag.pushes + 2, of |-> of] \in Digests
    BY <2>2, <2>4 DEF Digests
  <2> QED BY <1>1, <1>2, <2>2, <2>5, <2>6 DEF ClusterTyped, programVars
<1>4. CASE \E w \in Workloads, i \in 1 .. Pods : Move(w, i)
  <2>1. PICK w \in Workloads, i \in 1 .. Pods : Move(w, i)
    BY <1>4
  <2>2. PICK d \in Pulled \cup {Down} : running' = [running EXCEPT ![w][i] = d]
    BY <2>1 DEF Move
  <2>3. d \in Digests \cup {Down}
    <3>1. tag.now \in Digests /\ tag.now.of \subseteq Builds
      BY DEF ClusterTyped, Digests
    <3> QED BY <2>2, <3>1, ManifestIs DEF Pulled
  <2>4. running' \in [Workloads -> [1 .. Pods -> Digests \cup {Down}]]
    BY <2>2, <2>3 DEF ClusterTyped
  <2>5. UNCHANGED tag
    BY <2>1 DEF Move
  <2> QED BY <1>1, <1>2, <2>4, <2>5 DEF ClusterTyped, programVars
<1> QED
  BY <1>3, <1>4


LEMMA LookAtPodsStep ==
    ASSUME DriftInv, LookAtPods
    PROVE  DriftInv'
<1> USE DEF DriftInv
<1>1. /\ driftPc = "pods" /\ job \in Workloads /\ verdict[job] = "open"
      /\ ran' = [ran EXCEPT ![job] = RunningDigest(job)]
      /\ driftPc' = IF lookup = <<>> THEN "lookup" ELSE "compare"
      /\ UNCHANGED <<clusterVars, job, attempt, lookup, childCache, verdict>>
  BY DEF LookAtPods, DriftControl, Grounded, Workloads
<1>2. ClusterTyped'
  BY <1>1, RunningIs DEF ClusterTyped, clusterVars
<1>3. LookupTrue' /\ CacheTrue'
  BY <1>1 DEF LookupTrue, CacheTrue
<1>4. DriftControl'
  BY <1>1 DEF DriftControl
<1>5. Grounded'
  <2>1. ASSUME NEW w \in Workloads, verdict[w] # "open"
        PROVE  ran'[w] = ran[w]
    BY <1>1, <2>1 DEF ClusterTyped
  <2> QED BY <1>1, <2>1 DEF Grounded, Unclear, Accepted, Known, Inside
<1> QED
  BY <1>2, <1>3, <1>4, <1>5

LEMMA ThrottledStep ==
    ASSUME DriftInv, Throttled
    PROVE  DriftInv'
<1>1. UNCHANGED <<clusterVars, driftPc, job, ran, lookup, childCache, verdict>>
  BY DEF Throttled
<1> QED
  BY <1>1 DEF DriftInv, clusterVars, ClusterTyped, LookupTrue, CacheTrue, DriftControl, Grounded, Unclear,
              Accepted, Known, Inside

\* Before the look-up nothing is judged.
LEMMA LookupStep ==
    ASSUME DriftInv, Lookup
    PROVE  DriftInv'
<1> USE DEF DriftInv
<1>1. /\ driftPc = "lookup" /\ driftPc' = "compare"
      /\ UNCHANGED <<clusterVars, job, ran, childCache, verdict>>
      /\ \A w \in Workloads : verdict[w] = "open"
  BY DEF Lookup, DriftControl, Grounded
<1>2. PICK l : /\ lookup' = <<l>>
               /\ l = NoLookup \/ \E index, parts \in BOOLEAN : l = Answer(index, parts)
  <2>1. CASE lookup' = <<NoLookup>>
    BY <2>1
  <2>2. CASE lookup' # <<NoLookup>>
    BY <2>2 DEF Lookup
  <2> QED BY <2>1, <2>2
<1>3. lookup' # <<>> /\ lookup'[1] = l
  BY <1>2
<1>4. ClusterTyped'
  BY <1>1 DEF ClusterTyped, clusterVars
<1>5. LookupTrue'
  <2>1. CASE l = NoLookup
    BY <1>3, <2>1 DEF LookupTrue, NoLookup
  <2>2. CASE l # NoLookup
    <3>1. PICK index, parts \in BOOLEAN : l = Answer(index, parts)
      BY <1>2, <2>2
    <3>2. l.of = tag.now.of
          /\ l.acceptable = (IF index THEN {tag.now} ELSE {}) \cup (IF parts THEN ManifestsOf(tag.now) ELSE {})
      BY <3>1 DEF Answer
    <3>3. tag.now.shell \in Nat \ {0} /\ tag.now = [shell |-> tag.now.shell, of |-> tag.now.of] /\ tag.now \in Digests
      BY DEF ClusterTyped, Digests
    <3>4. l.acceptable \in {{}, {tag.now}, ManifestsOf(tag.now), {tag.now} \cup ManifestsOf(tag.now)}
      BY <3>2
    <3> QED BY <1>3, <3>2, <3>3, <3>4 DEF LookupTrue
  <2> QED BY <2>1, <2>2
<1>6. CacheTrue'
  BY <1>1 DEF CacheTrue
<1>7. DriftControl'
  BY <1>1, <1>3 DEF DriftControl
<1>8. Grounded'
  BY <1>1 DEF Grounded
<1> QED
  BY <1>4, <1>5, <1>6, <1>7, <1>8

LEMMA WorkloadsAre ==
    \A w \in Workloads : w \in Nat /\ (w # Jobs => w + 1 \in Workloads)
BY DriftAssumption DEF Workloads

LEMMA NextJob ==
    ASSUME job \in Workloads, NEW status, Judge(status)
    PROVE  /\ job' \in Nat /\ \A w \in Workloads : w = job \/ w < job => w < job'
           /\ driftPc' \in {"exit", "pods"} /\ (driftPc' = "pods" => job' \in Workloads)
<1>1. job \in Nat /\ job' = job + 1
  BY WorkloadsAre DEF Judge
<1>2. driftPc' = IF job = Jobs THEN "exit" ELSE "pods"
  BY DEF Judge
<1>3. \A w \in Workloads : w = job \/ w < job => w < job'
  BY <1>1, WorkloadsAre
<1> QED
  BY <1>1, <1>2, <1>3, WorkloadsAre

\* A verdict that the look-up and the cache support.
LEMMA JudgeStep ==
    ASSUME DriftInv, NEW status \in {"unclear", "current", "stale"}, Judge(status),
           driftPc \in {"compare", "children known"},
           UNCHANGED <<clusterVars, ran, lookup, childCache>>,
           status = "unclear" => Unclear(ran[job]),
           status = "current" => ~Unclear(ran[job]) /\ (Accepted(ran[job]) \/ Inside(ran[job])),
           status = "stale" => /\ ~Unclear(ran[job]) /\ ~Accepted(ran[job])
                               /\ Known(ran[job]) /\ ~Inside(ran[job])
    PROVE  DriftInv'
<1> USE DEF DriftInv
<1>1. /\ job \in Workloads /\ job \in Nat /\ lookup # <<>>
      /\ verdict' = [verdict EXCEPT ![job] = status]
      /\ job' \in Nat /\ \A w \in Workloads : w = job \/ w < job => w < job'
      /\ driftPc' \in {"exit", "pods"} /\ (driftPc' = "pods" => job' \in Workloads)
  BY NextJob DEF Judge, DriftControl
<1>2. ClusterTyped'
  BY <1>1 DEF ClusterTyped, clusterVars
<1>3. LookupTrue' /\ CacheTrue'
  BY DEF LookupTrue, CacheTrue
<1>4. DriftControl'
  BY <1>1 DEF DriftControl
<1>5. Grounded'
  <2>1. \A w \in Workloads : w # job => verdict'[w] = verdict[w]
    BY <1>1 DEF ClusterTyped
  <2>2. verdict'[job] = status
    BY <1>1 DEF ClusterTyped
  <2>3. \A d : /\ Unclear(d)' <=> Unclear(d)
               /\ Accepted(d)' <=> Accepted(d)
               /\ Known(d)' <=> Known(d)
               /\ Inside(d)' <=> Inside(d)
    BY DEF Unclear, Accepted, Known, Inside
  <2>4. ASSUME NEW w \in Workloads
        PROVE  /\ verdict'[w] # "open" => w < job' /\ lookup' # <<>>
               /\ verdict'[w] = "unclear" => Unclear(ran[w])
               /\ verdict'[w] = "current" => ~Unclear(ran[w]) /\ (Accepted(ran[w]) \/ Inside(ran[w]))
               /\ verdict'[w] = "stale" => /\ ~Unclear(ran[w]) /\ ~Accepted(ran[w])
                                           /\ Known(ran[w]) /\ ~Inside(ran[w])
    <3>2. CASE w = job
      <4>1. verdict'[w] = status
        BY <2>2, <3>2
      <4>2. w < job' /\ lookup' # <<>>
        BY <1>1, <3>2
      <4> QED BY <3>2, <4>1, <4>2
    <3>3. CASE w # job
      <4>1. verdict'[w] = verdict[w]
        BY <2>1, <3>3
      <4>2. verdict'[w] # "open" => w < job' /\ lookup' # <<>>
        BY <1>1, <4>1 DEF Grounded
      <4> QED BY <4>1, <4>2 DEF Grounded
    <3> QED BY <3>2, <3>3
  <2> QED BY <2>4 DEF Grounded, Unclear, Accepted, Known, Inside
<1> QED
  BY <1>2, <1>3, <1>4, <1>5


LEMMA CompareStep ==
    ASSUME DriftInv, Compare
    PROVE  DriftInv'
<1>1. driftPc = "compare" /\ UNCHANGED <<clusterVars, attempt, ran, lookup, childCache>>
  BY DEF Compare
<1>2. CASE Unclear(ran[job])
  <2>1. Judge("unclear")
    BY <1>2 DEF Compare, Unclear
  <2> QED BY <1>1, <1>2, <2>1, JudgeStep
<1>3. CASE ~Unclear(ran[job]) /\ Accepted(ran[job])
  <2>1. Judge("current")
    BY <1>3 DEF Compare, Unclear, Accepted
  <2> QED BY <1>1, <1>3, <2>1, JudgeStep
<1>4. CASE ~Unclear(ran[job]) /\ ~Accepted(ran[job])
  <2>1. /\ driftPc' = IF Known(ran[job]) THEN "children known" ELSE "children"
        /\ UNCHANGED <<verdict, job>>
    BY <1>4 DEF Compare, Unclear, Accepted, Known
  <2>2. ClusterTyped' /\ LookupTrue' /\ CacheTrue'
    BY <1>1, <2>1 DEF DriftInv, ClusterTyped, clusterVars, LookupTrue, CacheTrue
  <2>3. Grounded'
    BY <1>1, <2>1 DEF DriftInv, Grounded, Unclear, Accepted, Known, Inside
  <2>4. DriftControl'
    BY <1>1, <1>4, <2>1 DEF DriftInv, DriftControl, Unclear, Accepted, Known
  <2> QED BY <2>2, <2>3, <2>4 DEF DriftInv
<1> QED
  BY <1>2, <1>3, <1>4

\* An entry of the cache is written once.
LEMMA ChildrenStep ==
    ASSUME DriftInv, Children
    PROVE  DriftInv'
<1> USE DEF DriftInv
<1>1. /\ driftPc = "children" /\ driftPc' = "children known"
      /\ UNCHANGED <<clusterVars, job, ran, lookup, verdict>>
      /\ job \in Workloads /\ lookup # <<>> /\ ~Known(ran[job])
      /\ ~Unclear(ran[job]) /\ ~Accepted(ran[job])
  BY DEF Children, DriftControl
<1>2. PICK found : /\ childCache' = Cached(found)
                   /\ found \in {[parts |-> ManifestsOf(ran[job]), failed |-> FALSE], [parts |-> {}, failed |-> TRUE]}
  BY DEF Children
<1>3. /\ DOMAIN childCache' = DOMAIN childCache \cup {ran[job]}
      /\ childCache'[ran[job]] = found
      /\ \A d \in DOMAIN childCache : childCache'[d] = childCache[d]
  BY <1>1, <1>2 DEF Cached, Known
<1>4. ClusterTyped' /\ LookupTrue'
  BY <1>1 DEF ClusterTyped, clusterVars, LookupTrue
<1>5. CacheTrue'
  <2>1. /\ found.parts \subseteq ManifestsOf(ran[job])
        /\ found.failed = TRUE \/ found.parts = ManifestsOf(ran[job])
    BY <1>2
  <2> QED BY <1>3, <2>1 DEF CacheTrue
<1>6. DriftControl'
  BY <1>1, <1>3 DEF DriftControl, Unclear, Accepted, Known
<1>7. Grounded'
  <2>1. ASSUME NEW w \in Workloads, verdict[w] \in {"current", "stale"}
        PROVE  /\ Inside(ran[w]) => Inside(ran[w])'
               /\ Known(ran[w]) => Known(ran[w])' /\ (Inside(ran[w])' => Inside(ran[w]))
    BY <1>1, <1>3 DEF Known, Inside
  <2> QED BY <1>1, <2>1 DEF Grounded, Unclear, Accepted, Known, Inside
<1> QED
  BY <1>4, <1>5, <1>6, <1>7

LEMMA CompareChildrenStep ==
    ASSUME DriftInv, CompareChildren
    PROVE  DriftInv'
<1>1. /\ driftPc = "children known"
      /\ UNCHANGED <<clusterVars, attempt, ran, lookup, childCache>>
      /\ Known(ran[job]) /\ ~Unclear(ran[job]) /\ ~Accepted(ran[job])
  BY DEF CompareChildren, DriftInv, DriftControl
<1>2. CASE Inside(ran[job])
  <2>1. Judge("current")
    BY <1>2 DEF CompareChildren, Inside
  <2> QED BY <1>1, <1>2, <2>1, JudgeStep
<1>3. CASE ~Inside(ran[job])
  <2>1. Judge("stale")
    BY <1>1, <1>3 DEF CompareChildren, Inside
  <2> QED BY <1>1, <1>3, <2>1, JudgeStep
<1> QED
  BY <1>2, <1>3

LEMMA DriftStep == DriftInv /\ [DriftNext]_driftVars => DriftInv'
<1> SUFFICES ASSUME DriftInv, [DriftNext]_driftVars PROVE DriftInv'
  OBVIOUS
<1>1. CASE LookAtPods \/ Throttled \/ Lookup \/ Compare \/ Children \/ CompareChildren
  BY <1>1, LookAtPodsStep, ThrottledStep, LookupStep, CompareStep, ChildrenStep, CompareChildrenStep
<1>2. CASE (\E new \in SUBSET Platforms : Push(new)) \/ (\E w \in Workloads, i \in 1 .. Pods : Move(w, i))
  BY <1>2, ClusterSteps
<1>3. CASE UNCHANGED driftVars
  BY <1>3 DEF driftVars, clusterVars, programVars, DriftInv, ClusterTyped, LookupTrue, CacheTrue,
              DriftControl, Grounded, Unclear, Accepted, Known, Inside
<1> QED
  BY <1>1, <1>2, <1>3 DEF DriftNext

\* The invariant of keel-drift: what was looked up is one index as the tag named
\* it, and each verdict follows from it and from what runs.
THEOREM DriftInvariant == DriftSpec => []DriftInv
BY DriftStart, DriftStep, PTL DEF DriftSpec

----------------------------------------------------------------------------
(* What the verdicts mean *)

LEMMA DigestIs ==
    ASSUME NEW d \in Digests
    PROVE  /\ d.of # {} /\ d.of \subseteq Builds /\ d = [shell |-> d.shell, of |-> d.of]
           /\ d.shell = 0 => \E m \in d.of : d = Manifest(m) /\ d.of = {m}
BY DEF Digests, Manifest

LEMMA ManifestsDiffer ==
    ASSUME NEW m, NEW n, Manifest(m) = Manifest(n)
    PROVE  m = n
<1>1. Manifest(m).of = {m} /\ Manifest(n).of = {n}
  BY DEF Manifest
<1> QED
  BY <1>1

\* Digests of the accepted index share a build with it.
LEMMA AcceptedShares ==
    ASSUME DriftInv, NEW d \in Digests, lookup # <<>>, ~Unclear(d), Accepted(d) \/ Inside(d)
    PROVE  d.of \cap lookup[1].of # {}
<1>1. PICK shell \in Nat \ {0} :
        /\ [shell |-> shell, of |-> lookup[1].of] \in Digests
        /\ lookup[1].acceptable \subseteq {[shell |-> shell, of |-> lookup[1].of]} \cup
                                          ManifestsOf([shell |-> shell, of |-> lookup[1].of])
  BY DEF DriftInv, LookupTrue, Unclear
<1>2. ManifestsOf([shell |-> shell, of |-> lookup[1].of]) = {Manifest(m) : m \in lookup[1].of}
  BY DEF ManifestsOf
<1>3. lookup[1].of # {}
  BY <1>1, DigestIs
<1>4. CASE Accepted(d)
  <2>1. CASE d = [shell |-> shell, of |-> lookup[1].of]
    BY <1>3, <2>1
  <2>2. CASE \E m \in lookup[1].of : d = Manifest(m)
    BY <2>2 DEF Manifest
  <2> QED BY <1>1, <1>2, <1>4, <2>1, <2>2 DEF Accepted
<1>5. CASE Inside(d)
  <2>1. PICK x \in ManifestsOf(d) : x \in lookup[1].acceptable
    BY <1>5 DEF Inside, Known, DriftInv, CacheTrue
  <2>2. PICK m \in d.of : x = Manifest(m) /\ x.shell = 0
    BY <2>1 DEF ManifestsOf, Manifest
  <2>3. x # [shell |-> shell, of |-> lookup[1].of]
    BY <2>2
  <2>4. PICK n \in lookup[1].of : x = Manifest(n)
    BY <1>1, <1>2, <2>1, <2>3
  <2>5. m = n
    BY <2>2, <2>4, ManifestsDiffer
  <2> QED BY <2>2, <2>4, <2>5
<1> QED
  BY <1>4, <1>5

\* A digest that is neither accepted nor has an accepted manifest shares no
\* build with an index of which the manifests are accepted.
LEMMA OthersShareNothing ==
    ASSUME DriftInv, NEW d \in Digests, lookup # <<>>, ~Unclear(d), ~Accepted(d), Known(d), ~Inside(d),
           childCache[d].failed # TRUE,
           ManifestsOf([shell |-> 1, of |-> lookup[1].of]) \cap lookup[1].acceptable # {}
    PROVE  d.of \cap lookup[1].of = {}
<1> DEFINE all == {Manifest(m) : m \in lookup[1].of}
<1>1. ManifestsOf([shell |-> 1, of |-> lookup[1].of]) = all
  BY DEF ManifestsOf
<1>2. PICK shell \in Nat \ {0} :
        lookup[1].acceptable \in {{}, {[shell |-> shell, of |-> lookup[1].of]}, all,
                                  {[shell |-> shell, of |-> lookup[1].of]} \cup all}
  <2>1. PICK shell \in Nat \ {0} :
          LET t == [shell |-> shell, of |-> lookup[1].of] IN
          lookup[1].acceptable \in {{}, {t}, ManifestsOf(t), {t} \cup ManifestsOf(t)}
    BY DEF DriftInv, LookupTrue, Unclear
  <2>2. ManifestsOf([shell |-> shell, of |-> lookup[1].of]) = all
    BY DEF ManifestsOf
  <2> QED BY <2>1, <2>2
<1>3. \A x \in all : x.shell = 0
  BY DEF Manifest
<1>4. all \subseteq lookup[1].acceptable
  <2>1. [shell |-> shell, of |-> lookup[1].of] \notin all
    BY <1>3
  <2> HIDE DEF all
  <2> QED BY <1>1, <1>2, <2>1
<1>5. childCache[d].parts = ManifestsOf(d)
  BY DEF Known, DriftInv, CacheTrue
<1>6. SUFFICES ASSUME NEW m \in d.of, m \in lookup[1].of PROVE FALSE
  OBVIOUS
<1>7. Manifest(m) \in lookup[1].acceptable
  BY <1>4, <1>6
<1>8. CASE d.shell = 0
  <2>1. d = Manifest(m)
    BY <1>6, <1>8, DigestIs
  <2> QED BY <1>7, <2>1 DEF Accepted
<1>9. CASE d.shell # 0
  <2>1. Manifest(m) \in childCache[d].parts
    BY <1>5, <1>6, <1>9 DEF ManifestsOf
  <2> QED BY <1>7, <2>1 DEF Inside
<1> QED
  BY <1>8, <1>9

\* "Current" means that what runs shares a manifest with the tag (for an index, of
\* some platform), "stale" that it shares none or the registry would not tell, and
\* one digest has one verdict, however pods move, the tag is pushed and requests
\* fail (keel_drift.py:980-996).
THEOREM VerdictsAreTrue == DriftSpec => []VerdictsHold
<1>1. ASSUME DriftInv PROVE VerdictsHold
  <2>1. \A w \in Workloads : ran[w] \in Digests \cup {Down}
    BY <1>1 DEF DriftInv, ClusterTyped
  <2>2. ASSUME NEW w \in Workloads, verdict[w] \in {"current", "stale"}
        PROVE  ran[w] \in Digests /\ lookup # <<>> /\ ~Unclear(ran[w])
    BY <1>1, <2>1, <2>2 DEF DriftInv, Grounded, Unclear
  <2>3. CurrentIsShared
    BY <1>1, <2>2, AcceptedShares DEF DriftInv, Grounded, CurrentIsShared
  <2>4. StaleIsElsewhere
    <3>1. SUFFICES ASSUME NEW w \in Workloads, verdict[w] = "stale", childCache[ran[w]].failed # TRUE,
                          ManifestsOf([shell |-> 1, of |-> lookup[1].of]) \cap lookup[1].acceptable # {}
                   PROVE  ran[w].of \cap lookup[1].of = {}
      <4>1. \A w \in Workloads : verdict[w] = "stale" => ran[w] \in DOMAIN childCache
        BY <1>1 DEF DriftInv, Grounded, Known
      <4> QED BY <4>1 DEF StaleIsElsewhere
    <3>2. ~Accepted(ran[w]) /\ Known(ran[w]) /\ ~Inside(ran[w])
      BY <1>1, <3>1 DEF DriftInv, Grounded
    <3> QED BY <1>1, <2>2, <3>1, <3>2, OthersShareNothing
  <2>5. SameDigestSameVerdict
    <3>1. SUFFICES ASSUME NEW v \in Workloads, NEW w \in Workloads, ran[v] = ran[w],
                          verdict[v] # "open", verdict[w] # "open"
                   PROVE  verdict[v] = verdict[w]
      BY DEF SameDigestSameVerdict
    <3>2. /\ verdict[v] \in {"unclear", "current", "stale"}
          /\ verdict[w] \in {"unclear", "current", "stale"}
      BY <1>1, <3>1 DEF DriftInv, ClusterTyped
    <3> QED BY <1>1, <3>1, <3>2 DEF DriftInv, Grounded
  <2> QED BY <2>3, <2>4, <2>5 DEF VerdictsHold
<1> QED
  BY <1>1, DriftInvariant, PTL


-----------------------------------------------------------------------------
(* CPU sharding: what the ranks cut *)

LEMMA Halves ==
    ASSUME NEW size \in Nat, Even(size, 2)
    PROVE  size \div 2 \in Nat /\ size = 2 * (size \div 2)
BY DEF Even

LEMMA HalvesUp ==
    ASSUME NEW size \in Nat
    PROVE  Ceil(size, 2) \in Nat /\ size <= 2 * Ceil(size, 2)
BY DEF Ceil

LEMMA TwoRanks == Cardinality(Ranks) = 2
<1>1. Cardinality(0 .. 1) = IF 0 > 1 THEN 0 ELSE 1 - 0 + 1
  <2>1. 0 \in Int /\ 1 \in Int
    OBVIOUS
  <2> QED
    BY <2>1, FS_Interval, Zenon
<1> QED
  BY <1>1 DEF Ranks

\* Two chunks that reach over the end take each unit once.
LEMMA SlicesShare ==
    ASSUME NEW size \in Nat, NEW chunk \in Nat, size <= 2 * chunk
    PROVE  /\ Slice(0, chunk, size) \cup Slice(1, chunk, size) = 0 .. size - 1
           /\ Slice(0, chunk, size) \cap Slice(1, chunk, size) = {}
<1>1. Slice(0, chunk, size) = {i \in 0 .. size - 1 : i < chunk}
  BY DEF Slice
<1>2. Slice(1, chunk, size) = {i \in 0 .. size - 1 : chunk <= i}
  <2>1. \A i \in 0 .. size - 1 : 1 * chunk <= i /\ i < (1 + 1) * chunk <=> chunk <= i
    OBVIOUS
  <2> QED
    BY <2>1 DEF Slice
<1> QED
  BY <1>1, <1>2

LEMMA CutsShare ==
    ASSUME NEW size \in Nat, Even(size, 2)
    PROVE  /\ Cut(size, 2, 0) \cup Cut(size, 2, 1) = 0 .. size - 1
           /\ Cut(size, 2, 0) \cap Cut(size, 2, 1) = {}
BY Halves, SlicesShare DEF Cut

\* One rank of one takes the whole.
LEMMA CutAll ==
    ASSUME NEW size \in Nat PROVE Cut(size, 1, 0) = 0 .. size - 1
<1>1. size \div 1 = size
  OBVIOUS
<1>2. \A i \in 0 .. size - 1 : 0 * size <= i /\ i < (0 + 1) * size
  OBVIOUS
<1> QED
  BY <1>1, <1>2 DEF Cut, Slice

LEMMA UnitsAre ==
    ASSUME NEW t, NEW A, NEW x
    PROVE  x \in Units(t, A) <=> \E i \in A : x = Unit(t, 0, i)
BY DEF Units

LEMMA UnitIs ==
    ASSUME NEW t, NEW e, NEW i
    PROVE  Unit(t, e, i).tensor = t /\ Unit(t, e, i).expert = e /\ Unit(t, e, i).at = i
BY DEF Unit

\* A tensor cut in two parts is whole, and no unit is in both.
LEMMA UnitsShare ==
    ASSUME NEW t, NEW A, NEW B
    PROVE  Units(t, A) \cup Units(t, B) = Units(t, A \cup B)
BY DEF Units

\* Experts by columns, of each expert of a set.
Columns(t, es, A) == {Unit(t, e, i) : e \in es, i \in A}

LEMMA ColumnsAre ==
    ASSUME NEW t, NEW es, NEW A, NEW x
    PROVE  x \in Columns(t, es, A) <=> \E e \in es, i \in A : x = Unit(t, e, i)
BY DEF Columns

Cols13(s, r) == Cut(2 * s.cols, MoeTp(s), MoeRank(s, r))
Rows2(s, r) == Cut(s.rows, MoeTp(s), MoeRank(s, r))

\* Shapes that the divisions leave nothing of
Fits(s) == /\ s.tp = Cardinality(Ranks) /\ s.ep \in {1, s.tp}
           /\ Even(s.heads, s.tp) /\ Even(s.kvHeads, s.tp) /\ (s.ep > 1 => Even(s.experts, s.ep))

\* When the first expert of a rank is not in the model, the rank has none anyway.
LEMMA ExpertsAre ==
    ASSUME NEW s \in Shape, s.tp = Cardinality(Ranks), s.ep \in {1, s.tp}, NEW r \in Ranks
    PROVE  Experts(s, r) = Columns("w13", ExpertsHere(s, r), Cols13(s, r))
                           \cup Columns("w2", ExpertsHere(s, r), Rows2(s, r))
<1> DEFINE here == ExpertsHere(s, r)
           n == s.experts \div 2
<1> DEFINE all == UNION {{Unit("w13", e, i) : i \in Cols13(s, r)} \cup {Unit("w2", e, i) : i \in Rows2(s, r)}
                            : e \in here}
<1>1. all = Columns("w13", here, Cols13(s, r)) \cup Columns("w2", here, Rows2(s, r))
  BY DEF Columns
<1>2. Experts(s, r) = IF FirstExpert(s, r) >= s.experts THEN {} ELSE all
  BY DEF Experts, Cols13, Rows2
<1>3. s.tp = 2 /\ s.experts \in Nat /\ s.ep \in {1, 2} /\ r \in {0, 1}
  BY TwoRanks DEF Shape, Ranks
<1>4. n \in Nat /\ 2 * n <= s.experts /\ s.experts <= 2 * n + 1
  BY <1>3
<1>5. FirstExpert(s, r) >= s.experts => here = {}
  <2>1. CASE s.ep = 1
    <3>1. FirstExpert(s, r) = 0 /\ here = 0 .. s.experts - 1
      BY <2>1 DEF FirstExpert, ExpertsHere
    <3> QED BY <1>3, <3>1
  <2>2. CASE s.ep = 2
    <3>1. FirstExpert(s, r) = r * n /\ here = r * n .. (r + 1) * n - 1
      BY <2>2 DEF FirstExpert, ExpertsHere
    <3> HIDE DEF here, n
    <3>2. CASE r = 0
      <4>1. r * n = 0 /\ (r + 1) * n = n
        BY <1>4, <3>2
      <4> QED BY <1>3, <1>4, <3>1, <4>1
    <3>3. CASE r = 1
      <4>1. r * n = n /\ (r + 1) * n = 2 * n
        BY <1>4, <3>3
      <4> QED BY <1>3, <1>4, <3>1, <4>1
    <3> QED BY <1>3, <3>2, <3>3
  <2> QED BY <1>3, <2>1, <2>2
<1>6. here = {} => all = {}
  OBVIOUS
<1> HIDE DEF all
<1>7. CASE FirstExpert(s, r) >= s.experts
  <2>1. Experts(s, r) = {} /\ all = {}
    BY <1>2, <1>5, <1>6, <1>7
  <2> QED BY <1>1, <2>1
<1>8. CASE ~(FirstExpert(s, r) >= s.experts)
  <2>1. Experts(s, r) = all
    BY <1>2, <1>8
  <2> QED BY <1>1, <2>1
<1> QED
  BY <1>7, <1>8

\* Each rank has its half of the experts, or each its half of every expert.
LEMMA ExpertsShare ==
    ASSUME NEW s \in Shape, Fits(s), AssertionsHold(s), s.moe
    PROVE  /\ Experts(s, 0) \cup Experts(s, 1) =
                Columns("w13", 0 .. s.experts - 1, 0 .. 2 * s.cols - 1)
                \cup Columns("w2", 0 .. s.experts - 1, 0 .. s.rows - 1)
           /\ Experts(s, 0) \cap Experts(s, 1) = {}
<1>1. s.tp = 2 /\ s.experts \in Nat /\ s.cols \in Nat /\ s.rows \in Nat /\ s.ep \in {1, 2}
  BY TwoRanks DEF Fits, Shape
<1>2. \A r \in {0, 1} :
        Experts(s, r) = Columns("w13", ExpertsHere(s, r), Cols13(s, r))
                        \cup Columns("w2", ExpertsHere(s, r), Rows2(s, r))
  BY ExpertsAre DEF Ranks, Fits
<1>3. 2 * s.cols \in Nat
  BY <1>1
<1> DEFINE all == 0 .. s.experts - 1
<1>4. CASE s.ep = 2
  <2>1. Even(s.experts, 2)
    BY <1>1, <1>4 DEF Fits
  <2>2. s.experts \div 2 \in Nat /\ s.experts = 2 * (s.experts \div 2)
    BY <1>1, <2>1, Halves
  <2>3. ExpertsHere(s, 0) = 0 .. s.experts \div 2 - 1
    BY <1>4, <2>2 DEF ExpertsHere
  <2>4. ExpertsHere(s, 1) = s.experts \div 2 .. s.experts - 1
    BY <1>4, <2>2 DEF ExpertsHere
  <2>5. ExpertsHere(s, 0) \cup ExpertsHere(s, 1) = all /\ ExpertsHere(s, 0) \cap ExpertsHere(s, 1) = {}
    BY <2>2, <2>3, <2>4
  <2>6. MoeTp(s) = 1 /\ \A r \in {0, 1} : MoeRank(s, r) = 0
    BY <1>1, <1>4 DEF MoeTp, MoeRank
  <2>7. \A r \in {0, 1} : Cols13(s, r) = 0 .. 2 * s.cols - 1 /\ Rows2(s, r) = 0 .. s.rows - 1
    BY <1>1, <1>3, <2>6, CutAll DEF Cols13, Rows2
  <2> HIDE DEF all
  <2>8. \A r \in {0, 1} :
            Experts(s, r) = Columns("w13", ExpertsHere(s, r), 0 .. 2 * s.cols - 1)
                            \cup Columns("w2", ExpertsHere(s, r), 0 .. s.rows - 1)
    BY <1>2, <2>7
  <2>9. Experts(s, 0) \cup Experts(s, 1) =
            Columns("w13", all, 0 .. 2 * s.cols - 1) \cup Columns("w2", all, 0 .. s.rows - 1)
    BY <2>5, <2>8 DEF Columns
  <2>10. ASSUME NEW x \in Experts(s, 0) \cap Experts(s, 1) PROVE FALSE
    <3>1. \A r \in {0, 1} : x.expert \in ExpertsHere(s, r)
      BY <2>8, UnitIs DEF Columns
    <3> QED
      BY <2>5, <3>1
  <2> QED
    BY <2>9, <2>10 DEF all
<1>5. CASE s.ep = 1
  <2>1. \A r \in {0, 1} : ExpertsHere(s, r) = all /\ MoeRank(s, r) = r
    BY <1>5 DEF ExpertsHere, MoeRank
  <2>2. MoeTp(s) = 2 /\ Even(s.rows, 2) /\ Even(2 * s.cols, 2)
    BY <1>1, <1>5 DEF MoeTp, AssertionsHold
  <2>3. /\ Cols13(s, 0) \cup Cols13(s, 1) = 0 .. 2 * s.cols - 1 /\ Cols13(s, 0) \cap Cols13(s, 1) = {}
        /\ Rows2(s, 0) \cup Rows2(s, 1) = 0 .. s.rows - 1 /\ Rows2(s, 0) \cap Rows2(s, 1) = {}
    BY <1>1, <1>3, <2>1, <2>2, CutsShare DEF Cols13, Rows2
  <2> HIDE DEF all
  <2>4. \A r \in {0, 1} :
            Experts(s, r) = Columns("w13", all, Cols13(s, r)) \cup Columns("w2", all, Rows2(s, r))
    BY <1>2, <2>1
  <2>5. Experts(s, 0) \cup Experts(s, 1) =
            Columns("w13", all, 0 .. 2 * s.cols - 1) \cup Columns("w2", all, 0 .. s.rows - 1)
    BY <2>3, <2>4 DEF Columns
  <2>6. ASSUME NEW x \in Experts(s, 0) \cap Experts(s, 1) PROVE FALSE
    <3>1. \A r \in {0, 1} : \/ x.tensor = "w13" /\ x.at \in Cols13(s, r)
                            \/ x.tensor = "w2" /\ x.at \in Rows2(s, r)
      BY <2>4, UnitIs DEF Columns
    <3> QED
      BY <2>3, <3>1
  <2> QED
    BY <2>5, <2>6 DEF all
<1> QED
  BY <1>1, <1>4, <1>5

Kept == {Unit("o_bias", 0, 0), Unit("layernorm", 0, 0)}

\* What one rank has of a layer, tensor by tensor.
LEMMA TensorsOf ==
    ASSUME NEW s \in Shape, NEW r, NEW l, ~(l > s.layers)
    PROVE  CutOf(s, r, l) =
                Units("q", Slice(r, s.heads \div s.tp, s.heads))
                \cup Units("k", Slice(r, s.kvHeads \div s.tp, s.kvHeads))
                \cup Units("v", Slice(r, s.kvHeads \div s.tp, s.kvHeads))
                \cup Units("o", Cut(s.rows, s.tp, r))
                \cup Units("gate_up", Cut(2 * s.cols, s.tp, r))
                \cup Units("down", Cut(s.rows, s.tp, r))
                \cup Kept
                \cup (IF s.moe THEN Experts(s, r) \cup {Unit("router", 0, 0)} ELSE {})
BY DEF CutOf, Attention, Mlp, Kept

\* The tensors that are cut by heads, columns and rows.
CutTensors == {"q", "k", "v", "o", "gate_up", "down"}

\* What rank r has of such a tensor.
PieceOf(s, r, t) ==
    CASE t = "q" -> Slice(r, s.heads \div s.tp, s.heads)
      [] t \in {"k", "v"} -> Slice(r, s.kvHeads \div s.tp, s.kvHeads)
      [] t \in {"o", "down"} -> Cut(s.rows, s.tp, r)
      [] t = "gate_up" -> Cut(2 * s.cols, s.tp, r)

SizeOfTensor(s, t) ==
    CASE t = "q" -> s.heads
      [] t \in {"k", "v"} -> s.kvHeads
      [] t \in {"o", "down"} -> s.rows
      [] t = "gate_up" -> 2 * s.cols

LEMMA PiecesShare ==
    ASSUME NEW s \in Shape, Fits(s), AssertionsHold(s), NEW t \in CutTensors
    PROVE  /\ PieceOf(s, 0, t) \cup PieceOf(s, 1, t) = 0 .. SizeOfTensor(s, t) - 1
           /\ PieceOf(s, 0, t) \cap PieceOf(s, 1, t) = {}
<1>1. s.tp = 2 /\ s.heads \in Nat /\ s.kvHeads \in Nat /\ s.cols \in Nat /\ s.rows \in Nat
  BY TwoRanks DEF Fits, Shape
<1>2. Even(s.heads, 2) /\ Even(s.kvHeads, 2) /\ Even(s.rows, 2) /\ Even(2 * s.cols, 2) /\ 2 * s.cols \in Nat
  BY <1>1 DEF Fits, AssertionsHold
<1>3. CASE t = "q"
  <2>1. PieceOf(s, 0, t) = Cut(s.heads, 2, 0) /\ PieceOf(s, 1, t) = Cut(s.heads, 2, 1)
        /\ SizeOfTensor(s, t) = s.heads
    BY <1>1, <1>3 DEF PieceOf, SizeOfTensor, Cut
  <2> QED
    BY <1>1, <1>2, <2>1, CutsShare
<1>4. CASE t \in {"k", "v"}
  <2>1. PieceOf(s, 0, t) = Cut(s.kvHeads, 2, 0) /\ PieceOf(s, 1, t) = Cut(s.kvHeads, 2, 1)
        /\ SizeOfTensor(s, t) = s.kvHeads
    BY <1>1, <1>4 DEF PieceOf, SizeOfTensor, Cut
  <2> QED
    BY <1>1, <1>2, <2>1, CutsShare
<1>5. CASE t \in {"o", "down"}
  <2>1. PieceOf(s, 0, t) = Cut(s.rows, 2, 0) /\ PieceOf(s, 1, t) = Cut(s.rows, 2, 1)
        /\ SizeOfTensor(s, t) = s.rows
    BY <1>1, <1>5 DEF PieceOf, SizeOfTensor
  <2> QED
    BY <1>1, <1>2, <2>1, CutsShare
<1>6. CASE t = "gate_up"
  <2>1. PieceOf(s, 0, t) = Cut(2 * s.cols, 2, 0) /\ PieceOf(s, 1, t) = Cut(2 * s.cols, 2, 1)
        /\ SizeOfTensor(s, t) = 2 * s.cols
    BY <1>1, <1>6 DEF PieceOf, SizeOfTensor
  <2> QED
    BY <1>1, <1>2, <2>1, CutsShare
<1> QED
  BY <1>3, <1>4, <1>5, <1>6 DEF CutTensors

LEMMA LayerIs ==
    ASSUME NEW s \in Shape, NEW r, NEW l, ~(l > s.layers), NEW x
    PROVE  x \in CutOf(s, r, l) <=>
                \/ \E t \in CutTensors : x \in Units(t, PieceOf(s, r, t))
                \/ x \in Kept
                \/ s.moe /\ (x \in Experts(s, r) \/ x = Unit("router", 0, 0))
<1>1. /\ PieceOf(s, r, "q") = Slice(r, s.heads \div s.tp, s.heads)
      /\ PieceOf(s, r, "k") = Slice(r, s.kvHeads \div s.tp, s.kvHeads)
      /\ PieceOf(s, r, "v") = Slice(r, s.kvHeads \div s.tp, s.kvHeads)
      /\ PieceOf(s, r, "o") = Cut(s.rows, s.tp, r)
      /\ PieceOf(s, r, "gate_up") = Cut(2 * s.cols, s.tp, r)
      /\ PieceOf(s, r, "down") = Cut(s.rows, s.tp, r)
  BY DEF PieceOf
<1>2. (\E t \in CutTensors : x \in Units(t, PieceOf(s, r, t))) <=>
        \/ x \in Units("q", PieceOf(s, r, "q")) \/ x \in Units("k", PieceOf(s, r, "k"))
        \/ x \in Units("v", PieceOf(s, r, "v")) \/ x \in Units("o", PieceOf(s, r, "o"))
        \/ x \in Units("gate_up", PieceOf(s, r, "gate_up")) \/ x \in Units("down", PieceOf(s, r, "down"))
  BY Zenon DEF CutTensors
<1>3. s.moe \in BOOLEAN
  BY DEF Shape
<1> QED
  BY <1>1, <1>2, <1>3, TensorsOf

LEMMA WholeIs ==
    ASSUME NEW s \in Shape, NEW l, ~(l > s.layers), NEW x
    PROVE  x \in Whole(s, l) <=>
                \/ \E t \in CutTensors : x \in Units(t, 0 .. SizeOfTensor(s, t) - 1)
                \/ x \in Kept
                \/ s.moe /\ (\/ x \in Columns("w13", 0 .. s.experts - 1, 0 .. 2 * s.cols - 1)
                             \/ x \in Columns("w2", 0 .. s.experts - 1, 0 .. s.rows - 1)
                             \/ x = Unit("router", 0, 0))
<1>1. /\ SizeOfTensor(s, "q") = s.heads /\ SizeOfTensor(s, "k") = s.kvHeads
      /\ SizeOfTensor(s, "v") = s.kvHeads /\ SizeOfTensor(s, "o") = s.rows
      /\ SizeOfTensor(s, "gate_up") = 2 * s.cols /\ SizeOfTensor(s, "down") = s.rows
  BY DEF SizeOfTensor
<1>2. (\E t \in CutTensors : x \in Units(t, 0 .. SizeOfTensor(s, t) - 1)) <=>
        \/ x \in Units("q", 0 .. s.heads - 1) \/ x \in Units("k", 0 .. s.kvHeads - 1)
        \/ x \in Units("v", 0 .. s.kvHeads - 1) \/ x \in Units("o", 0 .. s.rows - 1)
        \/ x \in Units("gate_up", 0 .. 2 * s.cols - 1) \/ x \in Units("down", 0 .. s.rows - 1)
  BY <1>1, Zenon DEF CutTensors
<1>3. Whole(s, l) =
         Units("q", 0 .. s.heads - 1) \cup Units("k", 0 .. s.kvHeads - 1) \cup Units("v", 0 .. s.kvHeads - 1)
         \cup Units("o", 0 .. s.rows - 1) \cup Units("gate_up", 0 .. 2 * s.cols - 1)
         \cup Units("down", 0 .. s.rows - 1) \cup Kept
         \cup (IF ~s.moe THEN {} ELSE {Unit("router", 0, 0)}
                    \cup Columns("w13", 0 .. s.experts - 1, 0 .. 2 * s.cols - 1)
                    \cup Columns("w2", 0 .. s.experts - 1, 0 .. s.rows - 1))
  BY DEF Whole, Kept, Columns
<1>4. s.moe \in BOOLEAN
  BY DEF Shape
<1> QED
  BY <1>2, <1>3, <1>4

\* The layers of a shape that divides: whole over both ranks, and
\* nothing cut is with both.
LEMMA EvenLayersAreWhole ==
    ASSUME NEW s \in Shape, Fits(s), AssertionsHold(s), NEW l \in Nat
    PROVE  /\ UNION {CutOf(s, r, l) : r \in Ranks} = Whole(s, l)
           /\ CutOf(s, 0, l) \cap CutOf(s, 1, l) \subseteq Replicated
<1>1. Ranks = {0, 1}
  BY DEF Ranks
<1>2. UNION {CutOf(s, r, l) : r \in Ranks} = CutOf(s, 0, l) \cup CutOf(s, 1, l)
  BY <1>1
<1>3. s.tp = 2 /\ s.layers \in Nat /\ s.vocab \in Nat /\ s.moe \in BOOLEAN
  BY TwoRanks DEF Fits, Shape
<1>4. CASE l > s.layers
  <2>1. \A r : CutOf(s, r, l) = Units("embed", VocabCut(s, r)) \cup {Unit("norm", 0, 0)}
    BY <1>4 DEF CutOf
  <2>2. Whole(s, l) = Units("embed", 0 .. s.vocab - 1) \cup {Unit("norm", 0, 0)}
    BY <1>4 DEF Whole
  <2>3. VocabCut(s, 0) \cup VocabCut(s, 1) = 0 .. s.vocab - 1 /\ VocabCut(s, 0) \cap VocabCut(s, 1) = {}
    BY <1>3, HalvesUp, SlicesShare DEF VocabCut
  <2>4. Units("embed", VocabCut(s, 0)) \cup Units("embed", VocabCut(s, 1)) = Units("embed", 0 .. s.vocab - 1)
    <3>1. \A t, A, B : Units(t, A) \cup Units(t, B) = Units(t, A \cup B)
      BY UnitsShare
    <3>2. Units("embed", VocabCut(s, 0)) \cup Units("embed", VocabCut(s, 1))
          = Units("embed", VocabCut(s, 0) \cup VocabCut(s, 1))
      BY <3>1
    <3> QED
      BY <2>3, <3>2, Zenon
  <2>5. CutOf(s, 0, l) \cup CutOf(s, 1, l) = Whole(s, l)
    BY <2>1, <2>2, <2>4
  <2>6. ASSUME NEW x \in CutOf(s, 0, l) \cap CutOf(s, 1, l), x \notin Replicated PROVE FALSE
    <3>1. x # Unit("norm", 0, 0)
      BY <2>6 DEF Replicated
    <3>2. x \in Units("embed", VocabCut(s, 0)) /\ x \in Units("embed", VocabCut(s, 1))
      BY <2>1, <2>6, <3>1
    <3>3. x.at \in VocabCut(s, 0) /\ x.at \in VocabCut(s, 1)
      BY <3>2, UnitIs DEF Units
    <3> QED
      BY <2>3, <3>3
  <2> QED
    BY <1>2, <2>5, <2>6
<1>5. CASE ~(l > s.layers)
  <2>1. \A r, x : x \in CutOf(s, r, l) <=>
                \/ \E t \in CutTensors : x \in Units(t, PieceOf(s, r, t))
                \/ x \in Kept
                \/ s.moe /\ (x \in Experts(s, r) \/ x = Unit("router", 0, 0))
    BY <1>5, LayerIs
  <2>2. \A x : x \in Whole(s, l) <=>
                \/ \E t \in CutTensors : x \in Units(t, 0 .. SizeOfTensor(s, t) - 1)
                \/ x \in Kept
                \/ s.moe /\ (\/ x \in Columns("w13", 0 .. s.experts - 1, 0 .. 2 * s.cols - 1)
                             \/ x \in Columns("w2", 0 .. s.experts - 1, 0 .. s.rows - 1)
                             \/ x = Unit("router", 0, 0))
    BY <1>5, WholeIs
  <2>3. \A t \in CutTensors : Units(t, PieceOf(s, 0, t)) \cup Units(t, PieceOf(s, 1, t))
                              = Units(t, 0 .. SizeOfTensor(s, t) - 1)
    <3>1. \A t, A, B : Units(t, A) \cup Units(t, B) = Units(t, A \cup B)
      BY UnitsShare
    <3>2. \A t \in CutTensors : PieceOf(s, 0, t) \cup PieceOf(s, 1, t) = 0 .. SizeOfTensor(s, t) - 1
      BY PiecesShare
    <3> SUFFICES ASSUME NEW t \in CutTensors
                 PROVE  Units(t, PieceOf(s, 0, t)) \cup Units(t, PieceOf(s, 1, t))
                        = Units(t, 0 .. SizeOfTensor(s, t) - 1)
      OBVIOUS
    <3>3. Units(t, PieceOf(s, 0, t)) \cup Units(t, PieceOf(s, 1, t))
          = Units(t, PieceOf(s, 0, t) \cup PieceOf(s, 1, t))
      BY <3>1
    <3>4. PieceOf(s, 0, t) \cup PieceOf(s, 1, t) = 0 .. SizeOfTensor(s, t) - 1
      BY <3>2
    <3> QED
      BY <3>3, <3>4, Zenon
  <2>4. s.moe => \A x : x \in Experts(s, 0) \/ x \in Experts(s, 1)
                     <=> \/ x \in Columns("w13", 0 .. s.experts - 1, 0 .. 2 * s.cols - 1)
                         \/ x \in Columns("w2", 0 .. s.experts - 1, 0 .. s.rows - 1)
    <3> SUFFICES ASSUME s.moe, NEW x
                 PROVE  x \in Experts(s, 0) \/ x \in Experts(s, 1)
                     <=> \/ x \in Columns("w13", 0 .. s.experts - 1, 0 .. 2 * s.cols - 1)
                         \/ x \in Columns("w2", 0 .. s.experts - 1, 0 .. s.rows - 1)
      OBVIOUS
    <3>1. Experts(s, 0) \cup Experts(s, 1) = Columns("w13", 0 .. s.experts - 1, 0 .. 2 * s.cols - 1)
                                             \cup Columns("w2", 0 .. s.experts - 1, 0 .. s.rows - 1)
      BY ExpertsShare
    <3> QED
      BY <3>1
  <2>5. ASSUME NEW x PROVE x \in CutOf(s, 0, l) \/ x \in CutOf(s, 1, l) <=> x \in Whole(s, l)
    <3>1. (\E t \in CutTensors : x \in Units(t, PieceOf(s, 0, t)))
          \/ (\E t \in CutTensors : x \in Units(t, PieceOf(s, 1, t)))
          <=> \E t \in CutTensors : x \in Units(t, 0 .. SizeOfTensor(s, t) - 1)
      BY <2>3
    <3> QED
      BY <1>3, <2>1, <2>2, <2>4, <3>1
  <2>6. ASSUME NEW x \in CutOf(s, 0, l) \cap CutOf(s, 1, l), x \notin Replicated PROVE FALSE
    <3>1. x \notin Kept /\ x # Unit("router", 0, 0)
      BY <2>6 DEF Replicated, Kept
    <3>2. \A r \in {0, 1} : \/ \E t \in CutTensors : x.tensor = t /\ x.at \in PieceOf(s, r, t)
                            \/ s.moe /\ x \in Experts(s, r) /\ x.tensor \in {"w13", "w2"}
      <4> SUFFICES ASSUME NEW r \in {0, 1}
                   PROVE  \/ \E t \in CutTensors : x.tensor = t /\ x.at \in PieceOf(s, r, t)
                          \/ s.moe /\ x \in Experts(s, r) /\ x.tensor \in {"w13", "w2"}
        OBVIOUS
      <4>1. \/ \E t \in CutTensors : x \in Units(t, PieceOf(s, r, t))
            \/ s.moe /\ x \in Experts(s, r)
        BY <2>1, <2>6, <3>1
      <4>2. CASE \E t \in CutTensors : x \in Units(t, PieceOf(s, r, t))
        BY <4>2, UnitIs DEF Units
      <4>3. CASE s.moe /\ x \in Experts(s, r)
        <5>1. x \in Columns("w13", ExpertsHere(s, r), Cols13(s, r)) \cup Columns("w2", ExpertsHere(s, r), Rows2(s, r))
          BY <1>1, <4>3, ExpertsAre DEF Fits
        <5>2. x.tensor \in {"w13", "w2"}
          BY <5>1, UnitIs DEF Columns
        <5> QED
          BY <4>3, <5>2
      <4> QED
        BY <4>1, <4>2, <4>3
    <3>3. CASE x.tensor \in {"w13", "w2"}
      <4>1. x.tensor \notin CutTensors
        BY <3>3 DEF CutTensors
      <4>2. s.moe /\ x \in Experts(s, 0) /\ x \in Experts(s, 1)
        BY <3>2, <4>1
      <4> QED
        BY <4>2, ExpertsShare
    <3>4. CASE x.tensor \notin {"w13", "w2"}
      <4>1. x.tensor \in CutTensors /\ x.at \in PieceOf(s, 0, x.tensor) /\ x.at \in PieceOf(s, 1, x.tensor)
        BY <3>2, <3>4
      <4>2. PieceOf(s, 0, x.tensor) \cap PieceOf(s, 1, x.tensor) = {}
        BY <4>1, PiecesShare
      <4> QED
        BY <4>1, <4>2
    <3> QED
      BY <3>3, <3>4
  <2> QED
    BY <1>2, <2>5, <2>6
<1> QED
  BY <1>4, <1>5

\* A multiple of two, its half, and what is below it.
LEMMA MultipleIs ==
    ASSUME NEW size \in Nat
    PROVE  /\ Multiple(size, 2) \in Nat /\ Multiple(size, 2) = 2 * (size \div 2)
           /\ Multiple(size, 2) <= size /\ Even(Multiple(size, 2), 2)
           /\ Multiple(size, 2) \div 2 = size \div 2
<1> DEFINE n == size \div 2
<1>1. n \in Nat /\ 2 * n <= size
  OBVIOUS
<1>2. Multiple(size, 2) = 2 * n
  BY DEF Multiple
<1> HIDE DEF n
<1>3. (2 * n) % 2 = 0 /\ (2 * n) \div 2 = n /\ 2 * n \in Nat
  BY <1>1
<1> QED
  BY <1>1, <1>2, <1>3 DEF Even, n

LEMMA MultipleOfOne == ASSUME NEW size \in Nat PROVE Multiple(size, 1) = size
BY DEF Multiple

LEMMA RoundedIs ==
    ASSUME NEW s \in Shape, s.tp = Cardinality(Ranks), s.ep \in {1, s.tp}
    PROVE  /\ Rounded(s) \in Shape /\ Fits(Rounded(s))
           /\ Rounded(s).tp = 2 /\ Rounded(s).ep = s.ep /\ Rounded(s).layers = s.layers
           /\ Rounded(s).moe = s.moe /\ Rounded(s).cols = s.cols /\ Rounded(s).rows = s.rows
           /\ Rounded(s).vocab = s.vocab
           /\ Rounded(s).heads = Multiple(s.heads, 2) /\ Rounded(s).kvHeads = Multiple(s.kvHeads, 2)
           /\ Rounded(s).experts = Multiple(s.experts, s.ep)
<1>1. s.tp = 2 /\ s.ep \in {1, 2} /\ s.heads \in Nat /\ s.kvHeads \in Nat /\ s.experts \in Nat
  BY TwoRanks DEF Shape
<1>2. /\ Multiple(s.heads, 2) \in Nat /\ Multiple(s.kvHeads, 2) \in Nat
      /\ Even(Multiple(s.heads, 2), 2) /\ Even(Multiple(s.kvHeads, 2), 2)
  BY <1>1, MultipleIs
<1>3. Multiple(s.experts, s.ep) \in Nat /\ (s.ep = 2 => Even(Multiple(s.experts, s.ep), 2))
  BY <1>1, MultipleIs, MultipleOfOne
<1>4. /\ Rounded(s) \in Shape
      /\ Rounded(s).tp = 2 /\ Rounded(s).ep = s.ep /\ Rounded(s).layers = s.layers
      /\ Rounded(s).moe = s.moe /\ Rounded(s).cols = s.cols /\ Rounded(s).rows = s.rows
      /\ Rounded(s).vocab = s.vocab
      /\ Rounded(s).heads = Multiple(s.heads, 2) /\ Rounded(s).kvHeads = Multiple(s.kvHeads, 2)
      /\ Rounded(s).experts = Multiple(s.experts, s.ep)
  BY <1>1, <1>2, <1>3 DEF Rounded, Shape
<1>5. Fits(Rounded(s))
  BY <1>1, <1>2, <1>3, <1>4, TwoRanks DEF Fits
<1> QED
  BY <1>4, <1>5

\* A chunk takes nothing from beyond the multiple.
LEMMA SliceRounded ==
    ASSUME NEW size \in Nat, NEW r \in Ranks
    PROVE  Slice(r, size \div 2, size) = Slice(r, Multiple(size, 2) \div 2, Multiple(size, 2))
<1> DEFINE n == size \div 2
<1>1. n \in Nat /\ 2 * n <= size /\ Multiple(size, 2) = 2 * n /\ Multiple(size, 2) \div 2 = n
  BY MultipleIs
<1> HIDE DEF n
<1>2. CASE r = 0
  <2>1. r * n = 0 /\ (r + 1) * n = n
    BY <1>1, <1>2
  <2> QED BY <1>1, <2>1 DEF Slice, n
<1>3. CASE r = 1
  <2>1. r * n = n /\ (r + 1) * n = 2 * n
    BY <1>1, <1>3
  <2> QED BY <1>1, <2>1 DEF Slice, n
<1> QED
  BY <1>2, <1>3 DEF Ranks

\* A rank cuts the same from a model and from the model rounded down.
LEMMA CutRounded ==
    ASSUME NEW s \in Shape, s.tp = Cardinality(Ranks), s.ep \in {1, s.tp}, NEW r \in Ranks, NEW l \in Nat
    PROVE  CutOf(s, r, l) = CutOf(Rounded(s), r, l)
<1> DEFINE t == Rounded(s)
<1>1. /\ s.tp = 2 /\ s.ep \in {1, 2} /\ s.heads \in Nat /\ s.kvHeads \in Nat /\ s.experts \in Nat
      /\ s.layers \in Nat
  BY TwoRanks DEF Shape
<1>2. /\ t \in Shape /\ t.tp = 2 /\ t.ep = s.ep /\ t.layers = s.layers /\ t.moe = s.moe /\ t.cols = s.cols
      /\ t.rows = s.rows /\ t.vocab = s.vocab
      /\ t.heads = Multiple(s.heads, 2) /\ t.kvHeads = Multiple(s.kvHeads, 2)
      /\ t.experts = Multiple(s.experts, s.ep)
  BY RoundedIs
<1> HIDE DEF t
<1>3. /\ Slice(r, s.heads \div s.tp, s.heads) = Slice(r, t.heads \div t.tp, t.heads)
      /\ Slice(r, s.kvHeads \div s.tp, s.kvHeads) = Slice(r, t.kvHeads \div t.tp, t.kvHeads)
  BY <1>1, <1>2, SliceRounded
<1>4. ExpertsHere(s, r) = ExpertsHere(t, r)
  <2>1. CASE s.ep = 1
    BY <1>1, <1>2, <2>1, MultipleOfOne DEF ExpertsHere
  <2>2. CASE s.ep = 2
    <3>1. t.experts \div 2 = s.experts \div 2
      BY <1>1, <1>2, <2>2, MultipleIs
    <3> QED BY <1>2, <2>2, <3>1 DEF ExpertsHere
  <2> QED BY <1>1, <2>1, <2>2
<1>5. Cols13(s, r) = Cols13(t, r) /\ Rows2(s, r) = Rows2(t, r)
  BY <1>1, <1>2 DEF Cols13, Rows2, MoeTp, MoeRank
<1>6. Experts(s, r) = Experts(t, r)
  <2>1. Experts(s, r) = Columns("w13", ExpertsHere(s, r), Cols13(s, r))
                        \cup Columns("w2", ExpertsHere(s, r), Rows2(s, r))
    BY ExpertsAre
  <2>2. Experts(t, r) = Columns("w13", ExpertsHere(t, r), Cols13(t, r))
                        \cup Columns("w2", ExpertsHere(t, r), Rows2(t, r))
    BY <1>1, <1>2, ExpertsAre, TwoRanks
  <2> QED BY <1>4, <1>5, <2>1, <2>2
<1>7. CASE l > s.layers
  <2>1. /\ CutOf(s, r, l) = Units("embed", VocabCut(s, r)) \cup {Unit("norm", 0, 0)}
        /\ CutOf(t, r, l) = Units("embed", VocabCut(t, r)) \cup {Unit("norm", 0, 0)}
    BY <1>2, <1>7 DEF CutOf
  <2>2. VocabCut(s, r) = VocabCut(t, r)
    BY <1>1, <1>2 DEF VocabCut
  <2> QED BY <2>1, <2>2 DEF t
<1>8. CASE ~(l > s.layers)
  <2>1. CutOf(s, r, l) =
                Units("q", Slice(r, s.heads \div s.tp, s.heads))
                \cup Units("k", Slice(r, s.kvHeads \div s.tp, s.kvHeads))
                \cup Units("v", Slice(r, s.kvHeads \div s.tp, s.kvHeads))
                \cup Units("o", Cut(s.rows, s.tp, r))
                \cup Units("gate_up", Cut(2 * s.cols, s.tp, r))
                \cup Units("down", Cut(s.rows, s.tp, r))
                \cup Kept
                \cup (IF s.moe THEN Experts(s, r) \cup {Unit("router", 0, 0)} ELSE {})
    BY <1>8, TensorsOf
  <2>2. CutOf(t, r, l) =
                Units("q", Slice(r, t.heads \div t.tp, t.heads))
                \cup Units("k", Slice(r, t.kvHeads \div t.tp, t.kvHeads))
                \cup Units("v", Slice(r, t.kvHeads \div t.tp, t.kvHeads))
                \cup Units("o", Cut(t.rows, t.tp, r))
                \cup Units("gate_up", Cut(2 * t.cols, t.tp, r))
                \cup Units("down", Cut(t.rows, t.tp, r))
                \cup Kept
                \cup (IF t.moe THEN Experts(t, r) \cup {Unit("router", 0, 0)} ELSE {})
    BY <1>2, <1>8, TensorsOf
  <2>3. /\ Cut(s.rows, s.tp, r) = Cut(t.rows, t.tp, r)
        /\ Cut(2 * s.cols, s.tp, r) = Cut(2 * t.cols, t.tp, r)
        /\ s.moe = t.moe
    BY <1>1, <1>2
  <2> QED BY <1>3, <1>6, <2>1, <2>2, <2>3 DEF t
<1> QED
  BY <1>7, <1>8

\* The layers of any shape: over both ranks the model rounded down, and nothing cut
\* is with both.
LEMMA LayersAreWhole ==
    ASSUME NEW s \in Shape, s.tp = Cardinality(Ranks), s.ep \in {1, s.tp}, AssertionsHold(s), NEW l \in Nat
    PROVE  /\ UNION {CutOf(s, r, l) : r \in Ranks} = Whole(Rounded(s), l)
           /\ CutOf(s, 0, l) \cap CutOf(s, 1, l) \subseteq Replicated
<1> DEFINE t == Rounded(s)
<1>1. /\ t \in Shape /\ Fits(t) /\ s.tp = 2 /\ t.tp = 2 /\ t.ep = s.ep /\ t.moe = s.moe
      /\ t.cols = s.cols /\ t.rows = s.rows
  BY RoundedIs, TwoRanks
<1>2. \A r \in Ranks : CutOf(s, r, l) = CutOf(t, r, l)
  BY CutRounded
<1> HIDE DEF t
<1>3. AssertionsHold(t)
  BY <1>1 DEF AssertionsHold, MoeTp
<1>4. /\ UNION {CutOf(t, r, l) : r \in Ranks} = Whole(t, l)
      /\ CutOf(t, 0, l) \cap CutOf(t, 1, l) \subseteq Replicated
  BY <1>1, <1>3, EvenLayersAreWhole
<1>5. UNION {CutOf(s, r, l) : r \in Ranks} = UNION {CutOf(t, r, l) : r \in Ranks}
  BY <1>2
<1>6. 0 \in Ranks /\ 1 \in Ranks
  BY DEF Ranks
<1> QED
  BY <1>2, <1>4, <1>5, <1>6 DEF t

-----------------------------------------------------------------------------
(* CPU sharding: what a rank writes *)

LastCut(s) == s.layers + 1     \* the global tensors

Big(s, r, a, b) == SizeOf(s, a .. b, r) >= MaxSize

\* A buffer is written with the first layer that makes it too big, or at the end.
IsPart(s, r, a, b) == (Big(s, r, a, b) \/ b = LastCut(s)) /\ \A h \in a .. b - 1 : ~Big(s, r, a, h)

\* The parts a rank writes, whichever process of it: part n is f[n] .. f[n + 1] - 1.
\* All that is known are the parts written so far, by the one that went furthest.
Chain(s, r, k, f) ==
    /\ f[0] = 1
    /\ \A n \in 0 .. k : n < f[n]
    /\ \A m, n \in 0 .. k : m < n => f[m] < f[n]
    /\ \A n \in 0 .. k - 1 : IsPart(s, r, f[n], f[n + 1] - 1)
    /\ \A l \in 1 .. f[k] - 1 : \E n \in 0 .. k - 1 : f[n] <= l /\ l < f[n + 1]

\* The part files are those parts, but some may be torn: also one before others
\* that an earlier process left.
OnDisk(r, k, f) ==
    /\ \/ DOMAIN partFiles[r] = 0 .. k - 1
       \/ DOMAIN partFiles[r] = 0 .. k /\ partFiles[r][k] = Torn /\ f[k] <= LastCut(shape)
    /\ \A n \in 0 .. k - 1 : partFiles[r][n] \in {Torn, f[n] .. f[n + 1] - 1}

\* The process that runs is somewhere on the same way.
Sharding(r, k, f) ==
    shardPc[r] \in {"layers", "finalize"} =>
        /\ indexFile[r] = "none"
        /\ partNo[r] \in 0 .. k /\ \A n \in 0 .. partNo[r] - 1 : partFiles[r][n] # Torn
        /\ nextLayer[r] \in f[partNo[r]] .. LastCut(shape) + 1
        /\ shardPc[r] = "layers" <=> nextLayer[r] <= LastCut(shape)
        /\ held[r] = f[partNo[r]] .. nextLayer[r] - 1
        /\ \A h \in f[partNo[r]] .. nextLayer[r] - 1 : ~Big(shape, r, f[partNo[r]], h)

\* The metadata and the index come after the last part.
AllWritten(r, k, f) ==
    shardPc[r] \in {"copy", "index", "done"} \/ indexFile[r] # "none" =>
        /\ f[k] = LastCut(shape) + 1 /\ DOMAIN partFiles[r] = 0 .. k - 1
        /\ \A n \in 0 .. k - 1 : partFiles[r][n] # Torn

OnItsWay(r) ==
    \E k \in 0 .. LastCut(shape) : \E f \in [0 .. k -> 1 .. LastCut(shape) + 1] :
        Chain(shape, r, k, f) /\ OnDisk(r, k, f) /\ Sharding(r, k, f) /\ AllWritten(r, k, f)

RankInv(r) ==
    /\ At(r, "idle") => partFiles[r] = << >> /\ indexFile[r] = "none"
    /\ shardPc[r] \in {"finalize", "copy", "index", "done"} => AssertionsHold(shape)
    /\ OnItsWay(r)

ShardFunctions ==
    /\ DOMAIN shardPc = Ranks /\ DOMAIN nextLayer = Ranks /\ DOMAIN held = Ranks
    /\ DOMAIN partNo = Ranks /\ DOMAIN partFiles = Ranks /\ DOMAIN indexFile = Ranks

ShardInv == shape \in Shapes /\ ShardFunctions /\ \A r \in Ranks : RankInv(r)

LEMMA ShapeSizes ==
    ASSUME shape \in Shapes
    PROVE  shape \in Shape /\ shape.layers \in Nat /\ LastCut(shape) \in Nat /\ LastCut(shape) >= 1
<1>1. shape \in Shape
  BY ShardAssumption DEF ShardAssumption
<1>2. shape.layers \in Nat
  BY <1>1 DEF Shape
<1> QED
  BY <1>1, <1>2 DEF LastCut

\* A range of layers is no torn part.
LEMMA NotTorn ==
    ASSUME NEW a \in Nat, 1 <= a, NEW b \in Int
    PROVE  a .. b # Torn
<1>1. 0 \notin a .. b
  OBVIOUS
<1> QED
  BY <1>1 DEF Torn

\* Where a part ends is settled by where it starts.
LEMMA PartsEndAlike ==
    ASSUME NEW s, NEW r, NEW a \in Nat, NEW b \in Nat, NEW c \in Nat, LastCut(s) \in Nat,
           a <= b, a <= c, b <= LastCut(s), c <= LastCut(s), IsPart(s, r, a, b), IsPart(s, r, a, c)
    PROVE  b = c
<1>1. CASE b < c
  <2>1. ~Big(s, r, a, b)
    BY <1>1 DEF IsPart
  <2> QED
    BY <1>1, <2>1 DEF IsPart
<1>2. CASE c < b
  <2>1. ~Big(s, r, a, c)
    BY <1>2 DEF IsPart
  <2> QED
    BY <1>2, <2>1 DEF IsPart
<1> QED
  BY <1>1, <1>2

\* The layers from the end of a chain up to b make a part.
CanGrow(s, r, k, f, b) ==
    /\ LastCut(s) \in Nat /\ k \in 0 .. LastCut(s) /\ f \in [0 .. k -> 1 .. LastCut(s) + 1]
    /\ Chain(s, r, k, f) /\ b \in Nat /\ f[k] <= b /\ b <= LastCut(s) /\ IsPart(s, r, f[k], b)

Longer(k, f, b) == [n \in 0 .. k + 1 |-> IF n = k + 1 THEN b + 1 ELSE f[n]]

\* One part more.
LEMMA ChainGrows ==
    ASSUME NEW s, NEW r, NEW k, NEW f, NEW b, CanGrow(s, r, k, f, b)
    PROVE  /\ k + 1 \in 0 .. LastCut(s) /\ Longer(k, f, b) \in [0 .. k + 1 -> 1 .. LastCut(s) + 1]
           /\ Chain(s, r, k + 1, Longer(k, f, b))
<1>0. /\ LastCut(s) \in Nat /\ k \in 0 .. LastCut(s) /\ f \in [0 .. k -> 1 .. LastCut(s) + 1]
      /\ Chain(s, r, k, f) /\ b \in Nat /\ f[k] <= b /\ b <= LastCut(s) /\ IsPart(s, r, f[k], b)
  BY DEF CanGrow
<1> USE <1>0
<1> DEFINE g == Longer(k, f, b)
<1>1. k \in Nat /\ (\A n \in 0 .. k : f[n] \in Nat /\ 1 <= f[n] /\ f[n] <= LastCut(s) + 1)
  OBVIOUS
<1>2. f[0] = 1 /\ (\A n \in 0 .. k : n < f[n]) /\ (\A m, n \in 0 .. k : m < n => f[m] < f[n])
  BY DEF Chain
<1>3. \A n \in 0 .. k : g[n] = f[n]
  BY <1>1 DEF Longer
<1>4. g[k + 1] = b + 1
  BY <1>1 DEF Longer
<1>5. k + 1 \in 0 .. LastCut(s)
  BY <1>1, <1>2
<1>6. g \in [0 .. k + 1 -> 1 .. LastCut(s) + 1]
  BY <1>1 DEF Longer
<1> HIDE DEF g
<1>7. g[0] = 1
  BY <1>1, <1>2, <1>3
<1>8. \A n \in 0 .. k + 1 : n < g[n]
  <2> SUFFICES ASSUME NEW n \in 0 .. k + 1 PROVE n < g[n]
    OBVIOUS
  <2>1. CASE n = k + 1
    BY <1>1, <1>2, <1>4, <2>1
  <2>2. CASE n \in 0 .. k
    BY <1>2, <1>3, <2>2
  <2> QED
    BY <1>1, <2>1, <2>2
<1>9. \A m, n \in 0 .. k + 1 : m < n => g[m] < g[n]
  <2> SUFFICES ASSUME NEW m \in 0 .. k + 1, NEW n \in 0 .. k + 1, m < n PROVE g[m] < g[n]
    OBVIOUS
  <2>1. m \in 0 .. k /\ g[m] = f[m]
    BY <1>1, <1>3
  <2>2. CASE n = k + 1
    <3>1. f[m] <= f[k]
      BY <1>1, <1>2, <2>1
    <3> QED
      BY <1>1, <1>4, <2>1, <2>2, <3>1
  <2>3. CASE n \in 0 .. k
    BY <1>2, <1>3, <2>1, <2>3
  <2> QED
    BY <1>1, <2>2, <2>3
<1>10. \A n \in 0 .. (k + 1) - 1 : IsPart(s, r, g[n], g[n + 1] - 1)
  <2> SUFFICES ASSUME NEW n \in 0 .. k PROVE IsPart(s, r, g[n], g[n + 1] - 1)
    BY <1>1
  <2>1. CASE n = k
    <3>1. k \in 0 .. k /\ (b + 1) - 1 = b
      BY <1>1
    <3>2. g[k] = f[k] /\ g[k + 1] - 1 = b
      BY <1>3, <1>4, <3>1
    <3>3. IsPart(s, r, g[k], g[k + 1] - 1)
      BY <3>2
    <3> QED
      BY <2>1, <3>3, Zenon
  <2>2. CASE n \in 0 .. k - 1
    <3>1. n + 1 \in 0 .. k
      BY <1>1, <2>2
    <3>2. g[n] = f[n] /\ g[n + 1] = f[n + 1]
      BY <1>3, <3>1
    <3>3. IsPart(s, r, f[n], f[n + 1] - 1)
      BY <2>2 DEF Chain
    <3> QED
      BY <3>2, <3>3
  <2> QED
    BY <1>1, <2>1, <2>2
<1>11. \A l \in 1 .. g[k + 1] - 1 : \E n \in 0 .. (k + 1) - 1 : g[n] <= l /\ l < g[n + 1]
  <2>0. (k + 1) - 1 = k /\ g[k + 1] - 1 = b
    BY <1>1, <1>4
  <2> SUFFICES ASSUME NEW l \in 1 .. b PROVE \E n \in 0 .. k : g[n] <= l /\ l < g[n + 1]
    BY <2>0, Zenon
  <2>1. CASE f[k] <= l
    <3>1. k \in 0 .. k /\ g[k] <= l /\ l < g[k + 1]
      BY <1>1, <1>3, <1>4, <2>1
    <3> QED
      BY <3>1
  <2>2. CASE l < f[k]
    <3>1. l \in 1 .. f[k] - 1
      BY <1>1, <2>2
    <3>2. \E n \in 0 .. k - 1 : f[n] <= l /\ l < f[n + 1]
      BY <3>1 DEF Chain
    <3> PICK n \in 0 .. k - 1 : f[n] <= l /\ l < f[n + 1]
      BY <3>2
    <3>3. n \in 0 .. k /\ n + 1 \in 0 .. k
      BY <1>1
    <3> QED
      BY <1>3, <3>2, <3>3
  <2> QED
    BY <1>1, <2>1, <2>2
<1>12. Chain(s, r, k + 1, g)
  BY <1>7, <1>8, <1>9, <1>10, <1>11 DEF Chain
<1> QED
  BY <1>5, <1>6, <1>12 DEF g

\* The process writes layers f[p] .. b as part p, which may be there from before.
PartComes(r, k, f, p, b) ==
    /\ k \in 0 .. LastCut(shape) /\ f \in [0 .. k -> 1 .. LastCut(shape) + 1]
    /\ Chain(shape, r, k, f) /\ OnDisk(r, k, f)
    /\ p \in 0 .. k /\ \A n \in 0 .. p - 1 : partFiles[r][n] # Torn
    /\ b \in Nat /\ f[p] <= b /\ b <= LastCut(shape) /\ IsPart(shape, r, f[p], b)
    /\ partFiles' = [partFiles EXCEPT ![r] = WithPart(@, p, f[p] .. b)]

PartIsThere(r, p, b) ==
    \E j \in 0 .. LastCut(shape) : \E g \in [0 .. j -> 1 .. LastCut(shape) + 1] :
        /\ Chain(shape, r, j, g) /\ OnDisk(r, j, g)'
        /\ p + 1 \in 0 .. j /\ g[p + 1] = b + 1
        /\ \A n \in 0 .. p : partFiles'[r][n] # Torn
        /\ b = LastCut(shape) => j = p + 1 /\ DOMAIN partFiles'[r] = 0 .. j - 1

LEMMA PartIsWritten ==
    ASSUME shape \in Shapes, DOMAIN partFiles = Ranks, shape' = shape,
           NEW r \in Ranks, NEW k, NEW f, NEW p, NEW b, PartComes(r, k, f, p, b)
    PROVE  PartIsThere(r, p, b)
<1>0. /\ k \in 0 .. LastCut(shape) /\ f \in [0 .. k -> 1 .. LastCut(shape) + 1]
      /\ Chain(shape, r, k, f) /\ OnDisk(r, k, f)
      /\ p \in 0 .. k /\ \A n \in 0 .. p - 1 : partFiles[r][n] # Torn
      /\ b \in Nat /\ f[p] <= b /\ b <= LastCut(shape) /\ IsPart(shape, r, f[p], b)
      /\ partFiles' = [partFiles EXCEPT ![r] = WithPart(@, p, f[p] .. b)]
  BY DEF PartComes
<1> USE <1>0
<1> DEFINE last == LastCut(shape)
<1>1. last \in Nat /\ LastCut(shape') = last
  BY ShapeSizes
<1> HIDE DEF last
<1>2. k \in Nat /\ k <= last /\ p \in Nat /\ p <= k
      /\ \A n \in 0 .. k : f[n] \in Nat /\ 1 <= f[n] /\ f[n] <= last + 1
  BY <1>1 DEF last
<1>3. \A m, n \in 0 .. k : m < n => f[m] < f[n]
  BY DEF Chain
<1>4. partFiles'[r] = [n \in DOMAIN partFiles[r] \cup {p} |-> IF n = p THEN f[p] .. b ELSE partFiles[r][n]]
  BY DEF WithPart
<1>5. \/ DOMAIN partFiles[r] = 0 .. k - 1
      \/ DOMAIN partFiles[r] = 0 .. k /\ partFiles[r][k] = Torn /\ f[k] <= last
  BY DEF OnDisk, last
<1>6. \A n \in 0 .. k - 1 : partFiles[r][n] \in {Torn, f[n] .. f[n + 1] - 1}
  BY DEF OnDisk
<1>7. f[p] .. b # Torn
  BY <1>2, NotTorn
<1>8. DOMAIN partFiles'[r] = DOMAIN partFiles[r] \cup {p}
  BY <1>4
<1>9. partFiles'[r][p] = f[p] .. b
  BY <1>4
<1>10. \A n \in DOMAIN partFiles[r] : n # p => partFiles'[r][n] = partFiles[r][n]
  BY <1>4
<1>11. \A n \in 0 .. p : partFiles'[r][n] # Torn
  <2> SUFFICES ASSUME NEW n \in 0 .. p, n # p PROVE partFiles'[r][n] # Torn
    BY <1>7, <1>9
  <2>1. n \in 0 .. p - 1 /\ n \in 0 .. k - 1
    BY <1>2
  <2>2. n \in DOMAIN partFiles[r]
    BY <1>2, <1>5, <2>1
  <2> QED
    BY <1>10, <2>1, <2>2
<1>12. CASE p = k
  <2> DEFINE g == Longer(k, f, b)
  <2>0. (k + 1) - 1 = k /\ (0 .. k - 1) \cup {k} = 0 .. k /\ (0 .. k) \cup {k} = 0 .. k
    BY <1>2
  <2>1. k + 1 \in 0 .. last /\ g \in [0 .. k + 1 -> 1 .. last + 1] /\ Chain(shape, r, k + 1, g)
    <3>1. k + 1 \in 0 .. LastCut(shape) /\ g \in [0 .. k + 1 -> 1 .. LastCut(shape) + 1]
          /\ Chain(shape, r, k + 1, g)
      <4>1. f[k] <= b /\ IsPart(shape, r, f[k], b) /\ b \in Nat /\ b <= LastCut(shape)
        BY <1>12
      <4>2. LastCut(shape) \in Nat
        BY <1>1 DEF last
      <4>3. k \in 0 .. LastCut(shape) /\ f \in [0 .. k -> 1 .. LastCut(shape) + 1] /\ Chain(shape, r, k, f)
        OBVIOUS
      <4>4. CanGrow(shape, r, k, f, b)
        BY <4>1, <4>2, <4>3, Zenon DEF CanGrow
      <4> QED
        BY <4>4, ChainGrows, Zenon
    <3> QED
      BY <3>1, Zenon DEF last
  <2>2. g[k + 1] = b + 1 /\ \A n \in 0 .. k : g[n] = f[n]
    BY <1>2 DEF Longer
  <2> HIDE DEF g
  <2>3. DOMAIN partFiles'[r] = 0 .. (k + 1) - 1
    <3>1. DOMAIN partFiles'[r] = 0 .. k
      BY <1>5, <1>8, <1>12, <2>0, Zenon
    <3> QED
      BY <2>0, <3>1, Zenon
  <2>4. \A n \in 0 .. (k + 1) - 1 : partFiles'[r][n] \in {Torn, g[n] .. g[n + 1] - 1}
    <3> SUFFICES ASSUME NEW n \in 0 .. k PROVE partFiles'[r][n] \in {Torn, g[n] .. g[n + 1] - 1}
      <4>1. (k + 1) - 1 = k
        BY <1>2
      <4> QED
        BY <4>1, Zenon
    <3>1. CASE n = k
      <4>1. g[k] = f[k] /\ g[k + 1] - 1 = b
        BY <1>2, <2>2
      <4>2. partFiles'[r][k] = f[k] .. b
        BY <1>9, <1>12, Zenon
      <4> QED
        BY <3>1, <4>1, <4>2
    <3>2. CASE n \in 0 .. k - 1
      <4>1. n + 1 \in 0 .. k /\ n \in 0 .. k /\ n # p /\ n \in DOMAIN partFiles[r]
        BY <1>2, <1>5, <1>12, <3>2
      <4>2. g[n] = f[n] /\ g[n + 1] = f[n + 1] /\ partFiles'[r][n] = partFiles[r][n]
        BY <1>10, <2>2, <4>1
      <4>3. partFiles[r][n] \in {Torn, f[n] .. f[n + 1] - 1}
        BY <1>6, <3>2
      <4> QED
        BY <4>2, <4>3
    <3> QED
      BY <1>2, <3>1, <3>2
  <2>5. OnDisk(r, k + 1, g)'
    BY <2>3, <2>4 DEF OnDisk
  <2>6. p + 1 \in 0 .. k + 1 /\ g[p + 1] = b + 1
    BY <1>2, <1>12, <2>2
  <2> QED
    BY <1>11, <1>12, <2>1, <2>3, <2>5, <2>6 DEF last, PartIsThere
<1>13. CASE p < k
  <2>1. p \in 0 .. k - 1 /\ p + 1 \in 0 .. k /\ p \in DOMAIN partFiles[r]
    BY <1>2, <1>5, <1>13
  <2>2. f[p] < f[p + 1] /\ f[p + 1] - 1 \in Nat /\ f[p] <= f[p + 1] - 1 /\ f[p + 1] - 1 <= last
    <3>1. p \in 0 .. k /\ p < p + 1
      BY <1>2
    <3>2. f[p] < f[p + 1]
      BY <1>3, <2>1, <3>1
    <3>3. f[p] \in Nat /\ f[p + 1] \in Nat /\ f[p + 1] <= last + 1
      BY <1>2, <2>1, <3>1
    <3> QED
      BY <1>1, <3>2, <3>3
  <2>3. IsPart(shape, r, f[p], f[p + 1] - 1)
    BY <2>1 DEF Chain
  <2>4. b = f[p + 1] - 1
    BY <1>1, <1>2, <2>2, <2>3, PartsEndAlike DEF last
  <2>5. DOMAIN partFiles'[r] = DOMAIN partFiles[r]
    BY <1>8, <2>1
  <2>6. \A n \in 0 .. k - 1 : partFiles'[r][n] \in {Torn, f[n] .. f[n + 1] - 1}
    <3> SUFFICES ASSUME NEW n \in 0 .. k - 1 PROVE partFiles'[r][n] \in {Torn, f[n] .. f[n + 1] - 1}
      OBVIOUS
    <3>1. CASE n = p
      BY <1>9, <2>4, <3>1
    <3>2. CASE n # p
      <4>1. n \in DOMAIN partFiles[r]
        BY <1>2, <1>5
      <4> QED
        BY <1>6, <1>10, <3>2, <4>1
    <3> QED
      BY <3>1, <3>2
  <2>7. DOMAIN partFiles[r] = 0 .. k => partFiles'[r][k] = partFiles[r][k]
    <3>1. k # p /\ k \in 0 .. k
      BY <1>2, <1>13
    <3> QED
      BY <1>10, <3>1
  <2>8. OnDisk(r, k, f)'
    <3>1. \/ DOMAIN partFiles'[r] = 0 .. k - 1
          \/ DOMAIN partFiles'[r] = 0 .. k /\ partFiles'[r][k] = Torn /\ f[k] <= LastCut(shape')
      BY <1>1, <1>5, <2>5, <2>7
    <3> QED
      BY <2>6, <3>1 DEF OnDisk
  <2>9. p + 1 \in 0 .. k /\ f[p + 1] = b + 1
    BY <1>2, <2>1, <2>4
  <2>10. b = last => k = p + 1 /\ DOMAIN partFiles'[r] = 0 .. k - 1
    <3> SUFFICES ASSUME b = last PROVE k = p + 1 /\ DOMAIN partFiles'[r] = 0 .. k - 1
      OBVIOUS
    <3>1. k = p + 1
      <4>1. f[p + 1] = last + 1 /\ k \in 0 .. k
        BY <1>1, <1>2, <2>9
      <4>2. ~(p + 1 < k)
        BY <1>1, <1>2, <1>3, <2>1, <4>1
      <4> QED
        BY <1>2, <1>13, <4>2
    <3>2. ~(f[k] <= last)
      BY <1>1, <2>9, <3>1
    <3> QED
      BY <1>5, <2>5, <3>1, <3>2
  <2> QED
    BY <1>11, <2>8, <2>9, <2>10 DEF last, PartIsThere
<1>14. p = k \/ p < k
  BY <1>2
<1> QED
  BY <1>12, <1>13, <1>14, Zenon

\* What another rank does touches nothing of a rank.
LEMMA OthersStay ==
    ASSUME NEW q, RankInv(q), shape' = shape, shardPc'[q] = shardPc[q], nextLayer'[q] = nextLayer[q],
           held'[q] = held[q], partNo'[q] = partNo[q], partFiles'[q] = partFiles[q], indexFile'[q] = indexFile[q]
    PROVE  RankInv(q)'
<1>1. OnItsWay(q)'
  <2>0. PICK k \in 0 .. LastCut(shape) : \E f \in [0 .. k -> 1 .. LastCut(shape) + 1] :
            Chain(shape, q, k, f) /\ OnDisk(q, k, f) /\ Sharding(q, k, f) /\ AllWritten(q, k, f)
    BY DEF RankInv, OnItsWay
  <2>1. PICK f \in [0 .. k -> 1 .. LastCut(shape) + 1] :
            Chain(shape, q, k, f) /\ OnDisk(q, k, f) /\ Sharding(q, k, f) /\ AllWritten(q, k, f)
    BY <2>0
  <2>2. OnDisk(q, k, f)'
    BY <2>1 DEF OnDisk
  <2>3. Sharding(q, k, f)'
    BY <2>1 DEF Sharding
  <2>4. AllWritten(q, k, f)'
    BY <2>1 DEF AllWritten
  <2> QED
    BY <2>1, <2>2, <2>3, <2>4 DEF OnItsWay
<1> QED
  BY <1>1 DEF RankInv, At

\* A process that does not run leaves its files behind.
LEMMA FilesStay ==
    ASSUME NEW r, RankInv(r), shape' = shape, shardPc'[r] \in {"start", "skipped", "failed", "died"},
           partFiles'[r] = partFiles[r], indexFile'[r] = indexFile[r]
    PROVE  RankInv(r)'
<1>1. OnItsWay(r)'
  <2>0. PICK k \in 0 .. LastCut(shape) : \E f \in [0 .. k -> 1 .. LastCut(shape) + 1] :
            Chain(shape, r, k, f) /\ OnDisk(r, k, f) /\ Sharding(r, k, f) /\ AllWritten(r, k, f)
    BY DEF RankInv, OnItsWay
  <2>1. PICK f \in [0 .. k -> 1 .. LastCut(shape) + 1] :
            Chain(shape, r, k, f) /\ OnDisk(r, k, f) /\ Sharding(r, k, f) /\ AllWritten(r, k, f)
    BY <2>0
  <2>2. OnDisk(r, k, f)'
    BY <2>1 DEF OnDisk
  <2>3. Sharding(r, k, f)'
    BY DEF Sharding
  <2>4. AllWritten(r, k, f)'
    BY <2>1 DEF AllWritten
  <2> QED
    BY <2>1, <2>2, <2>3, <2>4 DEF OnItsWay
<1> QED
  BY <1>1 DEF RankInv, At

\* After the parts only metadata and the index are written.
LEMMA PartsStay ==
    ASSUME NEW r, RankInv(r), shape' = shape, shardPc[r] \in {"copy", "index"},
           shardPc'[r] \in {"copy", "index", "done", "died"}, partFiles'[r] = partFiles[r]
    PROVE  RankInv(r)'
<1>1. OnItsWay(r)'
  <2>0. PICK k \in 0 .. LastCut(shape) : \E f \in [0 .. k -> 1 .. LastCut(shape) + 1] :
            Chain(shape, r, k, f) /\ OnDisk(r, k, f) /\ Sharding(r, k, f) /\ AllWritten(r, k, f)
    BY DEF RankInv, OnItsWay
  <2>1. PICK f \in [0 .. k -> 1 .. LastCut(shape) + 1] :
            Chain(shape, r, k, f) /\ OnDisk(r, k, f) /\ Sharding(r, k, f) /\ AllWritten(r, k, f)
    BY <2>0
  <2>2. OnDisk(r, k, f)'
    BY <2>1 DEF OnDisk
  <2>3. Sharding(r, k, f)'
    BY DEF Sharding
  <2>4. AllWritten(r, k, f)'
    BY <2>1 DEF AllWritten
  <2> QED
    BY <2>1, <2>2, <2>3, <2>4 DEF OnItsWay
<1> QED
  BY <1>1 DEF RankInv, At

\* Nothing is written yet.
LEMMA FirstChain ==
    ASSUME NEW s \in Shapes, NEW r
    PROVE  /\ LastCut(s) \in Nat /\ 0 \in 0 .. LastCut(s)
           /\ \E f \in [0 .. 0 -> 1 .. LastCut(s) + 1] : Chain(s, r, 0, f)
<1> DEFINE f == [n \in 0 .. 0 |-> 1]
<1>1. s.layers \in Nat /\ LastCut(s) \in Nat /\ LastCut(s) >= 1
  <2>1. s \in Shape
    BY ShardAssumption DEF ShardAssumption
  <2>2. s.layers \in Nat
    BY <2>1 DEF Shape
  <2> QED
    BY <2>2 DEF LastCut
<1>2. 0 \in 0 .. LastCut(s) /\ f \in [0 .. 0 -> 1 .. LastCut(s) + 1]
  BY <1>1
<1>3. f[0] = 1 /\ \A n \in 0 .. 0 : n = 0
  OBVIOUS
<1> HIDE DEF f
<1>4. Chain(s, r, 0, f)
  BY <1>3 DEF Chain
<1> QED
  BY <1>1, <1>2, <1>4

LEMMA NoParts ==
    ASSUME NEW files, files = << >> PROVE DOMAIN files = 0 .. 0 - 1
<1>1. DOMAIN << >> = {}
  OBVIOUS
<1>2. DOMAIN files = {}
  BY <1>1, Zenon
<1> QED
  BY <1>2

LEMMA NothingThere ==
    ASSUME NEW r, shape' \in Shapes, partFiles'[r] = << >>, indexFile'[r] = "none",
           shardPc'[r] \in {"idle", "start"}
    PROVE  RankInv(r)'
<1>1. LastCut(shape') \in Nat /\ 0 \in 0 .. LastCut(shape')
      /\ \E f \in [0 .. 0 -> 1 .. LastCut(shape') + 1] : Chain(shape', r, 0, f)
  BY FirstChain
<1>2. PICK f \in [0 .. 0 -> 1 .. LastCut(shape') + 1] : Chain(shape', r, 0, f)
  BY <1>1
<1>3. DOMAIN partFiles'[r] = 0 .. 0 - 1
  BY NoParts
<1>4. OnDisk(r, 0, f)' /\ Sharding(r, 0, f)' /\ AllWritten(r, 0, f)'
  BY <1>3 DEF OnDisk, Sharding, AllWritten
<1>5. OnItsWay(r)'
  BY <1>1, <1>2, <1>4 DEF OnItsWay
<1> QED
  BY <1>5 DEF RankInv, At

\* The process was writing when it died.
LEMMA TornStays ==
    ASSUME NEW r \in Ranks, RankInv(r), shape \in Shapes, DOMAIN partFiles = Ranks, shape' = shape,
           shardPc[r] = "layers" \/ (shardPc[r] = "finalize" /\ held[r] # {}), shardPc'[r] = "died",
           partFiles' = [partFiles EXCEPT ![r] = WithPart(@, partNo[r], Torn)], indexFile'[r] = indexFile[r]
    PROVE  RankInv(r)'
<1> DEFINE last == LastCut(shape)
<1>1. last \in Nat /\ LastCut(shape') = last
  BY ShapeSizes
<1>2. PICK k \in 0 .. LastCut(shape) : \E f \in [0 .. k -> 1 .. LastCut(shape) + 1] :
          Chain(shape, r, k, f) /\ OnDisk(r, k, f) /\ Sharding(r, k, f) /\ AllWritten(r, k, f)
  BY DEF RankInv, OnItsWay
<1>3. PICK f \in [0 .. k -> 1 .. LastCut(shape) + 1] :
          Chain(shape, r, k, f) /\ OnDisk(r, k, f) /\ Sharding(r, k, f) /\ AllWritten(r, k, f)
  BY <1>2
<1> HIDE DEF last
<1> DEFINE p == partNo[r]
<1>4. k \in Nat /\ \A n \in 0 .. k : f[n] \in Nat /\ 1 <= f[n] /\ f[n] <= last + 1
  BY <1>1, <1>3 DEF last
<1>5. /\ indexFile[r] = "none" /\ p \in 0 .. k
      /\ nextLayer[r] \in f[p] .. last + 1
      /\ shardPc[r] = "layers" <=> nextLayer[r] <= last
      /\ held[r] = f[p] .. nextLayer[r] - 1
  BY <1>3 DEF Sharding, last
<1> HIDE DEF p
<1>6. f[p] \in Nat /\ f[p] <= last
  <2>1. f[p] \in Nat /\ nextLayer[r] \in Int /\ f[p] <= nextLayer[r] /\ nextLayer[r] <= last + 1
    BY <1>1, <1>4, <1>5
  <2>2. CASE shardPc[r] = "layers"
    BY <1>1, <1>5, <2>1, <2>2
  <2>3. CASE held[r] # {}
    <3>1. f[p] <= nextLayer[r] - 1
      BY <1>5, <2>1, <2>3
    <3> QED
      BY <1>1, <2>1, <3>1
  <2> QED
    BY <2>2, <2>3
<1>7. partFiles'[r] = [n \in DOMAIN partFiles[r] \cup {p} |-> IF n = p THEN Torn ELSE partFiles[r][n]]
  BY DEF WithPart, p
<1>8. DOMAIN partFiles'[r] = DOMAIN partFiles[r] \cup {p}
  BY <1>7
<1>9. \A n \in DOMAIN partFiles[r] : partFiles'[r][n] \in {Torn, partFiles[r][n]}
  BY <1>7
<1>10. partFiles'[r][p] = Torn
  BY <1>7
<1>11. \/ DOMAIN partFiles[r] = 0 .. k - 1
       \/ DOMAIN partFiles[r] = 0 .. k /\ partFiles[r][k] = Torn /\ f[k] <= last
  BY <1>3 DEF OnDisk, last
<1>12. \A n \in 0 .. k - 1 : n \in DOMAIN partFiles[r]
  BY <1>4, <1>11
<1>13. \A n \in 0 .. k - 1 : partFiles'[r][n] \in {Torn, f[n] .. f[n + 1] - 1}
  <2>1. \A n \in 0 .. k - 1 : partFiles[r][n] \in {Torn, f[n] .. f[n + 1] - 1}
    BY <1>3 DEF OnDisk
  <2> QED
    BY <1>9, <1>12, <2>1
<1>14. \/ DOMAIN partFiles'[r] = 0 .. k - 1
       \/ DOMAIN partFiles'[r] = 0 .. k /\ partFiles'[r][k] = Torn /\ f[k] <= last
  <2>0. (0 .. k - 1) \cup {k} = 0 .. k /\ (0 .. k) \cup {k} = 0 .. k /\ k \in 0 .. k
    BY <1>4
  <2>1. CASE p = k
    <3>1. DOMAIN partFiles'[r] = 0 .. k
      BY <1>8, <1>11, <2>0, <2>1, Zenon
    <3> QED
      BY <1>6, <1>10, <2>1, <3>1
  <2>2. CASE p # k
    <3>1. p \in 0 .. k - 1
      BY <1>4, <1>5, <2>2
    <3>2. DOMAIN partFiles'[r] = DOMAIN partFiles[r]
      BY <1>8, <1>12, <3>1
    <3>3. k \in DOMAIN partFiles[r] /\ partFiles[r][k] = Torn => partFiles'[r][k] = Torn
      BY <1>9
    <3> QED
      BY <1>11, <2>0, <3>2, <3>3
  <2> QED
    BY <2>1, <2>2
<1>15. OnDisk(r, k, f)'
  BY <1>1, <1>13, <1>14 DEF OnDisk
<1>16. Sharding(r, k, f)' /\ AllWritten(r, k, f)'
  BY <1>5 DEF Sharding, AllWritten
<1>17. OnItsWay(r)'
  BY <1>3, <1>15, <1>16 DEF OnItsWay
<1> QED
  BY <1>17 DEF RankInv, At

\* The buffer grows, or is written with its last layer.
LEMMA LayerIsAdded ==
    ASSUME ShardInv, NEW r \in Ranks, AddLayer(r), AssertionsHold(shape)
    PROVE  RankInv(r)'
<1> DEFINE last == LastCut(shape)
<1>1. shape \in Shapes /\ ShardFunctions /\ RankInv(r) /\ shape' = shape
      /\ shardPc[r] = "layers" /\ indexFile' = indexFile
  BY DEF ShardInv, AddLayer, At
<1>2. last \in Nat /\ shape.layers \in Nat /\ last = shape.layers + 1 /\ LastCut(shape') = last
  BY <1>1, ShapeSizes DEF LastCut
<1>3. PICK k \in 0 .. LastCut(shape) : \E f \in [0 .. k -> 1 .. LastCut(shape) + 1] :
          Chain(shape, r, k, f) /\ OnDisk(r, k, f) /\ Sharding(r, k, f) /\ AllWritten(r, k, f)
  BY <1>1 DEF RankInv, OnItsWay
<1>4. PICK f \in [0 .. k -> 1 .. LastCut(shape) + 1] :
          Chain(shape, r, k, f) /\ OnDisk(r, k, f) /\ Sharding(r, k, f) /\ AllWritten(r, k, f)
  BY <1>3
<1> HIDE DEF last
<1>p. PICK p : p = partNo[r]
  OBVIOUS
<1>n. PICK nl : nl = nextLayer[r]
  OBVIOUS
<1>5. k \in Nat /\ \A n \in 0 .. k : f[n] \in Nat /\ 1 <= f[n] /\ f[n] <= last + 1
  BY <1>2, <1>4 DEF last
<1>6. /\ indexFile[r] = "none" /\ p \in 0 .. k /\ \A n \in 0 .. p - 1 : partFiles[r][n] # Torn
      /\ nl \in f[p] .. last + 1 /\ nl <= last /\ held[r] = f[p] .. nl - 1
      /\ \A h \in f[p] .. nl - 1 : ~Big(shape, r, f[p], h)
  BY <1>1, <1>4, <1>p, <1>n DEF Sharding, last
<1>7. f[p] \in Nat /\ 1 <= f[p] /\ f[p] <= nl /\ nl \in Nat
  BY <1>2, <1>5, <1>6
<1>8. held[r] \cup {nl} = f[p] .. nl
  BY <1>6, <1>7
<1>9. /\ IF SizeOf(shape, held[r] \cup {nl}, r) >= MaxSize THEN Flush(r, held[r] \cup {nl})
         ELSE held' = [held EXCEPT ![r] = held[r] \cup {nl}] /\ UNCHANGED <<partNo, partFiles>>
      /\ nextLayer' = [nextLayer EXCEPT ![r] = @ + 1]
      /\ shardPc' = [shardPc EXCEPT ![r] = IF nl > shape.layers THEN "finalize" ELSE "layers"]
  BY <1>n DEF AddLayer, Goto
<1>10. nextLayer'[r] = nl + 1 /\ shardPc'[r] = IF nl > shape.layers THEN "finalize" ELSE "layers"
  BY <1>1, <1>9, <1>n DEF ShardFunctions
<1>11. nl + 1 - 1 = nl /\ nl + 1 <= last + 1 /\ (shardPc'[r] = "layers" <=> nl + 1 <= last)
       /\ shardPc'[r] \in {"layers", "finalize"}
  BY <1>2, <1>6, <1>7, <1>10
<1>12. AllWritten(r, k, f)' /\ \A j, g : AllWritten(r, j, g)'
  BY <1>1, <1>6, <1>11 DEF AllWritten
<1>13. CASE SizeOf(shape, held[r] \cup {nl}, r) >= MaxSize
  <2>1. Big(shape, r, f[p], nl)
    BY <1>8, <1>13 DEF Big
  <2>2. Flush(r, f[p] .. nl)
    BY <1>8, <1>9, <1>13
  <2>3. f[p] .. nl # {}
    BY <1>7
  <2>4. held' = [held EXCEPT ![r] = {}] /\ partFiles' = [partFiles EXCEPT ![r] = WithPart(@, p, f[p] .. nl)]
        /\ partNo' = [partNo EXCEPT ![r] = @ + 1]
    BY <1>p, <2>2, <2>3 DEF Flush
  <2>5. held'[r] = {} /\ partNo'[r] = p + 1
    BY <1>1, <1>p, <2>4 DEF ShardFunctions
  <2>6. IsPart(shape, r, f[p], nl)
    BY <1>6, <2>1 DEF IsPart
  <2>7. PICK j \in 0 .. LastCut(shape) : \E g \in [0 .. j -> 1 .. LastCut(shape) + 1] :
                /\ Chain(shape, r, j, g) /\ OnDisk(r, j, g)'
                /\ p + 1 \in 0 .. j /\ g[p + 1] = nl + 1
                /\ \A n \in 0 .. p : partFiles'[r][n] # Torn
    <3>1. nl <= LastCut(shape) /\ DOMAIN partFiles = Ranks
      BY <1>1, <1>6 DEF last, ShardFunctions
    <3>2. shape \in Shapes /\ shape' = shape /\ Chain(shape, r, k, f) /\ OnDisk(r, k, f)
      BY <1>1, <1>4
    <3>3. p \in 0 .. k /\ (\A n \in 0 .. p - 1 : partFiles[r][n] # Torn) /\ nl \in Nat /\ f[p] <= nl
      BY <1>6, <1>7
    <3>4. partFiles' = [partFiles EXCEPT ![r] = WithPart(@, p, f[p] .. nl)]
      BY <2>4
    <3>5. PartComes(r, k, f, p, nl)
      BY <2>6, <3>1, <3>2, <3>3, <3>4 DEF PartComes
    <3>6. PartIsThere(r, p, nl)
      BY <3>1, <3>2, <3>5, PartIsWritten, Zenon
    <3> QED
      BY <3>6 DEF PartIsThere
  <2>8. PICK g \in [0 .. j -> 1 .. LastCut(shape) + 1] :
                /\ Chain(shape, r, j, g) /\ OnDisk(r, j, g)'
                /\ p + 1 \in 0 .. j /\ g[p + 1] = nl + 1
                /\ \A n \in 0 .. p : partFiles'[r][n] # Torn
    BY <2>7
  <2>9. Sharding(r, j, g)'
    <3>1. p \in Nat /\ (p + 1) - 1 = p
      BY <1>5, <1>6
    <3>2. nl + 1 \in nl + 1 .. last + 1 /\ nl + 1 .. (nl + 1) - 1 = {}
      BY <1>2, <1>7, <1>11
    <3>3. indexFile'[r] = "none"
      BY <1>1, <1>6
    <3>4. partNo'[r] \in 0 .. j /\ g[partNo'[r]] = nl + 1
      BY <2>5, <2>8
    <3>5. \A n \in 0 .. partNo'[r] - 1 : partFiles'[r][n] # Torn
      BY <2>5, <2>8, <3>1
    <3>6. nextLayer'[r] \in g[partNo'[r]] .. last + 1
      BY <1>10, <3>2, <3>4
    <3>7. g[partNo'[r]] .. nextLayer'[r] - 1 = {}
      BY <1>10, <3>2, <3>4
    <3> QED
      BY <1>2, <1>10, <1>11, <2>5, <3>3, <3>4, <3>5, <3>6, <3>7 DEF Sharding
  <2>10. OnItsWay(r)'
    BY <1>1, <1>12, <2>8, <2>9 DEF OnItsWay
  <2> QED
    BY <1>1, <1>11, <2>10 DEF RankInv, At
<1>14. CASE ~(SizeOf(shape, held[r] \cup {nl}, r) >= MaxSize)
  <2>1. ~Big(shape, r, f[p], nl)
    BY <1>8, <1>14 DEF Big
  <2>2. held'[r] = f[p] .. nl /\ partNo'[r] = p /\ partFiles' = partFiles
    BY <1>1, <1>p, <1>8, <1>9, <1>14 DEF ShardFunctions
  <2>3. \A h \in f[p] .. nl : ~Big(shape, r, f[p], h)
    <3>1. \A h \in f[p] .. nl : h = nl \/ h \in f[p] .. nl - 1
      BY <1>7
    <3> QED
      BY <1>6, <2>1, <3>1
  <2>4. Sharding(r, k, f)'
    <3>1. nextLayer'[r] \in f[partNo'[r]] .. last + 1
      <4>1. nl + 1 \in f[p] .. last + 1
        BY <1>2, <1>6, <1>7
      <4> QED
        BY <1>10, <2>2, <4>1
    <3>2. f[partNo'[r]] .. nextLayer'[r] - 1 = f[p] .. nl
      <4>1. nextLayer'[r] - 1 = nl
        BY <1>7, <1>10
      <4> QED
        BY <2>2, <4>1
    <3>3. indexFile'[r] = "none"
      BY <1>1, <1>6
    <3>4. partNo'[r] \in 0 .. k /\ \A n \in 0 .. partNo'[r] - 1 : partFiles'[r][n] # Torn
      BY <1>6, <2>2
    <3>5. shardPc'[r] = "layers" <=> nextLayer'[r] <= last
      BY <1>10, <1>11
    <3>6. held'[r] = f[partNo'[r]] .. nextLayer'[r] - 1
      BY <2>2, <3>2
    <3>7. \A h \in f[partNo'[r]] .. nextLayer'[r] - 1 : ~Big(shape', r, f[partNo'[r]], h)
      BY <1>1, <2>2, <2>3, <3>2
    <3> QED
      BY <1>2, <3>1, <3>3, <3>4, <3>5, <3>6, <3>7 DEF Sharding
  <2>5. OnDisk(r, k, f)'
    BY <1>1, <1>4, <2>2 DEF OnDisk
  <2>6. OnItsWay(r)'
    BY <1>1, <1>4, <1>12, <2>4, <2>5 DEF OnItsWay
  <2> QED
    BY <1>1, <1>11, <2>6 DEF RankInv, At
<1> QED
  BY <1>13, <1>14

\* The last part is written, or nothing was left to write.
LEMMA FinalizeKeeps ==
    ASSUME ShardInv, NEW r \in Ranks, Finalize(r)
    PROVE  RankInv(r)'
<1> DEFINE last == LastCut(shape)
<1>1. shape \in Shapes /\ ShardFunctions /\ RankInv(r) /\ shape' = shape /\ DOMAIN partFiles = Ranks
      /\ shardPc[r] = "finalize" /\ indexFile' = indexFile /\ shardPc'[r] = "copy" /\ Flush(r, held[r])
  BY DEF ShardInv, ShardFunctions, Finalize, At, Goto
<1>2. last \in Nat /\ LastCut(shape') = last
  BY <1>1, ShapeSizes
<1>3. PICK k \in 0 .. LastCut(shape) : \E f \in [0 .. k -> 1 .. LastCut(shape) + 1] :
          Chain(shape, r, k, f) /\ OnDisk(r, k, f) /\ Sharding(r, k, f) /\ AllWritten(r, k, f)
  BY <1>1 DEF RankInv, OnItsWay
<1>4. PICK f \in [0 .. k -> 1 .. LastCut(shape) + 1] :
          Chain(shape, r, k, f) /\ OnDisk(r, k, f) /\ Sharding(r, k, f) /\ AllWritten(r, k, f)
  BY <1>3
<1> HIDE DEF last
<1>p. PICK p : p = partNo[r]
  OBVIOUS
<1>n. PICK nl : nl = nextLayer[r]
  OBVIOUS
<1>5. k \in Nat /\ \A n \in 0 .. k : f[n] \in Nat /\ 1 <= f[n] /\ f[n] <= last + 1
  BY <1>2, <1>4 DEF last
<1>6. /\ p \in 0 .. k /\ \A n \in 0 .. p - 1 : partFiles[r][n] # Torn
      /\ nl \in f[p] .. last + 1 /\ ~(nl <= last) /\ held[r] = f[p] .. nl - 1
      /\ \A h \in f[p] .. nl - 1 : ~Big(shape, r, f[p], h)
  BY <1>1, <1>4, <1>p, <1>n DEF Sharding, last
<1>7. f[p] \in Nat /\ 1 <= f[p] /\ f[p] <= last + 1 /\ nl \in Int
  BY <1>2, <1>5, <1>6
<1>8. nl - 1 = last
  BY <1>2, <1>6, <1>7
<1>9. AssertionsHold(shape')
  BY <1>1 DEF RankInv
<1>10. \A j, g : Sharding(r, j, g)'
  BY <1>1 DEF Sharding
<1>11. CASE held[r] = {}
  <2>1. partFiles' = partFiles
    BY <1>1, <1>11 DEF Flush
  <2>2. f[p] = last + 1
    <3>1. f[p] .. last = {}
      BY <1>6, <1>8, <1>11
    <3>2. ~(f[p] <= last)
      BY <1>2, <1>7, <3>1
    <3> QED
      BY <1>2, <1>7, <3>2
  <2>3. p = k
    <3>1. ~(p < k)
      <4> SUFFICES ASSUME p < k PROVE FALSE
        OBVIOUS
      <4>1. \A m, n \in 0 .. k : m < n => f[m] < f[n]
        BY <1>4 DEF Chain
      <4>2. k \in 0 .. k /\ f[p] < f[k] /\ f[k] <= last + 1 /\ f[k] \in Nat
        BY <1>5, <1>6, <4>1
      <4> QED
        BY <1>2, <2>2, <4>2
    <3> QED
      BY <1>5, <1>6, <3>1
  <2>4. OnDisk(r, k, f)'
    BY <1>1, <1>4, <2>1 DEF OnDisk
  <2>5. f[k] = last + 1 /\ \A n \in 0 .. k - 1 : partFiles'[r][n] # Torn
    BY <1>6, <2>1, <2>2, <2>3
  <2>6. DOMAIN partFiles'[r] = 0 .. k - 1
    <3>1. ~(f[k] <= last)
      BY <1>2, <2>5
    <3> QED
      BY <1>4, <2>1, <3>1 DEF OnDisk, last
  <2>7. AllWritten(r, k, f)'
    BY <1>2, <2>5, <2>6 DEF AllWritten
  <2>8. OnItsWay(r)'
    BY <1>1, <1>4, <1>10, <2>4, <2>7 DEF OnItsWay
  <2> QED
    BY <1>1, <1>9, <2>8 DEF RankInv, At
<1>12. CASE held[r] # {}
  <2>1. held[r] = f[p] .. last
    BY <1>6, <1>8
  <2>2. f[p] <= last
    BY <1>2, <1>7, <1>12, <2>1
  <2>3. partFiles' = [partFiles EXCEPT ![r] = WithPart(@, p, f[p] .. last)]
    BY <1>1, <1>12, <1>p, <2>1 DEF Flush
  <2>4. IsPart(shape, r, f[p], last)
    <3>1. \A h \in f[p] .. last - 1 : h \in f[p] .. nl - 1
      BY <1>2, <1>7, <1>8
    <3> QED
      BY <1>6, <3>1 DEF IsPart, last
  <2>5. PartComes(r, k, f, p, last)
    <3>1. k \in 0 .. LastCut(shape) /\ f \in [0 .. k -> 1 .. LastCut(shape) + 1]
      OBVIOUS
    <3>2. Chain(shape, r, k, f) /\ OnDisk(r, k, f)
      BY <1>4
    <3>3. p \in 0 .. k /\ \A n \in 0 .. p - 1 : partFiles[r][n] # Torn
      BY <1>6
    <3>4. last \in Nat /\ last <= LastCut(shape)
      BY <1>2 DEF last
    <3> QED
      BY <2>2, <2>3, <2>4, <3>1, <3>2, <3>3, <3>4, Zenon DEF PartComes
  <2>c. PICK b : b = last
    OBVIOUS
  <2>6. PartIsThere(r, p, b)
    BY <1>1, <2>5, <2>c, PartIsWritten
  <2>7. PICK j \in 0 .. LastCut(shape) : \E g \in [0 .. j -> 1 .. LastCut(shape) + 1] :
            /\ Chain(shape, r, j, g) /\ OnDisk(r, j, g)'
            /\ p + 1 \in 0 .. j /\ g[p + 1] = b + 1
            /\ \A n \in 0 .. p : partFiles'[r][n] # Torn
            /\ b = LastCut(shape) => j = p + 1 /\ DOMAIN partFiles'[r] = 0 .. j - 1
    BY <2>6 DEF PartIsThere
  <2>8. PICK g \in [0 .. j -> 1 .. LastCut(shape) + 1] :
            /\ Chain(shape, r, j, g) /\ OnDisk(r, j, g)'
            /\ p + 1 \in 0 .. j /\ g[p + 1] = b + 1
            /\ \A n \in 0 .. p : partFiles'[r][n] # Torn
            /\ b = LastCut(shape) => j = p + 1 /\ DOMAIN partFiles'[r] = 0 .. j - 1
    BY <2>7
  <2>9. j = p + 1 /\ DOMAIN partFiles'[r] = 0 .. j - 1 /\ g[j] = last + 1 /\ (p + 1) - 1 = p
    BY <1>5, <1>6, <2>c, <2>8 DEF last
  <2>10. \A n \in 0 .. j - 1 : partFiles'[r][n] # Torn
    BY <2>8, <2>9
  <2>11. AllWritten(r, j, g)'
    BY <1>2, <2>9, <2>10 DEF AllWritten
  <2>12. OnItsWay(r)'
    BY <1>1, <1>10, <2>8, <2>11 DEF OnItsWay
  <2> QED
    BY <1>1, <1>9, <2>12 DEF RankInv, At
<1> QED
  BY <1>11, <1>12

\* A new process starts from the first layer.
LEMMA BeginKeeps ==
    ASSUME ShardInv, NEW r \in Ranks, Begin(r)
    PROVE  RankInv(r)'
<1>1. shape \in Shapes /\ ShardFunctions /\ RankInv(r) /\ shape' = shape /\ partFiles' = partFiles
      /\ indexFile' = indexFile
  BY DEF ShardInv, Begin, diskVars
<1>2. CASE indexFile[r] # "none"
  <2>1. shardPc'[r] = "skipped"
    BY <1>1, <1>2 DEF Begin, Goto, ShardFunctions
  <2> QED
    BY <1>1, <2>1, FilesStay
<1>3. CASE indexFile[r] = "none"
  <2>1. shardPc'[r] = "layers" /\ nextLayer'[r] = 1 /\ held'[r] = {} /\ partNo'[r] = 0
    BY <1>1, <1>3 DEF Begin, Goto, ShardFunctions
  <2>2. PICK k \in 0 .. LastCut(shape) : \E f \in [0 .. k -> 1 .. LastCut(shape) + 1] :
            Chain(shape, r, k, f) /\ OnDisk(r, k, f) /\ Sharding(r, k, f) /\ AllWritten(r, k, f)
    BY <1>1 DEF RankInv, OnItsWay
  <2>3. PICK f \in [0 .. k -> 1 .. LastCut(shape) + 1] :
            Chain(shape, r, k, f) /\ OnDisk(r, k, f) /\ Sharding(r, k, f) /\ AllWritten(r, k, f)
    BY <2>2
  <2>4. LastCut(shape) \in Nat /\ LastCut(shape) >= 1
    BY <1>1, ShapeSizes
  <2>5. f[0] = 1 /\ 0 \in 0 .. k /\ 1 .. 1 - 1 = {} /\ 0 .. 0 - 1 = {} /\ 1 \in 1 .. LastCut(shape) + 1
        /\ 1 <= LastCut(shape)
    BY <2>3, <2>4 DEF Chain
  <2>6. OnDisk(r, k, f)'
    BY <1>1, <2>3 DEF OnDisk
  <2>7. Sharding(r, k, f)'
    BY <1>1, <1>3, <2>1, <2>5 DEF Sharding
  <2>8. AllWritten(r, k, f)'
    BY <1>1, <1>3, <2>1 DEF AllWritten
  <2>9. OnItsWay(r)'
    BY <1>1, <2>3, <2>6, <2>7, <2>8 DEF OnItsWay
  <2> QED
    BY <2>1, <2>9 DEF RankInv, At
<1> QED
  BY <1>2, <1>3

\* A step of the process of rank r.
OnlyOf(r) ==
    /\ shape' = shape /\ ShardFunctions'
    /\ \A q \in Ranks \ {r} :
           /\ shardPc'[q] = shardPc[q] /\ nextLayer'[q] = nextLayer[q] /\ held'[q] = held[q]
           /\ partNo'[q] = partNo[q] /\ partFiles'[q] = partFiles[q] /\ indexFile'[q] = indexFile[q]

LEMMA OneRankMoves ==
    ASSUME ShardInv, NEW r \in Ranks, OnlyOf(r), RankInv(r)'
    PROVE  ShardInv'
<1>1. shape' \in Shapes /\ ShardFunctions'
  BY DEF ShardInv, OnlyOf
<1>2. ASSUME NEW q \in Ranks PROVE RankInv(q)'
  <2>1. CASE q # r
    <3>1. RankInv(q)
      BY DEF ShardInv
    <3>2. /\ shape' = shape /\ shardPc'[q] = shardPc[q] /\ nextLayer'[q] = nextLayer[q] /\ held'[q] = held[q]
          /\ partNo'[q] = partNo[q] /\ partFiles'[q] = partFiles[q] /\ indexFile'[q] = indexFile[q]
      BY <2>1 DEF OnlyOf
    <3> QED
      BY <3>1, <3>2, OthersStay
  <2> QED
    BY <2>1
<1> QED
  BY <1>1, <1>2 DEF ShardInv

LEMMA AddLayerKeeps ==
    ASSUME ShardInv, NEW r \in Ranks, AddLayer(r)
    PROVE  ShardInv'
<1>1. ShardFunctions /\ RankInv(r)
  BY DEF ShardInv
<1>2. OnlyOf(r)
  BY <1>1 DEF OnlyOf, ShardFunctions, AddLayer, Flush, Goto
<1>3. CASE AssertionsHold(shape)
  <2>1. RankInv(r)'
    BY <1>3, LayerIsAdded
  <2> QED
    BY <1>2, <2>1, OneRankMoves
<1>4. CASE ~AssertionsHold(shape)
  <2>1. shape' = shape /\ shardPc'[r] = "failed" /\ partFiles'[r] = partFiles[r] /\ indexFile'[r] = indexFile[r]
    BY <1>1, <1>4 DEF AddLayer, Goto, ShardFunctions
  <2>2. RankInv(r)'
    BY <1>1, <2>1, FilesStay
  <2> QED
    BY <1>2, <2>2, OneRankMoves
<1> QED
  BY <1>3, <1>4

LEMMA DeployKeeps ==
    ASSUME ShardInv, NEW r \in Ranks, NEW s \in Shapes, Deploy(r, s)
    PROVE  ShardInv'
<1>1. ShardFunctions /\ RankInv(r) /\ shape \in Shapes
  BY DEF ShardInv
<1>2. shardPc' = [shardPc EXCEPT ![r] = "start"] /\ nextLayer' = nextLayer /\ held' = held /\ partNo' = partNo
      /\ partFiles' = partFiles /\ indexFile' = indexFile
  BY DEF Deploy, Goto, diskVars
<1>3. ShardFunctions' /\ shardPc'[r] = "start" /\ \A q \in Ranks \ {r} : shardPc'[q] = shardPc[q]
  BY <1>1, <1>2 DEF ShardFunctions
<1>4. CASE \A q \in Ranks : At(q, "idle")
  <2>1. shape' \in Shapes
    BY <1>4 DEF Deploy
  <2>2. ASSUME NEW q \in Ranks PROVE RankInv(q)'
    <3>1. partFiles'[q] = << >> /\ indexFile'[q] = "none"
      BY <1>2, <1>4 DEF ShardInv, RankInv
    <3>2. shardPc'[q] \in {"idle", "start"}
      BY <1>3, <1>4 DEF At
    <3> QED
      BY <2>1, <3>1, <3>2, NothingThere
  <2> QED
    BY <1>3, <2>1, <2>2 DEF ShardInv
<1>5. CASE ~(\A q \in Ranks : At(q, "idle"))
  <2>1. shape' = shape
    BY <1>5 DEF Deploy
  <2>2. OnlyOf(r)
    BY <1>2, <1>3, <2>1 DEF OnlyOf
  <2>3. RankInv(r)'
    BY <1>1, <1>2, <1>3, <2>1, FilesStay
  <2> QED
    BY <2>2, <2>3, OneRankMoves
<1> QED
  BY <1>4, <1>5

LEMMA DieKeeps ==
    ASSUME ShardInv, NEW r \in Ranks, Die(r)
    PROVE  ShardInv'
<1>1. ShardFunctions /\ RankInv(r) /\ shape \in Shapes
  BY DEF ShardInv
<1>2. OnlyOf(r)
  BY <1>1 DEF OnlyOf, ShardFunctions, Die, Goto, diskVars
<1>3. shape' = shape /\ shardPc'[r] = "died" /\ DOMAIN partFiles = Ranks /\ DOMAIN indexFile = Ranks
  BY <1>1 DEF Die, Goto, ShardFunctions
<1>4. RankInv(r)'
  <2>1. CASE UNCHANGED diskVars
    BY <1>1, <1>3, <2>1, FilesStay DEF diskVars
  <2>2. CASE /\ At(r, "layers") \/ (At(r, "finalize") /\ held[r] # {})
             /\ partFiles' = [partFiles EXCEPT ![r] = WithPart(@, partNo[r], Torn)]
             /\ UNCHANGED <<metadata, indexFile>>
    <3>1. shardPc[r] = "layers" \/ (shardPc[r] = "finalize" /\ held[r] # {})
      BY <2>2 DEF At
    <3>2. partFiles' = [partFiles EXCEPT ![r] = WithPart(@, partNo[r], Torn)] /\ indexFile'[r] = indexFile[r]
      BY <2>2
    <3> QED
      BY <1>1, <1>3, <3>1, <3>2, TornStays
  <2>3. CASE /\ At(r, "index")
             /\ indexFile' = [indexFile EXCEPT ![r] = "torn"]
             /\ UNCHANGED <<partFiles, metadata>>
    <3>1. shardPc[r] = "index" /\ partFiles'[r] = partFiles[r]
      BY <2>3 DEF At
    <3> QED
      BY <1>1, <1>3, <3>1, PartsStay
  <2> QED
    BY <2>1, <2>2, <2>3 DEF Die
<1> QED
  BY <1>2, <1>4, OneRankMoves

LEMMA ShardInvStart == ShardInit => ShardInv
<1> SUFFICES ASSUME ShardInit PROVE ShardInv
  OBVIOUS
<1>1. shape \in Shapes
  BY ShardAssumption DEF ShardInit, ShardAssumption
<1>2. ShardFunctions
  BY DEF ShardInit, ShardFunctions
<1>3. ASSUME NEW r \in Ranks PROVE RankInv(r)
  <2>1. partFiles[r] = << >> /\ indexFile[r] = "none" /\ shardPc[r] = "idle"
    BY DEF ShardInit
  <2>2. PICK f \in [0 .. 0 -> 1 .. LastCut(shape) + 1] : Chain(shape, r, 0, f)
    BY <1>1, FirstChain
  <2>3. DOMAIN partFiles[r] = 0 .. 0 - 1
    BY <2>1, NoParts
  <2>4. OnDisk(r, 0, f) /\ Sharding(r, 0, f) /\ AllWritten(r, 0, f)
    BY <2>1, <2>3 DEF OnDisk, Sharding, AllWritten
  <2>5. 0 \in 0 .. LastCut(shape)
    BY <1>1, FirstChain
  <2>6. OnItsWay(r)
    BY <2>2, <2>4, <2>5 DEF OnItsWay
  <2> QED
    BY <2>1, <2>6 DEF RankInv, At
<1> QED
  BY <1>1, <1>2, <1>3 DEF ShardInv

LEMMA ShardInvStep == ShardInv /\ [ShardNext]_shardVars => ShardInv'
<1> SUFFICES ASSUME ShardInv, [ShardNext]_shardVars PROVE ShardInv'
  OBVIOUS
<1>1. ShardFunctions /\ shape \in Shapes /\ \A r \in Ranks : RankInv(r)
  BY DEF ShardInv
<1>2. CASE UNCHANGED shardVars
  <2>1. /\ shape' = shape /\ shardPc' = shardPc /\ nextLayer' = nextLayer /\ held' = held
        /\ partNo' = partNo /\ partFiles' = partFiles /\ indexFile' = indexFile
    BY <1>2 DEF shardVars, procVars, diskVars
  <2>2. \A r \in Ranks : RankInv(r)'
    BY <1>1, <2>1, OthersStay
  <2> QED
    BY <1>1, <2>1, <2>2 DEF ShardInv, ShardFunctions
<1>3. ASSUME NEW r \in Ranks, NEW s \in Shapes, Deploy(r, s) PROVE ShardInv'
  BY <1>3, DeployKeeps
<1>4. ASSUME NEW r \in Ranks, Begin(r) PROVE ShardInv'
  <2>1. OnlyOf(r)
    BY <1>1, <1>4 DEF OnlyOf, ShardFunctions, Begin, Goto, diskVars
  <2> QED
    BY <1>4, <2>1, BeginKeeps, OneRankMoves
<1>5. ASSUME NEW r \in Ranks, AddLayer(r) PROVE ShardInv'
  BY <1>5, AddLayerKeeps
<1>6. ASSUME NEW r \in Ranks, Finalize(r) PROVE ShardInv'
  <2>1. OnlyOf(r)
    BY <1>1, <1>6 DEF OnlyOf, ShardFunctions, Finalize, Flush, Goto
  <2> QED
    BY <1>6, <2>1, FinalizeKeeps, OneRankMoves
<1>7. ASSUME NEW r \in Ranks, CopyMetadata(r) \/ WriteIndex(r) PROVE ShardInv'
  <2>1. OnlyOf(r)
    BY <1>1, <1>7 DEF OnlyOf, ShardFunctions, CopyMetadata, WriteIndex, Goto
  <2>2. shape' = shape /\ shardPc[r] \in {"copy", "index"} /\ shardPc'[r] \in {"copy", "index", "done", "died"}
        /\ partFiles'[r] = partFiles[r]
    BY <1>1, <1>7 DEF ShardFunctions, CopyMetadata, WriteIndex, Goto, At
  <2>3. RankInv(r)'
    BY <1>1, <2>2, PartsStay
  <2> QED
    BY <2>1, <2>3, OneRankMoves
<1>8. ASSUME NEW r \in Ranks, Die(r) PROVE ShardInv'
  BY <1>8, DieKeeps
<1> QED
  BY <1>2, <1>3, <1>4, <1>5, <1>6, <1>7, <1>8 DEF ShardNext

\* The inductive invariant of the sharding of a model.
THEOREM ShardInvariant == ShardSpec => []ShardInv
BY ShardInvStart, ShardInvStep, PTL DEF ShardSpec

\* What a directory holds that is on its way to the end.
LEMMA WrittenOnce ==
    ASSUME ShardInv, NEW r \in Ranks, indexFile[r] # "none"
    PROVE  /\ Torn \notin Parts(r)
           /\ \A l \in 1 .. shape.layers + 1 :
                  Cardinality({n \in DOMAIN partFiles[r] : l \in partFiles[r][n]}) = 1
<1> DEFINE last == LastCut(shape)
<1>1. last \in Nat /\ last = shape.layers + 1
  BY ShapeSizes DEF ShardInv, LastCut
<1>2. PICK k \in 0 .. LastCut(shape) : \E f \in [0 .. k -> 1 .. LastCut(shape) + 1] :
          Chain(shape, r, k, f) /\ OnDisk(r, k, f) /\ Sharding(r, k, f) /\ AllWritten(r, k, f)
  BY DEF ShardInv, RankInv, OnItsWay
<1>3. PICK f \in [0 .. k -> 1 .. LastCut(shape) + 1] :
          Chain(shape, r, k, f) /\ OnDisk(r, k, f) /\ Sharding(r, k, f) /\ AllWritten(r, k, f)
  BY <1>2
<1> HIDE DEF last
<1>4. f[k] = last + 1 /\ DOMAIN partFiles[r] = 0 .. k - 1 /\ \A n \in 0 .. k - 1 : partFiles[r][n] # Torn
  BY <1>3 DEF AllWritten, last
<1>5. \A n \in 0 .. k - 1 : partFiles[r][n] = f[n] .. f[n + 1] - 1
  BY <1>3, <1>4 DEF OnDisk
<1>6. k \in Nat /\ \A n \in 0 .. k : f[n] \in Nat
  BY <1>1, <1>3 DEF last
<1>7. Torn \notin Parts(r)
  BY <1>4 DEF Parts
<1>8. ASSUME NEW l \in 1 .. last
      PROVE  Cardinality({n \in DOMAIN partFiles[r] : l \in partFiles[r][n]}) = 1
  <2>1. l \in 1 .. f[k] - 1
    BY <1>1, <1>4
  <2>2. \E n \in 0 .. k - 1 : f[n] <= l /\ l < f[n + 1]
    BY <1>3, <2>1 DEF Chain
  <2>3. PICK n \in 0 .. k - 1 : f[n] <= l /\ l < f[n + 1]
    BY <2>2
  <2>4. n \in 0 .. k /\ n + 1 \in 0 .. k /\ l \in Nat
    BY <1>1, <1>6
  <2>5. l \in partFiles[r][n]
    <3>1. l \in f[n] .. f[n + 1] - 1
      BY <1>6, <2>3, <2>4
    <3> QED
      BY <1>5, <3>1
  <2>6. ASSUME NEW m \in 0 .. k - 1, l \in partFiles[r][m] PROVE m = n
    <3>1. m \in 0 .. k /\ m + 1 \in 0 .. k
      BY <1>6
    <3>2. l \in f[m] .. f[m + 1] - 1
      BY <1>5, <2>6
    <3>3. f[m] <= l /\ l < f[m + 1]
      BY <1>6, <2>4, <3>1, <3>2
    <3>4. \A i, j \in 0 .. k : i < j => f[i] < f[j]
      BY <1>3 DEF Chain
    <3>5. ~(m < n)
      <4> SUFFICES ASSUME m < n PROVE FALSE
        OBVIOUS
      <4>1. f[m + 1] <= f[n]
        <5>1. m + 1 < n \/ m + 1 = n
          BY <1>6
        <5> QED
          BY <1>6, <2>4, <3>1, <3>4, <5>1
      <4> QED
        BY <1>6, <2>3, <2>4, <3>1, <3>3, <4>1
    <3>6. ~(n < m)
      <4> SUFFICES ASSUME n < m PROVE FALSE
        OBVIOUS
      <4>1. f[n + 1] <= f[m]
        <5>1. n + 1 < m \/ n + 1 = m
          BY <1>6
        <5> QED
          BY <1>6, <2>4, <3>1, <3>4, <5>1
      <4> QED
        BY <1>6, <2>3, <2>4, <3>1, <3>3, <4>1
    <3> QED
      BY <1>6, <3>5, <3>6
  <2>7. {m \in DOMAIN partFiles[r] : l \in partFiles[r][m]} = {n}
    BY <1>4, <2>5, <2>6
  <2>8. Cardinality({n}) = 1
    BY FS_Singleton
  <2> QED
    BY <2>7, <2>8, Zenon
<1> QED
  BY <1>1, <1>7, <1>8

\* A directory with an index holds every layer in just one whole part, whatever
\* processes died in it, and when both ranks are done their cuts are, of every shape,
\* the model with its heads and experts rounded down to what divides, no unit with
\* both (sglang_cpu_shard.py:349-350, 503-504).
THEOREM ShardsAreWhole == ShardSpec => []ShardsWhole
<1>1. ShardInv => MarkedIsWritten
  BY WrittenOnce DEF MarkedIsWritten
<1>2. ShardInv => ShardsCoverOnce
  <2> SUFFICES ASSUME ShardInv, \A r \in Ranks : At(r, "done"), NEW l \in 1 .. shape.layers + 1
               PROVE  /\ UNION {CutOf(shape, r, l) : r \in Ranks} = Whole(Rounded(shape), l)
                      /\ CutOf(shape, 0, l) \cap CutOf(shape, 1, l) \subseteq Replicated
    BY DEF ShardsCoverOnce, AllDone
  <2>1. shape \in Shape /\ shape.layers \in Nat
    BY ShapeSizes DEF ShardInv
  <2>0. shape.tp = Cardinality(Ranks) /\ shape.ep \in {1, shape.tp}
    BY ShardAssumption DEF ShardInv, ShardAssumption
  <2>2. 0 \in Ranks
    BY DEF Ranks
  <2>3. AssertionsHold(shape)
    BY <2>2 DEF ShardInv, RankInv, At
  <2>4. l \in Nat
    BY <2>1
  <2> QED
    BY <2>0, <2>1, <2>3, <2>4, LayersAreWhole
<1>3. ShardInv => ShardsWhole
  BY <1>1, <1>2 DEF ShardsWhole
<1> QED
  BY <1>3, ShardInvariant, PTL

=============================================================================
