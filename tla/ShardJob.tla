------------------------------- MODULE ShardJob -------------------------------
(***************************************************************************)
(* The sharding job on the GPUs: sglang_shard_launch.sh around             *)
(* sglang_save_sharded.py (vllm_shard_launch.sh and vllm_save_sharded.py   *)
(* are the same without FORCE_RESHARD), on a head and a worker.  Each node *)
(* writes the parts of its rank to a directory of its own; the index file, *)
(* which marks a directory as complete, is written on the head and copied  *)
(* to the worker at the end.  A job that failed is deployed again.         *)
(***************************************************************************)
EXTENDS Naturals

CONSTANTS
    MaxDeploys,     \* bound: deployments of the pair of jobs
    MaxKills        \* bound: pods that die

ASSUME JobAssumption == {MaxDeploys, MaxKills} \subseteq Nat

Nodes == {"head", "worker"}
Other(n) == IF n = "head" THEN "worker" ELSE "head"

VARIABLES
    deploys,    \* deployments so far; it names the running one
    force,      \* FORCE_RESHARD of the running one
    jobPc,      \* jobPc[n]: where the pod stands
    shardDir,   \* shardDir[n]: its parts, the deployment that wrote them, the index
    saving,     \* save_sharded_model has been called
    kills

jobVars == <<deploys, force, jobPc, shardDir, saving, kills>>

\* index: none, the one of the unsharded model, or the one of the shards
NoDir == [parts |-> "none", by |-> 0, index |-> "none"]

JobInit ==
    /\ deploys = 0 /\ force = FALSE /\ saving = FALSE /\ kills = 0
    /\ jobPc = [n \in Nodes |-> "absent"]
    /\ shardDir = [n \in Nodes |-> NoDir]

JobAt(n, pc) == jobPc[n] = pc
Becomes(n, pc) == jobPc' = [jobPc EXCEPT ![n] = pc]

\* tasks/sglang_shard.yml: the old jobs are deleted, the worker's is created first.
DeployJobs(f) ==
    /\ deploys < MaxDeploys /\ deploys' = deploys + 1
    /\ force' = f /\ saving' = FALSE
    /\ jobPc' = [head |-> "pending", worker |-> "launch"]
    /\ UNCHANGED <<shardDir, kills>>

CreateHead ==
    /\ JobAt("head", "pending")
    /\ Becomes("head", "launch")
    /\ UNCHANGED <<deploys, force, shardDir, saving, kills>>

\* Without an index the parts of earlier runs are removed.
Launch(n) ==
    /\ JobAt(n, "launch")
    /\ Becomes(n, "check")
    /\ shardDir' = IF shardDir[n].index = "none" THEN [shardDir EXCEPT ![n] = NoDir] ELSE shardDir
    /\ UNCHANGED <<deploys, force, saving, kills>>

\* main, up to the engine; when it skips, the script of the head goes on to copy.
Skips(n) == shardDir[n].index # "none" /\ ~force
Skip(n) == Becomes(n, IF n = "head" THEN "sync" ELSE "success") /\ UNCHANGED shardDir

Check_KeepsOld(n) ==
    /\ JobAt(n, "check")
    /\ IF Skips(n) THEN Skip(n) ELSE Becomes(n, "engine") /\ UNCHANGED shardDir
    /\ UNCHANGED <<deploys, force, saving, kills>>
Check(n) ==
    /\ JobAt(n, "check")
    /\ IF Skips(n) THEN Skip(n)
       ELSE /\ Becomes(n, "engine")
            /\ shardDir' = IF shardDir[n].index = "none" THEN shardDir ELSE [shardDir EXCEPT ![n] = NoDir]
    /\ UNCHANGED <<deploys, force, saving, kills>>

\* The engine of the head is there when the worker's is.
CallSave ==
    /\ JobAt("head", "engine") /\ JobAt("worker", "engine") /\ ~saving
    /\ saving' = TRUE
    /\ UNCHANGED <<deploys, force, jobPc, shardDir, kills>>

\* A rank writes its first parts, then the rest.
WriteParts(n) ==
    /\ saving /\ JobAt(n, "engine")
    /\ shardDir[n].by # deploys \/ shardDir[n].parts # "whole"
    /\ shardDir' = [shardDir EXCEPT ![n].by = deploys, ![n].parts =
           IF shardDir[n].by = deploys /\ shardDir[n].parts = "some" THEN "whole" ELSE "some"]
    /\ UNCHANGED <<deploys, force, jobPc, saving, kills>>

WholeNow(n) == shardDir[n].by = deploys /\ shardDir[n].parts = "whole"

\* save_sharded_model returns: the index was the last file it wrote.  The
\* metadata is copied unless it is there, and the head goes on to the copying.
SaveReturns ==
    /\ saving /\ JobAt("head", "engine") /\ \A n \in Nodes : WholeNow(n)
    /\ Becomes("head", "sync")
    /\ shardDir' = [shardDir EXCEPT !["head"].index = "shards"]
    /\ UNCHANGED <<deploys, force, saving, kills>>

\* A pod dies; rsync that fails ends the head's script in the same way.
Kill(n) ==
    /\ kills < MaxKills /\ kills' = kills + 1
    /\ jobPc[n] \in {"pending", "launch", "check", "engine", "finish", "sync"}
    /\ Becomes(n, "failed")
    /\ UNCHANGED <<deploys, force, shardDir, saving>>

\* The program ends with an error: neither script asks the exit status what became
\* of the saving.  The head goes on to copy, the worker looks for parts.
ProgramFails(n) == Becomes(n, IF n = "head" THEN "sync" ELSE "finish")

\* Without its peer the engine of a node ends, whether it saves already or not.
Deserted(n) ==
    /\ JobAt(n, "engine")
    /\ jobPc[Other(n)] \in {"failed", "finish", "sync", "success"}
    /\ ProgramFails(n)
    /\ UNCHANGED <<deploys, force, shardDir, saving, kills>>

\* The program is killed alone, for want of memory, or its engine fails.
ProgramDies(n) ==
    /\ kills < MaxKills /\ kills' = kills + 1
    /\ JobAt(n, "engine")
    /\ ProgramFails(n)
    /\ UNCHANGED <<deploys, force, shardDir, saving>>

\* Any part of its rank counts; the metadata, with the index of the unsharded
\* model, is copied beside it unless it is there.
Finish ==
    /\ JobAt("worker", "finish")
    /\ IF shardDir["worker"].parts = "none" THEN Becomes("worker", "failed") /\ UNCHANGED shardDir
       ELSE /\ Becomes("worker", "success")
            /\ shardDir' = [shardDir EXCEPT !["worker"].index = IF @ = "none" THEN "model" ELSE @]
    /\ UNCHANGED <<deploys, force, saving, kills>>

\* rsync of the head: everything but the parts replaces what the worker has; what
\* the head lacks is not removed there.
SyncDir ==
    /\ JobAt("head", "sync")
    /\ shardDir' = IF shardDir["head"].index = "none" THEN shardDir
                   ELSE [shardDir EXCEPT !["worker"].index = shardDir["head"].index]
    /\ Becomes("head", "success")
    /\ UNCHANGED <<deploys, force, saving, kills>>

JobNext ==
    \/ \E f \in BOOLEAN : DeployJobs(f)
    \/ CreateHead \/ CallSave \/ SaveReturns \/ Finish \/ SyncDir
    \/ \E n \in Nodes : Launch(n) \/ Check(n) \/ WriteParts(n) \/ Kill(n) \/ Deserted(n) \/ ProgramDies(n)

JobSpec == JobInit /\ [][JobNext]_jobVars

----------------------------------------------------------------------------
(* Properties *)

JobTypeOK ==
    /\ deploys \in 0 .. MaxDeploys /\ kills \in 0 .. MaxKills
    /\ \A n \in Nodes :
           /\ shardDir[n] \in [parts : {"none", "some", "whole"}, by : 0 .. MaxDeploys,
                               index : {"none", "model", "shards"}]
           /\ shardDir[n].parts = "none" <=> shardDir[n].by = 0

\* Two complete directories that both carry the index of the shards are of one
\* and the same run: what is served never mixes two runs, however jobs died, were
\* deployed again or forced.
NeverMixed ==
    (\A n \in Nodes : shardDir[n].index = "shards" /\ shardDir[n].parts = "whole") =>
        shardDir["head"].by = shardDir["worker"].by

\* The index comes to the worker when its rank is saved, so that every node has
\* the complete directory (the comment on the copying of the head).
MarkedPairMatches ==
    (\A n \in Nodes : shardDir[n].index = "shards") => \A n \in Nodes : shardDir[n].parts = "whole"

\* A rank never saves into a directory that holds parts of an earlier run, which
\* the loader would take for its own.
SavesIntoEmpty ==
    \A n \in Nodes : JobAt(n, "engine") => shardDir[n].by \in {0, deploys}

\* A part counts only when it was written whole in this run (the comment on
\* .shard_run_start: protects against partial writes from a crash mid-save).
WorkerSavedWhole ==
    JobAt("worker", "success") => shardDir["worker"].parts = "whole"

\* What the head's job stands for when it has succeeded: the model is saved.  It
\* fails, the job ends well without a part or an index when its program did not.
HeadSaved == JobAt("head", "success") => shardDir["head"].index # "none"

\* No node serves or extends the parts of a run that is not the one of the others.
OneRunServed == NeverMixed /\ SavesIntoEmpty
=============================================================================
