-------------------------------- MODULE MCTools --------------------------------
(* Instances for TLC of the programs that prepare and watch the serving of  *)
(* models.  They share no state: a behaviour is one of any of them.         *)
EXTENDS CpuShard, Preload, ShardJob, RepetitionGuard, ThinkingParser, KeelDrift, EngineImages, PatchLib, TLC

VARIABLE program

toolVars == <<program, shardVars, preloadVars, jobVars, guardVars, parserVars,
              driftVars, patchVars>>

----------------------------------------------------------------------------
(* Constants *)

Dense == [tp |-> 2, ep |-> 1, layers |-> 2, moe |-> FALSE, heads |-> 4, kvHeads |-> 2,
          cols |-> 1, rows |-> 2, experts |-> 0, vocab |-> 3, indexed |-> TRUE]
MCShapes == {[Dense EXCEPT !.heads = 5, !.kvHeads = 1], [Dense EXCEPT !.rows = 3],
             [Dense EXCEPT !.moe = TRUE, !.experts = 3],
             [Dense EXCEPT !.moe = TRUE, !.experts = 4, !.ep = 2, !.indexed = FALSE, !.cols = 2],
             [Dense EXCEPT !.moe = TRUE, !.experts = 3, !.ep = 2]}

MCEnds == <<101, 102>>
MCSaid == [reasoning |-> {1}, content |-> {1, 2, 3, 0, 101, 102}]
MCMaxUnits == [reasoning |-> 3, content |-> 5]

\* <think> and </think> with 1 for "<", 2 for "/", 3 for the name, 4 for ">"; 5 is any other
MCStartTag == <<1, 3, 4>>
MCEndTag == <<1, 2, 3, 4>>
MCTexts == {FlattenSeq(s) : s \in SeqOf({MCStartTag, MCEndTag, <<1>>, <<1, 2>>, <<5>>}, 3)}

\* The scripts; of a definition of this module TLC keeps the value.
MCPatchOrder == AllPatches

----------------------------------------------------------------------------

Programs == {"shard", "preload", "job", "guard", "parser", "drift", "patches"}

\* Of a program that does not run, one initial state is enough.
ToolsInit ==
    /\ program \in Programs
    /\ ShardInit /\ PreloadInit /\ JobInit /\ GuardInit
    /\ program # "parser" => streamText = <<>>
    /\ ParserInit
    /\ access \in IF program = "drift" THEN {"open", "public", "private"} ELSE {"open"}
    /\ login \in IF program = "drift" THEN {"none", "good"} ELSE {"none"}
    /\ secret \in IF program = "drift" THEN [Workloads -> {"none", "good", "bad"}] ELSE {[w \in Workloads |-> "none"]}
    /\ DriftInit
    /\ image \in IF program = "patches" THEN Images ELSE {<<"new", <<"nothing", "">>>>}
    /\ PatchInit

ShardRun == program = "shard" /\ ShardNext
            /\ UNCHANGED <<program, preloadVars, jobVars, guardVars, parserVars, driftVars, patchVars>>
PreloadRun == program = "preload" /\ PreloadNext
              /\ UNCHANGED <<program, shardVars, jobVars, guardVars, parserVars, driftVars, patchVars>>
JobRun == program = "job" /\ JobNext
          /\ UNCHANGED <<program, shardVars, preloadVars, guardVars, parserVars, driftVars, patchVars>>
GuardRun == program = "guard" /\ GuardNext
            /\ UNCHANGED <<program, shardVars, preloadVars, jobVars, parserVars, driftVars, patchVars>>
ParserRun == program = "parser" /\ ParserNext
             /\ UNCHANGED <<program, shardVars, preloadVars, jobVars, guardVars, driftVars, patchVars>>
DriftRun == program = "drift" /\ DriftNext
            /\ UNCHANGED <<program, shardVars, preloadVars, jobVars, guardVars, parserVars, patchVars>>
PatchRun == program = "patches" /\ PatchNext
            /\ UNCHANGED <<program, shardVars, preloadVars, jobVars, guardVars, parserVars, driftVars>>

ToolsNext == ShardRun \/ PreloadRun \/ JobRun \/ GuardRun \/ ParserRun \/ DriftRun \/ PatchRun

ToolsSpec == ToolsInit /\ [][ToolsNext]_toolVars

\* The programs that write files keep their types.
ToolsTypeOK == ShardTypeOK /\ PreloadTypeOK /\ JobTypeOK
=============================================================================
