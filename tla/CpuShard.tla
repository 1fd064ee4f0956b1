------------------------------- MODULE CpuShard -------------------------------
(***************************************************************************)
(* The CPU sharding job (roles/k8s_dgx/files/sglang_cpu_shard.py): one     *)
(* process per rank, each on a node of its own, cuts the layers of a model *)
(* for its rank, buffers them, writes part files, copies the metadata of   *)
(* the model and writes the index that marks the directory as complete.    *)
(* A process may die at any moment; the job is then run again.             *)
(***************************************************************************)
EXTENDS Naturals, FiniteSets, FiniteSetsExt

CONSTANTS
    Shapes,     \* models and settings that are sharded, see Shape
    MaxSize,    \* ShardWriter.max_size, in cut units
    MaxDeaths   \* bound: processes that die

\* Sizes are in units that are never divided: a head, a column group, a row group.
Shape == [tp : Nat \ {0}, ep : Nat \ {0}, layers : Nat, moe : BOOLEAN, heads : Nat,
          kvHeads : Nat, cols : Nat, rows : Nat, experts : Nat, vocab : Nat,
          indexed : BOOLEAN]    \* the model comes with an index of its own

Ranks == 0 .. 1     \* the two jobs of tasks/sglang_cpu_shard.yml

\* The settings they are deployed with: a rank for each job, and the experts of a
\* layer either cut like the rest or dealt out whole.  Heads and experts need not divide.
ASSUME ShardAssumption ==
    /\ Shapes \subseteq Shape /\ Shapes # {}
    /\ \A s \in Shapes : s.tp = Cardinality(Ranks) /\ s.ep \in {1, s.tp}
    /\ MaxSize \in Nat \ {0} /\ MaxDeaths \in Nat

VARIABLES
    shape,      \* the job's model and settings
    shardPc,    \* shardPc[r]: where the process of rank r stands
    nextLayer,  \* the layer it processes next
    held,       \* ShardWriter.buffer: layers processed and not yet written
    partNo,     \* ShardWriter.part
    partFiles,  \* partFiles[r][n]: the layers in part n of rank r's directory
    metadata,   \* metadata files in the directory
    indexFile,  \* the index: none, the model's own, this job's, or half written
    deaths

procVars == <<shardPc, nextLayer, held, partNo>>
diskVars == <<partFiles, metadata, indexFile>>
shardVars == <<shape, procVars, diskVars, deaths>>

Torn == {0}         \* a part file that was not written to its end
Metadata == {"config", "tokenizer"}

ShardInit ==
    /\ shape = CHOOSE s \in Shapes : TRUE
    /\ shardPc = [r \in Ranks |-> "idle"]
    /\ nextLayer = [r \in Ranks |-> 1]
    /\ held = [r \in Ranks |-> {}] /\ partNo = [r \in Ranks |-> 0]
    /\ partFiles = [r \in Ranks |-> <<>>]
    /\ metadata = [r \in Ranks |-> {}] /\ indexFile = [r \in Ranks |-> "none"]
    /\ deaths = 0

----------------------------------------------------------------------------
(* What a rank cuts from a layer.  A unit is a column, row, head or expert  *)
(* column of a tensor; layers are 1 .. layers, the global tensors come last *)

Unit(tensor, expert, i) == [tensor |-> tensor, expert |-> expert, at |-> i]
Units(tensor, range) == {Unit(tensor, 0, i) : i \in range}

\* tensor[rank * chunk : (rank + 1) * chunk], of a tensor with `size` units
Slice(r, chunk, size) == {i \in 0 .. size - 1 : r * chunk <= i /\ i < (r + 1) * chunk}

\* split_column, split_row: their assertion is Even.
Even(size, tp) == size % tp = 0
Cut(size, tp, r) == Slice(r, size \div tp, size)

\* split_vocab pads the tensor with zero rows; only rows of the model count.
Ceil(n, d) == (n + d - 1) \div d
VocabCut(s, r) == Slice(r, Ceil(s.vocab, s.tp), s.vocab)

Attention(s, r) ==
    Units("q", Slice(r, s.heads \div s.tp, s.heads))
    \cup Units("k", Slice(r, s.kvHeads \div s.tp, s.kvHeads))
    \cup Units("v", Slice(r, s.kvHeads \div s.tp, s.kvHeads))
    \cup Units("o", Cut(s.rows, s.tp, r))

\* process_dense_mlp, process_shared_expert: gate and up are joined, then cut.
Mlp(s, r) == Units("gate_up", Cut(2 * s.cols, s.tp, r)) \cup Units("down", Cut(s.rows, s.tp, r))

\* process_moe_experts
ExpertsHere_Shifted(s, r) == IF s.ep > 1 THEN LET n == s.experts \div s.ep IN r * n .. (r + 1) * n
                                         ELSE 0 .. s.experts - 1
ExpertsHere(s, r) == IF s.ep > 1 THEN LET n == s.experts \div s.ep IN r * n .. (r + 1) * n - 1
                                 ELSE 0 .. s.experts - 1
MoeTp(s) == IF s.ep > 1 THEN s.tp \div s.ep ELSE s.tp
MoeRank(s, r) == IF s.ep > 1 THEN 0 ELSE r

FirstExpert(s, r) == IF s.ep > 1 THEN r * (s.experts \div s.ep) ELSE 0
Experts(s, r) ==
    IF FirstExpert(s, r) >= s.experts THEN {}    \* first_gate is not in the model
    ELSE UNION {{Unit("w13", e, i) : i \in Cut(2 * s.cols, MoeTp(s), MoeRank(s, r))}
                \cup {Unit("w2", e, i) : i \in Cut(s.rows, MoeTp(s), MoeRank(s, r))}
                : e \in ExpertsHere(s, r)}

Replicated == {Unit(t, 0, 0) : t \in {"o_bias", "router", "layernorm", "norm"}}

\* process_layer, process_global_tensors
CutOf(s, r, layer) ==
    IF layer > s.layers THEN Units("embed", VocabCut(s, r)) \cup {Unit("norm", 0, 0)}
    ELSE Attention(s, r) \cup Mlp(s, r) \cup {Unit("o_bias", 0, 0), Unit("layernorm", 0, 0)}
         \cup (IF s.moe THEN Experts(s, r) \cup {Unit("router", 0, 0)} ELSE {})

AssertionsHold(s) == /\ Even(s.rows, s.tp) /\ Even(2 * s.cols, s.tp)
                     /\ s.moe => Even(s.rows, MoeTp(s)) /\ Even(2 * s.cols, MoeTp(s))

----------------------------------------------------------------------------
(* main *)

At(r, pc) == shardPc[r] = pc
Goto(r, pc) == shardPc' = [shardPc EXCEPT ![r] = pc]

\* The first process of a job decides what the job is about.
Deploy(r, s) ==
    /\ shardPc[r] \in {"idle", "failed", "died"}
    /\ IF \A q \in Ranks : At(q, "idle") THEN shape' = s ELSE s = shape /\ UNCHANGED shape
    /\ Goto(r, "start")
    /\ UNCHANGED <<nextLayer, held, partNo, diskVars, deaths>>

Begin(r) ==
    /\ At(r, "start")
    /\ IF indexFile[r] # "none"
       THEN Goto(r, "skipped") /\ UNCHANGED <<nextLayer, held, partNo>>
       ELSE /\ Goto(r, "layers")
            /\ nextLayer' = [nextLayer EXCEPT ![r] = 1]
            /\ held' = [held EXCEPT ![r] = {}]
            /\ partNo' = [partNo EXCEPT ![r] = 0]
    /\ UNCHANGED <<shape, diskVars, deaths>>

SizeOf(s, layers, r) == MapThenSumSet(LAMBDA l : Cardinality(CutOf(s, r, l)), layers)

WithPart(files, n, layers) == [i \in DOMAIN files \cup {n} |-> IF i = n THEN layers ELSE files[i]]

\* ShardWriter.flush, with the buffer as `layers`
Flush(r, layers) ==
    /\ held' = [held EXCEPT ![r] = {}]
    /\ IF layers = {} THEN UNCHANGED <<partNo, partFiles>>
       ELSE /\ partFiles' = [partFiles EXCEPT ![r] = WithPart(@, partNo[r], layers)]
            /\ partNo' = [partNo EXCEPT ![r] = @ + 1]

\* process_layer, then ShardWriter.add
AddLayer_OneMore(r) ==
    /\ At(r, "layers")
    /\ IF ~AssertionsHold(shape) THEN Goto(r, "failed") /\ UNCHANGED <<nextLayer, held, partNo, partFiles>>
       ELSE LET now == held[r] \cup {nextLayer[r]} IN
            /\ IF SizeOf(shape, now, r) >= MaxSize THEN Flush(r, now)
               ELSE held' = [held EXCEPT ![r] = now] /\ UNCHANGED <<partNo, partFiles>>
            /\ nextLayer' = [nextLayer EXCEPT ![r] = @ + 1]
            /\ Goto(r, IF nextLayer[r] > shape.layers + 1 THEN "finalize" ELSE "layers")
    /\ UNCHANGED <<shape, metadata, indexFile, deaths>>
AddLayer(r) ==
    /\ At(r, "layers")
    /\ IF ~AssertionsHold(shape) THEN Goto(r, "failed") /\ UNCHANGED <<nextLayer, held, partNo, partFiles>>
       ELSE LET now == held[r] \cup {nextLayer[r]} IN
            /\ IF SizeOf(shape, now, r) >= MaxSize THEN Flush(r, now)
               ELSE held' = [held EXCEPT ![r] = now] /\ UNCHANGED <<partNo, partFiles>>
            /\ nextLayer' = [nextLayer EXCEPT ![r] = @ + 1]
            /\ Goto(r, IF nextLayer[r] > shape.layers THEN "finalize" ELSE "layers")
    /\ UNCHANGED <<shape, metadata, indexFile, deaths>>

Finalize(r) ==
    /\ At(r, "finalize")
    /\ Flush(r, held[r])
    /\ Goto(r, "copy")
    /\ UNCHANGED <<shape, nextLayer, metadata, indexFile, deaths>>

\* Copying goes in the order of the directory; the model's own index is copied
\* like any other file.
CopyMetadata(r) ==
    /\ At(r, "copy")
    /\ \/ \E m \in Metadata \ metadata[r] :
              metadata' = [metadata EXCEPT ![r] = @ \cup {m}] /\ UNCHANGED <<shardPc, indexFile>>
       \/ /\ shape.indexed /\ indexFile[r] = "none"
          /\ indexFile' = [indexFile EXCEPT ![r] = "model"] /\ UNCHANGED <<shardPc, metadata>>
       \/ /\ Metadata \subseteq metadata[r] /\ (shape.indexed => indexFile[r] # "none")
          /\ Goto(r, "index") /\ UNCHANGED <<metadata, indexFile>>
    /\ UNCHANGED <<shape, nextLayer, held, partNo, partFiles, deaths>>

WriteIndex(r) ==
    /\ At(r, "index")
    /\ indexFile' = [indexFile EXCEPT ![r] = "job"]
    /\ Goto(r, "done")
    /\ UNCHANGED <<shape, nextLayer, held, partNo, partFiles, metadata, deaths>>

\* The process is killed, while it writes a file or between two.
Die(r) ==
    /\ deaths < MaxDeaths /\ deaths' = deaths + 1
    /\ shardPc[r] \in {"layers", "finalize", "copy", "index"}
    /\ Goto(r, "died")
    /\ \/ UNCHANGED diskVars
       \/ /\ At(r, "layers") \/ (At(r, "finalize") /\ held[r] # {})
          /\ partFiles' = [partFiles EXCEPT ![r] = WithPart(@, partNo[r], Torn)]
          /\ UNCHANGED <<metadata, indexFile>>
       \/ /\ At(r, "index")
          /\ indexFile' = [indexFile EXCEPT ![r] = "torn"]
          /\ UNCHANGED <<partFiles, metadata>>
    /\ UNCHANGED <<shape, nextLayer, held, partNo>>

ShardNext ==
    \E r \in Ranks :
        \/ \E s \in Shapes : Deploy(r, s)
        \/ Begin(r) \/ AddLayer(r) \/ Finalize(r) \/ CopyMetadata(r) \/ WriteIndex(r) \/ Die(r)

ShardSpec == ShardInit /\ [][ShardNext]_shardVars

----------------------------------------------------------------------------
(* Properties *)

ShardTypeOK ==
    /\ shape \in Shapes
    /\ \A r \in Ranks :
           /\ held[r] \subseteq 1 .. shape.layers + 1
           /\ \A n \in DOMAIN partFiles[r] : partFiles[r][n] = Torn \/ partFiles[r][n] \subseteq 1 .. shape.layers + 1
           /\ metadata[r] \subseteq Metadata
           /\ indexFile[r] \in {"none", "model", "job", "torn"}
    /\ deaths \in 0 .. MaxDeaths

Parts(r) == {partFiles[r][n] : n \in DOMAIN partFiles[r]}

\* A directory with an index, by which a later run takes it for complete and
\* leaves it alone, holds every layer in just one part file and no half-written
\* part, whatever processes died before and left behind.
MarkedIsWritten ==
    \A r \in Ranks : indexFile[r] # "none" =>
        /\ Torn \notin Parts(r)
        /\ \A l \in 1 .. shape.layers + 1 :
               Cardinality({n \in DOMAIN partFiles[r] : l \in partFiles[r][n]}) = 1

\* What the rounded divisions leave of a model, in process_qkv and
\* process_moe_experts: the heads beyond a multiple of tp and the experts beyond a
\* multiple of ep are in no file, and nothing asserts that there are none.
Multiple(size, n) == n * (size \div n)
Rounded(s) == [s EXCEPT !.heads = Multiple(@, s.tp), !.kvHeads = Multiple(@, s.tp),
                        !.experts = Multiple(@, s.ep)]

Whole(s, layer) ==
    IF layer > s.layers THEN Units("embed", 0 .. s.vocab - 1) \cup {Unit("norm", 0, 0)}
    ELSE Units("q", 0 .. s.heads - 1) \cup Units("k", 0 .. s.kvHeads - 1) \cup Units("v", 0 .. s.kvHeads - 1)
         \cup Units("o", 0 .. s.rows - 1) \cup Units("gate_up", 0 .. 2 * s.cols - 1)
         \cup Units("down", 0 .. s.rows - 1) \cup {Unit("o_bias", 0, 0), Unit("layernorm", 0, 0)}
         \cup (IF ~s.moe THEN {} ELSE {Unit("router", 0, 0)}
                    \cup {Unit("w13", e, i) : e \in 0 .. s.experts - 1, i \in 0 .. 2 * s.cols - 1}
                    \cup {Unit("w2", e, i) : e \in 0 .. s.experts - 1, i \in 0 .. s.rows - 1})

AllDone == \A r \in Ranks : At(r, "done")

\* When both ranks are done their files hold the model but for what the rounded
\* divisions leave, all of it (columns, rows and the rows of a vocabulary that does
\* not divide too) and no unit twice but those that every rank keeps.
ShardsCoverOnce ==
    AllDone =>
        \A l \in 1 .. shape.layers + 1 :
            /\ UNION {CutOf(shape, r, l) : r \in Ranks} = Whole(Rounded(shape), l)
            /\ CutOf(shape, 0, l) \cap CutOf(shape, 1, l) \subseteq Replicated

\* What "complete" would mean for every model: it fails when heads or experts do not
\* divide, where rows and columns would stop the job by an assertion.
ShardsCoverModel ==
    AllDone => \A l \in 1 .. shape.layers + 1 : UNION {CutOf(shape, r, l) : r \in Ranks} = Whole(shape, l)

\* The index is written last, as a completion marker (the docstring of main): with
\* an index the metadata is there too, also when the process died.
MarkedIsComplete ==
    \A r \in Ranks : indexFile[r] # "none" /\ shardPc[r] \in {"died", "skipped", "done"} =>
        Metadata \subseteq metadata[r] /\ indexFile[r] = "job"

\* What is marked as cut is written, in every directory, and over both it is the
\* model up to the rounded divisions.
ShardsWhole == MarkedIsWritten /\ ShardsCoverOnce
=============================================================================
