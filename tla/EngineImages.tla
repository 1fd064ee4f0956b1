----------------------------- MODULE EngineImages -----------------------------
(***************************************************************************)
(* The engines that the checks install: the layout before the kernels      *)
(* namespace and the one with it, each as the patches expect it, and each  *)
(* with one thing different from that.                                     *)
(***************************************************************************)
EXTENDS PatchSet, TLC

Layouts == {"old", "new"}

Scripts == {AllPatches[i] : i \in 1 .. Len(AllPatches)}
LOCAL EditsOf(p) == {p.edits[i] : i \in 1 .. Len(p.edits)}
Written == {p.file : p \in {x \in Scripts : x.kind = "write"}}

LOCAL Elsewhere(layout) ==
    IF layout = "old"
    THEN {"exec_.py", "nemotron_h.py", "kv_cache_configurator.py", "registry.py", "ops __init__.py", "tilelang_kernel.py"}
    ELSE {"model_runner_kv_cache_mixin.py"}

\* Where a patch finds its text
LOCAL Home(p, layout) ==
    IF p.file \notin Elsewhere(layout) THEN p.file
    ELSE IF p.alt = {} THEN "nowhere" ELSE CHOOSE f \in p.alt : TRUE

\* Pieces that gates look for
LOCAL Pieces(layout) ==
    {<<"cutlass_moe.py", <<"def cutlass_moe_fp4", 9>>>>, <<"modelopt_quant.py", <<"CutlassMoEParams", 9>>>>,
     <<"prefill.py", <<"uniform_q_len", 9>>>>, <<"trtllm_mha_backend.py", <<"decode_uses_native_fp4", 9>>>>,
     <<"memory_pool.py", <<"dequant_workspace", 9>>>>, <<"qwen3_5.py", <<"modelopt_fp4 test", 9>>>>,
     <<"scheduler.py", <<"MM models", 9>>>>, <<"qwen_sparse_attn_backend.py", <<"varlen docstring", 9>>>>,
     <<"qwen_sparse_attn_backend.py", <<"def varlen", 9>>>>, <<"modelopt_quant.py", <<"fused_patterns", 9>>>>}
    \cup IF layout = "old"
         THEN {<<"weight_utils.py", <<"multi thread iterator", 9>>>>, <<"trtllm_mha_backend.py", <<"decode only", 9>>>>}
         ELSE {<<"weight_utils.py", <<"module logger", 9>>>>, <<"trtllm_mha_backend.py", <<"native kv write", 9>>>>,
               <<"trtllm_mha_backend.py", <<"is_ragged_verify", 9>>>>, <<"registry.py", <<"register_kernel", 9>>>>}

\* Anchors that another edit brings, or that a layout has no more or not yet
Brought == UNION {UNION {e.brings : e \in EditsOf(p)} : p \in Scripts} \cup UNION {p.source : p \in Scripts}
LOCAL Absent(layout) == IF layout = "old" THEN {<<"p37.ragged", 1>>}
                        ELSE {<<"p10.threads", 1>>, <<"p37.write", 1>>, <<"p37.guard", 1>>}

\* The old layout has the first spelling, the new one the last.
LOCAL Spelled(e, layout, brought) ==
    LET all == {<<e.name, k>> : k \in 1 .. e.spellings}
        open == all \ brought
    IN  IF e.all THEN open
        ELSE {a \in open : \A b \in open : IF layout = "old" THEN a[2] <= b[2] ELSE a[2] >= b[2]}

LOCAL Text(f, layout) ==
    LET brought == Brought
        here == {x \in Scripts : x.kind = "edit" /\ Home(x, layout) = f}
    IN  (UNION {UNION {Spelled(e, layout, brought) : e \in EditsOf(p)} : p \in here}
            \cup {c[2] : c \in {x \in Pieces(layout) : x[1] = f}}) \ Absent(layout)

LOCAL Files(layout) ==
    ((UNION {{p.file} \cup p.alt : p \in Scripts} \cup {c[1] : c \in Pieces(layout)}) \ Written) \ Elsewhere(layout)
Engine == "old" :> [f \in Files("old") |-> Text(f, "old")] @@ "new" :> [f \in Files("new") |-> Text(f, "new")]

LOCAL Used(layout) == {"GLM-5", "hunyuan", "speculative", "TP4"}
                      \cup IF layout = "old" THEN {"before kernels namespace"} ELSE {"tilelang"}

----------------------------------------------------------------------------
(* One difference *)

EveryEdit == UNION {EditsOf(p) : p \in Scripts}
EditNames == {e.name : e \in EveryEdit}
Clauses == UNION {UNION p.has : p \in Scripts}
Signs == UNION {p.lacks \cup p.stops : p \in Scripts} \cup Clauses

LOCAL AllAnchors(layout) ==
    LET brought == Brought
        homes == {x \in Scripts : x.kind = "edit" /\ Home(x, layout) # "nowhere"}
    IN  (UNION {UNION {Spelled(e, layout, brought) : e \in EditsOf(p)} : p \in homes}) \ Absent(layout)

\* Anchors that are taken away.  Of the old layout only what it has alone:
\* texts that the new one has in other words, and patches for it.
LOCAL Removable(layout) ==
    IF layout = "new" THEN {a[1] : a \in AllAnchors("new")}
    ELSE {a[1] : a \in AllAnchors("old") \ AllAnchors("new")}
         \cup {e.name : e \in UNION {EditsOf(p) : p \in {x \in Scripts : {"before kernels namespace"} \in x.settings}}}

\* Edits that are not the only one of their patch
LOCAL Companions == UNION {EditsOf(p) : p \in {x \in Scripts : Len(x.edits) > 1}}

Differences(layout) ==
    {<<"none", "">>, <<"other model", "">>, <<"native kernel", "">>, <<"older module", "">>, <<"nothing", "">>}
    \cup {<<"drifted", n>> : n \in Removable(layout)}
    \cup {<<"merged", n>> : n \in IF layout = "new" THEN {e.name : e \in Companions} \cap Removable("new") ELSE {}}
    \cup {<<"missing", f>> : f \in Files(layout) \ IF layout = "old" THEN Files("new") ELSE {}}
    \cup {<<"unusable", f>> : f \in Written}
    \cup {<<"without", c[2][1]>> : c \in Pieces(layout)}
    \cup {<<"with", s[2][1]>> : s \in {x \in Signs : x[2][2] = 9}}

\* The anchors of one edit are gone, or its new text is there instead.
LOCAL Without(text, n) == {a \in text : a[1] # n}
LOCAL Merged(text, n) ==
    LET e == CHOOSE x \in EveryEdit : x.name = n
    IN  IF \E a \in text : a[1] = n
        THEN (Without(text, n) \ e.breaks) \cup e.brings \cup IF e.marks THEN {<<n, 0>>} ELSE {}
        ELSE text

\* The engine ships the kernel of p66 and its registration.
LOCAL Native(files) ==
    [f \in DOMAIN files \cup {"kda __init__.py", "qsa __init__.py", "kda kernel.py"} |->
        CASE f = "kda kernel.py" -> {<<"engine's own", 9>>}
          [] f = "qsa __init__.py" -> {<<"p66.topology", 1>>}
          [] f = "kda __init__.py" -> {}
          [] f = "ops __init__.py" -> {<<"p66.imports", 0>>, <<"p66.registration", 0>>}
          [] f = "qwen_sparse_attn_backend.py" -> files[f] \cup {<<"p66.backend", 0>>}
          [] OTHER -> files[f]]

LOCAL Changed(files, d) ==
    CASE d[1] = "drifted" -> [f \in DOMAIN files |-> Without(files[f], d[2])]
      [] d[1] = "merged" -> [f \in DOMAIN files |-> Merged(files[f], d[2])]
      [] d[1] = "nothing" -> <<>>
      [] d[1] = "missing" -> [f \in DOMAIN files \ {d[2]} |-> files[f]]
      [] d[1] = "without" -> [f \in DOMAIN files |-> files[f] \ {<<d[2], 9>>}]
      [] d[1] = "with" -> [f \in DOMAIN files |->
                              files[f] \cup {s[2] : s \in {x \in Signs : x[1] = f /\ x[2] = <<d[2], 9>>}}]
      [] d[1] = "native kernel" -> Native(files)
      [] d[1] = "older module" ->   \* of an earlier version of p30, with the edits of p35
             [f \in DOMAIN files \cup {"torch_paged_mqa_logits.py"} |->
                 IF f \in DOMAIN files THEN files[f] ELSE {<<"p35.import", 0>>, <<"p35.dispatch", 0>>}]
      [] OTHER -> files

Images == UNION {{l} \X Differences(l) : l \in Layouts}
FilesOf(i) == Changed(Engine[i[1]], i[2])
SettingsOf(i) == IF i[2][1] # "other model" THEN Used(i[1]) ELSE Used(i[1]) \cap {"before kernels namespace"}
UnusableIn(i) == IF i[2][1] = "unusable" THEN {i[2][2]} ELSE {}
CleanImages == {<<l, <<d, "">>>> : l \in Layouts, d \in {"none", "other model", "native kernel", "older module"}}
=============================================================================
