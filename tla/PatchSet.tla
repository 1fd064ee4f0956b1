------------------------------- MODULE PatchSet -------------------------------
(***************************************************************************)
(* What the scripts of sglang_patches hand to the runner: their targets,   *)
(* gates and edits, script by script.  Of a replaced or inserted text only *)
(* this is kept: whether it still contains its anchor (`keeps`), and which *)
(* pieces that other edits or gates look for it brings into the file or    *)
(* takes out of it.  <<"...", 9>> are pieces that only gates look for.     *)
(***************************************************************************)
EXTENDS Naturals, Sequences

LOCAL Edit(name, spellings, all, keeps) ==
    [name |-> name, mark |-> name, spellings |-> spellings, all |-> all, keeps |-> keeps, marks |-> TRUE,
     only |-> {}, unless |-> {}, onChange |-> FALSE, brings |-> {}, breaks |-> {}]

\* Patch.replace, replace_any with n spellings, replace_all with n occurrences,
\* and the same with a new text that contains the old one
Replace(name) == Edit(name, 1, FALSE, {})
ReplaceAny(name, n) == Edit(name, n, FALSE, {})
ReplaceEach(name, n) == Edit(name, n, TRUE, {})
InsertAfter(name) == Edit(name, 1, FALSE, {1})
InsertAny(name, n) == Edit(name, n, FALSE, 1 .. n)
Prepend(name) == Edit(name, 0, FALSE, {})

\* Patch(name, target, when, alt_targets) with the edits of its function
On(file, edits) ==
    [kind |-> "edit", file |-> file, alt |-> {}, settings |-> {}, has |-> {}, lacks |-> {}, asks |-> FALSE,
     quiet |-> FALSE, stops |-> {}, edits |-> edits, source |-> {}, first |-> TRUE]
\* write_module(path, source)
Module(file, source) == [On(file, <<>>) EXCEPT !.kind = "write", !.source = source]

----------------------------------------------------------------------------
(* p10 - p13: loading of weights *)

p10 == <<On("weight_utils.py",
           <<[InsertAfter("p10.logger") EXCEPT !.unless = {<<"module logger", 9>>}, !.brings = {<<"module logger", 9>>}],
             Replace("p10.single"),
             InsertAfter("p10.buffered"),
             [Replace("p10.threads") EXCEPT !.only = {<<"multi thread iterator", 9>>}],
             [Prepend("p10.os") EXCEPT !.onChange = TRUE]>>)>>
p11 == <<On("weight_utils.py", <<Replace("p11.device"), ReplaceAny("p11.nogds", 2)>>)>>
p12 == <<On("loader.py", <<[Replace("p12.loop") EXCEPT !.brings = {<<"p12.log", 1>>}], InsertAfter("p12.log")>>)>>
p13 == <<[On("common.py", <<Replace("p13.meminfo")>>) EXCEPT !.settings = {{"GLM-5"}}]>>

(* p20 - p29: quantization *)

p20 == <<On("moe_wna16.py", <<Replace("p20.w13"), Replace("p20.w2")>>)>>
p21 == <<[On("model_config.py", <<Replace("p21.dispatch")>>)
              EXCEPT !.lacks = {<<"model_config.py", <<"has_modelopt_nvfp4_layers", 9>>>>}]>>
p22 == <<[On("modelopt_quant.py", <<Replace("p22.method"), Replace("p22.probe")>>)
              EXCEPT !.lacks = {<<"modelopt_quant.py", <<"native W4A16", 9>>>>}]>>
p23 == <<On("modelopt_quant.py", <<InsertAfter("p23.slice")>>)>>
p24 == <<On("linear.py", <<ReplaceEach("p24.merged", 2), ReplaceEach("p24.qkv", 2)>>)>>
p25 == <<On("compressed_utils.py", <<InsertAfter("p25.ignore")>>)>>
p26 == <<[On("cutlass_moe.py", <<Replace("p26.zero")>>)
              EXCEPT !.has = {{<<"cutlass_moe.py", <<"def cutlass_moe_fp4", 9>>>>}}]>>
p27 == <<On("fp8_utils.py", <<InsertAfter("p27.dtype")>>)>>
p28 == <<[On("modelopt_quant.py", <<Replace("p28.params"), Replace("p28.assert")>>)
              EXCEPT !.has = {{<<"modelopt_quant.py", <<"CutlassMoEParams", 9>>>>}}]>>
\* Either copy of the library may be absent.
p29 == <<[On("nvidia mma.py", <<[ReplaceEach("p29.nvidia", 2) EXCEPT !.keeps = 1 .. 2]>>) EXCEPT !.quiet = TRUE],
         [On("flashinfer mma.py", <<[ReplaceEach("p29.flashinfer", 2) EXCEPT !.keeps = 1 .. 2]>>) EXCEPT !.quiet = TRUE]>>

(* p30 - p36: sparse attention *)

p30_enum == <<On("paged_mqa_logits_backend.py", <<Replace("p30.enum"), ReplaceAny("p30.resolve", 2)>>)>>
p30_serverargs == <<[On("exec_.py", <<ReplaceAny("p30.choices", 2), Replace("p30.help")>>) EXCEPT !.alt = {"server_args.py"}]>>
\* _write_torch_kernel_module: not over a file with its marker
p30_module == <<[Module("torch_paged_mqa_logits.py",
                        {<<"torch kernel", 9>>, <<"p35.import", 1>>, <<"p35.dispatch", 1>>})
                    EXCEPT !.stops = {<<"torch_paged_mqa_logits.py", <<"torch kernel", 9>>>>}]>>
p30_dsa_backend == <<On("dsa_backend.py",
                      <<InsertAny("p30.import", 3), InsertAny("p30.init", 2), Replace("p30.siteA"), Replace("p30.siteB"),
                        Replace("p30.refresh")>>)>>
p30_dsa_indexer == <<On("dsa_indexer.py",
                      <<InsertAfter("p30.indexer"), Replace("p30.native"), Replace("p30.metadata"),
                        ReplaceAny("p30.branch", 2)>>)>>

\* is_kernels_namespace is FALSE in the layout before it
p31_server_args == <<[On("server_args.py", <<Replace("p31.choices")>>) EXCEPT !.settings = {{"before kernels namespace"}}]>>
\* One guard for the three edits: p33 rewrites what the third brings.
p31_dsa_backend ==
    <<[On("dsa_backend.py",
          <<[InsertAfter("p31.init") EXCEPT !.brings = {<<"p33.S1", 1>>}], Replace("p31.dispatch"),
            [InsertAfter("p31.method") EXCEPT !.brings = {<<"p33.S2", 1>>, <<"p33.S3", 1>>, <<"p33.S4", 1>>, <<"p33.S5", 1>>}]>>)
          EXCEPT !.settings = {{"before kernels namespace"}}, !.stops = {<<"dsa_backend.py", <<"p31.init", 0>>>>}]>>
p32 == <<On("dsa_backend.py", <<[InsertAfter("p32.prefill") EXCEPT !.brings = {<<"p33.S7", 1>>}]>>)>>
p33 ==
    LET Rewrites(e) == [e EXCEPT !.breaks = {<<"p31.method", 0>>}]
    IN  <<[On("dsa_backend.py",
              <<InsertAfter("p33.S1"), Rewrites(Replace("p33.S2")), Rewrites(Replace("p33.S3")),
                Rewrites(Replace("p33.S4")), Rewrites(InsertAfter("p33.S5")), InsertAfter("p33.S6"), Replace("p33.S7")>>)
              EXCEPT !.settings = {{"before kernels namespace"}}]>>

p34_mixin == <<[On("model_runner_kv_cache_mixin.py", <<ReplaceAny("p34.bypass", 4)>>)
                    EXCEPT !.alt = {"kv_cache_configurator.py"}]>>
p34_dsa_backend ==
    <<On("dsa_backend.py", <<InsertAfter("p34.gate"), ReplaceAny("p34.rope", 2), Replace("p34.view"), ReplaceAny("p34.auto", 2)>>)>>
p34_forward_mla == <<On("forward_mla.py", <<ReplaceAny("p34.fuse", 3)>>)>>

p35_module == <<[Module("triton_paged_mqa_logits.py", {<<"triton kernel", 9>>})
                     EXCEPT !.stops = {<<"triton_paged_mqa_logits.py", <<"triton kernel", 9>>>>}]>>
\* The target is the module that p30 writes.
p35_dispatch == <<On("torch_paged_mqa_logits.py", <<InsertAfter("p35.import"), InsertAfter("p35.dispatch")>>)>>
p36 == <<[On("flashinfer_backend.py", <<[Replace("p36.plan") EXCEPT !.brings = {<<"uniform_q_len argument", 9>>}]>>)
              EXCEPT !.has = {{<<"prefill.py", <<"uniform_q_len", 9>>>>}},
                     !.lacks = {<<"flashinfer_backend.py", <<"uniform_q_len argument", 9>>>>}]>>

(* p37: verification against a four-bit cache *)

p37_route == <<[On("hybrid_attn_backend.py", <<Replace("p37.route")>>)
                    EXCEPT !.has = {{<<"trtllm_mha_backend.py", <<"decode_uses_native_fp4", 9>>>>}}]>>
p37_trtllm ==
    <<[On("trtllm_mha_backend.py",
          <<[Replace("p37.guard") EXCEPT !.only = {<<"decode only", 9>>, <<"p37.guard", 0>>}, !.breaks = {<<"decode only", 9>>}],
            [Replace("p37.write") EXCEPT !.unless = {<<"native kv write", 9>>}],
            ReplaceAny("p37.read", 3), ReplaceAny("p37.scales", 2),
            [ReplaceAny("p37.call", 4) EXCEPT !.keeps = {4}],
            [Replace("p37.ragged") EXCEPT !.only = {<<"is_ragged_verify", 9>>}],
            InsertAfter("p37.mask")>>)
          EXCEPT !.has = {{<<"trtllm_mha_backend.py", <<"decode_uses_native_fp4", 9>>>>}}]>>
p37_dfill ==
    <<[On("flashinfer_backend.py",
          <<InsertAfter("p37.dprefix"), Replace("p37.dfill"), InsertAfter("p37.dscatter"), InsertAfter("p37.dmeta"),
            InsertAny("p37.dgraph", 2)>>)
          EXCEPT !.has = {{<<"memory_pool.py", <<"dequant_workspace", 9>>>>}}]>>

(* p40 - p44: draft models *)

LOCAL HunyuanDraft(p) == [p EXCEPT !.settings = {{"hunyuan"}, {"speculative"}}]
p40 == <<HunyuanDraft(On("hunyuan_v3_nextn.py", <<Replace("p40.bf16")>>))>>
p41 == <<[HunyuanDraft(On("hunyuan_v3_nextn.py", <<[Replace("p41.norm") EXCEPT !.brings = {<<"final_layernorm", 9>>}]>>))
              EXCEPT !.lacks = {<<"hunyuan_v3_nextn.py", <<"final_layernorm", 9>>>>}]>>
p42 == <<[On("deepseek_nextn.py", <<ReplaceAny("p42.mixed", 2)>>) EXCEPT !.settings = {{"speculative"}}]>>
p43 == <<On("qwen3_5_mtp.py", <<ReplaceAny("p43.quant", 3)>>)>>
p44 == <<[On("qwen3_5_mtp.py", <<[Replace("p44.scale") EXCEPT !.brings = {<<"mapper.apply", 9>>}]>>)
              EXCEPT !.lacks = {<<"qwen3_5_mtp.py", <<"mapper.apply", 9>>>>}]>>

(* p50 - p60: models *)

p50 == <<[On("qwen3_5.py", <<[ReplaceEach("p50.quant", 2) EXCEPT !.breaks = {<<"modelopt_fp4 test", 9>>}]>>)
              EXCEPT !.has = {{<<"qwen3_5.py", <<"modelopt_fp4 test", 9>>>>}}]>>
p51 == <<[On("qwen3_5.py",
             <<ReplaceEach("p51.config", 2), [InsertAfter("p51.mapper") EXCEPT !.brings = {<<"mapper", 9>>}],
               [ReplaceEach("p51.apply", 2) EXCEPT !.keeps = 1 .. 2]>>)
              EXCEPT !.lacks = {<<"qwen3_5.py", <<"mapper", 9>>>>}]>>
p52 == <<On("mllama4.py", <<Replace("p52.a"), Replace("p52.b"), Replace("p52.c"), Replace("p52.d")>>)>>
p53 == <<On("llama4.py", <<Replace("p53.attention")>>), On("mllama4.py", <<Replace("p53.a"), Replace("p53.b")>>)>>
\* The text of the second edit is what both look for.
p54 == <<On("transformers.py", <<[Replace("p54.lookup") EXCEPT !.mark = "p54.note", !.marks = FALSE], InsertAfter("p54.note")>>)>>
p55 == <<On("minimax_m2.py", <<InsertAfter("p55.set")>>)>>
p56 == <<On("configuration_deepseek_v3.py", <<Replace("p56.rank")>>)>>
p57 == <<On("hf config.py", <<ReplaceAny("p57.config", 2)>>)>>
p58 == <<On("tokenizer.py", <<Replace("p58.native")>>)>>
\* The new home of the declaration first: where it exists the old is a shim.
p59_overrides == <<[On("nemotron_h.py", <<ReplaceAny("p59.dispatch", 2), ReplaceAny("p59.header", 2), ReplaceAny("p59.assert", 2)>>)
                        EXCEPT !.alt = {"overrides.py"}]>>
p59_scheduler == <<[On("scheduler.py", <<[Replace("p59.scheduler") EXCEPT !.breaks = {<<"MM models", 9>>}]>>)
                        EXCEPT !.has = {{<<"scheduler.py", <<"MM models", 9>>>>, <<"scheduler.py", <<"p59.scheduler", 0>>>>}}]>>
p59_server_args == <<[On("server_args.py", <<Replace("p59.list")>>) EXCEPT !.has = {{<<"server_args.py", <<"p59.list", 1>>>>}}]>>
p60 == <<On("cpp_ext.py", <<Replace("p60.version")>>)>>

(* p62 - p64: one model's parsers *)

LOCAL Hunyuan(p) == [p EXCEPT !.settings = {{"hunyuan", "hunyuan parser"}}]
LOCAL ResolveTokens == <<"resolve_hunyuan_tokens", 9>>
p62 == <<[Hunyuan(On("hunyuan_detector.py",
                     <<[InsertAfter("p62.helper") EXCEPT !.brings = {ResolveTokens}], Replace("p62.init"), Replace("p62.structure")>>))
              EXCEPT !.stops = {<<"hunyuan_detector.py", ResolveTokens>>}]>>
p63 == <<[Hunyuan(On("reasoning_parser.py", <<[Replace("p63.think") EXCEPT !.brings = {ResolveTokens}]>>))
              EXCEPT !.stops = {<<"reasoning_parser.py", ResolveTokens>>}]>>
p64 == <<Hunyuan(On("hunyuan_v3.py", <<InsertAfter("p64.remap")>>))>>

(* p65 - p70: kernels of this machine *)

p65 ==
    <<[On("qwen_sparse_attn_backend.py",
          <<InsertAfter("p65.veto"),
            [Replace("p65.varlen") EXCEPT !.breaks = {<<"varlen docstring", 9>>, <<"p66.backend", 2>>},
                                          !.brings = {<<"p66.backend", 1>>}]>>)
          EXCEPT !.has = {{<<"qwen_sparse_attn_backend.py", <<"varlen docstring", 9>>>>,
                           <<"qwen_sparse_attn_backend.py", <<"p65.veto", 0>>>>}}]>>

GATE == {{<<"qwen_sparse_attn_backend.py", <<"def varlen", 9>>>>}, {<<"registry.py", <<"register_kernel", 9>>>>}}
LOCAL Foreign == <<"kda kernel.py", <<"engine's own", 9>>>>
p66_modules ==
    LET Gated(p) == [p EXCEPT !.has = GATE, !.stops = {Foreign, <<p.file, <<"kda source", 9>>>>}]
    IN  <<Gated(Module("kda __init__.py", {<<"kda source", 9>>})),
          [Gated(Module("qsa __init__.py", {<<"kda source", 9>>})) EXCEPT !.first = FALSE],
          [Gated(Module("kda kernel.py", {<<"kda source", 9>>})) EXCEPT !.first = FALSE]>>
LOCAL Then(p) == [p EXCEPT !.first = FALSE, !.has = GATE]
p66_topology == <<[Then(On("qsa __init__.py", <<Replace("p66.topology")>>)) EXCEPT !.settings = {{"TP4"}}, !.has = @ \cup {{Foreign}}]>>
p66_ops == <<[Then(On("ops __init__.py", <<Replace("p66.imports"), Replace("p66.registration")>>)) EXCEPT !.asks = TRUE]>>
p66_backend == <<[Then(On("qwen_sparse_attn_backend.py", <<[ReplaceAny("p66.backend", 2) EXCEPT !.keeps = {1}]>>))
                      EXCEPT !.asks = TRUE, !.settings = {{"TP1", "TP2", "TP4"}}]>>
p68 == <<[On("tilelang_kernel.py", <<Replace("p68.tile")>>) EXCEPT !.settings = {{"tilelang"}}]>>
p69 == <<On("dsa_indexer_kpool.py", <<Replace("p69.flag"), InsertAfter("p69.arm")>>), On("dsa_backend_kpool.py", <<Replace("p69.metadata")>>)>>
p70 == <<[On("modelopt_quant.py", <<Replace("p70.scope")>>) EXCEPT !.has = {{<<"modelopt_quant.py", <<"fused_patterns", 9>>>>}}]>>

----------------------------------------------------------------------------
(* What the inserted texts import from other files that patches make or    *)
(* change: the edit, its file, the file it imports from and what of it.    *)

LOCAL Import(file, name, from, needs) == [file |-> file, mark |-> <<name, 0>>, from |-> from, needs |-> needs]

\* p66 asks whether its modules are there.
AskedImports == {Import("ops __init__.py", "p66.registration", f, {}) : f \in {"kda __init__.py", "qsa __init__.py", "kda kernel.py"}}
OtherImports ==
    {Import("dsa_indexer.py", "p30.indexer", "torch_paged_mqa_logits.py", {}),
     Import("dsa_indexer.py", "p30.native", "paged_mqa_logits_backend.py", {<<"p30.enum", 0>>}),
     Import("reasoning_parser.py", "p63.think", "hunyuan_detector.py", {ResolveTokens}),
     Import("qwen_sparse_attn_backend.py", "p66.backend", "ops __init__.py", {<<"p66.registration", 0>>})}

\* The loop of sglang_launch.sh: p[0-9][0-9]_*.py in the order of their names
AllPatches ==
    p10 \o p11 \o p12 \o p13 \o p20 \o p21 \o p22 \o p23 \o p24 \o p25 \o p26 \o p27 \o p28 \o p29
    \o p30_enum \o p30_serverargs \o p30_module \o p30_dsa_backend \o p30_dsa_indexer
    \o p31_server_args \o p31_dsa_backend \o p32 \o p33 \o p34_mixin \o p34_dsa_backend \o p34_forward_mla
    \o p35_module \o p35_dispatch \o p36
    \o p37_route \o p37_trtllm \o p37_dfill
    \o p40 \o p41 \o p42 \o p43 \o p44 \o p50 \o p51 \o p52 \o p53 \o p54 \o p55 \o p56 \o p57 \o p58
    \o p59_overrides \o p59_scheduler \o p59_server_args \o p60
    \o p62 \o p63 \o p64 \o p65 \o p66_modules \o p66_topology \o p66_ops \o p66_backend \o p68 \o p69 \o p70
=============================================================================
