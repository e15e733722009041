------------------------------- MODULE Layers -------------------------------
(***************************************************************************)
(* The classes a model is built from.  Of each: the parameters that        *)
(* state_dict lists, by their path, with their shape on one rank (the      *)
(* dimension that tensor parallelism divides; the experts of a packed      *)
(* tensor before it), and the operations of forward in their order.  An    *)
(* attribute puts its name before the paths of what it holds.              *)
(***************************************************************************)
EXTENDS Integers, Sequences, SequencesExt, TLC

CONSTANTS
  HeadDim,
  Numerals   \* names of layers and of experts: "0", "1", ...

NoTensors == [n \in {} |-> <<>>]
Class(params, ops) == [params |-> params, ops |-> ops]
Parameter(name, shape) == <<name>> :> shape
Op(do) == <<[do |-> do, at |-> <<>>]>>

Under(name, class) ==
  Class([n \in {<<name>> \o p : p \in DOMAIN class.params} |-> class.params[Tail(n)]],
        [i \in DOMAIN class.ops |-> [class.ops[i] EXCEPT !.at = <<name>> \o @]])

\* The attributes of a class, in the order that its forward calls them
Holds(attributes) ==
  FoldLeft(LAMBDA a, b : Class(a.params @@ b.params, a.ops \o b.ops),
           Class(NoTensors, <<>>), attributes)

DivEven(a, b, replicate) == IF replicate /\ b > a THEN 1 ELSE a \div b
Divides(a, b, replicate) == IF replicate /\ b > a THEN b % a = 0 ELSE a % b = 0
DivCeil(a, b) == (a + b - 1) \div b

\* c: [arch, qo, kv, vocab, mlp, tied, layers]; n: the number of ranks
LocalQo(c, n) == DivEven(c.qo, n, FALSE)
LocalKv(c, n) == DivEven(c.kv, n, TRUE)

\* The layers raise while they are built otherwise.
Constructs(c, n) ==
  Divides(c.qo, n, FALSE) /\ Divides(c.kv, n, TRUE) /\ Divides(c.mlp, n, FALSE)

-----------------------------------------------------------------------------
(* layers                                                                  *)

LinearTPImpl(divided, bias, ops) ==
  Class(Parameter("weight", <<divided>>) @@ IF bias THEN Parameter("bias", <<divided>>) ELSE NoTensors,
        ops)

AllReduced(n, op) == IF n > 1 THEN op \o Op("all_reduce") ELSE op

LinearReplicated == LinearTPImpl(1, FALSE, Op("router"))
LinearColParallelMerged(sizes, n) ==
  LinearTPImpl(FoldLeft(LAMBDA sum, size : sum + DivEven(size, n, FALSE), 0, sizes), FALSE, Op("column"))
LinearQKVMerged(c, n, bias) ==
  LinearTPImpl((LocalQo(c, n) + 2 * LocalKv(c, n)) * HeadDim, bias, Op("column"))

LinearOProj(isize, n) == LinearTPImpl(DivEven(isize, n, FALSE), FALSE, AllReduced(n, Op("row")))
LinearRowParallel(isize, n) == LinearTPImpl(DivEven(isize, n, FALSE), FALSE, AllReduced(n, Op("row")))

MoELayer(c, n) ==
  LET local == DivEven(c.mlp, n, FALSE)
  IN  Class(Parameter("gate_up_proj", <<Len(Numerals), 2 * local>>)
              @@ Parameter("down_proj", <<Len(Numerals), local>>),
            AllReduced(n, Op("experts")))

VocabParallelEmbedding(c, n) ==
  Class(Parameter("weight", <<DivCeil(c.vocab, n)>>), AllReduced(n, Op("embed")))
ParallelLMHead(c, n) ==
  Class(IF c.tied THEN NoTensors ELSE VocabParallelEmbedding(c, n).params,
        Op("lm_head") \o IF n > 1 THEN Op("all_gather") ELSE <<>>)

\* RMSNorm is called by AttentionLayer, RMSNormFused by the layer it is in.
RMSNorm == Class(Parameter("weight", <<1>>), <<>>)
RMSNormFused == Class(Parameter("weight", <<1>>), Op("add_norm"))

\* A StateLessOP: it holds the norms of RopeAttn but does not list them again.
AttentionLayer(normed) ==
  Class(NoTensors, Op("split") \o (IF normed THEN Op("q_norm") \o Op("k_norm") ELSE <<>>)
                     \o Op("rotary") \o Op("attend"))

OPList(ops) == Holds([i \in DOMAIN ops |-> Under(Numerals[i], ops[i])])

-----------------------------------------------------------------------------
(* models                                                                  *)

GatedMLP(c, n) ==
  Holds(<<Under("gate_up_proj", LinearColParallelMerged(<<c.mlp, c.mlp>>, n)),
          Class(NoTensors, Op("act")),
          Under("down_proj", LinearRowParallel(c.mlp, n))>>)
MoEMLP(c, n) == Holds(<<Under("gate", LinearReplicated), Under("experts", MoELayer(c, n))>>)
RopeAttn(c, n, bias, normed) ==
  Holds(<<Under("qkv_proj", LinearQKVMerged(c, n, bias))>>
          \o (IF normed THEN <<Under("q_norm", RMSNorm), Under("k_norm", RMSNorm)>> ELSE <<>>)
          \o <<Under("attn", AttentionLayer(normed)),
               Under("o_proj", LinearOProj(HeadDim * c.qo, n))>>)

DecoderLayer(attn, mlp) ==
  Holds(<<Under("input_layernorm", RMSNormFused), Under("self_attn", attn),
          Under("post_attention_layernorm", RMSNormFused), Under("mlp", mlp)>>)
LlamaDecoderLayer(c, n) == DecoderLayer(RopeAttn(c, n, FALSE, FALSE), GatedMLP(c, n))
MistralDecoderLayer(c, n) == DecoderLayer(RopeAttn(c, n, FALSE, FALSE), GatedMLP(c, n))
Qwen2DecoderLayer(c, n) == DecoderLayer(RopeAttn(c, n, TRUE, FALSE), GatedMLP(c, n))
Qwen3DecoderLayer(c, n) == DecoderLayer(RopeAttn(c, n, FALSE, TRUE), GatedMLP(c, n))
Qwen3MoeDecoderLayer(c, n) == DecoderLayer(RopeAttn(c, n, FALSE, TRUE), MoEMLP(c, n))

Model(c, n, layer) ==
  Holds(<<Under("embed_tokens", VocabParallelEmbedding(c, n)),
          Under("layers", OPList([i \in 1 .. c.layers |-> layer])),
          Under("norm", RMSNormFused)>>)
LlamaModel(c, n) == Model(c, n, LlamaDecoderLayer(c, n))
MistralModel(c, n) == Model(c, n, MistralDecoderLayer(c, n))
Qwen2Model(c, n) == Model(c, n, Qwen2DecoderLayer(c, n))
Qwen3Model(c, n) == Model(c, n, Qwen3DecoderLayer(c, n))
Qwen3MoeModel(c, n) == Model(c, n, Qwen3MoeDecoderLayer(c, n))

ForCausalLM(c, n, model) ==
  Holds(<<Under("model", model), Under("lm_head", ParallelLMHead(c, n))>>)
LlamaForCausalLM(c, n) == ForCausalLM(c, n, LlamaModel(c, n))
MistralForCausalLM(c, n) == ForCausalLM(c, n, MistralModel(c, n))
Qwen2ForCausalLM(c, n) == ForCausalLM(c, n, Qwen2Model(c, n))
Qwen3ForCausalLM(c, n) == ForCausalLM(c, n, Qwen3Model(c, n))
Qwen3MoeForCausalLM(c, n) == ForCausalLM(c, n, Qwen3MoeModel(c, n))

\* get_model_class
ModelClass(c, n) ==
  CASE c.arch = "llama" -> LlamaForCausalLM(c, n)
    [] c.arch = "mistral" -> MistralForCausalLM(c, n)
    [] c.arch = "qwen2" -> Qwen2ForCausalLM(c, n)
    [] c.arch = "qwen3" -> Qwen3ForCausalLM(c, n)
    [] c.arch = "qwen3_moe" -> Qwen3MoeForCausalLM(c, n)
=============================================================================
