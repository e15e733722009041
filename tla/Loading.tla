------------------------------ MODULE Loading ------------------------------
(***************************************************************************)
(* A checkpoint becomes the parameters of one tensor-parallel rank.        *)
(* load_weight streams the tensors in the order the files have them, cuts  *)
(* this rank's share out of each, fuses q/k/v and gate/up, and stacks the  *)
(* experts; load_state_dict takes the result only if it has exactly the    *)
(* paths and shapes that the model declares.  A tensor is the sequence of  *)
(* its slices along the dimension that is divided, each slice the tensor   *)
(* of the checkpoint and the index it comes from; the other dimensions,    *)
(* dtypes and values are left out.  One decoder layer stands for all.      *)
(* Tensors that are neither fused nor stacked pass through whenever they   *)
(* come, so they come first here, in one order (a bound).                  *)
(***************************************************************************)
EXTENDS Layers, FiniteSets, FiniteSetsExt, Functions

CONSTANTS
  Configs,  \* bound: [arch, qo, kv, vocab, mlp, tied, layers] of a model
  Sizes,    \* bound: tensor-parallel sizes
  MaxBatch  \* bound: requests whose logits are gathered together

ASSUME LoadingAssumption ==
  /\ Sizes \subseteq Nat \ {0} /\ HeadDim \in Nat \ {0}
  /\ \A c \in Configs : c.qo % c.kv = 0 /\ c.tied \in BOOLEAN

VARIABLES
  config, size, rank,
  unread,                  \* names of the checkpoint not read yet
  mergeBuf, expertBuf,     \* merge_buf, expert_buf
  loaded,                  \* the pairs yielded so far
  outcome                  \* "streaming", then "loaded" or "raised"

loadVars == <<config, size, rank, unread, mergeBuf, expertBuf, loaded, outcome>>

Partition == DivCeil(config.vocab, size)
IsMoe == config.arch = "qwen3_moe"
QkNorm == IF config.arch \in {"qwen3", "qwen3_moe"} THEN {"q_norm", "k_norm"} ELSE {}
HasBias == config.arch = "qwen2"

\* What state_dict of the model has: every parameter and its shape
StateDict == ModelClass(config, size).params

-----------------------------------------------------------------------------
(* The checkpoint                                                          *)

InLayer(path) == <<"model", "layers", Numerals[1]>> \o path
Attn(part) == InLayer(<<"self_attn", part, "weight">>)
Mlp(part) == InLayer(<<"mlp", part, "weight">>)
Expert(e, part) == InLayer(<<"mlp", "experts", e, part, "weight">>)
Packed(part) == InLayer(<<"mlp", "experts", part>>)
Embedding == <<"model", "embed_tokens", "weight">>
LmHead == <<"lm_head", "weight">>

MlpParts == {"gate_proj", "up_proj", "down_proj"}
Has(name, parts) == Range(name) \intersect parts /= {}

\* Full tensors: the slices of the dimension that is divided
Slices(name) ==
  CASE Has(name, {"embed_tokens", "lm_head"}) -> config.vocab
    [] Has(name, {"q_proj", "o_proj"}) -> config.qo * HeadDim
    [] Has(name, {"k_proj", "v_proj"}) -> config.kv * HeadDim
    [] Has(name, MlpParts) -> config.mlp
    [] OTHER -> 1
Full(name) == [i \in 1 .. Slices(name) |-> [of |-> name, at |-> i - 1]]

\* A checkpoint may have the head of a tied model; mistral's wraps the language
\* model and has a vision tower.
Plain ==
  {Embedding, LmHead, <<"model", "norm", "weight">>, Attn("o_proj"),
   InLayer(<<"input_layernorm", "weight">>), InLayer(<<"post_attention_layernorm", "weight">>)}
    \union {Attn(p) : p \in QkNorm} \union {Mlp(IF IsMoe THEN "gate" ELSE "down_proj")}
Buffered ==
  {InLayer(<<"self_attn", p, k>>) : p \in {"q_proj", "k_proj", "v_proj"},
                                    k \in {"weight"} \union (IF HasBias THEN {"bias"} ELSE {})}
    \union IF IsMoe THEN {Expert(e, p) : e \in Range(Numerals), p \in MlpParts}
                    ELSE {Mlp(p) : p \in MlpParts \ {"down_proj"}}
Wrapped(names) == IF config.arch = "mistral" THEN {<<"language_model">> \o n : n \in names} ELSE names
Vision == IF config.arch = "mistral" THEN {<<"vision_tower", "q_proj", "weight">>} ELSE {}

LoadInit ==
  /\ config \in Configs /\ size \in Sizes
  /\ Constructs(config, size)
  /\ rank \in 0 .. size - 1
  /\ unread = Wrapped(Plain \union Buffered) \union Vision
  /\ mergeBuf = NoTensors /\ expertBuf = NoTensors /\ loaded = NoTensors /\ outcome = "streaming"

-----------------------------------------------------------------------------
(* load_weight                                                             *)

Chunk(t, r) == LET each == Len(t) \div size IN SubSeq(t, r * each + 1, (r + 1) * each)

FaultyHeadIdx(r) == r % config.kv

\* Which KV head a rank takes when there are more ranks than KV heads
HeadIdx(r) == (r * config.kv) \div size

\* _shard_tensor
Shard(name, t, r) ==
  IF Has(name, {"k_proj", "v_proj"}) /\ config.kv < size
  THEN LET head == Len(t) \div config.kv
       IN  SubSeq(t, HeadIdx(r) * head + 1, (HeadIdx(r) + 1) * head)
  ELSE IF Has(name, {"q_proj", "k_proj", "v_proj", "o_proj"} \union MlpParts) THEN Chunk(t, r)
  ELSE IF Has(name, {"lm_head", "embed_tokens"})
  THEN SubSeq(t, r * Partition + 1, Min({(r + 1) * Partition, Len(t)}))
  ELSE t

\* _MERGE_GROUPS, and the names that fuse with a name
Group(name) ==
  CASE Has(name, {"q_proj", "k_proj", "v_proj"}) ->
         [into |-> "qkv_proj", slots |-> <<"q_proj", "k_proj", "v_proj">>]
    [] Has(name, {"gate_proj", "up_proj"}) ->
         [into |-> "gate_up_proj", slots |-> <<"gate_proj", "up_proj">>]
    [] OTHER -> [into |-> "", slots |-> <<>>]
Renamed(name, part) ==
  [i \in DOMAIN name |-> IF name[i] \in Range(Group(name).slots) THEN part ELSE name[i]]

\* torch.cat(parts): in the order of the slots, whatever came first
Joined(have, slots) == FlattenSeq([i \in DOMAIN slots |-> have[slots[i]]])

\* del merge_buf[merged_key], del expert_buf[packed_key]
Without(buf, names) == Restrict(buf, DOMAIN buf \ names)

\* The pair goes out, or waits until all experts have this parameter.
Emit(name, t) ==
  IF ~(IsMoe /\ Has(name, {"experts"}))
  THEN loaded' = loaded @@ (name :> t) /\ UNCHANGED expertBuf
  ELSE LET have == expertBuf @@ (name :> t)
           part == name[Len(name) - 1]
           all  == {n \in DOMAIN have : Has(n, {part})}
       IN  IF Cardinality(all) /= Len(Numerals) THEN expertBuf' = have /\ UNCHANGED loaded
           ELSE /\ expertBuf' = Without(have, all)
                /\ loaded' = loaded @@ (Packed(part) :>
                     [e \in DOMAIN Numerals |-> have[Expert(Numerals[e], part)]])

Stream(key) ==
  /\ unread' = unread \ {key}
  /\ LET name  == IF key[1] = "language_model" THEN Tail(key) ELSE key
         t     == Shard(name, Full(name), rank)
         group == Group(name)
         slots == [i \in DOMAIN group.slots |-> Renamed(name, group.slots[i])]
         have  == mergeBuf @@ (name :> t)
     IN  IF key[1] = "vision_tower" THEN UNCHANGED <<mergeBuf, expertBuf, loaded>>
         ELSE IF slots = <<>> THEN Emit(name, t) /\ UNCHANGED mergeBuf
         ELSE IF ~(Range(slots) \subseteq DOMAIN have)
         THEN mergeBuf' = have /\ UNCHANGED <<expertBuf, loaded>>
         ELSE /\ mergeBuf' = Without(have, Range(slots))
              /\ Emit(Renamed(name, group.into), Joined(have, slots))
  /\ UNCHANGED <<config, size, rank, outcome>>

StreamPlain ==
  LET plain == unread \ Wrapped(Buffered)
  IN  plain /= {} /\ Stream(CHOOSE n \in plain : TRUE)
StreamBuffered == unread \subseteq Wrapped(Buffered) /\ \E n \in unread : Stream(n)

Shape(name, t) == IF Has(name, {"experts"}) THEN <<Len(t), Len(t[1])>> ELSE <<Len(t)>>

\* load_state_dict: a tied head is dropped, then paths and shapes must match.
LoadStateDict ==
  /\ unread = {} /\ outcome = "streaming"
  /\ LET have == IF config.tied THEN Without(loaded, {LmHead}) ELSE loaded
     IN  outcome' = IF /\ DOMAIN mergeBuf = {} /\ DOMAIN expertBuf = {}
                       /\ DOMAIN have = DOMAIN StateDict
                       /\ \A n \in DOMAIN have : Shape(n, have[n]) = StateDict[n]
                    THEN "loaded" ELSE "raised"
  /\ UNCHANGED <<config, size, rank, unread, mergeBuf, expertBuf, loaded>>

LoadNext == StreamPlain \/ StreamBuffered \/ LoadStateDict

-----------------------------------------------------------------------------
(* What the forward passes make of the parameters                          *)

\* AttentionLayer.forward: the three parts of the fused projection, and the
\* KV head that a query head is grouped with
QkvPart(qkv, first, head, d) == qkv[(first + head) * HeadDim + d + 1]
GroupOf(head) == head \div (LocalQo(config, size) \div LocalKv(config, size))

\* ParallelLMHead.forward for n requests: all_gather stacks the ranks, each
\* with its n rows of Partition scores.  Entry i of the stack:
Gathered(n, i) ==
  LET row == i \div Partition
  IN  [rank |-> row \div n, req |-> row % n, at |-> i % Partition]

\* For one request the stack is read as one row; for more the ranks' rows are
\* brought side by side.
Logit(n, req, token) ==
  IF n = 1 THEN Gathered(1, token)
  ELSE LET block == token \div Partition
       IN  Gathered(n, (block * n + req) * Partition + (token % Partition))

\* VocabParallelEmbedding.forward: a rank adds its row or zero.
Embeds(r, token) ==
  LET local == token - Partition * r
  IN  local >= 0 /\ local < Min({Partition, config.vocab - Partition * r})

-----------------------------------------------------------------------------
(* Whatever order the files are in, nothing is left in a buffer and the rank
   accepts the result, except where the vocabulary does not divide evenly:
   the embedding declares the same rows on every rank, and the ranks whose
   share is smaller raise, alone. *)
LoadsWhole ==
  outcome /= "streaming" => (outcome = "loaded" <=> (rank + 1) * Partition <= config.vocab)

(* A query head meets the key and value head of its own group, also when KV
   heads are replicated, and its output meets its own columns of o_proj. *)
HeadsPaired ==
  outcome = "loaded" =>
    LET qkv == loaded[Attn("qkv_proj")]
    IN  \A h \in 0 .. LocalQo(config, size) - 1, d \in 0 .. HeadDim - 1 :
          LET q    == QkvPart(qkv, 0, h, d)
              k    == QkvPart(qkv, LocalQo(config, size), GroupOf(h), d)
              v    == QkvPart(qkv, LocalQo(config, size) + LocalKv(config, size), GroupOf(h), d)
              want == ((q.at \div HeadDim) \div (config.qo \div config.kv)) * HeadDim + d
          IN  /\ q.of = Attn("q_proj") /\ q.at % HeadDim = d
              /\ k = [of |-> Attn("k_proj"), at |-> want]
              /\ v = [of |-> Attn("v_proj"), at |-> want]
              /\ loaded[Attn("o_proj")][h * HeadDim + d + 1] = [of |-> Attn("o_proj"), at |-> q.at]

(* The halves of gate_up_proj and the columns of down_proj belong to the same
   neurons, expert by expert. *)
NeuronsMatch ==
  outcome = "loaded" =>
    LET local == DivEven(config.mlp, size, FALSE)
        matches(gateUp, down, name(_)) ==
          \A i \in 1 .. local :
            /\ gateUp[i] = [of |-> name("gate_proj"), at |-> down[i].at]
            /\ gateUp[local + i] = [of |-> name("up_proj"), at |-> down[i].at]
            /\ down[i].of = name("down_proj")
    IN  IF IsMoe
        THEN \A e \in DOMAIN Numerals :
               matches(loaded[Packed("gate_up_proj")][e], loaded[Packed("down_proj")][e],
                       LAMBDA p : Expert(Numerals[e], p))
        ELSE matches(loaded[Mlp("gate_up_proj")], loaded[Mlp("down_proj")], Mlp)

OneRank(ranks) == Cardinality(ranks) = 1

(* All ranks together: all_reduce adds every column of a row-parallel layer
   and the row of every token once, and the gathered logits are in the order
   of the requests and of the vocabulary, for one request or many. *)
RanksComplete ==
  outcome = "loaded" =>
    /\ \A name \in {Attn("o_proj"), Mlp("down_proj")} : \A slice \in Range(Full(name)) :
         OneRank({r \in 0 .. size - 1 : slice \in Range(Shard(name, Full(name), r))})
    /\ \A token \in 0 .. config.vocab - 1 :
         /\ OneRank({r \in 0 .. size - 1 : Embeds(r, token)})
         /\ \A n \in 1 .. MaxBatch : \A req \in 0 .. n - 1 :
              LET from == Logit(n, req, token)
                  head == IF config.tied THEN Embedding ELSE LmHead
              IN  /\ from.req = req /\ Embeds(from.rank, token)
                  /\ Shard(head, Full(head), from.rank)[from.at + 1].at = token

(* A rank's parameters are its share of the checkpoint, matched to each other
   and to the other ranks' shares. *)
ShardsRight == LoadsWhole /\ HeadsPaired /\ NeuronsMatch /\ RanksComplete
=============================================================================
