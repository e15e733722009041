---------------------------- MODULE ForwardPass ----------------------------
(***************************************************************************)
(* One forward pass on one rank, operation by operation, over the buffers  *)
(* that the tensors live in.  On CUDA the norms, the rotary embedding and  *)
(* the fused experts write into their inputs, and the callers rely on      *)
(* which; elsewhere they return new tensors; all_reduce is in place        *)
(* everywhere.  A value is symbolic: the sum, as a bag, of the results of  *)
(* layers on values.  Its part says what a rank has of it: all of it, its  *)
(* share of the columns, or a summand.                                     *)
(***************************************************************************)
EXTENDS Layers, Bags

CONSTANTS
  RunConfigs,  \* bound: models run
  Ranks,       \* bound: tensor-parallel sizes
  Platforms    \* bound: of {"cuda", "metax"}

VARIABLES
  model, ranks, platform,
  done,       \* operations done
  heap,     \* the tensors, by address
  reg,      \* x, residual, q, k, v, router: addresses, 0 for None
  kvCache   \* by layer: the keys and values stored

runVars == <<model, ranks, platform, done, heap, reg, kvCache>>

Program == ModelClass(model, ranks).ops
Now == Program[done + 1]

\* With one rank a share or a summand is all there is.
Value(part, sum) == [part |-> IF ranks = 1 THEN "whole" ELSE part, sum |-> sum]
Result(do, at, of) == SetToBag({[do |-> do, at |-> at, of |-> of]})

\* A layer that is given a value in another form than it takes is no use.
Made(part, of, takes) ==
  IF \A i \in DOMAIN of : of[i].part = Value(takes, EmptyBag).part
  THEN Value(part, Result(Now.do, Now.at, [i \in DOMAIN of |-> of[i].sum]))
  ELSE [part |-> "wrong", sum |-> EmptyBag]

NewAddress(n) == Len(heap) + n

RunInit ==
  /\ model \in RunConfigs /\ ranks \in Ranks /\ platform \in Platforms
  /\ Constructs(model, ranks)
  /\ done = 0 /\ heap = <<>> /\ kvCache = [i \in {} |-> 0]
  /\ reg = [r \in {"x", "residual", "q", "k", "v", "router"} |-> 0]

At(do) == done < Len(Program) /\ Now.do = do /\ done' = done + 1 /\ UNCHANGED <<model, ranks, platform>>

\* x becomes a new tensor.
NewX(value) ==
  /\ heap' = Append(heap, value) /\ reg' = [reg EXCEPT !.x = NewAddress(1)]
  /\ UNCHANGED kvCache

\* The tensors at some addresses are overwritten.
Overwrite(values) ==
  /\ heap' = [a \in DOMAIN heap |-> IF a \in DOMAIN values THEN values[a] ELSE heap[a]]
  /\ UNCHANGED <<reg, kvCache>>

X == heap[reg.x]

Embed == At("embed") /\ NewX(Made("summand", <<>>, "whole"))

\* All ranks' summands; of anything else the sum would be nonsense.
AllReduce ==
  At("all_reduce")
    /\ Overwrite(reg.x :> IF X.part = "summand" THEN [X EXCEPT !.part = "whole"]
                          ELSE [X EXCEPT !.part = "wrong"])

FaultyFusedAddNorm(sum, normed) ==
  /\ heap' = [heap EXCEPT ![reg.x] = normed]
  /\ UNCHANGED <<reg, kvCache>>

\* fused_add_rmsnorm
FusedAddNorm(sum, normed) == Overwrite(reg.x :> normed @@ reg.residual :> sum)

\* RMSNormFused.forward: without a residual x itself is the next one.
AddNorm ==
  /\ At("add_norm")
  /\ IF reg.residual = 0
     THEN /\ heap' = Append(heap, Made("whole", <<X>>, "whole"))
          /\ reg' = [reg EXCEPT !.x = NewAddress(1), !.residual = reg.x]
          /\ UNCHANGED kvCache
     ELSE LET res    == heap[reg.residual]
              sum    == [X EXCEPT !.sum = @ (+) res.sum, !.part = IF @ = res.part THEN @ ELSE "wrong"]
              normed == Made("whole", <<sum>>, "whole")
          IN  IF platform = "cuda" THEN FusedAddNorm(sum, normed)
              ELSE /\ heap' = heap \o <<sum, normed>>
                   /\ reg' = [reg EXCEPT !.residual = NewAddress(1), !.x = NewAddress(2)]
                   /\ UNCHANGED kvCache

Column == At("column") /\ NewX(Made("share", <<X>>, "whole"))
Row == At("row") /\ NewX(Made("summand", <<X>>, "share"))
Act == At("act") /\ NewX(Made("share", <<X>>, "share"))

Views == <<"q", "k", "v">>

\* q, k and v are views of one tensor, which is not used again.
Split ==
  /\ At("split")
  /\ heap' = heap \o [i \in 1 .. 3 |-> Value(X.part, Result(Views[i], Now.at, <<X.sum>>))]
  /\ reg' = [reg EXCEPT !.q = NewAddress(1), !.k = NewAddress(2), !.v = NewAddress(3)]
  /\ UNCHANGED kvCache

HeadNorm(r) == Overwrite(reg[r] :> Made("share", <<heap[reg[r]]>>, "share"))
QNorm == At("q_norm") /\ HeadNorm("q")
KNorm == At("k_norm") /\ HeadNorm("k")

\* In place, or two new tensors
Rotary ==
  /\ At("rotary")
  /\ LET rotated(r) == Made("share", <<heap[reg[r]]>>, "share")
     IN  IF platform = "cuda" THEN Overwrite(reg.q :> rotated("q") @@ reg.k :> rotated("k"))
         ELSE /\ heap' = heap \o <<rotated("q"), rotated("k")>>
              /\ reg' = [reg EXCEPT !.q = NewAddress(1), !.k = NewAddress(2)]
              /\ UNCHANGED kvCache

\* The layer stores its keys and values, then reads its own cache.
Attend ==
  /\ At("attend")
  /\ LET layer == Now.at[3]
         have  == (layer :> <<heap[reg.k], heap[reg.v]>>) @@ kvCache
     IN  /\ heap' = Append(heap, Made("share", <<heap[reg.q]>> \o have[layer], "share"))
         /\ kvCache' = have
  /\ reg' = [reg EXCEPT !.x = NewAddress(1)]

Router ==
  /\ At("router")
  /\ heap' = Append(heap, Made("whole", <<X>>, "whole"))
  /\ reg' = [reg EXCEPT !.router = NewAddress(1)]
  /\ UNCHANGED kvCache

\* fused_experts_impl writes its result into hidden_states.
RunExperts ==
  /\ At("experts")
  /\ LET out == Made("summand", <<X, heap[reg.router]>>, "whole")
     IN  IF platform = "cuda" THEN Overwrite(reg.x :> out) ELSE NewX(out)

LMHead == At("lm_head") /\ NewX(Made("share", <<X>>, "whole"))

AllGather ==
  At("all_gather") /\ NewX(IF X.part = "share" THEN [X EXCEPT !.part = "whole"]
                           ELSE [X EXCEPT !.part = "wrong"])

RunNext ==
  Embed \/ AllReduce \/ AddNorm \/ Column \/ Row \/ Act \/ Split \/ QNorm \/ KNorm \/ Rotary
    \/ Attend \/ Router \/ RunExperts \/ LMHead \/ AllGather

-----------------------------------------------------------------------------
(* A transformer by its equations, over whole values *)
Pre(layer) == <<"model", "layers", Numerals[layer]>>

RefKV(layer, y) ==
  LET qkv     == Result("column", Pre(layer) \o <<"self_attn", "qkv_proj">>, <<y>>)
      attn    == Pre(layer) \o <<"self_attn", "attn">>
      view(i) == Result(Views[i], attn, <<qkv>>)
      normed(i, do) == IF model.arch \in {"qwen3", "qwen3_moe"} THEN Result(do, attn, <<view(i)>>) ELSE view(i)
  IN  [q |-> Result("rotary", attn, <<normed(1, "q_norm")>>),
       k |-> Result("rotary", attn, <<normed(2, "k_norm")>>), v |-> view(3)]

RefAttn(layer, y) ==
  LET at == RefKV(layer, y)
      o  == Result("attend", Pre(layer) \o <<"self_attn", "attn">>, <<at.q, at.k, at.v>>)
  IN  Result("row", Pre(layer) \o <<"self_attn", "o_proj">>, <<o>>)

RefMlp(layer, y) ==
  LET mlp == Pre(layer) \o <<"mlp">>
      gateUp == Result("column", mlp \o <<"gate_up_proj">>, <<y>>)
  IN  IF model.arch = "qwen3_moe"
      THEN Result("experts", mlp \o <<"experts">>, <<y, Result("router", mlp \o <<"gate">>, <<y>>)>>)
      ELSE Result("row", mlp \o <<"down_proj">>, <<Result("act", mlp, <<gateUp>>)>>)

RefNorm(path, r) == Result("add_norm", path, <<r>>)
RefAttnInput(layer, r) == RefNorm(Pre(layer) \o <<"input_layernorm">>, r)

\* The residual stream after the first layers
RefStream(count) ==
  FoldLeft(LAMBDA r, layer :
             LET s == r (+) RefAttn(layer, RefAttnInput(layer, r))
             IN  s (+) RefMlp(layer, RefNorm(Pre(layer) \o <<"post_attention_layernorm">>, s)),
           Result("embed", <<"model", "embed_tokens">>, <<>>),
           [i \in 1 .. count |-> i])

RefLogits == Result("lm_head", <<"lm_head">>, <<RefNorm(<<"model", "norm">>, RefStream(model.layers))>>)

(* The logits are those of the transformer, and each layer's cache holds its
   own keys and values: no tensor is overwritten while it is needed, on CUDA
   or elsewhere, and every sum over ranks is taken once, before a norm. *)
ForwardRight ==
  done > 0 /\ done = Len(Program) =>
    /\ X = [part |-> "whole", sum |-> RefLogits]
    /\ \A l \in 1 .. model.layers :
         LET at == RefKV(l, RefAttnInput(l, RefStream(l - 1)))
         IN  <<kvCache[Numerals[l]][1].sum, kvCache[Numerals[l]][2].sum>> = <<at.k, at.v>>
=============================================================================
