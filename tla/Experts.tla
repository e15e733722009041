------------------------------ MODULE Experts ------------------------------
(***************************************************************************)
(* The two mixture-of-experts backends.  FusedMoe sorts the chosen experts *)
(* of all tokens into blocks, runs one kernel program per block and        *)
(* columns for each projection, and adds up the choices of a token; its    *)
(* caches of the first and of the last projection are one buffer, and the  *)
(* result replaces hidden_states.  MetaxMoe goes expert by expert.  Values *)
(* are symbols: which expert, of which input, at which column, weighted by *)
(* which choice.  A choice is a flat index into topk_ids.                  *)
(***************************************************************************)
EXTENDS Integers, Sequences, FiniteSets, SequencesExt, FiniteSetsExt

CONSTANTS
  MaxTokens,   \* bound: tokens of a batch
  NumExperts,
  MaxTopK,     \* bound: experts per token
  Neurons,     \* intermediate size of a rank: half the columns of w1
  HiddenSize,
  FewTokens, ManyTokens  \* get_default_config: [m, n, group]

ASSUME ExpertsAssumption ==
  /\ MaxTokens \in Nat \ {0} /\ NumExperts \in Nat \ {0} /\ MaxTopK \in 1 .. NumExperts
  /\ Neurons \in Nat \ {0} /\ HiddenSize \in Nat \ {0}
  /\ \A c \in {FewTokens, ManyTokens} : {c.m, c.n, c.group} \subseteq Nat \ {0}

VARIABLES
  stage,    \* the step of fused_experts_impl that comes next
  topk,     \* topk_ids
  onInput,  \* apply_router_weight_on_input
  junk,     \* what uninitialised entries hold
  cache,    \* the buffer of intermediate_cache1 and intermediate_cache3
  cache2, hidden

moeVars == <<stage, topk, onInput, junk, cache, cache2, hidden>>

ExpertIds == 0 .. NumExperts - 1
NumTokens == Len(topk)
TopK == Len(topk[1])
NumChoices == NumTokens * TopK
AllChoices == 0 .. NumChoices - 1
ExpertOf(c) == topk[c \div TopK + 1][(c % TopK) + 1]
Cdiv(a, b) == (a + b - 1) \div b

\* get_default_config
Config == IF NumTokens <= NumExperts THEN FewTokens ELSE ManyTokens

-----------------------------------------------------------------------------
(* moe_align_block_size                                                    *)

Padded(n) == Cdiv(n, Config.m) * Config.m
ChoicesOf(e) == SetToSortSeq({c \in AllChoices : ExpertOf(c) = e}, LAMBDA a, b : a < b)
Blocks(e) ==
  LET own == ChoicesOf(e)
  IN  own \o [i \in 1 .. Padded(Len(own)) - Len(own) |-> NumChoices]

Aligned == FlattenSeq([e \in 1 .. NumExperts |-> Blocks(e - 1)])
PostPadded == Len(Aligned)
MaxPadded == NumChoices + (NumExperts + 1) * (Config.m - 1)
SortedTokenIds == Aligned \o [i \in 1 .. MaxPadded - PostPadded |-> junk]
BlockExpert(m) ==
  IF m * Config.m < PostPadded
  THEN CHOOSE e \in ExpertIds :
         LET before == Len(FlattenSeq([i \in 1 .. e |-> Blocks(i - 1)]))
         IN  before <= m * Config.m /\ m * Config.m < before + Len(Blocks(e))
  ELSE 0

-----------------------------------------------------------------------------
(* fused_moe_kernel                                                        *)

FaultyBlockOf(pid, pidsM, pidsN) ==
  LET inGroup == Config.group * pidsN
      first   == (pid \div inGroup) * Config.group
  IN  [m |-> first + ((pid % inGroup) % Config.group), n |-> (pid % inGroup) \div Config.group]

\* Programs are grouped; the last group may have fewer rows.
BlockOf(pid, pidsM, pidsN) ==
  LET inGroup == Config.group * pidsN
      first   == (pid \div inGroup) * Config.group
      rows    == Min({pidsM - first, Config.group})
  IN  [m |-> first + ((pid % inGroup) % rows), n |-> (pid % inGroup) \div rows]

\* What one program stores: masked by valid choices and by the columns
Stores(pid, sorted, columns) ==
  LET b == BlockOf(pid, Cdiv(Len(sorted), Config.m), Cdiv(columns, Config.n))
      expert == BlockExpert(b.m)
  IN  IF b.m * Config.m >= PostPadded THEN {}
      ELSE {[choice |-> sorted[i], col |-> c, expert |-> expert, by |-> pid] :
              i \in {j \in b.m * Config.m + 1 .. (b.m + 1) * Config.m : sorted[j] < NumChoices},
              c \in {d \in b.n * Config.n .. (b.n + 1) * Config.n - 1 : d < columns}}

\* fused_moe_kernel_triton: a is the input, divided by the choices that share
\* a row of it.  Two programs that stored to one entry would leave two values.
Kernel(a, sharing, columns, weighted) ==
  LET sorted   == SortedTokenIds
      programs == 0 .. Cdiv(Len(sorted), Config.m) * Cdiv(columns, Config.n) - 1
      all      == UNION {Stores(pid, sorted, columns) : pid \in programs}
  IN  cache' = [x \in DOMAIN cache |->
        LET stores == {s \in all : s.choice * columns + s.col = x}
        IN  IF stores = {} THEN cache[x]
            ELSE {[expert |-> s.expert, col |-> s.col, by |-> s.by,
                   of |-> a[s.choice \div sharing + 1],
                   weight |-> IF weighted THEN {s.choice} ELSE {}] : s \in stores}]

-----------------------------------------------------------------------------
(* FusedMoe.forward                                                        *)

Columns == 2 * Neurons

MoeInit ==
  /\ \E n \in 1 .. MaxTokens, k \in 1 .. MaxTopK :
       topk \in [1 .. n -> {s \in [1 .. k -> ExpertIds] : IsInjective(s)}]
  /\ onInput \in BOOLEAN /\ junk \in {0, NumChoices}
  /\ stage = "up"
  /\ cache = [x \in 0 .. NumChoices * Max({Columns, HiddenSize}) - 1 |-> {}]
  /\ cache2 = <<>>
  /\ hidden = [t \in 1 .. NumTokens |-> t]

Go(from, to) == stage = from /\ stage' = to

Up ==
  /\ Go("up", "activate")
  /\ Kernel(hidden, TopK, Columns, onInput)
  /\ UNCHANGED <<topk, onInput, junk, cache2, hidden>>

\* silu_and_mul: the first half of the columns is the gate.
Activate ==
  /\ Go("activate", "down")
  /\ cache2' = [c \in 1 .. NumChoices |-> [i \in 1 .. Neurons |->
                  [gate |-> cache[(c - 1) * Columns + i - 1],
                   up   |-> cache[(c - 1) * Columns + Neurons + i - 1]]]]
  /\ UNCHANGED <<topk, onInput, junk, cache, hidden>>

Down ==
  /\ Go("down", "reduce")
  /\ Kernel(cache2, 1, HiddenSize, ~onInput)
  /\ UNCHANGED <<topk, onInput, junk, cache2, hidden>>

\* moe_sum_reduce_kernel: the choices of a token, into hidden_states
Reduce ==
  /\ Go("reduce", "done")
  /\ hidden' = [t \in 1 .. NumTokens |-> [h \in 0 .. HiddenSize - 1 |->
                  [k \in 1 .. TopK |-> cache[((t - 1) * TopK + k - 1) * HiddenSize + h]]]]
  /\ UNCHANGED <<topk, onInput, junk, cache, cache2>>

MoeNext == Up \/ Activate \/ Down \/ Reduce

-----------------------------------------------------------------------------
(* MetaxMoe.forward: for each expert, the tokens that chose it in any slot,
   weighted before or after by all slots that did. *)
Metax(t, h) ==
  LET slots(e)  == {k \in 1 .. TopK : topk[t][k] = e}
      weight(e) == {(t - 1) * TopK + k - 1 : k \in slots(e)}
      proj(e, i) == [expert |-> e, col |-> i, of |-> t, weight |-> IF onInput THEN weight(e) ELSE {}]
  IN  {[expert |-> e, col |-> h, weight |-> IF onInput THEN {} ELSE weight(e),
        of |-> [i \in 1 .. Neurons |-> [gate |-> proj(e, i - 1), up |-> proj(e, Neurons + i - 1)]]]
         : e \in {f \in ExpertIds : slots(f) /= {}}}

\* A value of the fused backend without the program that stored it
Plainly(v) == [expert |-> v.expert, col |-> v.col, of |-> v.of, weight |-> v.weight]
Term(stored) ==
  LET only(s) == CHOOSE v \in s : TRUE
      v       == only(stored)
  IN  [Plainly(v) EXCEPT !.of = [i \in 1 .. Neurons |->
         [gate |-> Plainly(only(v.of[i].gate)), up |-> Plainly(only(v.of[i].up))]]]

(* The fused backend comes to what the MetaX one does: each token gets one
   term from each expert it chose, with its weight in the right place, stored
   by one program, though the last group of programs is smaller, blocks are
   padded, the buffers hold junk and are used again. *)
BackendsMatch ==
  stage = "done" =>
    \A t \in 1 .. NumTokens, h \in 0 .. HiddenSize - 1 :
      /\ \A k \in 1 .. TopK : Cardinality(hidden[t][h][k]) = 1
      /\ {Term(hidden[t][h][k]) : k \in 1 .. TopK} = Metax(t, h)
=============================================================================
