------------------------------ MODULE Sampling ------------------------------
(***************************************************************************)
(* Sampler: the parameters of a batch become tensors of temperatures,      *)
(* top_k and top_p, each left out when no request needs it; the native     *)
(* sampler then narrows every row of logits and draws from what is left.   *)
(* A row is the weights of its softmax at temperature one; the temperature *)
(* MIN_T leaves only the greatest.  top_p is in tenths; MIN_P rounds to 0. *)
(* A batch of greedy requests alone takes the argmax, which is one index;  *)
(* multinomial may draw any of the greatest.                               *)
(***************************************************************************)
EXTENDS Integers, Sequences, FiniteSets, SequencesExt, FiniteSetsExt

CONSTANTS
  Logits,                     \* bound: rows of weights
  Temperatures, TopKs, TopPs, \* bound: sampling parameters
  MaxSampled                  \* bound: requests of a batch

VARIABLES
  asked,    \* the batch: parameters and logits of each request
  args,     \* BatchSamplingArgs
  drawable  \* for each request the tokens that may be drawn

sampleVars == <<asked, args, drawable>>

Absent == <<>>
NoArgs == [temperatures |-> Absent, top_k |-> Absent, top_p |-> Absent]
VocabSize(r) == Len(r.logits)
Sum1(w, tokens) == FoldSet(LAMBDA i, sum : w[i] + sum, 0, tokens)

IsGreedy(r) == (r.temperature <= 0 \/ r.top_k = 1) /\ r.top_p = 10

\* What prepare makes of a request's own parameters
Sharp(r) == IsGreedy(r) \/ r.temperature <= 0
K(r) == IF r.top_k >= 1 THEN r.top_k ELSE VocabSize(r)
P(r) == IF r.top_p > 10 THEN 10 ELSE r.top_p

FaultyLimitsTopK(rs) == \A i \in DOMAIN rs : K(rs[i]) /= VocabSize(rs[i])

\* Whether any request needs the tensor
LimitsTopK(rs) == \E i \in DOMAIN rs : K(rs[i]) /= VocabSize(rs[i])
LimitsTopP(rs) == \E i \in DOMAIN rs : P(rs[i]) < 10

\* prepare
Args(rs) ==
  IF \A i \in DOMAIN rs : IsGreedy(rs[i]) THEN NoArgs
  ELSE [temperatures |-> [i \in DOMAIN rs |-> Sharp(rs[i])],
        top_k |-> IF LimitsTopK(rs) THEN [i \in DOMAIN rs |-> K(rs[i])] ELSE Absent,
        top_p |-> IF LimitsTopP(rs) THEN [i \in DOMAIN rs |-> P(rs[i])] ELSE Absent]

Greatest(w) == {i \in DOMAIN w : \A j \in DOMAIN w : w[j] <= w[i]}

\* torch.argmax: one index, the first of those that tie
Argmax(w) == Min(Greatest(w))

\* logits / temperatures, and the softmax
Scaled(w, sharp) ==
  IF sharp THEN [i \in DOMAIN w |-> IF i \in Greatest(w) THEN 1 ELSE 0] ELSE w

\* The values not below the k-th greatest
WithinTopK(w, k) == {i \in DOMAIN w : Cardinality({j \in DOMAIN w : w[j] > w[i]}) < k}

\* A token goes once those before it pass p: remove is shifted by one.
Removed(before, own, total, p) == 10 * before > p * total

\* What is left of the tokens, sorted in some descending order: torch.sort
\* promises no order of equal values.
WithinTopP(w, tokens, p) ==
  LET orders == {s \in SetToSeqs(tokens) : \A i \in 1 .. Len(s) - 1 : w[s[i]] >= w[s[i + 1]]}
      before(s, i) == Sum1(w, {s[j] : j \in 1 .. i - 1})
  IN  UNION {{s[i] : i \in {j \in DOMAIN s : ~Removed(before(s, j), w[s[j]], Sum1(w, tokens), p)}} :
               s \in orders}

\* Row i of sample: argmax, or _torch_native_sample
Drawn(rs, a, i) ==
  IF a.temperatures = Absent THEN {Argmax(rs[i].logits)}
  ELSE LET w    == Scaled(rs[i].logits, a.temperatures[i])
           some == IF a.top_k = Absent THEN DOMAIN w ELSE WithinTopK(w, a.top_k[i])
           left == IF a.top_p = Absent \/ a.top_p[i] = 10 THEN some ELSE WithinTopP(w, some, a.top_p[i])
       IN  {t \in left : w[t] > 0}

SampleInit ==
  /\ \E n \in 1 .. MaxSampled :
       asked \in [1 .. n -> [logits : Logits, temperature : Temperatures, top_k : TopKs, top_p : TopPs]]
  /\ args = NoArgs /\ drawable = <<>>

\* prepare with the batch, sample after its forward pass
SampleBatch ==
  /\ drawable = <<>>
  /\ args' = Args(asked)
  /\ drawable' = [i \in DOMAIN asked |-> Drawn(asked, args', i)]
  /\ UNCHANGED asked

SampleNext == SampleBatch

-----------------------------------------------------------------------------
Alone(r) == Drawn(<<r>>, Args(<<r>>), 1)
Ties(r) == Cardinality(Greatest(r.logits)) > 1
AllGreedy == \A i \in DOMAIN asked : IsGreedy(asked[i])

(* What a request may draw does not depend on the requests it shares the
   batch with: one without limits keeps all its tokens, though the tensors are
   there for another's sake, and a greedy one gets the greatest.  One thing
   does depend on them: of tokens that tie, a greedy request gets the argmax
   while all in the batch are greedy, and any of them beside one that is not. *)
PeersIrrelevant ==
  drawable /= <<>> =>
    \A i \in DOMAIN asked :
      LET r == asked[i]
      IN  \/ drawable[i] = Alone(r)
          \/ IsGreedy(r) /\ Ties(r) /\ ~AllGreedy /\ drawable[i] = Greatest(r.logits)

(* A token may be drawn only if fewer than top_k are likelier and the
   likelier ones, of those that top_k leaves, do not pass top_p.  One of the
   likeliest always may, and all such tokens may unless all in the batch are
   greedy: then it is one fixed token. *)
LikelyDrawn ==
  drawable /= <<>> =>
    \A i \in DOMAIN asked :
      LET r == asked[i]
          w == Scaled(r.logits, Sharp(r))
          likelier(t) == {u \in DOMAIN w : w[u] > w[t]}
          some == {t \in DOMAIN w : Cardinality(likelier(t)) < K(r)}
          may  == {t \in some : w[t] > 0 /\ 10 * Sum1(w, likelier(t)) <= P(r) * Sum1(w, some)}
      IN  /\ drawable[i] \subseteq may /\ drawable[i] \intersect Greatest(r.logits) /= {}
          /\ IF AllGreedy THEN Cardinality(drawable[i]) = 1 ELSE drawable[i] = may

(* Sampling draws by a request's own parameters, and as they say,
   up to which of tied tokens a greedy one gets. *)
DrawnRight == PeersIrrelevant /\ LikelyDrawn
=============================================================================
