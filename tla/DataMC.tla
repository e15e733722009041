------------------------------- MODULE DataMC -------------------------------
(***************************************************************************)
(* What happens to tokens, weights and text.  The modules share no state:  *)
(* each behaviour here is one of one of them, chosen at the start, the     *)
(* others staying as they begin.                                           *)
(***************************************************************************)
EXTENDS TokenPool, BatchLayout, Loading, ForwardPass, Experts, TextStream, Sampling

VARIABLE part

Parts == {"pool", "batch", "load", "forward", "experts", "text", "sample"}

GraphLists == {{}, {2}, {1, 3}}
TwoNames == <<"0", "1">>
ConfigOf(arch, qo, kv, vocab, mlp, tied, layers) ==
  [arch |-> arch, qo |-> qo, kv |-> kv, vocab |-> vocab, mlp |-> mlp, tied |-> tied, layers |-> layers]
Archs == {"llama", "mistral", "qwen2", "qwen3", "qwen3_moe"}
Models ==
  UNION {{ConfigOf(a, 4, 4, 8, 4, TRUE, 1), ConfigOf(a, 4, 2, 8, 4, FALSE, 1),
          ConfigOf(a, 4, 1, 7, 8, FALSE, 1), ConfigOf(a, 8, 2, 6, 4, TRUE, 1)} : a \in Archs}
TwoLayers == {ConfigOf(a, 2, 2, 4, 2, TRUE, 2) : a \in Archs}
FewConfig == [m |-> 3, n |-> 2, group |-> 1]
ManyConfig == [m |-> 2, n |-> 1, group |-> 3]
LogitRows == {<<7, 2, 1>>, <<4, 4, 2>>, <<1, 8, 0>>}
Limits == {-1, 0, 1, 2, 3}

\* The parts that stand still begin in one of their states.
Still ==
  /\ part /= "pool" => overlap = TRUE /\ plen = [u \in Uids |-> 1] /\ end = [u \in Uids |-> 2]
  /\ part /= "batch" => pageSize = 1 /\ graphs = {}
  /\ part /= "load" =>
       config = ConfigOf("llama", 4, 4, 8, 4, TRUE, 1) /\ size = 1 /\ rank = 0
  /\ part /= "forward" =>
       model = ConfigOf("llama", 2, 2, 4, 2, TRUE, 2) /\ ranks = 1 /\ platform = "cuda"
  /\ part /= "experts" => topk = <<<<0>>>> /\ onInput = FALSE /\ junk = 0
  /\ part /= "sample" =>
       asked = <<[logits |-> <<7, 2, 1>>, temperature |-> 0, top_k |-> -1, top_p |-> 10]>>

DataInit ==
  /\ part \in Parts
  /\ Still
  /\ PoolInit /\ BatchInit /\ LoadInit /\ RunInit /\ MoeInit /\ TextInit /\ SampleInit

DataNext ==
  /\ UNCHANGED part
  /\ \/ part = "pool" /\ PoolNext
        /\ UNCHANGED <<batchVars, loadVars, moeVars, textVars, sampleVars, runVars>>
     \/ part = "batch" /\ BatchNext
        /\ UNCHANGED <<poolVars, loadVars, moeVars, textVars, sampleVars, runVars>>
     \/ part = "load" /\ LoadNext
        /\ UNCHANGED <<poolVars, batchVars, moeVars, textVars, sampleVars, runVars>>
     \/ part = "forward" /\ RunNext
        /\ UNCHANGED <<poolVars, batchVars, loadVars, moeVars, textVars, sampleVars>>
     \/ part = "experts" /\ MoeNext
        /\ UNCHANGED <<poolVars, batchVars, loadVars, textVars, sampleVars, runVars>>
     \/ part = "text" /\ TextNext
        /\ UNCHANGED <<poolVars, batchVars, loadVars, moeVars, sampleVars, runVars>>
     \/ part = "sample" /\ SampleNext
        /\ UNCHANGED <<poolVars, batchVars, loadVars, moeVars, textVars, runVars>>

DataSpec ==
  DataInit
    /\ [][DataNext]_<<part, poolVars, batchVars, loadVars, runVars, moeVars, textVars, sampleVars>>
=============================================================================
