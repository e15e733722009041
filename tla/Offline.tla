------------------------------- MODULE Offline -------------------------------
(***************************************************************************)
(* The offline driver (LLM.generate): a scheduler whose receive_msg takes  *)
(* from a list of prompts instead of a queue, whose send_result appends to *)
(* the outputs, and whose loop ends by an exception when it would block on *)
(* an empty list.  generate may be called again.  Which requests a batch   *)
(* takes is Scheduler.tla's subject: here it is any of those that can run. *)
(***************************************************************************)
EXTENDS Integers, Sequences, FiniteSets, SequencesExt

CONSTANTS
  Loops,       \* bound: the loops a behaviour may run, TRUE for overlap_loop
  MaxCalls,    \* bound: calls of generate
  MaxPrompts,  \* bound: prompts of a call
  Lengths,     \* bound: prompt lengths
  Outputs,     \* bound: max_tokens
  MaxLength,   \* max_seq_len
  Allowance    \* prefill_budget

ASSUME OfflineAssumption ==
  /\ Loops \subseteq BOOLEAN /\ MaxCalls \in Nat /\ MaxPrompts \in Nat
  /\ Lengths \subseteq Nat \ {0} /\ Outputs \subseteq Nat \ {0}
  /\ MaxLength \in Nat /\ Allowance \in Nat \ {0}

VARIABLES
  overlapping, \* which loop runs
  where,       \* "idle" between calls, "loop" in run_forever
  calls,       \* calls of generate so far
  prompts,     \* the prompts of this call
  unfed,       \* pending_requests
  counter,
  outs,        \* status_map: output_ids by uid
  active,      \* requests pending or running in the scheduler
  made,        \* tokens sampled for each uid
  flight,      \* the batch to post-process: <<uid, number of the token>>
  freed,       \* finished_reqs
  stop,        \* where its EOS or stop token ends each output
  results      \* what the last call returned

offlineVars == <<overlapping, where, calls, prompts, unfed, counter, outs, active, made, flight,
                 freed, stop, results>>

Empty == [u \in {} |-> 0]
PromptOf(u) == prompts[u + 1]

\* What _process_one_msg leaves of max_tokens; none drops the request.
Limit(u) ==
  LET room == MaxLength - PromptOf(u).len
  IN  IF PromptOf(u).out < room THEN PromptOf(u).out ELSE room

OfflineInit ==
  /\ overlapping \in Loops /\ where = "idle" /\ calls = 0 /\ prompts = <<>> /\ unfed = <<>>
  /\ counter = 0 /\ outs = Empty /\ active = {} /\ made = Empty /\ flight = {}
  /\ freed = {} /\ stop = Empty /\ results = <<>>

Generate ==
  /\ where = "idle" /\ calls < MaxCalls
  /\ where' = "loop" /\ calls' = calls + 1
  /\ \E n \in 1 .. MaxPrompts :
       prompts' \in [1 .. n -> [len : Lengths, out : Outputs, call : {calls + 1}]]
  /\ unfed' = prompts' /\ counter' = 0 /\ outs' = Empty
  /\ made' = Empty /\ stop' = Empty
  /\ UNCHANGED <<overlapping, active, flight, freed, results>>

\* How many prompts are handed over at once: until their lengths reach the budget
Added ==
  LET sum(n) == FoldSeq(LAMBDA p, s : p.len + s, 0, SubSeq(unfed, 1, n))
  IN  CHOOSE n \in 0 .. Len(unfed) :
        /\ n = Len(unfed) \/ sum(n) >= Allowance
        /\ \A i \in 0 .. n - 1 : sum(i) < Allowance

FaultyBlocking == active = {}

Blocking == active = {} /\ (overlapping => flight = {})

\* run_forever is left, and the next call finds nothing of this one.
AllFinished ==
  /\ where = "loop" /\ Blocking /\ unfed = <<>>
  /\ where' = "idle" /\ flight' = {}
  /\ results' = [i \in DOMAIN prompts |-> outs[i - 1]]
  /\ UNCHANGED <<overlapping, calls, prompts, unfed, counter, outs, active, made, freed, stop>>

\* self.counter += added
Counted == counter + Added

\* offline_send_result: the EOS that finishes a request is not part of its output.
Kept(u, eos) == u \notin eos

\* A tick: feed the scheduler, run a batch of what can run, and post-process
\* this batch, or in overlap_loop the one before it.  Whether a request is
\* finished is read after the new batch has counted its token.
Tick ==
  /\ where = "loop" /\ ~(Blocking /\ unfed = <<>>)
  /\ counter' = Counted /\ unfed' = SubSeq(unfed, Added + 1, Len(unfed))
  /\ LET new  == counter .. counter + Added - 1
         all  == DOMAIN outs \union new
         have == active \union {u \in new : Limit(u) > 0}
         count(u) == IF u \in DOMAIN made THEN made[u] ELSE 0
         runnable == {u \in have : count(u) < Limit(u)}
     IN  \E batch \in (IF runnable = {} THEN {{}} ELSE (SUBSET runnable) \ {{}}) :
           LET now  == {[uid |-> u, no |-> count(u) + 1, call |-> calls] : u \in batch}
               data == IF overlapping THEN flight ELSE now
               uids == {d.uid : d \in data}
               number(u) == (CHOOSE d \in data : d.uid = u)
           IN  \E eos \in SUBSET uids, halt \in SUBSET uids :
                 LET ended == eos \union halt
                     gone  == {u \in uids : u \in ended \/ made'[u] >= Limit(u)}
                 IN  /\ eos \intersect halt = {}
                     /\ made' = [u \in all |-> IF u \in batch THEN count(u) + 1 ELSE count(u)]
                     /\ outs' = [u \in all |->
                          LET old == IF u \in DOMAIN outs THEN outs[u] ELSE <<>>
                          IN  IF u \in uids /\ Kept(u, eos) THEN Append(old, number(u)) ELSE old]
                     /\ stop' = [u \in all |->
                          LET old == IF u \in DOMAIN stop THEN stop[u] ELSE 0
                          IN  IF u \in ended /\ old = 0
                              THEN (IF u \in eos THEN number(u).no ELSE number(u).no + 1) ELSE old]
                     /\ active' = have \ gone
                     /\ freed' = gone \ freed
                     /\ flight' = IF overlapping THEN now ELSE {}
  /\ UNCHANGED <<overlapping, where, calls, prompts, results>>

OfflineNext == Generate \/ AllFinished \/ Tick

-----------------------------------------------------------------------------
(* The tokens an output should have: up to its stop token, or before its EOS,
   or as many as the limit. *)
Expected(u) == IF stop[u] /= 0 THEN stop[u] - 1 ELSE IF Limit(u) > 0 THEN Limit(u) ELSE 0

(* When generate returns, the output of the i-th prompt holds the tokens that
   this call sampled for it, all and in order, whatever rounds it was fed in;
   overlap_loop adds at most one token after an EOS or a stop token. *)
OutputsComplete ==
  where = "idle" =>
    \A i \in DOMAIN results :
      LET u == i - 1
          n == Expected(u)
      IN  /\ \A j \in DOMAIN results[i] : results[i][j].uid = u /\ results[i][j].call = calls
          /\ n <= Len(results[i]) /\ \A j \in 1 .. n : results[i][j].no = j
          /\ Len(results[i]) <= (IF overlapping /\ stop[u] /= 0 THEN n + 1 ELSE n)

(* generate returns. *)
Returns == (where = "loop") ~> (where = "idle")
=============================================================================
