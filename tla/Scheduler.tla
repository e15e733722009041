----------------------------- MODULE Scheduler -----------------------------
(***************************************************************************)
(* One scheduler process: the loops of scheduler/scheduler.py with the     *)
(* managers they drive (PrefillManager, DecodeManager, TableManager and    *)
(* CacheManager over the naive prefix cache, which keeps no page between   *)
(* requests).  One tick of overlap_loop or normal_loop is a round of pc:   *)
(*                                                                         *)
(*   loop -> (wait ->) recv -> admit -> forward -> post -> defer -> flush  *)
(*                        \-> drain -> stopped       (any check) crashed   *)
(*                                                                         *)
(* Overlap chooses the loop.  overlap_loop post-processes the batch of the *)
(* PREVIOUS tick after launching the next one, normal_loop the batch it    *)
(* has just run.  The sampled token is a nondeterministic choice, and all  *)
(* that matters of it is whether it stops the request.  uids are unique,   *)
(* as the frontend's counter makes them.  A for-loop over a batch is one   *)
(* step per request, in any order: no property depends on which.           *)
(*                                                                         *)
(* A definition named Faulty... is the next one with a plausible defect:   *)
(* the model never uses it, a property must notice it when it is swapped   *)
(* in.                                                                     *)
(***************************************************************************)
EXTENDS Integers, Sequences, FiniteSets, SequencesExt

CONSTANTS
  Uids,           \* the requests that may arrive
  Overlap,        \* TRUE: overlap_loop, FALSE: normal_loop
  NumSlots,       \* max_running_req: rows of the page table
  NumPages,       \* pages of the KV cache
  PageSize,       \* tokens in a page
  PrefillBudget,  \* max_extend_tokens: prompt tokens a prefill batch may hold
  MaxSeqLen,      \* engine.max_seq_len
  PromptLens,     \* bound: the prompt lengths a client may send
  OutLens,        \* bound: the max_tokens a client may ask for
  MaxAborts,      \* bound: abort messages per request
  MayExit         \* whether an ExitMsg may arrive

ASSUME ConstantsAssumption ==
  /\ Overlap \in BOOLEAN /\ MayExit \in BOOLEAN
  /\ IsFiniteSet(Uids)
  /\ NumSlots \in Nat \ {0} /\ NumPages \in Nat \ {0} /\ PageSize \in Nat \ {0}
  /\ PrefillBudget \in Nat \ {0} /\ MaxSeqLen \in Nat \ {0}
  /\ PromptLens \subseteq Nat \ {0} /\ OutLens \subseteq Nat \ {0}
  /\ MaxAborts \in Nat

\* engine.max_seq_len is capped by the tokens the KV cache can hold.
ASSUME MaxSeqLenAssumption == MaxSeqLen <= NumPages * PageSize

VARIABLES
  pc,
  \* Req and PendingReq: lengths, and the row of the page table.  device is
  \* device_len, cached is cached_len; prompt + out is max_device_len.
  prompt, out, cached, device, slot,
  \* PrefillManager, with the token budget of the PrefillAdder at work:
  \* chunk is the set of uids whose PendingReq holds a ChunkedReq.
  pending, chunk, budget,
  running,    \* DecodeManager.running_reqs
  freeSlots,  \* TableManager._free_slots, a stack
  taken,      \* pages drawn from CacheManager.free_slots less pages returned
  \* The loop: the batch of this tick and of the last one, the requests the
  \* running for-loop has still to visit, and the second-free guard.
  cur, last, todo, finished, newFinished,
  inflight, deferred, acks,  \* the abort fence
  reply,      \* the DetokenizeMsgs of this tick, not sent yet
  \* What the tokenizer side sees: the messages it sent and received.
  arrived, aborts, sent

reqVars   == <<prompt, out, cached, device, slot>>
pendVars  == <<pending, chunk, budget>>
fenceVars == <<inflight, deferred, acks>>
envVars   == <<arrived, aborts, sent>>
loopVars  == <<cur, last, todo, finished, newFinished, reply>>
vars == <<pc, reqVars, pendVars, running, freeSlots, taken, loopVars, fenceVars, envVars>>

-----------------------------------------------------------------------------
Slots  == 0 .. NumSlots - 1
NoSlot == NumSlots

\* Batch.reqs, and which of them are ChunkedReqs; NoBatch for None
Batches == [reqs : SUBSET Uids, chunked : SUBSET Uids]
NoBatch == [reqs |-> {}, chunked |-> {}]

\* div_ceil(len, page_size)
Pages(len) == (len + PageSize - 1) \div PageSize

\* len(free_slots) of the CacheManager, and its available_size in tokens
FreePages == NumPages - MapThenSumSet(LAMBDA u : taken[u], Uids)
Available == FreePages * PageSize

RemainLen(u) == prompt[u] + out[u] - device[u]

FaultyInflightTokens == 0

\* DecodeManager.inflight_tokens
InflightTokens ==
  MapThenSumSet(RemainLen, running) + (PageSize - 1) * Cardinality(running)

\* PrefillAdder.reserved_size once the requests of cur have been added to it:
\* each adds remain_len + output_len, its tokens from cached_len to the end.
ReservedSize ==
  InflightTokens + MapThenSumSet(LAMBDA u : prompt[u] + out[u] - cached[u], cur.reqs)

\* The batch the tick post-processes: overlap_loop is one batch behind.
Data == IF Overlap THEN last ELSE cur

Init ==
  /\ pc = "loop"
  /\ prompt = [u \in Uids |-> 0] /\ out = [u \in Uids |-> 0]
  /\ cached = [u \in Uids |-> 0] /\ device = [u \in Uids |-> 0]
  /\ slot = [u \in Uids |-> NoSlot]
  /\ pending = <<>> /\ chunk = {} /\ budget = 0
  /\ running = {}
  /\ freeSlots = [i \in 1 .. NumSlots |-> i - 1]
  /\ taken = [u \in Uids |-> 0]
  /\ cur = NoBatch /\ last = NoBatch /\ todo = {}
  /\ finished = {} /\ newFinished = {} /\ reply = {}
  /\ inflight = {} /\ deferred = {} /\ acks = [u \in Uids |-> 0]
  /\ arrived = {} /\ aborts = [u \in Uids |-> 0] /\ sent = [u \in Uids |-> <<>>]

\* _free_req_resources: the row goes back on the stack and, with the naive
\* cache, cache_req(finished=True) frees every page of [0, cached_len).
FreeReqResources(u) ==
  /\ freeSlots' = Append(freeSlots, slot[u])
  /\ taken' = [taken EXCEPT ![u] = @ - Pages(cached[u])]

-----------------------------------------------------------------------------
(* Top of a tick.                                                          *)

\* overlap_loop publishes the uids of last_data; either loop blocks only
\* when nothing is left to run or to post-process.
Blocking == last = NoBatch /\ pending = <<>> /\ running = {}

\* receive_msg(blocking) first runs run_when_idle, whose check_integrity
\* raises when the free pages (the naive cache holds none) are not all pages.
BeginTick ==
  /\ pc = "loop"
  /\ inflight' = last.reqs
  /\ pc' = IF ~Blocking THEN "recv"
           ELSE IF FreePages = NumPages THEN "wait" ELSE "crashed"
  /\ UNCHANGED <<reqVars, pendVars, running, freeSlots, taken, loopVars,
                 deferred, acks, envVars>>

-----------------------------------------------------------------------------
(* _process_one_msg                                                        *)

Receiving == pc \in {"wait", "recv"}

\* UserMsg: a prompt that leaves no room for a token is dropped without a
\* reply, otherwise max_tokens is capped and the request queued.
HandleUser(u) ==
  /\ Receiving /\ u \notin arrived
  /\ pc' = "recv"
  /\ arrived' = arrived \union {u}
  /\ \E p \in PromptLens, m \in OutLens :
       IF MaxSeqLen - p <= 0
       THEN UNCHANGED <<prompt, out, pending>>
       ELSE /\ prompt' = [prompt EXCEPT ![u] = p]
            /\ out' = [out EXCEPT ![u] = IF m > MaxSeqLen - p THEN MaxSeqLen - p ELSE m]
            /\ pending' = Append(pending, u)
  /\ UNCHANGED <<cached, device, slot, chunk, budget, running, freeSlots, taken,
                 loopVars, fenceVars, aborts, sent>>

FaultyRemovePending(u) == UNCHANGED <<pending, chunk>>

\* PrefillManager.abort_req, which pops the first entry of that uid, and
\* DecodeManager.abort_req
RemovePending(u) ==
  /\ IF u \in Range(pending)
     THEN \E i \in DOMAIN pending :
            /\ pending[i] = u /\ \A j \in 1 .. i - 1 : pending[j] /= u
            /\ pending' = RemoveAt(pending, i)
     ELSE pending' = pending
  /\ chunk' = chunk \ {u}

FaultyRemoveRunning(u) == u \in Uids /\ running' = running

RemoveRunning(u) == running' = running \ {u}

FaultyDeferAbort(u) ==
  /\ u \in inflight
  /\ RemoveRunning(u)
  /\ deferred' = deferred \union {u}
  /\ UNCHANGED <<pending, chunk, freeSlots, taken, acks>>

\* AbortBackendMsg for a uid of the batch not post-processed yet: out of the
\* schedulable containers now, freed by _apply_deferred_aborts.
DeferAbort(u) ==
  /\ u \in inflight
  /\ RemovePending(u) /\ RemoveRunning(u)
  /\ deferred' = deferred \union {u}
  /\ UNCHANGED <<freeSlots, taken, acks>>

\* AbortBackendMsg for any other uid: whatever it holds is freed now, and it
\* is acknowledged even if nothing is known of it.
AbortNow(u) ==
  /\ u \notin inflight
  /\ RemovePending(u) /\ RemoveRunning(u)
  /\ IF u \in chunk \union running
     THEN FreeReqResources(u) ELSE UNCHANGED <<freeSlots, taken>>
  /\ acks' = [acks EXCEPT ![u] = @ + 1]
  /\ UNCHANGED deferred

HandleAbort(u) ==
  /\ Receiving /\ u \in arrived /\ aborts[u] < MaxAborts
  /\ pc' = "recv"
  /\ aborts' = [aborts EXCEPT ![u] = @ + 1]
  /\ DeferAbort(u) \/ AbortNow(u)
  /\ UNCHANGED <<reqVars, budget, loopVars, inflight, arrived, sent>>

\* The queue is empty: receive_msg returns.
EndReceive ==
  /\ pc = "recv"
  /\ pc' = "admit"
  /\ budget' = PrefillBudget
  /\ UNCHANGED <<reqVars, pending, chunk, running, freeSlots, taken, loopVars,
                 fenceVars, envVars>>

-----------------------------------------------------------------------------
(* _schedule_next_batch: PrefillManager first, DecodeManager otherwise.    *)

FaultyCanAllocate(u) ==
  /\ freeSlots /= <<>>
  /\ prompt[u] + out[u] + ReservedSize < Available

\* _try_allocate_one: a row of the page table, and room for the prompt and
\* the whole output beside what is already promised.
CanAllocate(u) ==
  /\ freeSlots /= <<>>
  /\ prompt[u] + out[u] + ReservedSize <= Available

CanAdd ==
  /\ pending /= <<>> /\ budget > 0
  /\ Head(pending) \in chunk \/ CanAllocate(Head(pending))

FaultyChunkSize(remain) == remain

\* The prompt tokens of a request that go into this batch
ChunkSize(remain) == IF budget < remain THEN budget ELSE remain

\* PrefillAdder.try_add_one on the next PendingReq.  A prompt that does not
\* fit the budget enters as a ChunkedReq and stays at the head of the list;
\* it has used up the budget, so the loop ends there.
TryAddOne ==
  /\ pc = "admit" /\ CanAdd
  /\ LET u    == Head(pending)
         from == IF u \in chunk THEN cached[u] ELSE 0
         size == ChunkSize(prompt[u] - from)
         part == size < prompt[u] - from
     IN  /\ cached' = [cached EXCEPT ![u] = from]
         /\ device' = [device EXCEPT ![u] = from + size]
         /\ budget' = budget - size
         /\ IF u \in chunk
            THEN UNCHANGED <<slot, freeSlots>>
            ELSE /\ slot' = [slot EXCEPT ![u] = Last(freeSlots)]
                 /\ freeSlots' = Front(freeSlots)
         /\ pending' = IF part THEN pending ELSE Tail(pending)
         /\ chunk' = IF part THEN chunk \union {u} ELSE chunk \ {u}
         /\ cur' = [reqs    |-> cur.reqs \union {u},
                    chunked |-> IF part THEN cur.chunked \union {u} ELSE cur.chunked]
  /\ UNCHANGED <<pc, prompt, out, running, taken, last, todo, finished, newFinished,
                 reply, fenceVars, envVars>>

CloseBatch ==
  /\ pc = "admit" /\ ~CanAdd
  /\ cur' = IF cur.reqs = {} /\ running /= {}
            THEN [reqs |-> running, chunked |-> {}] ELSE cur
  /\ pc' = "forward"
  /\ UNCHANGED <<reqVars, pendVars, running, freeSlots, taken, last, todo, finished,
                 newFinished, reply, fenceVars, envVars>>

-----------------------------------------------------------------------------
(* _prepare_batch and _forward                                             *)

FaultyNewPages(u) == Pages(device[u])

\* allocate_paged draws the pages of [cached_len, device_len).
NewPages(u) == Pages(device[u]) - Pages(cached[u])
NeededPages == MapThenSumSet(NewPages, cur.reqs)

FaultyDecodable(u) == u \notin cur.chunked /\ prompt[u] + out[u] - device'[u] >= 0

\* A Req may still decode after this forward; a ChunkedReq never may.
Decodable(u) == u \notin cur.chunked /\ prompt[u] + out[u] - device'[u] > 0

\* Draw the pages, run the batch (complete_one on every request) and keep
\* in running_reqs what can still decode.  Drawing more pages than are free
\* calls evict, which raises: the naive cache has nothing to evict.
Forward ==
  /\ pc = "forward"
  /\ IF NeededPages > FreePages
     THEN /\ pc' = "crashed"
          /\ UNCHANGED <<cached, device, running, taken, todo>>
     ELSE /\ pc' = "post"
          /\ taken' = [u \in Uids |-> IF u \in cur.reqs THEN taken[u] + NewPages(u)
                                                        ELSE taken[u]]
          /\ cached' = [u \in Uids |-> IF u \in cur.reqs THEN device[u] ELSE cached[u]]
          /\ device' = [u \in Uids |-> IF u \in cur.reqs THEN device[u] + 1 ELSE device[u]]
          /\ running' = {u \in running \union cur.reqs : Decodable(u)}
          /\ todo' = Data.reqs
  /\ UNCHANGED <<prompt, out, slot, pendVars, freeSlots, cur, last, finished, newFinished,
                 reply, fenceVars, envVars>>

-----------------------------------------------------------------------------
(* _process_last_data                                                      *)

FaultySkipped(u) == u \in Data.chunked

\* A ChunkedReq has no token, a deferred abort keeps its token to itself.
Skipped(u) == u \in Data.chunked \union deferred

FaultyEnds(u, stops) == stops \/ RemainLen(u) < 0

\* finished: the token is an EOS or a stop token, or the request cannot decode
Ends(u, stops) == stops \/ RemainLen(u) <= 0

FaultyFirstFinish(u) == u \in Uids

\* The second-free guard: the previous batch has not finished it already
FirstFinish(u) == u \notin finished

\* One request of the batch.  stops says whether the sampled token is an EOS
\* or a stop token of the request.
PostProcess(u) ==
  /\ pc = "post" /\ u \in todo
  /\ todo' = todo \ {u}
  /\ IF Skipped(u)
     THEN UNCHANGED <<reply, running, freeSlots, taken, newFinished>>
     ELSE \E stops \in BOOLEAN :
            /\ reply' = reply \union {[uid |-> u, finished |-> Ends(u, stops)]}
            /\ IF Ends(u, stops) /\ FirstFinish(u)
               THEN /\ RemoveRunning(u)
                    /\ FreeReqResources(u)
                    /\ newFinished' = newFinished \union {u}
               ELSE UNCHANGED <<running, freeSlots, taken, newFinished>>
  /\ UNCHANGED <<pc, reqVars, pendVars, cur, last, finished, fenceVars, envVars>>

\* What sending a request's reply of this tick adds to its log
ReplyTo(u) ==
  IF [uid |-> u, finished |-> TRUE] \in reply THEN <<"final">>
  ELSE IF [uid |-> u, finished |-> FALSE] \in reply THEN <<"token">> ELSE <<>>

\* A tick with no batch to post-process returns early and keeps finished_reqs.
FinishedAfter == IF Data = NoBatch THEN finished ELSE newFinished

\* The loop over the batch is done: finished_reqs is replaced, replies sent.
\* _apply_deferred_aborts will visit the deferred requests of that batch.
SendResult ==
  /\ pc = "post" /\ todo = {}
  /\ pc' = "defer"
  /\ finished' = FinishedAfter
  /\ newFinished' = {}
  /\ sent' = [u \in Uids |-> sent[u] \o ReplyTo(u)]
  /\ reply' = {}
  /\ todo' = Data.reqs \intersect deferred
  /\ UNCHANGED <<reqVars, pendVars, running, freeSlots, taken, cur, last, fenceVars,
                 arrived, aborts>>

-----------------------------------------------------------------------------
(* _apply_deferred_aborts and _flush_pending_acks                          *)

\* One deferred request of the batch: freed, and acknowledged after that.
FreeDeferred(u) ==
  /\ pc = "defer" /\ u \in todo
  /\ todo' = todo \ {u}
  /\ FreeReqResources(u)
  /\ acks' = [acks EXCEPT ![u] = @ + 1]
  /\ UNCHANGED <<pc, reqVars, pendVars, running, cur, last, finished, newFinished, reply,
                 inflight, deferred, envVars>>

\* All deferred requests are freed: the acks follow the replies of the tick,
\* the fence comes down, and the batch just launched is the next to process.
FlushAcks ==
  /\ pc = "defer" /\ todo = {}
  /\ pc' = "loop"
  /\ deferred' = {} /\ inflight' = {}
  /\ sent' = [u \in Uids |-> sent[u] \o [i \in 1 .. acks[u] |-> "ack"]]
  /\ acks' = [u \in Uids |-> 0]
  /\ last' = IF Overlap THEN cur ELSE NoBatch
  /\ cur' = NoBatch
  /\ UNCHANGED <<reqVars, pendVars, running, freeSlots, taken, todo, finished, newFinished,
                 reply, arrived, aborts>>

-----------------------------------------------------------------------------
(* ExitMsg: the KeyboardInterrupt ends run_forever and shutdown drains.     *)

FaultyDrained == running

\* _drain_requests visits the ChunkedReqs of the pending list and the
\* running requests.
Drained == chunk \union running

HandleExit ==
  /\ Receiving /\ MayExit
  /\ pc' = "drain"
  /\ todo' = Drained
  /\ UNCHANGED <<reqVars, pendVars, running, freeSlots, taken, cur, last, finished,
                 newFinished, reply, fenceVars, envVars>>

\* _free_once: the pages of [cached_len, device_len), then the usual release.
DrainOne(u) ==
  /\ pc = "drain" /\ u \in todo
  /\ todo' = todo \ {u}
  /\ freeSlots' = Append(freeSlots, slot[u])
  /\ taken' = [taken EXCEPT ![u] = @ - NewPages(u) - Pages(cached[u])]
  /\ UNCHANGED <<pc, reqVars, pendVars, running, cur, last, finished, newFinished, reply,
                 fenceVars, envVars>>

DrainEnd ==
  /\ pc = "drain" /\ todo = {}
  /\ pc' = "stopped"
  /\ pending' = <<>> /\ chunk' = {} /\ running' = {} /\ finished' = {}
  /\ UNCHANGED <<reqVars, budget, freeSlots, taken, cur, last, todo, newFinished, reply,
                 fenceVars, envVars>>

-----------------------------------------------------------------------------
\* The process blocked on its queue, or gone
Idle == pc \in {"wait", "stopped", "crashed"} /\ UNCHANGED vars

Arrival == \/ \E u \in Uids : HandleUser(u) \/ HandleAbort(u)
           \/ HandleExit

Step == \/ BeginTick \/ EndReceive
        \/ TryAddOne \/ CloseBatch \/ Forward
        \/ \E u \in Uids : PostProcess(u) \/ FreeDeferred(u) \/ DrainOne(u)
        \/ SendResult \/ FlushAcks \/ DrainEnd

Next == Arrival \/ Step \/ Idle

Spec == Init /\ [][Next]_vars

\* The process keeps running its loop; nothing makes a message arrive.
FairSpec == Spec /\ WF_vars(Step)
=============================================================================
