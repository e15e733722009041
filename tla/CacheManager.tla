---------------------------- MODULE CacheManager ----------------------------
(***************************************************************************)
(* scheduler/cache.py over the radix prefix cache, driven by either loop   *)
(* with its prefill and decode managers:                                   *)
(*                                                                         *)
(*       loop -> (wait ->) recv -> admit -> forward -> post -> loop        *)
(*         (any check) crashed, (an exception in forward) failed           *)
(*                                                                         *)
(* Where Scheduler counts pages, here each page, each row of the page      *)
(* table and each token of a request is itself, and kv is what the device  *)
(* holds: a slot, PageSize of which make a page, keeps the token written   *)
(* there last and the text before it, which the attention read for it: in  *)
(* overlap_loop, what it will hold once the batches launched have run, in  *)
(* their order.  Rows are counted; acks and replies are Scheduler's        *)
(* subject.                                                                *)
(***************************************************************************)
EXTENDS RadixCache

CONSTANTS
  Overlap,       \* overlap_loop, or normal_loop
  Reqs,          \* the requests that may arrive
  Tokens,        \* what a forward may sample
  Prompts,       \* bound: the prompts a client may send
  OutLens,       \* bound: the max_tokens a client may ask for
  NumPages,      \* pages of the KV cache
  NumRows,       \* max_running_req
  PrefillBudget  \* max_extend_tokens

ASSUME CacheAssumption ==
  /\ Overlap \in BOOLEAN /\ IsFiniteSet(Reqs)
  /\ Prompts \subseteq Seq(Tokens) \ {<<>>} /\ OutLens \subseteq Nat \ {0}
  /\ NumPages \in Nat \ {0} /\ PageSize \in Nat \ {0}
  /\ NumRows \in Nat \ {0} /\ PrefillBudget \in Nat \ {0}
  \* _process_one_msg refuses longer requests: max_seq_len
  /\ \A p \in Prompts, m \in OutLens : Len(p) + m <= NumPages * PageSize

VARIABLES
  pc,
  tree, free,    \* prefix_cache, and free_slots with one entry per page
  kv,            \* the device's KV pool
  arrived, pending,
  chunk,         \* requests whose PendingReq holds a ChunkedReq
  running,       \* DecodeManager.running_reqs
  live,          \* the requests that hold a row and a locked handle
  ids, limit,    \* input_ids, max_device_len (of the whole request)
  cached, device, row, handle,   \* cached_len, device_len, pages, cache_handle
  budget, reserved,              \* PrefillAdder
  cur, last,     \* the batch of this tick; overlap_loop: that of the last one
  finished, deferred,            \* finished_reqs, deferred_abort_uids
  todo           \* the requests that a loop of post-processing has to visit

cacheVars == <<tree, free>>
reqVars   == <<ids, limit, cached, device, row, handle>>
adder     == <<budget, reserved>>
batchVars == <<cur, last, finished, deferred>>
vars == <<pc, cacheVars, kv, arrived, pending, chunk, running, live, reqVars,
          adder, batchVars, todo>>

-----------------------------------------------------------------------------
Pages == 0 .. NumPages - 1
Slots == 0 .. NumPages * PageSize - 1

\* div_ceil(len, page_size)
PageCount(len) == (len + PageSize - 1) \div PageSize

AvailableSize(t) == t.evictable + Len(free) * PageSize

RemainLen(r) == limit[r] - device[r]
InflightTokens ==
  MapThenSumSet(RemainLen, running) + (PageSize - 1) * Cardinality(running)

\* A batch: its requests, its phase, its ChunkedReqs and what it samples
NoBatch == [reqs |-> <<>>, prefill |-> FALSE, partial |-> {}, token |-> <<>>]

\* The batch that this tick post-processes
Data == IF Overlap THEN last ELSE cur

Init ==
  /\ pc = "loop"
  /\ tree = EmptyTree /\ free = [i \in 1 .. NumPages |-> i - 1]
  /\ kv = [s \in Slots |-> <<>>]
  /\ arrived = {} /\ pending = <<>> /\ chunk = {} /\ running = {} /\ live = {}
  /\ ids = [r \in Reqs |-> <<>>] /\ row = [r \in Reqs |-> <<>>]
  /\ handle = [r \in Reqs |-> Root]
  /\ limit = [r \in Reqs |-> 0] /\ cached = [r \in Reqs |-> 0]
  /\ device = [r \in Reqs |-> 0]
  /\ budget = 0 /\ reserved = 0
  /\ cur = NoBatch /\ last = NoBatch /\ finished = {} /\ deferred = {} /\ todo = <<>>

-----------------------------------------------------------------------------
(* cache_req                                                               *)

\* The pages of [old_handle.cached_len, found), which the cache has already,
\* and those of [new_handle.cached_len, cached_len) when nothing follows.
Returned(r, found, ends) ==
  SubSeq(row[r], Len(handle[r]) \div PageSize + 1, found \div PageSize)
    \o IF ends
       THEN SubSeq(row[r], AlignDown(cached[r]) \div PageSize + 1, PageCount(cached[r]))
       ELSE <<>>

\* What becomes of the tree and of free_slots; text is input_ids.  Nothing
\* allocates inside a lazy_free_region, so its frees are done at once.
CacheReq(r, text, ends) ==
  LET done     == InsertPrefix(tree, SubSeq(text, 1, cached[r]), row[r])
      unlocked == Unlock(done.tree, handle[r])
  IN  /\ free' = free \o Returned(r, done.cached, ends)
      /\ tree' = IF ends THEN unlocked ELSE Lock(unlocked, done.path)
      /\ IF ends THEN TRUE ELSE handle' = [handle EXCEPT ![r] = done.path]

\* Nothing refers to these requests any more.
Forget(gone) ==
  LET Cleared(field, empty) == [r \in Reqs |-> IF r \in gone THEN empty ELSE field[r]]
  IN  /\ ids' = Cleared(ids, <<>>) /\ row' = Cleared(row, <<>>) /\ handle' = Cleared(handle, Root)
      /\ limit' = Cleared(limit, 0) /\ cached' = Cleared(cached, 0) /\ device' = Cleared(device, 0)

\* _free_req_resources.  A request that the batch in flight holds keeps its
\* fields: freed again, it would return the same row and pages.
Release(r, text) ==
  /\ CacheReq(r, text, TRUE)
  /\ live' = live \ {r}
  /\ IF Overlap /\ r \in Range(cur.reqs)
     THEN ids' = [ids EXCEPT ![r] = text] /\ UNCHANGED <<limit, cached, device, row, handle>>
     ELSE Forget({r})

-----------------------------------------------------------------------------
(* receive_msg and _process_one_msg                                        *)

Nothing == last = NoBatch /\ pending = <<>> /\ running = {}

\* A process with nothing to run checks that every page is free or cached,
\* then blocks for a message.
StartTick ==
  /\ pc = "loop"
  /\ pc' = IF ~Nothing THEN "recv"
           ELSE IF Len(free) + (tree.evictable + tree.protected) \div PageSize = NumPages
                THEN "wait" ELSE "crashed"
  /\ UNCHANGED <<cacheVars, kv, arrived, pending, chunk, running, live, reqVars, adder,
                 batchVars, todo>>

Receiving == pc \in {"wait", "recv"} /\ pc' = "recv"

HandleUser(r) ==
  /\ Receiving /\ r \notin arrived
  /\ arrived' = arrived \union {r}
  /\ pending' = Append(pending, r)
  /\ \E p \in Prompts, m \in OutLens :
       /\ ids' = [ids EXCEPT ![r] = p]
       /\ limit' = [limit EXCEPT ![r] = Len(p) + m]
  /\ UNCHANGED <<cacheVars, kv, chunk, running, live, cached, device, row, handle,
                 adder, batchVars, todo>>

\* inflight_uids
Fence == Range(last.reqs)

\* PrefillManager.abort_req
RemovePending(r) ==
  IF r \in Range(pending)
  THEN \E i \in DOMAIN pending : pending[i] = r /\ pending' = RemoveAt(pending, i)
  ELSE pending' = pending

\* AbortBackendMsg: out of the containers, and whatever it holds is freed, or
\* will be if it is in the batch in flight.  Bound: no abort of a request that
\* has finished and is still in flight, which Scheduler shows is freed twice.
HandleAbort(r) ==
  /\ Receiving /\ r \in arrived /\ r \notin Range(last.reqs) \intersect finished
  /\ RemovePending(r)
  /\ chunk' = chunk \ {r} /\ running' = running \ {r}
  /\ IF r \in Fence
     THEN deferred' = deferred \union {r} /\ UNCHANGED <<cacheVars, live, reqVars>>
     ELSE /\ IF r \in chunk \union running THEN Release(r, ids[r])
                                             ELSE Forget({r}) /\ UNCHANGED <<cacheVars, live>>
          /\ UNCHANGED deferred
  /\ UNCHANGED <<kv, arrived, adder, cur, last, finished, todo>>

\* The queue is empty.
EndReceive ==
  /\ pc = "recv"
  /\ pc' = "admit"
  /\ budget' = PrefillBudget /\ reserved' = InflightTokens
  /\ UNCHANGED <<cacheVars, kv, arrived, pending, chunk, running, live, reqVars,
                 batchVars, todo>>

-----------------------------------------------------------------------------
(* PrefillAdder.try_add_one on the first PendingReq not visited yet        *)

First == Head(pending)

\* match_req leaves one token to compute.
MatchReq(r) == Matched(tree, Front(ids[r]))

Fits(r, t) ==
  limit[r] - Len(MatchReq(r)) + reserved <= AvailableSize(t)

FaultyLockable(r) == Fits(r, Split(tree, MatchReq(r)))

\* _try_allocate_one estimates twice: pages that could be evicted before the
\* match is locked are no longer available after it.
Lockable(r) ==
  LET found == Split(tree, MatchReq(r))
  IN  Fits(r, found) /\ Fits(r, Lock(found, MatchReq(r)))

\* _add_one_req: from is what the cache, or the chunks before, provide.
AddOneReq(r, from) ==
  LET remain == Len(ids[r]) - from
      size   == IF budget < remain THEN budget ELSE remain
      part   == size < remain
  IN  /\ budget' = budget - size
      /\ reserved' = reserved + limit[r] - from
      /\ cached' = [cached EXCEPT ![r] = from]
      /\ device' = [device EXCEPT ![r] = from + size]
      /\ cur' = [cur EXCEPT !.reqs = Append(@, r), !.prefill = TRUE,
                             !.partial = IF part THEN @ \union {r} ELSE @]
      /\ chunk' = IF part THEN chunk \union {r} ELSE chunk \ {r}
      /\ pending' = IF part THEN pending ELSE Tail(pending)

\* A chunk goes on where it stopped, with its row and its handle.
Continue ==
  /\ pc = "admit" /\ pending /= <<>> /\ budget > 0 /\ First \in chunk
  /\ AddOneReq(First, cached[First])
  /\ UNCHANGED <<pc, cacheVars, kv, arrived, running, live, ids, limit, row, handle, last,
                 finished, deferred, todo>>

MayTry == /\ pending /= <<>> /\ budget > 0 /\ First \notin chunk
          /\ Cardinality(live) < NumRows

\* A new request: its match is locked and copied to its row.
Admit ==
  /\ pc = "admit" /\ MayTry /\ Lockable(First)
  /\ LET r == First  match == MatchReq(r)
     IN  /\ tree' = Lock(Split(tree, match), match)
         /\ handle' = [handle EXCEPT ![r] = match]
         /\ row' = [row EXCEPT ![r] =
                      [i \in 1 .. Len(match) \div PageSize |->
                         tree.page[SubSeq(match, 1, i * PageSize)]]]
         /\ live' = live \union {r}
         /\ AddOneReq(r, Len(match))
  /\ UNCHANGED <<pc, free, kv, arrived, running, ids, limit, last, finished, deferred, todo>>

\* Nothing more fits, but to find that out the match has split a node.  An
\* empty prefill batch gives way to the running requests, sorted by uid, which
\* may be any order here.
CloseBatch ==
  /\ pc = "admit"
  /\ IF MayTry THEN ~Lockable(First) /\ tree' = Split(tree, MatchReq(First))
     ELSE /\ ~(pending /= <<>> /\ budget > 0 /\ First \in chunk)
          /\ tree' = tree
  /\ pc' = "forward"
  /\ IF cur.reqs = <<>>
     THEN \E order \in SetToSeqs(running) : cur' = [cur EXCEPT !.reqs = order]
     ELSE cur' = cur
  /\ UNCHANGED <<free, kv, arrived, pending, chunk, running, live, reqVars, adder, last,
                 finished, deferred, todo>>

-----------------------------------------------------------------------------
(* allocate_paged and _forward                                             *)

FaultyFirstPage(r) == cached[r] \div PageSize

\* first_page: the whole pages and the begun one that a row has already
FirstPage(r) == PageCount(cached[r])

NewPages(r) == PageCount(device[r]) - FirstPage(r)

\* The pages before those of the i-th request of the batch, and all of them
Before(i) == MapThenSumSet(LAMBDA j : NewPages(cur.reqs[j]), 1 .. i - 1)
Needed == Before(Len(cur.reqs) + 1)

\* The rows once the allocated pages are handed out in batch order
NewRows(pages) ==
  [r \in Reqs |->
     IF r \in Range(cur.reqs)
     THEN LET i == CHOOSE j \in DOMAIN cur.reqs : cur.reqs[j] = r
          IN  SubSeq(row[r], 1, FirstPage(r)) \o SubSeq(pages, Before(i) + 1, Before(i) + NewPages(r))
     ELSE row[r]]

\* page_table[table_idx, i - 1]: where the i-th token of the row is kept
Slot(pages, i) == pages[(i - 1) \div PageSize + 1] * PageSize + ((i - 1) % PageSize)

\* The requests whose sampled token the host has not appended yet, and the
\* text of a request as token_pool has it
Unseen ==
  CASE pc = "post"  -> Range(todo) \ Data.partial
      [] OTHER -> Range(last.reqs) \ (last.partial \union finished)
Text(r) == IF r \in Unseen THEN Append(ids[r], Data.token[r]) ELSE ids[r]

\* The forward writes [cached_len, device_len) of every request of the batch.
Written(rows) ==
  LET writes == {w \in Range(cur.reqs) \X (1 .. NumPages * PageSize) :
                   cached[w[1]] < w[2] /\ w[2] <= device[w[1]]}
  IN  [slot \in Slots |->
         IF \E w \in writes : Slot(rows[w[1]], w[2]) = slot
         THEN LET w == CHOOSE w \in writes : Slot(rows[w[1]], w[2]) = slot
              IN  SubSeq(Text(w[1]), 1, w[2])
         ELSE kv[slot]]

\* _allocate: evict what the free pages lack, draw from the front.
Allocate(need, evicted) ==
  /\ tree' = Without(tree, evicted)
  /\ LET all  == free \o SetToSeq(PagesOf(tree, evicted))
         rows == NewRows(SubSeq(all, 1, need))
     IN  /\ free' = SubSeq(all, need + 1, Len(all))
         /\ row' = rows
         /\ kv' = Written(rows)

Evictions(need) ==
  IF need <= Len(free) THEN {{}}
  ELSE Removals(tree, (need - Len(free)) * PageSize)

Sampling == Range(cur.reqs) \ cur.partial

\* More than can be evicted fails an assertion.
Forward ==
  /\ pc = "forward"
  /\ LET need == Needed
     IN  IF (need - Len(free)) * PageSize > tree.evictable \/ Evictions(need) = {}
         THEN /\ pc' = "crashed"
              /\ UNCHANGED <<cacheVars, kv, running, cached, device, row, cur, todo>>
         ELSE /\ \E evicted \in Evictions(need) : Allocate(need, evicted)
              /\ pc' = "post"
              /\ \E token \in [Sampling -> Tokens] : cur' = [cur EXCEPT !.token = token]
              /\ todo' = IF Overlap THEN last.reqs ELSE cur.reqs
              /\ cached' = [r \in Reqs |-> IF r \in Range(cur.reqs) THEN device[r] ELSE cached[r]]
              /\ device' = [r \in Reqs |-> IF r \in Range(cur.reqs) THEN device[r] + 1
                                                                   ELSE device[r]]
              /\ running' = {r \in running \union Range(cur.reqs) :
                               r \notin cur.partial /\ limit[r] - device'[r] > 0}
  /\ UNCHANGED <<arrived, pending, chunk, live, ids, limit, handle, adder, last, finished,
                 deferred>>

FaultyRolledBack(all, need) == SubSeq(all, need + 1, Len(all))

\* rollback_allocation: the pages drawn go to the end of free_slots.
RolledBack(all, need) == SubSeq(all, need + 1, Len(all)) \o SubSeq(all, 1, need)

\* What _prepare_batch does after allocate_paged fails: the rows get back what
\* they held, but what was evicted stays evicted, and the exception goes
\* through the loop.
FailedPrepare ==
  /\ pc = "forward" /\ cur.reqs /= <<>>
  /\ LET need == Needed
     IN  /\ (need - Len(free)) * PageSize <= tree.evictable
         /\ \E evicted \in Evictions(need) :
              /\ tree' = Without(tree, evicted)
              /\ free' = RolledBack(free \o SetToSeq(PagesOf(tree, evicted)), need)
  /\ pc' = "failed"
  /\ UNCHANGED <<kv, arrived, pending, chunk, running, live, reqVars, adder, batchVars, todo>>

-----------------------------------------------------------------------------
(* _process_last_data and _apply_deferred_aborts                           *)

FaultySkipped == Data.partial \union deferred

\* Those whose turn changes nothing: a finished request that is met again is
\* in a decode batch, and is not freed a second time.
Skipped == Data.partial \union deferred \union finished

\* The sampled token; stops says whether it is an EOS or a stop token.
PostProcess ==
  /\ pc = "post" /\ todo /= <<>>
  /\ todo' = Tail(todo)
  /\ LET r == Head(todo)
     IN  IF r \in Skipped
         THEN UNCHANGED <<cacheVars, live, running, reqVars>>
         ELSE LET text == Append(ids[r], Data.token[r])
              IN  \E stops \in BOOLEAN :
                    IF stops \/ RemainLen(r) <= 0
                    THEN Release(r, text) /\ running' = running \ {r}
                    ELSE /\ ids' = [ids EXCEPT ![r] = text]
                         /\ IF Data.prefill THEN CacheReq(r, text, FALSE)
                            ELSE UNCHANGED <<cacheVars, handle>>
                         /\ UNCHANGED <<live, running, limit, cached, device, row>>
  /\ UNCHANGED <<pc, kv, arrived, pending, chunk, adder, batchVars>>

\* The deferred aborts, in the order of the batch
FreeDeferred ==
  /\ pc = "post" /\ todo = <<>> /\ deferred /= {}
  /\ \E i \in DOMAIN Data.reqs :
       LET r == Data.reqs[i]
       IN  /\ r \in deferred /\ \A j \in 1 .. i - 1 : Data.reqs[j] \notin deferred
           /\ Release(r, ids[r]) /\ deferred' = deferred \ {r}
  /\ UNCHANGED <<pc, kv, arrived, pending, chunk, running, adder, cur, last, finished, todo>>

\* Of finished_reqs only those are kept that the batch in flight meets again.
EndTick ==
  /\ pc = "post" /\ todo = <<>> /\ deferred = {}
  /\ pc' = "loop"
  /\ finished' = IF Overlap THEN (Range(Data.reqs) \intersect Range(cur.reqs)) \ (live \union Data.partial)
                            ELSE {}
  /\ last' = (IF Overlap THEN cur ELSE NoBatch) /\ cur' = NoBatch
  /\ Forget(finished)
  /\ UNCHANGED <<cacheVars, kv, arrived, pending, chunk, running, live, adder, deferred, todo>>

-----------------------------------------------------------------------------
\* Blocked on the queue, or gone
Idle == pc \in {"wait", "crashed", "failed"} /\ UNCHANGED vars

Step == \/ StartTick \/ EndReceive \/ Continue \/ Admit \/ CloseBatch
        \/ Forward \/ FailedPrepare \/ PostProcess \/ FreeDeferred \/ EndTick

Next == Step \/ Idle \/ \E r \in Reqs : HandleUser(r) \/ HandleAbort(r)

Spec == Init /\ [][Next]_vars

\* The loop runs on; nothing makes a message arrive.
FairSpec == Spec /\ WF_vars(Step)
=============================================================================
