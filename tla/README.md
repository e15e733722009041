# A verification project for mini-sglang (MetaX port)

TLA+ models of the serving core of this repository, TLC configurations that
check them on small instances, and TLAPS proofs about them. Paths below are
relative to `python/minisgl/` unless they start with `docs/` or `tests/`.

## 1. The system

A request travels frontend -> tokenizer process -> scheduler process (one per
tensor-parallel rank) -> engine, and its tokens travel back scheduler ->
detokenizer (the same or another tokenizer process) -> frontend. All links are
ZMQ push/pull queues: reliable and ordered per link, unordered between links.

| Component | State | Operations | Talks to |
|---|---|---|---|
| Scheduler (`scheduler/scheduler.py`) | `finished_reqs`, `inflight_uids`, `deferred_abort_uids`, `_pending_abort_acks`, the batch in flight | `overlap_loop`, `normal_loop`, `_process_one_msg`, `_schedule_next_batch`, `_prepare_batch`, `_forward`, `_process_last_data`, `_apply_deferred_aborts`, `_flush_pending_acks`, `_drain_requests` | calls the managers and the engine; messages from and to the tokenizer |
| PrefillManager, PrefillAdder (`scheduler/prefill.py`) | `pending_list` (each entry with its `ChunkedReq`), the token budget and reserved size of one batch | `add_one_req`, `schedule_next_batch`, `try_add_one`, `abort_req` | CacheManager, TableManager, DecodeManager |
| DecodeManager (`scheduler/decode.py`) | `running_reqs` | `filter_reqs`, `remove_req`, `abort_req`, `inflight_tokens`, `schedule_next_batch` | - |
| TableManager (`scheduler/table.py`) | `_free_slots`, `token_pool` | `allocate`, `free` | the page table of the engine |
| CacheManager (`scheduler/cache.py`) | `free_slots`, the page table's rows | `match_req`, `lock`, `allocate_paged`, `rollback_allocation`, `cache_req`, `check_integrity`, `lazy_free_region` | a prefix cache |
| Prefix caches (`kvcache/naive_cache.py`, `kvcache/radix_cache.py`) | radix tree with `ref_count`, `timestamp`; `evictable_size`, `protected_size` | `match_prefix`, `insert_prefix`, `lock_handle`, `evict` | - |
| Engine (`engine/`) | page table, streams, capture buffers, free memory | `forward_batch`, `pad_batch`, capture and replay, `Sampler`, `_determine_num_pages` | device; the other ranks by collectives |
| Attention backends (`attention/`) | metadata of a batch, capture data | `prepare_metadata`, `prepare_for_replay` | the page table, the KV pool |
| Models, layers, weights (`models/`, `layers/`, `moe/`) | parameters of one rank | `load_weight`, `load_state_dict`, `forward` | all_reduce and all_gather over the ranks |
| Rank I/O (`scheduler/io.py`) | queues | `_recv_msg_*`, `_reply_tokenizer_*` | other ranks by broadcast |
| Tokenizer process (`tokenizer/`) | `decode_map` of the detokenizer | one loop: drain a batch of messages, partition it by kind, forward each kind | frontend and scheduler queues |
| Frontend (`server/api_server.py`) | `ack_map`, `event_map`, `abort_pending`, `abort_pending_events`, `uid_counter` | `new_user`, `listen`, `wait_for_ack`, `abort_user`, the endpoints | asyncio tasks on one event loop |
| Launcher (`server/launch.py`) | ready queue | start the processes, wait for their acknowledgements | the processes above |
| Offline driver (`llm/llm.py`) | `pending_requests`, `status_map`, `counter` | `generate`, `offline_receive_msg`, `offline_send_result` | the scheduler it derives from |

What is hard, and where it bites (the full list, with lines, is `hazards` in
`PROJECT.json`):

- **Overlap.** `overlap_loop` launches batch *n+1* before it reads the tokens of
  batch *n*. A request found finished in *n* is already running in *n+1*
  (a *zombie*): it must not be freed twice, counted twice or answered twice.
- **Aborts** reach a request queued, half prefilled, running, in flight, a
  zombie, finished, or never seen; each must release exactly what is held, once,
  and be acknowledged after that and after the tick's replies.
- **Limits.** Admission promises pages for the whole output of a request from
  lengths in tokens; if it promises too much, a later decode step kills the
  process. Page rounding, chunk boundaries and the last position of a row are
  the numeric edges.
- **Shutdown** at any moment of a tick, with chunks and running requests held.
- **Shared prefixes** in the radix cache: splitting locked nodes, evicting under
  locks, duplicates produced by two requests in one batch.
- **Several processes**: an abort overtaking its request, replies overtaking
  acknowledgements, a client that leaves at any await, ranks that must take the
  same decisions, a process that dies while the others start.
- **Two device streams**: rows are reused by the host while the device still
  writes to them.
- **Layout**: padded batches, graph buffers used again, weights cut, fused and
  stacked in the order the files have them, tensors overwritten in place on one
  platform and not on the other.

What makes each component correct: rows and pages are owned by one request and
none is lost (TableManager, CacheManager); an admitted request never lacks a page
(PrefillAdder with DecodeManager); every client sees a prefix of its tokens, one
end mark, nothing after an abort (Scheduler); locked prefixes survive, sizes
match the tree (radix cache); an aborted uid disappears from every map and no
stale reply reaches a client (frontend, tokenizers); all ranks see one message
order (rank I/O); every token of a batch reads its own row and writes its own
slot, on every backend (engine, attention); the ranks together compute the
transformer the checkpoint describes (models, layers).

## 2. Modules

| Module | Models |
|---|---|
| `Scheduler` | the scheduler process: both loops, with the prefill, decode, table and cache managers over the naive prefix cache |
| `RequestService` | the abstract promise to the tokenizer: tokens, one final, acknowledgements |
| `SchedulerProperties`, `SchedulerMC` | everything stated about `Scheduler`, with the refinement of `RequestService`; its instance for TLC |
| `SchedulerProofs` | type correctness; the inductive invariant of the abort fence and what it gives for aborts and acknowledgements; the life of a request in the containers; lengths; rows and pages of every holder; the drain; that what admission promises is there: no crash; the messages sent: at most one after the final one; `normal_loop` implements `RequestService` |
| `CommonTheorems` | induction in set form, sums over finite sets, occurrences in sequences, for the counts of the other proof modules |
| `RadixCache` | the radix tree as a value: walk, split, lock, insert, evict |
| `CacheManager` | `scheduler/cache.py` over that tree, driven by either loop with admission, chunks, decode, aborts and a failing `_prepare_batch`; pages, rows, tokens and KV slots are themselves |
| `PrefixStore` | the abstract promise of a prefix cache: what is pinned stays |
| `CacheProperties`, `CacheMC` | everything stated about `CacheManager`, with the refinement of `PrefixStore`; its instance |
| `RadixProofs` | the operations of `RadixCache` on any tree: what each preserves and returns |
| `CacheProofs` | the inductive invariant of `CacheManager`; reference counts, sizes, branching; that it implements `PrefixStore`; every page in one place |
| `CachePageProofs` | what is read from the cache is the text asked for; an idle process passes its check; with one token to a page what admission promises is there; types |
| `Frontend`, `FrontendMC` | the API server's maps and tasks, tokenizer and detokenizer processes, the queues between them and an abstract scheduler; its instance |
| `FrontendProofs` | the invariants of `Frontend` |
| `RankIO` | `receive_msg` on the tensor-parallel ranks, and their shutdown |
| `Launcher` | the processes from start to serving, the collectives in which the ranks size the KV cache, the addresses |
| `Offline` | `LLM.generate` over either loop |
| `ProcessesMC` | `RankIO`, `Launcher` and `Offline` for TLC |
| `ProcessesProofs` | that the ranks agree; that a service that takes requests is whole and its caches agree; that `generate` returns what it sampled |
| `TokenPool` | the rows of `token_pool` under the two device streams and the reuse of rows |
| `TokenPoolProofs` | which tokens the engine reads, for any number of requests and rows and any interleaving of the streams |
| `BatchLayout` | padding, positions, page table, metadata of the attention backends, graph capture and replay |
| `Layers` | the classes a model is built from: parameters with their shapes on a rank, operations in order |
| `Loading` | a checkpoint becomes one rank's parameters |
| `ForwardPass` | one forward pass over buffers and symbolic values |
| `Experts` | both mixture-of-experts backends |
| `TextStream` | incremental decoding of token streams |
| `Sampling` | what each request of a batch may draw |
| `DataMC` | the last eight (without `Layers`) for TLC |

`ProcessesMC` and `DataMC` put modules side by side that share no state: a
behaviour belongs to one part, chosen at the start, and the others stand still in
one of their initial states. Nothing is lost by it, for no action of one could
enable or disable one of another; where parts do interact they are in one module
(`Frontend` has the scheduler's side of its queues, `TokenPool` the host's).

### How `Scheduler` corresponds to the code

One tick of a loop is a round of `pc`. `loop`: `BeginTick` publishes
`inflight_uids` and decides whether to block; blocking runs `run_when_idle`,
whose integrity check may raise. `recv`: `HandleUser`, `HandleAbort` and
`HandleExit` are the branches of `_process_one_msg`, taken any number of times,
so that a message may fall on any side of any tick. `admit`: `TryAddOne` is one
iteration of `schedule_next_batch` (`try_add_one`, `_try_allocate_one` and
`_add_one_req` in one step), `CloseBatch` ends it and falls back to the decode
batch. `forward`: `Forward` is `_prepare_batch` and `_forward`: it draws the
pages of `[cached_len, device_len)`, advances every request (`complete_one`) and
filters `running_reqs`. `post`: `PostProcess(u)` is the body of the loop of
`_process_last_data`; `SendResult` its last two lines. `defer`:
`FreeDeferred(u)` is the loop of `_apply_deferred_aborts`; `FlushAcks` clears the
fence and sends the acks. `drain`: `DrainOne(u)` is `_free_once` and `DrainEnd`
the rest of `_drain_requests`.

`Overlap` chooses the loop: the batch post-processed (`Data`) is the previous
one (`last`) or the current one (`cur`). `normal_loop` never publishes
`inflight_uids`; in the model `last` is then always empty, which comes to the
same. `waiting` in a blocking receive is `pc = "wait"`, where the process may
stay forever (`Idle`).

Abstracted: a token is only whether it stops the request (EOS unless
`ignore_eos`, or a stop token); prompts and outputs are lengths; KV pages are
counted per request (`taken`, pages drawn less pages returned) since the naive
cache never shares a page; a loop over a batch visits it in any order. uids are
unique, as `FrontendManager.new_user` makes them.

### How `RadixCache` and `CacheManager` correspond to the code

A tree node is named by its path, the tokens from the root to its end. A split
in the code creates a new upper node and leaves the lower part in the old
object, so an object keeps its path for life, and a `RadixCacheHandle` (an
object and a length) is a path. `Matched` is `_tree_walk`, which also splits the
node it ends in (`Split`); matching therefore changes the tree even when the
request is then refused (`CloseBatch`). `tree.page` maps every page-aligned
prefix of a node to its page: the concatenated values from the root.
`Removals(t, size)` are the sets of nodes that `evict(size)` may take, children
first, stopping at the first node that reaches `size`; timestamps are abstracted
to any choice of leaf.

`CacheManager` follows either loop with the same rounds of `pc` as `Scheduler`.
`Admit` is `_try_allocate_one` with both estimates and `_add_one_req`, `Continue`
a chunk's next part, `Forward` is `allocate_paged` (evicting if needed, drawing
in batch order) followed by the forward, which writes the slots of
`[cached_len, device_len)` and chooses the sampled tokens; `FailedPrepare` is the
`except` branch of `_prepare_batch` with `rollback_allocation`, after which the
exception ends the loop. `PostProcess` is the loop body of `_process_last_data`
with `cache_req` (`CacheReq`), whose two frees are `Returned`; `FreeDeferred` is
the loop of `_apply_deferred_aborts`.

`kv` is the device memory: per slot, the text up to and including the token
written there last. All KV writes are on one stream, in launch order, so `kv` is
kept as it will be once the batches launched have run. In `overlap_loop` the host
is one token behind: `ids` is `input_ids`, `Text(r)` adds the token that
`token_pool` has already and the host has not appended (`Unseen`). A request
that is freed while the batch in flight holds it keeps its fields until that
batch is over, so that freeing it again would show. Requests hold a row while
`live`; rows are counted, not named, as `Scheduler` has them. Acks and replies
are left to `Scheduler`, and requests longer than `max_seq_len` are excluded by
`CacheAssumption`, as `_process_one_msg` excludes them. One bound on behaviour:
`HandleAbort` does not abort a request that has finished and is still in flight,
because that does free twice (`scheduler_zombie_abort`).

### How `Frontend` corresponds to the code

An asyncio task runs alone between two awaits, so each action of a request's task
is the code between two: `Request` (`new_user`, the send), `Wake`
(`wait_for_ack` after `event.wait()`), `Yield` (one reply through the generator
to its consumer), `Close`, `Cancel` (CancelledError in the consumer, which creates
an `abort_user` task), `AbortUser`, `WaitForAbortAck`. `Listen` is one message of
`listen`, with the branches `AbortAck` and `UserReply`. A `stream` endpoint looks
for a disconnected client after each chunk, a `collect` one never does, the
`shell` waits for the acknowledgement. `Tokenize` and `Detokenize` are one
iteration of a worker (`local_bs` is 1); `decodeMap` is who has an entry in
`decode_map`. The scheduler's side (`SchedUser`, `SchedAbort`, `SchedToken`,
`SchedTrailing`) is what `Scheduler` shows it sends: tokens, one final, at most
one message after it, one acknowledgement per abort, or nothing for a dropped
prompt.

### How the process models correspond to the code

`RankIO`: `at` is where a rank is in `receive_msg`. Rank 0: `Get0` (the blocking
get, republished), `Drain0` (`get_raw` until empty), `Rest0` (broadcast of the
count, then the rest is published); the others: `Get`, `ReadCount`, `Rest`. `Run` is
the rest of the tick, which decides only how much work is left, hence whether the
rank blocks next; an `ExitMsg` leads to the barrier of `shutdown`.

`Launcher`: each rank enters (`Enter`) and leaves (`Leave`) five collectives in
the order of its construction: the process group, `_sync_get_memory` before and
after the weights and at the end of `Engine.__init__`, `sync_all_ranks`.
`_sync_get_memory` raises on imbalance, `_determine_num_pages` on less than two
pages. `sockets` records who binds and who connects each address. Any process may
crash while it constructs.

`Offline`: `Tick` is a tick of the loop between `offline_receive_msg` and
`offline_send_result`, over any non-empty choice of runnable requests;
`AllFinished` the exception that ends `run_forever`.

### How the data models correspond to the code

`TokenPool`: the host issues operations to two queues, the device takes them in
order within a queue. `Schedule` issues the copy of a prompt, the engine's wait,
the run and the write of the sampled tokens; `PostStart` waits for `copy_done`,
recorded before that write; `FreeRows` returns rows.

`BatchLayout`: `CuQ`, `Table`, `Indices`, `LastIndices` are what
`prepare_metadata` builds; `Copied` is `copy_from` and `prepare_for_replay`.
`FlashAttention`, `TensorRTLLM`, `FlashInfer`, `Native`, `Hybrid` read those
arrays as the kernels do, and `Reference` says what each token should read and
write. The page table's contents are one layout in which the rows' pages
interleave; any other is this one with slots renamed.

`Layers` has one operator per class. `Loading` streams tensors in any order of
those that are buffered (`StreamBuffered`), the others first and in one order,
through `_shard_tensor`, the merge and the expert buffers, to `load_state_dict`.
A tensor is the sequence of its slices along the divided dimension, each named by
its origin. `ForwardPass` runs the operations of `Layers` over a heap of tensors:
on `cuda` the norms, the rotary embedding and the fused experts overwrite their
inputs, on `metax` they return new ones. A value is a bag of symbolic results
and says whether the rank has the whole, a share or a summand.

`Experts` follows `fused_experts_impl` through its shared buffer, with every
program of the Triton kernel as a set of stores; `Metax` is `MetaxMoe.forward`.
`TextStream` is `DetokenizeManager.detokenize` with characters torn over tokens.
`Sampling` is `Sampler.prepare` and `Sampler.sample` over the native sampler (the
FlashInfer branch of `sample_impl` calls a library), over weights of a softmax and
the set of tokens that may be drawn. A batch in which all are greedy takes
`torch.argmax`, one fixed index; beside a request that is not greedy, a greedy one
goes through `torch.multinomial` at `MIN_T` and may get any token that ties with the
greatest. So what a request may draw is independent of its peers only up to ties,
and `PeersIrrelevant` names them as its one exception.

Operators named `Faulty...` are the next definition with a plausible defect
(a dropped guard, a missing removal, an off-by-one). The model does not use
them; they record which defect each property is known to notice.

## 3. Runs

| Run | Shows |
|---|---|
| `scheduler_service` | `normal_loop` implements `RequestService`; every queued request and every abort is answered; rows exclusive and none lost, pages exact, no crash; a shutdown in any tick returns every row |
| `scheduler_fence` | `overlap_loop` with aborts: the fence holds, an aborted request is silent, an ack means released, at most one message after the final one, lengths in bounds; rows and pages exact and no crash until an abort meets a request that has had its final message |
| `scheduler_zombie_abort` | **violation**: aborting a finished request that is still in flight frees its row and pages twice |
| `scheduler_overcommit` | **violation**: with `page_size` 4, admission over-commits and `allocate_paged` fails its assertion |
| `scheduler_drain` | **violation**: the drain frees a page never drawn, and `check_integrity` would fail |
| `cache_shared` | `overlap_loop` over the radix cache: reference counts are those of the handles, sizes those of the tree, forks are nodes, nothing fails, no page is freed twice, cached text is what the device writes |
| `cache_paged` | `normal_loop`, two tokens to a page, batches whose preparation fails: every page free, cached or owned once; rows of live requests point at their own KV; refinement of `PrefixStore`; a waiting request is admitted although the cache is full |
| `cache_stale_row` | **violation**: an already cached prompt is prefilled, and the row refers to a freed page, which is handed out again |
| `frontend` | tokens in order and none after the final one; an acknowledged abort purges for good; what the maps keep when all is quiet; when an acknowledgement is final; every request and every abort ends |
| `device_race` | **violation**: the prompt of a new request is overwritten by the sampled token of the row's previous one |
| `processes` | ranks agree on the messages of every tick and stop together; serving means ready; addresses match; one cache size that fits; refusals in common; complete offline outputs |
| `data` | the device streams outside that race, layout on every backend, loading, forward pass, experts, text, sampling |

Where several statements make up one promise, the run checks their conjunction
and the module states each part by a name and a comment of its own:
`ExactUnlessLate`, `TreeSound`, `Leftovers`, `EveryoneEnds`, `ServesWhole`,
`CacheAgreed`, `NobodyHangs`, `TokensIntended`, `LayoutRight`, `ShardsRight` and
`DrawnRight`.

Bounds of `Scheduler`. Two rows of the page table and three requests make one request wait for
a row and reuse it; five pages make admission refuse a second long request until
the first releases; a budget of 2 splits a prompt of 3 in two chunks and lets
prompts of 1 share a batch; `OutLens` 1 and 3 give a request that ends in
its prefill and one that decodes; `MaxSeqLen` 5 caps `max_tokens` and one abort
per request (`MaxAborts`) meets every life of a request. In the exactness runs
`PageSize` is 1, because with larger pages admission does over-commit
(`scheduler_overcommit`). Symmetry over uids is used in `scheduler_fence`, which
has no liveness property.

Bounds of `CacheManager`. Three requests: one leaves text in the cache, two run
side by side. Two sampled tokens let outputs extend and fork cached text. In
`cache_shared` a three-token prompt (`Uneven`) takes two chunks of a budget of
two, is found in the cache by the next one and forked by another, and with five
pages competes with a running request; page size is 1 there, since larger pages
over-commit, and every request asks for two tokens, so that a stop token ends it
while it is in the batch in flight and a limit ends it otherwise. In
`cache_paged` four pages of two tokens hold two requests only by evicting; its
prompts (`Odd`, three tokens)
and budget (one prompt per batch) are such that in `normal_loop` a match covers
every whole page of a cached prompt. Without that the row goes stale
(`cache_stale_row`); in `overlap_loop` it does even so, which is why `RowsValid`
is checked for `normal_loop`.

Bounds of `Frontend`. Two requests, one from any endpoint and up to two tokens,
one collected with one token, over one or two tokenizer processes: two suffice
for an abort to overtake. Of `RankIO`: three ranks, so that two read the same
messages at different speeds, two messages of zero or one tick of work (a rank
that blocks and one that does not), then an `ExitMsg`. Of `Launcher`: one or two
ranks whose memory differs by less than, exactly and more than the tolerance;
a shared detokenizer or a tokenizer of its own. Of `Offline`: two calls of up to two prompts, lengths
below, at and beyond the budget and the maximum, either loop.

Bounds of the data models. `TokenPool`: one row that three requests use in turn,
prompts in one or two chunks. `BatchLayout`: two rows of four positions, page
sizes 1, 2 and 3 (the last does not divide the row), no graphs, one size or two,
every prefill of up to two requests and every decode, two batches one after the
other (the second meets the buffers the first has left). `Loading`: every
architecture with as many KV heads as heads, fewer, and fewer than ranks, on 1, 2
and 4 ranks, a vocabulary that divides and some that do not, two experts.
`ForwardPass`: two layers, so that one can spoil the other. `Experts`: up to four
tokens and two experts, on both sides of the configuration threshold, with a
smaller last group. `TextStream`: four tokens of two requests. `Sampling`: two
requests with every combination of limits, ties and zero weights among them, so a
tied greedy request is met alone, beside a greedy and beside a sampling one.

Fairness. `Scheduler` and `CacheManager`: `WF_vars(Step)`: the process, a `while
True` loop in one thread, keeps taking its next step. `Frontend`: every task that
can run runs (asyncio's ready queue is FIFO) and every process with a message
takes it. `ProcessesMC`: each rank, worker and the launcher takes its next step
unless it crashes. Messages are under no fairness anywhere: nobody has
to send anything, but a receive that never ends (messages arriving forever) is
impossible because arrivals are bounded. Deadlock is checked for `Scheduler` and
`CacheManager`; in the other runs behaviours do end (all requests served, all
processes stopped, a refused start, a bounded number of batches).

## 4. Disagreements found

1. **A zombie's abort frees twice** (`scheduler.py:389-415`). The tick that
   finds request *r* finished frees it; *r* is still in the batch in flight. An
   abort for *r* in the next receive finds it in `inflight_uids`, defers it, and
   `_apply_deferred_aborts` frees it again without consulting `finished_reqs`:
   its row is on the stack twice and its pages twice in the free list. A client
   that disconnects while its last token is on its way is enough.
2. **Admission over-commits with pages** (`prefill.py:77`): `reserved_size`
   counts the requests of the batch being built in tokens, without the
   `page_size - 1` that `inflight_tokens` adds for each running request.
3. **The drain frees a page never drawn** (`scheduler.py:270-278`): after a
   forward `device_len = cached_len + 1`, and that position has no page when
   `cached_len` is a multiple of the page size.
4. **A live row points at a freed page** (`cache.py:140`). After its prefill a
   request's pages that the radix cache already holds are freed, but its row of
   the page table is not redirected to the cached ones. Matching always leaves
   the last prompt token out, so with `page_size` 1 every prompt that is cached
   already meets this; so do equal prompts of one batch, whatever the page size.
   The freed page goes to whoever allocates next, in the run the request itself:
   two of its positions end in one slot.
   In `overlap_loop` every hit on a prompt that is cached with its first output
   token meets it, because what is cached is then one token longer.
5. **A freed row is still written** (`scheduler.py:565`, `engine.py:285`).
   `copy_done` is recorded before the sampled tokens are written to `token_pool`
   on the engine's stream, and the scheduler's stream, which copies prompts into
   rows, never waits for the engine's. A request that finishes while the batch in
   flight still carries it, or whose deferred abort is applied, gives its row back
   while that batch has its write to come; the prompt of the row's next owner may
   be there before it. `OnlyLateWrites` and `DecodeIntended` say how far it goes:
   one position, only in prompts longer than the text of the row's last owner, and
   never a token of a request that goes on decoding.

Other behaviour the models state as it is: after a final message one more may
follow (`OneTrailingToken`), which the frontend drops; finished requests stay in
`ack_map` and `event_map` (`FrontendLeak`), some in `decode_map` (`DecodeLeak`);
with several tokenizers an acknowledged request may still run (`AckIsFinal`); a
dropped prompt gets no reply (`Ends`); the last rank refuses a vocabulary that
does not divide, alone (`LoadsWhole`).

## 5. Proofs

TLAPS checks every theorem below from the assumptions the modules state about
their constants: `ConstantsAssumption` and `MaxSeqLenAssumption` (`engine.py` caps
`max_seq_len` by the tokens the KV cache holds), `CacheAssumption`,
`TokenPoolAssumption`, `FrontendAssumption`, `RankAssumption`, `LauncherAssumption`, `OfflineAssumption`. They say that sets are finite and sizes positive; no bound of a
configuration is among them. TLC checked the inductive invariants on the instances
of section 3 before they were proved, except `RankInv`, whose quantifiers it cannot
enumerate.

A hypothesis of a theorem is one the code really needs. `PageSize = 1`: with larger
pages admission over-commits (`scheduler_overcommit`). `Regular`, which asks of
`overlap_loop` that no abort has come for a request that has had its final message
(and nothing of `normal_loop`): otherwise `scheduler_zombie_abort`. `~Overlap` in
`DrainCorrect` and `ServiceCorrect`: the drain leaves the batch in flight out of
its scope, and `overlap_loop` sends a message after the final one.

### The scheduler

| Theorem | States | Rests on |
|---|---|---|
| `TypeCorrect` | `[]TypeOK` | inductive by itself |
| `FenceCorrect`, `AbortCorrect`, `AckCorrect` | `[]FenceHolds`, `AbortSilences`, `AckMeansReleased` | `FenceInv`, `AcksEarned` |
| `BoundsCorrect` | `[]ReqBounds` | `LifeInv`, `SizedInv` |
| `SlotsCorrect`, `PagesCorrect` | `[](Regular => SlotsExclusive)`, `[](Regular => PagesExact)` | `HoldInv` |
| `DrainCorrect` | `~Overlap`: `[]DrainReturnsSlots` | `HoldInv` |
| `IdleIntact` | `check_integrity` passes whenever the loop is about to block, for every page size | `LifeInv`, `HoldInv` |
| `NeverCrashesCorrect`, `ExactCorrect` | `PageSize = 1`: `[]NeverCrashes` in `normal_loop`, `[]ExactUnlessLate` in both | `RoomInv` |
| `TrailingCorrect` | `[]OneTrailingToken` | `TrailInv` |
| `ServiceCorrect` | `~Overlap`: `ImplementsService` | `ServeInv` |

- *Types.* What is not immediate is in lemmas: `PagesType` (rounding up),
  `RemoveAtProperties`, `FreeType`, `RemovePendingType`; `TryAddOne` needs that a
  chunk is at most the budget and never moves `device` below zero.
- *Fence.* That a deferred request is in no container says nothing of why it
  cannot come back. `FenceInv` adds `Fenced`, what holds of every request whose
  abort was received: it is queued nowhere, in neither the running set nor the
  batch being built, has no reply waiting, and may be in the batch in flight only
  if it is deferred; `TickPhases`, in which phases the batch being built and the
  replies are empty and `inflight` names the batch in flight; and `PendingOnce`, no
  request is twice in the pending list. `OnlyTickEndsSend` reduces the action
  properties to the two steps that send.
- *Life.* `LifeParts` says in which containers a request may be at once: what is
  pending is in a batch only as a chunk, a chunk ends its batch because it uses up
  the budget (`Batched`), a request of a batch that can decode is running unless
  it ended or was aborted (`LastKept`, `CurKept`), what `finished_reqs` holds has
  had its final message (`Finals`). From it and `Sized` (a chunk has prompt left,
  a running request a token to compute) follow the assertions of `Req`.
- *Rows and pages.* `Shared` is exactness of rows for a set of owners, `Drawn` of
  pages; `HoldInv` says them of `Holders` while the loop serves and of what the
  drain has still to visit after an `ExitMsg`. `Acquire` and `Release` say
  how a row is taken and given back; `LifeInv` gives that a release is of a holder
  and no second one follows.
- *Room.* `Promised` sums over the holders what each may come to cache: its
  `max_device_len - 1`, or what it has if it is deferred. `RoomInv` keeps it within
  the pages. At admission the code compares other numbers (`RemainLen` of the
  running set, the sizes reserved for this batch), so the proof needs that
  `device` runs exactly one ahead (`Lagged`) and that sums may be split and
  compared; `MapThenSumSet` is a fold in an order given by CHOOSE, and
  `CommonTheorems` shows that the order does not matter.
- *Messages.* `Trails`: a request with its final message runs no more, and if the
  batch in flight holds it, it has had nothing since. For the refinement `Counted`
  relates `device_len` to the number of tokens sent, `Replied` says that every
  request of the batch is answered once, `AckCount` that acknowledgements never
  outnumber abort messages; each step then maps to a step of `RequestService` or a
  stutter.

### The radix cache

| Theorem | States | Rests on |
|---|---|---|
| `TreeKept` | `Split`, `Lock`, `Unlock`, `InsertPrefix` and `Without` each keep `IsTree` and `Sized`, for any tree | lemmas per operation |
| `CacheSafe` | `[]CacheInv` | inductive |
| `RefsCorrect` | `[]RefsExact` | `CacheInv` |
| `TreeCorrect` | `[]TreeSound` | `CacheInv` with `Sized` (`SizesCorrect`), `IsTree` (`BranchingCorrect`) |
| `StoreRefined` | `IsPrefixStore` | `CacheInv` |
| `PagesCorrect` | `[]PagesOnce` | `CacheInv`, `PageInv` |
| `TextsCorrect` | `[]CacheTruthful` | `CacheInv`, `PageInv`, `TextInv` |
| `IdleIntact` | `check_integrity` passes whenever nothing is left to run | `CacheInv`, `PageInv` with `Sized` |
| `NeverFailsCorrect` | `PageSize = 1`: `[]NeverFails` | `CacheInv`, `PageInv`, `AheadInv`, `RoomInv` |
| `TypeCorrect` | `[]TypeOK` | `CacheInv`, `PageInv`, `AheadInv`, `KindsInv` |

All for either loop, any number of pages, rows and requests, and any sharing among
the prompts; all but `NeverFailsCorrect` for any page size.

- *The tree.* `IsTree` is what the operations need of a tree and keep: texts end at
  pages, every beginning of a cached text that ends at a page is cached, what two
  nodes share page by page is a node again. `Counted` says that a node's count is
  the number of handles at or below it. `InsertPrefix` and `Split` are the hard
  ones: of a new branch, the fork with every other node must be shown to be a node.
  Sizes are sums over the nodes of the length each adds to its parent, so a split
  moves length between nodes and eviction takes it out whole.
- *The requests.* `RefsExact` alone is not inductive: a release unlocks a handle
  only if the request lives, once, and the key it caches is no longer than its
  text. `LifeInv` says where a request is (as in `SchedulerProofs`, but with
  `FailedPrepare`, and with `deferred` and `finished` as they overlap); `LensInv`
  that `device` exceeds the text by no more than the tokens the host has not seen
  (`Lag`, up to two in `overlap_loop`), so that `cached`, one less, is always a
  length of the text; `HeldInv` is `IsTree` and `Counted`.
- *Refinement.* The store's `stored` is `tree.page` and its `pinned` the handles of
  the live requests. Insertion keeps every text that is there with its page
  (`InsertKeeps`), so a post-processed request is `Contribute`, an eviction takes
  only texts beyond every handle, and a split or a count changes nothing.
- *Pages.* `PageInv` adds to `CacheInv` that a row has `PageCount(cached)` pages, of
  which the first are those of the handle, and counts for every page the places it
  is in (`Spread`): the free list, the nodes of the tree, the part of each row
  beyond its handle (`Own`). Every step moves whole pages between the three:
  an insertion splits the row at three page boundaries (`RowCut`), into what the
  handle had, what the tree had already, what it takes, and the rest; what is drawn
  is cut into one slice for each request of the batch (`SlicesAre`, from
  `SliceTotal`).
- *Texts.* `TextInv`: the slots of every node hold its text (`TreeTrue`), and the
  slots of a row beyond the handle hold the request's text as far as forwards have
  computed it (`OwnTrue`). From `PageInv` a slot of a row beyond the handle belongs
  to that place of that request alone (`OwnSlots`), so a forward, which writes
  nothing but such slots, disturbs neither a node nor another request; an insertion
  hands to the tree slots that already hold the text of the new node (`InsertTrue`).
  The prefix of a text stays the same as tokens are appended to it (`Reads`).
- *Room.* `Room`: the protected tokens, and for every live request what it may come
  to hold beyond its handle (`Promised`), fit the pages. A lock that protects a
  prefix takes from the owner's promise what it adds to `protected` (`LockGrows`),
  an insertion moves tokens from the one to the other, an unlock only gives back.
  With `PagesOnce` summed over all pages, what is free or evictable covers what the
  live requests may still draw (`RoomLeft`), so `Needed` is there and `evict`
  finds it (`RoomForBatch`). Admission compares `reserved`
  instead, which `Reserved` relates to the same sum: `InflightTokens` counts each
  running request's rest, and `Lagged` that `device` is one ahead of `cached`, which
  is where a request that has ended but is still in the batch in flight is paid for.
- *Types.* What is not immediate is that `reserved`, `evictable` and `protected`
  stay natural numbers, and that a row holds a page wherever one is read.

### The device streams

`TokensIntendedCorrect`: `PoolSpec => []TokensIntended`, where `PoolSpec` is the
`TokenPool` part of `DataSpec`, for either loop and any number of requests, rows and
chunks. An operation reads a row when the stream reaches it, not when it was
queued, and by then the row may have been freed, given to another request and
copied to. `TokensIntended` speaks of a read when it happens; `PoolInv` has to say of
every read still queued what it will find.

- `HostInv` and `RowInv` are about the host: which containers a request may be in at
  once, that chunks follow one another, how its lengths stand to the tokens
  sampled, what is freed when; a row is free or has one owner.
- `Counting` and `Shape` are about the queue of the engine's stream: a wait, a run and
  a write for each batch, in order. A run still queued belongs to a batch the host
  has not synchronized with, so finishing a batch frees no row whose prompt is
  still to be read (`ReadersStay`), and a copy still queued on the scheduler's
  stream has its run behind a wait that was recorded after it.
- `OpsInv`: a queued copy stays within the prompt, a queued write behind it, but for
  the write to the last column of a full row.
- `SoundInv`: `Will` is what an entry will hold when a given operation starts if the
  scheduler's stream does nothing more. By it each input still to be read is the
  intended token, is still to be copied (and will be, before the wait lets the run
  start), belongs to a request that has ended (the extra token), or is overwritten by
  a late write; and the last token of every running request is there or on its way.

### The processes around it

`RankSpec`, `LaunchSpec` and `OfflineSpec` are the parts of `ProcessesSpec`.

- `RanksAgreeCorrect`: `RankSpec => []RanksAgree`, for any number of ranks and messages. The ranks run
  ahead of one another by any number of ticks, so no relation between two ranks'
  current states is inductive. `RankInv` says instead that there is one history,
  the messages `S` rank 0 has published in order, where in it each tick ends
  (`b`), the messages `T` of each tick and the work `w` left after it, and that
  every rank stands somewhere in it (`Follows`, `Stands`), with its two queues
  holding the rest of it (`RankKept`). Whether a rank blocks is then a function of the
  history (`w[k] = 0`), not of the rank.
- `PurgedCorrect`: `[]Purged`. `AbortOnce` counts an abort from the client to its
  acknowledgement: it is in one place at most once asked for (`aborter`, a queue
  towards the scheduler, a queue back, `acked`), and `ack_map` and `event_map` hold
  exactly the requests made and not acknowledged. `Woken` is why a task that wakes
  finds replies or nothing.
- `AckIsFinalCorrect`: `[]AckIsFinal`. With one tokenizer an abort is the last
  message of its request in either queue (`AbortLast`), and once it is answered
  nothing is left in them (`SettleInv`).
- `InOrderCorrect`: `[]InOrder`. `Flow` numbers the tokens of an open request from
  the client back to the scheduler: what was delivered, the batch being yielded,
  `ack_map`, and in either queue a run of consecutive replies among those of
  others (`Run`), with no gap at the joints. `RunAppend` and `RunTail` are the
  lemmas about a run.
- `LeftoversCorrect`: `[]Leftovers`. `Decoding`: the replies pass the detokenizer in
  order and all that have passed are older than those to come; hence a request that
  has an entry after its final token got a later one.

- `ServesWholeCorrect`: `LaunchSpec => []ServesWhole`. The acknowledgements sent and
  heard are as many as the workers and the primary rank that are ready (`Acked`), so
  a launcher that has heard all it waits for has them all; and a ready rank has
  left the last collective, which every other rank must have entered (`Stage`), its
  scheduler built. `Opened` says who has opened which socket by then and that no one
  else has; from it follows that each address is bound by one.
- `CacheAgreedCorrect`: `LaunchSpec => []CacheAgreed`. `Shares`: what a rank computes
  from an exchange of free memory is the most or the least of all the offers, as
  nobody leaves an exchange before all have entered it, and the offers stand after
  that. Each rank then uses the same two numbers (`Sizes`); `Fits` is the
  arithmetic of `memory_ratio`, for a model as large on each rank.
- `OutputsCorrect`: `OfflineSpec => []OutputsComplete`. `Told`: an output holds the
  tokens sampled for it, in order, but for one in flight, and ends at its stop;
  `Course`: a request is active until it has stopped or reached its limit, and a
  stopped one takes part at most in the batch that was in flight. When
  `run_forever` is left nothing is active, in flight or unfed.

### What stays with TLC

Liveness (`Answered`, `Admitted`, `EveryoneEnds`, `NobodyHangs`), which needs
fairness and ENABLED. Of the radix cache: `RowsValid`, which holds only where no
request meets a longer cached text (finding 4), a condition on the prompts of a
run. The data
models, whose operators are recursive: what they compute is checked over bounded
inputs. Where a proof needed induction it is in set form (`NatInduct`,
`FiniteInduct` in `CommonTheorems`): the library's theorems take an operator the
provers cannot instantiate.

## 6. Plan

What is left is what the data models compute, for inputs of any size: `LayoutRight`,
`ShardsRight`, `ForwardRight`, `BackendsMatch`, `TextFaithful` and `DrawnRight`. Their
operators recurse over sequences; the way there is the one taken for sums in
`CommonTheorems`, recursive functions and induction in set form.

## 7. Not modelled

- Message serialisation (`message/utils.py`): a recursive conversion without
  state; messages are values here. `distributed/` wraps collectives that the
  models use as primitives.
- Numerics: matrix products, the values of norms, activations, softmax and rotary
  tables (`layers/rotary.py` computes scaled frequencies), quantities in floating
  point. A model checker has no reals, and what relates these values is algebra.
- Kernel sources in C++ and CUDA, their compilation and bindings; FlashInfer's
  planning and workspace; the loop that captures graphs and the choice of batch
  sizes to capture.
- HTTP: request parsing, chat history and templates, response formats.
- Argument parsing, environment variables, logging, platform and device
  detection, benchmarks and scripts: no state the properties speak of.
- A `max_tokens` of zero or less, which the API does not refuse: in all models and
  theorems a request asks for at least one token. (By the code, zero yields the one
  token the prefill samples; with a negative number the assertion in
  `Req.__post_init__` fails.)
- Signals (Ctrl-C in the server's processes), which reach a process at any
  instruction, and losses on the PUB socket between ranks, which depend on the
  timing inside the messaging library. A child that dies after it started is not
  modelled either: no code notices.
