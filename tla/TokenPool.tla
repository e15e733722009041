------------------------------ MODULE TokenPool ------------------------------
(***************************************************************************)
(* The rows of token_pool under the two device streams.  The host puts     *)
(* work on the scheduler's stream (the copy of a prompt into its row) and  *)
(* on the engine's (wait for the scheduler's stream, read the inputs of    *)
(* the batch and sample, write the sampled tokens to the rows); the device *)
(* does the work of each stream in order, and of the two in any order but  *)
(* for the wait.  The host waits for a batch only when it post-processes   *)
(* it, for an event recorded before the write of its tokens.  overlap_loop *)
(* launches the next batch first; normal_loop uses the engine's stream for *)
(* everything.  Which request runs when is Scheduler.tla's subject: here a *)
(* prompt is prefilled alone, and pages are left out, because the engine's *)
(* stream alone touches the KV cache.                                      *)
(***************************************************************************)
EXTENDS Integers, Sequences, FiniteSets, SequencesExt

CONSTANTS
  Uids,
  Modes,       \* bound: the loops a behaviour may run, TRUE for overlap_loop
  NumRows,     \* rows of token_pool
  RowWidth,       \* tokens in a row
  Budget,      \* max_extend_tokens
  PromptLens,  \* bound: prompt lengths
  OutLens,     \* bound: max_tokens
  MayStop,     \* whether a request may end at an EOS
  MayAbort

ASSUME TokenPoolAssumption ==
  /\ IsFiniteSet(Uids) /\ Modes \subseteq BOOLEAN /\ MayStop \in BOOLEAN /\ MayAbort \in BOOLEAN
  /\ NumRows \in Nat \ {0} /\ RowWidth \in Nat \ {0} /\ Budget \in Nat \ {0}
  /\ PromptLens \subseteq 1 .. RowWidth - 1 /\ OutLens \subseteq Nat \ {0}

VARIABLES
  overlap,                       \* which loop runs
  pc, waiting, chunked, running, \* the host: schedule or post; the requests
  plen, end, cached, device, row, freeRows,
  cur, last, toFree, finished, deferred,
  launched,                      \* batches launched
  schedQ, schedDone, schedAll,   \* the scheduler's stream, ops done and issued
  engineQ, runsDone,             \* the engine's stream, batches sampled
  pool,                          \* token_pool: the token each entry holds
  misread                        \* inputs read that were not the request's

host  == <<pc, waiting, chunked, running, plen, end, cached, device, row, freeRows,
           cur, last, toFree, finished, deferred, launched>>
poolVars == <<overlap, host, schedQ, schedDone, schedAll, engineQ, runsDone, pool, misread>>

Rows == 0 .. NumRows - 1
Token(u, i) == <<u, i>>
NothingLaunched == [no |-> 0, reqs |-> {}, chunked |-> {}]

PoolInit ==
  /\ overlap \in Modes
  /\ pc = "schedule" /\ waiting = Uids /\ chunked = {} /\ running = {}
  /\ plen \in [Uids -> PromptLens]
  /\ \E out \in [Uids -> OutLens] :
       end = [u \in Uids |-> IF plen[u] + out[u] > RowWidth THEN RowWidth ELSE plen[u] + out[u]]
  /\ cached = [u \in Uids |-> 0] /\ device = [u \in Uids |-> 0] /\ row = [u \in Uids |-> 0]
  /\ freeRows = [i \in 1 .. NumRows |-> i - 1]
  /\ cur = NothingLaunched /\ last = NothingLaunched /\ toFree = {} /\ finished = {} /\ deferred = {}
  /\ launched = 0
  /\ schedQ = <<>> /\ schedDone = 0 /\ schedAll = 0 /\ engineQ = <<>> /\ runsDone = 0
  /\ pool = [r \in Rows |-> [i \in 0 .. RowWidth - 1 |-> <<>>]]
  /\ misread = {}

Data == IF overlap THEN last ELSE cur

-----------------------------------------------------------------------------
(* The device                                                              *)

\* What the row of a request should hold at the positions the batch reads
Inputs(reads) == UNION {{<<r, i>> : i \in r.from .. r.to - 1} : r \in reads}

Did(op) ==
  CASE op.op = "copy" ->
         /\ pool' = [pool EXCEPT ![op.row] = [i \in 0 .. RowWidth - 1 |->
                       IF i \in op.from .. op.to - 1 THEN Token(op.uid, i) ELSE @[i]]]
         /\ UNCHANGED <<misread, runsDone>>
    [] op.op = "run" ->
         /\ misread' = misread \union
              {[uid |-> x[1].uid, pos |-> x[2], got |-> pool[x[1].row][x[2]]] : x \in
                 {y \in Inputs(op.reads) : pool[y[1].row][y[2]] /= Token(y[1].uid, y[2])}}
         /\ runsDone' = runsDone + 1
         /\ UNCHANGED pool
    [] op.op = "write" ->
         /\ pool' = [r \in Rows |-> [i \in 0 .. RowWidth - 1 |->
                       IF \E w \in op.writes : w.row = r /\ w.pos = i
                       THEN LET w == CHOOSE w \in op.writes : w.row = r /\ w.pos = i
                            IN  Token(w.uid, w.at)
                       ELSE pool[r][i]]]
         /\ UNCHANGED <<misread, runsDone>>

SchedStream ==
  /\ schedQ /= <<>>
  /\ Did(Head(schedQ))
  /\ schedQ' = Tail(schedQ) /\ schedDone' = schedDone + 1
  /\ UNCHANGED <<overlap, host, schedAll, engineQ>>

\* A wait is passed once the ops it saw on the scheduler's stream are done.
EngineStream ==
  /\ engineQ /= <<>>
  /\ IF Head(engineQ).op = "wait"
     THEN schedDone >= Head(engineQ).seen /\ UNCHANGED <<pool, misread, runsDone>>
     ELSE Did(Head(engineQ))
  /\ engineQ' = Tail(engineQ)
  /\ UNCHANGED <<overlap, host, schedQ, schedDone, schedAll>>

-----------------------------------------------------------------------------
(* The host                                                                *)

\* overlap_loop makes the engine's stream wait for the scheduler's before
\* the batch; normal_loop has entered the engine's stream for good.
Enqueue(copies, work) ==
  IF overlap
  THEN /\ schedQ' = schedQ \o copies /\ schedAll' = schedAll + Len(copies)
       /\ engineQ' = engineQ \o <<[op |-> "wait", seen |-> schedAll + Len(copies)]>> \o work
  ELSE engineQ' = engineQ \o copies \o work /\ UNCHANGED <<schedQ, schedAll>>

FaultyWriteAt(u, part, to) == to - 1

\* _make_write_tuple: at device_len, or in the last column for a ChunkedReq
WriteAt(u, part, to) == IF part THEN RowWidth - 1 ELSE to

\* _forward for requests whose inputs are [from, to): read, sample, write,
\* with complete_one in between.
Batch(reqs, part, from, to, copies) ==
  /\ Enqueue(copies,
       <<[op |-> "run", reads |-> {[uid |-> u, row |-> row'[u], from |-> from[u], to |-> to[u]]
                                     : u \in reqs}],
         [op |-> "write", writes |-> {[uid |-> u, row |-> row'[u], at |-> to[u],
                                       pos |-> WriteAt(u, part, to[u])] : u \in reqs}]>>)
  /\ cached' = [u \in Uids |-> IF u \in reqs THEN to[u] ELSE cached[u]]
  /\ device' = [u \in Uids |-> IF u \in reqs THEN to[u] + 1 ELSE device[u]]
  /\ launched' = launched + 1
  /\ cur' = [no |-> launched', reqs |-> reqs, chunked |-> IF part THEN reqs ELSE {}]
  /\ pc' = "post"

\* Take the next prompt, or its next chunk: a row if it has none, the copy of
\* the tokens into it, and the batch.
Prefill(u) ==
  /\ u \in chunked \/ (u \in waiting /\ chunked = {} /\ freeRows /= <<>>)
  /\ LET from == cached[u]
         size == IF Budget < plen[u] - from THEN Budget ELSE plen[u] - from
         part == size < plen[u] - from
     IN  /\ IF u \in chunked THEN UNCHANGED <<row, freeRows>>
            ELSE row' = [row EXCEPT ![u] = Last(freeRows)] /\ freeRows' = Front(freeRows)
         /\ Batch({u}, part, cached, [cached EXCEPT ![u] = from + size],
                  <<[op |-> "copy", row |-> row'[u], from |-> from, to |-> from + size,
                     uid |-> u]>>)
         /\ chunked' = IF part THEN {u} ELSE {}
         /\ running' = running \union (IF ~part /\ from + size + 1 < end[u] THEN {u} ELSE {})
  /\ waiting' = waiting \ {u}

Decode ==
  /\ running /= {} /\ chunked = {}
  /\ running' = {u \in running : device[u] + 1 < end[u]}
  /\ UNCHANGED <<waiting, chunked, row, freeRows>>
  /\ Batch(running, FALSE, cached, device, <<>>)

\* Prefill first: but a request of waiting may not have arrived yet.
Schedule ==
  /\ pc = "schedule"
  /\ \/ \E u \in Uids : Prefill(u)
     \/ Decode
     \/ /\ last /= NothingLaunched /\ running = {} /\ chunked = {}
        /\ pc' = "post"
        /\ UNCHANGED <<waiting, chunked, running, row, freeRows, cached, device, launched, cur,
                       schedQ, schedAll, engineQ>>
  /\ UNCHANGED <<overlap, plen, end, last, toFree, finished, deferred, schedDone, runsDone, pool,
                 misread>>

\* An abort before the batch is chosen: deferred for a request in flight
Abort(u) ==
  /\ MayAbort /\ pc = "schedule" /\ u \in running \union chunked
  /\ running' = running \ {u} /\ chunked' = chunked \ {u}
  /\ IF u \in last.reqs THEN deferred' = deferred \union {u} /\ UNCHANGED freeRows
     ELSE freeRows' = Append(freeRows, row[u]) /\ UNCHANGED deferred
  /\ UNCHANGED <<overlap, pc, waiting, plen, end, cached, device, row, cur, last, toFree, finished,
                 launched, schedQ, schedDone, schedAll, engineQ, runsDone, pool, misread>>

\* copy_done.synchronize(): the batch has sampled its tokens.
Synchronize == runsDone >= Data.no

\* _process_last_data and _apply_deferred_aborts: the rows of the finished
\* requests are free.  toFree is set on entering; a request that the previous
\* batch finished is not freed again.
PostStart ==
  /\ pc = "post" /\ Synchronize
  /\ pc' = "free"
  /\ \E stops \in SUBSET (IF MayStop THEN Data.reqs ELSE {}) :
       toFree' = (((stops \union {u \in Data.reqs : device[u] >= end[u]}) \ Data.chunked)
                  \union (Data.reqs \intersect deferred)) \ finished
  /\ UNCHANGED <<overlap, waiting, chunked, running, plen, end, cached, device, row, freeRows, cur,
                 last, finished, deferred, launched, schedQ, schedDone, schedAll, engineQ,
                 runsDone, pool, misread>>

FreeRows ==
  /\ pc = "free"
  /\ \E order \in SetToSeqs(toFree) : freeRows' = freeRows \o [i \in DOMAIN order |-> row[order[i]]]
  /\ running' = running \ toFree
  /\ finished' = IF Data = NothingLaunched THEN finished ELSE toFree \ deferred
  /\ toFree' = {} /\ deferred' = {}
  /\ last' = IF overlap THEN cur ELSE NothingLaunched
  /\ cur' = NothingLaunched /\ pc' = "schedule"
  /\ UNCHANGED <<overlap, waiting, chunked, plen, end, cached, device, row, launched, schedQ,
                 schedDone, schedAll, engineQ, runsDone, pool, misread>>

-----------------------------------------------------------------------------
PoolNext ==
  \/ SchedStream \/ EngineStream
  \/ Schedule \/ PostStart \/ FreeRows
  \/ \E u \in Uids : Abort(u)

PoolSpec == PoolInit /\ [][PoolNext]_poolVars

-----------------------------------------------------------------------------
(* The engine reads as input of a request only that request's tokens: what
   _apply_deferred_aborts claims of a freed row ("without racing anyone"). *)
ReadsIntended == misread = {}

(* normal_loop puts everything on one stream, and there it is so. *)
NormalReadsIntended == ~overlap => ReadsIntended

(* In overlap_loop the last token of a request that goes on is its own,
   whoever had or gets the row.  One that was finished and is still in the
   batch in flight may read the first tokens of the next prompt instead: its
   extra token, and the KV cached for its text, are then another's. *)
DecodeIntended ==
  \A m \in misread : m.pos >= plen[m.uid] =>
    /\ m.uid \notin running \union chunked \union waiting
    /\ m.got /= <<>> /\ m.got[1] /= m.uid /\ m.got[2] < plen[m.got[1]]

(* A prompt token is misread only where the previous request of the row had
   a sampled token to write: the prompt is longer than that request's text,
   whose row was freed with its batch in flight. *)
OnlyLateWrites ==
  \A m \in misread : m.pos < plen[m.uid] =>
    m.got /= <<>> /\ m.got[1] /= m.uid /\ m.pos = m.got[2] /\ m.pos >= plen[m.got[1]]

(* Which tokens the engine may misread, and when: in normal_loop none, in
   overlap_loop only those two kinds. *)
TokensIntended == NormalReadsIntended /\ DecodeIntended /\ OnlyLateWrites
=============================================================================
