-------------------------- MODULE TokenPoolProofs --------------------------
(***************************************************************************)
(* Which tokens the engine reads, proved for any number of requests, rows  *)
(* and chunks, in either loop, with aborts and stop tokens, however the    *)
(* two streams of the device interleave.                                   *)
(***************************************************************************)
EXTENDS TokenPool, CommonTheorems

\* The operations a queue holds
Copies == [op : {"copy"}, row : Rows, from : Nat, to : Nat, uid : Uids]
Waits  == [op : {"wait"}, seen : Nat]
Reads  == [uid : Uids, row : Rows, from : Nat, to : Nat]
Runs   == [op : {"run"}, reads : SUBSET Reads]
Puts   == [uid : Uids, row : Rows, at : Nat, pos : Nat]
Writes == [op : {"write"}, writes : SUBSET Puts]
Batches == [no : Nat, reqs : SUBSET Uids, chunked : SUBSET Uids]

PoolTypeOK ==
  /\ overlap \in BOOLEAN /\ pc \in {"schedule", "post", "free"}
  /\ waiting \subseteq Uids /\ chunked \subseteq Uids /\ running \subseteq Uids
  /\ plen \in [Uids -> Nat] /\ end \in [Uids -> Nat]
  /\ cached \in [Uids -> Nat] /\ device \in [Uids -> Nat] /\ row \in [Uids -> Rows]
  /\ freeRows \in Seq(Rows)
  /\ cur \in Batches /\ last \in Batches
  /\ toFree \subseteq Uids /\ finished \subseteq Uids /\ deferred \subseteq Uids
  /\ launched \in Nat /\ schedDone \in Nat /\ schedAll \in Nat /\ runsDone \in Nat
  /\ schedQ \in Seq(Copies)
  /\ engineQ \in Seq(Copies \union Waits \union Runs \union Writes)
  /\ DOMAIN pool = Rows /\ \A r \in Rows : DOMAIN pool[r] = 0 .. RowWidth - 1

\* The requests that may still run, and those for which a row is kept
Live == running \union chunked \union waiting
Owners == running \union chunked \union deferred \union (last.reqs \ finished) \union cur.reqs

\* The containers: which exclude which, what is a chunk, why a request of a
\* batch is in none of them, how long requests are, and what is freed.
Apart ==
  /\ waiting \intersect (running \union chunked \union last.reqs \union cur.reqs \union deferred \union finished) = {}
  /\ running \intersect chunked = {}
  /\ deferred \intersect (running \union chunked \union cur.reqs) = {} /\ deferred \subseteq last.reqs
  /\ finished \intersect (running \union chunked \union cur.reqs \union deferred) = {}
Phases ==
  /\ pc = "schedule" => cur = NothingLaunched
  /\ pc /= "free" => toFree = {}
  /\ cur.chunked \subseteq cur.reqs /\ last.chunked \subseteq last.reqs
  /\ ~overlap => last = NothingLaunched
Chunks ==
  /\ \A u, v \in chunked : u = v
  /\ chunked \intersect last.reqs \subseteq last.chunked
  /\ chunked \intersect cur.reqs \subseteq cur.chunked
  /\ last.chunked \subseteq chunked \union deferred \union cur.reqs
  /\ cur.chunked \subseteq chunked
Ended ==
  /\ \A u \in (last.reqs \ finished) \ (running \union chunked \union deferred \union cur.reqs) : device[u] >= end[u]
  /\ \A u \in cur.reqs \ (running \union chunked) : device[u] >= end[u]
Lengths ==
  /\ \A u \in Uids : plen[u] >= 1 /\ plen[u] < end[u] /\ end[u] <= RowWidth
  /\ \A u \in waiting : cached[u] = 0
  /\ \A u \in chunked : cached[u] < plen[u]
  /\ \A u \in running : plen[u] <= cached[u] /\ device[u] = cached[u] + 1 /\ device[u] < end[u]
  /\ \A u \in cur.reqs \intersect last.reqs : u \in last.chunked \/ cached[u] > plen[u]
Freeing ==
  pc = "free" =>
    /\ toFree \subseteq Data.reqs \ finished
    /\ Data.reqs \intersect deferred \subseteq toFree
    /\ \A u \in (Data.reqs \ Data.chunked) \ finished : device[u] >= end[u] => u \in toFree
    /\ toFree \intersect Data.chunked \subseteq deferred

HostInv == Apart /\ Phases /\ Chunks /\ Ended /\ Lengths /\ Freeing

\* A row is free or one request's.
RowInv ==
  /\ IsInjective(freeRows)
  /\ \A u \in Owners : row[u] \notin Range(freeRows)
  /\ \A u, v \in Owners : row[u] = row[v] => u = v

\* The streams: which batches are not sampled yet, the number of the one that
\* operation i belongs to, and what the queues hold of it
Some(b) == IF b = NothingLaunched THEN 0 ELSE 1
No(i) == launched - ((Len(engineQ) - i - 1) \div 3)
Counting ==
  /\ cur /= NothingLaunched => cur.no = launched /\ launched >= 1
  /\ last /= NothingLaunched => last.no = launched - Some(cur) /\ last.no >= 1
  /\ overlap => runsDone >= launched - Some(cur) - Some(last)
  /\ pc = "free" => runsDone >= Data.no
\* In overlap_loop a batch is a wait, a run and a write.
Place(i) == (Len(engineQ) - i) % 3
Order ==
  \A i \in DOMAIN engineQ :
    /\ Place(i) = 0 => engineQ[i].op = "write"
    /\ Place(i) = 1 => engineQ[i].op = "run"
    /\ Place(i) = 2 => engineQ[i].op = "wait"
Counts ==
  /\ runsDone = launched - ((Len(engineQ) + 1) \div 3)
  /\ schedAll = schedDone + Len(schedQ)
ReadByCur(i, x) ==
  /\ cur /= NothingLaunched /\ No(i) = cur.no /\ x.uid \in cur.reqs
  /\ x.from < plen[x.uid] => cached[x.uid] <= plen[x.uid]
ReadByLast(i, x) ==
  /\ last /= NothingLaunched /\ No(i) = last.no /\ x.uid \in last.reqs
  /\ x.from < plen[x.uid] => x.uid \notin finished
AllRead ==
  \A i \in DOMAIN engineQ : engineQ[i].op = "run" =>
    \A x \in engineQ[i].reads : ReadByCur(i, x) \/ ReadByLast(i, x)
CopyRead(c) ==
  \E i \in DOMAIN engineQ : \E k \in 1 .. i - 1 :
    /\ engineQ[i].op = "run" /\ engineQ[k].op = "wait" /\ engineQ[k].seen >= schedDone + c
    /\ \E x \in engineQ[i].reads : x.uid = schedQ[c].uid /\ x.from < plen[x.uid]
AllCopied == \A c \in DOMAIN schedQ : CopyRead(c)
Shape == overlap => Order /\ Counts /\ AllRead /\ AllCopied
Serial == ~overlap => schedQ = <<>> /\ \A i \in DOMAIN engineQ : engineQ[i].op /= "wait"

\* The rows and positions of the queued work: a copy stays in the prompt, a
\* write behind it, but for the last column.
CopyOK(o) == o.row = row[o.uid] /\ o.to <= plen[o.uid] /\ o.uid \notin waiting
RunOK(o) == \A x \in o.reads : x.row = row[x.uid] /\ x.uid \notin waiting /\ x.to < RowWidth
WriteOK(o) ==
  /\ \A w \in o.writes : w.row = row[w.uid] /\ w.uid \notin waiting
        /\ (w.pos = RowWidth - 1 \/ (w.pos = w.at /\ w.at >= plen[w.uid]))
  /\ \A v, w \in o.writes : v.row = w.row => v = w
OpOK(o) ==
  /\ o.op = "copy" => CopyOK(o)
  /\ o.op = "run" => RunOK(o)
  /\ o.op = "write" => WriteOK(o)
OpsInv ==
  /\ \A c \in DOMAIN schedQ : OpOK(schedQ[c])
  /\ \A i \in DOMAIN engineQ : OpOK(engineQ[i])

\* Will(i, r, j, t): entry j of row r will be t when operation i starts, if the
\* scheduler's stream does nothing meanwhile.
Covers(o, r, j) == o.row = r /\ j \in o.from .. o.to - 1
Touches(o, r, j) ==
  \/ o.op = "copy" /\ Covers(o, r, j)
  \/ o.op = "write" /\ \E w \in o.writes : w.row = r /\ w.pos = j
Leaves(o, r, j, t) ==
  /\ Touches(o, r, j)
  /\ o.op = "copy" => t = Token(o.uid, j)
  /\ o.op = "write" => \A w \in o.writes : w.row = r /\ w.pos = j => t = Token(w.uid, w.at)
Untouched(a, b, r, j) == \A l \in a .. b : ~Touches(engineQ[l], r, j)
Will(i, r, j, t) ==
  \/ \E k \in 1 .. i - 1 : Leaves(engineQ[k], r, j, t) /\ Untouched(k + 1, i - 1, r, j)
  \/ pool[r][j] = t /\ Untouched(1, i - 1, r, j)
Awaits(i, r, j, u) ==
  \E c \in DOMAIN schedQ : /\ schedQ[c].uid = u /\ Covers(schedQ[c], r, j)
     /\ \E k \in 1 .. i - 1 : engineQ[k].op = "wait" /\ engineQ[k].seen >= schedDone + c
\* Input j of x, read by operation i, is the request's own, or is still to be
\* copied, or comes from the next request of a row that the batch before had
\* freed (the extra token), or from the write of the previous one.
Intended(i, x, j) == Will(i, x.row, j, Token(x.uid, j))
Copying(i, x, j) == overlap /\ j < plen[x.uid] /\ Awaits(i, x.row, j, x.uid)
ExtraToken(i, x, j) ==
  /\ overlap /\ j >= plen[x.uid] /\ x.uid \notin Live
  /\ \E v \in Uids : v /= x.uid /\ j < plen[v] /\ Will(i, x.row, j, Token(v, j))
LateWrite(i, x, j) ==
  /\ overlap /\ j < plen[x.uid]
  /\ \E v \in Uids : v /= x.uid /\ j >= plen[v] /\ Will(i, x.row, j, Token(v, j))
Sound(i, x, j) == Intended(i, x, j) \/ Copying(i, x, j) \/ ExtraToken(i, x, j) \/ LateWrite(i, x, j)
ReadsSound ==
  \A i \in DOMAIN engineQ : engineQ[i].op = "run" =>
    \A x \in engineQ[i].reads : \A j \in x.from .. x.to - 1 : Sound(i, x, j)
Sampled(u) == Will(Len(engineQ) + 1, row[u], cached[u], Token(u, cached[u]))
SoundInv == ReadsSound /\ \A u \in running : Sampled(u)

PoolInv == PoolTypeOK /\ HostInv /\ RowInv /\ Counting /\ Shape /\ Serial /\ OpsInv /\ SoundInv

-----------------------------------------------------------------------------
(* What the steps do.                                                       *)

Fixed == UNCHANGED <<overlap, plen, end, last, toFree, finished, deferred, schedDone, runsDone, pool, misread>>

\* The operations of a batch whose inputs are [from, to)
ReadAll(reqs, from, to) == {[uid |-> u, row |-> row'[u], from |-> from[u], to |-> to[u]] : u \in reqs}
WriteAll(reqs, part, to) ==
  {[uid |-> u, row |-> row'[u], at |-> to[u], pos |-> WriteAt(u, part, to[u])] : u \in reqs}
CopyOf(u, from, to) == [op |-> "copy", row |-> row'[u], from |-> from, to |-> to, uid |-> u]

\* What a launched batch leaves on the host
Launched(reqs, part, to) ==
  /\ launched' = launched + 1 /\ pc' = "post"
  /\ cur' = [no |-> launched + 1, reqs |-> reqs, chunked |-> IF part THEN reqs ELSE {}]
  /\ cached' = [u \in Uids |-> IF u \in reqs THEN to[u] ELSE cached[u]]
  /\ device' = [u \in Uids |-> IF u \in reqs THEN to[u] + 1 ELSE device[u]]

Takes(u, to, part) ==
  /\ to \in Nat /\ part \in BOOLEAN /\ cached[u] < to /\ to <= plen[u] /\ (part <=> to < plen[u])
  /\ u \in chunked \/ (u \in waiting /\ chunked = {})
  /\ IF u \in chunked THEN row' = row /\ freeRows' = freeRows
     ELSE freeRows /= <<>> /\ row' = [row EXCEPT ![u] = Last(freeRows)] /\ freeRows' = Front(freeRows)
  /\ waiting' = waiting \ {u} /\ chunked' = (IF part THEN {u} ELSE {})
  /\ running' = running \union (IF ~part /\ to + 1 < end[u] THEN {u} ELSE {})

Prefilled(u, to, part) ==
  /\ Takes(u, to, part)
  /\ Launched({u}, part, [cached EXCEPT ![u] = to])
  /\ Enqueue(<<CopyOf(u, cached[u], to)>>,
             <<[op |-> "run", reads |-> ReadAll({u}, cached, [cached EXCEPT ![u] = to])],
               [op |-> "write", writes |-> WriteAll({u}, part, [cached EXCEPT ![u] = to])]>>)

Decoded ==
  /\ running /= {} /\ chunked = {} /\ running' = {u \in running : device[u] + 1 < end[u]}
  /\ waiting' = waiting /\ chunked' = chunked /\ row' = row /\ freeRows' = freeRows
  /\ Launched(running, FALSE, device)
  /\ Enqueue(<<>>, <<[op |-> "run", reads |-> ReadAll(running, cached, device)],
                     [op |-> "write", writes |-> WriteAll(running, FALSE, device)]>>)

Idles ==
  /\ last /= NothingLaunched /\ running = {} /\ chunked = {} /\ pc' = "post"
  /\ UNCHANGED <<waiting, chunked, running, row, freeRows, cached, device, launched, cur,
                 schedQ, schedAll, engineQ>>

LEMMA PrefillIs ==
  ASSUME TokenPoolAssumption, PoolTypeOK, HostInv, NEW u \in Uids, Prefill(u)
  PROVE  \E to \in Nat, part \in BOOLEAN : Prefilled(u, to, part)
<1> DEFINE size == IF Budget < plen[u] - cached[u] THEN Budget ELSE plen[u] - cached[u]
           part == size < plen[u] - cached[u]
           to == cached[u] + size
<1>1. cached[u] \in Nat /\ plen[u] \in Nat /\ Budget \in Nat \ {0} /\ cached[u] < plen[u]
  BY DEF Prefill, PoolTypeOK, TokenPoolAssumption, HostInv, Lengths
<1>2. to \in Nat /\ part \in BOOLEAN /\ cached[u] < to /\ to <= plen[u] /\ (part <=> to < plen[u])
  BY <1>1
<1>3. /\ u \in chunked \/ (u \in waiting /\ chunked = {} /\ freeRows /= <<>>)
      /\ IF u \in chunked THEN UNCHANGED <<row, freeRows>>
         ELSE row' = [row EXCEPT ![u] = Last(freeRows)] /\ freeRows' = Front(freeRows)
      /\ Batch({u}, part, cached, [cached EXCEPT ![u] = to], <<CopyOf(u, cached[u], to)>>)
      /\ chunked' = IF part THEN {u} ELSE {}
      /\ running' = running \union (IF ~part /\ to + 1 < end[u] THEN {u} ELSE {})
      /\ waiting' = waiting \ {u}
  BY DEF Prefill, CopyOf
<1> HIDE DEF size, part, to
<1>4. Takes(u, to, part)
  BY <1>2, <1>3 DEF Takes
<1>5. Launched({u}, part, [cached EXCEPT ![u] = to])
  BY <1>3 DEF Batch, Launched
<1>6. Prefilled(u, to, part)
  BY <1>3, <1>4, <1>5 DEF Batch, Prefilled, ReadAll, WriteAll
<1>. QED  BY <1>2, <1>6

LEMMA DecodeIs == ASSUME Decode PROVE Decoded
BY DEF Decode, Decoded, Batch, Launched, ReadAll, WriteAll

LEMMA ScheduleIs ==
  ASSUME TokenPoolAssumption, PoolTypeOK, HostInv, Schedule
  PROVE  /\ pc = "schedule" /\ Fixed
         /\ \/ \E u \in Uids, to \in Nat, part \in BOOLEAN : Prefilled(u, to, part)
            \/ Decoded
            \/ Idles
BY PrefillIs, DecodeIs DEF Schedule, Fixed, Idles

-----------------------------------------------------------------------------
(* Types.                                                                   *)

Ops == Copies \union Waits \union Runs \union Writes

LEMMA NothingIs ==
  NothingLaunched \in Batches /\ NothingLaunched.no = 0 /\ NothingLaunched.reqs = {} /\ NothingLaunched.chunked = {}
BY DEF NothingLaunched, Batches

\* What a new batch adds to the queues
LEMMA WorkType ==
  ASSUME TokenPoolAssumption, NEW reqs \in SUBSET Uids, NEW part \in BOOLEAN,
         NEW from \in [Uids -> Nat], NEW to \in [Uids -> Nat], row' \in [Uids -> Rows]
  PROVE  /\ [op |-> "run", reads |-> ReadAll(reqs, from, to)] \in Runs
         /\ [op |-> "write", writes |-> WriteAll(reqs, part, to)] \in Writes
<1>1. ReadAll(reqs, from, to) \in SUBSET Reads
  BY DEF ReadAll, Reads
<1>2. \A u \in Uids : WriteAt(u, part, to[u]) \in Nat
  BY DEF WriteAt, TokenPoolAssumption
<1>3. WriteAll(reqs, part, to) \in SUBSET Puts
  BY <1>2 DEF WriteAll, Puts
<1>. QED  BY <1>1, <1>3 DEF Runs, Writes

LEMMA QueuesType ==
  ASSUME PoolTypeOK, NEW copies \in Seq(Copies), NEW run \in Runs, NEW write \in Writes,
         Enqueue(copies, <<run, write>>)
  PROVE  schedQ' \in Seq(Copies) /\ schedAll' \in Nat /\ engineQ' \in Seq(Ops)
<1>1. schedQ \in Seq(Copies) /\ engineQ \in Seq(Ops) /\ schedAll \in Nat /\ Len(copies) \in Nat
  BY DEF PoolTypeOK, Ops
<1>2. copies \in Seq(Ops) /\ <<run, write>> \in Seq(Ops)
  BY DEF Ops
<1>3. CASE overlap
  <2>1. [op |-> "wait", seen |-> schedAll + Len(copies)] \in Ops
    BY <1>1 DEF Ops, Waits
  <2> DEFINE w == [op |-> "wait", seen |-> schedAll + Len(copies)]
  <2>2. schedQ' = schedQ \o copies /\ schedAll' = schedAll + Len(copies) /\ engineQ' = engineQ \o <<w>> \o <<run, write>>
    BY <1>3 DEF Enqueue
  <2> HIDE DEF w
  <2>3. <<w>> \in Seq(Ops)
    BY <2>1 DEF w
  <2>4. engineQ \o <<w>> \in Seq(Ops)
    BY <1>1, <2>3, ConcatProperties
  <2>. QED  BY <1>1, <1>2, <2>2, <2>4, ConcatProperties
<1>4. CASE ~overlap
  <2>1. schedQ' = schedQ /\ schedAll' = schedAll /\ engineQ' = engineQ \o copies \o <<run, write>>
    BY <1>4 DEF Enqueue
  <2>2. engineQ \o copies \in Seq(Ops)
    BY <1>1, <1>2, ConcatProperties
  <2>. QED  BY <1>1, <1>2, <2>1, <2>2, ConcatProperties
<1>. QED  BY <1>3, <1>4

LEMMA LaunchType ==
  ASSUME PoolTypeOK, NEW reqs \in SUBSET Uids, NEW part \in BOOLEAN, NEW to \in [Uids -> Nat],
         Launched(reqs, part, to)
  PROVE  /\ launched' \in Nat /\ pc' = "post" /\ cur' \in Batches /\ cur' /= NothingLaunched
         /\ cached' \in [Uids -> Nat] /\ device' \in [Uids -> Nat]
<1>1. cur' \in Batches /\ cur'.no = launched + 1 /\ launched \in Nat
  BY DEF Launched, Batches, PoolTypeOK
<1>. QED  BY <1>1, NothingIs DEF Launched, PoolTypeOK

LEMMA TakeRow ==
  ASSUME PoolTypeOK, NEW u \in Uids, NEW to, NEW part, Takes(u, to, part)
  PROVE  row' \in [Uids -> Rows] /\ freeRows' \in Seq(Rows)
<1>1. CASE u \in chunked
  BY <1>1 DEF Takes, PoolTypeOK
<1>2. CASE u \notin chunked
  <2>1. freeRows \in Seq(Rows) /\ freeRows /= <<>> /\ row' = [row EXCEPT ![u] = Last(freeRows)] /\ freeRows' = Front(freeRows)
    BY <1>2 DEF Takes, PoolTypeOK
  <2>2. Last(freeRows) \in Rows /\ Front(freeRows) \in Seq(Rows)
    BY <2>1, LenProperties DEF Last, Front
  <2>. QED  BY <2>1, <2>2 DEF PoolTypeOK
<1>. QED  BY <1>1, <1>2

LEMMA TypeSchedule ==
  ASSUME TokenPoolAssumption, PoolTypeOK, HostInv, Schedule
  PROVE  PoolTypeOK'
<1>1. pc = "schedule" /\ Fixed
  BY ScheduleIs
<1>2. ASSUME NEW u \in Uids, NEW to \in Nat, NEW part \in BOOLEAN, Prefilled(u, to, part) PROVE PoolTypeOK'
  <2>1. row' \in [Uids -> Rows] /\ freeRows' \in Seq(Rows)
    BY <1>2, TakeRow DEF Prefilled
  <2> DEFINE ends == [cached EXCEPT ![u] = to]
             run == [op |-> "run", reads |-> ReadAll({u}, cached, ends)]
             write == [op |-> "write", writes |-> WriteAll({u}, part, ends)]
             copy == CopyOf(u, cached[u], to)
  <2>2. cached \in [Uids -> Nat] /\ ends \in [Uids -> Nat] /\ {u} \in SUBSET Uids
    BY DEF PoolTypeOK
  <2>3. Launched({u}, part, ends) /\ Enqueue(<<copy>>, <<run, write>>) /\ Takes(u, to, part)
    BY <1>2 DEF Prefilled
  <2> HIDE DEF ends
  <2>4. run \in Runs /\ write \in Writes
    BY <2>1, <2>2, WorkType
  <2>5. copy \in Copies
    BY <2>1, <2>2 DEF CopyOf, Copies
  <2> HIDE DEF run, write, copy
  <2>6. schedQ' \in Seq(Copies) /\ schedAll' \in Nat /\ engineQ' \in Seq(Ops)
    <3>1. <<copy>> \in Seq(Copies)
      BY <2>5
    <3>. QED  BY <2>3, <2>4, <3>1, QueuesType
  <2>7. launched' \in Nat /\ pc' = "post" /\ cur' \in Batches /\ cached' \in [Uids -> Nat] /\ device' \in [Uids -> Nat]
    BY <2>2, <2>3, LaunchType
  <2>8. waiting' \subseteq Uids /\ chunked' \subseteq Uids /\ running' \subseteq Uids
    BY <2>3 DEF Takes, PoolTypeOK
  <2>. QED  BY <1>1, <2>1, <2>6, <2>7, <2>8 DEF PoolTypeOK, Fixed, Ops
<1>3. CASE Decoded
  <2> DEFINE run == [op |-> "run", reads |-> ReadAll(running, cached, device)]
             write == [op |-> "write", writes |-> WriteAll(running, FALSE, device)]
  <2>1. row' \in [Uids -> Rows] /\ freeRows' \in Seq(Rows) /\ running \in SUBSET Uids
        /\ cached \in [Uids -> Nat] /\ device \in [Uids -> Nat]
    BY <1>3 DEF Decoded, PoolTypeOK
  <2>2. Launched(running, FALSE, device) /\ Enqueue(<<>>, <<run, write>>)
    BY <1>3 DEF Decoded
  <2>3. run \in Runs /\ write \in Writes
    BY <2>1, WorkType
  <2> HIDE DEF run, write
  <2>4. schedQ' \in Seq(Copies) /\ schedAll' \in Nat /\ engineQ' \in Seq(Ops)
    <3>1. <<>> \in Seq(Copies)
      OBVIOUS
    <3>. QED  BY <2>2, <2>3, <3>1, QueuesType
  <2>5. launched' \in Nat /\ pc' = "post" /\ cur' \in Batches /\ cached' \in [Uids -> Nat] /\ device' \in [Uids -> Nat]
    BY <2>1, <2>2, LaunchType
  <2>6. waiting' \subseteq Uids /\ chunked' \subseteq Uids /\ running' \subseteq Uids
    BY <1>3 DEF Decoded, PoolTypeOK
  <2>. QED  BY <1>1, <2>1, <2>4, <2>5, <2>6 DEF PoolTypeOK, Fixed, Ops
<1>4. CASE Idles
  BY <1>1, <1>4 DEF Idles, Fixed, PoolTypeOK
<1>. QED  BY <1>2, <1>3, <1>4, ScheduleIs

LEMMA TypeAbort ==
  ASSUME TokenPoolAssumption, PoolTypeOK, NEW u \in Uids, Abort(u) PROVE PoolTypeOK'
<1>1. freeRows' \in Seq(Rows)
  <2>1. freeRows \in Seq(Rows) /\ row[u] \in Rows
    BY DEF PoolTypeOK
  <2>2. freeRows' = freeRows \/ freeRows' = Append(freeRows, row[u])
    BY DEF Abort
  <2>. QED  BY <2>1, <2>2, AppendProperties
<1>. QED  BY <1>1 DEF Abort, PoolTypeOK

LEMMA DataType ==
  ASSUME PoolTypeOK PROVE Data \in Batches /\ Data.reqs \in SUBSET Uids /\ Data.chunked \in SUBSET Uids
BY DEF Data, PoolTypeOK, Batches

LEMMA TypePostStart ==
  ASSUME PoolTypeOK, PostStart PROVE PoolTypeOK'
<1>1. toFree' \subseteq Uids
  BY DataType DEF PostStart
<1>. QED  BY <1>1 DEF PostStart, PoolTypeOK

LEMMA FreedRows ==
  ASSUME TokenPoolAssumption, PoolTypeOK, FreeRows
  PROVE  \E order \in Seq(Uids) :
           /\ IsInjective(order) /\ Range(order) = toFree
           /\ freeRows' = freeRows \o [i \in DOMAIN order |-> row[order[i]]]
<1>1. toFree \in SUBSET Uids /\ IsFiniteSet(toFree)
  BY FS_Subset DEF PoolTypeOK, TokenPoolAssumption
<1>2. PICK order \in SetToSeqs(toFree) : freeRows' = freeRows \o [i \in DOMAIN order |-> row[order[i]]]
  BY DEF FreeRows
<1>3. order \in Seq(Uids) /\ IsInjective(order) /\ Range(order) = toFree
  BY <1>1, <1>2, OrderOnce
<1>. QED  BY <1>2, <1>3

LEMMA TypeFreeRows ==
  ASSUME TokenPoolAssumption, PoolTypeOK, FreeRows PROVE PoolTypeOK'
<1>1. freeRows' \in Seq(Rows)
  <2>1. PICK order \in Seq(Uids) : freeRows' = freeRows \o [i \in DOMAIN order |-> row[order[i]]]
    BY FreedRows
  <2> DEFINE rows == [i \in DOMAIN order |-> row[order[i]]]
  <2>2. rows \in Seq(Rows)
    <3>1. DOMAIN order = 1 .. Len(order) /\ Len(order) \in Nat /\ \A i \in 1 .. Len(order) : order[i] \in Uids
      BY LenProperties, ElementOfSeq
    <3>2. \A i \in 1 .. Len(order) : row[order[i]] \in Rows
      BY <3>1 DEF PoolTypeOK
    <3>3. rows \in [1 .. Len(order) -> Rows]
      BY <3>1, <3>2
    <3>. QED  BY <3>1, <3>3, SeqDef
  <2>. QED  BY <2>1, <2>2, ConcatProperties DEF PoolTypeOK
<1>2. running' \subseteq Uids /\ finished' \subseteq Uids /\ toFree' \subseteq Uids /\ deferred' \subseteq Uids
  BY DEF FreeRows, PoolTypeOK
<1>3. last' \in Batches /\ cur' \in Batches
  BY NothingIs DEF FreeRows, PoolTypeOK
<1>. QED  BY <1>1, <1>2, <1>3 DEF FreeRows, PoolTypeOK

\* The device takes an operation off one queue.
LEMMA DidType ==
  ASSUME PoolTypeOK, NEW o \in Ops, o.op /= "wait", Did(o)
  PROVE  /\ DOMAIN pool' = Rows /\ \A r \in Rows : DOMAIN pool'[r] = 0 .. RowWidth - 1
         /\ runsDone' = IF o.op = "run" THEN runsDone + 1 ELSE runsDone
<1>1. CASE o.op = "copy"
  BY <1>1 DEF Did, PoolTypeOK
<1>2. CASE o.op = "run"
  BY <1>2 DEF Did, PoolTypeOK
<1>3. CASE o.op = "write"
  BY <1>3 DEF Did, PoolTypeOK
<1>. QED  BY <1>1, <1>2, <1>3 DEF Ops, Copies, Waits, Runs, Writes

LEMMA TypeStreams ==
  ASSUME PoolTypeOK, SchedStream \/ EngineStream PROVE PoolTypeOK'
<1>1. CASE SchedStream
  <2>1. Head(schedQ) \in Copies /\ Tail(schedQ) \in Seq(Copies)
    BY <1>1, HeadTailProperties DEF SchedStream, PoolTypeOK
  <2>2. Head(schedQ) \in Ops /\ Head(schedQ).op = "copy"
    BY <2>1 DEF Ops, Copies
  <2>3. DOMAIN pool' = Rows /\ (\A r \in Rows : DOMAIN pool'[r] = 0 .. RowWidth - 1) /\ runsDone' \in Nat
    BY <1>1, <2>2, DidType DEF SchedStream, PoolTypeOK
  <2>4. /\ UNCHANGED <<overlap, pc, waiting, chunked, running, plen, end, cached, device, row, freeRows, cur, last,
                       toFree, finished, deferred, launched, schedAll, engineQ>>
        /\ schedQ' \in Seq(Copies) /\ schedDone' = schedDone + 1
    BY <1>1, <2>1 DEF SchedStream, host
  <2>5. schedDone' \in Nat
    BY <2>4 DEF PoolTypeOK
  <2>. QED  BY <2>3, <2>4, <2>5 DEF PoolTypeOK
<1>2. CASE EngineStream
  <2>1. Head(engineQ) \in Ops /\ Tail(engineQ) \in Seq(Ops)
    BY <1>2, HeadTailProperties DEF EngineStream, PoolTypeOK, Ops
  <2>2. DOMAIN pool' = Rows /\ (\A r \in Rows : DOMAIN pool'[r] = 0 .. RowWidth - 1) /\ runsDone' \in Nat
    <3>1. CASE Head(engineQ).op = "wait"
      BY <1>2, <3>1 DEF EngineStream, PoolTypeOK
    <3>2. CASE Head(engineQ).op /= "wait"
      <4>1. Did(Head(engineQ))
        BY <1>2, <3>2 DEF EngineStream
      <4>. QED  BY <2>1, <3>2, <4>1, DidType DEF PoolTypeOK
    <3>. QED  BY <3>1, <3>2
  <2>3. /\ UNCHANGED <<overlap, pc, waiting, chunked, running, plen, end, cached, device, row, freeRows, cur, last,
                       toFree, finished, deferred, launched, schedQ, schedDone, schedAll>>
        /\ engineQ' \in Seq(Ops)
    BY <1>2, <2>1 DEF EngineStream, host
  <2>. QED  BY <2>2, <2>3 DEF PoolTypeOK, Ops
<1>. QED  BY <1>1, <1>2

-----------------------------------------------------------------------------
(* The containers of the host.                                              *)

LEMMA HostInit == ASSUME TokenPoolAssumption, PoolInit PROVE PoolTypeOK /\ HostInv
<1>1. PICK out \in [Uids -> OutLens] :
        end = [u \in Uids |-> IF plen[u] + out[u] > RowWidth THEN RowWidth ELSE plen[u] + out[u]]
  BY DEF PoolInit
<1>2. plen \in [Uids -> PromptLens] /\ \A u \in Uids : plen[u] \in 1 .. RowWidth - 1
  BY DEF PoolInit, TokenPoolAssumption
<1>3. RowWidth \in Nat \ {0} /\ NumRows \in Nat \ {0} /\ \A u \in Uids : out[u] \in Nat \ {0}
  BY DEF TokenPoolAssumption
<1>4. \A u \in Uids : plen[u] \in Nat /\ end[u] \in Nat /\ plen[u] >= 1 /\ plen[u] < end[u] /\ end[u] <= RowWidth
  BY <1>1, <1>2, <1>3
<1>5. plen \in [Uids -> Nat] /\ end \in [Uids -> Nat]
  BY <1>1, <1>2, <1>4
<1>6. freeRows \in Seq(Rows) /\ overlap \in BOOLEAN /\ 0 \in Rows
  BY <1>3 DEF PoolInit, TokenPoolAssumption, Rows
<1>7. PoolTypeOK
  BY <1>5, <1>6, NothingIs DEF PoolInit, PoolTypeOK
<1>8. Lengths
  BY <1>4, NothingIs DEF PoolInit, Lengths
<1>9. Apart /\ Phases /\ Chunks /\ Ended /\ Freeing
  BY NothingIs DEF PoolInit, Apart, Phases, Chunks, Ended, Freeing
<1>. QED  BY <1>7, <1>8, <1>9 DEF HostInv

LEMMA HostStay ==
  ASSUME HostInv, UNCHANGED <<overlap, host>> PROVE HostInv'
BY DEF HostInv, host, Apart, Phases, Chunks, Ended, Lengths, Freeing, Data

LEMMA HostPrefilled ==
  ASSUME TokenPoolAssumption, PoolTypeOK, HostInv, pc = "schedule", Fixed,
         NEW u \in Uids, NEW to \in Nat, NEW part \in BOOLEAN, Prefilled(u, to, part)
  PROVE  HostInv'
<1>1. /\ cur = NothingLaunched /\ cur.reqs = {} /\ cur.chunked = {} /\ toFree = {}
      /\ cur'.reqs = {u} /\ cur'.chunked = (IF part THEN {u} ELSE {}) /\ pc' = "post"
  BY NothingIs DEF HostInv, Phases, Prefilled, Launched
<1>2. /\ to \in Nat /\ cached[u] < to /\ to <= plen[u] /\ (part <=> to < plen[u])
      /\ u \in chunked \/ (u \in waiting /\ chunked = {})
      /\ waiting' = waiting \ {u} /\ chunked' = (IF part THEN {u} ELSE {})
      /\ running' = running \union (IF ~part /\ to + 1 < end[u] THEN {u} ELSE {})
  BY DEF Prefilled, Takes
<1>3. \A v \in Uids : /\ cached'[v] = IF v = u THEN to ELSE cached[v]
                      /\ device'[v] = IF v = u THEN to + 1 ELSE device[v]
  BY DEF Prefilled, Launched, PoolTypeOK
<1>4. UNCHANGED <<overlap, plen, end, last, toFree, finished, deferred>>
  BY DEF Fixed
<1>5. chunked \subseteq {u} /\ u \notin running /\ u \notin finished /\ u \notin deferred /\ (u \in last.reqs => u \in chunked)
  BY <1>2 DEF HostInv, Apart, Chunks
<1>6. Apart'
  BY <1>1, <1>2, <1>4, <1>5 DEF HostInv, Apart
<1>7. Phases'
  BY <1>1, <1>4 DEF HostInv, Phases
<1>8. Chunks'
  BY <1>1, <1>2, <1>4, <1>5 DEF HostInv, Chunks
<1>9. Ended'
  <2>1. ASSUME NEW v \in (last.reqs \ finished) \ (running' \union chunked' \union deferred \union {u})
        PROVE  device'[v] >= end[v]
    <3>1. v \in Uids /\ v /= u /\ v \notin running \union chunked \union deferred \union cur.reqs
      BY <1>1, <1>2, <1>5, <2>1 DEF PoolTypeOK, Batches
    <3>. QED  BY <1>3, <2>1, <3>1 DEF HostInv, Ended
  <2>2. u \notin running' \union chunked' => device'[u] >= end[u]
    BY <1>2, <1>3 DEF PoolTypeOK
  <2>. QED  BY <1>1, <1>4, <2>1, <2>2 DEF Ended
<1>10. Lengths'
  <2>1. \A v \in Uids : plen'[v] >= 1 /\ plen'[v] < end'[v] /\ end'[v] <= RowWidth
    BY <1>4 DEF HostInv, Lengths
  <2>2. \A v \in waiting' : cached'[v] = 0
    BY <1>2, <1>3 DEF HostInv, Lengths, PoolTypeOK
  <2>3. \A v \in chunked' : cached'[v] < plen'[v]
    BY <1>2, <1>3, <1>4
  <2>4. ASSUME NEW v \in running' PROVE plen'[v] <= cached'[v] /\ device'[v] = cached'[v] + 1 /\ device'[v] < end'[v]
    <3>1. CASE v = u
      <4>1. ~part /\ to + 1 < end[u] /\ plen[u] \in Nat
        BY <1>2, <1>5, <2>4, <3>1 DEF PoolTypeOK
      <4>2. plen[u] <= to
        BY <1>2, <4>1
      <4>. QED  BY <1>3, <1>4, <3>1, <4>1, <4>2
    <3>2. CASE v /= u
      <4>1. v \in running /\ v \in Uids
        BY <1>2, <2>4, <3>2 DEF PoolTypeOK
      <4>. QED  BY <1>3, <1>4, <3>2, <4>1 DEF HostInv, Lengths
    <3>. QED  BY <3>1, <3>2
  <2>5. \A v \in cur'.reqs \intersect last'.reqs : v \in last'.chunked \/ cached'[v] > plen'[v]
    BY <1>1, <1>4, <1>5 DEF HostInv, Chunks
  <2>. QED  BY <2>1, <2>2, <2>3, <2>4, <2>5 DEF Lengths
<1>11. Freeing'
  BY <1>1 DEF Freeing
<1>. QED  BY <1>6, <1>7, <1>8, <1>9, <1>10, <1>11 DEF HostInv

LEMMA HostDecoded ==
  ASSUME PoolTypeOK, HostInv, pc = "schedule", Fixed, Decoded PROVE HostInv'
<1>1. /\ cur = NothingLaunched /\ cur.reqs = {} /\ cur.chunked = {} /\ toFree = {}
      /\ cur'.reqs = running /\ cur'.chunked = {} /\ pc' = "post"
  BY NothingIs DEF HostInv, Phases, Decoded, Launched
<1>2. /\ chunked = {} /\ chunked' = {} /\ waiting' = waiting
      /\ running' = {v \in running : device[v] + 1 < end[v]} /\ running \subseteq Uids
  BY DEF Decoded, PoolTypeOK
<1>3. \A v \in Uids : /\ cached'[v] = IF v \in running THEN device[v] ELSE cached[v]
                      /\ device'[v] = IF v \in running THEN device[v] + 1 ELSE device[v]
                      /\ device[v] \in Nat /\ cached[v] \in Nat /\ end[v] \in Nat /\ plen[v] \in Nat
  BY DEF Decoded, Launched, PoolTypeOK
<1>4. UNCHANGED <<overlap, plen, end, last, toFree, finished, deferred>>
  BY DEF Fixed
<1>5. \A v \in running : plen[v] <= cached[v] /\ device[v] = cached[v] + 1 /\ device[v] < end[v] /\ v \notin waiting
  BY DEF HostInv, Lengths, Apart
<1>6. Apart'
  BY <1>1, <1>2, <1>4 DEF HostInv, Apart
<1>7. Phases'
  BY <1>1, <1>4 DEF HostInv, Phases
<1>8. Chunks'
  BY <1>1, <1>2, <1>4 DEF HostInv, Chunks
<1>9. Ended'
  <2>1. ASSUME NEW v \in (last.reqs \ finished) \ (running \union deferred) PROVE device'[v] >= end[v]
    <3>1. v \in Uids /\ device[v] >= end[v]
      BY <1>1, <1>2, <2>1 DEF HostInv, Ended, PoolTypeOK, Batches
    <3>. QED  BY <1>3, <2>1, <3>1
  <2>2. \A v \in running \ running' : device'[v] >= end[v]
    BY <1>2, <1>3
  <2>. QED  BY <1>1, <1>2, <1>4, <2>1, <2>2 DEF Ended
<1>10. Lengths'
  <2>1. \A v \in Uids : plen'[v] >= 1 /\ plen'[v] < end'[v] /\ end'[v] <= RowWidth
    BY <1>4 DEF HostInv, Lengths
  <2>2. \A v \in waiting' : cached'[v] = 0
    BY <1>2, <1>3, <1>5 DEF HostInv, Lengths, PoolTypeOK
  <2>3. \A v \in running' : plen'[v] <= cached'[v] /\ device'[v] = cached'[v] + 1 /\ device'[v] < end'[v]
    BY <1>2, <1>3, <1>4, <1>5
  <2>4. \A v \in cur'.reqs : cached'[v] > plen'[v]
    BY <1>1, <1>2, <1>3, <1>4, <1>5
  <2>. QED  BY <1>2, <2>1, <2>2, <2>3, <2>4 DEF Lengths
<1>11. Freeing'
  BY <1>1 DEF Freeing
<1>. QED  BY <1>6, <1>7, <1>8, <1>9, <1>10, <1>11 DEF HostInv

LEMMA HostIdles == ASSUME PoolTypeOK, HostInv, pc = "schedule", Fixed, Idles PROVE HostInv'
<1>1. /\ UNCHANGED <<overlap, plen, end, last, toFree, finished, deferred, waiting, chunked, running, cached, device, cur>>
      /\ pc' = "post" /\ toFree = {}
  BY DEF Fixed, Idles, HostInv, Phases
<1>. QED  BY <1>1 DEF HostInv, Apart, Phases, Chunks, Ended, Lengths, Freeing

LEMMA HostAbort == ASSUME PoolTypeOK, HostInv, NEW u \in Uids, Abort(u) PROVE HostInv'
<1>1. /\ pc = "schedule" /\ u \in running \union chunked /\ cur = NothingLaunched /\ cur.reqs = {} /\ cur.chunked = {}
      /\ toFree = {}
      /\ running' = running \ {u} /\ chunked' = chunked \ {u}
      /\ deferred' = (IF u \in last.reqs THEN deferred \union {u} ELSE deferred)
      /\ UNCHANGED <<overlap, pc, waiting, plen, end, cached, device, row, cur, last, toFree, finished>>
  BY NothingIs DEF Abort, HostInv, Phases
<1>2. Apart'
  BY <1>1 DEF HostInv, Apart
<1>3. Phases' /\ Chunks'
  BY <1>1 DEF HostInv, Phases, Chunks
<1>4. Ended'
  BY <1>1 DEF HostInv, Ended
<1>5. Lengths' /\ Freeing'
  BY <1>1 DEF HostInv, Lengths, Freeing
<1>. QED  BY <1>2, <1>3, <1>4, <1>5 DEF HostInv

LEMMA HostPostStart == ASSUME PoolTypeOK, HostInv, PostStart PROVE HostInv'
<1>1. /\ pc = "post" /\ pc' = "free" /\ toFree = {}
      /\ UNCHANGED <<overlap, waiting, chunked, running, plen, end, cached, device, row, cur, last, finished, deferred>>
  BY DEF PostStart, HostInv, Phases
<1>2. PICK stops \in SUBSET (IF MayStop THEN Data.reqs ELSE {}) :
        toFree' = (((stops \union {u \in Data.reqs : device[u] >= end[u]}) \ Data.chunked)
                   \union (Data.reqs \intersect deferred)) \ finished
  BY DEF PostStart
<1>3. stops \subseteq Data.reqs /\ Data' = Data /\ deferred \intersect finished = {}
  BY <1>1, <1>2 DEF Data, HostInv, Apart
<1>4. Apart' /\ Phases' /\ Chunks' /\ Ended' /\ Lengths'
  BY <1>1 DEF HostInv, Apart, Phases, Chunks, Ended, Lengths
<1>5. Freeing'
  <2>1. toFree' \subseteq Data.reqs \ finished /\ Data.reqs \intersect deferred \subseteq toFree'
    BY <1>2, <1>3
  <2>2. \A u \in (Data.reqs \ Data.chunked) \ finished : device[u] >= end[u] => u \in toFree'
    BY <1>2
  <2>3. toFree' \intersect Data.chunked \subseteq deferred
    BY <1>2
  <2>. QED  BY <1>1, <1>3, <2>1, <2>2, <2>3 DEF Freeing
<1>. QED  BY <1>4, <1>5 DEF HostInv

\* What is freed has nothing of the host's left but the batch in flight.
LEMMA Leaving ==
  ASSUME PoolTypeOK, HostInv, pc = "free"
  PROVE  /\ toFree \intersect chunked = {} /\ toFree \intersect waiting = {} /\ deferred \subseteq toFree
         /\ \A u \in Data.reqs \ finished : u \notin toFree => u \in running \union chunked \union cur.reqs
         /\ ~overlap => Data = cur /\ deferred = {} /\ last = NothingLaunched
         /\ overlap => Data = last
<1>0. ~overlap => Data = cur /\ deferred = {} /\ last = NothingLaunched
  BY NothingIs DEF Data, HostInv, Apart, Phases
<1>1. overlap => Data = last
  BY DEF Data
<1>2. /\ toFree \subseteq Data.reqs \ finished /\ Data.reqs \intersect deferred \subseteq toFree
      /\ \A u \in (Data.reqs \ Data.chunked) \ finished : device[u] >= end[u] => u \in toFree
      /\ toFree \intersect Data.chunked \subseteq deferred
  BY DEF HostInv, Freeing
<1>3. deferred \subseteq toFree
  BY <1>0, <1>1, <1>2 DEF HostInv, Apart
<1>4. toFree \intersect waiting = {}
  BY <1>0, <1>1, <1>2 DEF HostInv, Apart
<1>5. chunked \intersect Data.reqs \subseteq Data.chunked /\ deferred \intersect chunked = {}
  BY <1>0, <1>1 DEF HostInv, Chunks, Apart
<1>6. toFree \intersect chunked = {}
  BY <1>2, <1>5
<1>7. ASSUME NEW u \in Data.reqs \ finished, u \notin toFree PROVE u \in running \union chunked \union cur.reqs
  <2>1. CASE ~overlap
    BY <1>0, <1>7, <2>1
  <2>2. CASE overlap
    <3>1. Data = last /\ u \notin deferred
      BY <1>1, <1>3, <1>7, <2>2
    <3>2. u \in last.chunked => u \in chunked \union cur.reqs
      BY <3>1 DEF HostInv, Chunks
    <3>3. u \notin last.chunked => ~(device[u] >= end[u])
      BY <1>2, <1>7, <3>1
    <3>4. u \in (last.reqs \ finished) \ (running \union chunked \union deferred \union cur.reqs) => device[u] >= end[u]
      BY DEF HostInv, Ended
    <3>. QED  BY <1>7, <3>1, <3>2, <3>3, <3>4
  <2>. QED  BY <2>1, <2>2
<1>. QED  BY <1>0, <1>1, <1>3, <1>4, <1>6, <1>7

LEMMA HostFreeRows == ASSUME PoolTypeOK, HostInv, FreeRows PROVE HostInv'
<1>1. /\ pc = "free" /\ pc' = "schedule" /\ cur' = NothingLaunched /\ cur'.reqs = {} /\ cur'.chunked = {}
      /\ last' = (IF overlap THEN cur ELSE NothingLaunched)
      /\ running' = running \ toFree /\ toFree' = {} /\ deferred' = {}
      /\ finished' = (IF Data = NothingLaunched THEN finished ELSE toFree \ deferred)
      /\ UNCHANGED <<overlap, waiting, chunked, plen, end, cached, device>>
  BY NothingIs DEF FreeRows
<1>2. /\ toFree \intersect chunked = {} /\ toFree \intersect waiting = {} /\ deferred \subseteq toFree
  BY <1>1, Leaving
<1>3. Data = NothingLaunched => toFree = {}
  BY <1>1, NothingIs DEF HostInv, Freeing
<1>4. finished' \intersect (running' \union chunked \union waiting) = {}
  BY <1>1, <1>2 DEF HostInv, Apart
<1>5. last'.reqs \subseteq cur.reqs /\ last'.chunked \subseteq cur.chunked /\ (overlap => last' = cur)
      /\ (~overlap => last'.reqs = {} /\ last'.chunked = {} /\ last' = NothingLaunched)
  BY <1>1, NothingIs
<1>6. Apart'
  BY <1>1, <1>4, <1>5 DEF HostInv, Apart
<1>7. Phases'
  BY <1>1, <1>5 DEF HostInv, Phases
<1>8. Chunks'
  BY <1>1, <1>5 DEF HostInv, Chunks
<1>9. Ended'
  <2>1. ASSUME NEW v \in (last'.reqs \ finished') \ (running' \union chunked) PROVE device[v] >= end[v]
    <3>1. v \in cur.reqs /\ v \notin deferred /\ v \notin chunked
      BY <1>5, <2>1 DEF HostInv, Apart
    <3>2. v \notin running
      BY <1>1, <1>3, <2>1, <3>1
    <3>. QED  BY <3>1, <3>2 DEF HostInv, Ended
  <2>. QED  BY <1>1, <2>1 DEF Ended
<1>10. Lengths'
  BY <1>1 DEF HostInv, Lengths
<1>11. Freeing'
  BY <1>1 DEF Freeing
<1>. QED  BY <1>6, <1>7, <1>8, <1>9, <1>10, <1>11 DEF HostInv

-----------------------------------------------------------------------------
(* The rows: a request that holds one is alone in it.                       *)

LEMMA RowInit == ASSUME TokenPoolAssumption, PoolInit PROVE RowInv
<1>1. Owners = {}
  BY NothingIs DEF PoolInit, Owners
<1>2. IsInjective(freeRows)
  BY DEF PoolInit, IsInjective, TokenPoolAssumption
<1>. QED  BY <1>1, <1>2 DEF RowInv

LEMMA RowStay ==
  ASSUME RowInv, Owners' \subseteq Owners, row' = row, freeRows' = freeRows PROVE RowInv'
BY DEF RowInv

LEMMA LastOnce ==
  ASSUME NEW S, NEW s \in Seq(S), s /= <<>>, IsInjective(s)
  PROVE  /\ IsInjective(Front(s)) /\ Range(Front(s)) = Range(s) \ {Last(s)} /\ Last(s) \in Range(s)
<1>1. Len(s) \in Nat \ {0} /\ DOMAIN s = 1 .. Len(s)
  BY LenProperties
<1>2. Last(s) = s[Len(s)] /\ Len(s) \in DOMAIN s
  BY <1>1 DEF Last
<1>3. /\ DOMAIN Front(s) = 1 .. Len(s) - 1
      /\ \A i \in 1 .. Len(s) - 1 : Front(s)[i] = s[i]
  BY <1>1 DEF Front
<1>4. IsInjective(Front(s))
  BY <1>1, <1>3 DEF IsInjective
<1>5. ASSUME NEW x PROVE x \in Range(Front(s)) <=> x \in Range(s) \ {Last(s)}
  <2>1. x \in Range(Front(s)) <=> \E i \in 1 .. Len(s) - 1 : x = s[i]
    BY <1>3 DEF Range
  <2>2. x \in Range(s) <=> \E i \in 1 .. Len(s) : x = s[i]
    BY <1>1 DEF Range
  <2>3. ASSUME NEW i \in 1 .. Len(s) PROVE s[i] = Last(s) <=> i = Len(s)
    <3>1. s[i] = s[Len(s)] => i = Len(s)
      BY <1>1, <1>2 DEF IsInjective
    <3>2. Last(s) = s[Len(s)]
      BY <1>2
    <3>3. i = Len(s) => s[i] = s[Len(s)]
      OBVIOUS
    <3>. QED  BY <3>1, <3>2, <3>3
  <2> DEFINE n == Len(s)
             e == Last(s)
  <2>4. \A i \in 1 .. n : s[i] = e <=> i = n
    BY <2>3
  <2>5. n \in Nat \ {0}
    BY <1>1
  <2>6. (\E i \in 1 .. n - 1 : x = s[i]) <=> (\E i \in 1 .. n : x = s[i]) /\ x /= e
    <3> HIDE DEF n, e
    <3>1. \A i \in 1 .. n - 1 : i \in 1 .. n /\ s[i] /= e
      BY <2>4, <2>5
    <3>2. \A i \in 1 .. n : s[i] /= e => i \in 1 .. n - 1
      BY <2>4, <2>5
    <3>. QED  BY <3>1, <3>2
  <2>. QED  BY <2>1, <2>2, <2>6
<1>. QED  BY <1>2, <1>4, <1>5 DEF Range

LEMMA RowPrefilled ==
  ASSUME TokenPoolAssumption, PoolTypeOK, HostInv, RowInv, pc = "schedule", Fixed,
         NEW u \in Uids, NEW to \in Nat, NEW part \in BOOLEAN, Prefilled(u, to, part)
  PROVE  /\ RowInv' /\ Owners' \subseteq Owners \union {u} /\ (u \notin chunked => u \notin Owners)
         /\ \A v \in Owners \ {u} : row'[v] = row[v]
         /\ u \in chunked => row'[u] = row[u]
<1>1. /\ cur = NothingLaunched /\ cur.reqs = {} /\ cur'.reqs = {u}
  BY NothingIs DEF HostInv, Phases, Prefilled, Launched
<1>2. /\ u \in chunked \/ (u \in waiting /\ chunked = {})
      /\ IF u \in chunked THEN row' = row /\ freeRows' = freeRows
         ELSE freeRows /= <<>> /\ row' = [row EXCEPT ![u] = Last(freeRows)] /\ freeRows' = Front(freeRows)
      /\ chunked' \subseteq {u} /\ running' \subseteq running \union {u}
  BY DEF Prefilled, Takes
<1>3. UNCHANGED <<last, finished, deferred>>
  BY DEF Fixed
<1>4. Owners' \subseteq Owners \union {u}
  BY <1>1, <1>2, <1>3 DEF Owners
<1>5. u \notin chunked => u \notin Owners
  BY <1>1, <1>2 DEF Owners, HostInv, Apart
<1>6. CASE u \in chunked
  <2>1. u \in Owners
    BY <1>6 DEF Owners
  <2>. QED  BY <1>2, <1>4, <1>5, <1>6, <2>1 DEF RowInv
<1>7. CASE u \notin chunked
  <2>1. /\ freeRows \in Seq(Rows) /\ freeRows /= <<>> /\ row' = [row EXCEPT ![u] = Last(freeRows)]
        /\ freeRows' = Front(freeRows) /\ IsInjective(freeRows)
    BY <1>2, <1>7 DEF RowInv, PoolTypeOK
  <2>2. IsInjective(freeRows') /\ Range(freeRows') = Range(freeRows) \ {Last(freeRows)} /\ Last(freeRows) \in Range(freeRows)
    BY <2>1, LastOnce
  <2>3. \A v \in Uids : row'[v] = IF v = u THEN Last(freeRows) ELSE row[v]
    BY <2>1 DEF PoolTypeOK
  <2>4. Owners \subseteq Uids /\ u \notin Owners
    BY <1>5, <1>7 DEF Owners, PoolTypeOK, Batches
  <2>5. \A v \in Owners : row[v] \notin Range(freeRows) /\ row'[v] = row[v] /\ row[v] /= Last(freeRows)
    BY <2>2, <2>3, <2>4 DEF RowInv
  <2>6. \A v \in Owners' : row'[v] \notin Range(freeRows')
    BY <1>4, <2>2, <2>3, <2>5
  <2>7. \A v, w \in Owners' : row'[v] = row'[w] => v = w
    BY <1>4, <2>3, <2>5 DEF RowInv
  <2>. QED  BY <1>4, <1>5, <1>7, <2>2, <2>5, <2>6, <2>7 DEF RowInv
<1>. QED  BY <1>6, <1>7

LEMMA RowSchedule ==
  ASSUME TokenPoolAssumption, PoolTypeOK, HostInv, RowInv, Schedule PROVE RowInv'
<1>1. pc = "schedule" /\ Fixed
  BY ScheduleIs
<1>2. CASE Decoded
  <2>1. Owners' \subseteq Owners /\ row' = row /\ freeRows' = freeRows
    BY <1>1, <1>2 DEF Decoded, Fixed, Owners, Launched
  <2>. QED  BY <2>1, RowStay
<1>3. CASE Idles
  <2>1. Owners' \subseteq Owners /\ row' = row /\ freeRows' = freeRows
    BY <1>1, <1>3 DEF Idles, Fixed, Owners
  <2>. QED  BY <2>1, RowStay
<1>. QED  BY <1>1, <1>2, <1>3, ScheduleIs, RowPrefilled

LEMMA RowAbort ==
  ASSUME PoolTypeOK, HostInv, RowInv, NEW u \in Uids, Abort(u)
  PROVE  RowInv' /\ Owners' \subseteq Owners /\ (u \notin last.reqs => u \notin Owners')
<1>1. /\ pc = "schedule" /\ u \in running \union chunked /\ cur.reqs = {}
      /\ running' = running \ {u} /\ chunked' = chunked \ {u} /\ cur' = cur /\ last' = last
      /\ finished' = finished /\ row' = row
      /\ IF u \in last.reqs THEN deferred' = deferred \union {u} /\ UNCHANGED freeRows
         ELSE freeRows' = Append(freeRows, row[u]) /\ UNCHANGED deferred
  BY NothingIs DEF Abort, HostInv, Phases
<1>2. u \in Owners /\ Owners \subseteq Uids
  BY <1>1 DEF Owners, PoolTypeOK, Batches
<1>3. Owners' \subseteq Owners /\ (u \notin last.reqs => u \notin Owners')
  BY <1>1 DEF Owners, HostInv, Apart
<1>4. CASE u \in last.reqs
  BY <1>1, <1>3, <1>4, RowStay
<1>5. CASE u \notin last.reqs
  <2>1. freeRows' = Append(freeRows, row[u]) /\ freeRows \in Seq(Rows) /\ row[u] \in Rows
        /\ IsInjective(freeRows) /\ row[u] \notin Range(freeRows)
    BY <1>1, <1>2, <1>5 DEF RowInv, PoolTypeOK
  <2>2. IsInjective(freeRows') /\ Range(freeRows') = Range(freeRows) \union {row[u]}
    BY <2>1, AppendOnce
  <2>. QED  BY <1>1, <1>2, <1>3, <1>5, <2>2 DEF RowInv
<1>. QED  BY <1>4, <1>5

LEMMA JoinOnce ==
  ASSUME NEW S, NEW s \in Seq(S), NEW t \in Seq(S), IsInjective(s), IsInjective(t), Range(s) \intersect Range(t) = {}
  PROVE  IsInjective(s \o t) /\ Range(s \o t) = Range(s) \union Range(t)
<1> DEFINE m == Len(s)
           n == Len(t)
           c == s \o t
<1>1. m \in Nat /\ n \in Nat /\ DOMAIN s = 1 .. m /\ DOMAIN t = 1 .. n
  BY LenProperties
<1>2. c \in Seq(S) /\ Len(c) = m + n /\ \A i \in 1 .. m + n : c[i] = IF i <= m THEN s[i] ELSE t[i - m]
  BY ConcatProperties
<1>3. DOMAIN c = 1 .. m + n
  BY <1>2, LenProperties
<1> HIDE DEF m, n, c
<1>4. ASSUME NEW i \in 1 .. m PROVE s[i] \in Range(s) /\ c[i] = s[i] /\ i \in 1 .. m + n
  <2>1. i \in 1 .. m + n /\ i <= m
    BY <1>1
  <2>2. s[i] \in Range(s)
    BY <1>1 DEF Range
  <2>. QED  BY <1>2, <2>1, <2>2
<1>5. \A i \in m + 1 .. m + n : i - m \in 1 .. n /\ t[i - m] \in Range(t) /\ c[i] = t[i - m]
  BY <1>1, <1>2 DEF Range
<1>6. ASSUME NEW i \in 1 .. m + n, NEW j \in 1 .. m + n, c[i] = c[j] PROVE i = j
  <2>1. CASE i <= m /\ j <= m
    BY <1>1, <1>4, <1>6, <2>1 DEF IsInjective
  <2>2. CASE ~(i <= m) /\ ~(j <= m)
    <3>1. i \in m + 1 .. m + n /\ j \in m + 1 .. m + n
      BY <1>1, <2>2
    <3>2. i - m = j - m
      BY <1>1, <1>5, <1>6, <3>1 DEF IsInjective
    <3>. QED  BY <1>1, <3>2
  <2>3. CASE i <= m /\ ~(j <= m)
    <3>1. i \in 1 .. m /\ j \in m + 1 .. m + n
      BY <1>1, <2>3
    <3>. QED  BY <1>4, <1>5, <1>6, <3>1
  <2>4. CASE ~(i <= m) /\ j <= m
    <3>1. j \in 1 .. m /\ i \in m + 1 .. m + n
      BY <1>1, <2>4
    <3>. QED  BY <1>4, <1>5, <1>6, <3>1
  <2>. QED  BY <2>1, <2>2, <2>3, <2>4
<1>7. IsInjective(c)
  BY <1>3, <1>6 DEF IsInjective
<1>8. ASSUME NEW x PROVE x \in Range(c) <=> x \in Range(s) \union Range(t)
  <2>1. x \in Range(c) => x \in Range(s) \union Range(t)
    <3>1. SUFFICES ASSUME NEW i \in 1 .. m + n, x = c[i] PROVE x \in Range(s) \union Range(t)
      BY <1>3 DEF Range
    <3>2. i \in 1 .. m \/ i \in m + 1 .. m + n
      BY <1>1
    <3>. QED  BY <1>4, <1>5, <3>1, <3>2
  <2>2. ASSUME x \in Range(s) PROVE x \in Range(c)
    BY <1>1, <1>3, <1>4, <2>2 DEF Range
  <2>3. ASSUME x \in Range(t) PROVE x \in Range(c)
    <3>1. PICK i \in 1 .. n : x = t[i]
      BY <1>1, <2>3 DEF Range
    <3>2. i + m \in m + 1 .. m + n /\ (i + m) - m = i /\ i + m \in 1 .. m + n
      BY <1>1
    <3>3. c[i + m] = x
      BY <1>5, <3>1, <3>2
    <3>. QED  BY <1>3, <3>2, <3>3 DEF Range
  <2>. QED  BY <2>1, <2>2, <2>3
<1>. QED  BY <1>7, <1>8 DEF c, Range

LEMMA RowFreeRows ==
  ASSUME TokenPoolAssumption, PoolTypeOK, HostInv, RowInv, FreeRows
  PROVE  RowInv' /\ Owners' \subseteq Owners \ toFree
<1>1. /\ pc = "free" /\ cur'.reqs = {} /\ last' = (IF overlap THEN cur ELSE NothingLaunched)
      /\ running' = running \ toFree /\ deferred' = {} /\ chunked' = chunked
      /\ finished' = (IF Data = NothingLaunched THEN finished ELSE toFree \ deferred)
      /\ row' = row
  BY NothingIs DEF FreeRows
<1>2. /\ toFree \intersect chunked = {} /\ deferred \subseteq toFree
      /\ toFree \subseteq Data.reqs \ finished
      /\ Data = NothingLaunched => toFree = {}
  BY <1>1, Leaving, NothingIs DEF HostInv, Freeing
<1>3. Owners' \subseteq Owners \ toFree
  <2>1. last'.reqs \subseteq cur.reqs
    BY <1>1, NothingIs
  <2>2. deferred \intersect cur.reqs = {}
    BY DEF HostInv, Apart
  <2>3. last'.reqs \ finished' \subseteq cur.reqs \ toFree
    BY <1>1, <1>2, <2>1, <2>2
  <2>. QED  BY <1>1, <1>2, <2>3 DEF Owners
<1>4. toFree \subseteq Owners
  BY <1>2 DEF Data, Owners
<1>5. PICK order \in Seq(Uids) :
        /\ IsInjective(order) /\ Range(order) = toFree
        /\ freeRows' = freeRows \o [i \in DOMAIN order |-> row[order[i]]]
  BY FreedRows
<1> DEFINE rows == [i \in DOMAIN order |-> row[order[i]]]
<1>6. /\ DOMAIN order = 1 .. Len(order) /\ Len(order) \in Nat
      /\ \A i \in 1 .. Len(order) : order[i] \in Uids /\ order[i] \in toFree
  BY <1>5, LenProperties, ElementOfSeq DEF Range
<1>7. rows \in Seq(Rows)
  <2>1. \A i \in 1 .. Len(order) : row[order[i]] \in Rows
    BY <1>6 DEF PoolTypeOK
  <2>2. rows \in [1 .. Len(order) -> Rows]
    BY <1>6, <2>1
  <2>. QED  BY <1>6, <2>2, SeqDef
<1>8. DOMAIN rows = 1 .. Len(order) /\ \A i \in 1 .. Len(order) : rows[i] = row[order[i]]
  BY <1>6
<1>9. freeRows' = freeRows \o rows /\ freeRows \in Seq(Rows)
  BY <1>5 DEF PoolTypeOK
<1> HIDE DEF rows
<1>10. IsInjective(rows)
  BY <1>4, <1>5, <1>6, <1>8 DEF IsInjective, RowInv
<1>11. \A x : x \in Range(rows) <=> \E u \in toFree : x = row[u]
  <2>1. \A u \in toFree : \E i \in 1 .. Len(order) : u = order[i]
    BY <1>5, <1>6 DEF Range
  <2>. QED  BY <1>6, <1>8, <2>1 DEF Range
<1>12. Range(freeRows) \intersect Range(rows) = {}
  BY <1>4, <1>11 DEF RowInv
<1>13. IsInjective(freeRows') /\ Range(freeRows') = Range(freeRows) \union Range(rows)
  BY <1>7, <1>9, <1>10, <1>12, JoinOnce DEF RowInv
<1>14. ASSUME NEW u \in Owners' PROVE row[u] \notin Range(freeRows')
  BY <1>3, <1>4, <1>11, <1>13, <1>14 DEF RowInv
<1>. QED  BY <1>1, <1>3, <1>13, <1>14 DEF RowInv

-----------------------------------------------------------------------------
(* The two queues.                                                          *)

LEMMA HeadOff ==
  ASSUME NEW S, NEW q \in Seq(S), q /= <<>>
  PROVE  /\ Len(q) \in Nat \ {0} /\ DOMAIN q = 1 .. Len(q) /\ Head(q) = q[1] /\ Head(q) \in S
         /\ Tail(q) \in Seq(S) /\ Len(Tail(q)) = Len(q) - 1 /\ DOMAIN Tail(q) = 1 .. Len(q) - 1
         /\ \A i \in 1 .. Len(q) - 1 : Tail(q)[i] = q[i + 1]
<1>1. Len(q) \in Nat /\ Len(q) /= 0 /\ DOMAIN q = 1 .. Len(q)
  BY LenProperties, EmptySeq
<1>. QED  BY <1>1, HeadTailProperties, LenProperties

\* What a batch adds: p operations come before its run.
Grows(p, run, write) ==
  /\ Len(engineQ') = p + 2 /\ DOMAIN engineQ' = 1 .. p + 2
  /\ \A i \in 1 .. Len(engineQ) : engineQ'[i] = engineQ[i]
  /\ engineQ'[p + 1] = run /\ engineQ'[p + 2] = write

LEMMA JoinThree ==
  ASSUME NEW S, NEW q \in Seq(S), NEW a \in S, NEW b \in S, NEW c \in S
  PROVE  LET z == q \o <<a>> \o <<b, c>>
         IN  /\ Len(z) = Len(q) + 3 /\ DOMAIN z = 1 .. Len(q) + 3
             /\ \A i \in 1 .. Len(q) : z[i] = q[i]
             /\ z[Len(q) + 1] = a /\ z[Len(q) + 2] = b /\ z[Len(q) + 3] = c
<1> DEFINE y == q \o <<a>>
           n == Len(q)
<1>1. n \in Nat /\ <<a>> \in Seq(S) /\ Len(<<a>>) = 1 /\ <<b, c>> \in Seq(S) /\ Len(<<b, c>>) = 2
      /\ <<a>>[1] = a /\ <<b, c>>[1] = b /\ <<b, c>>[2] = c
  BY LenProperties
<1>2. y \in Seq(S) /\ Len(y) = n + 1 /\ \A i \in 1 .. n + 1 : y[i] = IF i <= n THEN q[i] ELSE <<a>>[i - n]
  BY <1>1, ConcatProperties
<1> DEFINE z == y \o <<b, c>>
<1> HIDE DEF y, n
<1>3. z \in Seq(S) /\ Len(z) = (n + 1) + 2
      /\ \A i \in 1 .. (n + 1) + 2 : z[i] = IF i <= n + 1 THEN y[i] ELSE <<b, c>>[i - (n + 1)]
  BY <1>1, <1>2, ConcatProperties
<1> HIDE DEF z
<1>4. Len(z) = n + 3 /\ DOMAIN z = 1 .. n + 3
  BY <1>1, <1>3, LenProperties
<1>5. ASSUME NEW i \in 1 .. n PROVE z[i] = q[i]
  <2>1. i \in 1 .. (n + 1) + 2 /\ i <= n + 1 /\ i \in 1 .. n + 1 /\ i <= n
    BY <1>1
  <2>. QED  BY <1>2, <1>3, <2>1
<1>6. z[n + 1] = a
  <2>1. n + 1 \in 1 .. (n + 1) + 2 /\ n + 1 <= n + 1 /\ n + 1 \in 1 .. n + 1 /\ ~(n + 1 <= n) /\ (n + 1) - n = 1
    BY <1>1
  <2>. QED  BY <1>1, <1>2, <1>3, <2>1
<1>7. z[n + 2] = b /\ z[n + 3] = c
  <2>1. n + 2 \in 1 .. (n + 1) + 2 /\ ~(n + 2 <= n + 1) /\ (n + 2) - (n + 1) = 1
        /\ n + 3 \in 1 .. (n + 1) + 2 /\ ~(n + 3 <= n + 1) /\ (n + 3) - (n + 1) = 2
    BY <1>1
  <2>. QED  BY <1>1, <1>3, <2>1
<1>. QED  BY <1>4, <1>5, <1>6, <1>7 DEF z, y, n

LEMMA JoinTwo ==
  ASSUME NEW S, NEW q \in Seq(S), NEW b \in S, NEW c \in S
  PROVE  LET z == q \o <<b, c>>
         IN  /\ Len(z) = Len(q) + 2 /\ DOMAIN z = 1 .. Len(q) + 2
             /\ \A i \in 1 .. Len(q) : z[i] = q[i]
             /\ z[Len(q) + 1] = b /\ z[Len(q) + 2] = c
<1> DEFINE z == q \o <<b, c>>
           n == Len(q)
<1>1. n \in Nat /\ <<b, c>> \in Seq(S) /\ Len(<<b, c>>) = 2 /\ <<b, c>>[1] = b /\ <<b, c>>[2] = c
  BY LenProperties
<1>2. z \in Seq(S) /\ Len(z) = n + 2 /\ \A i \in 1 .. n + 2 : z[i] = IF i <= n THEN q[i] ELSE <<b, c>>[i - n]
  BY <1>1, ConcatProperties
<1> HIDE DEF z, n
<1>3. DOMAIN z = 1 .. n + 2
  BY <1>2, LenProperties
<1>4. \A i \in 1 .. n : z[i] = q[i]
  BY <1>1, <1>2
<1>5. z[n + 1] = b /\ z[n + 2] = c
  <2>1. n + 1 \in 1 .. n + 2 /\ ~(n + 1 <= n) /\ (n + 1) - n = 1 /\ n + 2 \in 1 .. n + 2 /\ ~(n + 2 <= n) /\ (n + 2) - n = 2
    BY <1>1
  <2>. QED  BY <1>1, <1>2, <2>1
<1>. QED  BY <1>2, <1>3, <1>4, <1>5 DEF z, n

\* The batch of a prompt
LEMMA EnqueuePrompt ==
  ASSUME PoolTypeOK, NEW copy \in Copies, NEW run \in Runs, NEW write \in Writes,
         Enqueue(<<copy>>, <<run, write>>)
  PROVE  /\ Grows(Len(engineQ) + 1, run, write)
         /\ overlap => /\ engineQ'[Len(engineQ) + 1] = [op |-> "wait", seen |-> schedAll + 1]
                       /\ Len(schedQ') = Len(schedQ) + 1 /\ schedAll' = schedAll + 1
                       /\ DOMAIN schedQ' = 1 .. Len(schedQ) + 1
                       /\ \A c \in 1 .. Len(schedQ) : schedQ'[c] = schedQ[c]
                       /\ schedQ'[Len(schedQ) + 1] = copy
         /\ ~overlap => engineQ'[Len(engineQ) + 1] = copy /\ schedQ' = schedQ /\ schedAll' = schedAll
<1>1. engineQ \in Seq(Ops) /\ schedQ \in Seq(Copies) /\ schedAll \in Nat /\ Len(engineQ) \in Nat
      /\ copy \in Ops /\ run \in Ops /\ write \in Ops /\ Len(<<copy>>) = 1
  BY LenProperties DEF PoolTypeOK, Ops
<1>2. CASE overlap
  <2> DEFINE w == [op |-> "wait", seen |-> schedAll + 1]
  <2>1. w \in Ops
    BY <1>1 DEF Ops, Waits
  <2>2. schedQ' = schedQ \o <<copy>> /\ schedAll' = schedAll + 1 /\ engineQ' = engineQ \o <<w>> \o <<run, write>>
    BY <1>1, <1>2 DEF Enqueue
  <2> HIDE DEF w
  <2>3. /\ Len(engineQ') = Len(engineQ) + 3 /\ DOMAIN engineQ' = 1 .. Len(engineQ) + 3
        /\ \A i \in 1 .. Len(engineQ) : engineQ'[i] = engineQ[i]
        /\ engineQ'[Len(engineQ) + 1] = w /\ engineQ'[Len(engineQ) + 2] = run /\ engineQ'[Len(engineQ) + 3] = write
    BY <1>1, <2>1, <2>2, JoinThree
  <2>4. (Len(engineQ) + 1) + 1 = Len(engineQ) + 2 /\ (Len(engineQ) + 1) + 2 = Len(engineQ) + 3
    BY <1>1
  <2>5. /\ schedQ' = Append(schedQ, copy) /\ Len(schedQ') = Len(schedQ) + 1
        /\ DOMAIN schedQ' = 1 .. Len(schedQ) + 1
        /\ \A c \in 1 .. Len(schedQ) : schedQ'[c] = schedQ[c]
        /\ schedQ'[Len(schedQ) + 1] = copy
    BY <1>1, <2>2, AppendProperties, LenProperties
  <2>. QED  BY <1>2, <2>2, <2>3, <2>4, <2>5 DEF Grows, w
<1>3. CASE ~overlap
  <2>1. schedQ' = schedQ /\ schedAll' = schedAll /\ engineQ' = engineQ \o <<copy>> \o <<run, write>>
    BY <1>3 DEF Enqueue
  <2>2. /\ Len(engineQ') = Len(engineQ) + 3 /\ DOMAIN engineQ' = 1 .. Len(engineQ) + 3
        /\ \A i \in 1 .. Len(engineQ) : engineQ'[i] = engineQ[i]
        /\ engineQ'[Len(engineQ) + 1] = copy /\ engineQ'[Len(engineQ) + 2] = run /\ engineQ'[Len(engineQ) + 3] = write
    BY <1>1, <2>1, JoinThree
  <2>3. (Len(engineQ) + 1) + 1 = Len(engineQ) + 2 /\ (Len(engineQ) + 1) + 2 = Len(engineQ) + 3
    BY <1>1
  <2>. QED  BY <1>3, <2>1, <2>2, <2>3 DEF Grows
<1>. QED  BY <1>2, <1>3

\* The batch of a decode
LEMMA EnqueueDecode ==
  ASSUME PoolTypeOK, NEW run \in Runs, NEW write \in Writes, Enqueue(<<>>, <<run, write>>)
  PROVE  /\ schedQ' = schedQ /\ schedAll' = schedAll
         /\ overlap => /\ Grows(Len(engineQ) + 1, run, write)
                       /\ engineQ'[Len(engineQ) + 1] = [op |-> "wait", seen |-> schedAll]
         /\ ~overlap => Grows(Len(engineQ), run, write)
<1>1. engineQ \in Seq(Ops) /\ schedQ \in Seq(Copies) /\ schedAll \in Nat /\ Len(engineQ) \in Nat
      /\ run \in Ops /\ write \in Ops /\ Len(<<>>) = 0
  BY LenProperties DEF PoolTypeOK, Ops
<1>2. schedQ \o <<>> = schedQ /\ engineQ \o <<>> = engineQ
  BY <1>1, ConcatEmptySeq
<1>3. CASE overlap
  <2> DEFINE w == [op |-> "wait", seen |-> schedAll]
  <2>1. w \in Ops
    BY <1>1 DEF Ops, Waits
  <2>2. schedQ' = schedQ /\ schedAll' = schedAll /\ engineQ' = engineQ \o <<w>> \o <<run, write>>
    BY <1>1, <1>2, <1>3 DEF Enqueue
  <2> HIDE DEF w
  <2>3. /\ Len(engineQ') = Len(engineQ) + 3 /\ DOMAIN engineQ' = 1 .. Len(engineQ) + 3
        /\ \A i \in 1 .. Len(engineQ) : engineQ'[i] = engineQ[i]
        /\ engineQ'[Len(engineQ) + 1] = w /\ engineQ'[Len(engineQ) + 2] = run /\ engineQ'[Len(engineQ) + 3] = write
    BY <1>1, <2>1, <2>2, JoinThree
  <2>4. (Len(engineQ) + 1) + 1 = Len(engineQ) + 2 /\ (Len(engineQ) + 1) + 2 = Len(engineQ) + 3
    BY <1>1
  <2>. QED  BY <1>3, <2>2, <2>3, <2>4 DEF Grows, w
<1>4. CASE ~overlap
  <2>1. schedQ' = schedQ /\ schedAll' = schedAll /\ engineQ' = engineQ \o <<run, write>>
    BY <1>2, <1>4 DEF Enqueue
  <2>. QED  BY <1>1, <1>4, <2>1, JoinTwo DEF Grows
<1>. QED  BY <1>3, <1>4

-----------------------------------------------------------------------------
(* The batches that are not sampled yet.                                    *)

LEMMA CountingInit == ASSUME TokenPoolAssumption, PoolInit PROVE Counting
BY DEF PoolInit, Counting, Some

LEMMA CountingStay ==
  ASSUME PoolTypeOK, Counting, UNCHANGED <<overlap, host>>, runsDone' = runsDone \/ runsDone' = runsDone + 1
  PROVE  Counting'
<1>1. Data' = Data /\ UNCHANGED <<cur, last, launched, pc, overlap>> /\ Some(cur)' = Some(cur) /\ Some(last)' = Some(last)
  BY DEF host, Data, Some
<1>2. runsDone \in Nat /\ launched \in Nat /\ Some(cur) \in 0 .. 1 /\ Some(last) \in 0 .. 1
      /\ Data.no \in Nat
  BY DataType DEF PoolTypeOK, Some, Batches
<1>. QED  BY <1>1, <1>2 DEF Counting

LEMMA CountingLaunch ==
  ASSUME PoolTypeOK, HostInv, Counting, pc = "schedule", Fixed, NEW reqs \in SUBSET Uids, NEW part \in BOOLEAN,
         NEW to \in [Uids -> Nat], Launched(reqs, part, to)
  PROVE  Counting'
<1>1. /\ cur = NothingLaunched /\ Some(cur) = 0 /\ cur' /= NothingLaunched /\ Some(cur)' = 1
      /\ cur'.no = launched + 1 /\ launched' = launched + 1 /\ pc' = "post"
      /\ last' = last /\ Some(last)' = Some(last) /\ runsDone' = runsDone /\ overlap' = overlap
  BY LaunchType DEF HostInv, Phases, Some, Launched, Fixed
<1>2. runsDone \in Nat /\ launched \in Nat /\ Some(last) \in 0 .. 1 /\ last.no \in Nat
  BY DEF PoolTypeOK, Some, Batches
<1>. QED  BY <1>1, <1>2 DEF Counting

LEMMA CountingSchedule ==
  ASSUME TokenPoolAssumption, PoolTypeOK, HostInv, Counting, Schedule PROVE Counting'
<1>1. pc = "schedule" /\ Fixed
  BY ScheduleIs
<1>2. ASSUME NEW u \in Uids, NEW to \in Nat, NEW part \in BOOLEAN, Prefilled(u, to, part) PROVE Counting'
  <2>1. [cached EXCEPT ![u] = to] \in [Uids -> Nat] /\ {u} \in SUBSET Uids
    BY DEF PoolTypeOK
  <2>. QED  BY <1>1, <1>2, <2>1, CountingLaunch DEF Prefilled
<1>3. CASE Decoded
  <2>1. device \in [Uids -> Nat] /\ running \in SUBSET Uids
    BY DEF PoolTypeOK
  <2>. QED  BY <1>1, <1>3, <2>1, CountingLaunch DEF Decoded
<1>4. CASE Idles
  BY <1>1, <1>4 DEF Idles, Fixed, Counting, Some
<1>. QED  BY <1>2, <1>3, <1>4, ScheduleIs

LEMMA CountingAbort == ASSUME Counting, NEW u \in Uids, Abort(u) PROVE Counting'
BY DEF Abort, Counting, Some

LEMMA CountingPostStart == ASSUME Counting, PostStart PROVE Counting'
BY DEF PostStart, Counting, Some, Synchronize, Data

LEMMA CountingFreeRows == ASSUME PoolTypeOK, HostInv, Counting, FreeRows PROVE Counting'
<1>1. /\ pc = "free" /\ pc' = "schedule" /\ cur' = NothingLaunched /\ Some(cur)' = 0
      /\ last' = (IF overlap THEN cur ELSE NothingLaunched) /\ UNCHANGED <<overlap, launched, runsDone>>
  BY DEF FreeRows, Some
<1>2. runsDone \in Nat /\ launched \in Nat /\ Some(cur) \in 0 .. 1 /\ Some(last) \in 0 .. 1 /\ cur.no \in Nat /\ last.no \in Nat
  BY DEF PoolTypeOK, Some, Batches
<1>3. CASE overlap
  <2>1. last' = cur /\ Some(last)' = Some(cur) /\ Data = last
    BY <1>1, <1>3 DEF Some, Data
  <2>2. runsDone >= launched - Some(cur)
    <3>1. CASE last = NothingLaunched
      BY <1>2, <1>3, <3>1 DEF Counting, Some
    <3>2. CASE last /= NothingLaunched
      BY <1>1, <1>2, <2>1, <3>2 DEF Counting
    <3>. QED  BY <3>1, <3>2
  <2>. QED  BY <1>1, <1>2, <2>1, <2>2 DEF Counting
<1>4. CASE ~overlap
  BY <1>1, <1>4 DEF Counting
<1>. QED  BY <1>3, <1>4

-----------------------------------------------------------------------------
(* The shape of the queues in overlap_loop.                                 *)

LEMMA Thirds ==
  /\ \A n \in Nat : n \div 3 \in Nat
  /\ \A n \in Nat : (n + 3) \div 3 = (n \div 3) + 1 /\ (n + 3) % 3 = n % 3
  /\ \A n \in Nat : n % 3 = 2 => (n + 1) \div 3 = (n \div 3) + 1
  /\ \A n \in Nat : (n >= 1 /\ (n - 1) % 3 /= 1) => (n + 1) \div 3 = n \div 3
  /\ \A n \in Nat : \A i \in 1 .. n - 1 : (n + 1) \div 3 >= ((n - i - 1) \div 3) + 1
OBVIOUS

LEMMA Lens ==
  ASSUME PoolTypeOK
  PROVE  /\ Len(engineQ) \in Nat /\ DOMAIN engineQ = 1 .. Len(engineQ)
         /\ Len(schedQ) \in Nat /\ DOMAIN schedQ = 1 .. Len(schedQ)
         /\ \A i \in DOMAIN engineQ : engineQ[i] \in Ops
         /\ \A c \in DOMAIN schedQ : schedQ[c] \in Copies
BY LenProperties, ElementOfSeq DEF PoolTypeOK, Ops

\* What the operations in the queues are
LEMMA OpTypes ==
  ASSUME NEW o \in Ops
  PROVE  /\ o.op \in {"copy", "wait", "run", "write"}
         /\ o.op = "copy" => o \in Copies /\ o.row \in Rows /\ o.uid \in Uids /\ o.from \in Nat /\ o.to \in Nat
         /\ o.op = "wait" => o \in Waits /\ o.seen \in Nat
         /\ o.op = "run" => o \in Runs /\ o.reads \subseteq Reads
         /\ o.op = "write" => o \in Writes /\ o.writes \subseteq Puts
BY DEF Ops, Copies, Waits, Runs, Writes

\* A batch still to run is one the host has not synchronized with.
LEMMA Pending ==
  ASSUME PoolTypeOK, Shape, overlap, NEW i \in DOMAIN engineQ, engineQ[i].op = "run"
  PROVE  No(i) \in Int /\ No(i) > runsDone
<1>1. Len(engineQ) \in Nat /\ i \in 1 .. Len(engineQ) /\ launched \in Nat
  BY Lens DEF PoolTypeOK
<1>2. i /= Len(engineQ)
  <2>1. SUFFICES ASSUME i = Len(engineQ) PROVE FALSE
    OBVIOUS
  <2>2. Place(i) = 0
    BY <1>1, <2>1 DEF Place
  <2>. QED  BY <2>2 DEF Shape, Order
<1>3. i \in 1 .. Len(engineQ) - 1 /\ Len(engineQ) - i - 1 \in Nat
  BY <1>1, <1>2
<1>4. (Len(engineQ) + 1) \div 3 \in Nat /\ (Len(engineQ) - i - 1) \div 3 \in Nat
      /\ (Len(engineQ) + 1) \div 3 >= ((Len(engineQ) - i - 1) \div 3) + 1
  BY <1>1, <1>3, Thirds
<1>5. runsDone = launched - ((Len(engineQ) + 1) \div 3)
  BY DEF Shape, Counts
<1>. QED  BY <1>1, <1>4, <1>5 DEF No

LEMMA ShapeInit == ASSUME PoolInit PROVE Shape /\ Serial
<1>1. Len(engineQ) = 0 /\ Len(schedQ) = 0 /\ DOMAIN engineQ = {} /\ DOMAIN schedQ = {} /\ schedQ = <<>>
      /\ schedDone = 0 /\ schedAll = 0 /\ runsDone = 0 /\ launched = 0
  BY DEF PoolInit
<1>. QED  BY <1>1 DEF Shape, Serial, Order, Counts, AllRead, AllCopied

LEMMA SerialStreams == ASSUME PoolTypeOK, Serial, SchedStream \/ EngineStream PROVE Serial'
<1>1. CASE SchedStream
  BY <1>1 DEF SchedStream, Serial, host
<1>2. CASE EngineStream
  <2>1. schedQ' = schedQ /\ overlap' = overlap /\ engineQ /= <<>> /\ engineQ' = Tail(engineQ) /\ engineQ \in Seq(Ops)
    BY <1>2 DEF EngineStream, host, PoolTypeOK, Ops
  <2>2. /\ Len(engineQ) \in Nat \ {0} /\ DOMAIN engineQ = 1 .. Len(engineQ) /\ DOMAIN engineQ' = 1 .. Len(engineQ) - 1
        /\ \A i \in 1 .. Len(engineQ) - 1 : engineQ'[i] = engineQ[i + 1] /\ i + 1 \in 1 .. Len(engineQ)
    BY <2>1, HeadOff
  <2>. QED  BY <2>1, <2>2 DEF Serial
<1>. QED  BY <1>1, <1>2

LEMMA ShapeSchedStream == ASSUME PoolTypeOK, Shape, SchedStream PROVE Shape'
<1>1. SUFFICES ASSUME overlap PROVE Order' /\ Counts' /\ AllRead' /\ AllCopied'
  BY DEF Shape, SchedStream, host
<1>2. /\ schedQ /= <<>> /\ Did(Head(schedQ)) /\ schedQ' = Tail(schedQ) /\ schedDone' = schedDone + 1
      /\ schedAll' = schedAll /\ engineQ' = engineQ /\ schedQ \in Seq(Copies)
      /\ UNCHANGED <<launched, plen, cached, cur, last, finished>>
  BY DEF SchedStream, host, PoolTypeOK
<1>3. /\ Len(schedQ) \in Nat \ {0} /\ DOMAIN schedQ = 1 .. Len(schedQ) /\ Head(schedQ) \in Copies
      /\ Len(schedQ') = Len(schedQ) - 1 /\ DOMAIN schedQ' = 1 .. Len(schedQ) - 1
      /\ \A c \in 1 .. Len(schedQ) - 1 : schedQ'[c] = schedQ[c + 1]
  BY <1>2, HeadOff
<1>4. runsDone' = runsDone
  BY <1>2, <1>3, DidType DEF Copies, Ops
<1>5. Order' /\ AllRead'
  BY <1>1, <1>2 DEF Shape, Order, AllRead, Place, ReadByCur, ReadByLast, No
<1>6. schedAll \in Nat /\ schedDone \in Nat
  BY DEF PoolTypeOK
<1>7. Counts'
  BY <1>1, <1>2, <1>3, <1>4, <1>6 DEF Shape, Counts
<1>8. ASSUME NEW c \in 1 .. Len(schedQ) - 1 PROVE CopyRead(c)'
  <2>1. c + 1 \in DOMAIN schedQ /\ schedQ'[c] = schedQ[c + 1] /\ schedDone' + c = schedDone + (c + 1)
    BY <1>2, <1>3, <1>6
  <2>2. CopyRead(c + 1)
    BY <1>1, <2>1 DEF Shape, AllCopied
  <2>. QED  BY <1>2, <2>1, <2>2 DEF CopyRead
<1>. QED  BY <1>3, <1>5, <1>7, <1>8 DEF AllCopied

LEMMA ShapeEngineStream == ASSUME PoolTypeOK, Shape, EngineStream PROVE Shape'
<1>1. SUFFICES ASSUME overlap PROVE Order' /\ Counts' /\ AllRead' /\ AllCopied'
  BY DEF Shape, EngineStream, host
<1>2. /\ engineQ /= <<>> /\ engineQ' = Tail(engineQ) /\ engineQ \in Seq(Ops)
      /\ UNCHANGED <<launched, plen, cached, cur, last, finished, schedQ, schedAll, schedDone>>
  BY DEF EngineStream, host, PoolTypeOK, Ops
<1> DEFINE n == Len(engineQ)
<1>3. /\ n \in Nat \ {0} /\ DOMAIN engineQ = 1 .. n /\ Head(engineQ) = engineQ[1] /\ Head(engineQ) \in Ops
      /\ Len(engineQ') = n - 1 /\ DOMAIN engineQ' = 1 .. n - 1
      /\ \A i \in 1 .. n - 1 : engineQ'[i] = engineQ[i + 1]
  BY <1>2, HeadOff
<1> HIDE DEF n
<1>4. \A i \in 1 .. n - 1 : i + 1 \in 1 .. n /\ (n - 1) - i = n - (i + 1) /\ (n - 1) - i - 1 = n - (i + 1) - 1
  BY <1>3
<1>5. \A i \in 1 .. n - 1 : Place(i)' = Place(i + 1) /\ No(i)' = No(i + 1)
  BY <1>2, <1>3, <1>4 DEF Place, No, n
<1>6. Order'
  BY <1>1, <1>3, <1>4, <1>5 DEF Shape, Order
<1>7. AllRead'
  <2>1. SUFFICES ASSUME NEW i \in 1 .. n - 1, engineQ'[i].op = "run", NEW x \in engineQ'[i].reads
                 PROVE  ReadByCur(i, x)' \/ ReadByLast(i, x)'
    BY <1>3 DEF AllRead
  <2>2. i + 1 \in DOMAIN engineQ /\ engineQ'[i] = engineQ[i + 1] /\ No(i)' = No(i + 1)
    BY <1>3, <1>4, <1>5
  <2>3. ReadByCur(i + 1, x) \/ ReadByLast(i + 1, x)
    BY <1>1, <2>1, <2>2 DEF Shape, AllRead
  <2>. QED  BY <1>2, <2>2, <2>3 DEF ReadByCur, ReadByLast
<1>8. runsDone' = IF Head(engineQ).op = "run" THEN runsDone + 1 ELSE runsDone
  <2>1. CASE Head(engineQ).op = "wait"
    BY <2>1 DEF EngineStream
  <2>2. CASE Head(engineQ).op /= "wait"
    BY <1>3, <2>2, DidType DEF EngineStream
  <2>. QED  BY <2>1, <2>2
<1>9. Counts'
  <2>1. runsDone = launched - ((n + 1) \div 3) /\ schedAll = schedDone + Len(schedQ)
    BY <1>1 DEF Shape, Counts, n
  <2>2. Place(1) = (n - 1) % 3 /\ (n - 1) % 3 \in 0 .. 2 /\ launched \in Nat /\ runsDone \in Nat
    BY <1>3 DEF Place, n, PoolTypeOK
  <2>3. 1 \in DOMAIN engineQ
    BY <1>3
  <2>4. Head(engineQ).op = "run" <=> (n - 1) % 3 = 1
    BY <1>1, <1>3, <2>2, <2>3 DEF Shape, Order
  <2>5. runsDone' = launched - (n \div 3)
    <3>1. CASE (n - 1) % 3 = 1
      <4>1. n % 3 = 2
        BY <1>3, <3>1
      <4>2. (n + 1) \div 3 = (n \div 3) + 1 /\ n \div 3 \in Nat
        BY <1>3, <4>1, Thirds
      <4>. QED  BY <1>8, <2>1, <2>2, <2>4, <3>1, <4>2
    <3>2. CASE (n - 1) % 3 /= 1
      <4>1. (n + 1) \div 3 = n \div 3
        BY <1>3, <3>2, Thirds
      <4>. QED  BY <1>8, <2>1, <2>4, <3>2, <4>1
    <3>. QED  BY <3>1, <3>2
  <2>6. Len(engineQ') + 1 = n
    BY <1>3
  <2>. QED  BY <1>2, <2>1, <2>5, <2>6 DEF Counts
<1>10. ASSUME NEW c \in DOMAIN schedQ PROVE CopyRead(c)'
  <2>1. CopyRead(c) /\ c \in Nat \ {0} /\ schedDone \in Nat
    BY <1>1, Lens DEF Shape, AllCopied, PoolTypeOK
  <2>2. PICK i \in DOMAIN engineQ : \E k \in 1 .. i - 1 :
          /\ engineQ[i].op = "run" /\ engineQ[k].op = "wait" /\ engineQ[k].seen >= schedDone + c
          /\ \E x \in engineQ[i].reads : x.uid = schedQ[c].uid /\ x.from < plen[x.uid]
    BY <2>1 DEF CopyRead
  <2>3. PICK k \in 1 .. i - 1 :
          /\ engineQ[i].op = "run" /\ engineQ[k].op = "wait" /\ engineQ[k].seen >= schedDone + c
          /\ \E x \in engineQ[i].reads : x.uid = schedQ[c].uid /\ x.from < plen[x.uid]
    BY <2>2
  <2>4. i \in 1 .. n /\ k \in 1 .. n
    BY <1>3, <2>2
  <2>5. k /= 1
    <3>1. SUFFICES ASSUME k = 1 PROVE FALSE
      OBVIOUS
    <3>2. schedDone >= engineQ[1].seen
      BY <1>3, <2>3, <3>1 DEF EngineStream
    <3>3. engineQ[1].seen \in Nat
      BY <1>3, <2>3, <3>1, OpTypes
    <3>. QED  BY <2>1, <2>3, <3>1, <3>2, <3>3
  <2>6. i - 1 \in 1 .. n - 1 /\ k - 1 \in 1 .. (i - 1) - 1 /\ k - 1 \in 1 .. n - 1 /\ (i - 1) + 1 = i /\ (k - 1) + 1 = k
    BY <2>4, <2>5, <1>3
  <2>7. engineQ'[i - 1] = engineQ[i] /\ engineQ'[k - 1] = engineQ[k]
    BY <1>3, <2>6
  <2>. QED  BY <1>2, <1>3, <2>3, <2>6, <2>7 DEF CopyRead
<1>. QED  BY <1>2, <1>6, <1>7, <1>9, <1>10 DEF AllCopied

\* A step of the host that leaves the queues
LEMMA QuietShape ==
  ASSUME Shape, UNCHANGED <<overlap, plen, cached, launched, schedQ, schedDone, schedAll, engineQ, runsDone>>,
         \A i \in DOMAIN engineQ : engineQ[i].op = "run" =>
           \A x \in engineQ[i].reads : (ReadByCur(i, x) \/ ReadByLast(i, x)) => (ReadByCur(i, x)' \/ ReadByLast(i, x)')
  PROVE  Shape'
<1>1. SUFFICES ASSUME overlap PROVE Order' /\ Counts' /\ AllRead' /\ AllCopied'
  BY DEF Shape
<1>2. Order' /\ Counts'
  BY <1>1 DEF Shape, Order, Counts, Place
<1>3. AllRead'
  BY <1>1 DEF Shape, AllRead
<1>4. AllCopied'
  BY <1>1 DEF Shape, AllCopied, CopyRead
<1>. QED  BY <1>2, <1>3, <1>4

LEMMA ShapeAbort == ASSUME Shape, NEW u \in Uids, Abort(u) PROVE Shape'
<1>1. UNCHANGED <<overlap, plen, cached, launched, schedQ, schedDone, schedAll, engineQ, runsDone, cur, last, finished>>
  BY DEF Abort
<1>2. ASSUME NEW i, NEW x PROVE ReadByCur(i, x) \/ ReadByLast(i, x) => ReadByCur(i, x)' \/ ReadByLast(i, x)'
  BY <1>1 DEF ReadByCur, ReadByLast, No
<1>. QED  BY <1>1, <1>2, QuietShape

LEMMA ShapePostStart == ASSUME Shape, PostStart PROVE Shape'
<1>1. UNCHANGED <<overlap, plen, cached, launched, schedQ, schedDone, schedAll, engineQ, runsDone, cur, last, finished>>
  BY DEF PostStart
<1>2. ASSUME NEW i, NEW x PROVE ReadByCur(i, x) \/ ReadByLast(i, x) => ReadByCur(i, x)' \/ ReadByLast(i, x)'
  BY <1>1 DEF ReadByCur, ReadByLast, No
<1>. QED  BY <1>1, <1>2, QuietShape

\* What is still to run when a batch is freed is the next batch's, and it
\* reads the prompt of no request that is freed.
LEMMA ReadersStay ==
  ASSUME PoolTypeOK, HostInv, Counting, Shape, FreeRows, overlap,
         NEW i \in DOMAIN engineQ, engineQ[i].op = "run", NEW x \in engineQ[i].reads
  PROVE  /\ ReadByCur(i, x) /\ x.uid \notin deferred
         /\ x.from < plen[x.uid] => x.uid \notin toFree
<1>1. pc = "free"
  BY DEF FreeRows
<1>2. runsDone >= Data.no /\ Data = last /\ No(i) \in Int /\ No(i) > runsDone /\ runsDone \in Nat /\ last.no \in Nat
  BY <1>1, Pending DEF Counting, Data, PoolTypeOK, Batches
<1>3. ReadByCur(i, x)
  BY <1>2 DEF Shape, AllRead, ReadByLast
<1>4. x.uid \in cur.reqs /\ x.uid \notin deferred
  BY <1>3 DEF ReadByCur, HostInv, Apart
<1>5. ASSUME x.from < plen[x.uid], x.uid \in toFree PROVE FALSE
  <2>1. x.uid \in last.reqs /\ (x.uid \in last.chunked => x.uid \in deferred)
    BY <1>1, <1>2, <1>5 DEF HostInv, Freeing
  <2>2. cached[x.uid] <= plen[x.uid] /\ cached[x.uid] > plen[x.uid]
    BY <1>3, <1>4, <1>5, <2>1 DEF ReadByCur, HostInv, Lengths
  <2>3. x.uid \in Uids /\ cached[x.uid] \in Nat /\ plen[x.uid] \in Nat
    BY <1>4 DEF PoolTypeOK, Batches
  <2>. QED  BY <2>2, <2>3
<1>. QED  BY <1>3, <1>4, <1>5

LEMMA ShapeFreeRows ==
  ASSUME PoolTypeOK, HostInv, Counting, Shape, FreeRows PROVE Shape'
<1>1. SUFFICES ASSUME overlap PROVE Shape'
  BY DEF Shape, FreeRows
<1>2. /\ UNCHANGED <<overlap, plen, cached, launched, schedQ, schedDone, schedAll, engineQ, runsDone>>
      /\ last' = cur
      /\ finished' = (IF Data = NothingLaunched THEN finished ELSE toFree \ deferred)
  BY <1>1 DEF FreeRows
<1>3. ASSUME NEW i \in DOMAIN engineQ, engineQ[i].op = "run", NEW x \in engineQ[i].reads PROVE ReadByLast(i, x)'
  <2>1. ReadByCur(i, x) /\ (x.from < plen[x.uid] => x.uid \notin toFree)
    BY <1>1, <1>3, ReadersStay
  <2>2. x.uid \in cur.reqs /\ x.uid \notin finished
    BY <2>1 DEF ReadByCur, HostInv, Apart
  <2>. QED  BY <1>2, <2>1, <2>2 DEF ReadByCur, ReadByLast, No
<1>. QED  BY <1>2, <1>3, QuietShape

\* A batch adds itself behind what is queued.
Appends(reqs, wait, run, write) ==
  /\ Grows(Len(engineQ) + 1, run, write) /\ engineQ'[Len(engineQ) + 1] = wait
  /\ wait.op = "wait" /\ run.op = "run" /\ write.op = "write"
  /\ \A x \in run.reads : x.uid \in reqs /\ (x.from < plen[x.uid] => cached'[x.uid] <= plen[x.uid])

LEMMA AppendedShape ==
  ASSUME PoolTypeOK, HostInv, Shape, overlap, pc = "schedule", Fixed, NEW reqs \in SUBSET Uids, NEW part \in BOOLEAN,
         NEW to \in [Uids -> Nat], Launched(reqs, part, to), NEW wait, NEW run, NEW write, Appends(reqs, wait, run, write)
  PROVE  Order' /\ AllRead' /\ runsDone' = launched' - ((Len(engineQ') + 1) \div 3)
<1> DEFINE n == Len(engineQ)
<1>1. /\ n \in Nat /\ DOMAIN engineQ = 1 .. n /\ Len(engineQ') = n + 3 /\ DOMAIN engineQ' = 1 .. n + 3
      /\ \A i \in 1 .. n : engineQ'[i] = engineQ[i]
      /\ engineQ'[n + 1] = wait /\ engineQ'[n + 2] = run /\ engineQ'[n + 3] = write
      /\ wait.op = "wait" /\ run.op = "run" /\ write.op = "write"
  <2>1. n \in Nat /\ (n + 1) + 1 = n + 2 /\ (n + 1) + 2 = n + 3
    BY Lens
  <2>. QED  BY <2>1, Lens DEF Appends, Grows
<1>2. /\ cur = NothingLaunched /\ cur' /= NothingLaunched /\ cur'.no = launched + 1 /\ cur'.reqs = reqs
      /\ launched' = launched + 1 /\ launched \in Nat
      /\ UNCHANGED <<plen, last, finished, runsDone>>
  BY LaunchType DEF HostInv, Phases, Launched, Fixed, PoolTypeOK
<1>3. \A x \in run.reads : x.uid \in reqs /\ (x.from < plen[x.uid] => cached'[x.uid] <= plen[x.uid])
  BY DEF Appends
<1> HIDE DEF n
<1>4. \A i \in 1 .. n + 3 : i \in 1 .. n \/ i = n + 1 \/ i = n + 2 \/ i = n + 3
  BY <1>1
<1>5. ASSUME NEW i \in 1 .. n + 3 PROVE Place(i)' = (n + 3 - i) % 3
  BY <1>1 DEF Place
<1>6. ASSUME NEW i \in 1 .. n PROVE Place(i)' = Place(i)
  <2>1. n - i \in Nat /\ (n + 3) - i = (n - i) + 3 /\ i \in 1 .. n + 3
    BY <1>1
  <2>2. ((n - i) + 3) % 3 = (n - i) % 3
    BY <2>1, Thirds
  <2>. QED  BY <1>5, <2>1, <2>2 DEF Place, n
<1>7. Order'
  <2>1. ASSUME NEW i \in 1 .. n + 3
        PROVE  (i = n + 1 => Place(i)' = 2) /\ (i = n + 2 => Place(i)' = 1) /\ (i = n + 3 => Place(i)' = 0)
    <3>1. /\ i = n + 1 => n + 3 - i = 2
          /\ i = n + 2 => n + 3 - i = 1
          /\ i = n + 3 => n + 3 - i = 0
      BY <1>1
    <3>2. 2 % 3 = 2 /\ 1 % 3 = 1 /\ 0 % 3 = 0
      OBVIOUS
    <3>3. Place(i)' = (n + 3 - i) % 3
      BY <1>5, <2>1
    <3>. QED  BY <3>1, <3>2, <3>3
  <2>2. ASSUME NEW i \in 1 .. n
        PROVE  /\ Place(i)' = 0 => engineQ'[i].op = "write"
               /\ Place(i)' = 1 => engineQ'[i].op = "run"
               /\ Place(i)' = 2 => engineQ'[i].op = "wait"
    BY <1>1, <1>6 DEF Shape, Order
  <2>3. ASSUME NEW i \in 1 .. n + 3
        PROVE  /\ Place(i)' = 0 => engineQ'[i].op = "write"
               /\ Place(i)' = 1 => engineQ'[i].op = "run"
               /\ Place(i)' = 2 => engineQ'[i].op = "wait"
    <3>1. CASE i \in 1 .. n
      BY <2>2, <3>1
    <3>2. CASE i = n + 1
      BY <1>1, <2>1, <3>2
    <3>3. CASE i = n + 2
      BY <1>1, <2>1, <3>3
    <3>4. CASE i = n + 3
      BY <1>1, <2>1, <3>4
    <3>. QED  BY <1>4, <3>1, <3>2, <3>3, <3>4
  <2>. QED  BY <1>1, <2>3 DEF Order
<1>8. AllRead'
  <2>1. SUFFICES ASSUME NEW i \in 1 .. n + 3, engineQ'[i].op = "run", NEW x \in engineQ'[i].reads
                 PROVE  ReadByCur(i, x)' \/ ReadByLast(i, x)'
    BY <1>1 DEF AllRead
  <2>2. CASE i \in 1 .. n
    <3>1. ReadByLast(i, x)
      BY <1>1, <1>2, <2>1, <2>2 DEF Shape, AllRead, ReadByCur
    <3>2. i /= n
      <4>1. SUFFICES ASSUME i = n PROVE FALSE
        OBVIOUS
      <4>2. Place(n) = 0
        BY <1>1 DEF Place, n
      <4>. QED  BY <1>1, <2>1, <2>2, <4>1, <4>2 DEF Shape, Order
    <3>3. n - i - 1 \in Nat /\ (n + 3) - i - 1 = (n - i - 1) + 3
      BY <1>1, <2>2, <3>2
    <3>4. ((n - i - 1) + 3) \div 3 = ((n - i - 1) \div 3) + 1 /\ (n - i - 1) \div 3 \in Nat
      BY <3>3, Thirds
    <3>5. No(i)' = (launched + 1) - (((n - i - 1) \div 3) + 1)
      BY <1>1, <1>2, <3>3, <3>4 DEF No
    <3>6. No(i)' = No(i)
      BY <1>2, <3>4, <3>5 DEF No, n
    <3>. QED  BY <1>2, <3>1, <3>6 DEF ReadByLast
  <2>3. CASE i = n + 2
    <3>1. No(i)' = launched'
      <4>1. (n + 3) - (n + 2) - 1 = 0 /\ 0 \div 3 = 0
        BY <1>1
      <4>2. No(i)' = launched' - (((n + 3) - (n + 2) - 1) \div 3)
        BY <1>1, <2>3 DEF No
      <4>. QED  BY <1>2, <4>1, <4>2
    <3>. QED  BY <1>1, <1>2, <1>3, <2>1, <2>3, <3>1 DEF ReadByCur
  <2>4. i /= n + 1 /\ i /= n + 3
    BY <1>1, <2>1
  <2>. QED  BY <1>4, <2>2, <2>3, <2>4
<1>9. runsDone' = launched' - ((Len(engineQ') + 1) \div 3)
  <2>1. runsDone = launched - ((n + 1) \div 3)
    BY DEF Shape, Counts, n
  <2>2. ((n + 1) + 3) \div 3 = ((n + 1) \div 3) + 1 /\ (n + 1) \div 3 \in Nat
    BY <1>1, Thirds
  <2>3. Len(engineQ') + 1 = (n + 1) + 3
    BY <1>1
  <2>. QED  BY <1>2, <2>1, <2>2, <2>3
<1>. QED  BY <1>7, <1>8, <1>9

\* The copies that were queued are still read where they were.
LEMMA CopiesStay ==
  ASSUME PoolTypeOK, Fixed, NEW c \in DOMAIN schedQ, CopyRead(c), schedQ'[c] = schedQ[c],
         \A i \in DOMAIN engineQ : i \in DOMAIN engineQ' /\ engineQ'[i] = engineQ[i]
  PROVE  CopyRead(c)'
<1>1. PICK i \in DOMAIN engineQ : \E k \in 1 .. i - 1 :
        /\ engineQ[i].op = "run" /\ engineQ[k].op = "wait" /\ engineQ[k].seen >= schedDone + c
        /\ \E x \in engineQ[i].reads : x.uid = schedQ[c].uid /\ x.from < plen[x.uid]
  BY DEF CopyRead
<1>2. \A k \in 1 .. i - 1 : k \in DOMAIN engineQ
  BY Lens
<1>. QED  BY <1>1, <1>2 DEF CopyRead, Fixed

LEMMA ShapePrefilled ==
  ASSUME TokenPoolAssumption, PoolTypeOK, HostInv, Shape, Serial, pc = "schedule", Fixed,
         NEW u \in Uids, NEW to \in Nat, NEW part \in BOOLEAN, Prefilled(u, to, part)
  PROVE  Shape' /\ Serial'
<1> DEFINE tos == [cached EXCEPT ![u] = to]
           copy == CopyOf(u, cached[u], to)
           run == [op |-> "run", reads |-> ReadAll({u}, cached, tos)]
           write == [op |-> "write", writes |-> WriteAll({u}, part, tos)]
<1>1. /\ cached \in [Uids -> Nat] /\ plen \in [Uids -> Nat] /\ tos \in [Uids -> Nat] /\ tos[u] = to
      /\ to <= plen[u] /\ cached[u] < to /\ row' \in [Uids -> Rows] /\ row'[u] \in Rows
  BY TakeRow DEF PoolTypeOK, Prefilled, Takes
<1>2. copy \in Copies /\ run \in Runs /\ write \in Writes
  <2>1. copy \in Copies
    BY <1>1 DEF CopyOf, Copies
  <2>. QED  BY <1>1, <2>1, WorkType
<1>3. Launched({u}, part, tos) /\ Enqueue(<<copy>>, <<run, write>>)
  BY DEF Prefilled
<1>4. cached'[u] = to /\ overlap' = overlap /\ schedDone' = schedDone /\ plen' = plen
  BY <1>1, <1>3 DEF Launched, Fixed
<1>5. /\ copy.uid = u /\ run.op = "run" /\ write.op = "write"
      /\ \A x \in run.reads : x.uid = u /\ x.from = cached[u] /\ x.to = to
      /\ \E x \in run.reads : x.uid = u /\ x.from = cached[u]
  <2> DEFINE x == [uid |-> u, row |-> row'[u], from |-> cached[u], to |-> tos[u]]
  <2>1. run.reads = {x}
    BY DEF ReadAll
  <2>2. x.uid = u /\ x.from = cached[u] /\ x.to = to
    BY <1>1
  <2> HIDE DEF x
  <2>. QED  BY <2>1, <2>2 DEF CopyOf
<1> HIDE DEF copy, run, write, tos
<1>6. CASE ~overlap
  <2>1. Grows(Len(engineQ) + 1, run, write) /\ engineQ'[Len(engineQ) + 1] = copy /\ schedQ' = schedQ
    BY <1>2, <1>3, <1>6, EnqueuePrompt
  <2>2. \A i \in DOMAIN engineQ' : i \in DOMAIN engineQ \/ i = Len(engineQ) + 1 \/ i = Len(engineQ) + 2 \/ i = Len(engineQ) + 3
    BY <2>1, Lens DEF Grows
  <2>3. (Len(engineQ) + 1) + 1 = Len(engineQ) + 2 /\ (Len(engineQ) + 1) + 2 = Len(engineQ) + 3
    BY Lens
  <2>4. copy.op /= "wait"
    BY <1>2 DEF Copies
  <2>. QED  BY <1>4, <1>5, <1>6, <2>1, <2>2, <2>3, <2>4, Lens DEF Shape, Serial, Grows
<1>7. CASE overlap
  <2> DEFINE wait == [op |-> "wait", seen |-> schedAll + 1]
             n == Len(engineQ)
             m == Len(schedQ)
  <2>1. /\ Grows(n + 1, run, write) /\ engineQ'[n + 1] = wait
        /\ Len(schedQ') = m + 1 /\ schedAll' = schedAll + 1
        /\ DOMAIN schedQ' = 1 .. m + 1
        /\ \A c \in 1 .. m : schedQ'[c] = schedQ[c]
        /\ schedQ'[m + 1] = copy
    BY <1>2, <1>3, <1>7, EnqueuePrompt
  <2>2. wait.op = "wait" /\ wait.seen = schedAll + 1
    OBVIOUS
  <2> HIDE DEF wait
  <2>3. Appends({u}, wait, run, write)
    BY <1>1, <1>4, <1>5, <2>1, <2>2 DEF Appends
  <2>4. Order' /\ AllRead' /\ runsDone' = launched' - ((Len(engineQ') + 1) \div 3)
    BY <1>1, <1>3, <1>7, <2>3, AppendedShape
  <2>5. /\ n \in Nat /\ m \in Nat /\ DOMAIN engineQ = 1 .. n /\ DOMAIN schedQ = 1 .. m /\ schedAll \in Nat /\ schedDone \in Nat
        /\ schedAll = schedDone + m
    BY <1>7, Lens DEF Shape, Counts, PoolTypeOK
  <2> HIDE DEF n, m
  <2>6. Counts'
    BY <1>4, <2>1, <2>4, <2>5 DEF Counts
  <2>7. ASSUME NEW c \in 1 .. m PROVE CopyRead(c)'
    <3>1. \A i \in DOMAIN engineQ : i \in DOMAIN engineQ' /\ engineQ'[i] = engineQ[i]
      BY <2>1, <2>5 DEF Grows, n
    <3>. QED  BY <1>7, <2>1, <2>5, <2>7, <3>1, CopiesStay DEF Shape, AllCopied
  <2>8. ASSUME NEW c, c = m + 1 PROVE CopyRead(c)'
    <3>1. n + 2 \in DOMAIN engineQ' /\ n + 1 \in 1 .. (n + 2) - 1
      BY <2>1, <2>5 DEF Grows
    <3>2. engineQ'[n + 2] = run /\ engineQ'[n + 1] = wait
      <4>1. (n + 1) + 1 = n + 2
        BY <2>5
      <4>. QED  BY <2>1, <4>1 DEF Grows
    <3>3. wait.seen >= schedDone' + c
      BY <1>4, <2>2, <2>5, <2>8
    <3>4. \E x \in run.reads : x.uid = copy.uid /\ x.from < plen'[x.uid]
      <4>1. cached[u] \in Nat /\ plen[u] \in Nat
        BY <1>1
      <4>2. cached[u] < plen'[u]
        BY <1>1, <1>4, <4>1
      <4>3. PICK x \in run.reads : x.uid = u /\ x.from = cached[u]
        BY <1>5
      <4>4. x.uid = copy.uid
        BY <1>5, <4>3
      <4>5. x.from < plen'[x.uid]
        BY <4>2, <4>3
      <4>. QED  BY <4>4, <4>5
    <3>5. schedQ'[c] = copy
      BY <2>1, <2>8
    <3>. QED  BY <1>5, <2>2, <3>1, <3>2, <3>3, <3>4, <3>5 DEF CopyRead
  <2>9. AllCopied'
    <3>1. \A c \in 1 .. m + 1 : c \in 1 .. m \/ c = m + 1
      BY <2>5
    <3>. QED  BY <2>1, <2>7, <2>8, <3>1 DEF AllCopied
  <2>. QED  BY <1>4, <1>7, <2>4, <2>6, <2>9 DEF Shape, Serial
<1>. QED  BY <1>6, <1>7

LEMMA ShapeDecoded ==
  ASSUME TokenPoolAssumption, PoolTypeOK, HostInv, Shape, Serial, pc = "schedule", Fixed, Decoded
  PROVE  Shape' /\ Serial'
<1> DEFINE run == [op |-> "run", reads |-> ReadAll(running, cached, device)]
           write == [op |-> "write", writes |-> WriteAll(running, FALSE, device)]
<1>1. /\ cached \in [Uids -> Nat] /\ device \in [Uids -> Nat] /\ plen \in [Uids -> Nat]
      /\ running \in SUBSET Uids /\ row' \in [Uids -> Rows]
      /\ \A v \in running : plen[v] <= cached[v]
  BY DEF PoolTypeOK, Decoded, HostInv, Lengths
<1>2. run \in Runs /\ write \in Writes
  BY <1>1, WorkType
<1>3. Launched(running, FALSE, device) /\ Enqueue(<<>>, <<run, write>>)
  BY DEF Decoded
<1>4. overlap' = overlap /\ schedDone' = schedDone /\ plen' = plen
  BY DEF Fixed
<1>5. run.op = "run" /\ write.op = "write" /\ \A x \in run.reads : x.uid \in running /\ x.from = cached[x.uid]
  BY <1>1 DEF ReadAll
<1> HIDE DEF run, write
<1>6. CASE ~overlap
  <2>1. Grows(Len(engineQ), run, write) /\ schedQ' = schedQ
    BY <1>2, <1>3, <1>6, EnqueueDecode
  <2>2. \A i \in DOMAIN engineQ' : i \in DOMAIN engineQ \/ i = Len(engineQ) + 1 \/ i = Len(engineQ) + 2
    BY <2>1, Lens DEF Grows
  <2>. QED  BY <1>4, <1>5, <1>6, <2>1, <2>2, Lens DEF Shape, Serial, Grows
<1>7. CASE overlap
  <2> DEFINE wait == [op |-> "wait", seen |-> schedAll]
             n == Len(engineQ)
  <2>1. Grows(n + 1, run, write) /\ engineQ'[n + 1] = wait /\ schedQ' = schedQ /\ schedAll' = schedAll
    BY <1>2, <1>3, <1>7, EnqueueDecode
  <2>2. wait.op = "wait"
    OBVIOUS
  <2> HIDE DEF wait
  <2>3. Appends(running, wait, run, write)
    <3>1. \A x \in run.reads : x.uid \in running /\ ~(x.from < plen[x.uid])
      BY <1>1, <1>5
    <3>. QED  BY <1>5, <2>1, <2>2, <3>1 DEF Appends
  <2>4. Order' /\ AllRead' /\ runsDone' = launched' - ((Len(engineQ') + 1) \div 3)
    <3>1. FALSE \in BOOLEAN
      OBVIOUS
    <3>. QED  BY <1>1, <1>3, <1>7, <2>3, <3>1, AppendedShape
  <2>5. Counts'
    BY <1>4, <1>7, <2>1, <2>4 DEF Shape, Counts
  <2>6. \A i \in DOMAIN engineQ : i \in DOMAIN engineQ' /\ engineQ'[i] = engineQ[i]
    BY <2>1, Lens DEF Grows
  <2>7. AllCopied'
    BY <1>7, <2>1, <2>6, CopiesStay DEF Shape, AllCopied
  <2>. QED  BY <1>4, <1>7, <2>4, <2>5, <2>7 DEF Shape, Serial
<1>. QED  BY <1>6, <1>7

LEMMA ShapeSchedule ==
  ASSUME TokenPoolAssumption, PoolTypeOK, HostInv, Shape, Serial, Schedule PROVE Shape' /\ Serial'
<1>1. pc = "schedule" /\ Fixed
  BY ScheduleIs
<1>2. CASE Idles
  <2>1. UNCHANGED <<overlap, plen, cached, launched, schedQ, schedDone, schedAll, engineQ, runsDone, cur, last, finished>>
    BY <1>1, <1>2 DEF Fixed, Idles
  <2>2. ASSUME NEW i, NEW x PROVE ReadByCur(i, x) \/ ReadByLast(i, x) => ReadByCur(i, x)' \/ ReadByLast(i, x)'
    BY <2>1 DEF ReadByCur, ReadByLast, No
  <2>. QED  BY <2>1, <2>2, QuietShape DEF Serial
<1>. QED  BY <1>1, <1>2, ScheduleIs, ShapePrefilled, ShapeDecoded

-----------------------------------------------------------------------------
(* The rows and positions of the queued work.                               *)

LEMMA OpStays ==
  ASSUME PoolTypeOK, plen' = plen, waiting' \subseteq waiting, \A u \in Uids \ waiting : row'[u] = row[u],
         NEW o \in Ops, OpOK(o)
  PROVE  OpOK(o)'
<1>1. o.op = "copy" => o.uid \in Uids
  BY OpTypes
<1>2. o.op = "run" => \A x \in o.reads : x.uid \in Uids
  BY OpTypes DEF Reads
<1>3. o.op = "write" => \A w \in o.writes : w.uid \in Uids
  BY OpTypes DEF Puts
<1>4. o.op = "copy" => CopyOK(o)'
  BY <1>1 DEF OpOK, CopyOK
<1>5. o.op = "run" => RunOK(o)'
  BY <1>2 DEF OpOK, RunOK
<1>6. o.op = "write" => WriteOK(o)'
  BY <1>3 DEF OpOK, WriteOK
<1>. QED  BY <1>4, <1>5, <1>6 DEF OpOK

LEMMA OpsInit == ASSUME PoolInit PROVE OpsInv
<1>1. DOMAIN engineQ = {} /\ DOMAIN schedQ = {}
  BY DEF PoolInit
<1>. QED  BY <1>1 DEF OpsInv

\* A step that leaves the requests and takes from a queue, if anything
LEMMA OpsKept ==
  ASSUME PoolTypeOK, OpsInv, UNCHANGED <<plen, waiting, row>>,
         \A c \in DOMAIN schedQ' : \E d \in DOMAIN schedQ : schedQ'[c] = schedQ[d],
         \A i \in DOMAIN engineQ' : \E k \in DOMAIN engineQ : engineQ'[i] = engineQ[k]
  PROVE  OpsInv'
<1>1. \A o \in Ops : OpOK(o) => OpOK(o)'
  BY OpStays
<1>2. \A c \in DOMAIN schedQ : schedQ[c] \in Ops /\ OpOK(schedQ[c])
  BY Lens DEF OpsInv, Ops
<1>3. \A i \in DOMAIN engineQ : engineQ[i] \in Ops /\ OpOK(engineQ[i])
  BY Lens DEF OpsInv
<1>4. ASSUME NEW c \in DOMAIN schedQ' PROVE OpOK(schedQ[c])'
  <2> DEFINE o == schedQ'[c]
  <2>1. o \in Ops /\ OpOK(o)
    BY <1>2
  <2>2. \A p \in Ops : OpOK(p) => OpOK(p)'
    BY <1>1
  <2>. QED  BY <2>1, <2>2
<1>. QED  BY <1>1, <1>2, <1>3, <1>4 DEF OpsInv

LEMMA OpsStreams ==
  ASSUME PoolTypeOK, OpsInv, SchedStream \/ EngineStream PROVE OpsInv'
<1>1. UNCHANGED <<plen, waiting, row>>
  BY DEF SchedStream, EngineStream, host
<1>2. CASE SchedStream
  <2>1. schedQ /= <<>> /\ schedQ' = Tail(schedQ) /\ engineQ' = engineQ /\ schedQ \in Seq(Copies)
    BY <1>2 DEF SchedStream, PoolTypeOK
  <2>2. DOMAIN schedQ = 1 .. Len(schedQ) /\ DOMAIN schedQ' = 1 .. Len(schedQ) - 1 /\ Len(schedQ) \in Nat
        /\ \A c \in 1 .. Len(schedQ) - 1 : schedQ'[c] = schedQ[c + 1]
    BY <2>1, HeadOff
  <2>3. ASSUME NEW c \in DOMAIN schedQ' PROVE \E d \in DOMAIN schedQ : schedQ'[c] = schedQ[d]
    <3>1. c + 1 \in DOMAIN schedQ
      BY <2>2
    <3>. QED  BY <2>2, <3>1
  <2>. QED  BY <1>1, <2>1, <2>3, OpsKept
<1>3. CASE EngineStream
  <2>1. engineQ /= <<>> /\ engineQ' = Tail(engineQ) /\ schedQ' = schedQ /\ engineQ \in Seq(Ops)
    BY <1>3 DEF EngineStream, PoolTypeOK, Ops
  <2>2. DOMAIN engineQ = 1 .. Len(engineQ) /\ DOMAIN engineQ' = 1 .. Len(engineQ) - 1 /\ Len(engineQ) \in Nat
        /\ \A c \in 1 .. Len(engineQ) - 1 : engineQ'[c] = engineQ[c + 1]
    BY <2>1, HeadOff
  <2>3. ASSUME NEW c \in DOMAIN engineQ' PROVE \E d \in DOMAIN engineQ : engineQ'[c] = engineQ[d]
    <3>1. c + 1 \in DOMAIN engineQ
      BY <2>2
    <3>. QED  BY <2>2, <3>1
  <2>. QED  BY <1>1, <2>1, <2>3, OpsKept
<1>. QED  BY <1>2, <1>3

LEMMA OpsHost ==
  ASSUME PoolTypeOK, OpsInv, (Idles /\ Fixed) \/ PostStart \/ FreeRows \/ (\E u \in Uids : Abort(u)) PROVE OpsInv'
<1>1. UNCHANGED <<plen, waiting, row, schedQ, engineQ>>
  BY DEF Idles, Fixed, PostStart, FreeRows, Abort
<1>. QED  BY <1>1, OpsKept

\* What a batch reads and writes
PromptWork(u, to, part, copy, run, write) ==
  /\ copy = CopyOf(u, cached[u], to)
  /\ run = [op |-> "run", reads |-> ReadAll({u}, cached, [cached EXCEPT ![u] = to])]
  /\ write = [op |-> "write", writes |-> WriteAll({u}, part, [cached EXCEPT ![u] = to])]

LEMMA PromptOps ==
  ASSUME TokenPoolAssumption, PoolTypeOK, HostInv, Fixed,
         NEW u \in Uids, NEW to \in Nat, NEW part \in BOOLEAN, Takes(u, to, part), NEW copy, NEW run, NEW write,
         PromptWork(u, to, part, copy, run, write)
  PROVE  /\ copy \in Copies /\ run \in Runs /\ write \in Writes
         /\ OpOK(copy)' /\ OpOK(run)' /\ OpOK(write)'
         /\ \A x \in run.reads : x.uid = u /\ x.row = row'[u] /\ x.from = cached[u] /\ x.to = to
         /\ \A w \in write.writes : w.uid = u /\ w.row = row'[u] /\ w.at = to /\ w.pos = WriteAt(u, part, to)
         /\ write.writes /= {}
<1> DEFINE tos == [cached EXCEPT ![u] = to]
           read == [uid |-> u, row |-> row'[u], from |-> cached[u], to |-> tos[u]]
           put == [uid |-> u, row |-> row'[u], at |-> tos[u], pos |-> WriteAt(u, part, tos[u])]
<1>1. cached \in [Uids -> Nat] /\ plen \in [Uids -> Nat] /\ end \in [Uids -> Nat] /\ row' \in [Uids -> Rows]
  BY TakeRow DEF PoolTypeOK
<1>2. /\ tos \in [Uids -> Nat] /\ tos[u] = to /\ to <= plen[u] /\ cached[u] < to /\ row'[u] \in Rows
      /\ (~part => to >= plen[u]) /\ cached[u] \in Nat /\ plen[u] \in Nat /\ end[u] \in Nat
  BY <1>1 DEF Takes
<1>3. copy \in Copies /\ run \in Runs /\ write \in Writes
  <2>1. copy \in Copies
    BY <1>2 DEF PromptWork, CopyOf, Copies
  <2>. QED  BY <1>1, <1>2, <2>1, WorkType DEF PromptWork
<1>4. u \notin waiting' /\ plen' = plen
  BY DEF Takes, Fixed
<1>5. plen[u] < end[u] /\ end[u] <= RowWidth /\ RowWidth \in Nat
  BY DEF HostInv, Lengths, TokenPoolAssumption
<1>6. run.reads = {read} /\ write.writes = {put}
  BY DEF PromptWork, ReadAll, WriteAll
<1>7. read.uid = u /\ read.row = row'[u] /\ read.from = cached[u] /\ read.to = to
  BY <1>2
<1>8. put.uid = u /\ put.row = row'[u] /\ put.at = to /\ put.pos = WriteAt(u, part, to)
  BY <1>2
<1> HIDE DEF tos, read, put
<1>9. copy.op = "copy" /\ run.op = "run" /\ write.op = "write" /\ copy.row = row'[u] /\ copy.to = to /\ copy.uid = u
  BY DEF PromptWork, CopyOf
<1>10. CopyOK(copy)'
  BY <1>2, <1>4, <1>9 DEF CopyOK
<1>11. RunOK(run)'
  <2>1. to < RowWidth
    BY <1>2, <1>5
  <2>. QED  BY <1>4, <1>6, <1>7, <2>1 DEF RunOK
<1>12. WriteOK(write)'
  <2>1. put.pos = RowWidth - 1 \/ (put.pos = put.at /\ put.at >= plen'[u])
    BY <1>2, <1>4, <1>8 DEF WriteAt
  <2>. QED  BY <1>4, <1>6, <1>8, <2>1 DEF WriteOK
<1>13. OpOK(copy)' /\ OpOK(run)' /\ OpOK(write)'
  BY <1>9, <1>10, <1>11, <1>12 DEF OpOK
<1>. QED  BY <1>3, <1>6, <1>7, <1>8, <1>13

LEMMA DecodeOps ==
  ASSUME TokenPoolAssumption, PoolTypeOK, HostInv, RowInv, Fixed, Decoded, NEW run, NEW write,
         run = [op |-> "run", reads |-> ReadAll(running, cached, device)],
         write = [op |-> "write", writes |-> WriteAll(running, FALSE, device)]
  PROVE  /\ run \in Runs /\ write \in Writes /\ OpOK(run)' /\ OpOK(write)'
         /\ \A x \in run.reads : x.uid \in running /\ x.row = row[x.uid] /\ x.from = cached[x.uid] /\ x.to = cached[x.uid] + 1
         /\ \A w \in write.writes : w.uid \in running /\ w.row = row[w.uid] /\ w.at = device[w.uid] /\ w.pos = w.at
         /\ \A u \in running : \E w \in write.writes : w.uid = u
<1>1. /\ running \in SUBSET Uids /\ row' = row /\ row \in [Uids -> Rows] /\ waiting' = waiting /\ plen' = plen
      /\ cached \in [Uids -> Nat] /\ device \in [Uids -> Nat] /\ plen \in [Uids -> Nat] /\ end \in [Uids -> Nat]
  BY DEF PoolTypeOK, Decoded, Fixed
<1>2. run \in Runs /\ write \in Writes
  <2>1. FALSE \in BOOLEAN /\ row' \in [Uids -> Rows]
    BY <1>1
  <2>. QED  BY <1>1, <2>1, WorkType
<1>3. \A u \in running : plen[u] <= cached[u] /\ device[u] = cached[u] + 1 /\ device[u] < end[u] /\ end[u] <= RowWidth
  BY <1>1 DEF HostInv, Lengths
<1>4. \A x \in run.reads : x.uid \in running /\ x.row = row[x.uid] /\ x.from = cached[x.uid] /\ x.to = cached[x.uid] + 1
  BY <1>1, <1>3 DEF ReadAll
<1>5. \A w \in write.writes : w.uid \in running /\ w.row = row[w.uid] /\ w.at = device[w.uid] /\ w.pos = w.at
  BY <1>1 DEF WriteAll, WriteAt
<1>6. \A u \in running : \E w \in write.writes : w.uid = u
  <2>1. SUFFICES ASSUME NEW u \in running PROVE \E w \in write.writes : w.uid = u
    OBVIOUS
  <2> DEFINE w == [uid |-> u, row |-> row'[u], at |-> device[u], pos |-> WriteAt(u, FALSE, device[u])]
  <2>2. w \in write.writes /\ w.uid = u
    BY <2>1 DEF WriteAll
  <2>. QED  BY <2>2
<1>7. \A v, w \in write.writes : v.row = w.row => v = w
  <2>1. SUFFICES ASSUME NEW v \in write.writes, NEW w \in write.writes, v.row = w.row PROVE v = w
    OBVIOUS
  <2>2. v.uid \in Owners /\ w.uid \in Owners /\ row[v.uid] = row[w.uid]
    BY <1>5, <2>1 DEF Owners
  <2>3. v.uid = w.uid
    BY <2>2 DEF RowInv
  <2> DEFINE put(u) == [uid |-> u, row |-> row'[u], at |-> device[u], pos |-> WriteAt(u, FALSE, device[u])]
  <2>4. \A p \in write.writes : \E u \in running : p = put(u)
    BY DEF WriteAll
  <2>5. \A u : put(u).uid = u
    OBVIOUS
  <2> HIDE DEF put
  <2>6. v = put(v.uid) /\ w = put(w.uid)
    BY <2>1, <2>4, <2>5
  <2>. QED  BY <2>3, <2>6
<1>8. \A u \in running : u \notin waiting /\ cached[u] + 1 < RowWidth /\ device[u] >= plen[u]
  <2>1. SUFFICES ASSUME NEW u \in running PROVE u \notin waiting /\ cached[u] + 1 < RowWidth /\ device[u] >= plen[u]
    OBVIOUS
  <2>2. u \notin waiting
    BY <2>1 DEF HostInv, Apart
  <2>3. cached[u] \in Nat /\ plen[u] \in Nat /\ end[u] \in Nat /\ device[u] \in Nat /\ RowWidth \in Nat
    BY <1>1, <2>1 DEF TokenPoolAssumption
  <2>. QED  BY <1>3, <2>1, <2>2, <2>3
<1>9. RunOK(run)'
  BY <1>1, <1>4, <1>8 DEF RunOK
<1>10. WriteOK(write)'
  BY <1>1, <1>5, <1>7, <1>8 DEF WriteOK
<1>11. OpOK(run)' /\ OpOK(write)'
  BY <1>9, <1>10 DEF OpOK
<1>. QED  BY <1>2, <1>4, <1>5, <1>6, <1>11

LEMMA OpsGrow ==
  ASSUME PoolTypeOK, OpsInv, plen' = plen, waiting' \subseteq waiting, \A u \in Uids \ waiting : row'[u] = row[u],
         \A c \in DOMAIN schedQ' : (c \in DOMAIN schedQ /\ schedQ'[c] = schedQ[c]) \/ \E o : o = schedQ'[c] /\ OpOK(o)',
         \A i \in DOMAIN engineQ' : (i \in DOMAIN engineQ /\ engineQ'[i] = engineQ[i]) \/ \E o : o = engineQ'[i] /\ OpOK(o)'
  PROVE  OpsInv'
<1>1. \A o \in Ops : OpOK(o) => OpOK(o)'
  BY OpStays
<1>2. \A c \in DOMAIN schedQ : schedQ[c] \in Ops /\ OpOK(schedQ[c])
  BY Lens DEF OpsInv, Ops
<1>3. \A i \in DOMAIN engineQ : engineQ[i] \in Ops /\ OpOK(engineQ[i])
  BY Lens DEF OpsInv
<1>4. \A c \in DOMAIN schedQ' : \E o : o = schedQ'[c] /\ OpOK(o)'
  BY <1>1, <1>2
<1>5. \A i \in DOMAIN engineQ' : \E o : o = engineQ'[i] /\ OpOK(o)'
  BY <1>1, <1>3
<1>. QED  BY <1>4, <1>5 DEF OpsInv

LEMMA OpsSchedule ==
  ASSUME TokenPoolAssumption, PoolTypeOK, HostInv, RowInv, OpsInv, Schedule PROVE OpsInv'
<1>1. Fixed /\ PoolTypeOK
  BY ScheduleIs
<1>2. ASSUME NEW u \in Uids, NEW to \in Nat, NEW part \in BOOLEAN, Prefilled(u, to, part) PROVE OpsInv'
  <2>1. PICK copy : copy = CopyOf(u, cached[u], to)
    OBVIOUS
  <2>2. PICK run : run = [op |-> "run", reads |-> ReadAll({u}, cached, [cached EXCEPT ![u] = to])]
    OBVIOUS
  <2>3. PICK write : write = [op |-> "write", writes |-> WriteAll({u}, part, [cached EXCEPT ![u] = to])]
    OBVIOUS
  <2>4. Takes(u, to, part) /\ Enqueue(<<copy>>, <<run, write>>) /\ PromptWork(u, to, part, copy, run, write)
    BY <1>2, <2>1, <2>2, <2>3 DEF Prefilled, PromptWork
  <2>5. /\ copy \in Copies /\ run \in Runs /\ write \in Writes
        /\ OpOK(copy)' /\ OpOK(run)' /\ OpOK(write)'
    BY <1>1, <2>4, PromptOps
  <2>6. plen' = plen /\ waiting' \subseteq waiting
    BY <1>1, <2>4 DEF Takes, Fixed
  <2>7. \A v \in Uids \ waiting : row'[v] = row[v]
    BY <2>4 DEF Takes, PoolTypeOK
  <2>8. /\ Grows(Len(engineQ) + 1, run, write)
        /\ overlap => /\ engineQ'[Len(engineQ) + 1] = [op |-> "wait", seen |-> schedAll + 1]
                      /\ DOMAIN schedQ' = 1 .. Len(schedQ) + 1
                      /\ \A c \in 1 .. Len(schedQ) : schedQ'[c] = schedQ[c]
                      /\ schedQ'[Len(schedQ) + 1] = copy
        /\ ~overlap => engineQ'[Len(engineQ) + 1] = copy /\ schedQ' = schedQ
    BY <2>4, <2>5, EnqueuePrompt
  <2>9. \E o : o = engineQ'[Len(engineQ) + 1] /\ OpOK(o)'
    <3>1. PICK wait : wait = [op |-> "wait", seen |-> schedAll + 1]
      OBVIOUS
    <3>2. OpOK(wait)'
      BY <3>1 DEF OpOK
    <3>. QED  BY <2>5, <2>8, <3>1, <3>2
  <2>10. ASSUME NEW i \in DOMAIN engineQ'
         PROVE  (i \in DOMAIN engineQ /\ engineQ'[i] = engineQ[i]) \/ \E o : o = engineQ'[i] /\ OpOK(o)'
    <3>1. Len(engineQ) \in Nat /\ DOMAIN engineQ = 1 .. Len(engineQ) /\ i \in 1 .. (Len(engineQ) + 1) + 2
      BY <2>8, Lens DEF Grows
    <3>2. i \in 1 .. Len(engineQ) \/ i = Len(engineQ) + 1 \/ i = (Len(engineQ) + 1) + 1 \/ i = (Len(engineQ) + 1) + 2
      BY <3>1
    <3>. QED  BY <2>5, <2>8, <2>9, <3>1, <3>2 DEF Grows
  <2>11. ASSUME NEW c \in DOMAIN schedQ'
         PROVE  (c \in DOMAIN schedQ /\ schedQ'[c] = schedQ[c]) \/ \E o : o = schedQ'[c] /\ OpOK(o)'
    <3>1. Len(schedQ) \in Nat /\ DOMAIN schedQ = 1 .. Len(schedQ)
      BY Lens
    <3>2. overlap => (c \in 1 .. Len(schedQ) \/ c = Len(schedQ) + 1)
      BY <2>8, <3>1
    <3>. QED  BY <2>5, <2>8, <3>1, <3>2
  <2>. QED  BY <2>6, <2>7, <2>10, <2>11, OpsGrow
<1>3. CASE Decoded
  <2>1. PICK run : run = [op |-> "run", reads |-> ReadAll(running, cached, device)]
    OBVIOUS
  <2>2. PICK write : write = [op |-> "write", writes |-> WriteAll(running, FALSE, device)]
    OBVIOUS
  <2>3. Enqueue(<<>>, <<run, write>>) /\ run \in Runs /\ write \in Writes /\ OpOK(run)' /\ OpOK(write)'
    BY <1>1, <1>3, <2>1, <2>2, DecodeOps DEF Decoded
  <2>4. plen' = plen /\ waiting' = waiting /\ row' = row
    BY <1>1, <1>3 DEF Decoded, Fixed
  <2>5. schedQ' = schedQ
    BY <2>3, EnqueueDecode
  <2>6. ASSUME NEW i \in DOMAIN engineQ'
        PROVE  (i \in DOMAIN engineQ /\ engineQ'[i] = engineQ[i]) \/ \E o : o = engineQ'[i] /\ OpOK(o)'
    <3>1. Len(engineQ) \in Nat /\ DOMAIN engineQ = 1 .. Len(engineQ)
      BY Lens
    <3>2. CASE overlap
      <4>1. Grows(Len(engineQ) + 1, run, write) /\ engineQ'[Len(engineQ) + 1] = [op |-> "wait", seen |-> schedAll]
        BY <2>3, <3>2, EnqueueDecode
      <4>2. PICK wait : wait = [op |-> "wait", seen |-> schedAll]
        OBVIOUS
      <4>3. OpOK(wait)'
        BY <4>2 DEF OpOK
      <4>4. i \in 1 .. Len(engineQ) \/ i = Len(engineQ) + 1 \/ i = (Len(engineQ) + 1) + 1 \/ i = (Len(engineQ) + 1) + 2
        BY <2>6, <3>1, <4>1 DEF Grows
      <4>. QED  BY <2>3, <3>1, <4>1, <4>2, <4>3, <4>4 DEF Grows
    <3>3. CASE ~overlap
      <4>1. Grows(Len(engineQ), run, write)
        BY <2>3, <3>3, EnqueueDecode
      <4>2. i \in 1 .. Len(engineQ) \/ i = Len(engineQ) + 1 \/ i = Len(engineQ) + 2
        BY <2>6, <3>1, <4>1 DEF Grows
      <4>. QED  BY <2>3, <3>1, <4>1, <4>2 DEF Grows
    <3>. QED  BY <3>2, <3>3
  <2>. QED  BY <2>4, <2>5, <2>6, OpsGrow
<1>. QED  BY <1>1, <1>2, <1>3, ScheduleIs, OpsHost

-----------------------------------------------------------------------------
(* What the batches that are queued will read.                              *)

LEMMA DidPool ==
  ASSUME PoolTypeOK, NEW o \in Ops, o.op /= "wait", Did(o), NEW r \in Rows, NEW j \in 0 .. RowWidth - 1
  PROVE  /\ ~Touches(o, r, j) => pool'[r][j] = pool[r][j]
         /\ \A t : Leaves(o, r, j, t) => pool'[r][j] = t
<1>1. DOMAIN pool = Rows
  BY DEF PoolTypeOK
<1>2. CASE o.op = "copy"
  <2>1. pool' = [pool EXCEPT ![o.row] = [i \in 0 .. RowWidth - 1 |->
                   IF i \in o.from .. o.to - 1 THEN Token(o.uid, i) ELSE @[i]]]
    BY <1>2 DEF Did
  <2>2. pool'[r][j] = IF Covers(o, r, j) THEN Token(o.uid, j) ELSE pool[r][j]
    BY <1>1, <2>1 DEF Covers
  <2>. QED  BY <1>2, <2>2 DEF Touches, Leaves
<1>3. CASE o.op = "run"
  BY <1>3 DEF Did, Touches, Leaves
<1>4. CASE o.op = "write"
  <2>1. pool' = [s \in Rows |-> [i \in 0 .. RowWidth - 1 |->
                   IF \E w \in o.writes : w.row = s /\ w.pos = i
                   THEN LET w == CHOOSE w \in o.writes : w.row = s /\ w.pos = i IN Token(w.uid, w.at)
                   ELSE pool[s][i]]]
    BY <1>4 DEF Did
  <2> DEFINE w == CHOOSE w \in o.writes : w.row = r /\ w.pos = j
  <2>2. pool'[r][j] = IF \E v \in o.writes : v.row = r /\ v.pos = j THEN Token(w.uid, w.at) ELSE pool[r][j]
    BY <2>1
  <2>3. (\E v \in o.writes : v.row = r /\ v.pos = j) => w \in o.writes /\ w.row = r /\ w.pos = j
    OBVIOUS
  <2> HIDE DEF w
  <2>. QED  BY <1>4, <2>2, <2>3 DEF Touches, Leaves
<1>. QED  BY <1>2, <1>3, <1>4, OpTypes

\* The engine's stream takes one operation off.
LEMMA WillPop ==
  ASSUME PoolTypeOK, EngineStream, NEW r \in Rows, NEW j \in 0 .. RowWidth - 1, NEW t,
         NEW i \in 1 .. Len(engineQ), Will(i + 1, r, j, t)
  PROVE  Will(i, r, j, t)'
<1> DEFINE n == Len(engineQ)
           h == engineQ[1]
<1>1. /\ n \in Nat \ {0} /\ h \in Ops /\ engineQ /= <<>> /\ Head(engineQ) = h
      /\ \A k \in 1 .. n - 1 : engineQ'[k] = engineQ[k + 1]
  BY HeadOff DEF EngineStream, PoolTypeOK, Ops
<1>2. i \in 1 .. n /\ (i + 1) - 1 = i
  BY <1>1
<1>3. /\ ~Touches(h, r, j) => pool'[r][j] = pool[r][j]
      /\ Leaves(h, r, j, t) => pool'[r][j] = t
  <2>1. CASE h.op = "wait"
    BY <1>1, <2>1 DEF EngineStream, Touches, Leaves
  <2>2. CASE h.op /= "wait"
    BY <1>1, <2>2, DidPool DEF EngineStream
  <2>. QED  BY <2>1, <2>2
<1> HIDE DEF n, h
<1>4. ASSUME NEW a \in Nat \ {0}, Untouched(a + 1, i, r, j) PROVE Untouched(a, i - 1, r, j)'
  <2>1. ASSUME NEW l \in a .. i - 1 PROVE ~Touches(engineQ'[l], r, j)
    <3>1. l \in 1 .. n - 1 /\ l + 1 \in a + 1 .. i
      BY <1>1, <1>2, <1>4
    <3>2. ~Touches(engineQ[l + 1], r, j)
      BY <1>4, <3>1 DEF Untouched
    <3>. QED  BY <1>1, <3>1, <3>2
  <2>. QED  BY <2>1 DEF Untouched
<1>5. CASE \E k \in 1 .. i : Leaves(engineQ[k], r, j, t) /\ Untouched(k + 1, i, r, j)
  <2>1. PICK k \in 1 .. i : Leaves(engineQ[k], r, j, t) /\ Untouched(k + 1, i, r, j)
    BY <1>5
  <2>2. k \in Nat \ {0} /\ Untouched(k, i - 1, r, j)'
    BY <1>4, <2>1
  <2>3. CASE k = 1
    BY <1>3, <2>1, <2>2, <2>3 DEF Will, h
  <2>4. CASE k /= 1
    <3>1. k - 1 \in 1 .. i - 1 /\ k - 1 \in 1 .. n - 1 /\ (k - 1) + 1 = k
      BY <1>1, <1>2, <2>4
    <3>2. engineQ'[k - 1] = engineQ[k]
      BY <1>1, <3>1
    <3>. QED  BY <2>1, <2>2, <3>1, <3>2 DEF Will
  <2>. QED  BY <2>3, <2>4
<1>6. CASE pool[r][j] = t /\ Untouched(1, i, r, j)
  <2>1. ~Touches(h, r, j)
    BY <1>2, <1>6 DEF Untouched, h
  <2>2. Untouched(1 + 1, i, r, j)
    BY <1>6 DEF Untouched
  <2>3. Untouched(1, i - 1, r, j)'
    BY <1>4, <2>2
  <2>. QED  BY <1>3, <1>6, <2>1, <2>3 DEF Will
<1>. QED  BY <1>2, <1>5, <1>6 DEF Will

\* What is added after the first p - 1 operations leaves alone what they leave.
LEMMA WillLater ==
  ASSUME NEW r, NEW j, NEW t, NEW p \in Nat \ {0}, NEW i \in Nat \ {0}, p <= i, Will(p, r, j, t),
         pool'[r][j] = pool[r][j], \A k \in 1 .. p - 1 : engineQ'[k] = engineQ[k],
         \A k \in p .. i - 1 : ~Touches(engineQ'[k], r, j)
  PROVE  Will(i, r, j, t)'
<1>1. ASSUME NEW a \in Nat, Untouched(a, p - 1, r, j), a >= 1 PROVE Untouched(a, i - 1, r, j)'
  <2>1. ASSUME NEW l \in a .. i - 1 PROVE ~Touches(engineQ'[l], r, j)
    <3>1. l \in p .. i - 1 \/ l \in a .. p - 1
      BY <1>1
    <3>2. l \in a .. p - 1 => l \in 1 .. p - 1
      BY <1>1
    <3>3. l \in a .. p - 1 => ~Touches(engineQ[l], r, j) /\ engineQ'[l] = engineQ[l]
      BY <1>1, <3>2 DEF Untouched
    <3>. QED  BY <3>1, <3>3
  <2>. QED  BY <2>1 DEF Untouched
<1>2. CASE \E k \in 1 .. p - 1 : Leaves(engineQ[k], r, j, t) /\ Untouched(k + 1, p - 1, r, j)
  <2>1. PICK k \in 1 .. p - 1 : Leaves(engineQ[k], r, j, t) /\ Untouched(k + 1, p - 1, r, j)
    BY <1>2
  <2>2. k + 1 \in Nat /\ k + 1 >= 1 /\ k \in 1 .. i - 1
    BY <2>1
  <2>3. Untouched(k + 1, i - 1, r, j)'
    BY <1>1, <2>1, <2>2
  <2>. QED  BY <2>1, <2>2, <2>3 DEF Will
<1>3. CASE pool[r][j] = t /\ Untouched(1, p - 1, r, j)
  BY <1>1, <1>3 DEF Will
<1>. QED  BY <1>2, <1>3 DEF Will

\* The scheduler's stream changes what will be read, if at all, to its token.
LEMMA WillSched ==
  ASSUME PoolTypeOK, SchedStream, NEW r \in Rows, NEW j \in 0 .. RowWidth - 1, NEW t, NEW i, Will(i, r, j, t)
  PROVE  \/ Will(i, r, j, t)'
         \/ Covers(schedQ[1], r, j) /\ \E s : s = Token(schedQ[1].uid, j) /\ Will(i, r, j, s)'
<1> DEFINE o == schedQ[1]
<1>1. schedQ /= <<>> /\ schedQ \in Seq(Copies) /\ engineQ' = engineQ
  BY DEF SchedStream, PoolTypeOK
<1>2. Head(schedQ) = o /\ o \in Copies
  BY <1>1, HeadOff
<1>3. o \in Ops /\ o.op = "copy" /\ Did(o)
  BY <1>2 DEF SchedStream, Ops, Copies
<1>4. /\ ~Touches(o, r, j) => pool'[r][j] = pool[r][j]
      /\ \A s : Leaves(o, r, j, s) => pool'[r][j] = s
  BY <1>3, DidPool
<1> HIDE DEF o
<1>5. CASE \E k \in 1 .. i - 1 : Leaves(engineQ[k], r, j, t) /\ Untouched(k + 1, i - 1, r, j)
  BY <1>1, <1>5 DEF Will, Untouched
<1>6. CASE pool[r][j] = t /\ Untouched(1, i - 1, r, j)
  <2>1. CASE ~Touches(o, r, j)
    BY <1>1, <1>4, <1>6, <2>1 DEF Will, Untouched
  <2>2. CASE Touches(o, r, j)
    <3>1. PICK s : s = Token(o.uid, j)
      OBVIOUS
    <3>2. Covers(o, r, j) /\ Leaves(o, r, j, s)
      BY <1>3, <2>2, <3>1 DEF Touches, Leaves
    <3>3. Will(i, r, j, s)'
      BY <1>1, <1>4, <1>6, <3>2 DEF Will, Untouched
    <3>. QED  BY <3>1, <3>2, <3>3 DEF o
  <2>. QED  BY <2>1, <2>2
<1>. QED  BY <1>5, <1>6 DEF Will

\* In overlap_loop the engine's stream writes in a row, but for its last
\* column, only what a request has sampled.
LEMMA LastWrite ==
  ASSUME TokenPoolAssumption, PoolTypeOK, OpsInv, Order, NEW r \in Rows, NEW j \in Nat, j < RowWidth - 1,
         NEW i \in 1 .. Len(engineQ), ~Untouched(1, i - 1, r, j)
  PROVE  \E v \in Uids : /\ j >= plen[v]
                         /\ \E l \in 1 .. i - 1 : Leaves(engineQ[l], r, j, Token(v, j)) /\ Untouched(l + 1, i - 1, r, j)
<1> DEFINE D == {d \in 0 .. i - 2 : Touches(engineQ[i - 1 - d], r, j)}
<1>1. Len(engineQ) \in Nat /\ DOMAIN engineQ = 1 .. Len(engineQ)
  BY Lens
<1>2. PICK k \in 1 .. i - 1 : Touches(engineQ[k], r, j)
  BY DEF Untouched
<1>3. i - 1 - k \in D
  <2>1. i - 1 - k \in 0 .. i - 2 /\ i - 1 - (i - 1 - k) = k
    BY <1>1, <1>2
  <2>. QED  BY <1>2, <2>1
<1>4. PICK d \in D : \A e \in D : ~(e < d)
  <2>1. D \in SUBSET Nat
    <3>1. 0 .. i - 2 \subseteq Nat
      BY <1>1
    <3>. QED  BY <3>1
  <2>2. D /= {}
    BY <1>3
  <2> HIDE DEF D
  <2>. QED  BY <2>1, <2>2, LeastNat
<1> DEFINE l == i - 1 - d
<1>5. d \in 0 .. i - 2 /\ Touches(engineQ[l], r, j)
  BY <1>4
<1>6. l \in 1 .. i - 1 /\ l \in DOMAIN engineQ
  BY <1>1, <1>5
<1>7. Untouched(l + 1, i - 1, r, j)
  <2>1. ASSUME NEW m \in l + 1 .. i - 1, Touches(engineQ[m], r, j) PROVE FALSE
    <3>1. i - 1 - m \in 0 .. i - 2 /\ i - 1 - (i - 1 - m) = m /\ i - 1 - m < d
      BY <1>1, <1>5, <2>1
    <3>2. i - 1 - m \in D
      BY <2>1, <3>1
    <3>. QED  BY <1>4, <3>1, <3>2
  <2>. QED  BY <2>1 DEF Untouched
<1> DEFINE o == engineQ[l]
<1>8. o \in Ops /\ OpOK(o) /\ Touches(o, r, j) /\ o.op /= "copy"
  <2>1. o.op \in {"write", "run", "wait"}
    <3>1. Place(l) \in 0 .. 2
      BY <1>1, <1>6 DEF Place
    <3>. QED  BY <1>6, <3>1 DEF Order
  <2>. QED  BY <1>5, <1>6, <2>1, Lens DEF OpsInv
<1> HIDE DEF o, l, D
<1>9. o.op = "write" /\ o.writes \subseteq Puts
  BY <1>8, OpTypes DEF Touches
<1>10. PICK w \in o.writes : w.row = r /\ w.pos = j
  BY <1>8 DEF Touches
<1>11. w.uid \in Uids /\ w.at = j /\ w.at >= plen[w.uid]
  <2>1. (w.pos = RowWidth - 1 \/ (w.pos = w.at /\ w.at >= plen[w.uid]))
    BY <1>8, <1>9, <1>10 DEF OpOK, WriteOK
  <2>. QED  BY <1>9, <1>10, <2>1 DEF Puts, TokenPoolAssumption
<1>12. Leaves(o, r, j, Token(w.uid, j))
  <2>1. \A v \in o.writes : v.row = r => v = w
    BY <1>8, <1>9, <1>10 DEF OpOK, WriteOK
  <2>. QED  BY <1>8, <1>9, <1>11, <2>1 DEF Leaves
<1>. QED  BY <1>6, <1>7, <1>11, <1>12 DEF o

\* A prompt still to be read is held, and a copy still to be done is of one.
LEMMA PromptHeld ==
  ASSUME Shape, overlap, NEW i \in DOMAIN engineQ, engineQ[i].op = "run", NEW x \in engineQ[i].reads,
         x.from < plen[x.uid]
  PROVE  x.uid \in Owners
BY DEF Shape, AllRead, ReadByCur, ReadByLast, Owners

LEMMA CopyHeld ==
  ASSUME Shape, overlap, NEW c \in DOMAIN schedQ PROVE schedQ[c].uid \in Owners
<1>1. CopyRead(c)
  BY DEF Shape, AllCopied
<1>2. PICK i \in DOMAIN engineQ : engineQ[i].op = "run" /\ \E x \in engineQ[i].reads : x.uid = schedQ[c].uid /\ x.from < plen[x.uid]
  BY <1>1 DEF CopyRead
<1>. QED  BY <1>2, PromptHeld

LEMMA SoundInit == ASSUME PoolInit PROVE SoundInv
<1>1. DOMAIN engineQ = {} /\ running = {}
  BY DEF PoolInit
<1>. QED  BY <1>1 DEF SoundInv, ReadsSound

\* Requests never come back.
LEMMA LiveShrinks ==
  ASSUME TokenPoolAssumption, PoolTypeOK, HostInv, PoolNext PROVE Live' \subseteq Live /\ plen' = plen /\ overlap' = overlap
<1>1. ASSUME SchedStream \/ EngineStream PROVE Live' \subseteq Live /\ plen' = plen /\ overlap' = overlap
  BY <1>1 DEF SchedStream, EngineStream, host, Live
<1>2. ASSUME Schedule PROVE Live' \subseteq Live /\ plen' = plen /\ overlap' = overlap
  <2>1. Fixed
    BY <1>2, ScheduleIs
  <2>2. ASSUME NEW u \in Uids, NEW to \in Nat, NEW part \in BOOLEAN, Prefilled(u, to, part) PROVE Live' \subseteq Live
    BY <2>2 DEF Prefilled, Takes, Live
  <2>3. Decoded \/ Idles => Live' \subseteq Live
    BY DEF Decoded, Idles, Live
  <2>. QED  BY <1>2, <2>1, <2>2, <2>3, ScheduleIs DEF Fixed
<1>3. ASSUME PostStart \/ FreeRows PROVE Live' \subseteq Live /\ plen' = plen /\ overlap' = overlap
  BY <1>3 DEF PostStart, FreeRows, Live
<1>4. ASSUME NEW u \in Uids, Abort(u) PROVE Live' \subseteq Live /\ plen' = plen /\ overlap' = overlap
  BY <1>4 DEF Abort, Live
<1>. QED  BY <1>1, <1>2, <1>3, <1>4 DEF PoolNext

\* What a queued run reads is in a row.
LEMMA ReadTypes ==
  ASSUME TokenPoolAssumption, PoolTypeOK, OpsInv, NEW i \in DOMAIN engineQ, engineQ[i].op = "run",
         NEW x \in engineQ[i].reads, NEW j \in x.from .. x.to - 1
  PROVE  /\ x.uid \in Uids /\ x.row = row[x.uid] /\ x.row \in Rows /\ x.uid \notin waiting
         /\ x.from \in Nat /\ j \in Nat /\ j < RowWidth - 1 /\ j \in 0 .. RowWidth - 1 /\ x.from <= j
         /\ plen[x.uid] \in Nat
<1>1. engineQ[i] \in Ops /\ OpOK(engineQ[i])
  BY Lens DEF OpsInv
<1>2. x \in Reads
  BY <1>1, OpTypes
<1>3. x.uid \in Uids /\ x.row \in Rows /\ x.from \in Nat /\ x.to \in Nat
  BY <1>2 DEF Reads
<1>4. x.row = row[x.uid] /\ x.uid \notin waiting /\ x.to < RowWidth
  BY <1>1 DEF OpOK, RunOK
<1>5. RowWidth \in Nat /\ plen[x.uid] \in Nat
  BY <1>3 DEF TokenPoolAssumption, PoolTypeOK
<1>6. j \in Nat /\ j < RowWidth - 1 /\ j \in 0 .. RowWidth - 1 /\ x.from <= j
  BY <1>3, <1>4, <1>5
<1>. QED  BY <1>3, <1>4, <1>5, <1>6

\* The last token of a request that goes on is in its row.
LEMMA RunningTypes ==
  ASSUME TokenPoolAssumption, PoolTypeOK, HostInv, NEW u \in running
  PROVE  u \in Uids /\ row[u] \in Rows /\ cached[u] \in 0 .. RowWidth - 1 /\ plen[u] <= cached[u] /\ plen[u] \in Nat
<1>1. u \in Uids /\ row[u] \in Rows /\ plen[u] \in Nat /\ end[u] \in Nat /\ cached[u] \in Nat /\ RowWidth \in Nat
  BY DEF PoolTypeOK, TokenPoolAssumption
<1>2. plen[u] <= cached[u] /\ device[u] = cached[u] + 1 /\ device[u] < end[u] /\ end[u] <= RowWidth
  BY <1>1 DEF HostInv, Lengths
<1>. QED  BY <1>1, <1>2

\* Whatever a step keeps of what is in the pool, it keeps of the reads.
LEMMA SoundKept ==
  ASSUME NEW i, NEW k, NEW x, NEW j, Live' \subseteq Live, plen' = plen, overlap' = overlap,
         \A t : Will(i, x.row, j, t) => Will(k, x.row, j, t)',
         overlap /\ Awaits(i, x.row, j, x.uid) => Awaits(k, x.row, j, x.uid)', Sound(i, x, j)
  PROVE  Sound(k, x, j)'
<1>1. CASE Intended(i, x, j)
  <2>1. \A t : t = Token(x.uid, j) => Will(k, x.row, j, t)'
    BY <1>1 DEF Intended
  <2>. QED  BY <2>1 DEF Sound, Intended
<1>2. CASE Copying(i, x, j)
  BY <1>2 DEF Sound, Copying
<1>3. CASE ExtraToken(i, x, j)
  <2>1. PICK v \in Uids : v /= x.uid /\ j < plen[v] /\ Will(i, x.row, j, Token(v, j))
    BY <1>3 DEF ExtraToken
  <2>2. \A t : t = Token(v, j) => Will(k, x.row, j, t)'
    BY <2>1
  <2>3. overlap' /\ j >= plen'[x.uid] /\ x.uid \notin Live' /\ j < plen'[v]
    BY <1>3, <2>1 DEF ExtraToken
  <2>. QED  BY <2>1, <2>2, <2>3 DEF Sound, ExtraToken
<1>4. CASE LateWrite(i, x, j)
  <2>1. PICK v \in Uids : v /= x.uid /\ j >= plen[v] /\ Will(i, x.row, j, Token(v, j))
    BY <1>4 DEF LateWrite
  <2>2. \A t : t = Token(v, j) => Will(k, x.row, j, t)'
    BY <2>1
  <2>3. overlap' /\ j < plen'[x.uid] /\ j >= plen'[v]
    BY <1>4, <2>1 DEF LateWrite
  <2>. QED  BY <2>1, <2>2, <2>3 DEF Sound, LateWrite
<1>. QED  BY <1>1, <1>2, <1>3, <1>4 DEF Sound

LEMMA AwaitsPop ==
  ASSUME PoolTypeOK, EngineStream, NEW r, NEW j, NEW u, NEW i \in 1 .. Len(engineQ), Awaits(i + 1, r, j, u)
  PROVE  Awaits(i, r, j, u)'
<1> DEFINE n == Len(engineQ)
           h == engineQ[1]
<1>1. /\ n \in Nat \ {0} /\ h \in Ops /\ engineQ /= <<>> /\ Head(engineQ) = h
      /\ \A k \in 1 .. n - 1 : engineQ'[k] = engineQ[k + 1]
  BY HeadOff DEF EngineStream, PoolTypeOK, Ops
<1>2. i \in 1 .. n /\ (i + 1) - 1 = i /\ schedQ' = schedQ /\ schedDone' = schedDone /\ schedDone \in Nat
  BY <1>1 DEF EngineStream, PoolTypeOK
<1>3. PICK c \in DOMAIN schedQ :
        /\ schedQ[c].uid = u /\ Covers(schedQ[c], r, j)
        /\ \E k \in 1 .. i : engineQ[k].op = "wait" /\ engineQ[k].seen >= schedDone + c
  BY <1>2 DEF Awaits
<1>4. PICK k \in 1 .. i : engineQ[k].op = "wait" /\ engineQ[k].seen >= schedDone + c
  BY <1>3
<1>5. c \in Nat \ {0}
  BY Lens
<1>6. k /= 1
  <2>1. SUFFICES ASSUME k = 1 PROVE FALSE
    OBVIOUS
  <2>2. schedDone >= h.seen /\ h.seen \in Nat
    BY <1>1, <1>4, <2>1, OpTypes DEF EngineStream
  <2>. QED  BY <1>2, <1>4, <1>5, <2>1, <2>2
<1> HIDE DEF n, h
<1>7. k - 1 \in 1 .. i - 1 /\ k - 1 \in 1 .. n - 1 /\ (k - 1) + 1 = k
  BY <1>1, <1>2, <1>4, <1>6
<1>8. engineQ'[k - 1] = engineQ[k]
  BY <1>1, <1>7
<1>. QED  BY <1>2, <1>3, <1>4, <1>7, <1>8 DEF Awaits, Covers

LEMMA SoundEngineStream ==
  ASSUME TokenPoolAssumption, PoolTypeOK, HostInv, OpsInv, SoundInv, EngineStream PROVE SoundInv'
<1> DEFINE n == Len(engineQ)
<1>1. /\ n \in Nat \ {0} /\ Len(engineQ') = n - 1 /\ DOMAIN engineQ' = 1 .. n - 1 /\ DOMAIN engineQ = 1 .. n
      /\ \A i \in 1 .. n - 1 : engineQ'[i] = engineQ[i + 1]
  BY HeadOff DEF EngineStream, PoolTypeOK, Ops
<1>2. Live' \subseteq Live /\ plen' = plen /\ overlap' = overlap
  BY LiveShrinks DEF PoolNext
<1>3. running' = running /\ row' = row /\ cached' = cached
  BY DEF EngineStream, host
<1>4. ASSUME NEW i \in 1 .. n - 1, engineQ'[i].op = "run", NEW x \in engineQ'[i].reads, NEW j \in x.from .. x.to - 1
      PROVE  Sound(i, x, j)'
  <2>1. i + 1 \in DOMAIN engineQ /\ engineQ'[i] = engineQ[i + 1] /\ i \in 1 .. n
    BY <1>1
  <2>2. Sound(i + 1, x, j)
    BY <1>4, <2>1 DEF SoundInv, ReadsSound
  <2>3. x.row \in Rows /\ j \in 0 .. RowWidth - 1
    BY <1>4, <2>1, ReadTypes
  <2>4. \A t : Will(i + 1, x.row, j, t) => Will(i, x.row, j, t)'
    BY <2>1, <2>3, WillPop
  <2>5. Awaits(i + 1, x.row, j, x.uid) => Awaits(i, x.row, j, x.uid)'
    BY <2>1, AwaitsPop
  <2>. QED  BY <1>2, <2>2, <2>4, <2>5, SoundKept
<1>5. ASSUME NEW u \in running PROVE Sampled(u)'
  <2>1. row[u] \in Rows /\ cached[u] \in 0 .. RowWidth - 1
    BY RunningTypes
  <2>2. PICK r \in Rows : r = row[u]
    BY <2>1
  <2>3. PICK j \in 0 .. RowWidth - 1 : j = cached[u]
    BY <2>1
  <2>4. PICK t : t = Token(u, j)
    OBVIOUS
  <2>5. Will(n + 1, r, j, t)
    BY <2>2, <2>3, <2>4 DEF SoundInv, Sampled
  <2>6. ASSUME NEW m, m = n PROVE Will(m, r, j, t)'
    <3>1. m \in 1 .. Len(engineQ) /\ Will(m + 1, r, j, t)
      BY <1>1, <2>5, <2>6
    <3>. QED  BY <3>1, WillPop
  <2>7. Len(engineQ') + 1 = n
    BY <1>1
  <2>8. PICK m : m = n
    OBVIOUS
  <2>. QED  BY <1>3, <2>2, <2>3, <2>4, <2>6, <2>7, <2>8 DEF Sampled
<1>. QED  BY <1>1, <1>3, <1>4, <1>5 DEF SoundInv, ReadsSound

\* A step that leaves the queues, the pool and where the requests are
LEMMA SoundQuiet ==
  ASSUME TokenPoolAssumption, PoolTypeOK, HostInv, SoundInv, PoolNext, running' \subseteq running,
         UNCHANGED <<row, cached, schedQ, schedDone, engineQ, pool>>
  PROVE  SoundInv'
<1>1. Live' \subseteq Live /\ plen' = plen /\ overlap' = overlap
  BY LiveShrinks
<1>2. ASSUME NEW i, NEW r, NEW j, NEW t PROVE Will(i, r, j, t) => Will(i, r, j, t)'
  BY DEF Will, Untouched
<1>3. ASSUME NEW i, NEW r, NEW j, NEW u PROVE Awaits(i, r, j, u) => Awaits(i, r, j, u)'
  BY DEF Awaits, Covers
<1>4. ASSUME NEW i \in DOMAIN engineQ, engineQ[i].op = "run", NEW x \in engineQ[i].reads, NEW j \in x.from .. x.to - 1
      PROVE  Sound(i, x, j)'
  <2>1. Sound(i, x, j)
    BY <1>4 DEF SoundInv, ReadsSound
  <2>. QED  BY <1>1, <1>2, <1>3, <2>1, SoundKept
<1>5. ASSUME NEW u \in running' PROVE Sampled(u)'
  <2>1. Sampled(u)
    BY <1>5 DEF SoundInv
  <2>. QED  BY <2>1 DEF Sampled, Will, Untouched
<1>. QED  BY <1>4, <1>5 DEF SoundInv, ReadsSound

LEMMA SoundHost ==
  ASSUME TokenPoolAssumption, PoolTypeOK, HostInv, SoundInv, PoolNext,
         (Idles /\ Fixed) \/ PostStart \/ FreeRows \/ (\E u \in Uids : Abort(u))
  PROVE  SoundInv'
<1>1. running' \subseteq running /\ UNCHANGED <<row, cached, schedQ, schedDone, engineQ, pool>>
  BY DEF Idles, Fixed, PostStart, FreeRows, Abort
<1>. QED  BY <1>1, SoundQuiet

\* The scheduler's stream does the copy of a prompt.
LEMMA AwaitsSched ==
  ASSUME PoolTypeOK, SchedStream, NEW r, NEW j, NEW u, NEW i, Awaits(i, r, j, u)
  PROVE  Awaits(i, r, j, u)' \/ (schedQ[1].uid = u /\ Covers(schedQ[1], r, j))
<1>1. /\ Len(schedQ) \in Nat \ {0} /\ DOMAIN schedQ = 1 .. Len(schedQ) /\ DOMAIN schedQ' = 1 .. Len(schedQ) - 1
      /\ \A c \in 1 .. Len(schedQ) - 1 : schedQ'[c] = schedQ[c + 1]
  BY HeadOff DEF SchedStream, PoolTypeOK
<1>2. engineQ' = engineQ /\ schedDone' = schedDone + 1 /\ schedDone \in Nat
  BY DEF SchedStream, PoolTypeOK
<1>3. PICK c \in DOMAIN schedQ :
        /\ schedQ[c].uid = u /\ Covers(schedQ[c], r, j)
        /\ \E k \in 1 .. i - 1 : engineQ[k].op = "wait" /\ engineQ[k].seen >= schedDone + c
  BY DEF Awaits
<1>4. CASE c = 1
  BY <1>3, <1>4
<1>5. CASE c /= 1
  <2>1. c - 1 \in 1 .. Len(schedQ) - 1 /\ (c - 1) + 1 = c /\ schedDone' + (c - 1) = schedDone + c
    BY <1>1, <1>2, <1>5
  <2>2. schedQ'[c - 1] = schedQ[c]
    BY <1>1, <2>1
  <2>. QED  BY <1>1, <1>2, <1>3, <2>1, <2>2 DEF Awaits, Covers
<1>. QED  BY <1>4, <1>5

LEMMA SoundSchedStream ==
  ASSUME TokenPoolAssumption, PoolTypeOK, HostInv, RowInv, Shape, Serial, OpsInv, SoundInv, SchedStream PROVE SoundInv'
<1> DEFINE o == schedQ[1]
<1>1. /\ 1 \in DOMAIN schedQ /\ o \in Copies /\ Head(schedQ) = o
      /\ engineQ' = engineQ /\ running' = running /\ row' = row /\ cached' = cached
  BY HeadOff DEF SchedStream, host, PoolTypeOK
<1>2. overlap
  BY DEF SchedStream, Serial
<1>3. o.uid \in Owners
  BY <1>1, <1>2, CopyHeld
<1>4. o.op = "copy" /\ o.uid \in Uids /\ o.row = row[o.uid] /\ o.to <= plen[o.uid] /\ o.from \in Nat /\ o.to \in Nat
      /\ plen[o.uid] \in Nat
  BY <1>1 DEF Copies, OpsInv, OpOK, CopyOK, PoolTypeOK
<1>5. Live' \subseteq Live /\ plen' = plen /\ overlap' = overlap
  BY LiveShrinks DEF PoolNext
<1>6. ASSUME NEW u \in Owners, NEW j, Covers(o, row[u], j) PROVE u = o.uid
  BY <1>3, <1>4, <1>6 DEF RowInv, Covers
<1>7. ASSUME NEW r, NEW j \in Nat, Covers(o, r, j) PROVE j < plen[o.uid] /\ r = row[o.uid]
  BY <1>4, <1>7 DEF Covers
<1> HIDE DEF o
<1>8. ASSUME NEW u \in running PROVE Sampled(u)'
  <2>1. u \in Uids /\ row[u] \in Rows /\ cached[u] \in 0 .. RowWidth - 1 /\ plen[u] <= cached[u] /\ plen[u] \in Nat
        /\ u \in Owners /\ RowWidth \in Nat
    BY RunningTypes DEF Owners, TokenPoolAssumption
  <2>2. PICK i : i = Len(engineQ) + 1
    OBVIOUS
  <2>3. PICK t : t = Token(u, cached[u])
    OBVIOUS
  <2>4. Will(i, row[u], cached[u], t)
    BY <2>2, <2>3 DEF SoundInv, Sampled
  <2>5. ~Covers(o, row[u], cached[u])
    BY <1>6, <1>7, <2>1
  <2>6. PICK r \in Rows : r = row[u]
    BY <2>1
  <2>7. PICK j \in 0 .. RowWidth - 1 : j = cached[u]
    BY <2>1
  <2>8. Will(i, r, j, t)'
    BY <2>4, <2>5, <2>6, <2>7, WillSched DEF o
  <2>. QED  BY <1>1, <2>2, <2>3, <2>6, <2>7, <2>8 DEF Sampled
<1>9. ASSUME NEW i \in DOMAIN engineQ, engineQ[i].op = "run", NEW x \in engineQ[i].reads, NEW j \in x.from .. x.to - 1
      PROVE  Sound(i, x, j)'
  <2> DEFINE u == x.uid
             r == x.row
  <2>1. /\ u \in Uids /\ r = row[u] /\ r \in Rows /\ u \notin waiting
        /\ x.from \in Nat /\ j \in Nat /\ j < RowWidth - 1 /\ j \in 0 .. RowWidth - 1 /\ x.from <= j
        /\ plen[u] \in Nat
    BY <1>9, ReadTypes
  <2>2. Sound(i, x, j)
    BY <1>9 DEF SoundInv, ReadsSound
  <2>3. j < plen[u] => u \in Owners
    <3>1. SUFFICES ASSUME j < plen[u] PROVE u \in Owners
      OBVIOUS
    <3>2. x.from < plen[x.uid]
      BY <2>1, <3>1
    <3>. QED  BY <1>2, <1>9, <3>2, PromptHeld
  <2>4. u \in Live => u \in Owners
    BY <2>1 DEF Live, Owners
  <2> HIDE DEF u, r
  <2>5. CASE ~Covers(o, r, j)
    <3>1. \A t : Will(i, r, j, t) => Will(i, r, j, t)'
      BY <2>1, <2>5, WillSched DEF o
    <3>2. Awaits(i, r, j, u) => Awaits(i, r, j, u)'
      BY <2>5, AwaitsSched DEF o
    <3>. QED  BY <1>5, <2>2, <3>1, <3>2, SoundKept DEF u, r
  <2>6. CASE Covers(o, r, j)
    <3>1. j < plen[o.uid] /\ r = row[o.uid]
      BY <1>7, <2>1, <2>6
    <3>2. u \in Owners => u = o.uid
      BY <1>6, <2>1, <2>6
    <3>3. PICK s : s = Token(o.uid, j)
      OBVIOUS
    <3>4. ASSUME NEW t, Will(i, r, j, t) PROVE Will(i, r, j, t)' \/ Will(i, r, j, s)'
      BY <2>1, <3>3, <3>4, WillSched DEF o
    <3>5. CASE Will(i, r, j, s)'
      <4>1. CASE u \in Owners
        <5>1. s = Token(u, j)
          BY <3>2, <3>3, <4>1
        <5>. QED  BY <3>5, <5>1 DEF Sound, Intended, u, r
      <4>2. CASE u \notin Owners
        <5>1. u /= o.uid /\ j >= plen[u] /\ u \notin Live'
          BY <1>3, <1>5, <2>1, <2>3, <2>4, <4>2
        <5>2. ExtraToken(i, x, j)'
          BY <1>2, <1>4, <1>5, <3>1, <3>3, <3>5, <5>1 DEF ExtraToken, u, r
        <5>. QED  BY <5>2 DEF Sound
      <4>. QED  BY <4>1, <4>2
    <3>6. CASE ~Will(i, r, j, s)'
      <4>1. \A t : Will(i, r, j, t) => Will(i, r, j, t)'
        BY <3>4, <3>6
      <4>2. CASE Awaits(i, r, j, u) => Awaits(i, r, j, u)'
        BY <1>5, <2>2, <4>1, <4>2, SoundKept DEF u, r
      <4>3. CASE o.uid = u
        <5>1. Leaves(o, r, j, s)
          BY <1>4, <2>6, <3>3 DEF Leaves, Touches
        <5>2. pool'[r][j] = s
          <6>1. o \in Ops /\ o.op /= "wait" /\ Did(o)
            BY <1>1, <1>4 DEF SchedStream, Ops
          <6>. QED  BY <2>1, <5>1, <6>1, DidPool
        <5>3. ~Untouched(1, i - 1, r, j)
          <6>1. SUFFICES ASSUME Untouched(1, i - 1, r, j) PROVE Will(i, r, j, s)'
            BY <3>6
          <6>2. Untouched(1, i - 1, r, j)'
            BY <1>1, <6>1 DEF Untouched
          <6>. QED  BY <5>2, <6>2 DEF Will
        <5>4. PICK v \in Uids : /\ j >= plen[v]
                                /\ \E l \in 1 .. i - 1 : Leaves(engineQ[l], r, j, Token(v, j)) /\ Untouched(l + 1, i - 1, r, j)
          <6>1. i \in 1 .. Len(engineQ) /\ Order
            BY <1>2, Lens DEF Shape
          <6>. QED  BY <2>1, <5>3, <6>1, LastWrite
        <5>5. PICK t : t = Token(v, j)
          OBVIOUS
        <5>6. Will(i, r, j, t)'
          BY <1>1, <5>4, <5>5 DEF Will, Untouched
        <5>7. v /= u /\ j < plen[u]
          <6>1. j < plen[u]
            BY <3>1, <4>3
          <6>2. plen[v] \in Nat
            BY DEF PoolTypeOK
          <6>. QED  BY <2>1, <5>4, <6>1, <6>2
        <5>8. LateWrite(i, x, j)'
          BY <1>2, <1>5, <5>4, <5>5, <5>6, <5>7 DEF LateWrite, u, r
        <5>. QED  BY <5>8 DEF Sound
      <4>. QED  BY <4>2, <4>3, AwaitsSched DEF o
    <3>. QED  BY <3>5, <3>6
  <2>. QED  BY <2>5, <2>6
<1>. QED  BY <1>1, <1>8, <1>9 DEF SoundInv, ReadsSound

\* A batch is added behind what is queued.
LEMMA SoundAppended ==
  ASSUME TokenPoolAssumption, PoolTypeOK, HostInv, SoundInv, PoolNext, pool' = pool, schedDone' = schedDone,
         \A k \in DOMAIN engineQ : engineQ'[k] = engineQ[k],
         \A c \in DOMAIN schedQ : c \in DOMAIN schedQ' /\ schedQ'[c] = schedQ[c],
         NEW i \in DOMAIN engineQ, engineQ[i].op = "run", NEW x \in engineQ[i].reads, NEW j \in x.from .. x.to - 1
  PROVE  Sound(i, x, j)'
<1>1. Live' \subseteq Live /\ plen' = plen /\ overlap' = overlap
  BY LiveShrinks
<1>2. Sound(i, x, j)
  BY DEF SoundInv, ReadsSound
<1>3. i \in Nat \ {0} /\ \A k \in 1 .. i - 1 : engineQ'[k] = engineQ[k]
  BY Lens
<1>4. ASSUME NEW t, Will(i, x.row, j, t) PROVE Will(i, x.row, j, t)'
  <2>1. i <= i /\ \A k \in i .. i - 1 : FALSE
    BY <1>3
  <2>. QED  BY <1>3, <1>4, <2>1, WillLater
<1>5. Awaits(i, x.row, j, x.uid) => Awaits(i, x.row, j, x.uid)'
  BY <1>3 DEF Awaits, Covers
<1>. QED  BY <1>1, <1>2, <1>4, <1>5, SoundKept

LEMMA SoundPrefilled ==
  ASSUME TokenPoolAssumption, PoolTypeOK, HostInv, RowInv, RowInv', Shape, Serial, OpsInv, SoundInv, PoolNext,
         pc = "schedule", Fixed,
         NEW u \in Uids, NEW to \in Nat, NEW part \in BOOLEAN, Prefilled(u, to, part)
  PROVE  SoundInv'
<1>1. PICK copy : copy = CopyOf(u, cached[u], to)
  OBVIOUS
<1>2. PICK run : run = [op |-> "run", reads |-> ReadAll({u}, cached, [cached EXCEPT ![u] = to])]
  OBVIOUS
<1>3. PICK write : write = [op |-> "write", writes |-> WriteAll({u}, part, [cached EXCEPT ![u] = to])]
  OBVIOUS
<1>4. Takes(u, to, part) /\ Enqueue(<<copy>>, <<run, write>>) /\ PromptWork(u, to, part, copy, run, write)
      /\ Launched({u}, part, [cached EXCEPT ![u] = to])
  BY <1>1, <1>2, <1>3 DEF Prefilled, PromptWork
<1>5. /\ copy \in Copies /\ run \in Runs /\ write \in Writes
      /\ \A x \in run.reads : x.uid = u /\ x.row = row'[u] /\ x.from = cached[u] /\ x.to = to
      /\ \A w \in write.writes : w.uid = u /\ w.row = row'[u] /\ w.at = to /\ w.pos = WriteAt(u, part, to)
      /\ write.writes /= {}
  BY <1>4, PromptOps
<1>6. PICK n \in Nat : n = Len(engineQ)
  BY Lens
<1>7. PICK m \in Nat : m = Len(schedQ)
  BY Lens
<1>8. /\ DOMAIN engineQ = 1 .. n /\ DOMAIN schedQ = 1 .. m
      /\ Len(engineQ') = n + 3 /\ DOMAIN engineQ' = 1 .. n + 3
      /\ \A i \in 1 .. n : engineQ'[i] = engineQ[i]
      /\ engineQ'[n + 2] = run /\ engineQ'[n + 3] = write
      /\ overlap => /\ engineQ'[n + 1] = [op |-> "wait", seen |-> schedAll + 1]
                    /\ DOMAIN schedQ' = 1 .. m + 1 /\ schedAll = schedDone + m
                    /\ \A c \in 1 .. m : schedQ'[c] = schedQ[c]
                    /\ schedQ'[m + 1] = copy
      /\ ~overlap => engineQ'[n + 1] = copy /\ schedQ' = schedQ
  <2>1. (n + 1) + 1 = n + 2 /\ (n + 1) + 2 = n + 3
    OBVIOUS
  <2>. QED  BY <1>4, <1>5, <1>6, <1>7, <2>1, EnqueuePrompt, Lens DEF Grows, Shape, Counts
<1>9. /\ plen' = plen /\ overlap' = overlap /\ schedDone' = schedDone /\ schedDone \in Nat /\ pool' = pool
      /\ cached' = [v \in Uids |-> IF v = u THEN to ELSE cached[v]]
      /\ cached[u] \in Nat /\ to <= plen[u] /\ plen[u] \in Nat /\ RowWidth \in Nat
      /\ (~part => to < RowWidth) /\ row'[u] \in Rows
  <2>1. plen[u] \in Nat /\ end[u] \in Nat /\ plen[u] < end[u] /\ end[u] <= RowWidth /\ RowWidth \in Nat /\ to <= plen[u]
    BY <1>4 DEF HostInv, Lengths, TokenPoolAssumption, PoolTypeOK, Takes
  <2>2. to < RowWidth
    BY <2>1
  <2>. QED  BY <1>4, <2>1, <2>2, TakeRow DEF Fixed, Launched, PoolTypeOK
<1>10. copy.op = "copy" /\ copy.row = row'[u] /\ copy.from = cached[u] /\ copy.to = to /\ copy.uid = u
       /\ run.op = "run" /\ write.op = "write"
  BY <1>1, <1>2, <1>3 DEF CopyOf
<1>11. ASSUME NEW i \in 1 .. n, engineQ'[i].op = "run", NEW x \in engineQ'[i].reads, NEW j \in x.from .. x.to - 1
       PROVE  Sound(i, x, j)'
  <2>1. \A c \in DOMAIN schedQ : c \in DOMAIN schedQ' /\ schedQ'[c] = schedQ[c]
    BY <1>8
  <2>2. i \in DOMAIN engineQ /\ engineQ'[i] = engineQ[i]
    BY <1>8
  <2>. QED  BY <1>8, <1>9, <1>11, <2>1, <2>2, SoundAppended
<1>12. ASSUME NEW x \in run.reads, NEW j \in x.from .. x.to - 1, NEW i, i = n + 2 PROVE Sound(i, x, j)'
  <2>1. x.uid = u /\ x.row = row'[u] /\ j \in cached[u] .. to - 1 /\ j < plen[u]
    BY <1>5, <1>9, <1>12
  <2>2. Covers(copy, row'[u], j)
    BY <1>10, <2>1 DEF Covers
  <2>3. CASE overlap
    <3>1. m + 1 \in DOMAIN schedQ' /\ schedQ'[m + 1] = copy /\ engineQ'[n + 1].op = "wait" /\ engineQ'[n + 1].seen = schedAll + 1
      BY <1>8, <2>3
    <3>2. n + 1 \in 1 .. i - 1 /\ engineQ'[n + 1].seen >= schedDone' + (m + 1)
      <4>1. schedAll = schedDone + m /\ schedDone' = schedDone
        BY <1>8, <1>9, <2>3
      <4>2. schedAll + 1 = schedDone + (m + 1) /\ schedAll + 1 \in Nat
        BY <1>9, <4>1
      <4>3. engineQ'[n + 1].seen >= schedDone' + (m + 1)
        BY <3>1, <4>1, <4>2
      <4>. QED  BY <1>12, <4>3
    <3>3. Awaits(i, x.row, j, u)'
      BY <1>10, <2>1, <2>2, <3>1, <3>2 DEF Awaits, Covers
    <3>. QED  BY <1>9, <2>1, <2>3, <3>3 DEF Sound, Copying
  <2>4. CASE ~overlap
    <3>1. n + 1 \in 1 .. i - 1 /\ engineQ'[n + 1] = copy /\ \A k \in (n + 1) + 1 .. i - 1 : FALSE
      BY <1>8, <1>12, <2>4
    <3>2. Leaves(copy, row'[u], j, Token(u, j))
      BY <1>10, <2>2 DEF Leaves, Touches
    <3>3. Intended(i, x, j)'
      BY <2>1, <3>1, <3>2 DEF Intended, Will, Untouched
    <3>. QED  BY <3>3 DEF Sound
  <2>. QED  BY <2>3, <2>4
<1>13. ASSUME NEW v \in running', v = u PROVE Sampled(v)'
  <2>1. ~part
    BY <1>4, <1>13 DEF Takes, HostInv, Apart
  <2>2. \A w \in write.writes : w.uid = u /\ w.row = row'[u] /\ w.at = to /\ w.pos = to
    BY <1>5, <2>1 DEF WriteAt
  <2>3. Leaves(write, row'[u], to, Token(u, to))
    BY <1>5, <1>10, <2>2 DEF Leaves, Touches
  <2>4. n + 3 \in 1 .. ((n + 3) + 1) - 1 /\ \A k \in (n + 3) + 1 .. ((n + 3) + 1) - 1 : FALSE
    OBVIOUS
  <2>5. cached'[u] = to /\ Len(engineQ') = n + 3 /\ engineQ'[n + 3] = write
    BY <1>8, <1>9
  <2>. QED  BY <1>13, <2>3, <2>4, <2>5 DEF Sampled, Will, Untouched
<1>14. ASSUME NEW v \in running', v /= u PROVE Sampled(v)'
  <2>1. v \in running
    BY <1>4, <1>14 DEF Takes
  <2>2. v \in Uids /\ row'[v] = row[v] /\ cached'[v] = cached[v]
    BY <1>4, <1>9, <1>14, <2>1 DEF Takes, PoolTypeOK
  <2>3. row'[u] /= row'[v]
    <3>1. u \in Owners' /\ v \in Owners'
      BY <1>4, <1>14 DEF Owners, Launched
    <3>. QED  BY <1>14, <3>1 DEF RowInv
  <2>4. PICK i : i = n + 1
    OBVIOUS
  <2>5. PICK k : k = (n + 3) + 1
    OBVIOUS
  <2>6. PICK r : r = row[v]
    OBVIOUS
  <2>7. PICK j : j = cached[v]
    OBVIOUS
  <2>8. PICK t : t = Token(v, j)
    OBVIOUS
  <2>9. Will(i, r, j, t)
    BY <1>6, <2>1, <2>4, <2>6, <2>7, <2>8 DEF SoundInv, Sampled
  <2>10. ASSUME NEW l \in i .. k - 1 PROVE ~Touches(engineQ'[l], r, j)
    <3>1. l = n + 1 \/ l = n + 2 \/ l = n + 3
      BY <2>4, <2>5, <2>10
    <3>2. ~Touches(copy, r, j)
      BY <1>10, <2>2, <2>3, <2>6 DEF Touches, Covers
    <3>3. ~Touches(run, r, j)
      BY <1>10 DEF Touches
    <3>4. ~Touches(write, r, j)
      BY <1>5, <1>10, <2>2, <2>3, <2>6 DEF Touches
    <3>5. ~Touches(engineQ'[n + 1], r, j)
      BY <1>8, <3>2 DEF Touches
    <3>. QED  BY <1>8, <3>1, <3>3, <3>4, <3>5
  <2>11. i \in Nat \ {0} /\ k \in Nat \ {0} /\ i <= k /\ \A l \in 1 .. i - 1 : engineQ'[l] = engineQ[l]
    BY <1>8, <2>4, <2>5
  <2>12. Will(k, r, j, t)'
    BY <1>9, <2>9, <2>10, <2>11, WillLater
  <2>. QED  BY <1>8, <2>2, <2>5, <2>6, <2>7, <2>8, <2>12 DEF Sampled
<1>15. ASSUME NEW i \in 1 .. n + 3, engineQ'[i].op = "run", NEW x \in engineQ'[i].reads, NEW j \in x.from .. x.to - 1
       PROVE  Sound(i, x, j)'
  <2>1. i \in 1 .. n \/ i = n + 1 \/ i = n + 2 \/ i = n + 3
    OBVIOUS
  <2>2. i /= n + 1 /\ i /= n + 3
    BY <1>8, <1>10, <1>15
  <2>. QED  BY <1>8, <1>11, <1>12, <1>15, <2>1, <2>2
<1>. QED  BY <1>8, <1>13, <1>14, <1>15 DEF SoundInv, ReadsSound

LEMMA SoundDecoded ==
  ASSUME TokenPoolAssumption, PoolTypeOK, HostInv, RowInv, OpsInv, SoundInv, PoolNext, Fixed, Decoded
  PROVE  SoundInv'
<1>1. PICK run : run = [op |-> "run", reads |-> ReadAll(running, cached, device)]
  OBVIOUS
<1>2. PICK write : write = [op |-> "write", writes |-> WriteAll(running, FALSE, device)]
  OBVIOUS
<1>3. /\ run \in Runs /\ write \in Writes /\ OpOK(write)'
      /\ \A x \in run.reads : x.uid \in running /\ x.row = row[x.uid] /\ x.from = cached[x.uid] /\ x.to = cached[x.uid] + 1
      /\ \A w \in write.writes : w.uid \in running /\ w.row = row[w.uid] /\ w.at = device[w.uid] /\ w.pos = w.at
      /\ \A u \in running : \E w \in write.writes : w.uid = u
  BY <1>1, <1>2, DecodeOps
<1>4. Enqueue(<<>>, <<run, write>>) /\ Launched(running, FALSE, device) /\ running' \subseteq running
  BY <1>1, <1>2 DEF Decoded
<1>5. PICK n \in Nat : n = Len(engineQ)
  BY Lens
<1>6. PICK p \in Nat : p = IF overlap THEN n + 1 ELSE n
  OBVIOUS
<1>7. /\ DOMAIN engineQ = 1 .. n /\ schedQ' = schedQ
      /\ Len(engineQ') = p + 2 /\ DOMAIN engineQ' = 1 .. p + 2
      /\ \A i \in 1 .. n : engineQ'[i] = engineQ[i]
      /\ engineQ'[p + 1] = run /\ engineQ'[p + 2] = write
      /\ \A k \in n + 1 .. p : engineQ'[k].op = "wait"
  <2>1. schedQ' = schedQ /\ DOMAIN engineQ = 1 .. n
    BY <1>3, <1>4, <1>5, EnqueueDecode, Lens
  <2>2. CASE overlap
    <3>1. Grows(n + 1, run, write) /\ engineQ'[n + 1] = [op |-> "wait", seen |-> schedAll]
      BY <1>3, <1>4, <1>5, <2>2, EnqueueDecode
    <3>2. p = n + 1 /\ \A k \in n + 1 .. p : k = n + 1
      BY <1>6, <2>2
    <3>. QED  BY <1>5, <2>1, <3>1, <3>2 DEF Grows
  <2>3. CASE ~overlap
    <3>1. Grows(n, run, write)
      BY <1>3, <1>4, <1>5, <2>3, EnqueueDecode
    <3>2. p = n /\ \A k \in n + 1 .. p : FALSE
      BY <1>6, <2>3
    <3>. QED  BY <1>5, <2>1, <3>1, <3>2 DEF Grows
  <2>. QED  BY <2>2, <2>3
<1>8. /\ plen' = plen /\ overlap' = overlap /\ schedDone' = schedDone /\ pool' = pool /\ row' = row
      /\ \A u \in running : cached'[u] = device[u] /\ cached[u] \in Nat /\ device[u] = cached[u] + 1 /\ u \in Owners
  BY <1>4 DEF Fixed, Decoded, Launched, PoolTypeOK, HostInv, Lengths, Owners
<1>9. n <= p
  BY <1>6
<1>10. run.op = "run" /\ write.op = "write"
  BY <1>1, <1>2
<1>11. ASSUME NEW i \in 1 .. n, engineQ'[i].op = "run", NEW x \in engineQ'[i].reads, NEW j \in x.from .. x.to - 1
       PROVE  Sound(i, x, j)'
  <2>1. i \in DOMAIN engineQ /\ engineQ'[i] = engineQ[i] /\ \A c \in DOMAIN schedQ : c \in DOMAIN schedQ' /\ schedQ'[c] = schedQ[c]
    BY <1>7
  <2>. QED  BY <1>7, <1>8, <1>11, <2>1, SoundAppended
<1>12. ASSUME NEW x \in run.reads, NEW j \in x.from .. x.to - 1, NEW i, i = p + 1 PROVE Sound(i, x, j)'
  <2>1. x.uid \in running /\ x.row = row[x.uid] /\ j = cached[x.uid]
    BY <1>3, <1>8, <1>12
  <2>2. PICK t : t = Token(x.uid, j)
    OBVIOUS
  <2>3. PICK q : q = n + 1
    OBVIOUS
  <2>4. Will(q, x.row, j, t)
    BY <1>5, <2>1, <2>2, <2>3 DEF SoundInv, Sampled
  <2>5. \A k \in q .. i - 1 : ~Touches(engineQ'[k], x.row, j)
    <3>1. \A k \in q .. i - 1 : k \in n + 1 .. p
      BY <1>12, <2>3
    <3>. QED  BY <1>7, <3>1 DEF Touches
  <2>6. q \in Nat \ {0} /\ i \in Nat \ {0} /\ q <= i /\ \A k \in 1 .. q - 1 : engineQ'[k] = engineQ[k]
    BY <1>7, <1>9, <1>12, <2>3
  <2>7. Will(i, x.row, j, t)'
    BY <1>8, <2>4, <2>5, <2>6, WillLater
  <2>. QED  BY <2>2, <2>7 DEF Sound, Intended
<1>13. ASSUME NEW u \in running' PROVE Sampled(u)'
  <2>1. u \in running /\ cached'[u] = device[u] /\ u \in Owners
    BY <1>4, <1>8, <1>13
  <2>2. PICK w \in write.writes : w.uid = u
    BY <1>3, <2>1
  <2>3. w.row = row[u] /\ w.pos = device[u] /\ w.at = device[u]
    BY <1>3, <2>2
  <2>4. \A v \in write.writes : v.row = row[u] => v = w
    BY <1>3, <1>10, <2>3 DEF OpOK, WriteOK
  <2>5. Leaves(write, row[u], device[u], Token(u, device[u]))
    BY <1>10, <2>2, <2>3, <2>4 DEF Leaves, Touches
  <2>6. p + 2 \in 1 .. ((p + 2) + 1) - 1 /\ \A k \in (p + 2) + 1 .. ((p + 2) + 1) - 1 : FALSE
    OBVIOUS
  <2>. QED  BY <1>7, <1>8, <2>1, <2>5, <2>6 DEF Sampled, Will, Untouched
<1>14. ASSUME NEW i \in 1 .. p + 2, engineQ'[i].op = "run", NEW x \in engineQ'[i].reads, NEW j \in x.from .. x.to - 1
       PROVE  Sound(i, x, j)'
  <2>1. i \in 1 .. n \/ i \in n + 1 .. p \/ i = p + 1 \/ i = p + 2
    BY <1>9
  <2>2. i \notin n + 1 .. p /\ i /= p + 2
    BY <1>7, <1>10, <1>14
  <2>. QED  BY <1>7, <1>11, <1>12, <1>14, <2>1, <2>2
<1>. QED  BY <1>7, <1>13, <1>14 DEF SoundInv, ReadsSound

LEMMA SoundSchedule ==
  ASSUME TokenPoolAssumption, PoolTypeOK, HostInv, RowInv, RowInv', Shape, Serial, OpsInv, SoundInv, Schedule
  PROVE  SoundInv'
<1>1. PoolNext /\ pc = "schedule" /\ Fixed
  BY ScheduleIs DEF PoolNext
<1>2. CASE Decoded
  BY <1>1, <1>2, SoundDecoded
<1>3. CASE Idles
  BY <1>1, <1>3, SoundHost
<1>4. ASSUME NEW u \in Uids, NEW to \in Nat, NEW part \in BOOLEAN, Prefilled(u, to, part) PROVE SoundInv'
  BY <1>1, <1>4, SoundPrefilled
<1>. QED  BY <1>2, <1>3, <1>4, ScheduleIs

-----------------------------------------------------------------------------
(* The invariant, and what it says of the reads.                            *)

LEMMA PoolInvInit == ASSUME TokenPoolAssumption, PoolInit PROVE PoolInv
BY HostInit, RowInit, CountingInit, ShapeInit, OpsInit, SoundInit DEF PoolInv

LEMMA PoolInvStep == ASSUME TokenPoolAssumption, PoolInv, PoolNext PROVE PoolInv'
<1>1. PoolTypeOK /\ HostInv /\ RowInv /\ Counting /\ Shape /\ Serial /\ OpsInv /\ SoundInv
  BY DEF PoolInv
<1>2. CASE SchedStream
  <2>1. UNCHANGED <<overlap, host>> /\ (runsDone' = runsDone \/ runsDone' = runsDone + 1)
    <3>1. Head(schedQ) \in Copies
      BY <1>1, <1>2, HeadOff DEF SchedStream, PoolTypeOK
    <3>2. Head(schedQ) \in Ops /\ Head(schedQ).op = "copy"
      BY <3>1 DEF Ops, Copies
    <3>. QED  BY <1>2, <3>2 DEF SchedStream, Did
  <2>2. Owners' \subseteq Owners /\ row' = row /\ freeRows' = freeRows
    BY <2>1 DEF host, Owners
  <2>3. PoolTypeOK' /\ HostInv' /\ RowInv' /\ Counting'
    BY <1>1, <1>2, <2>1, <2>2, TypeStreams, HostStay, RowStay, CountingStay
  <2>. QED  BY <1>1, <1>2, <2>3, ShapeSchedStream, SerialStreams, OpsStreams, SoundSchedStream DEF PoolInv
<1>3. CASE EngineStream
  <2>1. UNCHANGED <<overlap, host>> /\ (runsDone' = runsDone \/ runsDone' = runsDone + 1)
    <3>1. Head(engineQ) \in Ops
      BY <1>1, <1>3, HeadOff DEF EngineStream, PoolTypeOK, Ops
    <3>2. Head(engineQ).op \in {"copy", "wait", "run", "write"}
      BY <3>1, OpTypes
    <3>. QED  BY <1>3, <3>2 DEF EngineStream, Did
  <2>2. Owners' \subseteq Owners /\ row' = row /\ freeRows' = freeRows
    BY <2>1 DEF host, Owners
  <2>3. PoolTypeOK' /\ HostInv' /\ RowInv' /\ Counting'
    BY <1>1, <1>3, <2>1, <2>2, TypeStreams, HostStay, RowStay, CountingStay
  <2>. QED  BY <1>1, <1>3, <2>3, ShapeEngineStream, SerialStreams, OpsStreams, SoundEngineStream DEF PoolInv
<1>4. CASE Schedule
  <2>1. PoolTypeOK' /\ RowInv' /\ Counting' /\ Shape' /\ Serial' /\ OpsInv'
    BY <1>1, <1>4, TypeSchedule, RowSchedule, CountingSchedule, ShapeSchedule, OpsSchedule
  <2>2. HostInv'
    <3>1. pc = "schedule" /\ Fixed
      BY <1>1, <1>4, ScheduleIs
    <3>2. ASSUME NEW u \in Uids, NEW to \in Nat, NEW part \in BOOLEAN, Prefilled(u, to, part) PROVE HostInv'
      BY <1>1, <3>1, <3>2, HostPrefilled
    <3>. QED  BY <1>1, <1>4, <3>1, <3>2, ScheduleIs, HostDecoded, HostIdles
  <2>. QED  BY <1>1, <1>4, <2>1, <2>2, SoundSchedule DEF PoolInv
<1>5. CASE PostStart
  <2>1. Owners' \subseteq Owners /\ row' = row /\ freeRows' = freeRows /\ (Serial => Serial')
    BY <1>5 DEF PostStart, Owners, Serial
  <2>2. PoolTypeOK' /\ HostInv' /\ RowInv' /\ Counting' /\ Shape' /\ Serial' /\ OpsInv'
    BY <1>1, <1>5, <2>1, TypePostStart, HostPostStart, RowStay, CountingPostStart, ShapePostStart, OpsHost
  <2>. QED  BY <1>1, <1>5, <2>2, SoundHost DEF PoolInv, PoolNext
<1>6. CASE FreeRows
  <2>1. Serial => Serial'
    BY <1>6 DEF FreeRows, Serial
  <2>2. PoolTypeOK' /\ HostInv' /\ RowInv' /\ Counting' /\ Shape' /\ Serial' /\ OpsInv'
    BY <1>1, <1>6, <2>1, TypeFreeRows, HostFreeRows, RowFreeRows, CountingFreeRows, ShapeFreeRows, OpsHost
  <2>. QED  BY <1>1, <1>6, <2>2, SoundHost DEF PoolInv, PoolNext
<1>7. ASSUME NEW u \in Uids, Abort(u) PROVE PoolInv'
  <2>1. Serial => Serial'
    BY <1>7 DEF Abort, Serial
  <2>2. PoolTypeOK' /\ HostInv' /\ RowInv' /\ Counting' /\ Shape' /\ Serial' /\ OpsInv'
    BY <1>1, <1>7, <2>1, TypeAbort, HostAbort, RowAbort, CountingAbort, ShapeAbort, OpsHost
  <2>. QED  BY <1>1, <1>7, <2>2, SoundHost DEF PoolInv, PoolNext
<1>. QED  BY <1>2, <1>3, <1>4, <1>5, <1>6, <1>7 DEF PoolNext

\* What the engine may misread: another's token in overlap_loop, and then of
\* one of two kinds.
Excused(m) ==
  /\ overlap
  /\ m.pos >= plen[m.uid] =>
       /\ m.uid \notin running \union chunked \union waiting
       /\ m.got /= <<>> /\ m.got[1] /= m.uid /\ m.got[2] < plen[m.got[1]]
  /\ m.pos < plen[m.uid] =>
       m.got /= <<>> /\ m.got[1] /= m.uid /\ m.pos = m.got[2] /\ m.pos >= plen[m.got[1]]

LEMMA IntendedIs == TokensIntended <=> \A m \in misread : Excused(m)
BY DEF TokensIntended, NormalReadsIntended, ReadsIntended, DecodeIntended, OnlyLateWrites, Excused

\* What is read when nothing is queued before it
LEMMA MisreadExcused ==
  ASSUME TokenPoolAssumption, PoolInv, NEW x, NEW j, 1 \in DOMAIN engineQ, engineQ[1].op = "run",
         x \in engineQ[1].reads, j \in x.from .. x.to - 1, pool[x.row][j] /= Token(x.uid, j), NEW m,
         m = [uid |-> x.uid, pos |-> j, got |-> pool[x.row][j]]
  PROVE  Excused(m)
<1>1. PoolTypeOK /\ HostInv /\ OpsInv /\ SoundInv
  BY DEF PoolInv
<1>2. Sound(1, x, j)
  BY <1>1 DEF SoundInv, ReadsSound
<1>3. \A t : Will(1, x.row, j, t) => pool[x.row][j] = t
  BY DEF Will
<1>4. ~Intended(1, x, j)
  BY <1>3 DEF Intended
<1>5. ~Copying(1, x, j)
  BY DEF Copying, Awaits
<1>6. x.uid \in Uids /\ j \in Nat /\ plen[x.uid] \in Nat
  BY <1>1, ReadTypes
<1>7. m.uid = x.uid /\ m.pos = j /\ m.got = pool[x.row][j]
  OBVIOUS
<1>8. \A v : Token(v, j) /= <<>> /\ Token(v, j)[1] = v /\ Token(v, j)[2] = j
  BY DEF Token
<1>9. CASE ExtraToken(1, x, j)
  <2>1. PICK v \in Uids : v /= x.uid /\ j < plen[v] /\ Will(1, x.row, j, Token(v, j))
    BY <1>9 DEF ExtraToken
  <2>2. m.got = Token(v, j)
    BY <1>3, <1>7, <2>1
  <2>3. overlap /\ j >= plen[x.uid] /\ x.uid \notin running \union chunked \union waiting
    BY <1>9 DEF ExtraToken, Live
  <2>4. ~(j < plen[x.uid])
    BY <1>6, <2>3
  <2>. QED  BY <1>7, <1>8, <2>1, <2>2, <2>3, <2>4 DEF Excused
<1>10. CASE LateWrite(1, x, j)
  <2>1. PICK v \in Uids : v /= x.uid /\ j >= plen[v] /\ Will(1, x.row, j, Token(v, j))
    BY <1>10 DEF LateWrite
  <2>2. m.got = Token(v, j)
    BY <1>3, <1>7, <2>1
  <2>3. overlap /\ j < plen[x.uid]
    BY <1>10 DEF LateWrite
  <2>4. ~(j >= plen[x.uid])
    BY <1>6, <2>3
  <2>. QED  BY <1>7, <1>8, <2>1, <2>2, <2>3, <2>4 DEF Excused
<1>. QED  BY <1>2, <1>4, <1>5, <1>9, <1>10 DEF Sound

LEMMA IntendedStep ==
  ASSUME TokenPoolAssumption, PoolInv, TokensIntended, PoolNext PROVE TokensIntended'
<1>1. PoolTypeOK /\ HostInv /\ OpsInv
  BY DEF PoolInv
<1>2. Live' \subseteq Live /\ plen' = plen /\ overlap' = overlap
  BY <1>1, LiveShrinks
<1>3. ASSUME NEW m, Excused(m) PROVE Excused(m)'
  <2>1. m.uid \notin running \union chunked \union waiting => m.uid \notin running' \union chunked' \union waiting'
    BY <1>2 DEF Live
  <2>. QED  BY <1>2, <1>3, <2>1 DEF Excused
<1>4. \A m \in misread : Excused(m)
  BY IntendedIs
<1>5. ASSUME NEW m \in misread' PROVE m \in misread \/ Excused(m)
  <2>1. CASE EngineStream /\ Head(engineQ).op = "run"
    <3>1. /\ Head(engineQ) = engineQ[1] /\ 1 \in DOMAIN engineQ /\ engineQ[1].op = "run"
      BY <1>1, <2>1, HeadOff DEF EngineStream, PoolTypeOK, Ops
    <3>2. misread' = misread \union
            {[uid |-> y[1].uid, pos |-> y[2], got |-> pool[y[1].row][y[2]]] : y \in
               {y \in Inputs(engineQ[1].reads) : pool[y[1].row][y[2]] /= Token(y[1].uid, y[2])}}
      BY <2>1, <3>1 DEF EngineStream, Did
    <3>3. SUFFICES ASSUME m \notin misread PROVE Excused(m)
      OBVIOUS
    <3>4. PICK y \in Inputs(engineQ[1].reads) :
            /\ pool[y[1].row][y[2]] /= Token(y[1].uid, y[2])
            /\ m = [uid |-> y[1].uid, pos |-> y[2], got |-> pool[y[1].row][y[2]]]
      BY <1>5, <3>2, <3>3
    <3>5. PICK x \in engineQ[1].reads : \E j \in x.from .. x.to - 1 : y = <<x, j>>
      BY <3>4 DEF Inputs
    <3>6. PICK j \in x.from .. x.to - 1 : y = <<x, j>>
      BY <3>5
    <3>7. pool[x.row][j] /= Token(x.uid, j) /\ m = [uid |-> x.uid, pos |-> j, got |-> pool[x.row][j]]
      BY <3>4, <3>6
    <3>. QED  BY <3>1, <3>5, <3>6, <3>7, MisreadExcused
  <2>2. CASE EngineStream /\ Head(engineQ).op /= "run"
    <3>1. Head(engineQ) \in Ops
      BY <1>1, <2>2, HeadOff DEF EngineStream, PoolTypeOK, Ops
    <3>2. Head(engineQ).op \in {"copy", "wait", "write"}
      BY <2>2, <3>1, OpTypes
    <3>. QED  BY <2>2, <3>2 DEF EngineStream, Did
  <2>3. CASE SchedStream
    <3>1. Head(schedQ) \in Copies
      BY <1>1, <2>3, HeadOff DEF SchedStream, PoolTypeOK
    <3>2. Head(schedQ).op = "copy"
      BY <3>1 DEF Copies
    <3>. QED  BY <2>3, <3>2 DEF SchedStream, Did
  <2>4. CASE Schedule
    BY <2>4 DEF Schedule
  <2>5. CASE PostStart \/ FreeRows \/ \E u \in Uids : Abort(u)
    BY <2>5 DEF PostStart, FreeRows, Abort
  <2>. QED  BY <2>1, <2>2, <2>3, <2>4, <2>5 DEF PoolNext
<1>6. \A m \in misread' : Excused(m)'
  BY <1>3, <1>4, <1>5
<1>. QED  BY <1>6 DEF TokensIntended, NormalReadsIntended, ReadsIntended, DecodeIntended, OnlyLateWrites, Excused

LEMMA PoolStutters ==
  ASSUME PoolInv /\ TokensIntended, UNCHANGED poolVars PROVE PoolInv' /\ TokensIntended'
<1>1. UNCHANGED <<overlap, pc, waiting, chunked, running, plen, end, cached, device, row, freeRows, cur, last, toFree,
                  finished, deferred, launched, schedQ, schedDone, schedAll, engineQ, runsDone, pool, misread>>
  BY DEF poolVars, host
<1>2. PoolTypeOK'
  BY <1>1 DEF PoolInv, PoolTypeOK
<1>3. HostInv'
  BY <1>1 DEF PoolInv, HostInv, Apart, Phases, Chunks, Ended, Lengths, Freeing, Data
<1>4. RowInv'
  BY <1>1 DEF PoolInv, RowInv, Owners
<1>5. Counting' /\ Serial'
  BY <1>1 DEF PoolInv, Counting, Serial, Some, Data
<1>6. Shape'
  BY <1>1 DEF PoolInv, Shape, Order, Place, Counts, AllRead, ReadByCur, ReadByLast, No, AllCopied, CopyRead
<1>7. OpsInv'
  BY <1>1 DEF PoolInv, OpsInv, OpOK, CopyOK, RunOK, WriteOK
<1>8. SoundInv'
  BY <1>1 DEF PoolInv, SoundInv, ReadsSound, Sound, Intended, Copying, ExtraToken, LateWrite, Sampled, Live, Awaits,
              Will, Untouched
<1>9. TokensIntended'
  BY <1>1 DEF TokensIntended, NormalReadsIntended, ReadsIntended, DecodeIntended, OnlyLateWrites
<1>. QED  BY <1>2, <1>3, <1>4, <1>5, <1>6, <1>7, <1>8, <1>9 DEF PoolInv

(* Which tokens the engine may misread, and when.  In normal_loop, where one
   stream does everything, it reads no token that is not the request's.  In
   overlap_loop the only others are the next prompt's, read for the extra
   token of a request that has ended, and the sampled token that the previous
   owner of a row writes after _apply_deferred_aborts or the end of the request
   has freed it: never one of a request that goes on decoding. *)
THEOREM TokensIntendedCorrect == PoolSpec => []TokensIntended
<1>. USE TokenPoolAssumption
<1>1. PoolInit => PoolInv /\ TokensIntended
  <2>1. PoolInit => TokensIntended
    BY DEF PoolInit, TokensIntended, NormalReadsIntended, ReadsIntended, DecodeIntended, OnlyLateWrites
  <2>. QED  BY <2>1, PoolInvInit
<1>2. (PoolInv /\ TokensIntended) /\ [PoolNext]_poolVars => (PoolInv /\ TokensIntended)'
  BY PoolInvStep, IntendedStep, PoolStutters
<1>. QED  BY <1>1, <1>2, PTL DEF PoolSpec
=============================================================================
