----------------------------- MODULE BatchLayout -----------------------------
(***************************************************************************)
(* From a batch to the arrays the kernels read: padding to a captured      *)
(* graph, positions, write locations, the metadata of the attention        *)
(* backends, and the buffers that replaying a graph reuses from batch to   *)
(* batch.  A backend is right when every token of the batch reads the KV   *)
(* of its own row at the positions up to its own, and writes its own slot. *)
(***************************************************************************)
EXTENDS Integers, Sequences, FiniteSets, SequencesExt, FiniteSetsExt

CONSTANTS
  NumReqs,    \* rows of requests; the row after them is the dummy request's
  Width,      \* columns of page_table (aligned_max_seq_len)
  PageSizes,  \* bound: page sizes
  Graphs,     \* bound: graph_bs_list, empty for eager execution
  MaxPrefill, \* bound: requests of a prefill batch
  MaxBatches  \* bound: batches launched

ASSUME BatchAssumption ==
  /\ NumReqs \in Nat \ {0} /\ Width \in Nat \ {0} /\ MaxPrefill \in Nat \ {0}
  /\ MaxBatches \in Nat
  /\ PageSizes \subseteq Nat \ {0} /\ \A g \in Graphs : g \subseteq Nat \ {0}

VARIABLES
  pageSize, graphs,
  batches,  \* batches launched
  batch,    \* the batch launched last
  capture,  \* capture buffers: kLens, cuK, table, outLoc, positions
  fitted    \* whether the last copy into them had the room

batchVars == <<pageSize, graphs, batches, batch, capture, fitted>>

Ceil(a, b) == (a + b - 1) \div b
PagesPerRow == Ceil(Width, pageSize)
NumSlots == NumReqs * PagesPerRow * pageSize
DummyRow == NumReqs

\* page_table: slots, not pages; the pages of the rows interleave here, and
\* the row of the dummy request points at the page after all others.
PageTable(row, pos) ==
  IF row = DummyRow THEN NumSlots
  ELSE ((pos \div pageSize) * NumReqs + row) * pageSize + (pos % pageSize)

Dummy == [row |-> DummyRow, cached |-> 0, device |-> 1]
ExtendLen(r) == r.device - r.cached
Total(seq) == FoldSeq(LAMBDA n, sum : n + sum, 0, seq)

\* torch.tensor([0] + lengths).cumsum
CumSum(lengths) == [i \in 1 .. Len(lengths) + 1 |-> Total(SubSeq(lengths, 1, i - 1))]

-----------------------------------------------------------------------------
(* Padding and the scheduler's tuples                                      *)

MaxGraph == IF graphs = {} THEN 0 ELSE Max(graphs)
CanUseGraph(b) == b.decode /\ Len(b.reqs) <= MaxGraph

PaddedReqs(b) ==
  IF CanUseGraph(b)
  THEN LET size == Min({g \in graphs : g >= Len(b.reqs)})
       IN  b.reqs \o [i \in 1 .. size - Len(b.reqs) |-> Dummy]
  ELSE b.reqs

\* The row and the position of every token, request by request
Tokens(reqs) ==
  FlattenSeq([i \in DOMAIN reqs |->
    [j \in 1 .. ExtendLen(reqs[i]) |-> [row |-> reqs[i].row, pos |-> reqs[i].cached + j - 1]]])

Positions(reqs) == [x \in DOMAIN Tokens(reqs) |-> Tokens(reqs)[x].pos]
OutLoc(reqs) == [x \in DOMAIN Tokens(reqs) |-> PageTable(Tokens(reqs)[x].row, Tokens(reqs)[x].pos)]

-----------------------------------------------------------------------------
(* prepare_metadata                                                        *)

Extends(reqs) == [i \in DOMAIN reqs |-> ExtendLen(reqs[i])]
Devices(reqs) == [i \in DOMAIN reqs |-> reqs[i].device]

\* cu_seqlens_q: one token each, no prefix cached, or the general case
CuQ(reqs) ==
  IF Max(Range(Extends(reqs))) = 1 THEN [i \in 1 .. Len(reqs) + 1 |-> i - 1]
  ELSE IF \A r \in Range(reqs) : r.cached = 0 THEN CumSum(Devices(reqs))
  ELSE CumSum(Extends(reqs))

TableLen(reqs) == Ceil(Max(Range(Devices(reqs))), pageSize)

\* flash-attention and TensorRT-LLM: the pages of the longest request, for each
Table(reqs) ==
  [i \in DOMAIN reqs |->
    [j \in 1 .. TableLen(reqs) |-> PageTable(reqs[i].row, (j - 1) * pageSize) \div pageSize]]

FaultyIndices(reqs) ==
  FlattenSeq([i \in DOMAIN reqs |-> [j \in 1 .. reqs[i].device |-> PageTable(reqs[i].row, 0) + j - 1]])

\* FlashInfer: the slots of every request, end to end
Indices(reqs) ==
  FlattenSeq([i \in DOMAIN reqs |-> [j \in 1 .. reqs[i].device |-> PageTable(reqs[i].row, j - 1)]])

\* get_last_indices: counted from zero
LastIndices(reqs, n) == [i \in 1 .. n |-> CuQ(reqs)[i + 1] - 1]

-----------------------------------------------------------------------------
(* Capture and replay                                                      *)

TableColumns == Width \div pageSize

\* The capture buffers as init_capture_graph leaves them
Fresh ==
  [kLens |-> [i \in 1 .. MaxGraph |-> 1], cuK |-> [i \in 1 .. MaxGraph + 1 |-> i - 1],
   table |-> [i \in 1 .. MaxGraph |-> [j \in 1 .. TableColumns |-> 0]],
   outLoc |-> [i \in 1 .. MaxGraph |-> 0], positions |-> [i \in 1 .. MaxGraph |-> 0]]

\* The first entries of a buffer replaced, the rest left as they were
Over(old, new) == [i \in DOMAIN old |-> IF i \in DOMAIN new THEN new[i] ELSE old[i]]

\* copy_from and prepare_for_replay
Copied(reqs) ==
  [capture EXCEPT !.kLens = Over(@, Devices(reqs)), !.cuK = Over(@, CumSum(Devices(reqs))),
                  !.table = [i \in DOMAIN @ |-> IF i \in DOMAIN reqs THEN Over(@[i], Table(reqs)[i]) ELSE @[i]],
                  !.outLoc = Over(@, OutLoc(reqs)), !.positions = Over(@, Positions(reqs))]

\* capture.page_table[:bs, :table_len] has table_len columns.
Fits(reqs) == TableLen(reqs) <= TableColumns

-----------------------------------------------------------------------------
Reqs(row) == {r \in [row : {row}, cached : 0 .. Width - 1, device : 1 .. Width] : r.cached < r.device}
Decoding(row) == {r \in Reqs(row) : ExtendLen(r) = 1}

NoBatch == [decode |-> FALSE, reqs |-> <<>>]

BatchInit ==
  /\ pageSize \in PageSizes /\ graphs \in Graphs
  /\ batches = 0 /\ batch = NoBatch /\ fitted = TRUE
  /\ capture = Fresh

\* A prefill batch takes the requests in the order they wait in, a decode batch
\* sorts them by uid: either way their rows come in any order.
Launch(b) ==
  /\ batch' = b /\ batches' = batches + 1
  /\ LET reqs == PaddedReqs(b)
     IN  IF CanUseGraph(b)
         THEN /\ fitted' = Fits(reqs)
              /\ capture' = IF Fits(reqs) THEN Copied(reqs) ELSE capture
         ELSE UNCHANGED <<capture, fitted>>
  /\ UNCHANGED <<pageSize, graphs>>

Prefilled ==
  \E rows \in UNION {[1 .. n -> 0 .. NumReqs - 1] : n \in 1 .. MaxPrefill} :
    /\ IsInjective(rows)
    /\ \E reqs \in {s \in [DOMAIN rows -> UNION {Reqs(r) : r \in 0 .. NumReqs - 1}] :
                      \A i \in DOMAIN rows : s[i].row = rows[i]} :
         Launch([decode |-> FALSE, reqs |-> reqs])

Decoded ==
  \E rows \in UNION {[1 .. n -> 0 .. NumReqs - 1] : n \in 1 .. NumReqs} :
    /\ IsInjective(rows)
    /\ \E reqs \in {s \in [DOMAIN rows -> UNION {Decoding(r) : r \in 0 .. NumReqs - 1}] :
                      \A i \in DOMAIN rows : s[i].row = rows[i]} :
         Launch([decode |-> TRUE, reqs |-> reqs])

\* A copy that does not fit raises.
BatchNext == fitted /\ batches < MaxBatches /\ (Prefilled \/ Decoded)

-----------------------------------------------------------------------------
(* What the kernels do with the arrays: [writes, pos, reads] for each token *)

\* The request a token belongs to, and what is left of it after the token
Owner(cuQ, x) == CHOOSE i \in 1 .. Len(cuQ) - 1 : cuQ[i] < x /\ x <= cuQ[i + 1]

\* Causal attention over a block table: the last token of a request sees
\* kLens of them, the one before it one less.
Paged(cuQ, kLens, table, outLoc, positions) ==
  [x \in 1 .. cuQ[Len(cuQ)] |->
    LET i == Owner(cuQ, x)
    IN  [writes |-> outLoc[x], pos |-> positions[x],
         reads |-> [k \in 1 .. kLens[i] - (cuQ[i + 1] - x) |->
                     table[i][(k - 1) \div pageSize + 1] * pageSize + ((k - 1) % pageSize)]]]

\* The same over ragged indices
Ragged(cuQ, cuK, indices, outLoc, positions) ==
  [x \in 1 .. cuQ[Len(cuQ)] |->
    LET i == Owner(cuQ, x)
    IN  [writes |-> outLoc[x], pos |-> positions[x],
         reads |-> [k \in 1 .. cuK[i + 1] - cuK[i] - (cuQ[i + 1] - x) |-> indices[cuK[i] + k]]]]

\* torch_native: request by request, with a mask by position
Native(reqs) ==
  FlattenSeq([i \in DOMAIN reqs |->
    [j \in 1 .. ExtendLen(reqs[i]) |->
      LET locations == [k \in 1 .. reqs[i].device |-> PageTable(reqs[i].row, k - 1)]
          at == Total(SubSeq(Extends(reqs), 1, i - 1)) + j
      IN  [writes |-> OutLoc(reqs)[at], pos |-> Positions(reqs)[at],
           reads |-> SubSeq(locations, 1, reqs[i].cached + j)]]])

\* What each token should do
Reference(reqs) ==
  [x \in DOMAIN Tokens(reqs) |->
    LET t == Tokens(reqs)[x]
    IN  [writes |-> PageTable(t.row, t.pos), pos |-> t.pos,
         reads |-> [k \in 1 .. t.pos + 1 |-> PageTable(t.row, k - 1)]]]

OnePerReq(reqs) == [i \in 1 .. Len(reqs) + 1 |-> i - 1]

\* Of a replay only the copies in the capture buffers count.
Replayed(reqs) ==
  Paged(OnePerReq(reqs), capture.kLens, capture.table, capture.outLoc, capture.positions)

FlashAttention ==
  LET reqs == PaddedReqs(batch)
  IN  IF CanUseGraph(batch) THEN Replayed(reqs)
      ELSE Paged(CuQ(reqs), Devices(reqs), Table(reqs), OutLoc(reqs), Positions(reqs))

\* The context kernel is told where the queries of a request begin; the decode
\* kernel takes one query of each.
TensorRTLLM ==
  LET reqs == PaddedReqs(batch)
      cuQ  == IF batch.decode THEN OnePerReq(reqs) ELSE CuQ(reqs)
  IN  IF CanUseGraph(batch) THEN Replayed(reqs)
      ELSE Paged(cuQ, Devices(reqs), Table(reqs), OutLoc(reqs), Positions(reqs))

FlashInfer ==
  LET reqs == PaddedReqs(batch)
  IN  Ragged(CuQ(reqs), CumSum(Devices(reqs)), Indices(reqs), OutLoc(reqs), Positions(reqs))

\* "fa,fi": one backend prefills and the other decodes
Hybrid == IF batch.decode THEN FlashInfer ELSE FlashAttention

Launched == batch /= NoBatch /\ fitted

(* With the block tables of flash-attention and TensorRT-LLM every token of a
   batch, padding included, attends to its own row up to its own position and
   writes its own slot, whatever the buffers of the graph held before. *)
PagedRight ==
  Launched => /\ FlashAttention = Reference(PaddedReqs(batch))
              /\ TensorRTLLM = Reference(PaddedReqs(batch))

(* FlashInfer's ragged indices, a backend for each phase and the eager backend
   come to the same. *)
BackendsAgree ==
  Launched => /\ FlashInfer = Reference(PaddedReqs(batch))
              /\ Hybrid = Reference(PaddedReqs(batch))
              /\ graphs = {} => Native(batch.reqs) = Reference(batch.reqs)

(* The rows of the batch whose logits are sampled are the last tokens of its
   requests, one for each and in their order: of a prefill by their indices,
   of a decode the first rows, so that no padding is sampled. *)
LastSampled ==
  Launched =>
    \A i \in DOMAIN batch.reqs :
      LET at == IF batch.decode THEN i ELSE LastIndices(PaddedReqs(batch), Len(batch.reqs))[i] + 1
      IN  Reference(PaddedReqs(batch))[at].writes
            = PageTable(batch.reqs[i].row, batch.reqs[i].device - 1)

(* While the pages fill a row exactly, a captured block table has a column for
   every page a request may have.  A row that ends inside a page (a page size
   that does not divide the 32 it is aligned to) has no room for that page,
   here and in the page table. *)
TablesFit == Width % pageSize = 0 => fitted

(* A batch means the same to all of them: the backends, the captured graph
   and the sampler. *)
LayoutRight == PagedRight /\ BackendsAgree /\ LastSampled /\ TablesFit
=============================================================================
