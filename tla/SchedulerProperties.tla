------------------------ MODULE SchedulerProperties ------------------------
(***************************************************************************)
(* What the scheduler's loops must keep true, stated over Scheduler.       *)
(***************************************************************************)
EXTENDS Scheduler

Service == INSTANCE RequestService

(* Every variable has its type.  freeSlots and pending may in principle hold
   duplicates: that they do not is said below. *)
TypeOK ==
  /\ pc \in {"loop", "wait", "recv", "admit", "forward", "post", "defer",
             "drain", "stopped", "crashed"}
  /\ prompt \in [Uids -> Nat] /\ out \in [Uids -> Nat]
  /\ cached \in [Uids -> Nat] /\ device \in [Uids -> Nat]
  /\ slot \in [Uids -> Slots \union {NoSlot}]
  /\ pending \in Seq(Uids) /\ chunk \subseteq Uids /\ budget \in Nat
  /\ running \subseteq Uids
  /\ freeSlots \in Seq(Slots \union {NoSlot})
  /\ taken \in [Uids -> Int]
  /\ cur \in Batches /\ last \in Batches /\ todo \subseteq Uids
  /\ finished \subseteq Uids /\ newFinished \subseteq Uids
  /\ reply \subseteq [uid : Uids, finished : BOOLEAN]
  /\ inflight \subseteq Uids /\ deferred \subseteq Uids /\ acks \in [Uids -> Nat]
  /\ arrived \subseteq Uids /\ aborts \in [Uids -> Nat]
  /\ sent \in [Uids -> Seq({"token", "final", "ack"})]

-----------------------------------------------------------------------------
(* The requests of the batch awaiting post-processing that the running loops
   have still to visit. *)
Unprocessed ==
  CASE pc \in {"loop", "wait", "recv", "admit", "forward"} -> Data.reqs
    [] pc = "post"  -> todo \union (Data.reqs \intersect deferred)
    [] pc = "defer" -> todo
    [] OTHER -> {}

(* The requests that hold a row of the page table and KV pages: chunked
   prefills, running requests, and those of a batch in flight that were not
   found finished by an earlier or the present post-processing. *)
Holders ==
  LET gone == finished \union newFinished
  IN  chunk \union running \union (Unprocessed \ finished) \union (cur.reqs \ gone)

Serving == pc \notin {"drain", "stopped", "crashed"}

(* A row of the page table is free or belongs to exactly one holder, and no
   row is lost: two requests sharing a row would write each other's KV and
   tokens.  (_free_req_resources, and the second-free guard that
   _process_last_data keeps because a batch may still hold a request the
   previous one finished.) *)
SlotsExclusive ==
  Serving =>
    /\ IsInjective(freeSlots)
    /\ \A u \in Holders : slot[u] \notin Range(freeSlots)
    /\ \A u, v \in Holders : slot[u] = slot[v] => u = v
    /\ Range(freeSlots) \union {slot[u] : u \in Holders} = Slots

(* Page accounting across requests, chunks, zombies and aborts: a holder has
   drawn exactly the pages of its cached tokens, and everyone else has
   returned all it drew, neither fewer (a leak) nor more (a double free). *)
PagesExact ==
  Serving =>
    \A u \in Uids : taken[u] = IF u \in Holders THEN Pages(cached[u]) ELSE 0

(* The reservation made at admission suffices for the whole life of every
   admitted request: allocate_paged always finds the pages it needs ("Eviction
   did not free enough space." never fires), and run_when_idle's
   check_integrity always passes. *)
NeverCrashes == pc /= "crashed"

(* No abort has found a request already finished: _apply_deferred_aborts
   would free it again. *)
NoLateAbort == \A u \in Uids : aborts[u] > 0 => "final" \notin Range(sent[u])

(* Short of such an abort the three above hold in overlap_loop too, through
   the abort fence and the extra forward that a finished request gets: the
   second-free guard skips a request that the batch before has finished, the
   pages come out even whatever the order of chunks, ends and deferred frees,
   and the extra forward draws no page that another was promised. *)
ExactUnlessLate == NoLateAbort => SlotsExclusive /\ PagesExact /\ NeverCrashes

(* The assertion of CacheManager._allocate, "Eviction did not free enough
   space.": the batch about to run finds the pages it needs. *)
RoomForBatch == pc = "forward" => NeededPages <= FreePages

(* Every request about to run has tokens to compute (the assertions of
   Req.__post_init__) and room in its row for the token it will sample,
   through chunking, decoding and the extra forward that overlap scheduling
   gives a finished request. *)
ReqBounds ==
  pc = "forward" =>
    \A u \in cur.reqs : /\ 0 <= cached[u] /\ cached[u] < device[u]
                        /\ device[u] < prompt[u] + out[u]
                        /\ prompt[u] + out[u] <= MaxSeqLen

(* The abort fence: between its abort message and the release of its
   resources a deferred request can enter no batch and gets no reply, and it
   is always in the batch whose post-processing will release it. *)
FenceHolds ==
  \A u \in deferred :
    /\ u \in last.reqs
    /\ u \notin Range(pending) \union chunk \union running \union cur.reqs
    /\ \A r \in reply : r.uid /= u

(* Once the scheduler has read the abort of a request, all it ever sends for
   it are acknowledgements, whichever batch the request was in. *)
AbortSilences ==
  [][\A u \in Uids : aborts[u] > 0 =>
       \A i \in Len(sent[u]) + 1 .. Len(sent'[u]) : sent'[u][i] = "ack"]_vars

(* An acknowledgement leaves only when the aborted request holds nothing and
   is queued nowhere. *)
AckMeansReleased ==
  [][\A u \in Uids : (sent'[u] /= sent[u] /\ Last(sent'[u]) = "ack") =>
       u \notin Holders' \union Range(pending')]_vars

(* Overlap scheduling may send one more token for a request after its final
   one (the batch in flight when it finished), never two. *)
OneTrailingToken ==
  \A u \in Uids : \A i \in DOMAIN sent[u] :
    sent[u][i] = "final" =>
      Cardinality({j \in i + 1 .. Len(sent[u]) : sent[u][j] /= "ack"}) <= 1

(* Unless the process ends, every request that was queued is answered (its
   last token or the acknowledgement of its abort goes out), and every abort
   message is acknowledged. *)
Sent(u, kinds) == \E i \in DOMAIN sent[u] : sent[u][i] \in kinds
Answered ==
  \A u \in Uids : /\ u \in Range(pending) ~> (Sent(u, {"final", "ack"}) \/ ~Serving)
                  /\ aborts[u] > 0 ~> (Sent(u, {"ack"}) \/ ~Serving)

(* A client sees exactly the abstract service: one token after another, the
   last one marked, nothing after it, nothing but acknowledgements after an
   abort. *)
ImplementsService == Service!Spec

(* Shutdown in the middle of any tick of normal_loop returns every row. *)
DrainReturnsSlots ==
  pc = "stopped" => IsInjective(freeSlots) /\ Range(freeSlots) = Slots

(* The guarantee _drain_requests documents: check_integrity passes when it
   returns. *)
DrainPassesIntegrity == pc = "stopped" => FreePages = NumPages
=============================================================================
