-------------------------- MODULE SchedulerProofs --------------------------
(***************************************************************************)
(* Scheduler, proved for both loops and every value of the constants: its  *)
(* types and its abort fence, and who holds a row of the page table and KV *)
(* pages.  Each row is free or one holder's, no page is leaked or freed    *)
(* twice, every request that runs has tokens to compute, and a shutdown of *)
(* normal_loop returns every row.  In overlap_loop what is said of rows    *)
(* and pages holds up to the first abort of a request that has had its     *)
(* final message, which the code releases twice.  And what a client is     *)
(* sent: normal_loop implements RequestService.                            *)
(***************************************************************************)
EXTENDS SchedulerProperties, CommonTheorems

(* The pages of a length: div_ceil of a natural is a natural. *)
LEMMA PagesType == ASSUME NEW n \in Nat PROVE Pages(n) \in Nat
BY ConstantsAssumption DEF Pages

-----------------------------------------------------------------------------
LEMMA NewPagesType == ASSUME TypeOK, NEW u \in Uids PROVE NewPages(u) \in Int
<1>1. device[u] \in Nat /\ cached[u] \in Nat
  BY DEF TypeOK
<1>2. Pages(device[u]) \in Nat /\ Pages(cached[u]) \in Nat
  BY <1>1, PagesType
<1>. QED
  BY <1>2 DEF NewPages

(* _free_req_resources pushes a row on the stack and returns pages. *)
LEMMA FreeType ==
  ASSUME TypeOK, NEW u \in Uids, FreeReqResources(u)
  PROVE  freeSlots' \in Seq(Slots \union {NoSlot}) /\ taken' \in [Uids -> Int]
<1>1. Pages(cached[u]) \in Nat
  BY PagesType DEF TypeOK
<1>2. freeSlots' \in Seq(Slots \union {NoSlot})
  <2>1. slot[u] \in Slots \union {NoSlot} /\ freeSlots \in Seq(Slots \union {NoSlot})
    BY DEF TypeOK
  <2>. QED  BY <2>1, AppendProperties DEF FreeReqResources
<1>3. taken' \in [Uids -> Int]
  BY <1>1 DEF FreeReqResources, TypeOK
<1>. QED
  BY <1>2, <1>3

(* PrefillManager.abort_req leaves a list of requests. *)
LEMMA RemovePendingType ==
  ASSUME TypeOK, NEW u \in Uids, RemovePending(u)
  PROVE  pending' \in Seq(Uids) /\ chunk' \subseteq Uids
<1>1. pending \in Seq(Uids) /\ chunk \subseteq Uids
  BY DEF TypeOK
<1>2. CASE u \in Range(pending)
  <2>1. PICK i \in DOMAIN pending : pending' = RemoveAt(pending, i)
    BY <1>2 DEF RemovePending
  <2>. QED  BY <1>1, <2>1, RemoveAtProperties DEF RemovePending
<1>. QED
  BY <1>1, <1>2 DEF RemovePending

(* Both loops, with every abort and shutdown, keep every variable in its type:
   in particular budgets and lengths never go below zero. *)
THEOREM TypeCorrect == Spec => []TypeOK
<1>1. Init => TypeOK
  BY ConstantsAssumption DEF Init, TypeOK, Slots, NoSlot, Batches, NoBatch
<1>2. TypeOK /\ [Next]_vars => TypeOK'
  <2> SUFFICES ASSUME TypeOK, [Next]_vars PROVE TypeOK'
    OBVIOUS
  <2> USE ConstantsAssumption DEF TypeOK, Batches
  <2>1. CASE BeginTick
    BY <2>1 DEF BeginTick, Blocking, reqVars, pendVars, loopVars, envVars
  <2>2. ASSUME NEW u \in Uids, HandleUser(u) PROVE TypeOK'
    <3>1. PICK p \in PromptLens, m \in OutLens :
            IF MaxSeqLen - p <= 0
            THEN UNCHANGED <<prompt, out, pending>>
            ELSE /\ prompt' = [prompt EXCEPT ![u] = p]
                 /\ out' = [out EXCEPT ![u] = IF m > MaxSeqLen - p THEN MaxSeqLen - p ELSE m]
                 /\ pending' = Append(pending, u)
      BY <2>2 DEF HandleUser
    <3>2. p \in Nat /\ m \in Nat /\ MaxSeqLen \in Nat
      OBVIOUS
    <3>3. CASE MaxSeqLen - p <= 0
      <4>1. UNCHANGED <<prompt, out, pending>>
        BY <3>1, <3>3
      <4>. QED
        BY <2>2, <4>1 DEF HandleUser, loopVars, fenceVars
    <3>4. CASE ~(MaxSeqLen - p <= 0)
      <4> DEFINE n == IF m > MaxSeqLen - p THEN MaxSeqLen - p ELSE m
      <4>1. /\ prompt' = [prompt EXCEPT ![u] = p]
            /\ out' = [out EXCEPT ![u] = n]
            /\ pending' = Append(pending, u)
        BY <3>1, <3>4
      <4>2. n \in Nat
        BY <3>2, <3>4
      <4> HIDE DEF n
      <4>3. prompt' \in [Uids -> Nat] /\ out' \in [Uids -> Nat]
        BY <3>2, <4>1, <4>2
      <4>4. pending' \in Seq(Uids)
        BY <4>1, AppendProperties
      <4>. QED
        BY <2>2, <4>3, <4>4 DEF HandleUser, loopVars, fenceVars
    <3>. QED  BY <3>3, <3>4
  <2>3. ASSUME NEW u \in Uids, HandleAbort(u) PROVE TypeOK'
    <3>1. pending' \in Seq(Uids) /\ chunk' \subseteq Uids /\ running' \subseteq Uids
      <4>1. RemovePending(u) /\ RemoveRunning(u)
        BY <2>3 DEF HandleAbort, DeferAbort, AbortNow
      <4>. QED  BY <4>1, RemovePendingType DEF RemoveRunning
    <3>2. freeSlots' \in Seq(Slots \union {NoSlot}) /\ taken' \in [Uids -> Int]
      BY <2>3, FreeType DEF HandleAbort, DeferAbort, AbortNow
    <3>3. deferred' \subseteq Uids /\ acks' \in [Uids -> Nat]
      <4>1. CASE DeferAbort(u)
        BY <4>1 DEF DeferAbort
      <4>2. CASE AbortNow(u)
        BY <4>2 DEF AbortNow
      <4>. QED  BY <2>3, <4>1, <4>2 DEF HandleAbort
    <3>4. aborts' \in [Uids -> Nat] /\ pc' = "recv"
      BY <2>3 DEF HandleAbort
    <3>. QED
      BY <2>3, <3>1, <3>2, <3>3, <3>4 DEF HandleAbort, reqVars, loopVars
  <2>4. CASE EndReceive
    BY <2>4 DEF EndReceive, reqVars, loopVars, fenceVars, envVars
  <2>5. CASE TryAddOne
    <3> DEFINE u    == Head(pending)
               from == IF u \in chunk THEN cached[u] ELSE 0
               size == ChunkSize(prompt[u] - from)
    <3>1. pending /= <<>> /\ u \in Uids /\ Tail(pending) \in Seq(Uids)
      BY <2>5, HeadTailProperties DEF TryAddOne, CanAdd
    <3>2. from \in Nat /\ size \in Int /\ size <= budget /\ from + size \in Nat
      <4>1. prompt[u] \in Nat /\ cached[u] \in Nat /\ budget \in Nat
        BY <3>1
      <4>2. from \in Nat
        BY <4>1
      <4> HIDE DEF from
      <4>3. prompt[u] - from \in Int
        BY <4>1, <4>2
      <4> DEFINE rest == prompt[u] - from
      <4>4. size \in Int /\ size <= budget /\ (size = budget \/ size = rest)
        <5> HIDE DEF rest
        <5>. QED  BY <4>1, <4>3 DEF rest, ChunkSize
      <4>5. from + size \in Nat
        <5>1. from + rest = prompt[u]
          BY <4>1, <4>2
        <5> HIDE DEF rest, size
        <5>. QED  BY <4>1, <4>2, <4>4, <5>1
      <4>. QED  BY <4>2, <4>4, <4>5
    <3>3. cached' \in [Uids -> Nat] /\ device' \in [Uids -> Nat]
      BY <2>5, <3>1, <3>2 DEF TryAddOne
    <3>4. budget' \in Nat
      BY <2>5, <3>2 DEF TryAddOne
    <3>5. slot' \in [Uids -> Slots \union {NoSlot}] /\ freeSlots' \in Seq(Slots \union {NoSlot})
      <4>1. CASE u \in chunk
        BY <2>5, <4>1 DEF TryAddOne
      <4>2. CASE u \notin chunk
        <5>1. freeSlots /= <<>>
          BY <2>5, <4>2 DEF TryAddOne, CanAdd, CanAllocate
        <5>2. Len(freeSlots) \in Nat \ {0} /\ Last(freeSlots) \in Slots \union {NoSlot}
          BY <5>1 DEF Last
        <5>3. Front(freeSlots) \in Seq(Slots \union {NoSlot})
          BY <5>2, SubSeqProperties DEF Front
        <5>4. slot' = [slot EXCEPT ![u] = Last(freeSlots)] /\ freeSlots' = Front(freeSlots)
          BY <2>5, <4>2 DEF TryAddOne
        <5>. QED  BY <3>1, <5>2, <5>3, <5>4
      <4>. QED  BY <4>1, <4>2
    <3>6. pending' \in Seq(Uids) /\ chunk' \subseteq Uids
      BY <2>5, <3>1 DEF TryAddOne
    <3>7. cur' \in Batches
      BY <2>5, <3>1 DEF TryAddOne
    <3>. QED
      BY <2>5, <3>3, <3>4, <3>5, <3>6, <3>7 DEF TryAddOne, fenceVars, envVars
  <2>6. CASE CloseBatch
    BY <2>6 DEF CloseBatch, reqVars, pendVars, fenceVars, envVars
  <2>7. CASE Forward
    <3>1. CASE NeededPages > FreePages
      BY <2>7, <3>1 DEF Forward, reqVars, pendVars, fenceVars, envVars
    <3>2. CASE ~(NeededPages > FreePages)
      <4>1. \A u \in Uids : NewPages(u) \in Int
        BY NewPagesType
      <4>2. taken' \in [Uids -> Int]
        BY <2>7, <3>2, <4>1 DEF Forward
      <4>3. cached' \in [Uids -> Nat] /\ device' \in [Uids -> Nat]
        <5>1. \A u \in Uids : device[u] \in Nat /\ device[u] + 1 \in Nat /\ cached[u] \in Nat
          OBVIOUS
        <5>2. /\ cached' = [u \in Uids |-> IF u \in cur.reqs THEN device[u] ELSE cached[u]]
              /\ device' = [u \in Uids |-> IF u \in cur.reqs THEN device[u] + 1 ELSE device[u]]
          BY <2>7, <3>2 DEF Forward
        <5>3. cached' \in [Uids -> Nat]
          BY <5>1, <5>2
        <5>4. device' \in [Uids -> Nat]
          BY <5>1, <5>2
        <5>. QED  BY <5>3, <5>4
      <4>4. running' \subseteq Uids /\ todo' \subseteq Uids /\ pc' = "post"
        <5>1. cur.reqs \subseteq Uids /\ last.reqs \subseteq Uids
          OBVIOUS
        <5>. QED  BY <2>7, <3>2, <5>1 DEF Forward, Data
      <4>. QED
        BY <2>7, <4>2, <4>3, <4>4 DEF Forward, pendVars, fenceVars, envVars
    <3>. QED  BY <3>1, <3>2
  <2>8. ASSUME NEW u \in Uids, PostProcess(u) PROVE TypeOK'
    <3>1. CASE Skipped(u)
      BY <2>8, <3>1 DEF PostProcess, reqVars, pendVars, fenceVars, envVars
    <3>2. CASE ~Skipped(u)
      <4>1. reply' \subseteq [uid : Uids, finished : BOOLEAN]
        <5>1. PICK stops \in BOOLEAN :
                reply' = reply \union {[uid |-> u, finished |-> Ends(u, stops)]}
          BY <2>8, <3>2 DEF PostProcess
        <5>2. Ends(u, stops) \in BOOLEAN
          BY DEF Ends
        <5>. QED  BY <5>1, <5>2
      <4>2. freeSlots' \in Seq(Slots \union {NoSlot}) /\ taken' \in [Uids -> Int]
        BY <2>8, <3>2, FreeType DEF PostProcess
      <4>3. running' \subseteq Uids /\ newFinished' \subseteq Uids
        BY <2>8, <3>2 DEF PostProcess, RemoveRunning
      <4>. QED
        BY <2>8, <4>1, <4>2, <4>3 DEF PostProcess, reqVars, pendVars, fenceVars, envVars
    <3>. QED  BY <3>1, <3>2
  <2>9. CASE SendResult
    <3>1. \A u \in Uids : ReplyTo(u) \in Seq({"token", "final", "ack"})
      <4>1. /\ <<"final">> \in Seq({"token", "final", "ack"})
            /\ <<"token">> \in Seq({"token", "final", "ack"})
            /\ <<>> \in Seq({"token", "final", "ack"})
        OBVIOUS
      <4>. QED  BY <4>1 DEF ReplyTo
    <3>2. sent' \in [Uids -> Seq({"token", "final", "ack"})]
      <4>1. \A u \in Uids : sent[u] \o ReplyTo(u) \in Seq({"token", "final", "ack"})
        BY <3>1, ConcatProperties
      <4>. QED  BY <2>9, <4>1 DEF SendResult
    <3>3. cur.reqs \subseteq Uids /\ last.reqs \subseteq Uids
      OBVIOUS
    <3>4. todo' \subseteq Uids /\ finished' \subseteq Uids
      BY <2>9, <3>3 DEF SendResult, Data, FinishedAfter
    <3>. QED
      BY <2>9, <3>2, <3>4 DEF SendResult, reqVars, pendVars, fenceVars
  <2>10. ASSUME NEW u \in Uids, FreeDeferred(u) PROVE TypeOK'
    <3>1. freeSlots' \in Seq(Slots \union {NoSlot}) /\ taken' \in [Uids -> Int]
      BY <2>10, FreeType DEF FreeDeferred
    <3>2. acks' \in [Uids -> Nat]
      BY <2>10 DEF FreeDeferred
    <3>. QED
      BY <2>10, <3>1, <3>2 DEF FreeDeferred, reqVars, pendVars, envVars
  <2>11. CASE FlushAcks
    <3>1. \A u \in Uids : [i \in 1 .. acks[u] |-> "ack"] \in Seq({"token", "final", "ack"})
      OBVIOUS
    <3>2. sent' \in [Uids -> Seq({"token", "final", "ack"})]
      <4>1. \A u \in Uids : sent[u] \o [i \in 1 .. acks[u] |-> "ack"] \in Seq({"token", "final", "ack"})
        BY <3>1, ConcatProperties
      <4>. QED  BY <2>11, <4>1 DEF FlushAcks
    <3>3. last' \in Batches /\ cur' \in Batches /\ acks' \in [Uids -> Nat]
      BY <2>11 DEF FlushAcks, NoBatch
    <3>. QED
      BY <2>11, <3>2, <3>3 DEF FlushAcks, reqVars, pendVars
  <2>12. CASE HandleExit
    BY <2>12 DEF HandleExit, Drained, reqVars, pendVars, fenceVars, envVars
  <2>13. ASSUME NEW u \in Uids, DrainOne(u) PROVE TypeOK'
    <3>1. NewPages(u) \in Int /\ Pages(cached[u]) \in Int
      <4>1. cached[u] \in Nat
        OBVIOUS
      <4>2. Pages(cached[u]) \in Nat
        BY <4>1, PagesType
      <4>3. NewPages(u) \in Int
        BY NewPagesType
      <4>. QED  BY <4>2, <4>3
    <3>2. taken' \in [Uids -> Int]
      BY <2>13, <3>1 DEF DrainOne
    <3>3. freeSlots' \in Seq(Slots \union {NoSlot})
      <4>1. slot[u] \in Slots \union {NoSlot}
        OBVIOUS
      <4>. QED  BY <2>13, <4>1, AppendProperties DEF DrainOne
    <3>. QED
      BY <2>13, <3>2, <3>3 DEF DrainOne, reqVars, pendVars, fenceVars, envVars
  <2>14. CASE DrainEnd
    <3>1. /\ pc' = "stopped" /\ pending' = <<>> /\ chunk' = {} /\ running' = {}
          /\ finished' = {}
          /\ UNCHANGED <<reqVars, budget, freeSlots, taken, cur, last, todo, newFinished, reply,
                         fenceVars, envVars>>
      BY <2>14 DEF DrainEnd
    <3>2. pending' \in Seq(Uids)
      BY <3>1
    <3>3. UNCHANGED <<prompt, out, cached, device, slot, inflight, deferred, acks, arrived, aborts,
                      sent>>
      BY <3>1 DEF reqVars, fenceVars, envVars
    <3>. QED  BY <3>1, <3>2, <3>3
  <2>15. CASE UNCHANGED vars
    BY <2>15 DEF vars, reqVars, pendVars, fenceVars, loopVars, envVars
  <2>. QED
    BY <2>1, <2>2, <2>3, <2>4, <2>5, <2>6, <2>7, <2>8, <2>9, <2>10, <2>11, <2>12, <2>13,
       <2>14, <2>15 DEF Next, Arrival, Step, Idle
<1>. QED
  BY <1>1, <1>2, PTL DEF Spec

-----------------------------------------------------------------------------
(* The abort fence, for both loops: what is read of an aborted request     *)
(* before its resources are released, and that it gets nothing but         *)
(* acknowledgements.                                                       *)


(* Nothing the loop may read again holds a request whose abort was read, but
   the batch not post-processed yet, and that only if the abort is deferred. *)
Fenced(u) ==
  /\ u \in arrived
  /\ u \notin Range(pending) /\ u \notin chunk /\ u \notin running /\ u \notin cur.reqs
  /\ \A r \in reply : r.uid /= u
  /\ u \in last.reqs => u \in deferred

(* Where in the tick the batch being built, the replies and inflight_uids
   mean something. *)
TickPhases ==
  /\ pc \in {"loop", "wait", "recv"} => cur = NoBatch
  /\ pc /= "post" => reply = {}
  /\ pc \in {"wait", "recv"} => inflight = last.reqs
  /\ pc = "post" => todo \subseteq Data.reqs

PendingOnce == IsInjective(pending) /\ Range(pending) \subseteq arrived

AbortsFenced ==
  /\ \A u \in deferred : u \in last.reqs /\ aborts[u] > 0
  /\ \A u \in Uids : aborts[u] > 0 => Fenced(u)

(* The inductive invariant: FenceHolds alone does not survive a receive, where
   the batch that deferred requests belong to must be the one inflight_uids
   names, and an entry of the pending list must have no second copy. *)
FenceInv == PendingOnce /\ TickPhases /\ AbortsFenced

-----------------------------------------------------------------------------
(* PrefillManager.abort_req takes the request out of the list. *)
LEMMA RemovePendingOnce ==
  ASSUME TypeOK, PendingOnce, NEW u \in Uids, RemovePending(u)
  PROVE  IsInjective(pending') /\ Range(pending') \subseteq Range(pending) \ {u}
<1>1. pending \in Seq(Uids) /\ IsInjective(pending)
  BY DEF TypeOK, PendingOnce
<1>2. CASE u \in Range(pending)
  <2>1. PICK i \in DOMAIN pending : pending[i] = u /\ pending' = RemoveAt(pending, i)
    BY <1>2 DEF RemovePending
  <2>2. /\ IsInjective(RemoveAt(pending, i))
        /\ Range(RemoveAt(pending, i)) \subseteq Range(pending) \ {pending[i]}
    BY <1>1, RemoveAtOnce
  <2>. QED  BY <2>1, <2>2
<1>3. CASE u \notin Range(pending)
  <2>1. pending' = pending
    BY <1>3 DEF RemovePending
  <2>. QED  BY <1>1, <1>3, <2>1
<1>. QED
  BY <1>2, <1>3

-----------------------------------------------------------------------------
LEMMA FenceInit == Init => FenceInv
<1> SUFFICES ASSUME Init PROVE FenceInv
  OBVIOUS
<1>1. pending = <<>> /\ Range(pending) = {} /\ IsInjective(pending)
  BY DEF Init, Range, IsInjective
<1>2. \A u \in Uids : ~(aborts[u] > 0)
  BY DEF Init
<1>. QED
  BY <1>1, <1>2 DEF Init, FenceInv, PendingOnce, TickPhases, AbortsFenced, NoBatch

(* One message: an abort fences its request, a new request is not aborted. *)
LEMMA FenceReceive ==
  ASSUME TypeOK, FenceInv, Arrival PROVE FenceInv'
<1>1. ASSUME NEW v \in Uids, HandleUser(v) PROVE FenceInv'
  <2>0. /\ v \notin arrived /\ arrived' = arrived \union {v} /\ pc \in {"wait", "recv"}
        /\ pc' = "recv" /\ UNCHANGED <<chunk, running, loopVars, fenceVars, aborts>>
    BY <1>1 DEF HandleUser, Receiving
  <2>1. pending' = pending \/ pending' = Append(pending, v)
    BY <1>1 DEF HandleUser
  <2>2. v \notin Range(pending) /\ pending \in Seq(Uids)
    BY <2>0 DEF FenceInv, PendingOnce, TypeOK
  <2>3. IsInjective(pending') /\ Range(pending') \subseteq Range(pending) \union {v}
    <3>1. CASE pending' = pending
      BY <3>1 DEF FenceInv, PendingOnce
    <3>2. CASE pending' = Append(pending, v)
      BY <2>2, <3>2, AppendOnce DEF FenceInv, PendingOnce
    <3>. QED  BY <2>1, <3>1, <3>2
  <2>4. PendingOnce'
    BY <2>0, <2>3 DEF FenceInv, PendingOnce
  <2>5. TickPhases'
    BY <2>0 DEF FenceInv, TickPhases, Data, loopVars, fenceVars
  <2>6. AbortsFenced'
    BY <2>0, <2>3 DEF FenceInv, AbortsFenced, Fenced, loopVars, fenceVars
  <2>. QED  BY <2>4, <2>5, <2>6 DEF FenceInv
<1>2. ASSUME NEW v \in Uids, HandleAbort(v) PROVE FenceInv'
  <2>0. /\ v \in arrived /\ pc \in {"wait", "recv"} /\ pc' = "recv"
        /\ aborts' = [aborts EXCEPT ![v] = @ + 1]
        /\ UNCHANGED <<loopVars, inflight, arrived>>
        /\ RemovePending(v) /\ RemoveRunning(v)
    BY <1>2 DEF HandleAbort, Receiving, DeferAbort, AbortNow
  <2>1. cur = NoBatch /\ reply = {} /\ inflight = last.reqs
    BY <2>0 DEF FenceInv, TickPhases
  <2>2. /\ chunk' = chunk \ {v} /\ running' = running \ {v}
        /\ IsInjective(pending') /\ Range(pending') \subseteq Range(pending) \ {v}
    BY <2>0, RemovePendingOnce DEF FenceInv, RemovePending, RemoveRunning
  <2>3. PendingOnce'
    BY <2>0, <2>2 DEF FenceInv, PendingOnce
  <2>4. TickPhases'
    BY <2>0 DEF FenceInv, TickPhases, Data, loopVars
  <2>5. \/ v \in last.reqs /\ deferred' = deferred \union {v}
        \/ v \notin last.reqs /\ deferred' = deferred
    BY <1>2, <2>1 DEF HandleAbort, DeferAbort, AbortNow
  <2>6. aborts'[v] > 0 /\ \A u \in Uids : u /= v => aborts'[u] = aborts[u]
    BY <2>0 DEF TypeOK
  <2>7. Fenced(v)'
    BY <2>0, <2>1, <2>2, <2>5 DEF Fenced, NoBatch, loopVars
  <2>8. \A u \in Uids : Fenced(u) => Fenced(u)'
    BY <2>0, <2>2, <2>5 DEF Fenced, loopVars
  <2>9. \A u \in deferred' : u \in last'.reqs /\ aborts'[u] > 0
    <3>1. last' = last /\ deferred' \subseteq Uids /\ deferred \subseteq Uids
      BY <2>0, <2>5 DEF loopVars, TypeOK
    <3>2. \A u \in deferred : u \in last.reqs /\ aborts[u] > 0
      BY DEF FenceInv, AbortsFenced
    <3>. QED  BY <2>5, <2>6, <3>1, <3>2
  <2>10. AbortsFenced'
    BY <2>6, <2>7, <2>8, <2>9 DEF FenceInv, AbortsFenced
  <2>. QED  BY <2>3, <2>4, <2>10 DEF FenceInv
<1>3. ASSUME HandleExit PROVE FenceInv'
  <2>1. /\ pc \in {"wait", "recv"} /\ pc' = "drain"
        /\ UNCHANGED <<pending, chunk, running, cur, last, reply, inflight, deferred,
                       arrived, aborts>>
    BY <1>3 DEF HandleExit, Receiving, pendVars, fenceVars, envVars
  <2>2. PendingOnce' /\ TickPhases' /\ AbortsFenced'
    BY <2>1 DEF FenceInv, PendingOnce, TickPhases, AbortsFenced, Fenced
  <2>. QED  BY <2>2 DEF FenceInv
<1>. QED
  BY <1>1, <1>2, <1>3 DEF Arrival

(* A step of the process itself. *)
LEMMA FenceStep ==
  ASSUME TypeOK, FenceInv, Step PROVE FenceInv'
<1> USE DEF FenceInv
<1>1. ASSUME BeginTick PROVE FenceInv'
  <2>1. /\ pc = "loop" /\ pc' \in {"wait", "recv", "crashed"} /\ inflight' = last.reqs
        /\ UNCHANGED <<pending, chunk, running, cur, last, reply, deferred, arrived, aborts>>
    BY <1>1 DEF BeginTick, pendVars, loopVars, envVars
  <2>2. PendingOnce' /\ TickPhases' /\ AbortsFenced'
    BY <2>1 DEF PendingOnce, TickPhases, AbortsFenced, Fenced
  <2>. QED  BY <2>2
<1>2. ASSUME EndReceive PROVE FenceInv'
  <2>1. /\ pc = "recv" /\ pc' = "admit"
        /\ UNCHANGED <<pending, chunk, running, cur, last, reply, deferred, arrived, aborts>>
    BY <1>2 DEF EndReceive, loopVars, fenceVars, envVars
  <2>2. PendingOnce' /\ TickPhases' /\ AbortsFenced'
    BY <2>1 DEF PendingOnce, TickPhases, AbortsFenced, Fenced
  <2>. QED  BY <2>2
<1>3. ASSUME TryAddOne PROVE FenceInv'
  <2> DEFINE v == Head(pending)
  <2>1. /\ pc = "admit" /\ pc' = "admit" /\ pending /= <<>>
        /\ pending' = pending \/ pending' = Tail(pending)
        /\ chunk' \subseteq chunk \union {v} /\ cur'.reqs = cur.reqs \union {v}
        /\ UNCHANGED <<running, last, reply, deferred, arrived, aborts>>
    BY <1>3 DEF TryAddOne, CanAdd, fenceVars, envVars
  <2>2. IsInjective(pending') /\ Range(pending') \subseteq Range(pending)
    <3>1. pending \in Seq(Uids) /\ pending /= <<>> /\ IsInjective(pending)
      BY <2>1 DEF PendingOnce, TypeOK
    <3>2. IsInjective(Tail(pending)) /\ Range(Tail(pending)) \subseteq Range(pending)
      BY <3>1, TailOnce
    <3>. QED  BY <2>1, <3>1, <3>2
  <2>3. v \in Range(pending)
    <3>1. pending \in Seq(Uids) /\ pending /= <<>>
      BY <2>1 DEF TypeOK
    <3>2. 1 \in DOMAIN pending /\ v = pending[1]
      BY <3>1, HeadTailProperties, EmptySeq
    <3>. QED  BY <3>2 DEF Range
  <2> HIDE DEF v
  <2>4. \A u \in Uids : Fenced(u) => Fenced(u)'
    BY <2>1, <2>2, <2>3 DEF Fenced
  <2>5. AbortsFenced'
    BY <2>1, <2>4 DEF AbortsFenced
  <2>6. PendingOnce' /\ TickPhases'
    BY <2>1, <2>2 DEF PendingOnce, TickPhases
  <2>. QED  BY <2>5, <2>6
<1>4. ASSUME CloseBatch PROVE FenceInv'
  <2>1. /\ pc = "admit" /\ pc' = "forward"
        /\ cur'.reqs \subseteq cur.reqs \union running
        /\ UNCHANGED <<pending, chunk, running, last, reply, deferred, arrived, aborts>>
    BY <1>4 DEF CloseBatch, pendVars, fenceVars, envVars
  <2>2. \A u \in Uids : Fenced(u) => Fenced(u)'
    BY <2>1 DEF Fenced
  <2>3. AbortsFenced'
    BY <2>1, <2>2 DEF AbortsFenced
  <2>4. PendingOnce' /\ TickPhases'
    BY <2>1 DEF PendingOnce, TickPhases
  <2>. QED  BY <2>3, <2>4
<1>5. ASSUME Forward PROVE FenceInv'
  <2>1. /\ pc = "forward" /\ (pc' = "crashed" \/ (pc' = "post" /\ todo' = Data.reqs))
        /\ running' \subseteq running \union cur.reqs
        /\ UNCHANGED <<pending, chunk, cur, last, reply, deferred, arrived, aborts>>
    BY <1>5 DEF Forward, pendVars, fenceVars, envVars
  <2>2. \A u \in Uids : Fenced(u) => Fenced(u)'
    BY <2>1 DEF Fenced
  <2>3. AbortsFenced'
    BY <2>1, <2>2 DEF AbortsFenced
  <2>4. PendingOnce' /\ TickPhases'
    BY <2>1 DEF PendingOnce, TickPhases, Data
  <2>. QED  BY <2>3, <2>4
<1>6. ASSUME NEW v \in Uids, PostProcess(v) PROVE FenceInv'
  <2>1. /\ pc = "post" /\ v \in todo /\ todo' = todo \ {v} /\ running' \subseteq running
        /\ UNCHANGED <<pc, pending, chunk, cur, last, deferred, arrived, aborts>>
    BY <1>6 DEF PostProcess, RemoveRunning, pendVars, fenceVars, envVars
  <2>2. PendingOnce' /\ TickPhases'
    BY <2>1 DEF PendingOnce, TickPhases, Data
  <2>3. \A u \in Uids : Fenced(u) => \A r \in reply' : r.uid /= u
    <3>1. CASE Skipped(v)
      BY <1>6, <3>1 DEF PostProcess, Fenced
    <3>2. CASE ~Skipped(v)
      <4>1. v \in Data.reqs /\ v \notin deferred
        BY <2>1, <3>2 DEF TickPhases, Skipped
      <4>2. ~Fenced(v)
        BY <4>1 DEF Fenced, Data
      <4>3. \A r \in reply' : r \in reply \/ r.uid = v
        BY <1>6, <3>2 DEF PostProcess
      <4>. QED  BY <4>2, <4>3 DEF Fenced
    <3>. QED  BY <3>1, <3>2
  <2>4. \A u \in Uids : Fenced(u) => Fenced(u)'
    BY <2>1, <2>3 DEF Fenced
  <2>5. AbortsFenced'
    BY <2>1, <2>4 DEF AbortsFenced
  <2>. QED  BY <2>2, <2>5
<1>7. ASSUME SendResult PROVE FenceInv'
  <2>1. /\ pc = "post" /\ pc' = "defer" /\ reply' = {}
        /\ UNCHANGED <<pending, chunk, running, cur, last, deferred, arrived, aborts>>
    BY <1>7 DEF SendResult, pendVars, fenceVars
  <2>2. \A u \in Uids : Fenced(u) => Fenced(u)'
    BY <2>1 DEF Fenced
  <2>3. PendingOnce' /\ TickPhases' /\ AbortsFenced'
    BY <2>1, <2>2 DEF PendingOnce, TickPhases, AbortsFenced
  <2>. QED  BY <2>3
<1>8. ASSUME NEW v \in Uids, FreeDeferred(v) PROVE FenceInv'
  <2>1. /\ pc = "defer" /\ pc' = "defer"
        /\ UNCHANGED <<pending, chunk, running, cur, last, reply, deferred, arrived, aborts>>
    BY <1>8 DEF FreeDeferred, pendVars, envVars
  <2>2. PendingOnce' /\ TickPhases' /\ AbortsFenced'
    BY <2>1 DEF PendingOnce, TickPhases, AbortsFenced, Fenced
  <2>. QED  BY <2>2
<1>9. ASSUME NEW v \in Uids, DrainOne(v) PROVE FenceInv'
  <2>1. /\ pc = "drain" /\ pc' = "drain"
        /\ UNCHANGED <<pending, chunk, running, cur, last, reply, deferred, arrived, aborts>>
    BY <1>9 DEF DrainOne, pendVars, fenceVars, envVars
  <2>2. PendingOnce' /\ TickPhases' /\ AbortsFenced'
    BY <2>1 DEF PendingOnce, TickPhases, AbortsFenced, Fenced
  <2>. QED  BY <2>2
<1>10. ASSUME FlushAcks PROVE FenceInv'
  <2>1. /\ pc = "defer" /\ pc' = "loop" /\ deferred' = {} /\ cur' = NoBatch
        /\ last' = cur \/ last' = NoBatch
        /\ UNCHANGED <<pending, chunk, running, reply, arrived, aborts>>
    BY <1>10 DEF FlushAcks, pendVars
  <2>2. \A u \in Uids : Fenced(u) => Fenced(u)'
    BY <2>1 DEF Fenced, NoBatch
  <2>3. PendingOnce' /\ TickPhases' /\ AbortsFenced'
    BY <2>1, <2>2 DEF PendingOnce, TickPhases, AbortsFenced
  <2>. QED  BY <2>3
<1>11. ASSUME DrainEnd PROVE FenceInv'
  <2>1. /\ pc = "drain" /\ pc' = "stopped" /\ pending' = <<>> /\ chunk' = {} /\ running' = {}
        /\ UNCHANGED <<cur, last, reply, deferred, arrived, aborts>>
    BY <1>11 DEF DrainEnd, fenceVars, envVars
  <2>2. IsInjective(pending') /\ Range(pending') = {}
    BY <2>1 DEF IsInjective, Range
  <2>3. PendingOnce' /\ TickPhases' /\ AbortsFenced'
    BY <2>1, <2>2 DEF PendingOnce, TickPhases, AbortsFenced, Fenced
  <2>. QED  BY <2>3
<1>. QED
  BY <1>1, <1>2, <1>3, <1>4, <1>5, <1>6, <1>7, <1>8, <1>9, <1>10, <1>11 DEF Step

LEMMA FenceInductive == TypeOK /\ FenceInv /\ [Next]_vars => FenceInv'
<1>1. ASSUME FenceInv, UNCHANGED vars PROVE FenceInv'
  <2>1. UNCHANGED <<pc, pending, chunk, running, cur, last, todo, reply, inflight, deferred,
                    arrived, aborts>>
    BY <1>1 DEF vars, pendVars, loopVars, fenceVars, envVars
  <2>. QED
    BY <1>1, <2>1 DEF FenceInv, PendingOnce, TickPhases, AbortsFenced, Fenced, Data
<1>. QED
  BY <1>1, FenceReceive, FenceStep DEF Next, Idle

(* From the moment an abort is deferred to the release of the request, it is
   in no container the scheduler may run from, and has no reply; it is in the
   batch whose post-processing releases it. *)
THEOREM FenceCorrect == Spec => []FenceHolds
<1>1. FenceInv /\ TypeOK => FenceHolds
  <2> SUFFICES ASSUME FenceInv, TypeOK PROVE FenceHolds
    OBVIOUS
  <2>. QED
    BY DEF FenceInv, AbortsFenced, Fenced, FenceHolds, TypeOK
<1>. QED
  BY <1>1, FenceInit, FenceInductive, TypeCorrect, PTL DEF Spec

-----------------------------------------------------------------------------
(* Only the end of a tick sends anything. *)
LEMMA OnlyTickEndsSend ==
  ASSUME [Next]_vars PROVE sent' = sent \/ SendResult \/ FlushAcks
<1>1. ASSUME NEW u \in Uids, HandleUser(u) \/ HandleAbort(u) PROVE sent' = sent
  BY <1>1 DEF HandleUser, HandleAbort
<1>2. ASSUME NEW u \in Uids, PostProcess(u) \/ FreeDeferred(u) \/ DrainOne(u) PROVE sent' = sent
  BY <1>2 DEF PostProcess, FreeDeferred, DrainOne, envVars
<1>3. CASE HandleExit \/ BeginTick \/ EndReceive
  BY <1>3 DEF HandleExit, BeginTick, EndReceive, envVars
<1>4. CASE TryAddOne \/ CloseBatch
  BY <1>4 DEF TryAddOne, CloseBatch, envVars
<1>5. CASE Forward \/ DrainEnd
  BY <1>5 DEF Forward, DrainEnd, envVars
<1>6. CASE UNCHANGED vars
  BY <1>6 DEF vars, envVars
<1>. QED
  BY <1>1, <1>2, <1>3, <1>4, <1>5, <1>6 DEF Next, Arrival, Step, Idle

(* Whatever comes after the scheduler has read the abort of a request, in
   either loop, all it sends for it are acknowledgements: a token sampled in
   the batch in flight is never sent. *)
THEOREM AbortCorrect == Spec => AbortSilences
<1> DEFINE Silent(u) == \A i \in Len(sent[u]) + 1 .. Len(sent'[u]) : sent'[u][i] = "ack"
<1>1. ASSUME TypeOK, FenceInv, [Next]_vars, NEW u \in Uids, aborts[u] > 0 PROVE Silent(u)
  <2>1. sent[u] \in Seq({"token", "final", "ack"}) /\ Len(sent[u]) \in Nat
    BY <1>1 DEF TypeOK
  <2>2. CASE sent' = sent
    BY <2>1, <2>2
  <2>3. CASE SendResult
    <3>1. \A r \in reply : r.uid /= u
      BY <1>1 DEF FenceInv, AbortsFenced, Fenced
    <3>2. ReplyTo(u) = <<>>
      <4>1. \A f \in BOOLEAN : [uid |-> u, finished |-> f] \notin reply
        BY <3>1
      <4>. QED  BY <4>1 DEF ReplyTo
    <3>3. sent'[u] = sent[u] \o <<>>
      BY <1>1, <2>3, <3>2 DEF SendResult
    <3>4. sent'[u] = sent[u]
      BY <2>1, <3>3, ConcatEmptySeq
    <3>. QED  BY <2>1, <3>4
  <2>4. CASE FlushAcks
    <3> DEFINE new == [i \in 1 .. acks[u] |-> "ack"]
    <3>1. acks[u] \in Nat
      BY <1>1 DEF TypeOK
    <3>2. /\ new \in Seq({"token", "final", "ack"}) /\ Len(new) = acks[u]
          /\ \A i \in 1 .. acks[u] : new[i] = "ack"
      BY <3>1
    <3>3. sent'[u] = sent[u] \o new
      BY <1>1, <2>4 DEF FlushAcks
    <3> DEFINE old == sent[u]
    <3> HIDE DEF new, old
    <3>4. /\ Len(sent'[u]) = Len(sent[u]) + acks[u]
          /\ \A i \in 1 .. Len(sent[u]) + acks[u] :
               sent'[u][i] = IF i <= Len(sent[u]) THEN sent[u][i] ELSE new[i - Len(sent[u])]
      <4>1. old \in Seq({"token", "final", "ack"})
        BY <2>1 DEF old
      <4>2. /\ Len(old \o new) = Len(old) + Len(new)
            /\ \A i \in 1 .. Len(old) + Len(new) :
                 (old \o new)[i] = IF i <= Len(old) THEN old[i] ELSE new[i - Len(old)]
        BY <3>2, <4>1, ConcatProperties
      <4>. QED  BY <3>2, <3>3, <4>2 DEF old
    <3>5. ASSUME NEW i \in Len(sent[u]) + 1 .. Len(sent'[u]) PROVE sent'[u][i] = "ack"
      <4>1. i \in 1 .. Len(sent[u]) + acks[u] /\ ~(i <= Len(sent[u])) /\ i - Len(sent[u]) \in 1 .. acks[u]
        BY <2>1, <3>1, <3>4
      <4>. QED  BY <3>2, <3>4, <4>1
    <3>. QED  BY <3>5
  <2>. QED
    BY <1>1, <2>2, <2>3, <2>4, OnlyTickEndsSend
<1>2. TypeOK /\ FenceInv /\ [Next]_vars => [\A u \in Uids : aborts[u] > 0 => Silent(u)]_vars
  BY <1>1
<1>. QED
  BY <1>2, FenceInit, FenceInductive, TypeCorrect, PTL DEF Spec, AbortSilences

-----------------------------------------------------------------------------
(* What an acknowledgement stands for: an abort message that was read, and a
   deferred request that this tick has released. *)
AcksEarned ==
  /\ \A u \in Uids : acks[u] > 0 => aborts[u] > 0
  /\ pc = "defer" => todo \subseteq deferred

LEMMA AcksInductive == TypeOK /\ FenceInv /\ AcksEarned /\ [Next]_vars => AcksEarned'
<1> SUFFICES ASSUME TypeOK, FenceInv, AcksEarned, [Next]_vars PROVE AcksEarned'
  OBVIOUS
<1>0. \A u \in Uids : acks[u] \in Nat /\ aborts[u] \in Nat
  BY DEF TypeOK
<1>1. ASSUME UNCHANGED <<acks, aborts>>, pc' /= "defer" PROVE AcksEarned'
  BY <1>1 DEF AcksEarned
<1>2. ASSUME NEW v \in Uids, HandleUser(v) PROVE AcksEarned'
  <2>1. UNCHANGED <<acks, aborts>> /\ pc' = "recv"
    BY <1>2 DEF HandleUser, fenceVars
  <2>. QED  BY <1>1, <2>1
<1>3. ASSUME NEW v \in Uids, HandleAbort(v) PROVE AcksEarned'
  <2>1. /\ aborts' = [aborts EXCEPT ![v] = @ + 1] /\ pc' = "recv"
        /\ acks' = acks \/ acks' = [acks EXCEPT ![v] = @ + 1]
    BY <1>3 DEF HandleAbort, DeferAbort, AbortNow
  <2>2. aborts'[v] > 0
    <3>1. aborts'[v] = aborts[v] + 1
      BY <2>1 DEF TypeOK
    <3>. QED  BY <1>0, <3>1
  <2>3. \A u \in Uids : u /= v => aborts'[u] = aborts[u] /\ acks'[u] = acks[u]
    BY <2>1 DEF TypeOK
  <2>. QED  BY <2>1, <2>2, <2>3 DEF AcksEarned
<1>4. ASSUME NEW v \in Uids, FreeDeferred(v) PROVE AcksEarned'
  <2>1. /\ pc = "defer" /\ v \in todo /\ todo' \subseteq todo
        /\ acks' = [acks EXCEPT ![v] = @ + 1] /\ UNCHANGED <<aborts, deferred>>
    BY <1>4 DEF FreeDeferred, envVars
  <2>2. aborts[v] > 0
    BY <2>1 DEF AcksEarned, FenceInv, AbortsFenced
  <2>3. \A u \in Uids : u /= v => acks'[u] = acks[u]
    BY <2>1 DEF TypeOK
  <2>. QED  BY <2>1, <2>2, <2>3 DEF AcksEarned
<1>5. CASE SendResult
  <2>1. UNCHANGED <<acks, aborts>> /\ todo' \subseteq deferred /\ deferred' = deferred
    BY <1>5 DEF SendResult, fenceVars
  <2>. QED  BY <2>1 DEF AcksEarned
<1>6. CASE FlushAcks
  <2>1. acks' = [u \in Uids |-> 0] /\ pc' = "loop"
    BY <1>6 DEF FlushAcks
  <2>. QED  BY <2>1 DEF AcksEarned
<1>7. CASE BeginTick \/ EndReceive \/ HandleExit \/ DrainEnd \/ Forward
  <2>1. UNCHANGED <<acks, aborts>> /\ pc' /= "defer"
    BY <1>7 DEF BeginTick, EndReceive, HandleExit, DrainEnd, Forward, fenceVars, envVars
  <2>. QED  BY <1>1, <2>1
<1>8. CASE TryAddOne \/ CloseBatch
  <2>1. UNCHANGED <<acks, aborts>> /\ pc' /= "defer"
    BY <1>8 DEF TryAddOne, CloseBatch, fenceVars, envVars
  <2>. QED  BY <1>1, <2>1
<1>9. ASSUME NEW v \in Uids, PostProcess(v) \/ DrainOne(v) PROVE AcksEarned'
  <2>1. UNCHANGED <<acks, aborts>> /\ pc' /= "defer"
    BY <1>9 DEF PostProcess, DrainOne, fenceVars, envVars
  <2>. QED  BY <1>1, <2>1
<1>10. CASE UNCHANGED vars
  <2>1. UNCHANGED <<pc, todo, deferred, acks, aborts>>
    BY <1>10 DEF vars, loopVars, fenceVars, envVars
  <2>. QED  BY <2>1 DEF AcksEarned
<1>. QED
  BY <1>2, <1>3, <1>4, <1>5, <1>6, <1>7, <1>8, <1>9, <1>10 DEF Next, Arrival, Step, Idle

(* An acknowledgement that leaves means that the abort was read, and that the
   request is in no list, no batch and no set of the decode manager: nothing is
   left that could run it or that the scheduler holds for it. *)
THEOREM AckCorrect == Spec => AckMeansReleased
<1> DEFINE Released(u) == (sent'[u] /= sent[u] /\ Last(sent'[u]) = "ack") =>
                            u \notin Holders' \union Range(pending')
<1>1. ASSUME TypeOK, FenceInv, AcksEarned, [Next]_vars, NEW u \in Uids PROVE Released(u)
  <2>1. sent[u] \in Seq({"token", "final", "ack"})
    BY <1>1 DEF TypeOK
  <2>2. CASE SendResult
    <3> DEFINE old == sent[u]
               m   == ReplyTo(u)
    <3>1. sent'[u] = old \o m
      BY <1>1, <2>2 DEF SendResult
    <3>2. CASE m = <<>>
      <4>1. sent'[u] = sent[u]
        BY <2>1, <3>1, <3>2, ConcatEmptySeq
      <4>. QED  BY <4>1
    <3>3. ASSUME NEW x \in {"token", "final"}, m = <<x>> PROVE Released(u)
      <4>1. m \in Seq({"token", "final", "ack"}) /\ Len(m) = 1 /\ m[1] = x
        BY <3>3
      <4>2. old \in Seq({"token", "final", "ack"}) /\ Len(old) \in Nat
        BY <2>1
      <4> HIDE DEF old, m
      <4>3. Len(old \o m) = Len(old) + 1 /\ (old \o m)[Len(old) + 1] = x
        <5>1. /\ Len(old \o m) = Len(old) + Len(m)
              /\ \A i \in 1 .. Len(old) + Len(m) :
                   (old \o m)[i] = IF i <= Len(old) THEN old[i] ELSE m[i - Len(old)]
          BY <4>1, <4>2, ConcatProperties
        <5>. QED  BY <4>1, <4>2, <5>1
      <4>4. Last(sent'[u]) = x
        BY <3>1, <4>3 DEF Last
      <4>. QED  BY <4>4
    <3>4. m = <<>> \/ m = <<"token">> \/ m = <<"final">>
      BY DEF ReplyTo
    <3>. QED  BY <3>2, <3>3, <3>4
  <2>3. CASE FlushAcks
    <3>1. CASE acks[u] > 0
      <4>1. Fenced(u)
        BY <1>1, <3>1 DEF AcksEarned, FenceInv, AbortsFenced
      <4>2. /\ pc' = "loop" /\ cur' = NoBatch /\ (last' = cur \/ last' = NoBatch)
            /\ UNCHANGED <<pending, chunk, running>>
        BY <2>3 DEF FlushAcks, pendVars
      <4>3. u \notin cur'.reqs \union last'.reqs \union chunk' \union running' \union Range(pending')
        BY <4>1, <4>2 DEF Fenced, NoBatch
      <4>. QED  BY <4>2, <4>3 DEF Holders, Unprocessed, Data
    <3>2. CASE ~(acks[u] > 0)
      <4>0. acks[u] = 0
        <5>1. acks[u] \in Nat
          BY <1>1 DEF TypeOK
        <5>. QED  BY <3>2, <5>1
      <4>1. sent'[u] = sent[u] \o [i \in 1 .. acks[u] |-> "ack"]
        BY <1>1, <2>3 DEF FlushAcks
      <4>2. [i \in 1 .. 0 |-> "ack"] = <<>>
        OBVIOUS
      <4>3. sent'[u] = sent[u]
        BY <2>1, <4>0, <4>1, <4>2, ConcatEmptySeq
      <4>. QED  BY <4>3
    <3>. QED  BY <3>1, <3>2
  <2>. QED
    BY <1>1, <2>2, <2>3, OnlyTickEndsSend
<1>2. TypeOK /\ FenceInv /\ AcksEarned /\ [Next]_vars => [\A u \in Uids : Released(u)]_vars
  BY <1>1
<1>3. Init => AcksEarned
  BY DEF Init, AcksEarned
<1>. QED
  BY <1>2, <1>3, FenceInit, FenceInductive, AcksInductive, TypeCorrect, PTL
     DEF Spec, AckMeansReleased

-----------------------------------------------------------------------------
(* In normal_loop nothing is asked of the aborts. *)
Regular == Overlap => NoLateAbort

-----------------------------------------------------------------------------
(* The life of a request: in which containers of the loop it may be at once. *)

(* Only requests that have arrived are anywhere. *)
Known ==
  running \union last.reqs \union cur.reqs \union finished \union newFinished \subseteq arrived

(* What is still pending does not run and is in a batch only as a chunk. *)
Queued ==
  /\ chunk \subseteq Range(pending)
  /\ Range(pending) \intersect (running \union finished \union newFinished) = {}
  /\ \A u \in Range(pending) :
       /\ u \in last.reqs => u \in chunk /\ u \in last.chunked
       /\ u \in cur.reqs => u \in chunk /\ u \in cur.chunked

(* A chunk uses up the budget: nothing is added to a batch after it. *)
Batched ==
  /\ pc = "admit" /\ cur.chunked /= {} => budget = 0
  /\ cur.chunked \subseteq cur.reqs \intersect chunk
  /\ last.chunked \subseteq last.reqs
  /\ ~Overlap => last = NoBatch
  /\ pc \in {"admit", "forward", "post"} => cur.reqs \intersect finished = {}

(* finished_reqs of the tick at work *)
Finishing ==
  /\ pc /= "post" => newFinished = {}
  /\ newFinished \subseteq Data.reqs \ (todo \union Data.chunked \union deferred)

Decoding ==
  \A u \in running : /\ RemainLen(u) > 0 /\ u \notin cur.chunked
                     /\ u \notin finished /\ u \notin newFinished

(* A chunk of the last batch goes on, or is in the batch being built. *)
ChunksKept ==
  pc /= "defer" => \A u \in last.chunked \ deferred : u \in chunk \union cur.reqs

(* A request of a batch that has more to decode, and has neither ended nor
   been aborted, is in running_reqs; what normal_loop has post-processed has. *)
LastKept ==
  pc /= "defer" =>
    \A u \in last.reqs \ (last.chunked \union deferred \union finished \union newFinished) :
      RemainLen(u) > 0 => u \in running
CurKept ==
  pc \in {"post", "defer"} =>
    \A u \in cur.reqs \ (cur.chunked \union finished \union newFinished) :
      /\ RemainLen(u) > 0 => u \in running
      /\ ~Overlap /\ u \notin todo => RemainLen(u) > 0

(* _apply_deferred_aborts visits deferred requests of its batch. *)
Deferring == pc = "defer" => todo \subseteq Data.reqs \intersect deferred

(* What finished_reqs holds has its final message, sent or in reply. *)
Finals ==
  /\ \A u \in finished : "final" \in Range(sent[u])
  /\ \A u \in newFinished : [uid |-> u, finished |-> TRUE] \in reply

LifeParts ==
  /\ Known /\ Queued /\ Batched /\ Finishing /\ Decoding
  /\ ChunksKept /\ LastKept /\ CurKept /\ Deferring /\ Finals
LifeInv == Serving => LifeParts

-----------------------------------------------------------------------------
(* More about the operations on the pending list. *)

(* Dropping the head or one entry drops no other request. *)
LEMMA TailKeeps ==
  ASSUME NEW S, NEW s \in Seq(S), s /= <<>>, IsInjective(s)
  PROVE  Head(s) \in Range(s) /\ Range(Tail(s)) = Range(s) \ {Head(s)}
<1> DEFINE t == Tail(s)
<1>1. /\ Len(s) \in Nat \ {0} /\ DOMAIN s = 1 .. Len(s) /\ DOMAIN t = 1 .. Len(s) - 1
      /\ \A j \in 1 .. Len(s) - 1 : t[j] = s[j + 1]
      /\ Head(s) = s[1]
  BY HeadTailProperties, EmptySeq
<1> HIDE DEF t
<1>2. 1 \in DOMAIN s
  BY <1>1
<1>3. \A j \in DOMAIN t : j + 1 \in DOMAIN s /\ j + 1 /= 1 /\ t[j] = s[j + 1]
  BY <1>1
<1>4. \A j \in DOMAIN s : j /= 1 => j - 1 \in DOMAIN t /\ t[j - 1] = s[j]
  BY <1>1
<1>5. \A j \in DOMAIN t : t[j] \in Range(s) /\ t[j] /= s[1]
  BY <1>2, <1>3 DEF Range, IsInjective
<1>6. \A j \in DOMAIN s : s[j] /= s[1] => s[j] \in Range(t)
  BY <1>4 DEF Range
<1>7. Range(t) = Range(s) \ {s[1]}
  BY <1>5, <1>6 DEF Range
<1>8. s[1] \in Range(s)
  BY <1>2 DEF Range
<1>. QED
  BY <1>1, <1>7, <1>8 DEF t

LEMMA RemoveAtKeeps ==
  ASSUME NEW S, NEW s \in Seq(S), NEW i \in DOMAIN s
  PROVE  Range(s) \ {s[i]} \subseteq Range(RemoveAt(s, i))
<1> DEFINE t == RemoveAt(s, i)
<1>1. /\ t \in Seq(S) /\ Len(t) = Len(s) - 1
      /\ \A j \in 1 .. Len(s) - 1 : t[j] = IF j < i THEN s[j] ELSE s[j + 1]
  BY RemoveAtProperties
<1>2. Len(s) \in Nat /\ i \in 1 .. Len(s) /\ DOMAIN s = 1 .. Len(s)
  OBVIOUS
<1> HIDE DEF t
<1>3. DOMAIN t = 1 .. Len(s) - 1
  BY <1>1
<1>4. ASSUME NEW j \in DOMAIN s, j /= i PROVE s[j] \in Range(t)
  <2>1. CASE j < i
    <3>1. j \in DOMAIN t /\ t[j] = s[j]
      BY <1>1, <1>2, <1>3, <2>1
    <3>. QED  BY <3>1 DEF Range
  <2>2. CASE ~(j < i)
    <3>1. j - 1 \in DOMAIN t /\ ~(j - 1 < i) /\ (j - 1) + 1 = j
      BY <1>2, <1>3, <1>4, <2>2
    <3>2. t[j - 1] = s[j]
      BY <1>1, <1>3, <3>1
    <3>. QED  BY <3>1, <3>2 DEF Range
  <2>. QED  BY <2>1, <2>2
<1>. QED
  BY <1>4 DEF t, Range

(* PrefillManager.abort_req takes out nothing but the request. *)
LEMMA RemovePendingKeeps ==
  ASSUME TypeOK, PendingOnce, NEW u \in Uids, RemovePending(u)
  PROVE  Range(pending') = Range(pending) \ {u} /\ chunk' = chunk \ {u}
<1>1. pending \in Seq(Uids)
  BY DEF TypeOK
<1>2. Range(pending') \subseteq Range(pending) \ {u}
  BY RemovePendingOnce
<1>3. Range(pending) \ {u} \subseteq Range(pending')
  <2>1. CASE u \in Range(pending)
    <3>1. PICK i \in DOMAIN pending : pending[i] = u /\ pending' = RemoveAt(pending, i)
      BY <2>1 DEF RemovePending
    <3>2. Range(pending) \ {pending[i]} \subseteq Range(RemoveAt(pending, i))
      BY <1>1, RemoveAtKeeps
    <3>. QED  BY <3>1, <3>2
  <2>2. CASE u \notin Range(pending)
    BY <2>2 DEF RemovePending
  <2>. QED  BY <2>1, <2>2
<1>. QED
  BY <1>2, <1>3 DEF RemovePending

LEMMA AppendRange ==
  ASSUME NEW S, NEW s \in Seq(S), NEW e \in S
  PROVE  Range(Append(s, e)) = Range(s) \union {e}
<1> DEFINE t == Append(s, e)
<1>1. /\ Len(s) \in Nat /\ DOMAIN s = 1 .. Len(s) /\ DOMAIN t = 1 .. Len(s) + 1
      /\ \A j \in 1 .. Len(s) : t[j] = s[j]
      /\ t[Len(s) + 1] = e
  BY AppendProperties
<1> HIDE DEF t
<1>2. Len(s) + 1 \in DOMAIN t /\ DOMAIN s \subseteq DOMAIN t
  BY <1>1
<1>3. \A j \in DOMAIN t : j = Len(s) + 1 \/ j \in DOMAIN s
  BY <1>1
<1>. QED
  BY <1>1, <1>2, <1>3 DEF t, Range

LEMMA ConcatRange ==
  ASSUME NEW S, NEW s \in Seq(S), NEW t \in Seq(S)
  PROVE  s \o t \in Seq(S) /\ Range(s \o t) = Range(s) \union Range(t)
<1> DEFINE c == s \o t
<1>1. /\ Len(s) \in Nat /\ DOMAIN s = 1 .. Len(s) /\ Len(t) \in Nat /\ DOMAIN t = 1 .. Len(t)
      /\ c \in Seq(S) /\ Len(c) = Len(s) + Len(t)
      /\ \A i \in 1 .. Len(s) + Len(t) : c[i] = IF i <= Len(s) THEN s[i] ELSE t[i - Len(s)]
  BY ConcatProperties
<1> HIDE DEF c
<1>2. DOMAIN c = 1 .. Len(s) + Len(t)
  BY <1>1
<1>3. \A i \in DOMAIN s : i \in DOMAIN c /\ c[i] = s[i]
  BY <1>1, <1>2
<1>4. \A i \in DOMAIN t : Len(s) + i \in DOMAIN c /\ c[Len(s) + i] = t[i]
  <2> TAKE i \in DOMAIN t
  <2> DEFINE k == Len(s) + i
  <2>1. k \in 1 .. Len(s) + Len(t) /\ ~(k <= Len(s)) /\ k - Len(s) = i
    BY <1>1
  <2> HIDE DEF k
  <2>2. k \in DOMAIN c /\ c[k] = t[i]
    BY <1>1, <1>2, <2>1
  <2>. QED  BY <2>2 DEF k
<1>5. \A i \in DOMAIN c : i \in DOMAIN s \/ (i - Len(s) \in DOMAIN t /\ c[i] = t[i - Len(s)])
  BY <1>1, <1>2
<1>6. Range(c) = Range(s) \union Range(t)
  BY <1>3, <1>4, <1>5 DEF Range
<1>. QED
  BY <1>1, <1>6 DEF c

(* The front of a stack without repetition: what is popped is gone. *)
LEMMA FrontKeeps ==
  ASSUME NEW S, NEW s \in Seq(S), s /= <<>>, IsInjective(s)
  PROVE  /\ Front(s) \in Seq(S) /\ IsInjective(Front(s))
         /\ Last(s) \in Range(s) /\ Range(Front(s)) = Range(s) \ {Last(s)}
<1> DEFINE t == Front(s)
           n == Len(s)
<1>1. n \in Nat \ {0} /\ DOMAIN s = 1 .. n /\ \A j \in 1 .. n : s[j] \in S
  BY EmptySeq
<1>2. t \in Seq(S) /\ Len(t) = n - 1 /\ \A j \in 1 .. n - 1 : t[j] = s[j]
  BY <1>1, SubSeqProperties DEF Front
<1>3. Last(s) = s[n]
  BY DEF Last
<1> HIDE DEF t, n
<1>4. DOMAIN t = 1 .. n - 1
  BY <1>2
<1>5. \A j \in DOMAIN t : j \in DOMAIN s /\ j /= n /\ t[j] = s[j]
  BY <1>1, <1>2, <1>4
<1>6. \A j \in DOMAIN s : j /= n => j \in DOMAIN t
  BY <1>1, <1>4
<1>7. n \in DOMAIN s
  BY <1>1
<1>8. IsInjective(t)
  BY <1>5 DEF IsInjective
<1>9. Range(t) = Range(s) \ {s[n]}
  BY <1>5, <1>6, <1>7 DEF Range, IsInjective
<1>. QED
  BY <1>2, <1>3, <1>7, <1>8, <1>9 DEF t, Range

-----------------------------------------------------------------------------
LEMMA LifeInit == Init => LifeInv
<1> SUFFICES ASSUME Init PROVE LifeInv
  OBVIOUS
<1>1. /\ pc = "loop" /\ Range(pending) = {} /\ chunk = {} /\ running = {} /\ todo = {}
      /\ cur = NoBatch /\ last = NoBatch /\ finished = {} /\ newFinished = {}
  BY DEF Init, Range
<1>2. Known /\ Queued /\ Batched /\ Finishing /\ Decoding
  BY <1>1 DEF Known, Queued, Batched, Finishing, Decoding, NoBatch
<1>3. ChunksKept /\ LastKept /\ CurKept /\ Deferring /\ Finals
  BY <1>1 DEF ChunksKept, LastKept, CurKept, Deferring, Finals, NoBatch
<1>. QED
  BY <1>2, <1>3 DEF LifeInv, LifeParts

(* A message moves its request only. *)
LEMMA LifeReceive ==
  ASSUME TypeOK, FenceInv, LifeInv, Arrival PROVE LifeInv'
<1>0. pc \in {"wait", "recv"} /\ Serving /\ LifeParts /\ cur = NoBatch /\ inflight = last.reqs
  <2>1. pc \in {"wait", "recv"}
    BY DEF Arrival, HandleUser, HandleAbort, HandleExit, Receiving
  <2>. QED  BY <2>1 DEF Serving, LifeInv, FenceInv, TickPhases
<1>1. ASSUME NEW v \in Uids, HandleUser(v) PROVE LifeParts'
  <2>1. /\ v \notin arrived /\ arrived' = arrived \union {v} /\ pc' = "recv"
        /\ UNCHANGED <<chunk, running, device, cur, last, todo, finished, newFinished, reply,
                       deferred, sent>>
    BY <1>1 DEF HandleUser, loopVars, fenceVars
  <2>2. Range(pending') = Range(pending) \/ Range(pending') = Range(pending) \union {v}
    <3>1. pending' = pending \/ pending' = Append(pending, v)
      BY <1>1 DEF HandleUser
    <3>2. Range(Append(pending, v)) = Range(pending) \union {v}
      <4>1. pending \in Seq(Uids)
        BY DEF TypeOK
      <4>. QED  BY <4>1, AppendRange
    <3>. QED  BY <3>1, <3>2
  <2>3. \A u \in Uids : u /= v => RemainLen(u)' = RemainLen(u)
    <3>1. \A u \in Uids : u /= v => prompt'[u] = prompt[u] /\ out'[u] = out[u]
      BY <1>1 DEF HandleUser, TypeOK
    <3>. QED  BY <2>1, <3>1 DEF RemainLen
  <2>4. /\ v \notin running /\ v \notin last.reqs /\ v \notin finished /\ v \notin newFinished
        /\ v \notin cur.reqs
    BY <1>0, <2>1 DEF LifeParts, Known
  <2>5. running \subseteq Uids /\ last.reqs \subseteq Uids
    BY DEF TypeOK, Batches
  <2>6. Known' /\ Queued'
    BY <1>0, <2>1, <2>2, <2>4 DEF LifeParts, Known, Queued
  <2>7. Batched' /\ Finishing'
    BY <1>0, <2>1 DEF LifeParts, Batched, Finishing, Data
  <2>8. Decoding' /\ LastKept'
    BY <1>0, <2>1, <2>3, <2>4, <2>5 DEF LifeParts, Decoding, LastKept
  <2>9. ChunksKept' /\ CurKept' /\ Deferring' /\ Finals'
    BY <1>0, <2>1 DEF LifeParts, ChunksKept, CurKept, Deferring, Finals
  <2>. QED  BY <2>6, <2>7, <2>8, <2>9 DEF LifeParts
<1>2. ASSUME NEW v \in Uids, HandleAbort(v) PROVE LifeParts'
  <2>1. /\ pc' = "recv" /\ RemovePending(v) /\ running' = running \ {v}
        /\ UNCHANGED <<reqVars, cur, last, todo, finished, newFinished, reply, arrived, sent>>
        /\ \/ v \in last.reqs /\ deferred' = deferred \union {v}
           \/ v \notin last.reqs /\ deferred' = deferred
    BY <1>0, <1>2 DEF HandleAbort, DeferAbort, AbortNow, RemoveRunning, loopVars
  <2>2. Range(pending') = Range(pending) \ {v} /\ chunk' = chunk \ {v}
    BY <2>1, RemovePendingKeeps DEF FenceInv
  <2>3. \A u \in Uids : RemainLen(u)' = RemainLen(u)
    BY <2>1 DEF RemainLen, reqVars
  <2>4. running \subseteq Uids /\ last.reqs \subseteq Uids
    BY DEF TypeOK, Batches
  <2>5. newFinished = {}
    BY <1>0 DEF LifeParts, Finishing
  <2>6. Known' /\ Queued'
    BY <1>0, <2>1, <2>2 DEF LifeParts, Known, Queued
  <2>7. Batched' /\ Finishing'
    BY <1>0, <2>1, <2>2, <2>5 DEF LifeParts, Batched, Finishing, NoBatch
  <2>8. Decoding' /\ LastKept'
    BY <1>0, <2>1, <2>3, <2>4 DEF LifeParts, Decoding, LastKept
  <2>9. ChunksKept'
    BY <1>0, <2>1, <2>2 DEF LifeParts, ChunksKept, Batched
  <2>10. CurKept' /\ Deferring' /\ Finals'
    BY <1>0, <2>1 DEF LifeParts, CurKept, Deferring, Finals
  <2>. QED  BY <2>6, <2>7, <2>8, <2>9, <2>10 DEF LifeParts
<1>3. ASSUME HandleExit PROVE ~Serving'
  BY <1>3 DEF HandleExit, Serving
<1>. QED
  BY <1>1, <1>2, <1>3 DEF Arrival, LifeInv

(* Building a batch and running it. *)
LEMMA LifeSchedule ==
  ASSUME TypeOK, FenceInv, LifeInv, BeginTick \/ EndReceive \/ TryAddOne \/ CloseBatch \/ Forward
  PROVE  LifeInv'
<1>0. Serving /\ LifeParts
  BY DEF BeginTick, EndReceive, TryAddOne, CloseBatch, Forward, Serving, LifeInv
<1> DEFINE Same == UNCHANGED <<reqVars, pending, chunk, running, cur, last, todo, finished,
                               newFinished, reply, deferred, arrived, sent>>
<1>1. ASSUME BeginTick \/ EndReceive PROVE LifeInv'
  <2>1. /\ pc \in {"loop", "recv"} /\ pc' \in {"wait", "recv", "crashed", "admit"} /\ Same
    BY <1>1 DEF BeginTick, EndReceive, pendVars, loopVars, fenceVars, envVars
  <2>2. cur = NoBatch
    BY <2>1 DEF FenceInv, TickPhases
  <2>3. Known' /\ Queued' /\ Batched' /\ Finishing' /\ Decoding'
    BY <1>0, <2>1, <2>2 DEF LifeParts, Known, Queued, Batched, Finishing, Decoding, Data,
       RemainLen, reqVars, NoBatch
  <2>4. ChunksKept' /\ LastKept' /\ CurKept' /\ Deferring' /\ Finals'
    BY <1>0, <2>1 DEF LifeParts, ChunksKept, LastKept, CurKept, Deferring, Finals,
       RemainLen, reqVars
  <2>. QED  BY <2>3, <2>4 DEF LifeInv, LifeParts
<1>2. ASSUME TryAddOne PROVE LifeInv'
  <2> DEFINE v == Head(pending)
  <2>1. /\ pc = "admit" /\ pc' = "admit" /\ pending /= <<>>
        /\ cur'.reqs = cur.reqs \union {v}
        /\ UNCHANGED <<prompt, out, running, last, todo, finished, newFinished, reply, deferred,
                       arrived, sent>>
        /\ \/ /\ pending' = pending /\ chunk' = chunk \union {v}
              /\ cur'.chunked = cur.chunked \union {v}
           \/ pending' = Tail(pending) /\ chunk' = chunk \ {v} /\ cur'.chunked = cur.chunked
        /\ \A u \in Uids : u /= v => device'[u] = device[u]
        /\ budget > 0
    BY <1>2 DEF TryAddOne, CanAdd, fenceVars, envVars, TypeOK
  <2>1a. cur.chunked = {}
    <3>1. cur.chunked /= {} => budget = 0
      BY <1>0, <2>1 DEF LifeParts, Batched
    <3>. QED  BY <2>1, <3>1
  <2>1b. cur'.chunked /= {} => budget' = 0
    <3> DEFINE remain == prompt[v] - (IF v \in chunk THEN cached[v] ELSE 0)
    <3>1. /\ cur'.chunked = IF ChunkSize(remain) < remain THEN cur.chunked \union {v} ELSE cur.chunked
          /\ budget' = budget - ChunkSize(remain)
      BY <1>2 DEF TryAddOne
    <3>2. CASE ChunkSize(remain) < remain
      <4>1. remain \in Int
        <5>1. v \in Uids
          BY <2>1, HeadTailProperties DEF TypeOK
        <5>2. prompt[v] \in Nat /\ cached[v] \in Nat
          BY <5>1 DEF TypeOK
        <5> HIDE DEF v
        <5>. QED  BY <5>2
      <4>2. budget \in Nat
        BY DEF TypeOK
      <4> HIDE DEF remain
      <4>3. ChunkSize(remain) = budget
        BY <3>2, <4>1, <4>2 DEF ChunkSize
      <4>. QED  BY <3>1, <4>2, <4>3
    <3>. QED  BY <2>1a, <3>1, <3>2
  <2>2. v \in Range(pending) /\ Range(Tail(pending)) = Range(pending) \ {v}
    BY <2>1, TailKeeps DEF FenceInv, PendingOnce, TypeOK
  <2> HIDE DEF v
  <2>3. /\ v \in arrived /\ v \notin running /\ v \notin finished /\ v \notin newFinished
        /\ v \in last.reqs => v \in chunk /\ v \in last.chunked
        /\ v \in cur.reqs => v \in chunk /\ v \in cur.chunked
    BY <1>0, <2>2 DEF LifeParts, Queued, FenceInv, PendingOnce
  <2>4. \A u \in Uids : u /= v => RemainLen(u)' = RemainLen(u)
    BY <2>1 DEF RemainLen
  <2>5. running \subseteq Uids /\ last.reqs \subseteq Uids
    BY DEF TypeOK, Batches
  <2>6. newFinished = {}
    BY <1>0, <2>1 DEF LifeParts, Finishing
  <2>7. Known'
    BY <1>0, <2>1, <2>3 DEF LifeParts, Known
  <2>8. Queued'
    <3>1. CASE pending' = pending
      <4>1. /\ chunk' = chunk \union {v} /\ cur'.chunked = cur.chunked \union {v}
            \/ Range(pending) = Range(pending) \ {v}
        BY <2>1, <2>2, <3>1
      <4>2. chunk' = chunk \union {v} /\ cur'.chunked = cur.chunked \union {v}
        BY <2>2, <4>1
      <4>. QED  BY <1>0, <2>1, <2>2, <2>3, <3>1, <4>2 DEF LifeParts, Queued
    <3>2. CASE pending' = Tail(pending) /\ chunk' = chunk \ {v} /\ cur'.chunked = cur.chunked
      BY <1>0, <2>1, <2>2, <2>3, <3>2 DEF LifeParts, Queued
    <3>. QED  BY <2>1, <3>1, <3>2
  <2>9. Batched'
    BY <1>0, <2>1, <2>1a, <2>1b, <2>3 DEF LifeParts, Batched
  <2>10. Finishing'
    BY <2>1, <2>6 DEF Finishing
  <2>11. Decoding'
    BY <1>0, <2>1, <2>3, <2>4, <2>5 DEF LifeParts, Decoding
  <2>12. ChunksKept'
    BY <1>0, <2>1 DEF LifeParts, ChunksKept
  <2>13. LastKept'
    BY <1>0, <2>1, <2>3, <2>4, <2>5 DEF LifeParts, LastKept
  <2>14. CurKept' /\ Deferring' /\ Finals'
    BY <1>0, <2>1 DEF LifeParts, CurKept, Deferring, Finals
  <2>. QED
    BY <2>7, <2>8, <2>9, <2>10, <2>11, <2>12, <2>13, <2>14 DEF LifeInv, LifeParts
<1>3. ASSUME CloseBatch PROVE LifeInv'
  <2>1. /\ pc = "admit" /\ pc' = "forward"
        /\ cur' = cur \/ (cur' = [reqs |-> running, chunked |-> {}] /\ cur.reqs = {})
        /\ UNCHANGED <<reqVars, pending, chunk, running, last, todo, finished, newFinished, reply,
                       deferred, arrived, sent>>
    BY <1>3 DEF CloseBatch, pendVars, fenceVars, envVars
  <2>2. newFinished = {}
    BY <1>0, <2>1 DEF LifeParts, Finishing
  <2>3. Known' /\ Queued'
    BY <1>0, <2>1 DEF LifeParts, Known, Queued
  <2>4. Batched' /\ Decoding'
    BY <1>0, <2>1 DEF LifeParts, Batched, Decoding, RemainLen, reqVars
  <2>5. Finishing' /\ ChunksKept' /\ CurKept' /\ Deferring' /\ Finals'
    BY <1>0, <2>1, <2>2 DEF LifeParts, Finishing, ChunksKept, CurKept, Deferring, Finals
  <2>6. LastKept'
    BY <1>0, <2>1 DEF LifeParts, LastKept, RemainLen, reqVars
  <2>. QED
    BY <2>3, <2>4, <2>5, <2>6 DEF LifeInv, LifeParts
<1>4. ASSUME Forward PROVE LifeInv'
  <2>1. CASE pc' = "crashed"
    BY <2>1 DEF LifeInv, Serving
  <2>2. CASE pc' /= "crashed"
    <3>1. /\ pc = "forward" /\ pc' = "post" /\ todo' = Data.reqs
          /\ running' = {u \in running \union cur.reqs : Decodable(u)}
          /\ device' = [u \in Uids |-> IF u \in cur.reqs THEN device[u] + 1 ELSE device[u]]
          /\ UNCHANGED <<prompt, out, pending, chunk, cur, last, finished, newFinished, reply,
                         deferred, arrived, sent>>
      BY <1>4, <2>2 DEF Forward, pendVars, fenceVars, envVars
    <3>2. newFinished = {} /\ cur.reqs \intersect finished = {}
      BY <1>0, <3>1 DEF LifeParts, Finishing, Batched
    <3>3. running \subseteq Uids /\ last.reqs \subseteq Uids /\ cur.reqs \subseteq Uids
      BY DEF TypeOK, Batches
    <3>4. \A u \in Uids : /\ prompt[u] \in Nat /\ out[u] \in Nat /\ device[u] \in Nat
                          /\ Decodable(u) <=> u \notin cur.chunked /\ RemainLen(u)' > 0
      BY <3>1 DEF TypeOK, Decodable, RemainLen
    <3>5. \A u \in Uids : /\ u \in cur.reqs => RemainLen(u) = RemainLen(u)' + 1
                          /\ u \notin cur.reqs => RemainLen(u)' = RemainLen(u)
                          /\ RemainLen(u) \in Int /\ RemainLen(u)' \in Int
      <4> SUFFICES ASSUME NEW u \in Uids
                   PROVE  /\ u \in cur.reqs => RemainLen(u) = RemainLen(u)' + 1
                          /\ u \notin cur.reqs => RemainLen(u)' = RemainLen(u)
                          /\ RemainLen(u) \in Int /\ RemainLen(u)' \in Int
        OBVIOUS
      <4>1. prompt'[u] = prompt[u] /\ out'[u] = out[u]
        BY <3>1
      <4>2. /\ u \in cur.reqs => device'[u] = device[u] + 1
            /\ u \notin cur.reqs => device'[u] = device[u]
        BY <3>1
      <4>3. RemainLen(u) = prompt[u] + out[u] - device[u]
        BY DEF RemainLen
      <4>4. RemainLen(u)' = prompt[u] + out[u] - device'[u]
        BY <4>1 DEF RemainLen
      <4>5. prompt[u] \in Nat /\ out[u] \in Nat /\ device[u] \in Nat
        BY <3>4
      <4>. QED  BY <4>2, <4>3, <4>4, <4>5
    <3>6. \A u \in running' : /\ u \in Uids /\ u \in running \union cur.reqs
                              /\ u \notin cur.chunked /\ RemainLen(u)' > 0
      BY <3>1, <3>3, <3>4
    <3>7. \A u \in running \union cur.reqs :
            u \notin cur.chunked /\ RemainLen(u)' > 0 => u \in running'
      BY <3>1, <3>3, <3>4
    <3>8. Known'
      BY <1>0, <3>1, <3>6 DEF LifeParts, Known
    <3>9. Queued'
      BY <1>0, <3>1, <3>2, <3>6 DEF LifeParts, Queued
    <3>10. Batched' /\ Finishing'
      BY <1>0, <3>1, <3>2 DEF LifeParts, Batched, Finishing
    <3>11. Decoding'
      BY <1>0, <3>1, <3>2, <3>6 DEF LifeParts, Decoding
    <3>12. ChunksKept' /\ Deferring' /\ Finals'
      BY <1>0, <3>1 DEF LifeParts, ChunksKept, Deferring, Finals
    <3>13. LastKept'
      <4> SUFFICES ASSUME NEW u \in last.reqs \ (last.chunked \union deferred \union finished),
                          RemainLen(u)' > 0
                   PROVE  u \in running'
        BY <3>1, <3>2 DEF LastKept
      <4>1. RemainLen(u) > 0
        BY <3>3, <3>5
      <4>2. u \in running
        BY <1>0, <3>1, <3>2, <4>1 DEF LifeParts, LastKept
      <4>3. u \notin cur.chunked
        BY <1>0, <4>2 DEF LifeParts, Decoding
      <4>. QED  BY <3>7, <4>2, <4>3
    <3>14. CurKept'
      <4>1. ~Overlap => todo' = cur.reqs
        BY <3>1 DEF Data
      <4>. QED  BY <3>1, <3>7, <4>1 DEF CurKept
    <3>. QED
      BY <3>8, <3>9, <3>10, <3>11, <3>12, <3>13, <3>14 DEF LifeInv, LifeParts
  <2>. QED  BY <2>1, <2>2
<1>. QED
  BY <1>1, <1>2, <1>3, <1>4

(* Post-processing a batch and letting go of it. *)
LEMMA LifeFinish ==
  ASSUME TypeOK, FenceInv, LifeInv,
         (\E u \in Uids : PostProcess(u) \/ FreeDeferred(u)) \/ SendResult \/ FlushAcks
  PROVE  LifeInv'
<1>0. Serving /\ LifeParts
  BY DEF PostProcess, FreeDeferred, SendResult, FlushAcks, Serving, LifeInv
<1>a. running \subseteq Uids /\ last.reqs \subseteq Uids /\ cur.reqs \subseteq Uids
  BY DEF TypeOK, Batches
<1>1. ASSUME NEW v \in Uids, PostProcess(v) PROVE LifeInv'
  <2>1. /\ pc = "post" /\ pc' = "post" /\ v \in todo /\ todo' = todo \ {v}
        /\ UNCHANGED <<reqVars, pending, chunk, cur, last, finished, deferred, arrived, sent>>
    BY <1>1 DEF PostProcess, pendVars, fenceVars, envVars
  <2>2. v \in Data.reqs /\ (v \in last.reqs \/ v \in cur.reqs)
    BY <2>1 DEF FenceInv, TickPhases, Data
  <2>3. \A u \in Uids : RemainLen(u)' = RemainLen(u) /\ RemainLen(u) \in Int
    <3>1. UNCHANGED <<prompt, out, device>>
      BY <2>1 DEF reqVars
    <3>2. \A u \in Uids : prompt[u] \in Nat /\ out[u] \in Nat /\ device[u] \in Nat
      BY DEF TypeOK
    <3>. QED  BY <3>1, <3>2 DEF RemainLen
  <2>4. Batched' /\ ChunksKept' /\ Deferring'
    BY <1>0, <2>1 DEF LifeParts, Batched, ChunksKept, Deferring
  <2>5. CASE UNCHANGED <<reply, running, newFinished>>
    <3>1. ~Overlap => v \in cur.chunked \/ v \in finished \/ RemainLen(v) > 0
      <4>1. ~Overlap => Data = cur /\ deferred = {}
        BY <1>0 DEF Data, LifeParts, Batched, FenceInv, AbortsFenced, NoBatch, TypeOK
      <4>2. CASE Skipped(v)
        BY <4>1, <4>2 DEF Skipped
      <4>3. CASE ~Skipped(v)
        <5>1. PICK stops \in BOOLEAN : ~(Ends(v, stops) /\ FirstFinish(v)) \/ newFinished' = newFinished \union {v}
          BY <1>1, <4>3 DEF PostProcess
        <5>2. v \notin newFinished
          BY <1>0, <2>1 DEF LifeParts, Finishing
        <5>3. ~(Ends(v, stops) /\ FirstFinish(v))
          BY <2>5, <5>1, <5>2
        <5>. QED  BY <2>3, <5>3 DEF Ends, FirstFinish
      <4>. QED  BY <4>2, <4>3
    <3>2. Known' /\ Queued' /\ Decoding' /\ Finals'
      BY <1>0, <1>a, <2>1, <2>3, <2>5 DEF LifeParts, Known, Queued, Decoding, Finals
    <3>3. Finishing'
      BY <1>0, <2>1, <2>5 DEF LifeParts, Finishing, Data
    <3>4. LastKept'
      BY <1>0, <1>a, <2>1, <2>3, <2>5 DEF LifeParts, LastKept
    <3>5. CurKept'
      BY <1>0, <1>a, <2>1, <2>3, <2>5, <3>1 DEF LifeParts, CurKept
    <3>. QED  BY <2>1, <2>4, <3>2, <3>3, <3>4, <3>5 DEF LifeInv, LifeParts
  <2>6. ASSUME ~Skipped(v), NEW stops \in BOOLEAN,
               reply' = reply \union {[uid |-> v, finished |-> Ends(v, stops)]},
               ~(Ends(v, stops) /\ FirstFinish(v)), UNCHANGED <<running, newFinished>>
        PROVE  LifeInv'
    <3>1. ~Overlap => v \in finished \/ RemainLen(v) > 0
      BY <2>3, <2>6 DEF Ends, FirstFinish
    <3>2. Known' /\ Queued' /\ Decoding' /\ Finals'
      BY <1>0, <1>a, <2>1, <2>3, <2>6 DEF LifeParts, Known, Queued, Decoding, Finals
    <3>3. Finishing'
      BY <1>0, <2>1, <2>6 DEF LifeParts, Finishing, Data
    <3>4. LastKept'
      BY <1>0, <1>a, <2>1, <2>3, <2>6 DEF LifeParts, LastKept
    <3>5. CurKept'
      BY <1>0, <1>a, <2>1, <2>3, <2>6, <3>1 DEF LifeParts, CurKept
    <3>. QED  BY <2>1, <2>4, <3>2, <3>3, <3>4, <3>5 DEF LifeInv, LifeParts
  <2>7. ASSUME ~Skipped(v), NEW stops \in BOOLEAN,
               reply' = reply \union {[uid |-> v, finished |-> Ends(v, stops)]},
               Ends(v, stops), running' = running \ {v}, newFinished' = newFinished \union {v}
        PROVE  LifeInv'
    <3>1. v \notin Data.chunked /\ v \notin deferred /\ v \in arrived
      BY <1>0, <2>2, <2>7 DEF Skipped, LifeParts, Known
    <3>2. v \notin Range(pending)
      BY <1>0, <2>2, <3>1 DEF LifeParts, Queued, Data
    <3>3. Known' /\ Queued' /\ Decoding'
      BY <1>0, <1>a, <2>1, <2>3, <2>7, <3>1, <3>2 DEF LifeParts, Known, Queued, Decoding
    <3>4. Finals'
      <4>1. Ends(v, stops) = TRUE
        BY <2>7 DEF Ends
      <4>2. [uid |-> v, finished |-> TRUE] \in reply'
        BY <2>7, <4>1
      <4>. QED  BY <1>0, <2>1, <2>7, <4>2 DEF LifeParts, Finals
    <3>5. Finishing'
      BY <1>0, <2>1, <2>2, <2>7, <3>1 DEF LifeParts, Finishing, Data
    <3>6. LastKept' /\ CurKept'
      BY <1>0, <1>a, <2>1, <2>3, <2>7 DEF LifeParts, LastKept, CurKept
    <3>. QED  BY <2>1, <2>4, <3>3, <3>4, <3>5, <3>6 DEF LifeInv, LifeParts
  <2>. QED
    BY <1>1, <2>5, <2>6, <2>7 DEF PostProcess, RemoveRunning
<1>2. ASSUME SendResult PROVE LifeInv'
  <2>1. /\ pc = "post" /\ pc' = "defer" /\ finished' = FinishedAfter /\ newFinished' = {}
        /\ todo = {} /\ todo' = Data.reqs \intersect deferred
        /\ sent' = [u \in Uids |-> sent[u] \o ReplyTo(u)]
        /\ UNCHANGED <<reqVars, pending, chunk, running, cur, last, deferred, arrived>>
    BY <1>2 DEF SendResult, pendVars, fenceVars
  <2>2. \A u \in Uids : RemainLen(u)' = RemainLen(u)
    BY <2>1 DEF RemainLen, reqVars
  <2>3. finished' \subseteq finished \union newFinished /\ newFinished \subseteq finished'
    <3>1. Data = NoBatch => newFinished = {}
      BY <1>0 DEF LifeParts, Finishing, NoBatch
    <3>. QED  BY <2>1, <3>1 DEF FinishedAfter
  <2>4. cur.reqs \intersect finished = {}
    BY <1>0, <2>1 DEF LifeParts, Batched
  <2>5. Known' /\ Queued' /\ Decoding'
    BY <1>0, <1>a, <2>1, <2>2, <2>3 DEF LifeParts, Known, Queued, Decoding
  <2>6. Batched' /\ Finishing' /\ ChunksKept' /\ LastKept'
    BY <1>0, <2>1 DEF LifeParts, Batched, Finishing, ChunksKept, LastKept
  <2>7. Deferring'
    <3>1. Data' = Data
      BY <2>1 DEF Data
    <3>. QED  BY <2>1, <3>1 DEF Deferring
  <2>8. CurKept'
    BY <1>0, <1>a, <2>1, <2>2, <2>3, <2>4 DEF LifeParts, CurKept
  <2>9. Finals'
    <3>1. SUFFICES ASSUME NEW u \in finished' PROVE "final" \in Range(sent'[u])
      BY <2>1 DEF Finals
    <3>2. u \in Uids
      BY <2>3, <3>1 DEF TypeOK
    <3>3. /\ sent[u] \in Seq({"token", "final", "ack"})
          /\ ReplyTo(u) \in Seq({"token", "final", "ack"})
          /\ sent'[u] = sent[u] \o ReplyTo(u)
      <4>1. /\ <<"final">> \in Seq({"token", "final", "ack"})
            /\ <<"token">> \in Seq({"token", "final", "ack"})
            /\ <<>> \in Seq({"token", "final", "ack"})
        OBVIOUS
      <4>2. ReplyTo(u) \in Seq({"token", "final", "ack"})
        BY <4>1 DEF ReplyTo
      <4>. QED  BY <2>1, <3>2, <4>2 DEF TypeOK
    <3>4. Range(sent'[u]) = Range(sent[u]) \union Range(ReplyTo(u))
      BY <3>3, ConcatRange
    <3>5. u \in finished => "final" \in Range(sent[u])
      BY <1>0 DEF LifeParts, Finals
    <3>6. u \in newFinished => "final" \in Range(ReplyTo(u))
      <4>1. u \in newFinished => ReplyTo(u) = <<"final">>
        BY <1>0 DEF LifeParts, Finals, ReplyTo
      <4>2. "final" \in Range(<<"final">>)
        BY DEF Range
      <4>. QED  BY <4>1, <4>2
    <3>. QED  BY <2>3, <3>1, <3>4, <3>5, <3>6
  <2>. QED
    BY <2>5, <2>6, <2>7, <2>8, <2>9 DEF LifeInv, LifeParts
<1>3. ASSUME NEW v \in Uids, FreeDeferred(v) PROVE LifeInv'
  <2>1. /\ pc = "defer" /\ pc' = "defer" /\ v \in todo /\ todo' = todo \ {v}
        /\ UNCHANGED <<reqVars, pending, chunk, running, cur, last, finished, newFinished, reply,
                       deferred, arrived, sent>>
    BY <1>3 DEF FreeDeferred, pendVars, envVars
  <2>2. \A u \in Uids : RemainLen(u)' = RemainLen(u)
    BY <2>1 DEF RemainLen, reqVars
  <2>3. v \in deferred
    BY <1>0, <2>1 DEF LifeParts, Deferring
  <2>4. ~Overlap => FALSE
    BY <1>0, <2>3 DEF LifeParts, Batched, FenceInv, AbortsFenced, NoBatch
  <2>5. newFinished = {} /\ Data' = Data
    BY <1>0, <2>1 DEF LifeParts, Finishing, Data
  <2>6. Known' /\ Queued' /\ Batched' /\ Finishing' /\ Deferring'
    BY <1>0, <2>1, <2>5 DEF LifeParts, Known, Queued, Batched, Finishing, Deferring
  <2>7. Decoding' /\ ChunksKept' /\ LastKept' /\ CurKept' /\ Finals'
    BY <1>0, <1>a, <2>1, <2>2, <2>4 DEF LifeParts, Decoding, ChunksKept, LastKept, CurKept, Finals
  <2>. QED
    BY <2>6, <2>7 DEF LifeInv, LifeParts
<1>4. ASSUME FlushAcks PROVE LifeInv'
  <2>1. /\ pc = "defer" /\ pc' = "loop" /\ todo = {} /\ todo' = {} /\ deferred' = {}
        /\ cur' = NoBatch /\ last' = (IF Overlap THEN cur ELSE NoBatch)
        /\ UNCHANGED <<reqVars, pending, chunk, running, finished, newFinished, reply, arrived>>
    BY <1>4 DEF FlushAcks, pendVars
  <2>2. \A u \in Uids : RemainLen(u)' = RemainLen(u)
    BY <2>1 DEF RemainLen, reqVars
  <2>3. newFinished = {}
    BY <1>0, <2>1 DEF LifeParts, Finishing
  <2>4. Known' /\ Queued' /\ Batched' /\ Finishing'
    BY <1>0, <2>1, <2>3 DEF LifeParts, Known, Queued, Batched, Finishing, NoBatch
  <2>5. Decoding' /\ ChunksKept' /\ CurKept' /\ Deferring'
    BY <1>0, <1>a, <2>1, <2>2 DEF LifeParts, Decoding, ChunksKept, CurKept, Deferring, Batched,
       NoBatch
  <2>6. LastKept'
    BY <1>0, <1>a, <2>1, <2>2 DEF LifeParts, LastKept, CurKept, NoBatch
  <2>7. Finals'
    <3>1. SUFFICES ASSUME NEW u \in finished PROVE "final" \in Range(sent'[u])
      BY <2>1, <2>3 DEF Finals
    <3>2. u \in Uids /\ "final" \in Range(sent[u])
      BY <1>0, <3>1 DEF TypeOK, LifeParts, Finals
    <3> DEFINE m == [i \in 1 .. acks[u] |-> "ack"]
    <3>3. sent[u] \in Seq({"token", "final", "ack"}) /\ acks[u] \in Nat
      BY <3>2 DEF TypeOK
    <3>4. m \in Seq({"token", "final", "ack"}) /\ sent'[u] = sent[u] \o m
      BY <1>4, <3>2, <3>3 DEF FlushAcks
    <3> HIDE DEF m
    <3>. QED  BY <3>2, <3>3, <3>4, ConcatRange
  <2>. QED
    BY <2>4, <2>5, <2>6, <2>7 DEF LifeInv, LifeParts
<1>. QED
  BY <1>1, <1>2, <1>3, <1>4

LEMMA LifeInductive == TypeOK /\ FenceInv /\ LifeInv /\ [Next]_vars => LifeInv'
<1>1. ASSUME LifeInv, UNCHANGED vars PROVE LifeInv'
  <2>1. UNCHANGED <<pc, reqVars, pending, chunk, budget, running, cur, last, todo, finished,
                    newFinished, reply, deferred, arrived, sent>>
    BY <1>1 DEF vars, pendVars, loopVars, fenceVars, envVars
  <2>2. Serving' = Serving
    BY <2>1 DEF Serving
  <2>3. LifeParts => Known' /\ Queued' /\ Batched' /\ Finishing' /\ Decoding'
    BY <2>1 DEF LifeParts, Known, Queued, Batched, Finishing, Decoding, RemainLen, reqVars, Data
  <2>4. LifeParts => ChunksKept' /\ LastKept' /\ CurKept' /\ Deferring' /\ Finals'
    BY <2>1 DEF LifeParts, ChunksKept, LastKept, CurKept, Deferring, Finals, RemainLen, reqVars,
       Data
  <2>. QED
    BY <1>1, <2>2, <2>3, <2>4 DEF LifeInv, LifeParts
<1>2. ASSUME DrainEnd \/ \E u \in Uids : DrainOne(u) PROVE ~Serving'
  BY <1>2 DEF DrainEnd, DrainOne, Serving
<1>. QED
  BY <1>1, <1>2, LifeReceive, LifeSchedule, LifeFinish DEF Next, Step, Idle, LifeInv

-----------------------------------------------------------------------------
(* The lengths of a request, from the queue to its last forward.  A ChunkedReq
   has prompt left after the forward it is in. *)
Sized ==
  /\ \A u \in Range(pending) :
       prompt[u] > 0 /\ out[u] > 0 /\ prompt[u] + out[u] <= MaxSeqLen
  /\ \A u \in chunk : cached[u] < prompt[u]
  /\ \A u \in running : cached[u] < device[u] /\ prompt[u] + out[u] <= MaxSeqLen
  /\ pc \in {"admit", "forward"} =>
       \A u \in cur.reqs : /\ cached[u] < device[u] /\ device[u] < prompt[u] + out[u]
                           /\ prompt[u] + out[u] <= MaxSeqLen
                           /\ u \in cur.chunked => device[u] < prompt[u]
SizedInv == Serving => Sized

(* Steps that change no length and run nothing new. *)
LEMMA SizedKept ==
  ASSUME Sized, UNCHANGED reqVars, Range(pending') \subseteq Range(pending),
         chunk' \subseteq chunk, running' \subseteq running,
         pc' \notin {"admit", "forward"} \/ cur'.reqs = {}
  PROVE  Sized'
BY DEF Sized, reqVars

LEMMA SizedReceive ==
  ASSUME TypeOK, FenceInv, LifeInv, SizedInv, Arrival PROVE SizedInv'
<1>0. pc \in {"wait", "recv"} /\ Sized /\ LifeParts
  <2>1. pc \in {"wait", "recv"}
    BY DEF Arrival, HandleUser, HandleAbort, HandleExit, Receiving
  <2>. QED  BY <2>1 DEF Serving, SizedInv, LifeInv
<1>1. ASSUME NEW v \in Uids, HandleUser(v) PROVE Sized'
  <2>1. v \notin arrived /\ pc' = "recv" /\ UNCHANGED <<cached, device, slot, chunk, running>>
    BY <1>1 DEF HandleUser
  <2>2. PICK p \in PromptLens, m \in OutLens :
          IF MaxSeqLen - p <= 0
          THEN UNCHANGED <<prompt, out, pending>>
          ELSE /\ prompt' = [prompt EXCEPT ![v] = p]
               /\ out' = [out EXCEPT ![v] = IF m > MaxSeqLen - p THEN MaxSeqLen - p ELSE m]
               /\ pending' = Append(pending, v)
    BY <1>1 DEF HandleUser
  <2>3. CASE MaxSeqLen - p <= 0
    <3>1. UNCHANGED reqVars /\ pending' = pending
      BY <2>1, <2>2, <2>3 DEF reqVars
    <3>. QED  BY <1>0, <2>1, <3>1, SizedKept
  <2>4. CASE ~(MaxSeqLen - p <= 0)
    <3> DEFINE n == IF m > MaxSeqLen - p THEN MaxSeqLen - p ELSE m
    <3>1. /\ prompt' = [prompt EXCEPT ![v] = p] /\ out' = [out EXCEPT ![v] = n]
          /\ pending' = Append(pending, v)
      BY <2>2, <2>4
    <3>2. p \in Nat /\ p > 0 /\ n \in Nat /\ n > 0 /\ p + n <= MaxSeqLen
      <4>1. p \in Nat \ {0} /\ m \in Nat \ {0} /\ MaxSeqLen \in Nat
        BY ConstantsAssumption
      <4>. QED  BY <2>4, <4>1
    <3> HIDE DEF n
    <3>3. /\ prompt'[v] = p /\ out'[v] = n
          /\ \A u \in Uids : u /= v => prompt'[u] = prompt[u] /\ out'[u] = out[u]
      BY <3>1 DEF TypeOK
    <3>4. Range(pending') = Range(pending) \union {v} /\ Range(pending) \subseteq Uids
      <4>1. pending \in Seq(Uids)
        BY DEF TypeOK
      <4>2. Range(Append(pending, v)) = Range(pending) \union {v}
        BY <4>1, AppendRange
      <4>3. Range(pending) \subseteq Uids
        BY <4>1 DEF Range
      <4>. QED  BY <3>1, <4>2, <4>3
    <3>5. v \notin chunk /\ v \notin running /\ chunk \subseteq Uids /\ running \subseteq Uids
      BY <1>0, <2>1 DEF LifeParts, Known, Queued, FenceInv, PendingOnce, TypeOK
    <3>. QED  BY <1>0, <2>1, <3>2, <3>3, <3>4, <3>5 DEF Sized
  <2>. QED  BY <2>3, <2>4
<1>2. ASSUME NEW v \in Uids, HandleAbort(v) PROVE Sized'
  <2>1. pc' = "recv" /\ RemovePending(v) /\ running' = running \ {v} /\ UNCHANGED reqVars
    BY <1>2 DEF HandleAbort, DeferAbort, AbortNow, RemoveRunning
  <2>2. Range(pending') = Range(pending) \ {v} /\ chunk' = chunk \ {v}
    BY <2>1, RemovePendingKeeps DEF FenceInv
  <2>. QED  BY <1>0, <2>1, <2>2, SizedKept
<1>3. ASSUME HandleExit PROVE ~Serving'
  BY <1>3 DEF HandleExit, Serving
<1>. QED
  BY <1>1, <1>2, <1>3 DEF Arrival, SizedInv

(* A prompt enters a batch in chunks that are not empty, and a forward leaves
   one token more than it has computed. *)
LEMMA SizedStep ==
  ASSUME TypeOK, FenceInv, LifeInv, SizedInv, Step PROVE SizedInv'
<1>1. ASSUME BeginTick \/ EndReceive PROVE SizedInv'
  <2>1. /\ pc \in {"loop", "recv"} /\ UNCHANGED <<reqVars, pending, chunk, running, cur>>
    BY <1>1 DEF BeginTick, EndReceive, pendVars, loopVars
  <2>2. Sized /\ cur'.reqs = {}
    BY <2>1 DEF SizedInv, Serving, FenceInv, TickPhases, NoBatch
  <2>. QED  BY <2>1, <2>2, SizedKept DEF SizedInv
<1>2. ASSUME TryAddOne PROVE SizedInv'
  <2> DEFINE v    == Head(pending)
             from == IF v \in chunk THEN cached[v] ELSE 0
             rest == prompt[v] - from
  <2>1. /\ pc = "admit" /\ pc' = "admit" /\ pending /= <<>> /\ budget > 0
        /\ UNCHANGED <<prompt, out, running>>
        /\ cached' = [cached EXCEPT ![v] = from]
        /\ device' = [device EXCEPT ![v] = from + ChunkSize(rest)]
        /\ pending' = pending \/ pending' = Tail(pending)
        /\ chunk' = IF ChunkSize(rest) < rest THEN chunk \union {v} ELSE chunk \ {v}
        /\ cur'.reqs = cur.reqs \union {v}
        /\ cur'.chunked = IF ChunkSize(rest) < rest THEN cur.chunked \union {v} ELSE cur.chunked
    BY <1>2 DEF TryAddOne, CanAdd
  <2>2. Sized /\ LifeParts
    BY <2>1 DEF SizedInv, LifeInv, Serving
  <2>3. v \in Range(pending) /\ Range(pending') \subseteq Range(pending) /\ v \in Uids
    BY <2>1, TailKeeps, HeadTailProperties DEF FenceInv, PendingOnce, TypeOK
  <2>4. /\ prompt[v] \in Nat /\ out[v] \in Nat /\ from \in Nat /\ from < prompt[v] /\ out[v] > 0
        /\ prompt[v] + out[v] <= MaxSeqLen
    BY <2>2, <2>3 DEF Sized, TypeOK
  <2>5. /\ v \notin running /\ cur.chunked = {}
        /\ running \subseteq Uids /\ chunk \subseteq Uids /\ cur.reqs \subseteq Uids
    <3>1. cur.chunked /= {} => budget = 0
      BY <2>1, <2>2 DEF LifeParts, Batched
    <3>2. running \subseteq Uids /\ chunk \subseteq Uids /\ cur.reqs \subseteq Uids
      BY DEF TypeOK, Batches
    <3>. QED  BY <2>1, <2>2, <2>3, <3>1, <3>2 DEF LifeParts, Queued
  <2> DEFINE size == ChunkSize(rest)
  <2>6. size \in Nat /\ size > 0 /\ size <= rest /\ rest \in Nat
    <3>1. budget \in Nat /\ budget > 0
      BY <2>1 DEF TypeOK
    <3> HIDE DEF from, v
    <3>2. rest \in Nat /\ rest > 0
      BY <2>4
    <3> HIDE DEF rest
    <3>. QED  BY <3>1, <3>2 DEF ChunkSize
  <2>7. /\ cached'[v] = from /\ device'[v] = from + size
        /\ \A u \in Uids : u /= v => cached'[u] = cached[u] /\ device'[u] = device[u]
    BY <2>1, <2>3 DEF TypeOK
  <2>8. /\ from < from + size /\ from + size < prompt[v] + out[v]
        /\ size < rest => from + size < prompt[v]
    BY <2>4, <2>6
  <2>8a. /\ chunk' = IF size < rest THEN chunk \union {v} ELSE chunk \ {v}
         /\ cur'.chunked = IF size < rest THEN cur.chunked \union {v} ELSE cur.chunked
    BY <2>1
  <2> HIDE DEF size, from, rest, v
  <2>9. \A u \in Range(pending') : prompt'[u] > 0 /\ out'[u] > 0 /\ prompt'[u] + out'[u] <= MaxSeqLen
    BY <2>1, <2>2, <2>3 DEF Sized
  <2>10. \A u \in chunk' : cached'[u] < prompt'[u]
    <3>1. chunk' \subseteq chunk \union {v}
      BY <2>8a
    <3>. QED  BY <2>1, <2>2, <2>4, <2>5, <2>7, <3>1 DEF Sized
  <2>11. \A u \in running' : cached'[u] < device'[u] /\ prompt'[u] + out'[u] <= MaxSeqLen
    BY <2>1, <2>2, <2>5, <2>7 DEF Sized
  <2>12. \A u \in cur'.reqs : /\ cached'[u] < device'[u] /\ device'[u] < prompt'[u] + out'[u]
                              /\ prompt'[u] + out'[u] <= MaxSeqLen
                              /\ u \in cur'.chunked => device'[u] < prompt'[u]
    <3>1. ASSUME NEW u \in cur.reqs, u /= v
          PROVE  /\ cached'[u] < device'[u] /\ device'[u] < prompt'[u] + out'[u]
                 /\ prompt'[u] + out'[u] <= MaxSeqLen /\ u \notin cur'.chunked
      BY <2>1, <2>2, <2>5, <2>7, <2>8a, <3>1 DEF Sized
    <3>2. /\ cached'[v] < device'[v] /\ device'[v] < prompt'[v] + out'[v]
          /\ prompt'[v] + out'[v] <= MaxSeqLen
          /\ v \in cur'.chunked => device'[v] < prompt'[v]
      BY <2>1, <2>4, <2>5, <2>7, <2>8, <2>8a
    <3>. QED  BY <2>1, <3>1, <3>2
  <2>. QED  BY <2>9, <2>10, <2>11, <2>12 DEF SizedInv, Sized
<1>3. ASSUME CloseBatch PROVE SizedInv'
  <2>1. /\ pc = "admit" /\ pc' = "forward"
        /\ cur' = cur \/ cur' = [reqs |-> running, chunked |-> {}]
        /\ UNCHANGED <<reqVars, pending, chunk, running>>
    BY <1>3 DEF CloseBatch, pendVars
  <2>2. Sized /\ LifeParts
    BY <2>1 DEF SizedInv, LifeInv, Serving
  <2>3. \A u \in running : device[u] < prompt[u] + out[u]
    <3>1. \A u \in running : /\ RemainLen(u) > 0
                             /\ prompt[u] \in Nat /\ out[u] \in Nat /\ device[u] \in Nat
      BY <2>2 DEF LifeParts, Decoding, TypeOK
    <3>. QED  BY <3>1 DEF RemainLen
  <2>. QED  BY <2>1, <2>2, <2>3 DEF SizedInv, Sized, reqVars
<1>4. ASSUME Forward PROVE SizedInv'
  <2>1. CASE pc' = "crashed"
    BY <2>1 DEF SizedInv, Serving
  <2>2. CASE pc' /= "crashed"
    <3>1. /\ pc = "forward" /\ pc' = "post"
          /\ cached' = [u \in Uids |-> IF u \in cur.reqs THEN device[u] ELSE cached[u]]
          /\ device' = [u \in Uids |-> IF u \in cur.reqs THEN device[u] + 1 ELSE device[u]]
          /\ running' \subseteq running \union cur.reqs
          /\ UNCHANGED <<prompt, out, pending, chunk>>
      BY <1>4, <2>2 DEF Forward, pendVars
    <3>2. Sized /\ LifeParts
      BY <3>1 DEF SizedInv, LifeInv, Serving
    <3>3. /\ running \subseteq Uids /\ chunk \subseteq Uids /\ cur.reqs \subseteq Uids
          /\ \A u \in Uids : device[u] \in Nat
      BY DEF TypeOK, Batches
    <3>4. \A u \in chunk' : cached'[u] < prompt'[u]
      <4>1. \A u \in chunk \intersect cur.reqs : u \in cur.chunked
        BY <3>2 DEF LifeParts, Queued
      <4>. QED  BY <3>1, <3>2, <3>3, <4>1 DEF Sized
    <3>5. \A u \in running' : cached'[u] < device'[u] /\ prompt'[u] + out'[u] <= MaxSeqLen
      BY <3>1, <3>2, <3>3 DEF Sized
    <3>. QED  BY <3>1, <3>2, <3>4, <3>5 DEF SizedInv, Sized
  <2>. QED  BY <2>1, <2>2
<1>5. ASSUME (\E u \in Uids : PostProcess(u) \/ FreeDeferred(u)) \/ SendResult \/ FlushAcks
      PROVE  SizedInv'
  <2>1. /\ pc \in {"post", "defer"} /\ pc' \in {"post", "defer", "loop"}
        /\ UNCHANGED <<reqVars, pending, chunk>> /\ running' \subseteq running
    BY <1>5 DEF PostProcess, FreeDeferred, SendResult, FlushAcks, RemoveRunning, pendVars
  <2>2. Sized
    BY <2>1 DEF SizedInv, Serving
  <2>. QED  BY <2>1, <2>2, SizedKept DEF SizedInv
<1>6. ASSUME DrainEnd \/ \E u \in Uids : DrainOne(u) PROVE ~Serving'
  BY <1>6 DEF DrainEnd, DrainOne, Serving
<1>. QED
  BY <1>1, <1>2, <1>3, <1>4, <1>5, <1>6 DEF Step, SizedInv

LEMMA SizedInductive == TypeOK /\ FenceInv /\ LifeInv /\ SizedInv /\ [Next]_vars => SizedInv'
<1>1. ASSUME SizedInv, UNCHANGED vars PROVE SizedInv'
  <2>1. UNCHANGED <<pc, reqVars, pending, chunk, running, cur>>
    BY <1>1 DEF vars, pendVars, loopVars
  <2>. QED  BY <1>1, <2>1 DEF SizedInv, Serving, Sized, reqVars
<1>. QED
  BY <1>1, SizedReceive, SizedStep DEF Next, Idle

LEMMA SizedInit == Init => SizedInv
BY DEF Init, SizedInv, Sized, Range, NoBatch

(* The assertions of Req.__post_init__ and the bounds of a row, for every
   request a batch is about to run: through chunks, decoding and the extra
   forward of overlap_loop there is a token to compute, and the one sampled
   has its place below max_seq_len. *)
THEOREM BoundsCorrect == Spec => []ReqBounds
<1>1. TypeOK /\ SizedInv => ReqBounds
  <2> SUFFICES ASSUME TypeOK, SizedInv, pc = "forward" PROVE ReqBounds
    BY DEF ReqBounds
  <2>1. \A u \in cur.reqs : cached[u] \in Nat
    BY DEF TypeOK, Batches
  <2>2. Sized
    BY DEF SizedInv, Serving
  <2>. QED  BY <2>1, <2>2 DEF ReqBounds, Sized
<1>. QED
  BY <1>1, SizedInit, SizedInductive, LifeInit, LifeInductive, FenceInit, FenceInductive,
     TypeCorrect, PTL DEF Spec

-----------------------------------------------------------------------------
(* Rows and pages.                                                         *)

(* A stack of free rows and the rows of some owners: each row is on the stack
   or is one owner's. *)
Shared(free, row, owners) ==
  /\ IsInjective(free)
  /\ \A u \in owners : row[u] \notin Range(free)
  /\ \A u, v \in owners : row[u] = row[v] => u = v
  /\ Range(free) \union {row[u] : u \in owners} = Slots

(* Pages are drawn by owners only, each for its cached tokens. *)
Drawn(pages, len, owners) ==
  \A u \in Uids : pages[u] = IF u \in owners THEN Pages(len[u]) ELSE 0

(* While the loop serves, the owners are the holders; a shutdown returns what
   _drain_requests has still to visit. *)
HoldInv ==
  /\ Serving /\ Regular => Shared(freeSlots, slot, Holders) /\ Drawn(taken, cached, Holders)
  /\ ~Overlap /\ pc \in {"drain", "stopped"} =>
       Shared(freeSlots, slot, todo) /\ (pc = "stopped" => todo = {})

(* A request gets the row on top of the stack. *)
LEMMA Acquire ==
  ASSUME NEW S, NEW U, NEW free \in Seq(S), NEW row \in [U -> S], NEW owners \in SUBSET U,
         NEW u \in U, u \notin owners, free /= <<>>, Shared(free, row, owners)
  PROVE  Shared(Front(free), [row EXCEPT ![u] = Last(free)], owners \union {u})
<1> DEFINE f == Front(free)
           r == [row EXCEPT ![u] = Last(free)]
<1>1. /\ IsInjective(f) /\ Last(free) \in Range(free)
      /\ Range(f) = Range(free) \ {Last(free)}
  BY FrontKeeps DEF Shared
<1>2. r[u] = Last(free) /\ \A v \in owners : v /= u /\ r[v] = row[v]
  OBVIOUS
<1> HIDE DEF f, r
<1>3. \A v \in owners \union {u} : r[v] \notin Range(f)
  BY <1>1, <1>2 DEF Shared
<1>4. \A v, w \in owners \union {u} : r[v] = r[w] => v = w
  BY <1>1, <1>2 DEF Shared
<1>5. {r[v] : v \in owners \union {u}} = {row[v] : v \in owners} \union {Last(free)}
  BY <1>2
<1>6. Range(f) \union {r[v] : v \in owners \union {u}} = Slots
  BY <1>1, <1>5 DEF Shared
<1>. QED
  BY <1>1, <1>3, <1>4, <1>6 DEF Shared, f, r

(* _free_req_resources puts it back. *)
LEMMA Release ==
  ASSUME NEW S, NEW U, NEW free \in Seq(S), NEW row \in [U -> S], NEW owners \in SUBSET U,
         NEW u \in owners, Shared(free, row, owners)
  PROVE  Shared(Append(free, row[u]), row, owners \ {u})
<1> DEFINE f == Append(free, row[u])
<1>1. row[u] \in S /\ row[u] \notin Range(free) /\ IsInjective(free)
  BY DEF Shared
<1>2. IsInjective(f) /\ Range(f) = Range(free) \union {row[u]}
  BY <1>1, AppendOnce, AppendRange
<1> HIDE DEF f
<1>3. \A v \in owners \ {u} : row[v] \notin Range(f)
  BY <1>2 DEF Shared
<1>4. Range(f) \union {row[v] : v \in owners \ {u}} = Slots
  <2>1. {row[v] : v \in owners} = {row[v] : v \in owners \ {u}} \union {row[u]}
    OBVIOUS
  <2>. QED  BY <1>2, <2>1 DEF Shared
<1>. QED
  BY <1>2, <1>3, <1>4 DEF Shared, f

LEMMA NoPages == Pages(0) = 0
BY ConstantsAssumption DEF Pages

(* The process fails at the top of a tick or at a forward, nowhere else, and
   once it has left its loop it does not come back. *)
LEMMA CrashesWhere ==
  ASSUME [Next]_vars, pc /= "crashed", pc' = "crashed" PROVE BeginTick \/ Forward
<1>1. ASSUME NEW u \in Uids, HandleUser(u) \/ HandleAbort(u) PROVE FALSE
  BY <1>1 DEF HandleUser, HandleAbort
<1>2. ASSUME NEW u \in Uids, PostProcess(u) \/ FreeDeferred(u) \/ DrainOne(u) PROVE FALSE
  BY <1>2 DEF PostProcess, FreeDeferred, DrainOne
<1>3. ASSUME HandleExit \/ EndReceive \/ TryAddOne \/ CloseBatch PROVE FALSE
  BY <1>3 DEF HandleExit, EndReceive, TryAddOne, CloseBatch
<1>4. ASSUME SendResult \/ FlushAcks \/ DrainEnd \/ UNCHANGED vars PROVE FALSE
  BY <1>4 DEF SendResult, FlushAcks, DrainEnd, vars
<1>. QED
  BY <1>1, <1>2, <1>3, <1>4 DEF Next, Arrival, Step, Idle

LEMMA ServingBefore ==
  ASSUME [Next]_vars, Serving' PROVE Serving
<1>1. ASSUME NEW u \in Uids, HandleUser(u) \/ HandleAbort(u) PROVE Serving
  BY <1>1 DEF HandleUser, HandleAbort, Receiving, Serving
<1>2. ASSUME NEW u \in Uids, PostProcess(u) \/ FreeDeferred(u) \/ DrainOne(u) PROVE Serving
  BY <1>2 DEF PostProcess, FreeDeferred, DrainOne, Serving
<1>3. ASSUME HandleExit \/ BeginTick \/ EndReceive \/ TryAddOne \/ CloseBatch \/ Forward
      PROVE  Serving
  BY <1>3 DEF HandleExit, BeginTick, EndReceive, TryAddOne, CloseBatch, Forward, Receiving, Serving
<1>4. ASSUME SendResult \/ FlushAcks \/ DrainEnd \/ UNCHANGED vars PROVE Serving
  BY <1>4 DEF SendResult, FlushAcks, DrainEnd, vars, Serving
<1>. QED
  BY <1>1, <1>2, <1>3, <1>4 DEF Next, Arrival, Step, Idle

(* Nothing a client has seen is taken back, no abort is forgotten: what is
   regular after a step was regular before it. *)
LEMMA RegularBefore ==
  ASSUME TypeOK, [Next]_vars, Regular' PROVE Regular
<1>1. \A u \in Uids : aborts[u] > 0 => aborts'[u] > 0
  <2> DEFINE Kept == \A u \in Uids : aborts[u] > 0 => aborts'[u] > 0
  <2>1. ASSUME NEW v \in Uids, HandleUser(v) PROVE Kept
    BY <2>1 DEF HandleUser
  <2>2. ASSUME NEW v \in Uids, HandleAbort(v) PROVE Kept
    <3>1. aborts' = [aborts EXCEPT ![v] = @ + 1]
      BY <2>2 DEF HandleAbort
    <3>. QED  BY <3>1 DEF TypeOK
  <2>3. ASSUME NEW v \in Uids, PostProcess(v) \/ FreeDeferred(v) \/ DrainOne(v) PROVE Kept
    BY <2>3 DEF PostProcess, FreeDeferred, DrainOne, envVars
  <2>4. ASSUME HandleExit \/ BeginTick \/ EndReceive \/ TryAddOne \/ CloseBatch PROVE Kept
    BY <2>4 DEF HandleExit, BeginTick, EndReceive, TryAddOne, CloseBatch, envVars
  <2>5. ASSUME Forward \/ SendResult \/ FlushAcks \/ DrainEnd PROVE Kept
    BY <2>5 DEF Forward, SendResult, FlushAcks, DrainEnd, envVars
  <2>6. ASSUME UNCHANGED vars PROVE Kept
    BY <2>6 DEF vars, envVars
  <2> HIDE DEF Kept
  <2>7. Kept
    BY <2>1, <2>2, <2>3, <2>4, <2>5, <2>6 DEF Next, Arrival, Step, Idle
  <2>. QED  BY <2>7 DEF Kept
<1>2. \A u \in Uids : Range(sent[u]) \subseteq Range(sent'[u])
  <2> TAKE u \in Uids
  <2>1. sent[u] \in Seq({"token", "final", "ack"}) /\ acks[u] \in Nat
    BY DEF TypeOK
  <2>2. CASE SendResult
    <3>1. /\ <<"final">> \in Seq({"token", "final", "ack"})
          /\ <<"token">> \in Seq({"token", "final", "ack"})
          /\ <<>> \in Seq({"token", "final", "ack"})
      OBVIOUS
    <3>2. ReplyTo(u) \in Seq({"token", "final", "ack"}) /\ sent'[u] = sent[u] \o ReplyTo(u)
      BY <2>2, <3>1 DEF ReplyTo, SendResult
    <3>. QED  BY <2>1, <3>2, ConcatRange
  <2>3. CASE FlushAcks
    <3> DEFINE m == [i \in 1 .. acks[u] |-> "ack"]
    <3>1. m \in Seq({"token", "final", "ack"}) /\ sent'[u] = sent[u] \o m
      BY <2>1, <2>3 DEF FlushAcks
    <3> HIDE DEF m
    <3>. QED  BY <2>1, <3>1, ConcatRange
  <2>. QED  BY <2>2, <2>3, OnlyTickEndsSend
<1>. QED
  BY <1>1, <1>2 DEF Regular, NoLateAbort

(* A deferred request has not had its final message. *)
LEMMA DeferredGoesOn ==
  ASSUME TypeOK, FenceInv, LifeParts, Regular
  PROVE  \A u \in deferred : Overlap /\ u \notin finished /\ u \notin newFinished
<1>1. \A u \in deferred : u \in Uids /\ u \in last.reqs /\ aborts[u] > 0
  BY DEF FenceInv, AbortsFenced, TypeOK
<1>2. \A u \in deferred : Overlap
  BY <1>1 DEF LifeParts, Batched, NoBatch
<1>3. \A u \in deferred : u \notin finished
  BY <1>1, <1>2 DEF Regular, NoLateAbort, LifeParts, Finals
<1>4. \A u \in deferred : u \notin newFinished
  BY DEF LifeParts, Finishing
<1>. QED
  BY <1>2, <1>3, <1>4

Held == Shared(freeSlots, slot, Holders) /\ Drawn(taken, cached, Holders)

LEMMA HoldersType == ASSUME TypeOK PROVE Holders \subseteq Uids
<1>1. /\ chunk \subseteq Uids /\ running \subseteq Uids /\ todo \subseteq Uids
      /\ cur.reqs \subseteq Uids /\ last.reqs \subseteq Uids
  BY DEF TypeOK, Batches
<1>. QED
  BY <1>1 DEF Holders, Unprocessed, Data

(* A step that neither takes nor frees, and after which the same requests hold. *)
LEMMA HoldKept ==
  ASSUME Held, UNCHANGED <<freeSlots, slot, taken, cached>>, Holders' = Holders PROVE Held'
BY DEF Held, Shared, Drawn

(* One release of one holder. *)
LEMMA HoldFreed ==
  ASSUME TypeOK, Held, NEW u \in Uids, u \in Holders, FreeReqResources(u),
         UNCHANGED <<slot, cached>>, Holders' = Holders \ {u}
  PROVE  Held'
<1>1. /\ freeSlots \in Seq(Slots \union {NoSlot}) /\ slot \in [Uids -> Slots \union {NoSlot}]
      /\ taken \in [Uids -> Int] /\ Holders \subseteq Uids /\ cached[u] \in Nat
  BY HoldersType DEF TypeOK
<1>2. freeSlots' = Append(freeSlots, slot[u]) /\ taken' = [taken EXCEPT ![u] = @ - Pages(cached[u])]
  BY DEF FreeReqResources
<1>3. Shared(Append(freeSlots, slot[u]), slot, Holders \ {u})
  BY <1>1, Release DEF Held
<1>4. Shared(freeSlots, slot, Holders)'
  BY <1>2, <1>3
<1>5. taken[u] = Pages(cached[u]) /\ Pages(cached[u]) \in Nat
  BY <1>1, PagesType DEF Held, Drawn
<1>6. taken'[u] = 0 /\ \A v \in Uids : v /= u => taken'[v] = taken[v]
  BY <1>1, <1>2, <1>5
<1>7. Drawn(taken, cached, Holders)'
  BY <1>6 DEF Held, Drawn
<1>. QED
  BY <1>4, <1>7 DEF Held

(* While a batch is being built nothing of the last one is finished or freed. *)
LEMMA HoldersOpen ==
  ASSUME pc \in {"loop", "wait", "recv", "admit", "forward"}, newFinished = {}
  PROVE  Holders = chunk \union running \union (Data.reqs \ finished) \union (cur.reqs \ finished)
BY DEF Holders, Unprocessed

LEMMA HoldReceive ==
  ASSUME TypeOK, FenceInv, LifeParts, Held, Regular',
         NEW v \in Uids, HandleUser(v) \/ HandleAbort(v)
  PROVE  Held'
<1>1. /\ pc \in {"wait", "recv"} /\ pc' = "recv" /\ newFinished = {} /\ cur = NoBatch
      /\ inflight = last.reqs /\ UNCHANGED <<slot, cached, cur, last, finished, newFinished>>
  <2>1. /\ pc \in {"wait", "recv"} /\ pc' = "recv"
        /\ UNCHANGED <<slot, cached, cur, last, finished, newFinished>>
    BY DEF HandleUser, HandleAbort, Receiving, reqVars, loopVars
  <2>. QED  BY <2>1 DEF FenceInv, TickPhases, LifeParts, Finishing
<1>2. Holders = chunk \union running \union (Data.reqs \ finished)
  BY <1>1, HoldersOpen DEF NoBatch
<1>3. Holders' = chunk' \union running' \union (Data.reqs \ finished)
  BY <1>1 DEF Holders, Unprocessed, Data, NoBatch
<1>4. ASSUME HandleUser(v) PROVE Held'
  <2>1. UNCHANGED <<chunk, running, freeSlots, taken>>
    BY <1>4 DEF HandleUser
  <2>. QED  BY <1>1, <1>2, <1>3, <2>1, HoldKept
<1>5. ASSUME HandleAbort(v) PROVE Held'
  <2>1. /\ chunk' = chunk \ {v} /\ running' = running \ {v} /\ sent' = sent
        /\ aborts' = [aborts EXCEPT ![v] = @ + 1] /\ (DeferAbort(v) \/ AbortNow(v))
    BY <1>5 DEF HandleAbort, DeferAbort, AbortNow, RemovePending, RemoveRunning
  <2>2. CASE DeferAbort(v)
    <3>1. v \in last.reqs /\ UNCHANGED <<freeSlots, taken>>
      BY <1>1, <2>2 DEF DeferAbort
    <3>2. Overlap
      BY <3>1 DEF LifeParts, Batched, NoBatch
    <3>3. v \notin finished
      <4>1. aborts'[v] > 0
        BY <2>1 DEF TypeOK
      <4>. QED  BY <2>1, <3>2, <4>1 DEF Regular, NoLateAbort, LifeParts, Finals
    <3>4. Holders' = Holders
      BY <1>2, <1>3, <2>1, <3>1, <3>2, <3>3 DEF Data
    <3>. QED  BY <1>1, <3>1, <3>4, HoldKept
  <2>3. CASE AbortNow(v)
    <3>1. v \notin Data.reqs
      BY <1>1, <2>3 DEF AbortNow, Data, NoBatch
    <3>2. Holders' = Holders \ {v}
      BY <1>2, <1>3, <2>1, <3>1
    <3>3. CASE v \in chunk \union running
      <4>1. FreeReqResources(v) /\ v \in Holders
        BY <1>2, <2>3, <3>3 DEF AbortNow
      <4>. QED  BY <1>1, <3>2, <4>1, HoldFreed
    <3>4. CASE v \notin chunk \union running
      <4>1. UNCHANGED <<freeSlots, taken>> /\ Holders' = Holders
        BY <1>2, <2>3, <3>1, <3>2, <3>4 DEF AbortNow
      <4>. QED  BY <1>1, <4>1, HoldKept
    <3>. QED  BY <3>3, <3>4
  <2>. QED  BY <2>1, <2>2, <2>3
<1>. QED
  BY <1>4, <1>5

(* A new request takes a row and no page, a chunk keeps what it has; the pages
   a forward draws are those of the tokens it caches. *)
LEMMA HoldSchedule ==
  ASSUME TypeOK, FenceInv, LifeParts, Held,
         BeginTick \/ EndReceive \/ TryAddOne \/ CloseBatch \/ Forward, pc' /= "crashed"
  PROVE  Held'
<1>0. newFinished = {} /\ pc \in {"loop", "recv", "admit", "forward"}
  BY DEF LifeParts, Finishing, BeginTick, EndReceive, TryAddOne, CloseBatch, Forward
<1>a. Holders = chunk \union running \union (Data.reqs \ finished) \union (cur.reqs \ finished)
  BY <1>0, HoldersOpen
<1>b. ASSUME pc' \in {"wait", "recv", "admit", "forward"},
             UNCHANGED <<last, finished, newFinished>>
      PROVE  Holders' = chunk' \union running' \union (Data'.reqs \ finished)
                           \union (cur'.reqs \ finished)
  BY <1>0, <1>b DEF Holders, Unprocessed
<1>1. ASSUME BeginTick \/ EndReceive PROVE Held'
  <2>1. /\ pc' \in {"wait", "recv", "admit"}
        /\ UNCHANGED <<slot, cached, freeSlots, taken, chunk, running, cur, last, finished,
                       newFinished>>
    BY <1>1 DEF BeginTick, EndReceive, reqVars, pendVars, loopVars
  <2>2. Holders' = Holders
    BY <1>a, <1>b, <2>1 DEF Data
  <2>. QED  BY <2>1, <2>2, HoldKept
<1>2. ASSUME TryAddOne PROVE Held'
  <2> DEFINE v == Head(pending)
  <2>1. /\ pc = "admit" /\ pc' = "admit" /\ pending /= <<>>
        /\ UNCHANGED <<running, taken, last, finished, newFinished>>
        /\ chunk' = chunk \union {v} \/ chunk' = chunk \ {v}
        /\ cur'.reqs = cur.reqs \union {v}
        /\ cached' = [cached EXCEPT ![v] = IF v \in chunk THEN cached[v] ELSE 0]
        /\ v \in chunk => UNCHANGED <<slot, freeSlots>>
        /\ v \notin chunk => /\ freeSlots /= <<>> /\ freeSlots' = Front(freeSlots)
                             /\ slot' = [slot EXCEPT ![v] = Last(freeSlots)]
    BY <1>2 DEF TryAddOne, CanAdd, CanAllocate
  <2>2. v \in Range(pending) /\ v \in Uids
    BY <2>1, TailKeeps, HeadTailProperties DEF FenceInv, PendingOnce, TypeOK
  <2>3. v \notin finished
    BY <2>2 DEF LifeParts, Queued
  <2> HIDE DEF v
  <2>4. Holders' = Holders \union {v}
    <3>1. Holders' = chunk' \union running' \union (Data'.reqs \ finished) \union (cur'.reqs \ finished)
      BY <1>b, <2>1
    <3>2. Data'.reqs = Data.reqs \/ Data'.reqs = Data.reqs \union {v}
      BY <2>1 DEF Data
    <3>. QED  BY <1>a, <2>1, <2>3, <3>1, <3>2
  <2>5. CASE v \in chunk
    <3>1. cached' = cached /\ UNCHANGED <<slot, freeSlots>>
      BY <2>1, <2>2, <2>5 DEF TypeOK
    <3>2. Holders' = Holders
      BY <1>a, <2>4, <2>5
    <3>. QED  BY <2>1, <3>1, <3>2, HoldKept
  <2>6. CASE v \notin chunk
    <3>1. v \notin Holders
      <4>1. v \notin running /\ v \notin last.reqs /\ v \notin cur.reqs
        BY <2>2, <2>6 DEF LifeParts, Queued
      <4>. QED  BY <1>a, <2>6, <4>1 DEF Data
    <3>2. /\ freeSlots \in Seq(Slots \union {NoSlot}) /\ slot \in [Uids -> Slots \union {NoSlot}]
          /\ Holders \subseteq Uids /\ cached \in [Uids -> Nat]
      BY HoldersType DEF TypeOK
    <3>3. Shared(freeSlots, slot, Holders)'
      <4>1. Shared(Front(freeSlots), [slot EXCEPT ![v] = Last(freeSlots)], Holders \union {v})
        BY <2>1, <2>2, <2>6, <3>1, <3>2, Acquire DEF Held
      <4>. QED  BY <2>1, <2>4, <2>6, <4>1
    <3>4. Drawn(taken, cached, Holders)'
      <4>1. taken[v] = 0 /\ cached'[v] = 0 /\ \A u \in Uids : u /= v => cached'[u] = cached[u]
        BY <2>1, <2>2, <2>6, <3>1, <3>2 DEF Held, Drawn
      <4>2. \A u \in Uids : taken'[u] = IF u \in Holders \union {v} THEN Pages(cached'[u]) ELSE 0
        BY <2>1, <3>1, <4>1, NoPages DEF Held, Drawn
      <4>. QED  BY <2>4, <4>2 DEF Drawn
    <3>. QED  BY <3>3, <3>4 DEF Held
  <2>. QED  BY <2>5, <2>6
<1>3. ASSUME CloseBatch PROVE Held'
  <2>1. /\ pc = "admit" /\ pc' = "forward"
        /\ cur' = cur \/ (cur' = [reqs |-> running, chunked |-> {}] /\ cur.reqs = {})
        /\ UNCHANGED <<slot, cached, freeSlots, taken, chunk, running, last, finished,
                       newFinished>>
    BY <1>3 DEF CloseBatch, reqVars, pendVars
  <2>2. Holders' = chunk \union running \union (Data'.reqs \ finished) \union (cur'.reqs \ finished)
    BY <1>b, <2>1
  <2>3. running \intersect finished = {}
    BY DEF LifeParts, Decoding
  <2>4. Holders' = Holders
    <3>1. CASE cur' = cur
      BY <1>a, <2>1, <2>2, <3>1 DEF Data
    <3>2. CASE cur' = [reqs |-> running, chunked |-> {}] /\ cur.reqs = {}
      <4>1. cur'.reqs = running /\ cur.reqs = {}
        BY <3>2
      <4>2. CASE Overlap
        BY <1>a, <2>1, <2>2, <2>3, <4>1, <4>2 DEF Data
      <4>3. CASE ~Overlap
        BY <1>a, <2>1, <2>2, <2>3, <4>1, <4>3 DEF Data
      <4>. QED  BY <4>2, <4>3
    <3>. QED  BY <2>1, <3>1, <3>2
  <2>. QED  BY <2>1, <2>4, HoldKept
<1>4. ASSUME Forward PROVE Held'
  <2>1. /\ pc = "forward" /\ pc' = "post" /\ todo' = Data.reqs
        /\ taken' = [u \in Uids |-> IF u \in cur.reqs THEN taken[u] + NewPages(u) ELSE taken[u]]
        /\ cached' = [u \in Uids |-> IF u \in cur.reqs THEN device[u] ELSE cached[u]]
        /\ device' = [u \in Uids |-> IF u \in cur.reqs THEN device[u] + 1 ELSE device[u]]
        /\ running' = {u \in running \union cur.reqs : Decodable(u)}
        /\ UNCHANGED <<prompt, out, slot, freeSlots, chunk, cur, last, finished, newFinished, deferred>>
    BY <1>4 DEF Forward, pendVars, fenceVars
  <2>2. /\ running \subseteq Uids /\ cur.reqs \subseteq Uids /\ cur.reqs \intersect finished = {}
        /\ taken \in [Uids -> Int] /\ \A u \in Uids : device[u] \in Nat /\ cached[u] \in Nat
    BY <2>1 DEF TypeOK, Batches, LifeParts, Batched
  <2>3. \A u \in running : u \in cur.reqs \/ u \in running'
    <3>1. \A u \in running : u \notin cur.reqs => device'[u] = device[u]
      BY <2>1, <2>2
    <3>2. \A u \in running : u \notin cur.reqs => Decodable(u)
      BY <2>1, <3>1 DEF Decodable, RemainLen, LifeParts, Decoding
    <3>. QED  BY <2>1, <3>2
  <2>4. running' \subseteq running \union cur.reqs /\ Data'.reqs = Data.reqs
    BY <2>1 DEF Data
  <2>5. Holders' = chunk \union running' \union (Data.reqs \ finished) \union (cur.reqs \ finished)
    BY <1>0, <2>1, <2>4 DEF Holders, Unprocessed
  <2>6. Holders' = Holders /\ cur.reqs \subseteq Holders
    BY <1>a, <2>2, <2>3, <2>4, <2>5
  <2>7. Shared(freeSlots, slot, Holders)'
    BY <2>1, <2>6 DEF Held
  <2>8. \A u \in Uids : taken'[u] = IF u \in Holders THEN Pages(cached'[u]) ELSE 0
    <3> TAKE u \in Uids
    <3>1. CASE u \in cur.reqs
      <4>1. taken'[u] = taken[u] + NewPages(u) /\ cached'[u] = device[u]
        BY <2>1, <3>1
      <4>2. taken[u] = Pages(cached[u]) /\ u \in Holders
        BY <2>6, <3>1 DEF Held, Drawn
      <4>3. Pages(cached[u]) \in Nat /\ Pages(device[u]) \in Nat
        BY <2>2, PagesType
      <4>. QED  BY <4>1, <4>2, <4>3 DEF NewPages
    <3>2. CASE u \notin cur.reqs
      BY <2>1, <3>2 DEF Held, Drawn
    <3>. QED  BY <3>1, <3>2
  <2>9. Drawn(taken, cached, Holders)'
    BY <2>6, <2>8 DEF Drawn
  <2>. QED  BY <2>7, <2>9 DEF Held
<1>. QED
  BY <1>1, <1>2, <1>3, <1>4

(* A request of the batch under post-processing that is skipped or goes on is
   still held by a container; one that ends is freed once, whatever the next
   batch makes of it; the others wait for _apply_deferred_aborts. *)
LEMMA HoldFinish ==
  ASSUME TypeOK, FenceInv, LifeParts, Regular, Held,
         (\E u \in Uids : PostProcess(u) \/ FreeDeferred(u)) \/ SendResult \/ FlushAcks
  PROVE  Held'
<1>1. ASSUME NEW u \in Uids, PostProcess(u) PROVE Held'
  <2>1. /\ pc = "post" /\ pc' = "post" /\ u \in todo /\ todo' = todo \ {u}
        /\ UNCHANGED <<slot, cached, chunk, cur, last, finished, deferred>>
    BY <1>1 DEF PostProcess, reqVars, pendVars, fenceVars
  <2>2. /\ Holders = chunk \union running \union ((todo \union (Data.reqs \intersect deferred)) \ finished)
                       \union (cur.reqs \ (finished \union newFinished))
        /\ Holders' = chunk \union running'
                       \union (((todo \ {u}) \union (Data.reqs \intersect deferred)) \ finished)
                       \union (cur.reqs \ (finished \union newFinished'))
    BY <2>1 DEF Holders, Unprocessed, Data
  <2>3. /\ u \in Data.reqs /\ u \notin newFinished /\ cur.reqs \intersect finished = {}
        /\ u \in chunk => u \in Data.chunked
    <3>1. todo \subseteq Data.reqs /\ newFinished \subseteq Data.reqs \ todo
          /\ cur.reqs \intersect finished = {}
      BY <2>1 DEF FenceInv, TickPhases, LifeParts, Finishing, Batched
    <3>2. u \in chunk => (u \in last.reqs => u \in last.chunked) /\ (u \in cur.reqs => u \in cur.chunked)
      BY DEF LifeParts, Queued
    <3>. QED  BY <2>1, <3>1, <3>2 DEF Data
  <2>4. ASSUME UNCHANGED <<running, freeSlots, taken, newFinished>>,
               u \in deferred \/ u \in finished \/ u \in chunk \/ u \in running \/ u \in cur.reqs
        PROVE  Held'
    <3>1. Holders' = Holders
      BY <2>1, <2>2, <2>3, <2>4
    <3>. QED  BY <2>1, <2>4, <3>1, HoldKept
  <2>5. CASE Skipped(u)
    <3>1. UNCHANGED <<running, freeSlots, taken, newFinished>>
      BY <1>1, <2>5 DEF PostProcess
    <3>2. u \in deferred \/ u \in chunk \/ u \in cur.reqs
      BY <2>1, <2>5 DEF Skipped, Data, LifeParts, ChunksKept, Batched
    <3>. QED  BY <2>4, <3>1, <3>2
  <2>6. CASE ~Skipped(u)
    <3>1. u \notin deferred /\ u \notin Data.chunked /\ u \notin chunk
      BY <2>3, <2>6 DEF Skipped
    <3>2. PICK stops \in BOOLEAN :
            IF Ends(u, stops) /\ FirstFinish(u)
            THEN /\ RemoveRunning(u) /\ FreeReqResources(u)
                 /\ newFinished' = newFinished \union {u}
            ELSE UNCHANGED <<running, freeSlots, taken, newFinished>>
      BY <1>1, <2>6 DEF PostProcess
    <3>3. CASE Ends(u, stops) /\ FirstFinish(u)
      <4>1. /\ running' = running \ {u} /\ FreeReqResources(u)
            /\ newFinished' = newFinished \union {u} /\ u \notin finished
        BY <3>2, <3>3 DEF RemoveRunning, FirstFinish
      <4>2. u \in Holders /\ Holders' = Holders \ {u}
        BY <2>1, <2>2, <3>1, <4>1
      <4>. QED  BY <2>1, <4>1, <4>2, HoldFreed
    <3>4. CASE ~(Ends(u, stops) /\ FirstFinish(u))
      <4>1. UNCHANGED <<running, freeSlots, taken, newFinished>>
        BY <3>2, <3>4
      <4>2. u \in finished \/ u \in running
        <5>1. u \notin finished => RemainLen(u) > 0
          <6>1. u \notin finished => ~(RemainLen(u) <= 0)
            BY <3>4 DEF Ends, FirstFinish
          <6>2. RemainLen(u) \in Int
            BY DEF RemainLen, TypeOK
          <6>. QED  BY <6>1, <6>2
        <5>. QED  BY <2>1, <2>3, <3>1, <5>1 DEF Data, LifeParts, LastKept, CurKept
      <4>. QED  BY <2>4, <4>1, <4>2
    <3>. QED  BY <3>3, <3>4
  <2>. QED  BY <2>5, <2>6
<1>2. ASSUME SendResult PROVE Held'
  <2>1. /\ pc = "post" /\ pc' = "defer" /\ todo = {} /\ todo' = Data.reqs \intersect deferred
        /\ finished' = (IF Data = NoBatch THEN finished ELSE newFinished) /\ newFinished' = {}
        /\ UNCHANGED <<slot, cached, freeSlots, taken, chunk, running, cur, last>>
    BY <1>2 DEF SendResult, FinishedAfter, reqVars, pendVars
  <2>2. /\ Holders = chunk \union running \union ((Data.reqs \intersect deferred) \ finished)
                       \union (cur.reqs \ (finished \union newFinished))
        /\ Holders' = chunk \union running \union ((Data.reqs \intersect deferred) \ finished')
                       \union (cur.reqs \ finished')
    BY <2>1 DEF Holders, Unprocessed
  <2>3. /\ \A u \in deferred : u \notin finished /\ u \notin newFinished
        /\ cur.reqs \intersect finished = {} /\ newFinished \subseteq Data.reqs
    BY <2>1, DeferredGoesOn DEF LifeParts, Batched, Finishing
  <2>4. Data = NoBatch => newFinished = {}
    BY <2>3 DEF NoBatch
  <2>5. Holders' = Holders
    <3>1. CASE Data = NoBatch
      BY <2>1, <2>2, <2>4, <3>1
    <3>2. CASE Data /= NoBatch
      BY <2>1, <2>2, <2>3, <3>2
    <3>. QED  BY <3>1, <3>2
  <2>. QED  BY <2>1, <2>5, HoldKept
<1>3. ASSUME NEW u \in Uids, FreeDeferred(u) PROVE Held'
  <2>1. /\ pc = "defer" /\ pc' = "defer" /\ u \in todo /\ todo' = todo \ {u} /\ FreeReqResources(u)
        /\ UNCHANGED <<slot, cached, chunk, running, cur, last, finished, newFinished>>
    BY <1>3 DEF FreeDeferred, reqVars, pendVars
  <2>2. newFinished = {} /\ u \in deferred
    BY <2>1 DEF LifeParts, Finishing, Deferring
  <2>3. u \notin chunk /\ u \notin running /\ u \notin cur.reqs /\ u \notin finished
    BY <2>2, DeferredGoesOn DEF FenceInv, AbortsFenced, Fenced
  <2>4. /\ Holders = chunk \union running \union (todo \ finished) \union (cur.reqs \ finished)
        /\ Holders' = chunk \union running \union ((todo \ {u}) \ finished) \union (cur.reqs \ finished)
    BY <2>1, <2>2 DEF Holders, Unprocessed
  <2>5. u \in Holders /\ Holders' = Holders \ {u}
    BY <2>1, <2>3, <2>4
  <2>. QED  BY <2>1, <2>5, HoldFreed
<1>4. ASSUME FlushAcks PROVE Held'
  <2>1. /\ pc = "defer" /\ pc' = "loop" /\ todo = {} /\ cur' = NoBatch
        /\ last' = IF Overlap THEN cur ELSE NoBatch
        /\ UNCHANGED <<slot, cached, freeSlots, taken, chunk, running, finished, newFinished>>
    BY <1>4 DEF FlushAcks, reqVars, pendVars
  <2>2. newFinished = {}
    BY <2>1 DEF LifeParts, Finishing
  <2>3. Holders = chunk \union running \union (cur.reqs \ finished)
    BY <2>1, <2>2 DEF Holders, Unprocessed
  <2>4. Holders' = chunk \union running \union (IF Overlap THEN cur.reqs \ finished ELSE {})
    BY <2>1, <2>2 DEF Holders, Unprocessed, Data, NoBatch
  <2>5. ~Overlap => cur.reqs \ finished \subseteq chunk \union running
    BY <2>1, <2>2 DEF LifeParts, Batched, CurKept
  <2>6. Holders' = Holders
    BY <2>3, <2>4, <2>5
  <2>. QED  BY <2>1, <2>6, HoldKept
<1>. QED
  BY <1>1, <1>2, <1>3, <1>4

(* _drain_requests of normal_loop gives back what is left, once. *)
LEMMA HoldDrain ==
  ASSUME TypeOK, FenceInv, LifeInv, HoldInv, ~Overlap,
         HandleExit \/ DrainEnd \/ \E u \in Uids : DrainOne(u)
  PROVE  Shared(freeSlots, slot, todo)' /\ (pc' = "stopped" => todo' = {})
<1> DEFINE Goal == Shared(freeSlots, slot, todo)' /\ (pc' = "stopped" => todo' = {})
<1>1. ASSUME HandleExit PROVE Goal
  <2>1. /\ pc \in {"wait", "recv"} /\ pc' = "drain" /\ todo' = chunk \union running
        /\ UNCHANGED <<freeSlots, slot>>
    BY <1>1 DEF HandleExit, Receiving, Drained, reqVars
  <2>2. LifeParts /\ Shared(freeSlots, slot, Holders)
    BY <2>1 DEF LifeInv, HoldInv, Serving, Regular
  <2>3. cur = NoBatch /\ newFinished = {}
    BY <2>1, <2>2 DEF FenceInv, TickPhases, LifeParts, Finishing
  <2>4. Holders = chunk \union running
    BY <2>1, <2>3, HoldersOpen DEF Data, NoBatch
  <2>. QED  BY <2>1, <2>2, <2>4
<1>2. ASSUME NEW u \in Uids, DrainOne(u) PROVE Goal
  <2>1. /\ pc = "drain" /\ pc' = "drain" /\ u \in todo /\ todo' = todo \ {u} /\ slot' = slot
        /\ freeSlots' = Append(freeSlots, slot[u])
    BY <1>2 DEF DrainOne, reqVars
  <2>2. Shared(freeSlots, slot, todo)
    BY <2>1 DEF HoldInv
  <2>3. /\ freeSlots \in Seq(Slots \union {NoSlot}) /\ slot \in [Uids -> Slots \union {NoSlot}]
        /\ todo \in SUBSET Uids
    BY DEF TypeOK
  <2>4. Shared(Append(freeSlots, slot[u]), slot, todo \ {u})
    BY <2>1, <2>2, <2>3, Release
  <2>. QED  BY <2>1, <2>4
<1>3. ASSUME DrainEnd PROVE Goal
  <2>1. pc = "drain" /\ todo = {} /\ UNCHANGED <<freeSlots, slot, todo>>
    BY <1>3 DEF DrainEnd, reqVars
  <2>. QED  BY <2>1 DEF HoldInv
<1>. QED
  BY <1>1, <1>2, <1>3

LEMMA HoldInit == Init => HoldInv
<1> SUFFICES ASSUME Init PROVE HoldInv
  OBVIOUS
<1> DEFINE f == [i \in 1 .. NumSlots |-> i - 1]
<1>1. Holders = {} /\ freeSlots = f /\ taken = [u \in Uids |-> 0] /\ pc = "loop"
  BY DEF Init, Holders, Unprocessed, Data, NoBatch
<1>2. NumSlots \in Nat
  BY ConstantsAssumption
<1>3. IsInjective(f)
  BY <1>2 DEF IsInjective
<1>4. Range(f) = Slots
  <2>1. \A i \in DOMAIN f : f[i] \in Slots
    BY <1>2 DEF Slots
  <2>2. \A s \in Slots : s + 1 \in DOMAIN f /\ f[s + 1] = s
    BY <1>2 DEF Slots
  <2>. QED  BY <2>1, <2>2 DEF Range
<1> HIDE DEF f
<1>. QED
  BY <1>1, <1>3, <1>4 DEF HoldInv, Shared, Drawn

LEMMA HoldInductive == TypeOK /\ FenceInv /\ LifeInv /\ HoldInv /\ [Next]_vars => HoldInv'
<1> SUFFICES ASSUME TypeOK, FenceInv, LifeInv, HoldInv, [Next]_vars PROVE HoldInv'
  OBVIOUS
<1>1. ASSUME HandleExit \/ DrainEnd \/ \E u \in Uids : DrainOne(u) PROVE HoldInv'
  <2>1. pc' \in {"drain", "stopped"}
    BY <1>1 DEF HandleExit, DrainEnd, DrainOne
  <2>. QED  BY <1>1, <2>1, HoldDrain DEF HoldInv, Serving
<1>2. ASSUME UNCHANGED vars PROVE HoldInv'
  <2>1. UNCHANGED <<pc, slot, cached, chunk, running, freeSlots, taken, cur, last, todo, finished,
                    newFinished, deferred, aborts, sent>>
    BY <1>2 DEF vars, reqVars, pendVars, loopVars, fenceVars, envVars
  <2>2. Holders' = Holders /\ (Serving' <=> Serving) /\ (Regular' <=> Regular)
    BY <2>1 DEF Holders, Unprocessed, Data, Serving, Regular, NoLateAbort
  <2>. QED  BY <2>1, <2>2 DEF HoldInv, Shared, Drawn
<1> DEFINE Work == \/ \E u \in Uids : HandleUser(u) \/ HandleAbort(u)
                   \/ BeginTick \/ EndReceive \/ TryAddOne \/ CloseBatch \/ Forward
                   \/ (\E u \in Uids : PostProcess(u) \/ FreeDeferred(u)) \/ SendResult \/ FlushAcks
<1>3. ASSUME Work PROVE HoldInv'
  <2>1. Serving /\ pc' \notin {"drain", "stopped"}
    <3>1. ASSUME \E u \in Uids : HandleUser(u) \/ HandleAbort(u)
          PROVE  pc \in {"wait", "recv"} /\ pc' = "recv"
      BY <3>1 DEF HandleUser, HandleAbort, Receiving
    <3>2. ASSUME BeginTick \/ EndReceive \/ TryAddOne \/ CloseBatch \/ Forward
          PROVE  /\ pc \in {"loop", "recv", "admit", "forward"}
                 /\ pc' \in {"recv", "wait", "crashed", "admit", "forward", "post"}
      BY <3>2 DEF BeginTick, EndReceive, TryAddOne, CloseBatch, Forward
    <3>3. ASSUME (\E u \in Uids : PostProcess(u) \/ FreeDeferred(u)) \/ SendResult \/ FlushAcks
          PROVE  pc \in {"post", "defer"} /\ pc' \in {"post", "defer", "loop"}
      BY <3>3 DEF PostProcess, FreeDeferred, SendResult, FlushAcks
    <3>. QED  BY <1>3, <3>1, <3>2, <3>3 DEF Serving
  <2>2. ASSUME Serving', Regular' PROVE Held'
    <3>1. Regular /\ LifeParts /\ Held
      BY <2>1, <2>2, RegularBefore DEF LifeInv, HoldInv, Held
    <3>2. pc' /= "crashed"
      BY <2>2 DEF Serving
    <3>. QED  BY <1>3, <2>2, <3>1, <3>2, HoldReceive, HoldSchedule, HoldFinish
  <2>. QED  BY <2>1, <2>2 DEF HoldInv, Held
<1> HIDE DEF Work
<1>4. [Next]_vars => \/ HandleExit \/ DrainEnd \/ \E u \in Uids : DrainOne(u)
                     \/ UNCHANGED vars \/ Work
  BY DEF Next, Arrival, Step, Idle, Work
<1>. QED
  BY <1>1, <1>2, <1>3, <1>4

LEMMA HoldCorrect == Spec => [](TypeOK /\ FenceInv /\ LifeInv /\ HoldInv)
BY HoldInit, HoldInductive, LifeInit, LifeInductive, FenceInit, FenceInductive, TypeCorrect,
   PTL DEF Spec

(* A row of the page table is one holder's or free, in normal_loop always, in
   overlap_loop until an abort comes for a request that has had its final
   message: through chunked prefills, zombies in the batch in flight, deferred
   and immediate aborts. *)
THEOREM SlotsCorrect == Spec => [](Regular => SlotsExclusive)
<1>1. HoldInv => (Regular => SlotsExclusive)
  BY DEF HoldInv, SlotsExclusive, Shared
<1>. QED
  BY <1>1, HoldCorrect, PTL

(* A holder has drawn the pages of its cached tokens and no one else has any:
   no leak and no second free, as far as the rows are exclusive. *)
THEOREM PagesCorrect == Spec => [](Regular => PagesExact)
<1>1. HoldInv => (Regular => PagesExact)
  BY DEF HoldInv, PagesExact, Drawn
<1>. QED
  BY <1>1, HoldCorrect, PTL

(* normal_loop returns every row, whenever the ExitMsg comes. *)
THEOREM DrainCorrect == ~Overlap => (Spec => []DrainReturnsSlots)
<1> SUFFICES ASSUME ~Overlap PROVE Spec => []DrainReturnsSlots
  OBVIOUS
<1>1. HoldInv => DrainReturnsSlots
  <2> SUFFICES ASSUME HoldInv, pc = "stopped"
               PROVE  IsInjective(freeSlots) /\ Range(freeSlots) = Slots
    BY DEF DrainReturnsSlots
  <2>1. Shared(freeSlots, slot, todo) /\ todo = {}
    BY DEF HoldInv
  <2>2. {slot[u] : u \in todo} = {}
    BY <2>1
  <2>. QED  BY <2>1, <2>2 DEF Shared
<1>. QED
  BY <1>1, HoldCorrect, PTL

-----------------------------------------------------------------------------
(* Room.  The reservation made at admission suffices when a page holds one
   token: allocate_paged always finds its pages.  (With larger pages it does
   not: an instance of SchedulerMC over-commits.)  And for pages of any size
   an idle loop finds every page free. *)

LEMMA FreePagesTotal == FreePages = NumPages - Total(taken, Uids)
BY DEF FreePages, Total

-----------------------------------------------------------------------------
(* The code's sums over a batch are sums of functions of the requests.      *)

LEMMA NeededTotal ==
  ASSUME TypeOK
  PROVE  NeededPages = Total([u \in Uids |-> NewPages(u)], cur.reqs)
<1> DEFINE f == [u \in Uids |-> NewPages(u)]
           P == cur.reqs
           Solves(k) == k = [s \in SUBSET P |->
                               IF s = {} THEN 0
                               ELSE NewPages(CHOOSE x \in s : TRUE) + k[s \ {CHOOSE x \in s : TRUE}]]
           h == CHOOSE k : Solves(k)
<1>1. P \in SUBSET Uids /\ IsFiniteSet(P) /\ IsFiniteSet(Uids)
  BY ConstantsAssumption, FS_Subset DEF TypeOK, Batches
<1>2. f \in [Uids -> Int]
  BY NewPagesType
<1>3. \A k : Solves(k) <=> Unfolds(k, f, P)
  <2> TAKE k
  <2> DEFINE op(s) == IF s = {} THEN 0 ELSE NewPages(Pick(s)) + k[s \ {Pick(s)}]
             fn(s) == IF s = {} THEN 0 ELSE f[Pick(s)] + k[s \ {Pick(s)}]
  <2>1. \A s \in SUBSET P : s /= {} => NewPages(Pick(s)) = f[Pick(s)]
    BY <1>1, PickIn
  <2>2. \A s \in SUBSET P : op(s) = fn(s)
    <3> HIDE DEF f, P
    <3>. QED  BY <2>1
  <2>3. Solves(k) <=> k = [s \in SUBSET P |-> op(s)]
    BY DEF Pick
  <2>4. Unfolds(k, f, P) <=> k = [s \in SUBSET P |-> fn(s)]
    <3> HIDE DEF f, P
    <3>. QED  BY DEF Unfolds
  <2>5. [s \in SUBSET P |-> op(s)] = [s \in SUBSET P |-> fn(s)]
    <3> HIDE DEF op, fn, P
    <3>. QED  BY <2>2
  <2>. QED  BY <2>3, <2>4, <2>5
<1>4. \E k : Unfolds(k, f, P)
  <2> HIDE DEF f, P
  <2>. QED  BY <1>1, <1>2, TotalHas
<1>5. NeededPages = h[P]
  BY DEF NeededPages, MapThenSumSet, MapThenFoldSet
<1>6. Solves(h)
  <2> HIDE DEF Solves
  <2>1. \E k : Solves(k)
    BY <1>3, <1>4
  <2>. QED  BY <2>1
<1> HIDE DEF f, P, h, Solves
<1>7. Unfolds(h, f, P)
  BY <1>3, <1>6
<1>8. Total(f, P) = h[P]
  BY <1>1, <1>2, <1>7, TotalHas
<1>. QED
  BY <1>5, <1>8 DEF f, P

LEMMA InflightTotal ==
  ASSUME TypeOK
  PROVE  MapThenSumSet(RemainLen, running) = Total([u \in Uids |-> RemainLen(u)], running)
<1> DEFINE f == [u \in Uids |-> RemainLen(u)]
           P == running
           Solves(k) == k = [s \in SUBSET P |->
                               IF s = {} THEN 0
                               ELSE RemainLen(CHOOSE x \in s : TRUE) + k[s \ {CHOOSE x \in s : TRUE}]]
           h == CHOOSE k : Solves(k)
<1>1. P \in SUBSET Uids /\ IsFiniteSet(P) /\ IsFiniteSet(Uids)
  BY ConstantsAssumption, FS_Subset DEF TypeOK
<1>2. f \in [Uids -> Int]
  BY DEF RemainLen, TypeOK
<1>3. \A k : Solves(k) <=> Unfolds(k, f, P)
  <2> TAKE k
  <2> DEFINE op(s) == IF s = {} THEN 0 ELSE RemainLen(Pick(s)) + k[s \ {Pick(s)}]
             fn(s) == IF s = {} THEN 0 ELSE f[Pick(s)] + k[s \ {Pick(s)}]
  <2>1. \A s \in SUBSET P : s /= {} => RemainLen(Pick(s)) = f[Pick(s)]
    BY <1>1, PickIn
  <2>2. \A s \in SUBSET P : op(s) = fn(s)
    <3> HIDE DEF f, P
    <3>. QED  BY <2>1
  <2>3. Solves(k) <=> k = [s \in SUBSET P |-> op(s)]
    BY DEF Pick
  <2>4. Unfolds(k, f, P) <=> k = [s \in SUBSET P |-> fn(s)]
    <3> HIDE DEF f, P
    <3>. QED  BY DEF Unfolds
  <2>5. [s \in SUBSET P |-> op(s)] = [s \in SUBSET P |-> fn(s)]
    <3> HIDE DEF op, fn, P
    <3>. QED  BY <2>2
  <2>. QED  BY <2>3, <2>4, <2>5
<1>4. \E k : Unfolds(k, f, P)
  <2> HIDE DEF f, P
  <2>. QED  BY <1>1, <1>2, TotalHas
<1>5. MapThenSumSet(RemainLen, running) = h[P]
  BY DEF MapThenSumSet, MapThenFoldSet
<1>6. Solves(h)
  <2> HIDE DEF Solves
  <2>1. \E k : Solves(k)
    BY <1>3, <1>4
  <2>. QED  BY <2>1
<1> HIDE DEF f, P, h, Solves
<1>7. Unfolds(h, f, P)
  BY <1>3, <1>6
<1>8. Total(f, P) = h[P]
  BY <1>1, <1>2, <1>7, TotalHas
<1>. QED
  BY <1>5, <1>8 DEF f, P

(* What PrefillAdder has promised to the requests it has added *)
Ahead(u) == prompt[u] + out[u] - cached[u]

LEMMA AddedTotal ==
  ASSUME TypeOK
  PROVE  MapThenSumSet(LAMBDA u : prompt[u] + out[u] - cached[u], cur.reqs)
           = Total([u \in Uids |-> Ahead(u)], cur.reqs)
<1> DEFINE f == [u \in Uids |-> Ahead(u)]
           P == cur.reqs
           Solves(k) == k = [s \in SUBSET P |->
                               IF s = {} THEN 0
                               ELSE Ahead(CHOOSE x \in s : TRUE) + k[s \ {CHOOSE x \in s : TRUE}]]
           h == CHOOSE k : Solves(k)
<1>1. P \in SUBSET Uids /\ IsFiniteSet(P) /\ IsFiniteSet(Uids)
  BY ConstantsAssumption, FS_Subset DEF TypeOK, Batches
<1>2. f \in [Uids -> Int]
  BY DEF Ahead, TypeOK
<1>3. \A k : Solves(k) <=> Unfolds(k, f, P)
  <2> TAKE k
  <2> DEFINE op(s) == IF s = {} THEN 0 ELSE Ahead(Pick(s)) + k[s \ {Pick(s)}]
             fn(s) == IF s = {} THEN 0 ELSE f[Pick(s)] + k[s \ {Pick(s)}]
  <2>1. \A s \in SUBSET P : s /= {} => Ahead(Pick(s)) = f[Pick(s)]
    BY <1>1, PickIn
  <2>2. \A s \in SUBSET P : op(s) = fn(s)
    <3> HIDE DEF f, P
    <3>. QED  BY <2>1
  <2>3. Solves(k) <=> k = [s \in SUBSET P |-> op(s)]
    BY DEF Pick
  <2>4. Unfolds(k, f, P) <=> k = [s \in SUBSET P |-> fn(s)]
    <3> HIDE DEF f, P
    <3>. QED  BY DEF Unfolds
  <2>5. [s \in SUBSET P |-> op(s)] = [s \in SUBSET P |-> fn(s)]
    <3> HIDE DEF op, fn, P
    <3>. QED  BY <2>2
  <2>. QED  BY <2>3, <2>4, <2>5
<1>4. \E k : Unfolds(k, f, P)
  <2> HIDE DEF f, P
  <2>. QED  BY <1>1, <1>2, TotalHas
<1>5. MapThenSumSet(LAMBDA u : prompt[u] + out[u] - cached[u], cur.reqs) = h[P]
  BY DEF MapThenSumSet, MapThenFoldSet, Ahead
<1>6. Solves(h)
  <2> HIDE DEF Solves
  <2>1. \E k : Solves(k)
    BY <1>3, <1>4
  <2>. QED  BY <2>1
<1> HIDE DEF f, P, h, Solves
<1>7. Unfolds(h, f, P)
  BY <1>3, <1>6
<1>8. Total(f, P) = h[P]
  BY <1>1, <1>2, <1>7, TotalHas
<1>. QED
  BY <1>5, <1>8 DEF f, P

-----------------------------------------------------------------------------
(* The inductive invariant.                                                 *)

(* Only the head of the pending list is ever chunked. *)
HeadFirst == \A u \in chunk : u = Head(pending)

(* The token sampled last is not cached yet, and nothing else is missing. *)
Lagged ==
  /\ \A u \in running \union (last.reqs \ last.chunked) : device[u] = cached[u] + 1
  /\ pc \in {"post", "defer"} => \A u \in cur.reqs : device[u] = cached[u] + 1

Fits == \A u \in Holders : cached[u] < prompt[u] + out[u]

(* The tokens a request may come to cache: a deferred request runs no more,
   any other may run until its last token, which is never cached. *)
Bound(u) ==
  IF u \notin Holders THEN 0 ELSE IF u \in deferred THEN cached[u] ELSE prompt[u] + out[u] - 1
Promised == Total([u \in Uids |-> Bound(u)], Uids)

RoomParts == HeadFirst /\ Lagged /\ Fits /\ (PageSize = 1 => Promised <= NumPages)
RoomInv ==
  /\ Serving /\ Regular => RoomParts
  /\ PageSize = 1 /\ Regular => pc /= "crashed"

LEMMA PagesOfOne == ASSUME PageSize = 1, NEW n \in Nat PROVE Pages(n) = n
<1>1. n + 1 - 1 = n /\ n \div 1 = n
  OBVIOUS
<1>. QED
  BY <1>1 DEF Pages

LEMMA BoundType ==
  ASSUME TypeOK, Fits
  PROVE  \A u \in Uids : Bound(u) \in Nat /\ (u \in Holders => cached[u] <= Bound(u))
<1> TAKE u \in Uids
<1>1. prompt[u] \in Nat /\ out[u] \in Nat /\ cached[u] \in Nat
  BY DEF TypeOK
<1>2. u \in Holders => cached[u] < prompt[u] + out[u]
  BY DEF Fits
<1>. QED
  BY <1>1, <1>2 DEF Bound

(* A step that promises no request more. *)
LEMMA RoomKept ==
  ASSUME TypeOK, TypeOK', Fits, Fits', \A u \in Uids : Bound(u)' <= Bound(u),
         Promised <= NumPages
  PROVE  Promised' <= NumPages
<1> DEFINE e == [u \in Uids |-> Bound(u)']
           f == [u \in Uids |-> Bound(u)]
<1>1. e \in [Uids -> Int] /\ f \in [Uids -> Int]
  <2>1. \A u \in Uids : Bound(u) \in Nat
    BY BoundType
  <2>2. ASSUME NEW u \in Uids PROVE Bound(u)' \in Nat
    <3>1. prompt'[u] \in Nat /\ out'[u] \in Nat /\ cached'[u] \in Nat
      BY DEF TypeOK
    <3>2. u \in Holders' => cached'[u] < prompt'[u] + out'[u]
      BY DEF Fits
    <3>. QED  BY <3>1, <3>2 DEF Bound
  <2>. QED  BY <2>1, <2>2
<1>2. \A u \in Uids : e[u] <= f[u]
  OBVIOUS
<1>3. Total(e, Uids) <= Total(f, Uids)
  <2> HIDE DEF e, f
  <2>. QED  BY <1>1, <1>2, ConstantsAssumption, TotalMono
<1>4. Total(e, Uids) \in Int /\ Total(f, Uids) \in Int /\ NumPages \in Int
  <2> HIDE DEF e, f
  <2>. QED  BY <1>1, ConstantsAssumption, TotalRules
<1>5. Promised' = Total(e, Uids) /\ Promised = Total(f, Uids)
  BY DEF Promised
<1> HIDE DEF e, f
<1>. QED
  BY <1>3, <1>4, <1>5

(* An idle loop: no holder, hence no page drawn. *)
LEMMA IdleHolds ==
  ASSUME TypeOK, FenceInv, LifeParts, Held, pc = "loop", Blocking
  PROVE  FreePages = NumPages
<1>1. chunk = {} /\ running = {} /\ last = NoBatch /\ cur = NoBatch /\ newFinished = {}
  BY DEF Blocking, FenceInv, TickPhases, LifeParts, Queued, Finishing, Range
<1>2. Holders = {}
  BY <1>1, HoldersOpen DEF Data, NoBatch
<1>3. taken \in [Uids -> Int] /\ \A u \in Uids : taken[u] = 0
  BY <1>2 DEF Held, Drawn, TypeOK
<1>4. Total(taken, Uids) = 0
  BY <1>3, ConstantsAssumption, TotalZero
<1>. QED
  BY <1>4, FreePagesTotal, ConstantsAssumption

(* A batch finds the pages it needs. *)
LEMMA RoomFound ==
  ASSUME PageSize = 1, TypeOK, FenceInv, LifeParts, Sized, Held, RoomParts, pc = "forward"
  PROVE  ~(NeededPages > FreePages)
<1> DEFINE need == [u \in Uids |-> NewPages(u)]
           part == [u \in Uids |-> IF u \in cur.reqs THEN need[u] ELSE 0]
           sum  == [u \in Uids |-> taken[u] + part[u]]
           bnd  == [u \in Uids |-> Bound(u)]
<1>1. IsFiniteSet(Uids) /\ cur.reqs \in SUBSET Uids /\ NumPages \in Nat
  BY ConstantsAssumption DEF TypeOK, Batches
<1>2. need \in [Uids -> Int] /\ part \in [Uids -> Int] /\ sum \in [Uids -> Int] /\ bnd \in [Uids -> Int]
      /\ taken \in [Uids -> Int]
  <2>1. \A u \in Uids : NewPages(u) \in Int /\ taken[u] \in Int /\ Bound(u) \in Nat
    BY NewPagesType, BoundType DEF TypeOK, RoomParts
  <2>2. taken \in [Uids -> Int]
    BY DEF TypeOK
  <2>. QED  BY <2>1, <2>2
<1>3. \A u \in Uids : sum[u] <= bnd[u]
  <2> TAKE u \in Uids
  <2>1. /\ cached[u] \in Nat /\ device[u] \in Nat /\ prompt[u] \in Nat /\ out[u] \in Nat
        /\ Pages(cached[u]) = cached[u] /\ Pages(device[u]) = device[u]
    BY PagesOfOne DEF TypeOK
  <2>2. taken[u] = IF u \in Holders THEN cached[u] ELSE 0
    BY <2>1 DEF Held, Drawn
  <2>3. CASE u \in cur.reqs
    <3>1. u \in Holders
      <4>1. newFinished = {} /\ cur.reqs \intersect finished = {}
        BY DEF LifeParts, Finishing, Batched
      <4>. QED  BY <2>3, <4>1, HoldersOpen
    <3>2. u \notin deferred
      BY <2>3 DEF FenceInv, AbortsFenced, Fenced
    <3>3. device[u] < prompt[u] + out[u]
      BY <2>3 DEF Sized
    <3>4. sum[u] = cached[u] + (device[u] - cached[u]) /\ bnd[u] = prompt[u] + out[u] - 1
      BY <2>1, <2>2, <2>3, <3>1, <3>2 DEF NewPages, Bound
    <3>. QED  BY <2>1, <3>3, <3>4
  <2>4. CASE u \notin cur.reqs
    <3>1. sum[u] = taken[u] /\ taken[u] \in Int /\ bnd[u] = Bound(u)
      BY <2>4 DEF TypeOK
    <3>2. u \in Holders => cached[u] <= Bound(u)
      BY BoundType DEF RoomParts
    <3>3. Bound(u) \in Nat
      BY BoundType DEF RoomParts
    <3>. QED  BY <2>1, <2>2, <3>1, <3>2, <3>3
  <2>. QED  BY <2>3, <2>4
<1>4. /\ \A u \in cur.reqs : part[u] = need[u]
      /\ \A u \in Uids \ cur.reqs : part[u] = 0
      /\ \A u \in Uids : sum[u] = taken[u] + part[u]
  BY <1>1
<1>5. NeededPages = Total(need, cur.reqs) /\ Promised = Total(bnd, Uids)
  BY NeededTotal DEF Promised
<1> HIDE DEF need, part, sum, bnd
<1>6. Total(part, Uids) = Total(need, cur.reqs)
  BY <1>1, <1>2, <1>4, TotalPart
<1>7. Total(sum, Uids) = Total(taken, Uids) + Total(part, Uids)
  <2>1. IsFiniteSet(Uids) /\ \A u \in Uids : sum[u] = taken[u] + part[u]
    BY <1>1, <1>4
  <2>2. sum \in [Uids -> Int] /\ part \in [Uids -> Int] /\ taken \in [Uids -> Int]
    BY <1>2
  <2>. QED  BY ONLY <2>1, <2>2, TotalPlus
<1>8. Total(sum, Uids) <= Total(bnd, Uids)
  BY <1>1, <1>2, <1>3, TotalMono
<1>9. Total(taken, Uids) \in Int /\ Total(part, Uids) \in Int /\ Total(bnd, Uids) \in Int
  BY <1>1, <1>2, TotalRules
<1>10. Promised <= NumPages
  BY DEF RoomParts
<1>. QED
  BY <1>1, <1>5, <1>6, <1>7, <1>8, <1>9, <1>10, FreePagesTotal

-----------------------------------------------------------------------------
(* Only try_add_one makes a request a holder, and only the head of the list. *)

LEMMA HoldersShrink ==
  ASSUME TypeOK, FenceInv, LifeParts, Regular, Serving, Serving', [Next]_vars, ~TryAddOne
  PROVE  Holders' \subseteq Holders
<1>1. ASSUME NEW v \in Uids, HandleUser(v) \/ HandleAbort(v) PROVE Holders' \subseteq Holders
  <2>1. /\ pc \in {"wait", "recv"} /\ pc' = "recv" /\ cur = NoBatch
        /\ chunk' \subseteq chunk /\ running' \subseteq running
        /\ UNCHANGED <<cur, last, finished, newFinished>>
    BY <1>1 DEF HandleUser, HandleAbort, DeferAbort, AbortNow, RemovePending, RemoveRunning,
                Receiving, loopVars, FenceInv, TickPhases
  <2>2. newFinished = {}
    BY <2>1 DEF LifeParts, Finishing
  <2>. QED  BY <2>1, <2>2 DEF Holders, Unprocessed, Data
<1>2. ASSUME BeginTick \/ EndReceive PROVE Holders' \subseteq Holders
  <2>1. /\ pc \in {"loop", "recv"} /\ pc' \in {"wait", "recv", "admit"}
        /\ UNCHANGED <<chunk, running, cur, last, finished, newFinished>>
    BY <1>2 DEF BeginTick, EndReceive, Serving, pendVars, loopVars
  <2>. QED  BY <2>1 DEF Holders, Unprocessed, Data
<1>3. ASSUME CloseBatch PROVE Holders' \subseteq Holders
  <2>1. /\ pc = "admit" /\ pc' = "forward"
        /\ cur' = cur \/ cur'.reqs = running
        /\ UNCHANGED <<chunk, running, last, finished, newFinished>>
    BY <1>3 DEF CloseBatch, pendVars
  <2>. QED  BY <2>1 DEF Holders, Unprocessed, Data
<1>4. ASSUME Forward PROVE Holders' \subseteq Holders
  <2>1. /\ pc = "forward" /\ pc' = "post" /\ todo' = Data.reqs
        /\ running' \subseteq running \union cur.reqs
        /\ UNCHANGED <<chunk, cur, last, finished, newFinished>>
    BY <1>4 DEF Forward, Serving, pendVars
  <2>2. newFinished = {} /\ cur.reqs \intersect finished = {}
    BY <2>1 DEF LifeParts, Finishing, Batched
  <2>. QED  BY <2>1, <2>2 DEF Holders, Unprocessed, Data
<1>5. ASSUME NEW u \in Uids, PostProcess(u) \/ FreeDeferred(u) PROVE Holders' \subseteq Holders
  <2>1. /\ pc \in {"post", "defer"} /\ pc' = pc /\ todo' \subseteq todo /\ running' \subseteq running
        /\ newFinished \subseteq newFinished'
        /\ UNCHANGED <<chunk, cur, last, finished, deferred>>
    BY <1>5 DEF PostProcess, FreeDeferred, RemoveRunning, pendVars, fenceVars
  <2>. QED  BY <2>1 DEF Holders, Unprocessed, Data
<1>6. ASSUME SendResult PROVE Holders' \subseteq Holders
  <2>1. /\ pc = "post" /\ pc' = "defer" /\ todo = {} /\ todo' = Data.reqs \intersect deferred
        /\ finished' = (IF Data = NoBatch THEN finished ELSE newFinished) /\ newFinished' = {}
        /\ UNCHANGED <<chunk, running, cur, last>>
    BY <1>6 DEF SendResult, FinishedAfter, pendVars
  <2>2. /\ Holders = chunk \union running \union ((Data.reqs \intersect deferred) \ finished)
                       \union (cur.reqs \ (finished \union newFinished))
        /\ Holders' = chunk \union running \union ((Data.reqs \intersect deferred) \ finished')
                       \union (cur.reqs \ finished')
    BY <2>1 DEF Holders, Unprocessed
  <2>3. /\ \A u \in deferred : u \notin finished
        /\ cur.reqs \intersect finished = {} /\ newFinished \subseteq Data.reqs
    BY <2>1, DeferredGoesOn DEF LifeParts, Batched, Finishing
  <2>4. Data = NoBatch => newFinished = {}
    BY <2>3 DEF NoBatch
  <2>. QED  BY <2>1, <2>2, <2>3, <2>4
<1>7. ASSUME FlushAcks PROVE Holders' \subseteq Holders
  <2>1. /\ pc = "defer" /\ pc' = "loop" /\ cur' = NoBatch
        /\ last' = IF Overlap THEN cur ELSE NoBatch
        /\ UNCHANGED <<chunk, running, finished, newFinished>>
    BY <1>7 DEF FlushAcks, pendVars
  <2>2. newFinished = {}
    BY <2>1 DEF LifeParts, Finishing
  <2>. QED  BY <2>1, <2>2 DEF Holders, Unprocessed, Data, NoBatch
<1>8. ASSUME HandleExit \/ DrainEnd \/ \E u \in Uids : DrainOne(u) PROVE FALSE
  BY <1>8 DEF HandleExit, DrainEnd, DrainOne, Serving
<1>9. ASSUME UNCHANGED vars PROVE Holders' \subseteq Holders
  BY <1>9 DEF vars, pendVars, loopVars, fenceVars, Holders, Unprocessed, Data
<1>. QED
  BY <1>1, <1>2, <1>3, <1>4, <1>5, <1>6, <1>7, <1>8, <1>9 DEF Next, Arrival, Step, Idle

LEMMA HoldersGrow ==
  ASSUME TypeOK, FenceInv, LifeParts, TryAddOne
  PROVE  /\ Head(pending) \in Range(pending) /\ Head(pending) \in Uids
         /\ Holders' = Holders \union {Head(pending)}
         /\ Head(pending) \notin running /\ Head(pending) \notin deferred
         /\ Head(pending) \in last.reqs => Head(pending) \in last.chunked
         /\ Head(pending) \notin chunk => Head(pending) \notin Holders
<1> DEFINE v == Head(pending)
<1>1. /\ pc = "admit" /\ pc' = "admit" /\ pending /= <<>>
      /\ UNCHANGED <<running, last, finished, newFinished>>
      /\ chunk' = chunk \union {v} \/ chunk' = chunk \ {v}
      /\ cur'.reqs = cur.reqs \union {v}
  BY DEF TryAddOne, CanAdd
<1>2. v \in Range(pending) /\ v \in Uids
  BY <1>1, TailKeeps, HeadTailProperties DEF FenceInv, PendingOnce, TypeOK
<1> HIDE DEF v
<1>3. /\ v \notin finished /\ v \notin running /\ v \notin deferred /\ newFinished = {}
      /\ v \in last.reqs => v \in last.chunked /\ v \in chunk
      /\ v \in cur.reqs => v \in chunk
  BY <1>1, <1>2 DEF LifeParts, Queued, Finishing, FenceInv, AbortsFenced, Fenced, TypeOK
<1>4. Holders = chunk \union running \union (Data.reqs \ finished) \union (cur.reqs \ finished)
  BY <1>1, <1>3, HoldersOpen
<1>5. Holders' = chunk' \union running \union (Data'.reqs \ finished) \union (cur'.reqs \ finished)
  BY <1>1, <1>3 DEF Holders, Unprocessed
<1>6. Data'.reqs = Data.reqs \/ Data'.reqs = Data.reqs \union {v}
  BY <1>1 DEF Data
<1>7. Holders' = Holders \union {v}
  BY <1>1, <1>3, <1>4, <1>5, <1>6
<1>8. v \notin chunk => v \notin Holders
  BY <1>3, <1>4 DEF Data
<1>. QED
  BY <1>2, <1>3, <1>7, <1>8 DEF v

LEMMA HeadStays ==
  ASSUME TypeOK, FenceInv, LifeParts, HeadFirst, Serving', [Next]_vars
  PROVE  HeadFirst'
<1>0. pending \in Seq(Uids) /\ \A u \in chunk : pending /= <<>> /\ u = Head(pending)
  BY DEF HeadFirst, LifeParts, Queued, Range, TypeOK
<1>1. ASSUME NEW v \in Uids, HandleUser(v) PROVE HeadFirst'
  <2>1. chunk' = chunk /\ (pending' = pending \/ pending' = Append(pending, v))
    BY <1>1 DEF HandleUser
  <2>2. pending /= <<>> => Head(Append(pending, v)) = Head(pending)
    BY <1>0, AppendProperties, EmptySeq
  <2>. QED  BY <1>0, <2>1, <2>2 DEF HeadFirst
<1>2. ASSUME NEW v \in Uids, HandleAbort(v) PROVE HeadFirst'
  <2>1. RemovePending(v)
    BY <1>2 DEF HandleAbort, DeferAbort, AbortNow
  <2>2. chunk' = chunk \ {v}
    BY <2>1 DEF RemovePending
  <2>3. ASSUME NEW u \in chunk' PROVE u = Head(pending')
    <3>1. u \in chunk /\ u /= v /\ pending /= <<>> /\ u = Head(pending)
      BY <1>0, <2>2
    <3>2. CASE v \in Range(pending)
      <4>1. PICK i \in DOMAIN pending : pending[i] = v /\ pending' = RemoveAt(pending, i)
        BY <2>1, <3>2 DEF RemovePending
      <4>2. /\ Len(pending) \in Nat /\ Head(pending) = pending[1] /\ DOMAIN pending = 1 .. Len(pending)
        BY <1>0, <3>1
      <4>3. i \in 1 .. Len(pending) /\ i /= 1
        BY <3>1, <4>1, <4>2
      <4>4. 1 < i /\ 1 \in 1 .. Len(pending) - 1
        BY <4>2, <4>3
      <4>5. /\ RemoveAt(pending, i) \in Seq(Uids) /\ Len(RemoveAt(pending, i)) = Len(pending) - 1
            /\ RemoveAt(pending, i)[1] = pending[1]
        BY <1>0, <4>1, <4>4, RemoveAtProperties
      <4>6. Head(pending') = pending[1]
        BY <4>1, <4>2, <4>4, <4>5
      <4>. QED  BY <3>1, <4>2, <4>6
    <3>3. CASE v \notin Range(pending)
      BY <2>1, <3>1, <3>3 DEF RemovePending
    <3>. QED  BY <3>2, <3>3
  <2>. QED  BY <2>3 DEF HeadFirst
<1>3. ASSUME TryAddOne PROVE HeadFirst'
  <2>1. \/ pending' = pending /\ chunk' = chunk \union {Head(pending)}
        \/ chunk' = chunk \ {Head(pending)}
    BY <1>3 DEF TryAddOne
  <2>. QED  BY <1>0, <2>1 DEF HeadFirst
<1>4. ASSUME UNCHANGED <<pending, chunk>> PROVE HeadFirst'
  BY <1>4 DEF HeadFirst
<1>5. ASSUME BeginTick \/ EndReceive \/ CloseBatch \/ Forward PROVE HeadFirst'
  BY <1>4, <1>5 DEF BeginTick, EndReceive, CloseBatch, Forward, pendVars
<1>6. ASSUME (\E u \in Uids : PostProcess(u) \/ FreeDeferred(u)) \/ SendResult \/ FlushAcks
      PROVE  HeadFirst'
  BY <1>4, <1>6 DEF PostProcess, FreeDeferred, SendResult, FlushAcks, pendVars
<1>7. ASSUME HandleExit \/ DrainEnd \/ \E u \in Uids : DrainOne(u) PROVE FALSE
  BY <1>7 DEF HandleExit, DrainEnd, DrainOne, Serving
<1>8. ASSUME UNCHANGED vars PROVE HeadFirst'
  BY <1>4, <1>8 DEF vars, pendVars
<1>. QED
  BY <1>1, <1>2, <1>3, <1>5, <1>6, <1>7, <1>8 DEF Next, Arrival, Step, Idle

LEMMA LagStays ==
  ASSUME TypeOK, FenceInv, LifeParts, Lagged, Serving', [Next]_vars
  PROVE  Lagged'
<1>1. ASSUME UNCHANGED <<cached, device, last>>, running' \subseteq running,
             pc' \notin {"post", "defer"} \/ (pc \in {"post", "defer"} /\ cur' = cur)
      PROVE  Lagged'
  BY <1>1 DEF Lagged
<1>2. ASSUME NEW v \in Uids, HandleUser(v) \/ HandleAbort(v) PROVE Lagged'
  <2>1. /\ pc' = "recv" /\ UNCHANGED <<cached, device, last>> /\ running' \subseteq running
    BY <1>2 DEF HandleUser, HandleAbort, DeferAbort, AbortNow, RemoveRunning, reqVars, loopVars
  <2>. QED  BY <1>1, <2>1
<1>3. ASSUME BeginTick \/ EndReceive \/ CloseBatch PROVE Lagged'
  <2>1. /\ pc' \notin {"post", "defer"} /\ UNCHANGED <<cached, device, last, running>>
    BY <1>3 DEF BeginTick, EndReceive, CloseBatch, reqVars, loopVars
  <2>. QED  BY <1>1, <2>1
<1>4. ASSUME TryAddOne PROVE Lagged'
  <2> DEFINE v == Head(pending)
  <2>1. /\ pc' = "admit" /\ UNCHANGED <<last, running>>
        /\ v \in Uids /\ v \notin running /\ (v \in last.reqs => v \in last.chunked)
        /\ \A u \in Uids : u /= v => cached'[u] = cached[u] /\ device'[u] = device[u]
    BY <1>4, HoldersGrow DEF TryAddOne, TypeOK
  <2> HIDE DEF v
  <2>2. running \subseteq Uids /\ last.reqs \subseteq Uids
    BY DEF TypeOK, Batches
  <2>. QED  BY <2>1, <2>2 DEF Lagged
<1>5. ASSUME Forward PROVE Lagged'
  <2>1. /\ cached' = [u \in Uids |-> IF u \in cur.reqs THEN device[u] ELSE cached[u]]
        /\ device' = [u \in Uids |-> IF u \in cur.reqs THEN device[u] + 1 ELSE device[u]]
        /\ running' \subseteq running \union cur.reqs
        /\ UNCHANGED <<cur, last>>
    BY <1>5 DEF Forward, Serving
  <2>2. running \subseteq Uids /\ cur.reqs \subseteq Uids /\ last.reqs \subseteq Uids
    BY DEF TypeOK, Batches
  <2>3. \A u \in cur.reqs : device'[u] = cached'[u] + 1
    BY <2>1, <2>2
  <2>4. \A u \in (running' \union (last.reqs \ last.chunked)) \ cur.reqs :
          device'[u] = cached'[u] + 1
    BY <2>1, <2>2 DEF Lagged
  <2>. QED  BY <2>1, <2>3, <2>4 DEF Lagged
<1>6. ASSUME NEW u \in Uids, PostProcess(u) \/ FreeDeferred(u) PROVE Lagged'
  <2>1. /\ pc \in {"post", "defer"} /\ UNCHANGED <<cached, device, last, cur>>
        /\ running' \subseteq running
    BY <1>6 DEF PostProcess, FreeDeferred, RemoveRunning, reqVars
  <2>. QED  BY <1>1, <2>1
<1>7. ASSUME SendResult PROVE Lagged'
  <2>1. pc = "post" /\ UNCHANGED <<cached, device, last, cur, running>>
    BY <1>7 DEF SendResult, reqVars
  <2>. QED  BY <1>1, <2>1
<1>8. ASSUME FlushAcks PROVE Lagged'
  <2>1. /\ pc = "defer" /\ pc' = "loop" /\ UNCHANGED <<cached, device, running>>
        /\ last' = IF Overlap THEN cur ELSE NoBatch
    BY <1>8 DEF FlushAcks, reqVars
  <2>. QED  BY <2>1 DEF Lagged, NoBatch
<1>9. ASSUME HandleExit \/ DrainEnd \/ \E u \in Uids : DrainOne(u) PROVE FALSE
  BY <1>9 DEF HandleExit, DrainEnd, DrainOne, Serving
<1>10. ASSUME UNCHANGED vars PROVE Lagged'
  BY <1>10 DEF vars, reqVars, loopVars, Lagged
<1>. QED
  BY <1>2, <1>3, <1>4, <1>5, <1>6, <1>7, <1>8, <1>9, <1>10 DEF Next, Arrival, Step, Idle

(* What a holder has asked for, cached and been promised, over a step that is
   not try_add_one: only a forward caches, and what it caches was promised. *)
LEMMA HoldersSteady ==
  ASSUME TypeOK, FenceInv, LifeParts, Sized, Serving, Serving', [Next]_vars, ~TryAddOne,
         NEW u \in Holders
  PROVE  /\ prompt'[u] = prompt[u] /\ out'[u] = out[u]
         /\ \/ cached'[u] = cached[u]
            \/ cached'[u] < prompt[u] + out[u] /\ u \notin deferred /\ deferred' = deferred
         /\ deferred \subseteq deferred' \/ (deferred' = {} /\ u \notin deferred)
<1> DEFINE Goal == /\ prompt'[u] = prompt[u] /\ out'[u] = out[u]
                   /\ \/ cached'[u] = cached[u]
                      \/ cached'[u] < prompt[u] + out[u] /\ u \notin deferred /\ deferred' = deferred
                   /\ deferred \subseteq deferred' \/ (deferred' = {} /\ u \notin deferred)
<1>0. u \in Uids
  BY HoldersType
<1>1. ASSUME NEW v \in Uids, HandleUser(v) PROVE Goal
  <2>1. /\ pc \in {"wait", "recv"} /\ v \notin arrived /\ UNCHANGED <<cached, deferred>>
        /\ \A w \in Uids : w /= v => prompt'[w] = prompt[w] /\ out'[w] = out[w]
    BY <1>1 DEF HandleUser, Receiving, fenceVars, TypeOK
  <2>2. newFinished = {} /\ cur = NoBatch
    BY <2>1 DEF LifeParts, Finishing, FenceInv, TickPhases
  <2>3. chunk \subseteq arrived /\ running \subseteq arrived /\ last.reqs \subseteq arrived
    BY DEF LifeParts, Known, Queued, FenceInv, PendingOnce
  <2>4. u \in arrived
    BY <2>1, <2>2, <2>3, HoldersOpen DEF Data, NoBatch
  <2>. QED  BY <1>0, <2>1, <2>4
<1>2. ASSUME NEW v \in Uids, HandleAbort(v) PROVE Goal
  <2>1. UNCHANGED <<prompt, out, cached>> /\ deferred \subseteq deferred'
    BY <1>2 DEF HandleAbort, DeferAbort, AbortNow, reqVars
  <2>. QED  BY <2>1
<1>3. ASSUME BeginTick \/ EndReceive \/ CloseBatch PROVE Goal
  BY <1>3 DEF BeginTick, EndReceive, CloseBatch, reqVars, fenceVars
<1>4. ASSUME Forward PROVE Goal
  <2>1. /\ pc = "forward" /\ UNCHANGED <<prompt, out, deferred>>
        /\ cached' = [w \in Uids |-> IF w \in cur.reqs THEN device[w] ELSE cached[w]]
    BY <1>4 DEF Forward, Serving, fenceVars
  <2>2. u \in cur.reqs => device[u] < prompt[u] + out[u] /\ u \notin deferred
    BY <2>1 DEF Sized, FenceInv, AbortsFenced, Fenced, TypeOK
  <2>. QED  BY <1>0, <2>1, <2>2
<1>5. ASSUME NEW v \in Uids, PostProcess(v) \/ FreeDeferred(v) PROVE Goal
  BY <1>5 DEF PostProcess, FreeDeferred, reqVars, fenceVars
<1>6. ASSUME SendResult PROVE Goal
  BY <1>6 DEF SendResult, reqVars, fenceVars
<1>7. ASSUME FlushAcks PROVE Goal
  <2>1. pc = "defer" /\ todo = {} /\ UNCHANGED <<prompt, out, cached>> /\ deferred' = {}
    BY <1>7 DEF FlushAcks, reqVars
  <2>2. u \in chunk \union running \union cur.reqs
    BY <2>1 DEF Holders, Unprocessed
  <2>3. u \notin deferred
    BY <2>2 DEF FenceInv, AbortsFenced, Fenced, TypeOK
  <2>. QED  BY <2>1, <2>3
<1>8. ASSUME HandleExit \/ DrainEnd \/ \E v \in Uids : DrainOne(v) PROVE FALSE
  BY <1>8 DEF HandleExit, DrainEnd, DrainOne, Serving
<1>9. ASSUME UNCHANGED vars PROVE Goal
  BY <1>9 DEF vars, reqVars, fenceVars
<1> HIDE DEF Goal
<1>10. Goal
  BY <1>1, <1>2, <1>3, <1>4, <1>5, <1>6, <1>7, <1>8, <1>9 DEF Next, Arrival, Step, Idle
<1>. QED
  BY <1>10 DEF Goal

(* try_add_one on a request that is not chunked is guarded by the reservation:
   what is drawn, what running and added requests still may draw, and all that
   the new one may. *)
LEMMA RoomForOne ==
  ASSUME PageSize = 1, TypeOK, TypeOK', FenceInv, LifeParts, Regular, Held, RoomParts, Fits',
         TryAddOne, NEW v \in Uids, v = Head(pending), v \notin chunk,
         \A u \in Uids : u /= v => Bound(u)' = Bound(u),
         Bound(v)' <= prompt[v] + out[v]
  PROVE  Promised' <= NumPages
<1> DEFINE rem == [u \in Uids |-> RemainLen(u)]
           ahd == [u \in Uids |-> Ahead(u)]
           run == [u \in Uids |-> IF u \in running THEN rem[u] ELSE 0]
           add == [u \in Uids |-> IF u \in cur.reqs THEN ahd[u] ELSE 0]
           now == [u \in Uids |-> taken[u] + run[u]]
           old == [u \in Uids |-> now[u] + add[u]]
           new == [u \in Uids |-> IF u = v THEN old[u] + (prompt[u] + out[u]) ELSE old[u]]
           bnd == [u \in Uids |-> Bound(u)']
<1>1. /\ IsFiniteSet(Uids) /\ NumPages \in Nat /\ v \in Uids
      /\ cur.reqs \in SUBSET Uids /\ running \in SUBSET Uids
  BY ConstantsAssumption, HoldersGrow DEF TypeOK, Batches
<1>2. \A u \in Uids : /\ prompt[u] \in Nat /\ out[u] \in Nat /\ cached[u] \in Nat /\ device[u] \in Nat
                      /\ taken[u] \in Int /\ Pages(cached[u]) = cached[u]
  BY PagesOfOne DEF TypeOK
<1>3. /\ rem \in [Uids -> Int] /\ ahd \in [Uids -> Int] /\ taken \in [Uids -> Int]
      /\ \A u \in Uids : rem[u] = prompt[u] + out[u] - device[u] /\ ahd[u] = prompt[u] + out[u] - cached[u]
  <2>1. \A u \in Uids : RemainLen(u) \in Int /\ Ahead(u) \in Int
    BY <1>2 DEF RemainLen, Ahead
  <2>2. taken \in [Uids -> Int]
    BY DEF TypeOK
  <2>. QED  BY <2>1, <2>2 DEF RemainLen, Ahead
<1>4. run \in [Uids -> Int] /\ add \in [Uids -> Int]
  BY <1>3
<1>5. now \in [Uids -> Int] /\ old \in [Uids -> Int]
  BY <1>2, <1>4
<1>6. new \in [Uids -> Int]
  BY <1>2, <1>5
<1>7. bnd \in [Uids -> Int]
  <2>1. ASSUME NEW u \in Uids PROVE Bound(u)' \in Nat
    <3>1. prompt'[u] \in Nat /\ out'[u] \in Nat /\ cached'[u] \in Nat
      BY DEF TypeOK
    <3>2. u \in Holders' => cached'[u] < prompt'[u] + out'[u]
      BY DEF Fits
    <3>. QED  BY <3>1, <3>2 DEF Bound
  <2>. QED  BY <2>1
<1>8. /\ pc = "admit" /\ newFinished = {} /\ chunk = {}
      /\ prompt[v] + out[v] + ReservedSize <= Available
  <2>1. pc = "admit" /\ prompt[v] + out[v] + ReservedSize <= Available
    BY DEF TryAddOne, CanAdd, CanAllocate
  <2>2. newFinished = {}
    BY <2>1 DEF LifeParts, Finishing
  <2>3. chunk = {}
    BY DEF RoomParts, HeadFirst
  <2>. QED  BY <2>1, <2>2, <2>3
<1>9. \A u \in Uids : u /= v => Bound(u) <= old[u]
  <2> TAKE u \in Uids
  <2>1. taken[u] = IF u \in Holders THEN cached[u] ELSE 0
    BY <1>2 DEF Held, Drawn
  <2>2. /\ u \in running => run[u] = prompt[u] + out[u] - device[u] /\ run[u] > 0
        /\ u \notin running => run[u] = 0
    <3>1. u \in running => RemainLen(u) > 0
      BY DEF LifeParts, Decoding
    <3>. QED  BY <1>3, <3>1 DEF RemainLen
  <2>3. /\ u \in cur.reqs => add[u] = prompt[u] + out[u] - cached[u]
        /\ u \notin cur.reqs => add[u] = 0
    BY <1>3
  <2>4. old[u] = taken[u] + run[u] + add[u] /\ run[u] \in Int /\ add[u] \in Int
    BY <1>4
  <2>5. u \in Holders => cached[u] < prompt[u] + out[u]
    BY DEF RoomParts, Fits
  <2>6. u \in cur.reqs => u \in Holders
    BY <1>8, HoldersOpen DEF LifeParts, Batched
  <2>7. u \in running => u \in Holders /\ device[u] = cached[u] + 1
    BY <1>8, HoldersOpen DEF RoomParts, Lagged
  <2> HIDE DEF run, add, old
  <2>8. add[u] >= 0 /\ run[u] >= 0
    BY <1>2, <2>2, <2>3, <2>4, <2>5, <2>6
  <2>9. CASE u \notin Holders
    BY <2>1, <2>4, <2>8, <2>9 DEF Bound
  <2>10. CASE u \in Holders /\ u \in deferred
    <3>1. Bound(u) = cached[u] /\ taken[u] = cached[u]
      BY <2>1, <2>10 DEF Bound
    <3>. QED  BY <1>2, <2>4, <2>8, <3>1
  <2>11. CASE u \in Holders /\ u \notin deferred
    <3>1. Bound(u) = prompt[u] + out[u] - 1 /\ taken[u] = cached[u]
      BY <2>1, <2>11 DEF Bound
    <3>2. CASE u \in running
      BY <1>2, <2>2, <2>4, <2>7, <2>8, <3>1, <3>2
    <3>3. CASE u \in cur.reqs
      BY <1>2, <2>3, <2>4, <2>8, <3>1, <3>3
    <3>4. CASE u \notin running /\ u \notin cur.reqs
      <4>1. u \in last.reqs /\ u \notin finished
        BY <1>8, <2>11, <3>4, HoldersOpen DEF Data
      <4>2. u \notin last.chunked
        BY <1>8, <2>11, <3>4 DEF LifeParts, ChunksKept
      <4>3. ~(RemainLen(u) > 0)
        BY <1>8, <2>11, <3>4, <4>1, <4>2 DEF LifeParts, LastKept
      <4>4. device[u] = cached[u] + 1
        BY <4>1, <4>2 DEF RoomParts, Lagged
      <4>5. ~(prompt[u] + out[u] - device[u] > 0)
        BY <4>3 DEF RemainLen
      <4>. QED  BY <1>2, <2>4, <2>8, <3>1, <4>4, <4>5
    <3>. QED  BY <3>2, <3>3, <3>4
  <2>. QED  BY <2>9, <2>10, <2>11
<1>10. old[v] >= 0
  <2>1. v \notin Holders /\ v \notin running
    BY HoldersGrow
  <2>2. v \notin cur.reqs
    BY <1>8, <2>1, HoldersOpen DEF LifeParts, Batched
  <2>3. taken[v] = 0
    BY <1>1, <2>1 DEF Held, Drawn
  <2>4. run[v] = 0 /\ add[v] = 0
    BY <1>1, <2>1, <2>2
  <2>. QED  BY <1>1, <2>3, <2>4
<1>11. \A u \in Uids : bnd[u] <= new[u]
  <2> TAKE u \in Uids
  <2>0. bnd[u] = Bound(u)' /\ new[u] = IF u = v THEN old[u] + (prompt[u] + out[u]) ELSE old[u]
    OBVIOUS
  <2>0a. old[u] \in Int /\ bnd[u] \in Int /\ prompt[u] + out[u] \in Int
    BY <1>2, <1>5, <1>7
  <2> HIDE DEF old, new, bnd
  <2>1. CASE u = v
    <3>1. Bound(u)' <= prompt[u] + out[u]
      BY <2>1
    <3>2. old[u] >= 0
      BY <1>10, <2>1
    <3>. QED  BY <2>0, <2>0a, <2>1, <3>1, <3>2
  <2>2. CASE u /= v
    BY <1>9, <2>0, <2>2
  <2>. QED  BY <2>1, <2>2
<1>12. /\ \A u \in running : run[u] = rem[u]
       /\ \A u \in Uids \ running : run[u] = 0
       /\ \A u \in cur.reqs : add[u] = ahd[u]
       /\ \A u \in Uids \ cur.reqs : add[u] = 0
       /\ \A u \in Uids : now[u] = taken[u] + run[u]
       /\ \A u \in Uids : old[u] = now[u] + add[u]
  BY <1>1
<1>13. new[v] = old[v] + (prompt[v] + out[v]) /\ \A u \in Uids : u /= v => new[u] = old[u]
  BY <1>1
<1>14. /\ MapThenSumSet(RemainLen, running) = Total(rem, running)
       /\ MapThenSumSet(LAMBDA u : prompt[u] + out[u] - cached[u], cur.reqs) = Total(ahd, cur.reqs)
  BY InflightTotal, AddedTotal
<1>14a. Promised' = Total(bnd, Uids)
  BY DEF Promised
<1> HIDE DEF rem, ahd, run, add, now, old, new, bnd
<1>15. Total(run, Uids) = Total(rem, running) /\ Total(add, Uids) = Total(ahd, cur.reqs)
  <2>1. Total(run, Uids) = Total(rem, running)
    <3>1. running \in SUBSET Uids /\ (\A u \in running : run[u] = rem[u])
          /\ \A u \in Uids \ running : run[u] = 0
      BY <1>1, <1>12
    <3>. QED  BY ONLY <1>1, <1>3, <1>4, <3>1, TotalPart
  <2> DEFINE P == cur.reqs
  <2>2. P \in SUBSET Uids /\ (\A u \in P : add[u] = ahd[u]) /\ \A u \in Uids \ P : add[u] = 0
    BY <1>1, <1>12
  <2> HIDE DEF P
  <2>3. Total(add, Uids) = Total(ahd, P)
    BY ONLY <1>1, <1>3, <1>4, <2>2, TotalPart
  <2>. QED  BY <2>1, <2>3 DEF P
<1>16. Total(now, Uids) = Total(taken, Uids) + Total(run, Uids)
  BY ONLY <1>1, <1>3, <1>4, <1>5, <1>12, TotalPlus
<1>17. Total(old, Uids) = Total(now, Uids) + Total(add, Uids)
  <2>1. \A u \in Uids : old[u] = now[u] + add[u]
    BY <1>12
  <2>. QED  BY ONLY <1>1, <1>4, <1>5, <2>1, TotalPlus
<1>18. Total(new, Uids) = Total(old, Uids) + (prompt[v] + out[v])
  <2>1. prompt[v] + out[v] \in Int
    BY <1>1, <1>2
  <2>. QED  BY ONLY <1>1, <1>5, <1>6, <1>13, <2>1, TotalBump
<1>19. Total(bnd, Uids) <= Total(new, Uids)
  BY ONLY <1>1, <1>6, <1>7, <1>11, TotalMono
<1>20. /\ Total(taken, Uids) \in Int /\ Total(run, Uids) \in Int /\ Total(add, Uids) \in Int
       /\ Total(bnd, Uids) \in Int
  BY ONLY <1>1, <1>3, <1>4, <1>7, TotalRules
<1>21. prompt[v] + out[v] + (Total(run, Uids) + Total(add, Uids)) <= NumPages - Total(taken, Uids)
  <2>1. Cardinality(running) \in Nat
    BY <1>1, FS_Subset, FS_CardinalityType
  <2>2. InflightTokens = Total(run, Uids)
    <3>1. InflightTokens = Total(rem, running) + (PageSize - 1) * Cardinality(running)
      BY <1>14 DEF InflightTokens
    <3>2. (PageSize - 1) * Cardinality(running) = 0
      BY <2>1
    <3>. QED  BY <1>15, <1>20, <3>1, <3>2
  <2>3. ReservedSize = Total(run, Uids) + Total(add, Uids)
    BY <1>14, <1>15, <2>2 DEF ReservedSize
  <2>4. Available = NumPages - Total(taken, Uids)
    BY <1>1, <1>20, FreePagesTotal DEF Available
  <2>. QED  BY <1>8, <2>3, <2>4
<1> DEFINE p == prompt[v] + out[v]
<1>22. p \in Int
  BY <1>1, <1>2
<1>23. Total(new, Uids) = Total(taken, Uids) + Total(run, Uids) + Total(add, Uids) + p
  <2>1. Total(new, Uids) = Total(old, Uids) + p
    BY <1>18
  <2>. QED  BY <1>16, <1>17, <1>20, <1>22, <2>1
<1>24. p + (Total(run, Uids) + Total(add, Uids)) <= NumPages - Total(taken, Uids)
  BY <1>21
<1> HIDE DEF p
<1>25. Total(new, Uids) <= NumPages /\ Total(new, Uids) \in Int
  BY <1>1, <1>20, <1>22, <1>23, <1>24
<1>. QED
  BY <1>1, <1>14a, <1>19, <1>20, <1>25

LEMMA RoomAdded ==
  ASSUME TypeOK, TypeOK', FenceInv, LifeParts, Sized, Regular, Held, RoomParts, TryAddOne
  PROVE  Fits' /\ (PageSize = 1 => Promised' <= NumPages)
<1>0. PICK v \in Uids : v = Head(pending)
  BY HoldersGrow
<1>1. /\ v \in Range(pending) /\ Holders' = Holders \union {v}
      /\ v \notin running /\ v \notin deferred /\ (v \notin chunk => v \notin Holders)
  BY <1>0, HoldersGrow
<1>2. /\ cached' = [cached EXCEPT ![v] = IF v \in chunk THEN cached[v] ELSE 0]
      /\ UNCHANGED <<prompt, out, deferred>>
  BY <1>0 DEF TryAddOne, fenceVars
<1>3. \A u \in Uids : /\ prompt[u] \in Nat /\ out[u] \in Nat /\ cached[u] \in Nat
                      /\ (u /= v => cached'[u] = cached[u])
                      /\ cached'[v] = (IF v \in chunk THEN cached[v] ELSE 0)
  BY <1>2 DEF TypeOK
<1>4. \A u \in Holders : u \in Uids /\ cached[u] < prompt[u] + out[u]
  BY HoldersType DEF RoomParts, Fits
<1>5. cached'[v] < prompt[v] + out[v]
  <2>1. prompt[v] > 0
    BY <1>1 DEF Sized
  <2>2. v \in chunk => v \in Holders
    BY DEF Holders
  <2>. QED  BY <1>3, <1>4, <2>1, <2>2
<1>6. Fits'
  BY <1>1, <1>2, <1>3, <1>4, <1>5 DEF Fits
<1>7. \A u \in Uids : u /= v => Bound(u)' = Bound(u)
  BY <1>1, <1>2, <1>3 DEF Bound
<1>8. Bound(v)' = prompt[v] + out[v] - 1
  BY <1>1, <1>2 DEF Bound
<1>9. ASSUME PageSize = 1 PROVE Promised' <= NumPages
  <2>0. Promised <= NumPages
    BY <1>9 DEF RoomParts
  <2>1. CASE v \in chunk
    <3>1. v \in Holders
      BY <2>1 DEF Holders
    <3>2. Bound(v) = prompt[v] + out[v] - 1
      BY <1>1, <3>1 DEF Bound
    <3>3. \A u \in Uids : Bound(u)' = Bound(u)
      BY <1>7, <1>8, <3>2
    <3>4. [u \in Uids |-> Bound(u)'] = [u \in Uids |-> Bound(u)]
      BY <3>3
    <3>5. Promised' = Promised
      BY <3>4 DEF Promised
    <3>. QED  BY <2>0, <3>5
  <2>2. CASE v \notin chunk
    <3>1. Bound(v)' <= prompt[v] + out[v]
      BY <1>3, <1>8
    <3>. QED  BY <1>0, <1>6, <1>7, <1>9, <2>2, <3>1, RoomForOne
  <2>. QED  BY <2>1, <2>2
<1>. QED
  BY <1>6, <1>9

LEMMA RoomOthers ==
  ASSUME TypeOK, TypeOK', FenceInv, LifeParts, Sized, Regular, Held, RoomParts,
         Serving, Serving', [Next]_vars, ~TryAddOne
  PROVE  Fits' /\ (PageSize = 1 => Promised' <= NumPages)
<1>1. Holders' \subseteq Holders /\ Holders \subseteq Uids
  BY HoldersShrink, HoldersType
<1>2. ASSUME NEW u \in Holders'
      PROVE  /\ cached'[u] < prompt'[u] + out'[u]
             /\ Bound(u)' <= Bound(u)
  <2>1. u \in Holders /\ u \in Uids
    BY <1>1
  <2>2. /\ prompt'[u] = prompt[u] /\ out'[u] = out[u]
        /\ \/ cached'[u] = cached[u]
           \/ cached'[u] < prompt[u] + out[u] /\ u \notin deferred /\ deferred' = deferred
        /\ deferred \subseteq deferred' \/ (deferred' = {} /\ u \notin deferred)
    BY <2>1, HoldersSteady
  <2>3. cached[u] < prompt[u] + out[u]
    BY <2>1 DEF RoomParts, Fits
  <2>4. prompt[u] \in Nat /\ out[u] \in Nat /\ cached[u] \in Nat /\ cached'[u] \in Nat
    BY <2>1 DEF TypeOK
  <2>5. /\ Bound(u) = IF u \in deferred THEN cached[u] ELSE prompt[u] + out[u] - 1
        /\ Bound(u)' = IF u \in deferred' THEN cached'[u] ELSE prompt[u] + out[u] - 1
    BY <2>1, <2>2 DEF Bound
  <2>6. cached'[u] < prompt'[u] + out'[u]
    BY <2>2, <2>3
  <2>7. Bound(u)' <= Bound(u)
    <3>1. CASE u \in deferred
      <4>1. u \in deferred' /\ cached'[u] = cached[u]
        BY <2>2, <3>1
      <4>. QED  BY <2>4, <2>5, <3>1, <4>1
    <3>2. CASE u \notin deferred
      BY <2>2, <2>4, <2>5, <2>6, <3>2
    <3>. QED  BY <3>1, <3>2
  <2>. QED  BY <2>6, <2>7
<1>3. Fits'
  BY <1>2 DEF Fits
<1>4. \A u \in Uids : Bound(u)' <= Bound(u)
  <2>1. ASSUME NEW u \in Uids, u \notin Holders' PROVE Bound(u)' <= Bound(u)
    <3>1. Bound(u)' = 0
      BY <2>1 DEF Bound
    <3>2. Bound(u) \in Nat
      BY BoundType DEF RoomParts
    <3>. QED  BY <3>1, <3>2
  <2>. QED  BY <1>2, <2>1
<1>. QED
  BY <1>3, <1>4, RoomKept DEF RoomParts

LEMMA RoomInductive ==
  TypeOK /\ TypeOK' /\ FenceInv /\ LifeInv /\ SizedInv /\ HoldInv /\ RoomInv /\ [Next]_vars => RoomInv'
<1> SUFFICES ASSUME TypeOK, TypeOK', FenceInv, LifeInv, SizedInv, HoldInv, RoomInv, [Next]_vars,
                    Regular'
             PROVE  RoomInv'
  BY DEF RoomInv
<1>1. Regular
  BY RegularBefore
<1>2. ASSUME Serving' PROVE RoomParts'
  <2>1. Serving
    BY <1>2, ServingBefore
  <2>2. LifeParts /\ Sized /\ Held /\ RoomParts
    BY <1>1, <2>1 DEF LifeInv, SizedInv, HoldInv, RoomInv, Held
  <2>3. HeadFirst' /\ Lagged'
    BY <1>2, <2>2, HeadStays, LagStays DEF RoomParts
  <2>4. Fits' /\ (PageSize = 1 => Promised' <= NumPages)
    BY <1>1, <1>2, <2>1, <2>2, RoomAdded, RoomOthers
  <2>. QED  BY <2>3, <2>4 DEF RoomParts
<1>3. ASSUME PageSize = 1 PROVE pc' /= "crashed"
  <2>1. pc /= "crashed"
    BY <1>1, <1>3 DEF RoomInv
  <2>2. ASSUME BeginTick, pc' = "crashed" PROVE FALSE
    <3>1. pc = "loop" /\ Blocking /\ FreePages /= NumPages
      BY <2>2 DEF BeginTick
    <3>2. LifeParts /\ Held
      BY <1>1, <3>1 DEF LifeInv, HoldInv, Serving, Held
    <3>. QED  BY <3>1, <3>2, IdleHolds
  <2>3. ASSUME Forward, pc' = "crashed" PROVE FALSE
    <3>1. pc = "forward" /\ NeededPages > FreePages
      BY <2>3 DEF Forward
    <3>2. LifeParts /\ Sized /\ Held /\ RoomParts
      BY <1>1, <3>1 DEF LifeInv, SizedInv, HoldInv, RoomInv, Serving, Held
    <3>. QED  BY <1>3, <3>1, <3>2, RoomFound
  <2>. QED  BY <2>1, <2>2, <2>3, CrashesWhere
<1>. QED
  BY <1>2, <1>3 DEF RoomInv

LEMMA RoomInit == Init => RoomInv
<1> SUFFICES ASSUME Init PROVE RoomInv
  OBVIOUS
<1>1. /\ Holders = {} /\ chunk = {} /\ running = {} /\ last = NoBatch /\ cur = NoBatch /\ pc = "loop"
  BY DEF Init, Holders, Unprocessed, Data, NoBatch
<1> DEFINE f == [u \in Uids |-> Bound(u)]
<1>2. f \in [Uids -> Int] /\ \A u \in Uids : f[u] = 0
  BY <1>1 DEF Bound
<1>3. Promised = Total(f, Uids)
  BY DEF Promised
<1> HIDE DEF f
<1>4. Promised = 0
  BY <1>2, <1>3, ConstantsAssumption, TotalZero
<1>5. Promised <= NumPages
  BY <1>4, ConstantsAssumption
<1>. QED
  BY <1>1, <1>5 DEF RoomInv, RoomParts, HeadFirst, Lagged, Fits, NoBatch

LEMMA RoomCorrect == Spec => [](LifeInv /\ HoldInv /\ RoomInv /\ TypeOK /\ FenceInv)
BY RoomInit, RoomInductive, SizedInit, SizedInductive, HoldInit, HoldInductive, LifeInit,
   LifeInductive, FenceInit, FenceInductive, TypeCorrect, PTL DEF Spec

(* run_when_idle's check_integrity passes whatever the page size: nothing is
   leaked when nothing is left to run. *)
THEOREM IdleIntact == Spec => [](Regular /\ pc = "loop" /\ Blocking => FreePages = NumPages)
<1>1. LifeInv /\ HoldInv /\ TypeOK /\ FenceInv => (Regular /\ pc = "loop" /\ Blocking => FreePages = NumPages)
  BY IdleHolds DEF LifeInv, HoldInv, Held, Serving
<1>. QED
  BY <1>1, RoomCorrect, PTL

(* With pages of one token the process never fails: what is reserved when a
   request is admitted covers all it will draw, whatever joins, ends or is
   aborted meanwhile.  In normal_loop without reserve. *)
THEOREM NeverCrashesCorrect == PageSize = 1 /\ ~Overlap => (Spec => []NeverCrashes)
<1> SUFFICES ASSUME PageSize = 1, ~Overlap PROVE Spec => []NeverCrashes
  OBVIOUS
<1>1. RoomInv => NeverCrashes
  BY DEF RoomInv, NeverCrashes, Regular
<1>. QED
  BY <1>1, RoomCorrect, PTL

(* And in overlap_loop, with rows and pages exact, until an abort comes for a
   request that has had its final message. *)
THEOREM ExactCorrect == PageSize = 1 => (Spec => []ExactUnlessLate)
<1> SUFFICES ASSUME PageSize = 1 PROVE Spec => []ExactUnlessLate
  OBVIOUS
<1>1. HoldInv /\ RoomInv => ExactUnlessLate
  BY DEF HoldInv, RoomInv, ExactUnlessLate, NeverCrashes, Regular, SlotsExclusive, PagesExact,
         Shared, Drawn
<1>. QED
  BY <1>1, RoomCorrect, PTL

-----------------------------------------------------------------------------
(* What a client is sent: at most one token after the final one in either   *)
(* loop, and from normal_loop the abstract service of RequestService, step  *)
(* by step.                                                                 *)

Kinds == {"token", "final", "ack"}

(* The log s of a request: nothing but acknowledgements after its final
   message, and at most one other message. *)
QuietLog(s) == \A i, j \in DOMAIN s : s[i] = "final" /\ i < j => s[j] = "ack"
Trailing(s, i) == {j \in i + 1 .. Len(s) : s[j] /= "ack"}
TrailLog(s) == \A i \in DOMAIN s : s[i] = "final" => Cardinality(Trailing(s, i)) <= 1

AckPlaces(s) == {i \in DOMAIN s : s[i] = "ack"}

-----------------------------------------------------------------------------
(* What sending one more message, or acknowledgements, does to a log.      *)

(* t is the log s with m after it. *)
Join(t, s, m) ==
  /\ Len(s) \in Nat /\ Len(m) \in Nat /\ Len(t) = Len(s) + Len(m)
  /\ DOMAIN s = 1 .. Len(s) /\ DOMAIN t = 1 .. Len(s) + Len(m)
  /\ \A i \in 1 .. Len(s) : t[i] = s[i]
  /\ \A i \in 1 .. Len(s) + Len(m) :
       ~(i <= Len(s)) => i - Len(s) \in 1 .. Len(m) /\ t[i] = m[i - Len(s)]

LEMMA Joined ==
  ASSUME NEW S, NEW s \in Seq(S), NEW m \in Seq(S)
  PROVE  Join(s \o m, s, m)
<1> DEFINE t == s \o m
<1>1. /\ t \in Seq(S) /\ Len(s) \in Nat /\ Len(m) \in Nat /\ Len(t) = Len(s) + Len(m)
      /\ \A i \in 1 .. Len(s) + Len(m) : t[i] = IF i <= Len(s) THEN s[i] ELSE m[i - Len(s)]
  BY ConcatProperties
<1> HIDE DEF t
<1>2. DOMAIN t = 1 .. Len(s) + Len(m) /\ DOMAIN s = 1 .. Len(s)
  BY <1>1
<1>3. \A i \in 1 .. Len(s) : i \in 1 .. Len(s) + Len(m) /\ t[i] = s[i]
  BY <1>1
<1>4. \A i \in 1 .. Len(s) + Len(m) :
        ~(i <= Len(s)) => i - Len(s) \in 1 .. Len(m) /\ t[i] = m[i - Len(s)]
  BY <1>1
<1>. QED
  BY <1>1, <1>2, <1>3, <1>4 DEF t, Join

LEMMA OpenLog ==
  ASSUME NEW s \in Seq(Kinds), "final" \notin Range(s)
  PROVE  QuietLog(s) /\ \A x \in Kinds : QuietLog(s \o <<x>>)
<1>1. \A i \in DOMAIN s : s[i] /= "final"
  BY DEF Range
<1>2. ASSUME NEW x \in Kinds PROVE QuietLog(s \o <<x>>)
  <2> DEFINE m == <<x>>
             t == s \o m
  <2>1. m \in Seq(Kinds) /\ Len(m) = 1
    OBVIOUS
  <2> HIDE DEF m
  <2>2. Join(t, s, m)
    BY <2>1, Joined
  <2> HIDE DEF t
  <2>3. \A i \in DOMAIN t : t[i] = "final" => i = Len(s) + 1
    BY <1>1, <2>1, <2>2 DEF Join
  <2>4. QuietLog(t)
    BY <2>1, <2>2, <2>3 DEF QuietLog, Join
  <2>. QED  BY <2>4 DEF t, m
<1>. QED
  BY <1>1, <1>2 DEF QuietLog

LEMMA QuietTrails ==
  ASSUME NEW s \in Seq(Kinds), QuietLog(s), NEW x \in Kinds
  PROVE  TrailLog(s \o <<x>>)
<1> DEFINE m == <<x>>
           t == s \o m
           last1 == Len(s) + 1
<1>1. m \in Seq(Kinds) /\ Len(m) = 1
  OBVIOUS
<1> HIDE DEF m
<1>2. Join(t, s, m)
  BY <1>1, Joined
<1> HIDE DEF t
<1>3. /\ Len(s) \in Nat /\ DOMAIN s = 1 .. Len(s) /\ DOMAIN t = 1 .. Len(s) + 1
      /\ Len(t) = Len(s) + 1 /\ \A i \in 1 .. Len(s) : t[i] = s[i]
  BY <1>1, <1>2 DEF Join
<1>4. ASSUME NEW i \in DOMAIN t, t[i] = "final" PROVE Trailing(t, i) \subseteq {last1}
  <2> SUFFICES ASSUME NEW j \in i + 1 .. Len(s) + 1, t[j] /= "ack", j /= last1 PROVE FALSE
    BY <1>3 DEF Trailing
  <2>1. i \in 1 .. Len(s) /\ j \in 1 .. Len(s) /\ i < j
    BY <1>3
  <2>2. s[i] = "final" /\ s[j] /= "ack"
    BY <1>3, <1>4, <2>1
  <2>. QED  BY <1>3, <2>1, <2>2 DEF QuietLog
<1>5. IsFiniteSet({last1}) /\ Cardinality({last1}) = 1
  BY FS_Singleton
<1> HIDE DEF last1
<1>6. ASSUME NEW i \in DOMAIN t, t[i] = "final" PROVE Cardinality(Trailing(t, i)) <= 1
  BY <1>4, <1>5, <1>6, FS_Subset
<1>7. TrailLog(t)
  BY <1>6 DEF TrailLog
<1>. QED
  BY <1>7 DEF t, m

LEMMA AckedLog ==
  ASSUME NEW s \in Seq(Kinds), NEW m \in Seq(Kinds), \A i \in DOMAIN m : m[i] = "ack"
  PROVE  /\ QuietLog(s) => QuietLog(s \o m)
         /\ TrailLog(s) => TrailLog(s \o m)
         /\ "final" \in Range(s \o m) => "final" \in Range(s)
<1> DEFINE t == s \o m
<1>1. /\ Len(s) \in Nat /\ Len(m) \in Nat /\ DOMAIN s = 1 .. Len(s)
      /\ DOMAIN t = 1 .. Len(s) + Len(m) /\ Len(t) = Len(s) + Len(m)
      /\ \A i \in 1 .. Len(s) : t[i] = s[i]
      /\ \A i \in 1 .. Len(s) + Len(m) :
           ~(i <= Len(s)) => i - Len(s) \in 1 .. Len(m) /\ t[i] = m[i - Len(s)]
  <2>1. Join(t, s, m)
    BY Joined
  <2>. QED  BY <2>1 DEF Join
<1> HIDE DEF t
<1>2. DOMAIN m = 1 .. Len(m)
  OBVIOUS
<1>3. \A i \in DOMAIN t : (i \in DOMAIN s /\ t[i] = s[i]) \/ (Len(s) < i /\ t[i] = "ack")
  BY <1>1, <1>2
<1>4. "final" \in Range(t) => "final" \in Range(s)
  BY <1>3 DEF Range
<1>5. ASSUME QuietLog(s) PROVE QuietLog(t)
  <2> SUFFICES ASSUME NEW i \in DOMAIN t, NEW j \in DOMAIN t, t[i] = "final", i < j
               PROVE  t[j] = "ack"
    BY DEF QuietLog
  <2>. QED  BY <1>3, <1>5 DEF QuietLog
<1>6. ASSUME TrailLog(s) PROVE TrailLog(t)
  <2> SUFFICES ASSUME NEW i \in DOMAIN t, t[i] = "final"
               PROVE  Cardinality(Trailing(t, i)) <= 1
    BY DEF TrailLog
  <2>1. i \in DOMAIN s /\ s[i] = "final"
    BY <1>3
  <2>2. \A j \in i + 1 .. Len(t) : t[j] /= "ack" => j \in i + 1 .. Len(s) /\ s[j] /= "ack"
    BY <1>1, <1>3, <2>1
  <2>3. \A j \in i + 1 .. Len(s) : j \in i + 1 .. Len(t) /\ t[j] = s[j]
    BY <1>1, <2>1
  <2>4. Trailing(t, i) = Trailing(s, i)
    BY <2>2, <2>3 DEF Trailing
  <2>. QED  BY <1>6, <2>1, <2>4 DEF TrailLog
<1>. QED
  BY <1>4, <1>5, <1>6 DEF t

(* The acknowledgements in a log are those it had and those that were added. *)
LEMMA AckPlacesAdded ==
  ASSUME NEW s \in Seq(Kinds), NEW m \in Seq(Kinds)
  PROVE  /\ IsFiniteSet(AckPlaces(s)) /\ Cardinality(AckPlaces(s)) \in Nat
         /\ (\A i \in DOMAIN m : m[i] /= "ack") => AckPlaces(s \o m) = AckPlaces(s)
         /\ (\A i \in DOMAIN m : m[i] = "ack") =>
              Cardinality(AckPlaces(s \o m)) = Cardinality(AckPlaces(s)) + Len(m)
<1> DEFINE t == s \o m
           n == Len(s)
           k == Len(m)
           new == n + 1 .. n + k
<1>1. /\ n \in Nat /\ k \in Nat /\ DOMAIN s = 1 .. n /\ DOMAIN t = 1 .. n + k
      /\ \A i \in 1 .. n : t[i] = s[i]
      /\ \A i \in 1 .. n + k : ~(i <= n) => i - n \in 1 .. k /\ t[i] = m[i - n]
  <2>1. Join(t, s, m)
    BY Joined
  <2>. QED  BY <2>1 DEF Join
<1>2. DOMAIN m = 1 .. k
  OBVIOUS
<1>4. IsFiniteSet(AckPlaces(s)) /\ Cardinality(AckPlaces(s)) \in Nat
  <2>1. IsFiniteSet(1 .. n)
    BY <1>1, FS_Interval
  <2>2. AckPlaces(s) \subseteq 1 .. n
    BY <1>1 DEF AckPlaces
  <2>. QED  BY <2>1, <2>2, FS_Subset, FS_CardinalityType
<1> HIDE DEF t, n, k
<1>3. IsFiniteSet(new) /\ Cardinality(new) = k
  <2>1. n + 1 \in Int /\ n + k \in Int
    BY <1>1
  <2>2. /\ IsFiniteSet(new)
        /\ Cardinality(new) = IF n + 1 > n + k THEN 0 ELSE (n + k) - (n + 1) + 1
    BY ONLY <2>1, FS_Interval
  <2>. QED  BY <1>1, <2>2
<1>5. ASSUME \A i \in DOMAIN m : m[i] /= "ack" PROVE AckPlaces(t) = AckPlaces(s)
  <2>1. \A i \in DOMAIN t : t[i] = "ack" => i \in DOMAIN s /\ s[i] = "ack"
    BY <1>1, <1>2, <1>5
  <2>2. \A i \in DOMAIN s : i \in DOMAIN t /\ t[i] = s[i]
    BY <1>1
  <2>. QED  BY <2>1, <2>2 DEF AckPlaces
<1>6. ASSUME \A i \in DOMAIN m : m[i] = "ack"
      PROVE  Cardinality(AckPlaces(t)) = Cardinality(AckPlaces(s)) + k
  <2>1. \A i \in DOMAIN t : t[i] = "ack" <=> i \in AckPlaces(s) \/ i \in new
    BY <1>1, <1>2, <1>6 DEF AckPlaces
  <2>2. AckPlaces(s) \subseteq DOMAIN t /\ new \subseteq DOMAIN t /\ AckPlaces(s) \intersect new = {}
    BY <1>1 DEF AckPlaces
  <2>3. AckPlaces(t) = AckPlaces(s) \union new
    BY <2>1, <2>2 DEF AckPlaces
  <2> HIDE DEF new
  <2>4. Cardinality(AckPlaces(s) \union new)
          = Cardinality(AckPlaces(s)) + Cardinality(new) - Cardinality(AckPlaces(s) \intersect new)
    BY <1>3, <1>4, FS_Union
  <2>5. Cardinality(AckPlaces(s) \intersect new) = 0
    BY <2>2, FS_EmptySet
  <2>. QED  BY <1>1, <1>3, <1>4, <2>3, <2>4, <2>5
<1>. QED
  BY <1>4, <1>5, <1>6 DEF t, n, k

-----------------------------------------------------------------------------
(* One trailing token.                                                     *)

Closed(u) == "final" \in Range(sent[u])

(* Every reply of a tick is for a request of the batch it post-processes that
   the for-loop has visited, and a final one was noted in finished_reqs. *)
Replies ==
  \A r \in reply : /\ r.uid \in Data.reqs \ todo
                   /\ r.finished => r.uid \in finished \union newFinished

(* The batch that the next post-processing will visit *)
InFlight == IF pc = "defer" THEN cur.reqs ELSE last.reqs

(* A request that has had its final message runs no more; a batch launched
   before may hold it, and then it has had nothing else since. *)
Trails ==
  \A u \in Uids : Closed(u) =>
    /\ u \in arrived /\ u \notin Range(pending) \union running
    /\ pc /= "defer" => u \notin cur.reqs
    /\ u \in InFlight => QuietLog(sent[u])

TrailInv == OneTrailingToken /\ (Serving => Replies /\ Trails)

LEMMA LogType == ASSUME TypeOK, NEW u \in Uids PROVE sent[u] \in Seq(Kinds)
BY DEF TypeOK, Kinds

LEMMA TrailInit == Init => TrailInv
<1> SUFFICES ASSUME Init PROVE TrailInv
  OBVIOUS
<1>1. reply = {} /\ \A u \in Uids : sent[u] = <<>> /\ DOMAIN sent[u] = {} /\ ~Closed(u)
  BY DEF Init, Closed, Range
<1>. QED
  BY <1>1 DEF TrailInv, OneTrailingToken, Replies, Trails

(* A step that sends nothing closes no log: it may only put back into a
   container a request whose log is open. *)
LEMMA TrailKept ==
  ASSUME TrailInv, Serving, sent' = sent, Replies', arrived \subseteq arrived',
         pc \notin {"defer"}, pc' \notin {"defer"}, last' = last,
         Range(pending') \union running' \union cur'.reqs
           \subseteq Range(pending) \union running \union cur.reqs \union (Uids \ arrived)
  PROVE  TrailInv'
<1>1. OneTrailingToken'
  BY DEF TrailInv, OneTrailingToken
<1>2. Trails'
  <2> SUFFICES ASSUME NEW u \in Uids, Closed(u)'
               PROVE  /\ u \in arrived' /\ u \notin Range(pending') \union running'
                      /\ u \notin cur'.reqs
                      /\ u \in InFlight' => QuietLog(sent'[u])
    BY DEF Trails
  <2>1. Closed(u)
    BY DEF Closed
  <2>2. /\ u \in arrived /\ u \notin Range(pending) \union running \union cur.reqs
        /\ u \in last.reqs => QuietLog(sent[u])
    BY <2>1 DEF TrailInv, Trails, InFlight
  <2>. QED  BY <2>2 DEF InFlight
<1>. QED
  BY <1>1, <1>2 DEF TrailInv

(* The end of the for-loop: the one step that sends tokens. *)
LEMMA TrailSend ==
  ASSUME TypeOK, FenceInv, LifeInv, TrailInv, SendResult PROVE TrailInv'
<1>0. Serving /\ LifeParts /\ Replies /\ Trails /\ pc = "post" /\ pc' = "defer"
  BY DEF SendResult, Serving, LifeInv, TrailInv
<1>1. /\ reply' = {} /\ todo = {} /\ \A u \in Uids : sent'[u] = sent[u] \o ReplyTo(u)
      /\ UNCHANGED <<pending, running, cur, last, arrived>>
  BY DEF SendResult, pendVars
<1>2. ASSUME NEW u \in Uids, ReplyTo(u) /= <<>>
      PROVE  /\ u \in Data.reqs /\ \E x \in Kinds : ReplyTo(u) = <<x>>
             /\ [uid |-> u, finished |-> TRUE] \in reply \/ ReplyTo(u) = <<"token">>
  BY <1>0, <1>2 DEF ReplyTo, Replies, Kinds
<1>3. ASSUME NEW u \in Uids PROVE TrailLog(sent'[u])
  <2> DEFINE s == sent[u]
  <2>1. s \in Seq(Kinds)
    BY LogType
  <2>2. CASE ReplyTo(u) = <<>>
    <3>1. sent'[u] = s
      BY <1>1, <2>1, <2>2, ConcatEmptySeq
    <3>2. TrailLog(s)
      BY DEF TrailInv, OneTrailingToken, TrailLog, Trailing
    <3>. QED  BY <3>1, <3>2
  <2>3. CASE ReplyTo(u) /= <<>>
    <3>1. PICK x \in Kinds : ReplyTo(u) = <<x>>
      BY <1>2, <2>3
    <3>2. QuietLog(s)
      <4>1. CASE Closed(u)
        <5>1. u \notin cur.reqs /\ (u \in last.reqs => QuietLog(s))
          BY <1>0, <4>1 DEF Trails, InFlight
        <5>. QED  BY <1>2, <2>3, <5>1 DEF Data
      <4>2. CASE ~Closed(u)
        BY <2>1, <4>2, OpenLog DEF Closed
      <4>. QED  BY <4>1, <4>2
    <3> HIDE DEF s
    <3>3. TrailLog(s \o <<x>>)
      BY <2>1, <3>2, QuietTrails
    <3>. QED  BY <1>1, <3>1, <3>3 DEF s
  <2>. QED  BY <2>2, <2>3
<1>4. OneTrailingToken'
  BY <1>3 DEF OneTrailingToken, TrailLog, Trailing
<1>5. ASSUME NEW u \in Uids, Closed(u)'
      PROVE  /\ u \in arrived' /\ u \notin Range(pending') \union running'
             /\ u \in InFlight' => QuietLog(sent'[u])
  <2> DEFINE s == sent[u]
  <2>1. s \in Seq(Kinds)
    BY LogType
  <2>2. CASE Closed(u)
    <3>1. /\ u \in arrived /\ u \notin Range(pending) \union running
          /\ u \notin cur.reqs
      BY <1>0, <2>2 DEF Trails
    <3>. QED  BY <1>0, <1>1, <3>1 DEF InFlight
  <2>3. CASE ~Closed(u)
    <3>1. ReplyTo(u) /= <<>>
      BY <1>1, <1>5, <2>1, <2>3, ConcatEmptySeq DEF Closed
    <3>2. PICK x \in Kinds : ReplyTo(u) = <<x>>
      BY <1>2, <3>1
    <3>3. QuietLog(sent'[u])
      <4>1. QuietLog(s \o <<x>>)
        BY <2>1, <2>3, OpenLog DEF Closed
      <4>. QED  BY <1>1, <3>2, <4>1
    <3>4. [uid |-> u, finished |-> TRUE] \in reply
      <4>1. Range(s \o <<"token">>) = Range(s) \union Range(<<"token">>)
        <5>1. <<"token">> \in Seq(Kinds)
          BY DEF Kinds
        <5>. QED  BY <2>1, <5>1, ConcatRange
      <4>2. Range(<<"token">>) = {"token"}
        BY DEF Range
      <4>3. ReplyTo(u) /= <<"token">>
        <5> SUFFICES ASSUME ReplyTo(u) = <<"token">> PROVE FALSE
          OBVIOUS
        <5>1. sent'[u] = s \o <<"token">>
          BY <1>1
        <5>2. "final" \in Range(sent'[u]) /\ "final" \notin Range(s)
          BY <1>5, <2>3 DEF Closed
        <5>. QED  BY <4>1, <4>2, <5>1, <5>2
      <4>. QED  BY <1>2, <3>1, <4>3
    <3>5. u \in newFinished
      <4>1. u \in finished \union newFinished
        BY <1>0, <3>4 DEF Replies
      <4>2. u \notin finished
        BY <1>0, <2>3 DEF LifeParts, Finals, Closed
      <4>. QED  BY <4>1, <4>2
    <3>6. u \notin Range(pending) \union running /\ u \in arrived
      BY <1>0, <3>5 DEF LifeParts, Queued, Decoding, Known
    <3>. QED  BY <1>1, <3>3, <3>6
  <2>. QED  BY <2>2, <2>3
<1>6. Trails' /\ Replies'
  BY <1>0, <1>1, <1>5 DEF Trails, Replies
<1>. QED
  BY <1>4, <1>6 DEF TrailInv

LEMMA TrailFlush ==
  ASSUME TypeOK, FenceInv, LifeInv, TrailInv, FlushAcks PROVE TrailInv'
<1>0. Serving /\ LifeParts /\ Replies /\ Trails /\ pc = "defer" /\ pc' = "loop"
  BY DEF FlushAcks, Serving, LifeInv, TrailInv
<1>1. /\ cur' = NoBatch /\ last' \in {cur, NoBatch} /\ todo = {}
      /\ UNCHANGED <<pending, running, arrived, todo, finished, newFinished, reply>>
  BY DEF FlushAcks, pendVars
<1>2. ASSUME NEW u \in Uids
      PROVE  /\ TrailLog(sent'[u]) /\ (QuietLog(sent[u]) => QuietLog(sent'[u]))
             /\ Closed(u)' => Closed(u)
  <2> DEFINE m == [i \in 1 .. acks[u] |-> "ack"]
             s == sent[u]
  <2>1. s \in Seq(Kinds) /\ m \in Seq(Kinds) /\ \A i \in DOMAIN m : m[i] = "ack"
    BY LogType DEF TypeOK, Kinds
  <2>2. sent'[u] = s \o m
    BY DEF FlushAcks
  <2>3. TrailLog(s)
    BY DEF TrailInv, OneTrailingToken, TrailLog, Trailing
  <2>4. /\ QuietLog(s) => QuietLog(s \o m)
        /\ TrailLog(s) => TrailLog(s \o m)
        /\ "final" \in Range(s \o m) => "final" \in Range(s)
    <3> HIDE DEF s, m
    <3>. QED  BY <2>1, AckedLog
  <2>. QED  BY <2>2, <2>3, <2>4 DEF Closed
<1>3. OneTrailingToken'
  BY <1>2 DEF OneTrailingToken, TrailLog, Trailing
<1>4. Trails'
  <2> SUFFICES ASSUME NEW u \in Uids, Closed(u)'
               PROVE  /\ u \in arrived' /\ u \notin Range(pending') \union running'
                      /\ u \notin cur'.reqs
                      /\ u \in last'.reqs => QuietLog(sent'[u])
    BY <1>0 DEF Trails, InFlight
  <2>1. /\ u \in arrived /\ u \notin Range(pending) \union running
        /\ u \in cur.reqs => QuietLog(sent[u])
    BY <1>0, <1>2 DEF Trails, InFlight
  <2>. QED  BY <1>1, <1>2, <2>1 DEF NoBatch
<1>5. Replies'
  <2>1. reply = {}
    BY <1>0 DEF FenceInv, TickPhases
  <2>. QED  BY <1>1, <2>1 DEF Replies
<1>. QED
  BY <1>3, <1>4, <1>5 DEF TrailInv

LEMMA TrailOthers ==
  ASSUME TypeOK, FenceInv, LifeInv, TrailInv, Serving, [Next]_vars,
         sent' = sent, Serving'
  PROVE  TrailInv'
<1>0. LifeParts /\ Replies /\ Trails
  BY DEF LifeInv, TrailInv
<1>1. ASSUME NEW v \in Uids, HandleUser(v) PROVE TrailInv'
  <2>1. /\ pc \in {"wait", "recv"} /\ pc' = "recv" /\ v \notin arrived
        /\ arrived' = arrived \union {v}
        /\ UNCHANGED <<running, cur, last, todo, finished, newFinished, reply>>
    BY <1>1 DEF HandleUser, Receiving, loopVars
  <2>2. Range(pending') \subseteq Range(pending) \union {v}
    <3>1. pending' = pending \/ pending' = Append(pending, v)
      BY <1>1 DEF HandleUser
    <3>2. Range(Append(pending, v)) = Range(pending) \union {v}
      <4>1. pending \in Seq(Uids)
        BY DEF TypeOK
      <4>. QED  BY <4>1, AppendRange
    <3>. QED  BY <3>1, <3>2
  <2>3. Replies'
    BY <1>0, <2>1 DEF Replies, Data
  <2>. QED  BY <2>1, <2>2, <2>3, TrailKept
<1>2. ASSUME NEW v \in Uids, HandleAbort(v) PROVE TrailInv'
  <2>1. /\ pc \in {"wait", "recv"} /\ pc' = "recv" /\ RemovePending(v) /\ running' = running \ {v}
        /\ UNCHANGED <<cur, last, todo, finished, newFinished, reply, arrived>>
    BY <1>2 DEF HandleAbort, Receiving, DeferAbort, AbortNow, RemoveRunning, loopVars
  <2>2. Range(pending') = Range(pending) \ {v}
    BY <2>1, RemovePendingKeeps DEF FenceInv
  <2>3. Replies'
    BY <1>0, <2>1 DEF Replies, Data
  <2>. QED  BY <2>1, <2>2, <2>3, TrailKept
<1>3. CASE BeginTick \/ EndReceive
  <2>1. /\ pc \in {"loop", "recv"} /\ pc' \in {"wait", "recv", "admit", "crashed"}
        /\ UNCHANGED <<pending, running, cur, last, todo, finished, newFinished, reply, arrived>>
    BY <1>3 DEF BeginTick, EndReceive, pendVars, loopVars, envVars
  <2>2. Replies'
    BY <1>0, <2>1 DEF Replies, Data
  <2>. QED  BY <2>1, <2>2, TrailKept
<1>4. CASE TryAddOne
  <2>1. /\ pc = "admit" /\ pc' = "admit" /\ pending /= <<>>
        /\ pending' = pending \/ pending' = Tail(pending)
        /\ cur'.reqs = cur.reqs \union {Head(pending)}
        /\ UNCHANGED <<running, last, todo, finished, newFinished, reply, arrived>>
    BY <1>4 DEF TryAddOne, CanAdd, envVars
  <2>2. Head(pending) \in Range(pending) /\ Range(Tail(pending)) = Range(pending) \ {Head(pending)}
    BY <2>1, TailKeeps DEF TypeOK, FenceInv, PendingOnce
  <2>3. reply = {}
    BY <2>1 DEF FenceInv, TickPhases
  <2>4. Replies'
    BY <2>1, <2>3 DEF Replies
  <2>. QED  BY <2>1, <2>2, <2>4, TrailKept
<1>5. CASE CloseBatch
  <2>1. /\ pc = "admit" /\ pc' = "forward" /\ cur'.reqs \subseteq cur.reqs \union running
        /\ UNCHANGED <<pending, running, last, todo, finished, newFinished, reply, arrived>>
    BY <1>5 DEF CloseBatch, pendVars, envVars
  <2>2. reply = {}
    BY <2>1 DEF FenceInv, TickPhases
  <2>3. Replies'
    BY <2>1, <2>2 DEF Replies
  <2>. QED  BY <2>1, <2>3, TrailKept
<1>6. CASE Forward
  <2>1. /\ pc = "forward" /\ pc' \in {"post", "crashed"} /\ running' \subseteq running \union cur.reqs
        /\ UNCHANGED <<pending, cur, last, reply, arrived>>
    BY <1>6 DEF Forward, pendVars, envVars
  <2>2. reply = {}
    BY <2>1 DEF FenceInv, TickPhases
  <2>3. Replies'
    BY <2>1, <2>2 DEF Replies
  <2>. QED  BY <2>1, <2>3, TrailKept
<1>7. ASSUME NEW v \in Uids, PostProcess(v) PROVE TrailInv'
  <2>1. /\ pc = "post" /\ pc' = pc /\ v \in todo /\ todo' = todo \ {v} /\ running' \subseteq running
        /\ newFinished \subseteq newFinished'
        /\ UNCHANGED <<pending, cur, last, finished, arrived>>
    BY <1>7 DEF PostProcess, RemoveRunning, pendVars, envVars
  <2>2. \/ reply' = reply
        \/ \E f \in BOOLEAN : /\ reply' = reply \union {[uid |-> v, finished |-> f]}
                              /\ f => v \in finished \union newFinished'
    <3>1. CASE Skipped(v)
      BY <1>7, <3>1 DEF PostProcess
    <3>2. ASSUME NEW stops \in BOOLEAN,
                 reply' = reply \union {[uid |-> v, finished |-> Ends(v, stops)]},
                 Ends(v, stops) /\ v \notin finished => newFinished' = newFinished \union {v}
          PROVE  \E f \in BOOLEAN : /\ reply' = reply \union {[uid |-> v, finished |-> f]}
                                    /\ f => v \in finished \union newFinished'
      <4>1. Ends(v, stops) \in BOOLEAN
        BY DEF Ends
      <4>. QED  BY <3>2, <4>1
    <3>. QED  BY <1>7, <3>1, <3>2 DEF PostProcess, FirstFinish
  <2>3. v \in Data.reqs /\ Data' = Data
    BY <2>1 DEF FenceInv, TickPhases, Data
  <2>4. Replies'
    BY <1>0, <2>1, <2>2, <2>3 DEF Replies
  <2>. QED  BY <2>1, <2>4, TrailKept
<1>8. ASSUME NEW v \in Uids, FreeDeferred(v) PROVE TrailInv'
  <2>1. /\ pc = "defer" /\ pc' = pc
        /\ UNCHANGED <<pending, running, cur, last, reply, arrived, finished, newFinished>>
    BY <1>8 DEF FreeDeferred, pendVars, envVars
  <2>2. reply = {}
    BY <2>1 DEF FenceInv, TickPhases
  <2>3. Replies' /\ Trails'
    BY <1>0, <2>1, <2>2 DEF Replies, Trails, Closed, InFlight
  <2>4. OneTrailingToken'
    BY DEF TrailInv, OneTrailingToken
  <2>. QED  BY <2>3, <2>4 DEF TrailInv
<1>9. CASE UNCHANGED vars
  <2>1. UNCHANGED <<pc, pending, running, cur, last, todo, reply, arrived, finished, newFinished>>
    BY <1>9 DEF vars, pendVars, loopVars, envVars
  <2>2. Replies' /\ Trails'
    BY <1>0, <2>1 DEF Replies, Trails, Closed, InFlight, Data
  <2>3. OneTrailingToken'
    BY DEF TrailInv, OneTrailingToken
  <2>. QED  BY <2>2, <2>3 DEF TrailInv
<1>10. CASE SendResult \/ FlushAcks
  BY <1>10, TrailSend, TrailFlush
<1>11. CASE HandleExit \/ DrainEnd \/ \E v \in Uids : DrainOne(v)
  BY <1>11 DEF HandleExit, DrainEnd, DrainOne, Serving
<1>. QED
  BY <1>1, <1>2, <1>3, <1>4, <1>5, <1>6, <1>7, <1>8, <1>9, <1>10, <1>11
     DEF Next, Arrival, Step, Idle

LEMMA TrailInductive == TypeOK /\ FenceInv /\ LifeInv /\ TrailInv /\ [Next]_vars => TrailInv'
<1> SUFFICES ASSUME TypeOK, FenceInv, LifeInv, TrailInv, [Next]_vars PROVE TrailInv'
  OBVIOUS
<1>1. CASE SendResult \/ FlushAcks
  BY <1>1, TrailSend, TrailFlush
<1>2. CASE sent' = sent
  <2>1. CASE Serving'
    BY <1>2, <2>1, ServingBefore, TrailOthers
  <2>2. CASE ~Serving'
    BY <1>2, <2>2 DEF TrailInv, OneTrailingToken
  <2>. QED  BY <2>1, <2>2
<1>. QED
  BY <1>1, <1>2, OnlyTickEndsSend

(* In either loop a client gets at most one message after the final one of a
   request, acknowledgements apart: the token of the batch that was in flight
   when the request ended. *)
THEOREM TrailingCorrect == Spec => []OneTrailingToken
<1>1. TrailInv => OneTrailingToken
  BY DEF TrailInv
<1>. QED
  BY <1>1, HoldCorrect, TrailInit, TrailInductive, PTL DEF Spec

-----------------------------------------------------------------------------
(* normal_loop implements the service.                                     *)

(* Nothing is sent for a request that has not been run. *)
Unasked == \A u \in Uids : u \notin arrived \/ u \in Range(pending) => sent[u] = <<>>

(* device_len counts the prompt and every token sent, and between a forward
   and the end of the tick the one just sampled. *)
Counted ==
  /\ \A u \in running :
       (pc = "post" => u \notin cur.reqs) => device[u] = prompt[u] + Len(sent[u])
  /\ pc \in {"admit", "forward"} =>
       \A u \in cur.reqs \ cur.chunked : device[u] = prompt[u] + Len(sent[u])
  /\ pc = "post" =>
       \A u \in cur.reqs \ cur.chunked : /\ device[u] = prompt[u] + Len(sent[u]) + 1
                                         /\ device[u] <= prompt[u] + out[u]

(* The for-loop replies to every request of the batch that is not a chunk, and
   that is not final only if the request can decode. *)
Replied ==
  /\ pc = "post" => \A u \in cur.reqs \ (todo \union cur.chunked) :
                      \E f \in BOOLEAN : [uid |-> u, finished |-> f] \in reply
  /\ \A r \in reply : r.uid \notin cur.chunked /\ (~r.finished => RemainLen(r.uid) > 0)

(* Every acknowledgement, sent or to be sent, is of an abort message. *)
AckCount ==
  \A u \in Uids : Cardinality(AckPlaces(sent[u])) + acks[u] <= aborts[u]

ServeInv == AckCount /\ (Serving => Unasked /\ Counted /\ Replied)

(* In normal_loop nothing is in flight when a message is read. *)
LEMMA NormalLoop ==
  ASSUME ~Overlap, TypeOK, FenceInv, LifeInv, Serving
  PROVE  Data = cur /\ last.reqs = {} /\ deferred = {}
<1>1. last = NoBatch
  BY DEF LifeInv, LifeParts, Batched
<1>2. last.reqs = {} /\ Data = cur
  BY <1>1 DEF NoBatch, Data
<1>. QED
  BY <1>2 DEF FenceInv, AbortsFenced

LEMMA ServeInit == Init => ServeInv
<1> SUFFICES ASSUME Init PROVE ServeInv
  OBVIOUS
<1>1. /\ pc = "loop" /\ running = {} /\ reply = {}
      /\ \A u \in Uids : sent[u] = <<>> /\ AckPlaces(sent[u]) = {} /\ acks[u] = 0 /\ aborts[u] = 0
  BY DEF Init, AckPlaces
<1>2. Cardinality({}) = 0
  BY FS_EmptySet
<1>3. ASSUME NEW u \in Uids PROVE Cardinality(AckPlaces(sent[u])) + acks[u] <= aborts[u]
  <2>1. Cardinality(AckPlaces(sent[u])) = 0
    BY <1>1, <1>2, Zenon
  <2>. QED  BY <1>1, <2>1
<1>4. AckCount
  BY <1>3 DEF AckCount
<1>. QED
  BY <1>1, <1>4 DEF ServeInv, Unasked, Counted, Replied

(* What the end of the for-loop sends: a message for each request of the batch
   but the chunks, none of them aborted or closed, none past its length. *)
LEMMA ServeOne ==
  ASSUME ~Overlap, TypeOK, FenceInv, LifeInv, TrailInv, ServeInv, SendResult, NEW u \in Uids
  PROVE  IF u \in cur.reqs \ cur.chunked
         THEN /\ \E x \in {"token", "final"} :
                   /\ sent'[u] = sent[u] \o <<x>>
                   /\ x = "token" => RemainLen(u) > 0
              /\ aborts[u] = 0 /\ ~Closed(u)
              /\ device[u] = prompt[u] + Len(sent[u]) + 1 /\ device[u] <= prompt[u] + out[u]
         ELSE sent'[u] = sent[u]
<1>1. /\ pc = "post" /\ todo = {} /\ sent'[u] = sent[u] \o ReplyTo(u) /\ Serving
  BY DEF SendResult, Serving
<1>2. Data = cur
  BY <1>1, NormalLoop
<1>3. LifeParts /\ Replies /\ Trails /\ Counted /\ Replied
  BY <1>1 DEF LifeInv, TrailInv, ServeInv
<1>4. CASE u \in cur.reqs \ cur.chunked
  <2>1. PICK f \in BOOLEAN : [uid |-> u, finished |-> f] \in reply
    BY <1>1, <1>3, <1>4 DEF Replied
  <2>2. \E x \in {"token", "final"} : ReplyTo(u) = <<x>> /\ (x = "token" => RemainLen(u) > 0)
    BY <1>3, <2>1 DEF ReplyTo, Replied
  <2>3. aborts[u] = 0
    <3>1. ~Fenced(u)
      BY <1>4 DEF Fenced
    <3>. QED  BY <3>1 DEF FenceInv, AbortsFenced, TypeOK
  <2>4. ~Closed(u)
    BY <1>1, <1>3, <1>4 DEF Trails
  <2>5. device[u] = prompt[u] + Len(sent[u]) + 1 /\ device[u] <= prompt[u] + out[u]
    BY <1>1, <1>3, <1>4 DEF Counted
  <2>. QED  BY <1>1, <1>4, <2>2, <2>3, <2>4, <2>5
<1>5. CASE u \notin cur.reqs \ cur.chunked
  <2>1. \A f \in BOOLEAN : [uid |-> u, finished |-> f] \notin reply
    BY <1>2, <1>3, <1>5 DEF Replies, Replied
  <2>2. ReplyTo(u) = <<>>
    BY <2>1 DEF ReplyTo
  <2>3. sent'[u] = sent[u]
    BY <1>1, <2>2, LogType, ConcatEmptySeq
  <2>. QED  BY <1>5, <2>3
<1>. QED
  BY <1>4, <1>5

LEMMA ServeSend ==
  ASSUME ~Overlap, TypeOK, FenceInv, LifeInv, TrailInv, ServeInv, SendResult
  PROVE  ServeInv'
<1>0. Serving /\ LifeParts /\ Unasked /\ Counted /\ Replied /\ pc = "post" /\ pc' = "defer"
  BY DEF SendResult, Serving, LifeInv, ServeInv
<1>1. /\ reply' = {}
      /\ UNCHANGED <<prompt, out, device, pending, running, cur, acks, arrived, aborts>>
  BY DEF SendResult, reqVars, pendVars, fenceVars
<1>2. \A u \in Uids : u \notin cur.reqs \ cur.chunked => sent'[u] = sent[u]
  BY ServeOne
<1>3. ASSUME NEW u \in Uids, u \in cur.reqs \ cur.chunked
      PROVE  \E x \in {"token", "final"} : sent'[u] = sent[u] \o <<x>>
  BY <1>3, ServeOne
<1>4. ASSUME NEW u \in Uids PROVE AckPlaces(sent'[u]) = AckPlaces(sent[u])
  <2>1. CASE u \notin cur.reqs \ cur.chunked
    BY <1>2, <2>1
  <2>2. CASE u \in cur.reqs \ cur.chunked
    <3>1. PICK x \in {"token", "final"} : sent'[u] = sent[u] \o <<x>>
      BY <1>3, <2>2
    <3> DEFINE m == <<x>>
               s == sent[u]
    <3>2. m \in Seq(Kinds) /\ (\A i \in DOMAIN m : m[i] /= "ack") /\ s \in Seq(Kinds)
      BY LogType DEF Kinds
    <3> HIDE DEF m, s
    <3>3. AckPlaces(s \o m) = AckPlaces(s)
      BY <3>2, AckPlacesAdded
    <3>. QED  BY <3>1, <3>3 DEF m, s
  <2>. QED  BY <2>1, <2>2
<1>5. AckCount'
  BY <1>1, <1>4 DEF ServeInv, AckCount
<1>6. Unasked'
  <2>1. \A u \in cur.reqs \ cur.chunked : u \in arrived /\ u \notin Range(pending)
    BY <1>0 DEF LifeParts, Known, Queued
  <2>. QED  BY <1>0, <1>1, <1>2, <2>1 DEF Unasked
<1>7. ASSUME NEW u \in running PROVE device'[u] = prompt'[u] + Len(sent'[u])
  <2>0. u \in Uids /\ u \notin cur.chunked
    BY <1>0 DEF TypeOK, LifeParts, Decoding
  <2>1. CASE u \notin cur.reqs
    BY <1>0, <1>1, <1>2, <2>0, <2>1 DEF Counted
  <2>2. CASE u \in cur.reqs
    <3>1. PICK x \in {"token", "final"} : sent'[u] = sent[u] \o <<x>>
      BY <1>3, <2>0, <2>2
    <3>2. Len(sent'[u]) = Len(sent[u]) + 1 /\ Len(sent[u]) \in Nat
      <4> DEFINE m == <<x>>
                 s == sent[u]
      <4>1. m \in Seq(Kinds) /\ Len(m) = 1 /\ s \in Seq(Kinds)
        BY <2>0, LogType DEF Kinds
      <4> HIDE DEF m, s
      <4>2. Len(s \o m) = Len(s) + Len(m) /\ Len(s) \in Nat
        BY <4>1, Joined DEF Join
      <4>. QED  BY <3>1, <4>1, <4>2 DEF m, s
    <3>3. device[u] = prompt[u] + Len(sent[u]) + 1
      BY <1>0, <2>0, <2>2 DEF Counted
    <3>4. prompt[u] \in Nat
      BY <2>0 DEF TypeOK
    <3>. QED  BY <1>1, <3>2, <3>3, <3>4
  <2>. QED  BY <2>1, <2>2
<1>8. Counted' /\ Replied'
  BY <1>0, <1>1, <1>7 DEF Counted, Replied
<1>. QED
  BY <1>5, <1>6, <1>8 DEF ServeInv

LEMMA ServeFlush ==
  ASSUME ~Overlap, TypeOK, FenceInv, LifeInv, ServeInv, FlushAcks PROVE ServeInv'
<1>0. Serving /\ LifeParts /\ Unasked /\ Counted /\ pc = "defer" /\ pc' = "loop" /\ reply = {}
  BY DEF FlushAcks, Serving, LifeInv, ServeInv, FenceInv, TickPhases
<1>1. UNCHANGED <<prompt, out, device, pending, running, reply, arrived, aborts>>
  BY DEF FlushAcks, reqVars, pendVars
<1>2. ASSUME NEW u \in Uids
      PROVE  /\ acks'[u] = 0
             /\ Cardinality(AckPlaces(sent'[u])) = Cardinality(AckPlaces(sent[u])) + acks[u]
             /\ acks[u] = 0 => sent'[u] = sent[u]
  <2> DEFINE m == [i \in 1 .. acks[u] |-> "ack"]
             s == sent[u]
  <2>1. s \in Seq(Kinds) /\ m \in Seq(Kinds) /\ (\A i \in DOMAIN m : m[i] = "ack") /\ Len(m) = acks[u]
    BY LogType DEF TypeOK, Kinds
  <2>2. sent'[u] = s \o m /\ acks'[u] = 0
    BY DEF FlushAcks
  <2>3. acks[u] = 0 => m = <<>>
    OBVIOUS
  <2> HIDE DEF m, s
  <2>4. Cardinality(AckPlaces(s \o m)) = Cardinality(AckPlaces(s)) + Len(m)
    BY <2>1, AckPlacesAdded
  <2>5. s \o <<>> = s
    BY <2>1, ConcatEmptySeq
  <2>. QED  BY <2>1, <2>2, <2>3, <2>4, <2>5 DEF s
<1>3. ASSUME NEW u \in Uids PROVE Cardinality(AckPlaces(sent[u])) \in Nat /\ acks[u] \in Nat
  <2>1. <<>> \in Seq(Kinds)
    OBVIOUS
  <2>. QED  BY <2>1, LogType, AckPlacesAdded DEF TypeOK
<1>4. AckCount'
  <2> SUFFICES ASSUME NEW u \in Uids
               PROVE  Cardinality(AckPlaces(sent'[u])) + acks'[u] <= aborts'[u]
    BY DEF AckCount
  <2>1. Cardinality(AckPlaces(sent[u])) + acks[u] <= aborts[u]
    BY DEF ServeInv, AckCount
  <2>. QED  BY <1>1, <1>2, <1>3, <2>1
<1>5. ASSUME NEW u \in Uids, u \notin arrived \/ u \in Range(pending) \/ u \in running
      PROVE  sent'[u] = sent[u]
  <2>1. ~(aborts[u] > 0)
    BY <1>5 DEF FenceInv, AbortsFenced, Fenced
  <2>2. acks[u] = 0
    <3>1. Cardinality(AckPlaces(sent[u])) + acks[u] <= aborts[u] /\ aborts[u] \in Nat
      BY DEF ServeInv, AckCount, TypeOK
    <3>. QED  BY <1>3, <2>1, <3>1
  <2>. QED  BY <1>2, <2>2
<1>6. Unasked'
  BY <1>0, <1>1, <1>5 DEF Unasked
<1>7. Counted' /\ Replied'
  <2>1. running \subseteq Uids
    BY DEF TypeOK
  <2>. QED  BY <1>0, <1>1, <1>5, <2>1 DEF Counted, Replied
<1>. QED
  BY <1>4, <1>6, <1>7 DEF ServeInv

(* Messages: an abort is counted before it is acknowledged. *)
LEMMA ServeReceive ==
  ASSUME ~Overlap, TypeOK, FenceInv, LifeInv, ServeInv, Arrival PROVE ServeInv'
<1>0. pc \in {"wait", "recv"} /\ Serving
  BY DEF Arrival, HandleUser, HandleAbort, HandleExit, Receiving, Serving
<1>1. /\ LifeParts /\ Unasked /\ Counted /\ Replied /\ cur.reqs = {} /\ reply = {}
      /\ deferred = {} /\ inflight = {}
  <2>1. last.reqs = {} /\ deferred = {}
    BY <1>0, NormalLoop
  <2>. QED  BY <1>0, <2>1 DEF ServeInv, LifeInv, FenceInv, TickPhases, NoBatch
<1>2. ASSUME NEW v \in Uids, HandleUser(v) PROVE ServeInv'
  <2>1. /\ v \notin arrived /\ arrived' = arrived \union {v} /\ pc' = "recv"
        /\ UNCHANGED <<device, running, cur, reply, acks, aborts, sent>>
    BY <1>2 DEF HandleUser, loopVars, fenceVars
  <2>2. \A u \in Uids : u /= v => prompt'[u] = prompt[u]
    <3>1. prompt' = prompt \/ \E p \in PromptLens : prompt' = [prompt EXCEPT ![v] = p]
      BY <1>2 DEF HandleUser
    <3>. QED  BY <3>1 DEF TypeOK
  <2>3. Range(pending') \subseteq Range(pending) \union {v}
    <3>1. pending' = pending \/ pending' = Append(pending, v)
      BY <1>2 DEF HandleUser
    <3>2. Range(Append(pending, v)) = Range(pending) \union {v}
      <4>1. pending \in Seq(Uids)
        BY DEF TypeOK
      <4>. QED  BY <4>1, AppendRange
    <3>. QED  BY <3>1, <3>2
  <2>4. v \notin running /\ running \subseteq Uids
    BY <1>1, <2>1 DEF LifeParts, Known, TypeOK
  <2>5. Unasked'
    BY <1>1, <2>1, <2>3 DEF Unasked
  <2>6. Counted'
    BY <1>0, <1>1, <2>1, <2>2, <2>4 DEF Counted
  <2>7. Replied' /\ AckCount'
    BY <1>1, <2>1 DEF Replied, ServeInv, AckCount
  <2>. QED  BY <2>5, <2>6, <2>7 DEF ServeInv
<1>3. ASSUME NEW v \in Uids, HandleAbort(v) PROVE ServeInv'
  <2>1. /\ pc' = "recv" /\ RemovePending(v) /\ running' = running \ {v}
        /\ aborts' = [aborts EXCEPT ![v] = @ + 1] /\ acks' = [acks EXCEPT ![v] = @ + 1]
        /\ UNCHANGED <<prompt, device, cur, reply, sent, arrived>>
    BY <1>1, <1>3 DEF HandleAbort, DeferAbort, AbortNow, RemoveRunning, loopVars, reqVars
  <2>2. Range(pending') \subseteq Range(pending)
    BY <2>1, RemovePendingKeeps DEF FenceInv
  <2>3. Unasked' /\ Counted' /\ Replied'
    BY <1>0, <1>1, <2>1, <2>2 DEF Unasked, Counted, Replied
  <2>4. ASSUME NEW u \in Uids
        PROVE  Cardinality(AckPlaces(sent[u])) + acks'[u] <= aborts'[u]
    <3>1. /\ Cardinality(AckPlaces(sent[u])) + acks[u] <= aborts[u]
          /\ acks[u] \in Nat /\ aborts[u] \in Nat
      BY DEF ServeInv, AckCount, TypeOK
    <3>2. Cardinality(AckPlaces(sent[u])) \in Nat
      <4>1. <<>> \in Seq(Kinds)
        OBVIOUS
      <4>. QED  BY <4>1, LogType, AckPlacesAdded
    <3>3. \/ acks'[u] = acks[u] /\ aborts'[u] = aborts[u]
          \/ acks'[u] = acks[u] + 1 /\ aborts'[u] = aborts[u] + 1
      BY <2>1 DEF TypeOK
    <3>. QED  BY <3>1, <3>2, <3>3
  <2>5. AckCount'
    BY <2>1, <2>4 DEF AckCount
  <2>. QED  BY <2>3, <2>5 DEF ServeInv
<1>4. ASSUME HandleExit PROVE ServeInv'
  <2>1. pc' = "drain" /\ UNCHANGED <<sent, acks, aborts>>
    BY <1>4 DEF HandleExit, fenceVars, envVars
  <2>. QED  BY <2>1 DEF ServeInv, AckCount, Serving
<1>. QED
  BY <1>2, <1>3, <1>4 DEF Arrival

(* The steps that build, run and visit a batch. *)
LEMMA ServeStep ==
  ASSUME ~Overlap, TypeOK, FenceInv, LifeInv, SizedInv, ServeInv, Serving,
         BeginTick \/ EndReceive \/ TryAddOne \/ CloseBatch \/ Forward
           \/ \E u \in Uids : PostProcess(u) \/ FreeDeferred(u)
  PROVE  ServeInv'
<1>0. /\ LifeParts /\ Unasked /\ Counted /\ Replied /\ AckCount /\ Sized
      /\ Data = cur /\ deferred = {}
  BY NormalLoop DEF ServeInv, LifeInv, SizedInv
<1>1. ASSUME BeginTick \/ EndReceive PROVE ServeInv'
  <2>1. /\ pc \in {"loop", "recv"} /\ pc' \in {"wait", "recv", "admit", "crashed"}
        /\ UNCHANGED <<prompt, out, device, pending, running, cur, reply, acks, arrived, aborts, sent>>
    BY <1>1 DEF BeginTick, EndReceive, reqVars, pendVars, loopVars, fenceVars, envVars
  <2>2. cur.reqs = {}
    BY <2>1 DEF FenceInv, TickPhases, NoBatch
  <2>3. Unasked' /\ Counted' /\ Replied' /\ AckCount'
    BY <1>0, <2>1, <2>2 DEF Unasked, Counted, Replied, AckCount, RemainLen
  <2>. QED  BY <2>3 DEF ServeInv
<1>2. ASSUME TryAddOne PROVE ServeInv'
  <2> DEFINE v    == Head(pending)
             from == IF v \in chunk THEN cached[v] ELSE 0
             size == ChunkSize(prompt[v] - from)
             part == size < prompt[v] - from
  <2>1. /\ pc = "admit" /\ pc' = "admit" /\ pending /= <<>>
        /\ device' = [device EXCEPT ![v] = from + size]
        /\ pending' = pending \/ pending' = Tail(pending)
        /\ cur'.reqs = cur.reqs \union {v}
        /\ cur'.chunked = IF part THEN cur.chunked \union {v} ELSE cur.chunked
        /\ UNCHANGED <<prompt, out, running, reply, acks, arrived, aborts, sent>>
    BY <1>2 DEF TryAddOne, CanAdd, fenceVars, envVars
  <2>2. from \in Nat /\ prompt[v] \in Nat /\ budget \in Nat /\ v \in Uids /\ v \in Range(pending)
    <3>1. v \in Range(pending) /\ v \in Uids
      <4>1. v \in Range(pending)
        BY <2>1, TailKeeps DEF TypeOK, FenceInv, PendingOnce
      <4>2. Range(pending) \subseteq arrived /\ arrived \subseteq Uids
        BY DEF TypeOK, FenceInv, PendingOnce
      <4>. QED  BY <4>1, <4>2
    <3>2. cached[v] \in Nat /\ prompt[v] \in Nat /\ budget \in Nat
      BY <3>1 DEF TypeOK
    <3>. QED  BY <3>1, <3>2
  <2>3. Range(Tail(pending)) \subseteq Range(pending)
    BY <2>1, TailKeeps DEF TypeOK, FenceInv, PendingOnce
  <2>4. ~part => from + size = prompt[v]
    BY <2>2 DEF ChunkSize
  <2>5. /\ \A u \in Uids : u /= v => device'[u] = device[u]
        /\ ~part => device'[v] = prompt[v]
    BY <2>1, <2>2, <2>4 DEF TypeOK
  <2>6. sent[v] = <<>> /\ v \notin running /\ running \subseteq Uids /\ cur.reqs \subseteq Uids
    BY <1>0, <2>2 DEF Unasked, LifeParts, Queued, TypeOK, Batches
  <2> HIDE DEF part, size, from, v
  <2>7. Unasked' /\ AckCount'
    BY <1>0, <2>1, <2>3 DEF Unasked, AckCount
  <2>8. reply = {}
    BY <2>1 DEF FenceInv, TickPhases
  <2>9. ASSUME NEW u \in cur'.reqs \ cur'.chunked PROVE device'[u] = prompt'[u] + Len(sent'[u])
    <3>1. CASE u = v
      <4>1. ~part /\ device'[v] = prompt[v]
        BY <2>1, <2>5, <2>9, <3>1
      <4>2. Len(sent[v]) = 0
        BY <2>6
      <4>. QED  BY <2>1, <2>2, <3>1, <4>1, <4>2
    <3>2. CASE u /= v
      <4>1. u \in cur.reqs \ cur.chunked
        BY <2>1, <2>9, <3>2
      <4>. QED  BY <1>0, <2>1, <2>5, <2>6, <3>2, <4>1 DEF Counted
    <3>. QED  BY <3>1, <3>2
  <2>10. Counted'
    BY <1>0, <2>1, <2>5, <2>6, <2>9 DEF Counted
  <2>11. Replied'
    BY <2>1, <2>8 DEF Replied
  <2>. QED  BY <2>7, <2>10, <2>11 DEF ServeInv
<1>3. ASSUME CloseBatch PROVE ServeInv'
  <2>1. /\ pc = "admit" /\ pc' = "forward"
        /\ cur' = cur \/ cur' = [reqs |-> running, chunked |-> {}]
        /\ UNCHANGED <<prompt, out, device, pending, running, reply, acks, arrived, aborts, sent>>
    BY <1>3 DEF CloseBatch, reqVars, pendVars, fenceVars, envVars
  <2>2. reply = {}
    BY <2>1 DEF FenceInv, TickPhases
  <2>3. Unasked' /\ Counted' /\ Replied' /\ AckCount'
    BY <1>0, <2>1, <2>2 DEF Unasked, Counted, Replied, AckCount
  <2>. QED  BY <2>3 DEF ServeInv
<1>4. ASSUME Forward PROVE ServeInv'
  <2>1. pc = "forward" /\ UNCHANGED <<prompt, out, pending, cur, reply, acks, arrived, aborts, sent>>
    BY <1>4 DEF Forward, pendVars, fenceVars, envVars
  <2>2. reply = {} /\ Unasked' /\ AckCount'
    BY <1>0, <2>1 DEF FenceInv, TickPhases, Unasked, AckCount
  <2>3. CASE pc' = "crashed"
    BY <2>2, <2>3 DEF ServeInv, Serving
  <2>4. CASE pc' /= "crashed"
    <3>1. /\ pc' = "post" /\ todo' = Data.reqs
          /\ device' = [u \in Uids |-> IF u \in cur.reqs THEN device[u] + 1 ELSE device[u]]
          /\ running' = {u \in running \union cur.reqs : Decodable(u)}
      BY <1>4, <2>4 DEF Forward
    <3>2. running \subseteq Uids /\ cur.reqs \subseteq Uids
      BY DEF TypeOK, Batches
    <3>3. ASSUME NEW u \in running', u \notin cur'.reqs
          PROVE  device'[u] = prompt'[u] + Len(sent'[u])
      BY <1>0, <2>1, <3>1, <3>2, <3>3 DEF Counted
    <3>4. ASSUME NEW u \in cur'.reqs \ cur'.chunked
          PROVE  /\ device'[u] = prompt'[u] + Len(sent'[u]) + 1
                 /\ device'[u] <= prompt'[u] + out'[u]
      <4>1. u \in cur.reqs \ cur.chunked /\ u \in Uids
        BY <2>1, <3>2, <3>4
      <4>2. device'[u] = device[u] + 1
        BY <3>1, <4>1
      <4>3. device[u] = prompt[u] + Len(sent[u]) /\ device[u] < prompt[u] + out[u]
        BY <1>0, <2>1, <4>1 DEF Counted, Sized
      <4>4. prompt[u] \in Nat /\ out[u] \in Nat /\ Len(sent[u]) \in Nat /\ device[u] \in Nat
        BY <4>1, LogType DEF TypeOK
      <4>. QED  BY <2>1, <4>2, <4>3, <4>4
    <3>5. Counted'
      BY <3>1, <3>3, <3>4 DEF Counted
    <3>6. Replied'
      BY <1>0, <2>1, <2>2, <3>1 DEF Replied
    <3>. QED  BY <2>2, <3>5, <3>6 DEF ServeInv
  <2>. QED  BY <2>3, <2>4
<1>5. ASSUME NEW v \in Uids, PostProcess(v) PROVE ServeInv'
  <2>1. /\ pc = "post" /\ pc' = pc /\ v \in todo /\ todo' = todo \ {v} /\ running' \subseteq running
        /\ UNCHANGED <<prompt, out, device, pending, cur, acks, arrived, aborts, sent>>
    BY <1>5 DEF PostProcess, RemoveRunning, reqVars, pendVars, fenceVars, envVars
  <2>2. Unasked' /\ Counted' /\ AckCount'
    BY <1>0, <2>1 DEF Unasked, Counted, AckCount
  <2>3. CASE v \in cur.chunked
    <3>1. reply' = reply
      BY <1>0, <1>5, <2>3 DEF PostProcess, Skipped
    <3>2. Replied'
      BY <1>0, <2>1, <2>3, <3>1 DEF Replied, RemainLen
    <3>. QED  BY <2>2, <3>2 DEF ServeInv
  <2>4. CASE v \notin cur.chunked
    <3>1. PICK stops \in BOOLEAN :
            reply' = reply \union {[uid |-> v, finished |-> Ends(v, stops)]}
      BY <1>0, <1>5, <2>4 DEF PostProcess, Skipped
    <3>2. Ends(v, stops) \in BOOLEAN /\ (~Ends(v, stops) => RemainLen(v) > 0)
      <4>1. RemainLen(v) \in Int
        BY DEF RemainLen, TypeOK
      <4>. QED  BY <4>1 DEF Ends
    <3>3. \A u \in Uids : RemainLen(u)' = RemainLen(u)
      BY <2>1 DEF RemainLen
    <3> DEFINE r == [uid |-> v, finished |-> Ends(v, stops)]
    <3>4. r.uid = v /\ r.finished = Ends(v, stops) /\ reply \subseteq reply' /\ r \in reply'
      BY <3>1
    <3>5. \A q \in reply' : q.uid \notin cur'.chunked /\ (~q.finished => RemainLen(q.uid)' > 0)
      <4>1. ASSUME NEW q \in reply
            PROVE  q.uid \notin cur'.chunked /\ (~q.finished => RemainLen(q.uid)' > 0)
        <5>1. q.uid \in Uids
          BY DEF TypeOK
        <5>. QED  BY <1>0, <2>1, <3>3, <5>1 DEF Replied
      <4>2. r.uid \notin cur'.chunked /\ (~r.finished => RemainLen(r.uid)' > 0)
        BY <2>1, <2>4, <3>2, <3>3, <3>4
      <4>. QED  BY <3>1, <4>1, <4>2
    <3>6. \A u \in cur'.reqs \ (todo' \union cur'.chunked) :
            \E f \in BOOLEAN : [uid |-> u, finished |-> f] \in reply'
      BY <1>0, <2>1, <3>2, <3>4 DEF Replied
    <3>7. Replied'
      BY <3>5, <3>6 DEF Replied
    <3>. QED  BY <2>2, <3>7 DEF ServeInv
  <2>. QED  BY <2>3, <2>4
<1>6. ASSUME NEW v \in Uids, FreeDeferred(v) PROVE FALSE
  BY <1>0, <1>6 DEF FreeDeferred, LifeParts, Deferring
<1>. QED
  BY <1>1, <1>2, <1>3, <1>4, <1>5, <1>6

LEMMA ServeInductive ==
  ~Overlap => (TypeOK /\ FenceInv /\ LifeInv /\ SizedInv /\ TrailInv /\ ServeInv /\ [Next]_vars
                 => ServeInv')
<1> SUFFICES ASSUME ~Overlap, TypeOK, FenceInv, LifeInv, SizedInv, TrailInv, ServeInv,
                    [Next]_vars
             PROVE  ServeInv'
  OBVIOUS
<1>1. CASE Arrival
  BY <1>1, ServeReceive
<1>2. CASE SendResult \/ FlushAcks
  BY <1>2, ServeSend, ServeFlush
<1>3. CASE BeginTick \/ EndReceive \/ TryAddOne \/ CloseBatch \/ Forward
             \/ \E u \in Uids : PostProcess(u) \/ FreeDeferred(u)
  <2>1. Serving
    BY <1>3 DEF BeginTick, EndReceive, TryAddOne, CloseBatch, Forward, PostProcess,
                FreeDeferred, Serving
  <2>. QED  BY <1>3, <2>1, ServeStep
<1>4. CASE DrainEnd \/ \E u \in Uids : DrainOne(u)
  <2>1. UNCHANGED <<sent, acks, aborts>> /\ ~Serving'
    BY <1>4 DEF DrainEnd, DrainOne, fenceVars, envVars, Serving
  <2>. QED  BY <2>1 DEF ServeInv, AckCount
<1>5. CASE UNCHANGED vars
  <2>1. UNCHANGED <<pc, prompt, out, device, pending, running, cur, todo, reply, acks, arrived,
                    aborts, sent>>
    BY <1>5 DEF vars, reqVars, pendVars, loopVars, fenceVars, envVars
  <2>. QED
    BY <2>1 DEF ServeInv, AckCount, Serving, Unasked, Counted, Replied, RemainLen
<1>. QED
  BY <1>1, <1>2, <1>3, <1>4, <1>5 DEF Next, Step, Idle

-----------------------------------------------------------------------------
(* Each step of normal_loop is one of the service, or changes nothing a    *)
(* client sees.                                                            *)

LEMMA AskStep ==
  ASSUME TypeOK, TypeOK', NEW u \in Uids, HandleUser(u) PROVE Service!Ask(u)
<1>1. /\ u \notin arrived /\ arrived' = arrived \union {u} /\ UNCHANGED <<aborts, sent>>
      /\ out' = out \/ \E n : out' = [out EXCEPT ![u] = n]
  BY DEF HandleUser
<1>2. out \in [Uids -> Nat] /\ out' \in [Uids -> Nat]
  BY DEF TypeOK
<1>3. out' = [out EXCEPT ![u] = out'[u]]
  BY <1>1, <1>2
<1>. QED
  BY <1>1, <1>2, <1>3 DEF Service!Ask

LEMMA ServeImplements ==
  ASSUME ~Overlap, TypeOK, TypeOK', FenceInv, LifeInv, TrailInv, ServeInv, SendResult
  PROVE  Service!Serve
<1>1. DOMAIN sent' = Uids /\ UNCHANGED <<arrived, out, aborts>>
  BY DEF SendResult, reqVars, TypeOK
<1>2. ASSUME NEW u \in Uids PROVE \E a \in Service!Answers(u) : sent'[u] = sent[u] \o a
  <2>0. sent[u] \in Seq(Kinds)
    BY LogType
  <2>1. CASE u \notin cur.reqs \ cur.chunked
    <3>1. sent'[u] = sent[u] \o <<>>
      BY <2>0, <2>1, ServeOne, ConcatEmptySeq
    <3>2. <<>> \in Service!Answers(u)
      BY DEF Service!Answers
    <3>. QED  BY <3>1, <3>2
  <2>2. CASE u \in cur.reqs \ cur.chunked
    <3>1. /\ aborts[u] = 0 /\ ~Closed(u)
          /\ device[u] = prompt[u] + Len(sent[u]) + 1 /\ device[u] <= prompt[u] + out[u]
      BY <2>2, ServeOne
    <3>2. PICK x \in {"token", "final"} :
            sent'[u] = sent[u] \o <<x>> /\ (x = "token" => RemainLen(u) > 0)
      BY <2>2, ServeOne
    <3>3. \A i \in DOMAIN sent[u] : sent[u][i] = "token"
      <4> SUFFICES ASSUME NEW i \in DOMAIN sent[u] PROVE sent[u][i] = "token"
        OBVIOUS
      <4>1. sent[u][i] \in Kinds /\ sent[u][i] \in Range(sent[u])
        BY <2>0 DEF Range
      <4>2. sent[u][i] /= "ack"
        <5>1. <<>> \in Seq(Kinds)
          OBVIOUS
        <5>2. IsFiniteSet(AckPlaces(sent[u])) /\ Cardinality(AckPlaces(sent[u])) \in Nat
          BY <2>0, <5>1, AckPlacesAdded
        <5>3. Cardinality(AckPlaces(sent[u])) + acks[u] <= aborts[u] /\ acks[u] \in Nat
          BY DEF ServeInv, AckCount, TypeOK
        <5>4. Cardinality(AckPlaces(sent[u])) = 0
          BY <3>1, <5>2, <5>3
        <5>5. AckPlaces(sent[u]) = {}
          BY <5>2, <5>4, FS_EmptySet
        <5>. QED  BY <5>5 DEF AckPlaces
      <4>. QED  BY <3>1, <4>1, <4>2 DEF Kinds, Closed
    <3>4. Service!Open(u)
      BY <3>1, <3>3 DEF Service!Open
    <3>5. prompt[u] \in Nat /\ out[u] \in Nat /\ Len(sent[u]) \in Nat
      BY <2>0 DEF TypeOK
    <3>6. ~(Len(sent[u]) >= out[u]) /\ (x = "token" => Len(sent[u]) + 1 /= out[u])
      BY <3>1, <3>2, <3>5 DEF RemainLen
    <3>7. <<x>> \in Service!Answers(u)
      BY <3>2, <3>4, <3>6 DEF Service!Answers
    <3>. QED  BY <3>2, <3>7
  <2>. QED  BY <2>1, <2>2
<1>. QED
  BY <1>1, <1>2 DEF Service!Serve

LEMMA AcknowledgeImplements ==
  ASSUME TypeOK, ServeInv, FlushAcks PROVE Service!Acknowledge
<1>1. DOMAIN sent' = Uids /\ UNCHANGED <<arrived, out, aborts>>
  BY DEF FlushAcks, reqVars
<1>2. ASSUME NEW u \in Uids
      PROVE  LET n == Len(sent'[u]) - Len(sent[u])
             IN  /\ n >= 0 /\ Service!Acks(u) + n <= aborts[u]
                 /\ sent'[u] = sent[u] \o [i \in 1 .. n |-> "ack"]
  <2> DEFINE m == [i \in 1 .. acks[u] |-> "ack"]
             s == sent[u]
  <2>1. s \in Seq(Kinds) /\ m \in Seq(Kinds) /\ Len(m) = acks[u] /\ acks[u] \in Nat
    BY LogType DEF TypeOK, Kinds
  <2>2. sent'[u] = s \o m
    BY DEF FlushAcks
  <2>3. Len(s \o m) = Len(s) + Len(m) /\ Len(s) \in Nat
    <3> HIDE DEF m, s
    <3>. QED  BY <2>1, Joined DEF Join
  <2>4. Len(sent'[u]) - Len(sent[u]) = acks[u]
    BY <2>1, <2>2, <2>3
  <2>5. Service!Acks(u) + acks[u] <= aborts[u]
    <3>1. Service!Acks(u) = Cardinality(AckPlaces(sent[u]))
      BY DEF AckPlaces, Service!Acks, Service!Cardinality, Cardinality
    <3>. QED  BY <3>1 DEF ServeInv, AckCount
  <2>. QED  BY <2>1, <2>2, <2>4, <2>5
<1>. QED
  BY <1>1, <1>2 DEF Service!Acknowledge

(* Everything else is no step of the service. *)
LEMMA StutterStep ==
  ASSUME [Next]_vars, ~SendResult, ~FlushAcks,
         \A u \in Uids : ~HandleUser(u) /\ ~HandleAbort(u)
  PROVE  UNCHANGED Service!vars
<1>1. sent' = sent
  BY OnlyTickEndsSend
<1>2. UNCHANGED <<arrived, out, aborts>>
  <2>1. ASSUME NEW u \in Uids, PostProcess(u) \/ FreeDeferred(u) \/ DrainOne(u)
        PROVE  UNCHANGED <<arrived, out, aborts>>
    BY <2>1 DEF PostProcess, FreeDeferred, DrainOne, reqVars, envVars
  <2>2. CASE HandleExit \/ BeginTick \/ EndReceive \/ TryAddOne
    BY <2>2 DEF HandleExit, BeginTick, EndReceive, TryAddOne, reqVars, envVars
  <2>3. CASE CloseBatch \/ Forward \/ DrainEnd
    BY <2>3 DEF CloseBatch, Forward, DrainEnd, reqVars, envVars
  <2>4. CASE UNCHANGED vars
    BY <2>4 DEF vars, reqVars, envVars
  <2>. QED  BY <2>1, <2>2, <2>3, <2>4 DEF Next, Arrival, Step, Idle
<1>. QED
  BY <1>1, <1>2 DEF Service!vars

(* What the clients of normal_loop see is the abstract service: one token after
   another, the last one marked and none beyond the length agreed, nothing but
   acknowledgements after an abort, never more of them than abort messages. *)
THEOREM ServiceCorrect == ~Overlap => (Spec => ImplementsService)
<1> SUFFICES ASSUME ~Overlap PROVE Spec => ImplementsService
  OBVIOUS
<1>1. Init => Service!Init
  BY DEF Init, Service!Init
<1>2. TypeOK /\ TypeOK' /\ FenceInv /\ LifeInv /\ TrailInv /\ ServeInv /\ [Next]_vars
        => [Service!Next]_(Service!vars)
  <2> SUFFICES ASSUME TypeOK, TypeOK', FenceInv, LifeInv, TrailInv, ServeInv, [Next]_vars
               PROVE  [Service!Next]_(Service!vars)
    OBVIOUS
  <2>1. ASSUME NEW u \in Uids, HandleUser(u) PROVE Service!Next
    BY <2>1, AskStep DEF Service!Next
  <2>2. ASSUME NEW u \in Uids, HandleAbort(u) PROVE Service!Next
    <3>1. Service!Abort(u)
      BY <2>2 DEF HandleAbort, reqVars, Service!Abort
    <3>. QED  BY <3>1 DEF Service!Next
  <2>3. CASE SendResult
    BY <2>3, ServeImplements DEF Service!Next
  <2>4. CASE FlushAcks
    BY <2>4, AcknowledgeImplements DEF Service!Next
  <2>. QED
    BY <2>1, <2>2, <2>3, <2>4, StutterStep
<1>3. ~Overlap
  OBVIOUS
<1>. QED
  BY <1>1, <1>2, <1>3, HoldCorrect, SizedInit, SizedInductive, TrailInit, TrailInductive,
     ServeInit, ServeInductive, PTL DEF Spec, ImplementsService, Service!Spec

=============================================================================
