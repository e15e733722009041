---------------------------- MODULE CacheProofs ----------------------------
(***************************************************************************)
(* Proofs about CacheManager, for any requests, prompts, page size and     *)
(* number of pages, in either loop.                                        *)
(***************************************************************************)
EXTENDS CacheProperties, RadixProofs

-----------------------------------------------------------------------------
(* Who is where.  The invariant behind every proof about the cache: a       *)
(* request is released once, and from then on nothing relies on it.         *)

Queued == Range(pending)
InCur  == Range(cur.reqs)
InLast == Range(last.reqs)
InTodo == Range(todo)

IsBatch(b) ==
  /\ DOMAIN b = {"reqs", "prefill", "partial", "token"}
  /\ b.reqs \in Seq(Reqs) /\ IsInjective(b.reqs) /\ b.partial \subseteq Range(b.reqs)

Lists ==
  /\ pending \in Seq(Reqs) /\ IsInjective(pending)
  /\ todo \in Seq(Reqs) /\ IsInjective(todo)
  /\ IsBatch(cur) /\ IsBatch(last)

Fields ==
  /\ ids \in [Reqs -> Seq(Tokens)]
  /\ limit \in [Reqs -> Nat] /\ cached \in [Reqs -> Nat] /\ device \in [Reqs -> Nat]
  /\ DOMAIN row = Reqs /\ DOMAIN handle = Reqs /\ budget \in Nat

\* The pending list, the chunk and the running set
Members ==
  /\ arrived \subseteq Reqs /\ live \subseteq arrived /\ Queued \subseteq arrived
  /\ chunk \subseteq live /\ running \subseteq live
  /\ Queued \intersect live = chunk /\ chunk \intersect running = {}
  /\ InCur \subseteq arrived /\ InCur \intersect Queued \subseteq chunk \intersect cur.partial
  /\ InLast \subseteq arrived /\ InLast \intersect Queued \subseteq chunk \intersect last.partial

\* The batches and what is left of them to post-process
Phases ==
  /\ finished \subseteq InLast \ live
  /\ ~Overlap => last = NoBatch
  /\ InTodo \subseteq live \union finished
  /\ InTodo \subseteq IF Overlap THEN InLast ELSE InCur
  /\ pc \in {"loop", "wait", "recv"} => cur = NoBatch
  /\ pc \in {"admit", "forward"} => InCur \subseteq live /\ cur.partial \subseteq chunk
  /\ pc = "admit" /\ cur.partial /= {} => budget = 0
  /\ pc = "post" /\ Overlap => InCur \subseteq live \union (InLast \ last.partial)
  /\ pc \in {"loop", "wait", "recv", "admit", "forward"} =>
       todo = <<>> /\ InLast \subseteq live \union finished

\* Aborted requests of the batch in flight wait for it, and only there.
Waiting ==
  /\ deferred \subseteq InLast /\ deferred \subseteq live
  /\ deferred \intersect (Queued \union running \union InCur) = {}

\* What keeps a request: a list, the batch to be run, or one that will tell
\* that it has reached its limit.
Kept(r) ==
  \/ r \in chunk \/ r \in running \/ r \in deferred
  \/ pc \in {"admit", "forward"} /\ r \in InCur
  \/ /\ limit[r] <= device[r]
     /\ \/ pc = "post" /\ r \in InTodo \ Data.partial
        \/ pc = "post" /\ Overlap /\ r \in InCur \ cur.partial
        \/ pc /= "post" /\ r \in InLast \ last.partial

AllKept ==
  /\ \A r \in running : device[r] < limit[r]
  /\ pc \notin {"crashed", "failed"} => \A r \in live : Kept(r)

LifeInv == Lists /\ Fields /\ Members /\ Phases /\ Waiting /\ AllKept

\* The tokens the host has not appended to the text of a request yet
Lag(r) == (IF r \in Unseen \union deferred THEN 1 ELSE 0)
          + (IF pc = "post" /\ Overlap /\ r \in InCur \ cur.partial THEN 1 ELSE 0)

Sampled(b) == b.token \in [Range(b.reqs) \ b.partial -> Tokens]

LensInv ==
  /\ \A r \in live : cached[r] < device[r] /\ device[r] <= Len(ids[r]) + Lag(r)
  /\ \A r \in Queued : ids[r] /= <<>>
  /\ pc \in {"admit", "forward"} => \A r \in cur.partial : device[r] < Len(ids[r])
  /\ Sampled(last) /\ (pc = "post" => Sampled(cur))

\* The tree, and what is held of it
HeldInv == IsTree(tree, Tokens) /\ Counted(tree, live, handle)

CacheInv == LifeInv /\ LensInv /\ HeldInv

-----------------------------------------------------------------------------
(* Who is where: the steps of a tick up to its batch.                       *)

LEMMA NoBatchIs == IsBatch(NoBatch) /\ Range(NoBatch.reqs) = {} /\ NoBatch.partial = {} /\ Sampled(NoBatch)
<1>1. NoBatch.reqs = <<>> /\ NoBatch.partial = {} /\ NoBatch.token = <<>>
      /\ DOMAIN NoBatch = {"reqs", "prefill", "partial", "token"}
  BY DEF NoBatch
<1>2. Range(NoBatch.reqs) = {}
  BY <1>1, EmptyList
<1>3. <<>> \in [{} -> Tokens]
  OBVIOUS
<1>. QED
  BY <1>1, <1>2, <1>3, EmptyList DEF IsBatch, Sampled

LEMMA LifeInit == Init => LifeInv
<1> SUFFICES ASSUME Init PROVE LifeInv
  OBVIOUS
<1>1. Queued = {} /\ InTodo = {} /\ InCur = {} /\ InLast = {} /\ IsBatch(cur) /\ IsBatch(last)
  BY EmptyList, NoBatchIs DEF Init, Queued, InTodo, InCur, InLast
<1>2. Lists
  BY <1>1, EmptyList DEF Init, Lists
<1>3. Fields
  BY DEF Init, Fields
<1>4. Members /\ Phases /\ Waiting /\ AllKept
  BY <1>1 DEF Init, Members, Phases, Waiting, AllKept
<1>. QED
  BY <1>2, <1>3, <1>4 DEF LifeInv

LEMMA LifeIdle == ASSUME LifeInv, UNCHANGED vars PROVE LifeInv'
BY DEF vars, cacheVars, reqVars, adder, batchVars, LifeInv, Lists, Fields, Members, Phases, Waiting,
       AllKept, Kept, Queued, InTodo, InCur, InLast, IsBatch, Data

LEMMA LifeStartTick == ASSUME LifeInv, StartTick PROVE LifeInv'
<1>1. /\ pc = "loop" /\ pc' \in {"recv", "wait", "crashed"}
      /\ UNCHANGED <<tree, free, kv, arrived, pending, chunk, running, live, ids, limit, cached, device,
                     row, handle, budget, reserved, cur, last, finished, deferred, todo>>
  BY DEF StartTick, cacheVars, reqVars, adder, batchVars
<1>2. UNCHANGED <<Queued, InTodo, InCur, InLast>>
  BY <1>1 DEF Queued, InTodo, InCur, InLast
<1>3. Lists' /\ Fields'
  BY <1>1 DEF LifeInv, Lists, Fields, IsBatch
<1>4. Members' /\ Waiting'
  BY <1>1, <1>2 DEF LifeInv, Members, Waiting
<1>5. Phases'
  BY <1>1, <1>2 DEF LifeInv, Phases
<1>6. AllKept'
  BY <1>1, <1>2 DEF LifeInv, AllKept, Kept
<1>. QED
  BY <1>3, <1>4, <1>5, <1>6 DEF LifeInv

LEMMA LifeHandleUser == ASSUME CacheAssumption, LifeInv, NEW r \in Reqs, HandleUser(r) PROVE LifeInv'
<1>1. /\ pc \in {"wait", "recv"} /\ pc' = "recv" /\ r \notin arrived
      /\ arrived' = arrived \union {r} /\ pending' = Append(pending, r)
      /\ UNCHANGED <<tree, free, kv, chunk, running, live, cached, device,
                     row, handle, budget, reserved, cur, last, finished, deferred, todo>>
  BY DEF HandleUser, Receiving, cacheVars, reqVars, adder, batchVars
<1>a. PICK p \in Prompts, m \in OutLens : ids' = [ids EXCEPT ![r] = p] /\ limit' = [limit EXCEPT ![r] = Len(p) + m]
  BY DEF HandleUser
<1>2. UNCHANGED <<InTodo, InCur, InLast>>
  BY <1>1 DEF InTodo, InCur, InLast
<1>b. r \notin Queued
  BY <1>1 DEF LifeInv, Members
<1>3. pending' \in Seq(Reqs) /\ IsInjective(pending') /\ Queued' = Queued \union {r}
  BY <1>1, <1>b, AppendOnce DEF LifeInv, Lists, Queued
<1>4. Lists'
  BY <1>1, <1>3 DEF LifeInv, Lists, IsBatch
<1>5. Fields'
  <2>1. p \in Seq(Tokens) /\ m \in Nat
    BY DEF CacheAssumption
  <2>. QED  BY <1>1, <1>a, <2>1 DEF LifeInv, Fields
<1>6. Members' /\ Waiting'
  BY <1>1, <1>2, <1>3 DEF LifeInv, Members, Waiting
<1>7. Phases'
  BY <1>1, <1>2 DEF LifeInv, Phases
<1>8. AllKept'
  <2>1. \A q \in live : q \in Reqs /\ q /= r
    BY <1>1 DEF LifeInv, Members
  <2>2. \A q \in live : limit'[q] = limit[q]
    BY <1>a, <2>1 DEF LifeInv, Fields
  <2>. QED  BY <1>1, <1>2, <2>2 DEF LifeInv, AllKept, Kept, Members
<1>. QED
  BY <1>4, <1>5, <1>6, <1>7, <1>8 DEF LifeInv

LEMMA LifeEndReceive == ASSUME CacheAssumption, LifeInv, EndReceive PROVE LifeInv'
<1>1. /\ pc = "recv" /\ pc' = "admit" /\ budget' = PrefillBudget /\ budget' \in Nat
      /\ UNCHANGED <<tree, free, kv, arrived, pending, chunk, running, live, ids, limit, cached, device,
                     row, handle, cur, last, finished, deferred, todo>>
  BY DEF EndReceive, cacheVars, reqVars, batchVars, CacheAssumption
<1>2. UNCHANGED <<Queued, InTodo, InCur, InLast>>
  BY <1>1 DEF Queued, InTodo, InCur, InLast
<1>c. cur = NoBatch /\ InCur = {} /\ cur.partial = {}
  BY <1>1, NoBatchIs DEF LifeInv, Phases, InCur
<1>3. Lists' /\ Fields'
  BY <1>1 DEF LifeInv, Lists, Fields, IsBatch
<1>4. Members' /\ Waiting'
  BY <1>1, <1>2 DEF LifeInv, Members, Waiting
<1>5. Phases'
  BY <1>1, <1>2, <1>c DEF LifeInv, Phases
<1>6. AllKept'
  BY <1>1, <1>2 DEF LifeInv, AllKept, Kept
<1>. QED
  BY <1>3, <1>4, <1>5, <1>6 DEF LifeInv

(* What freeing a request leaves of the others: everything. *)
Others(gone) ==
  \A q \in Reqs \ gone :
    /\ ids'[q] = ids[q] /\ limit'[q] = limit[q] /\ cached'[q] = cached[q]
    /\ device'[q] = device[q] /\ row'[q] = row[q] /\ handle'[q] = handle[q]

LEMMA ForgetIs ==
  ASSUME LifeInv, NEW gone, Forget(gone), budget' = budget
  PROVE  Fields' /\ Others(gone)
<1>1. /\ ids' = [r \in Reqs |-> IF r \in gone THEN <<>> ELSE ids[r]]
      /\ row' = [r \in Reqs |-> IF r \in gone THEN <<>> ELSE row[r]]
      /\ handle' = [r \in Reqs |-> IF r \in gone THEN Root ELSE handle[r]]
      /\ limit' = [r \in Reqs |-> IF r \in gone THEN 0 ELSE limit[r]]
      /\ cached' = [r \in Reqs |-> IF r \in gone THEN 0 ELSE cached[r]]
      /\ device' = [r \in Reqs |-> IF r \in gone THEN 0 ELSE device[r]]
  BY DEF Forget
<1>2. Others(gone)
  BY <1>1 DEF Others
<1>3. <<>> \in Seq(Tokens)
  OBVIOUS
<1>4. ids' \in [Reqs -> Seq(Tokens)]
  BY <1>1, <1>3 DEF LifeInv, Fields
<1>5. limit' \in [Reqs -> Nat] /\ cached' \in [Reqs -> Nat] /\ device' \in [Reqs -> Nat]
  BY <1>1 DEF LifeInv, Fields
<1>6. DOMAIN row' = Reqs /\ DOMAIN handle' = Reqs
  BY <1>1
<1>. QED
  BY <1>2, <1>4, <1>5, <1>6 DEF LifeInv, Fields

LEMMA ReleaseIs ==
  ASSUME LifeInv, NEW r \in Reqs, NEW text \in Seq(Tokens), Release(r, text), budget' = budget
  PROVE  /\ live' = live \ {r} /\ Fields' /\ Others({r})
         /\ tree' = Unlock(InsertPrefix(tree, SubSeq(text, 1, cached[r]), row[r]).tree, handle[r])
<1>1. /\ live' = live \ {r}
      /\ tree' = Unlock(InsertPrefix(tree, SubSeq(text, 1, cached[r]), row[r]).tree, handle[r])
  BY DEF Release, CacheReq
<1>2. CASE Overlap /\ r \in InCur
  <2>1. ids' = [ids EXCEPT ![r] = text] /\ UNCHANGED <<limit, cached, device, row, handle>>
    BY <1>2 DEF Release, InCur
  <2>2. Fields' /\ Others({r})
    BY <2>1 DEF LifeInv, Fields, Others
  <2>. QED  BY <1>1, <2>2
<1>3. CASE ~(Overlap /\ r \in InCur)
  <2>1. Forget({r})
    BY <1>3 DEF Release, InCur
  <2>. QED  BY <1>1, <2>1, ForgetIs
<1>. QED
  BY <1>2, <1>3

LEMMA LifeHandleAbort == ASSUME LifeInv, NEW r \in Reqs, HandleAbort(r) PROVE LifeInv'
<1>1. /\ pc \in {"wait", "recv"} /\ pc' = "recv" /\ r \in arrived /\ r \notin InLast \intersect finished
      /\ RemovePending(r) /\ chunk' = chunk \ {r} /\ running' = running \ {r}
      /\ UNCHANGED <<kv, arrived, budget, reserved, cur, last, finished, todo>>
  BY DEF HandleAbort, Receiving, adder, InLast
<1>2. UNCHANGED <<InTodo, InCur, InLast>> /\ cur = NoBatch /\ InCur = {}
  BY <1>1, NoBatchIs DEF InTodo, InCur, InLast, LifeInv, Phases
<1>3. pending' \in Seq(Reqs) /\ IsInjective(pending') /\ Queued' = Queued \ {r}
  <2>1. CASE r \in Queued
    <3>1. PICK i \in DOMAIN pending : pending[i] = r /\ pending' = RemoveAt(pending, i)
      BY <1>1, <2>1 DEF RemovePending, Queued
    <3>. QED  BY <3>1, RemoveAtOnce DEF LifeInv, Lists, Queued
  <2>2. CASE r \notin Queued
    BY <1>1, <2>2 DEF RemovePending, Queued, LifeInv, Lists
  <2>. QED  BY <2>1, <2>2
<1>4. Lists'
  BY <1>1, <1>3 DEF LifeInv, Lists, IsBatch
<1>5. live \subseteq Reqs /\ running \subseteq Reqs
  BY DEF LifeInv, Members
<1>6. CASE r \in InLast
  <2>1. deferred' = deferred \union {r} /\ UNCHANGED <<tree, free, live, ids, limit, cached, device, row, handle>>
    BY <1>6 DEF HandleAbort, Fence, InLast, cacheVars, reqVars
  <2>2. r \in live
    BY <1>1, <1>6 DEF LifeInv, Phases
  <2>3. Fields'
    BY <1>1, <2>1 DEF LifeInv, Fields
  <2>4. Members' /\ Waiting'
    BY <1>1, <1>2, <1>3, <1>6, <2>1, <2>2 DEF LifeInv, Members, Waiting
  <2>5. Phases'
    BY <1>1, <1>2, <2>1 DEF LifeInv, Phases
  <2>6. AllKept'
    BY <1>1, <1>2, <2>1 DEF LifeInv, AllKept, Kept
  <2>. QED  BY <1>4, <2>3, <2>4, <2>5, <2>6 DEF LifeInv
<1>7. CASE r \notin InLast
  <2>1. deferred' = deferred
    BY <1>7 DEF HandleAbort, Fence, InLast
  <2>2. live' = live \ {r} /\ Fields' /\ Others({r})
    <3>1. CASE r \in chunk \union running
      <4>1. Release(r, ids[r]) /\ ids[r] \in Seq(Tokens)
        BY <1>7, <3>1 DEF HandleAbort, Fence, InLast, LifeInv, Fields
      <4>. QED  BY <1>1, <4>1, ReleaseIs
    <3>2. CASE r \notin chunk \union running
      <4>1. Forget({r}) /\ live' = live
        BY <1>7, <3>2 DEF HandleAbort, Fence, InLast
      <4>2. r \notin live
        BY <1>1, <1>2, <1>7, <3>2 DEF LifeInv, AllKept, Kept, Waiting
      <4>. QED  BY <1>1, <4>1, <4>2, ForgetIs
    <3>. QED  BY <3>1, <3>2
  <2>4. Members' /\ Waiting'
    BY <1>1, <1>2, <1>3, <1>7, <2>1, <2>2 DEF LifeInv, Members, Waiting
  <2>5. Phases'
    BY <1>1, <1>2, <1>7, <2>1, <2>2 DEF LifeInv, Phases
  <2>6. AllKept'
    <3>1. \A q \in Reqs \ {r} : limit'[q] = limit[q] /\ device'[q] = device[q]
      BY <2>2 DEF Others
    <3>2. \A q \in running' : device'[q] < limit'[q]
      BY <1>1, <1>5, <3>1 DEF LifeInv, AllKept
    <3>3. \A q \in live' : Kept(q)'
      BY <1>1, <1>2, <1>5, <2>1, <2>2, <3>1 DEF LifeInv, AllKept, Kept
    <3>. QED  BY <3>2, <3>3 DEF AllKept
  <2>. QED  BY <1>4, <2>2, <2>4, <2>5, <2>6 DEF LifeInv
<1>. QED
  BY <1>6, <1>7

-----------------------------------------------------------------------------
(* Who is where: the batch is put together.                                 *)

\* What _add_one_req makes of its request
Added(r, from, size, part) ==
  /\ budget' = budget - size /\ (part => size = budget)
  /\ cached' = [cached EXCEPT ![r] = from] /\ device' = [device EXCEPT ![r] = from + size]
  /\ DOMAIN cur' = DOMAIN cur /\ cur'.reqs = Append(cur.reqs, r) /\ cur'.token = cur.token
  /\ cur'.partial = IF part THEN cur.partial \union {r} ELSE cur.partial
  /\ chunk' = IF part THEN chunk \union {r} ELSE chunk \ {r}
  /\ pending' = IF part THEN pending ELSE Tail(pending)

LEMMA AddedIs ==
  ASSUME LifeInv, NEW r \in Reqs, NEW from \in Nat, from < Len(ids[r]), budget > 0, AddOneReq(r, from)
  PROVE  \E size \in 1 .. budget, part \in BOOLEAN :
           /\ Added(r, from, size, part)
           /\ from + size <= Len(ids[r]) /\ (part => from + size < Len(ids[r]))
<1> DEFINE remain == Len(ids[r]) - from
           size == IF budget < remain THEN budget ELSE remain
           part == size < remain
<1>1. budget \in Nat /\ Len(ids[r]) \in Nat
  BY DEF LifeInv, Fields
<1>2. remain \in Nat \ {0} /\ from + remain = Len(ids[r])
  BY <1>1
<1>3. /\ budget' = budget - size
      /\ cached' = [cached EXCEPT ![r] = from] /\ device' = [device EXCEPT ![r] = from + size]
      /\ cur' = [cur EXCEPT !.reqs = Append(@, r), !.prefill = TRUE,
                             !.partial = IF part THEN @ \union {r} ELSE @]
      /\ chunk' = IF part THEN chunk \union {r} ELSE chunk \ {r}
      /\ pending' = IF part THEN pending ELSE Tail(pending)
  BY DEF AddOneReq
<1>0. part \in BOOLEAN
  OBVIOUS
<1> HIDE DEF remain
<1>4. size \in 1 .. budget /\ (part => size = budget) /\ size <= remain
  BY <1>1, <1>2
<1>5. part => size < remain
  OBVIOUS
<1> HIDE DEF size, part
<1>6. from + size <= Len(ids[r]) /\ (part => from + size < Len(ids[r]))
  BY <1>1, <1>2, <1>4, <1>5
<1>7. DOMAIN cur = {"reqs", "prefill", "partial", "token"}
  BY DEF LifeInv, Lists, IsBatch
<1>8. /\ DOMAIN cur' = DOMAIN cur /\ cur'.reqs = Append(cur.reqs, r) /\ cur'.token = cur.token
      /\ cur'.partial = IF part THEN cur.partial \union {r} ELSE cur.partial
  BY <1>3, <1>7
<1>. QED
  BY <1>0, <1>3, <1>4, <1>6, <1>8 DEF Added

LEMMA LifeAdded ==
  ASSUME LifeInv, pc = "admit", pc' = pc, pending /= <<>>, budget > 0,
         NEW r, r = First, r \in live => r \in chunk, NEW from \in Nat, NEW size \in 1 .. budget,
         NEW part \in BOOLEAN, Added(r, from, size, part), live' = live \union {r},
         DOMAIN row' = Reqs, DOMAIN handle' = Reqs,
         UNCHANGED <<arrived, running, ids, limit, last, finished, deferred, todo>>
  PROVE  LifeInv' /\ r \in Reqs /\ r \in Queued /\ r \notin InCur /\ cur.partial = {}
<1>1. /\ r \in Reqs /\ r \in Queued /\ r \in arrived /\ r \notin running /\ budget \in Nat
      /\ Tail(pending) \in Seq(Reqs) /\ IsInjective(Tail(pending)) /\ Range(Tail(pending)) = Queued \ {r}
  BY TailOnce DEF First, LifeInv, Lists, Members, Queued, Fields
<1>2. cur.partial = {}
  BY <1>1 DEF LifeInv, Phases
<1>3. r \notin InCur
  BY <1>1, <1>2 DEF LifeInv, Members
<1>4. /\ cur'.reqs \in Seq(Reqs) /\ IsInjective(cur'.reqs) /\ InCur' = InCur \union {r}
  BY <1>1, <1>3, AppendOnce DEF Added, LifeInv, Lists, IsBatch, InCur
<1>5. cur'.partial = IF part THEN {r} ELSE {}
  BY <1>2 DEF Added
<1>6. /\ pending' \in Seq(Reqs) /\ IsInjective(pending')
      /\ Queued' = IF part THEN Queued ELSE Queued \ {r}
  <2>1. CASE part
    BY <2>1 DEF Added, LifeInv, Lists, Queued
  <2>2. CASE ~part
    BY <1>1, <2>2 DEF Added, LifeInv, Lists, Queued
  <2>. QED  BY <2>1, <2>2
<1>7. Lists'
  BY <1>4, <1>5, <1>6 DEF LifeInv, Lists, IsBatch, Added, InCur
<1>8. UNCHANGED <<InLast, InTodo>>
  BY DEF InLast, InTodo
<1>9. chunk' = IF part THEN chunk \union {r} ELSE chunk \ {r}
  BY DEF Added
<1>10. Fields'
  <2>1. budget' = budget - size /\ budget' \in Nat
    BY <1>1 DEF Added
  <2>2. cached' = [cached EXCEPT ![r] = from] /\ device' = [device EXCEPT ![r] = from + size] /\ from + size \in Nat
    BY DEF Added
  <2>. QED  BY <2>1, <2>2 DEF LifeInv, Fields
<1>11. Members'
  <2>1. arrived' \subseteq Reqs /\ live' \subseteq arrived' /\ chunk' \subseteq live' /\ running' \subseteq live'
    BY <1>1, <1>9 DEF LifeInv, Members
  <2>2. Queued' \subseteq arrived' /\ InCur' \subseteq arrived' /\ InLast' \subseteq arrived'
    BY <1>1, <1>4, <1>6, <1>8 DEF LifeInv, Members
  <2>3. Queued' \intersect live' = chunk' /\ chunk' \intersect running' = {}
    BY <1>1, <1>6, <1>9 DEF LifeInv, Members
  <2>4. InCur' \intersect Queued' \subseteq chunk' \intersect cur'.partial
    BY <1>1, <1>2, <1>4, <1>5, <1>6, <1>9 DEF LifeInv, Members
  <2>5. InLast' \intersect Queued' \subseteq chunk' \intersect last'.partial
    BY <1>6, <1>8, <1>9 DEF LifeInv, Members
  <2>. QED  BY <2>1, <2>2, <2>3, <2>4, <2>5 DEF Members
<1>12. Waiting'
  BY <1>1, <1>4, <1>6, <1>8 DEF LifeInv, Waiting, Members
<1>13. part => budget' = 0
  BY <1>1 DEF Added
<1>14. r \notin InLast \/ r \in chunk
  BY <1>1 DEF LifeInv, Members
<1>15. Phases'
  <2>1. finished' \subseteq InLast' \ live'
    BY <1>1, <1>8, <1>14 DEF LifeInv, Phases, Members
  <2>2. InTodo' \subseteq live' \union finished' /\ InTodo' \subseteq IF Overlap THEN InLast' ELSE InCur'
    BY <1>8, <1>4 DEF LifeInv, Phases
  <2>3. InCur' \subseteq live' /\ cur'.partial \subseteq chunk'
    BY <1>4, <1>5, <1>9 DEF LifeInv, Phases
  <2>4. cur'.partial /= {} => budget' = 0
    BY <1>5, <1>13
  <2>5. todo' = <<>> /\ InLast' \subseteq live' \union finished'
    BY <1>8 DEF LifeInv, Phases
  <2>6. (~Overlap => last' = NoBatch) /\ pc' = "admit"
    BY DEF LifeInv, Phases
  <2>. QED  BY <2>1, <2>2, <2>3, <2>4, <2>5, <2>6 DEF Phases
<1>16. AllKept'
  <2>1. \A q \in Reqs \ {r} : device'[q] = device[q]
    BY DEF Added, LifeInv, Fields
  <2>2. \A q \in running' : device'[q] < limit'[q]
    BY <1>1, <2>1 DEF LifeInv, AllKept, Members
  <2>3. ASSUME NEW q \in live' PROVE Kept(q)'
    <3>1. CASE q = r
      BY <1>4, <3>1 DEF Kept
    <3>2. CASE q /= r
      <4>1. q \in live /\ q \in Reqs /\ Kept(q) /\ device'[q] = device[q]
        BY <2>1, <2>3, <3>2 DEF LifeInv, AllKept, Members
      <4>. QED  BY <1>4, <1>8, <1>9, <3>2, <4>1 DEF Kept
    <3>. QED  BY <3>1, <3>2
  <2>. QED  BY <2>2, <2>3 DEF AllKept
<1>. QED
  BY <1>1, <1>2, <1>3, <1>7, <1>10, <1>11, <1>12, <1>15, <1>16 DEF LifeInv

(* A request waits for the rest of its prompt, and has one. *)
LEMMA ChunkRest ==
  ASSUME LifeInv, LensInv, pc = "admit", NEW r \in chunk
  PROVE  cached[r] \in Nat /\ cached[r] < Len(ids[r])
<1>1. r \in live /\ r \in Queued /\ r \in Reqs /\ r \notin deferred
  BY DEF LifeInv, Members, Waiting
<1>2. r \notin Range(last.reqs) \ (last.partial \union finished)
  BY <1>1 DEF LifeInv, Members, InLast
<1>3. Lag(r) = 0
  BY <1>1, <1>2 DEF Lag, Unseen
<1>4. cached[r] \in Nat /\ device[r] \in Nat /\ Len(ids[r]) \in Nat
  BY <1>1 DEF LifeInv, Fields
<1>. QED
  BY <1>1, <1>3, <1>4 DEF LensInv

(* What is matched is in the tree, and leaves a token to compute. *)
LEMMA MatchIs ==
  ASSUME CacheAssumption, LifeInv, IsTree(tree, Tokens), NEW r \in Reqs, ids[r] /= <<>>
  PROVE  /\ MatchReq(r) \in Seq(Tokens) /\ Aligned(MatchReq(r))
         /\ Len(MatchReq(r)) \in Nat /\ Len(MatchReq(r)) < Len(ids[r])
         /\ MatchReq(r) = Root \/ MatchReq(r) \in DOMAIN tree.page
         /\ IsPrefix(MatchReq(r), ids[r])
<1> DEFINE s == ids[r]
           f == Front(s)
<1>1. s \in Seq(Tokens) /\ s /= <<>>
  BY DEF LifeInv, Fields
<1>2. Len(s) \in Nat \ {0} /\ Len(s) - 1 \in 0 .. Len(s)
  BY <1>1, EmptySeq
<1>3. f = SubSeq(s, 1, Len(s) - 1)
  BY DEF Front
<1> HIDE DEF s, f
<1>4. f \in Seq(Tokens) /\ Len(f) = Len(s) - 1 /\ IsPrefix(f, s)
  BY <1>1, <1>2, <1>3, PrefixCut, ZenonT(40)
<1> DEFINE m == Matched(tree, f)
<1>5. m \in Seq(Tokens) /\ Aligned(m) /\ IsPrefix(m, f) /\ (m = Root \/ m \in DOMAIN tree.page)
  BY <1>4, MatchedIs DEF CacheAssumption
<1> HIDE DEF m
<1>6. Len(m) \in Nat /\ Len(m) <= Len(f)
  BY <1>4, <1>5, PrefixIs
<1>7. IsPrefix(m, s)
  BY <1>1, <1>4, <1>5, PrefixOrder
<1>8. MatchReq(r) = m
  BY DEF MatchReq, m, f, s
<1>9. Len(m) < Len(s)
  BY <1>2, <1>4, <1>6
<1>. QED
  BY <1>5, <1>6, <1>7, <1>8, <1>9 DEF s

LEMMA ContinueIs ==
  ASSUME CacheInv, Continue
  PROVE  \E size \in 1 .. budget, part \in BOOLEAN :
           /\ Added(First, cached[First], size, part) /\ First \in chunk /\ First \in Reqs
           /\ cached[First] + size <= Len(ids[First])
           /\ (part => cached[First] + size < Len(ids[First]))
<1>1. pc = "admit" /\ budget > 0 /\ First \in chunk /\ AddOneReq(First, cached[First])
  BY DEF Continue
<1>2. First \in Reqs
  BY <1>1 DEF CacheInv, LifeInv, Members
<1>3. cached[First] \in Nat /\ cached[First] < Len(ids[First])
  BY <1>1, ChunkRest DEF CacheInv
<1>4. LifeInv
  BY DEF CacheInv
<1>. QED
  BY <1>1, <1>2, <1>3, <1>4, AddedIs

LEMMA LifeContinue == ASSUME CacheInv, Continue PROVE LifeInv'
<1>1. PICK size \in 1 .. budget, part \in BOOLEAN : Added(First, cached[First], size, part)
  BY ContinueIs
<1>2. /\ pc = "admit" /\ pc' = pc /\ pending /= <<>> /\ budget > 0 /\ First \in chunk
      /\ UNCHANGED <<arrived, running, live, ids, limit, row, handle, last, finished, deferred, todo>>
  BY DEF Continue
<1>3. LifeInv /\ cached[First] \in Nat /\ live' = live \union {First} /\ DOMAIN row' = Reqs /\ DOMAIN handle' = Reqs
  BY <1>2, ChunkRest DEF CacheInv, LifeInv, Members, Fields
<1>. QED
  BY <1>1, <1>2, <1>3, LifeAdded

(* A new request starts from its match. *)
LEMMA AdmitIs ==
  ASSUME CacheAssumption, CacheInv, Admit
  PROVE  LET r == First  match == MatchReq(First)
         IN  /\ r \in Reqs /\ r \in Queued /\ r \notin chunk /\ r \notin live
             /\ tree' = Lock(Split(tree, match), match)
             /\ handle' = [handle EXCEPT ![r] = match]
             /\ row' = [row EXCEPT ![r] = [i \in 1 .. Len(match) \div PageSize |->
                                             tree.page[SubSeq(match, 1, i * PageSize)]]]
             /\ live' = live \union {r}
             /\ \E size \in 1 .. budget, part \in BOOLEAN :
                  /\ Added(r, Len(match), size, part)
                  /\ Len(match) + size <= Len(ids[r]) /\ (part => Len(match) + size < Len(ids[r]))
<1> DEFINE r == First
           match == MatchReq(First)
<1>1. /\ pc = "admit" /\ pending /= <<>> /\ budget > 0 /\ r \notin chunk
      /\ tree' = Lock(Split(tree, match), match)
      /\ handle' = [handle EXCEPT ![r] = match]
      /\ row' = [row EXCEPT ![r] = [i \in 1 .. Len(match) \div PageSize |->
                                      tree.page[SubSeq(match, 1, i * PageSize)]]]
      /\ live' = live \union {r} /\ AddOneReq(r, Len(match))
  BY DEF Admit, MayTry
<1>2. r \in Reqs /\ r \in Queued
  BY <1>1, TailOnce DEF First, CacheInv, LifeInv, Lists, Queued
<1>3. r \notin live
  BY <1>1, <1>2 DEF CacheInv, LifeInv, Members
<1>4. ids[r] /= <<>> /\ LifeInv /\ IsTree(tree, Tokens)
  BY <1>2 DEF CacheInv, LensInv, HeldInv
<1>5. Len(match) \in Nat /\ Len(match) < Len(ids[r])
  BY <1>2, <1>4, MatchIs
<1> HIDE DEF r, match
<1>6. \E size \in 1 .. budget, part \in BOOLEAN :
        /\ Added(r, Len(match), size, part)
        /\ Len(match) + size <= Len(ids[r]) /\ (part => Len(match) + size < Len(ids[r]))
  BY <1>1, <1>2, <1>4, <1>5, AddedIs
<1>. QED
  BY <1>1, <1>2, <1>3, <1>6 DEF r, match

LEMMA LifeAdmit == ASSUME CacheAssumption, CacheInv, Admit PROVE LifeInv'
<1>1. /\ First \in Reqs /\ First \in Queued /\ First \notin live /\ live' = live \union {First}
      /\ handle' = [handle EXCEPT ![First] = MatchReq(First)]
      /\ DOMAIN row' = DOMAIN row
  BY AdmitIs
<1>2. PICK size \in 1 .. budget, part \in BOOLEAN : Added(First, Len(MatchReq(First)), size, part)
  BY AdmitIs
<1>3. /\ pc = "admit" /\ pc' = pc /\ pending /= <<>> /\ budget > 0
      /\ UNCHANGED <<arrived, running, ids, limit, last, finished, deferred, todo>>
  BY DEF Admit, MayTry
<1>4. LifeInv /\ DOMAIN row' = Reqs /\ DOMAIN handle' = Reqs
  BY <1>1 DEF CacheInv, LifeInv, Fields
<1>5. Len(MatchReq(First)) \in Nat
  BY <1>1, <1>4, MatchIs DEF CacheInv, LensInv, HeldInv
<1>. QED
  BY <1>1, <1>2, <1>3, <1>4, <1>5, LifeAdded

LEMMA LifeCloseBatch == ASSUME CacheAssumption, CacheInv, CloseBatch PROVE LifeInv'
<1>1. /\ pc = "admit" /\ pc' = "forward"
      /\ UNCHANGED <<arrived, pending, chunk, running, live, ids, limit, cached, device,
                     row, handle, budget, reserved, last, finished, deferred, todo>>
  BY DEF CloseBatch, adder, reqVars
<1>2. UNCHANGED <<Queued, InTodo, InLast>> /\ LifeInv
  BY <1>1 DEF Queued, InTodo, InLast, CacheInv
<1>3. CASE cur' = cur
  <2>1. Lists' /\ Fields'
    BY <1>1, <1>2, <1>3 DEF LifeInv, Lists, Fields, IsBatch
  <2>2. InCur' = InCur
    BY <1>3 DEF InCur
  <2>3. Members' /\ Waiting'
    BY <1>1, <1>2, <1>3, <2>2 DEF LifeInv, Members, Waiting
  <2>4. Phases'
    BY <1>1, <1>2, <1>3, <2>2 DEF LifeInv, Phases
  <2>5. AllKept'
    BY <1>1, <1>2, <1>3, <2>2 DEF LifeInv, AllKept, Kept
  <2>. QED  BY <2>1, <2>3, <2>4, <2>5 DEF LifeInv
<1>4. CASE cur' /= cur
  <2>1. PICK order \in SetToSeqs(running) : cur' = [cur EXCEPT !.reqs = order]
    BY <1>4 DEF CloseBatch
  <2>2. cur.reqs = <<>> /\ InCur = {}
    BY <1>4, EmptyList DEF CloseBatch, InCur
  <2>3. DOMAIN cur = {"reqs", "prefill", "partial", "token"} /\ cur.partial = {}
    BY <1>2, <2>2 DEF LifeInv, Lists, IsBatch, InCur
  <2>4. DOMAIN cur' = DOMAIN cur /\ cur'.reqs = order /\ cur'.partial = {} /\ cur'.token = cur.token
    BY <2>1, <2>3
  <2>5. running \subseteq Reqs /\ IsFiniteSet(running)
    BY <1>2, FS_Subset DEF LifeInv, Members, CacheAssumption
  <2>6. order \in Seq(Reqs) /\ IsInjective(order) /\ Range(order) = running
    BY <2>5, OrderOnce
  <2>7. InCur' = running
    BY <2>4, <2>6 DEF InCur
  <2>8. Lists' /\ Fields'
    BY <1>1, <1>2, <2>3, <2>4, <2>6 DEF LifeInv, Lists, Fields, IsBatch
  <2>9. Members' /\ Waiting'
    BY <1>1, <1>2, <2>4, <2>7 DEF LifeInv, Members, Waiting
  <2>10. Phases'
    <3>1. Overlap \/ InTodo = {}
      BY <1>2, <2>2 DEF LifeInv, Phases
    <3>. QED  BY <1>1, <1>2, <2>4, <2>7, <3>1 DEF LifeInv, Phases, Members
  <2>11. AllKept'
    BY <1>1, <1>2, <2>2, <2>7 DEF LifeInv, AllKept, Kept
  <2>. QED  BY <2>8, <2>9, <2>10, <2>11 DEF LifeInv
<1>. QED
  BY <1>3, <1>4

-----------------------------------------------------------------------------
(* Who is where: the forward and what follows it.                           *)

\* A step that ends the process
LEMMA LifeStop ==
  ASSUME LifeInv, pc = "forward", pc' \in {"crashed", "failed"},
         UNCHANGED <<arrived, pending, chunk, running, live, ids, limit, cached, device,
                     row, handle, budget, cur, last, finished, deferred, todo>>
  PROVE  LifeInv'
<1>1. UNCHANGED <<Queued, InTodo, InCur, InLast>>
  BY DEF Queued, InTodo, InCur, InLast
<1>2. Lists' /\ Fields'
  BY DEF LifeInv, Lists, Fields, IsBatch
<1>3. Members' /\ Waiting'
  BY <1>1 DEF LifeInv, Members, Waiting
<1>4. Phases'
  BY <1>1 DEF LifeInv, Phases
<1>5. AllKept'
  BY DEF LifeInv, AllKept
<1>. QED
  BY <1>2, <1>3, <1>4, <1>5 DEF LifeInv

LEMMA LifeFailedPrepare == ASSUME LifeInv, FailedPrepare PROVE LifeInv'
BY LifeStop DEF FailedPrepare, adder, reqVars, batchVars

\* What a forward that gets its pages does
Launches ==
  /\ pc' = "post"
  /\ \E evicted \in Evictions(Needed) : Allocate(Needed, evicted)
  /\ \E token \in [Sampling -> Tokens] : cur' = [cur EXCEPT !.token = token]
  /\ todo' = IF Overlap THEN last.reqs ELSE cur.reqs
  /\ cached' = [r \in Reqs |-> IF r \in InCur THEN device[r] ELSE cached[r]]
  /\ device' = [r \in Reqs |-> IF r \in InCur THEN device[r] + 1 ELSE device[r]]
  /\ running' = {r \in running \union InCur : r \notin cur.partial /\ limit[r] - device'[r] > 0}

LEMMA ForwardIs ==
  ASSUME Forward
  PROVE  /\ pc = "forward"
         /\ UNCHANGED <<arrived, pending, chunk, live, ids, limit, handle, budget, reserved, last, finished,
                        deferred>>
         /\ \/ pc' = "crashed" /\ UNCHANGED <<tree, free, kv, running, cached, device, row, cur, todo>>
            \/ Launches
<1>1. /\ pc = "forward"
      /\ UNCHANGED <<arrived, pending, chunk, live, ids, limit, handle, budget, reserved, last, finished,
                     deferred>>
  BY DEF Forward, adder
<1>2. CASE (Needed - Len(free)) * PageSize > tree.evictable \/ Evictions(Needed) = {}
  BY <1>1, <1>2 DEF Forward, cacheVars
<1>3. CASE ~((Needed - Len(free)) * PageSize > tree.evictable \/ Evictions(Needed) = {})
  <2>1. Launches
    BY <1>3 DEF Forward, Launches, InCur
  <2>. QED  BY <1>1, <2>1
<1>. QED
  BY <1>2, <1>3

\* The batch that is launched keeps its requests, and samples for those that
\* are not a chunk.
LEMMA LaunchedBatch ==
  ASSUME IsBatch(cur), Launches
  PROVE  IsBatch(cur') /\ cur'.reqs = cur.reqs /\ cur'.partial = cur.partial /\ Sampled(cur')
<1>1. PICK token \in [Sampling -> Tokens] : cur' = [cur EXCEPT !.token = token]
  BY DEF Launches
<1>2. DOMAIN cur = {"reqs", "prefill", "partial", "token"}
  BY DEF IsBatch
<1>3. DOMAIN cur' = DOMAIN cur /\ cur'.reqs = cur.reqs /\ cur'.partial = cur.partial /\ cur'.token = token
  BY <1>1, <1>2
<1>4. IsBatch(cur')
  BY <1>3 DEF IsBatch
<1>5. Sampled(cur')
  BY <1>3 DEF Sampled, Sampling
<1>. QED
  BY <1>3, <1>4, <1>5

LEMMA LifeForward == ASSUME LifeInv, Forward PROVE LifeInv'
<1>1. /\ pc = "forward"
      /\ UNCHANGED <<arrived, pending, chunk, live, ids, limit, handle, budget, reserved, last, finished, deferred>>
  BY ForwardIs
<1>2. CASE pc' = "crashed" /\ UNCHANGED <<tree, free, kv, running, cached, device, row, cur, todo>>
  BY <1>1, <1>2, LifeStop
<1>3. CASE Launches
  <2>1. IsBatch(cur) /\ IsBatch(last)
    BY DEF LifeInv, Lists
  <2>2. IsBatch(cur') /\ cur'.reqs = cur.reqs /\ cur'.partial = cur.partial
    BY <1>3, <2>1, LaunchedBatch
  <2>3. /\ pc' = "post" /\ todo' = IF Overlap THEN last.reqs ELSE cur.reqs
        /\ cached' = [r \in Reqs |-> IF r \in InCur THEN device[r] ELSE cached[r]]
        /\ device' = [r \in Reqs |-> IF r \in InCur THEN device[r] + 1 ELSE device[r]]
        /\ running' = {r \in running \union InCur : r \notin cur.partial /\ limit[r] - device'[r] > 0}
    BY <1>3 DEF Launches
  <2>4. DOMAIN row' = Reqs
    BY <1>3 DEF Launches, Allocate, NewRows
  <2>5. Queued' = Queued /\ InCur' = InCur /\ InLast' = InLast /\ InTodo' = IF Overlap THEN InLast ELSE InCur
    BY <1>1, <2>2, <2>3 DEF Queued, InCur, InLast, InTodo
  <2>6. /\ Data'.partial = IF Overlap THEN last.partial ELSE cur.partial
    BY <1>1, <2>2 DEF Data
  <2>7. Lists'
    <3>1. todo' \in Seq(Reqs) /\ IsInjective(todo')
      BY <2>1, <2>3 DEF IsBatch
    <3>. QED  BY <1>1, <2>1, <2>2, <3>1 DEF LifeInv, Lists, IsBatch
  <2>8. Fields'
    BY <1>1, <2>3, <2>4 DEF LifeInv, Fields
  <2>9. InCur \subseteq live /\ cur.partial \subseteq chunk /\ InCur \subseteq Reqs
        /\ live \subseteq Reqs /\ InLast \subseteq live \union finished /\ (~Overlap => last = NoBatch /\ InLast = {})
    BY <1>1, NoBatchIs DEF LifeInv, Phases, Members, InLast
  <2>10. chunk \intersect running' = {} /\ running' \subseteq live
    <3>1. \A q \in running' : q \notin chunk
      <4> SUFFICES ASSUME NEW q \in running', q \in chunk PROVE FALSE
        OBVIOUS
      <4>1. q \in InCur /\ q \notin cur.partial /\ q \in Queued
        BY <2>3 DEF LifeInv, Members
      <4>. QED  BY <4>1 DEF LifeInv, Members
    <3>2. running' \subseteq live
      BY <2>3, <2>9 DEF LifeInv, Members
    <3>. QED  BY <3>1, <3>2
  <2>11. Members'
    BY <1>1, <2>2, <2>5, <2>10 DEF LifeInv, Members
  <2>12. Waiting'
    <3>1. running' \subseteq running \union InCur
      BY <2>3
    <3>. QED  BY <1>1, <2>5, <3>1 DEF LifeInv, Waiting
  <2>13. Phases'
    <3>1. InCur \subseteq live
      BY <2>9
    <3>. QED  BY <1>1, <2>3, <2>5, <2>9 DEF LifeInv, Phases
  <2>14. AllKept'
    <3>1. \A q \in Reqs : limit[q] \in Nat /\ device[q] \in Nat /\ device'[q] \in Nat /\ limit'[q] = limit[q]
      BY <1>1, <2>3 DEF LifeInv, Fields
    <3>2. \A q \in running' : device'[q] < limit'[q]
      BY <2>3, <2>9, <2>10, <3>1
    <3>3. ASSUME NEW q \in live' PROVE Kept(q)'
      <4>0. q \in live /\ q \in Reqs /\ Kept(q)
        BY <1>1, <2>9, <3>3 DEF LifeInv, AllKept
      <4>1. CASE q \in InCur
        <5>1. CASE q \in cur.partial
          BY <1>1, <2>9, <5>1 DEF Kept
        <5>2. CASE q \notin cur.partial /\ limit[q] - device'[q] > 0
          BY <2>3, <4>1, <5>2 DEF Kept
        <5>3. CASE q \notin cur.partial /\ ~(limit[q] - device'[q] > 0)
          <6>1. limit'[q] <= device'[q]
            BY <3>1, <4>0, <5>3
          <6>. QED  BY <2>2, <2>3, <2>5, <2>6, <4>1, <5>3, <6>1 DEF Kept
        <5>. QED  BY <5>1, <5>2, <5>3
      <4>2. CASE q \notin InCur
        <5>1. device'[q] = device[q]
          BY <2>3, <4>0, <4>2
        <5>2. CASE q \in running
          <6>1. device[q] < limit[q] /\ q \notin chunk
            BY <5>2 DEF LifeInv, AllKept, Members
          <6>2. limit[q] - device'[q] > 0 /\ q \notin cur.partial
            BY <2>9, <3>1, <4>0, <5>1, <6>1
          <6>. QED  BY <2>3, <5>2, <6>2 DEF Kept
        <5>3. CASE q \in chunk \/ q \in deferred
          BY <1>1, <5>3 DEF Kept
        <5>4. CASE q \in InLast \ last.partial /\ limit[q] <= device[q]
          BY <1>1, <2>3, <2>5, <2>6, <2>9, <3>1, <4>0, <5>1, <5>4 DEF Kept
        <5>. QED  BY <1>1, <4>0, <4>2, <5>2, <5>3, <5>4 DEF Kept
      <4>. QED  BY <4>1, <4>2
    <3>. QED  BY <3>2, <3>3 DEF AllKept
  <2>. QED  BY <2>7, <2>8, <2>11, <2>12, <2>13, <2>14 DEF LifeInv
<1>. QED
  BY <1>2, <1>3, ForwardIs

\* The three ways a request can pass through post-processing
Skips == UNCHANGED <<tree, free, live, running, ids, limit, cached, device, row, handle>>
Stops(r, text) == Release(r, text) /\ running' = running \ {r}
GoesOn(r, text) ==
  /\ RemainLen(r) > 0 /\ ids' = [ids EXCEPT ![r] = text]
  /\ IF Data.prefill THEN CacheReq(r, text, FALSE) ELSE UNCHANGED <<tree, free, handle>>
  /\ UNCHANGED <<live, running, limit, cached, device, row>>

LEMMA PostProcessIs ==
  ASSUME LifeInv, PostProcess
  PROVE  LET r == Head(todo)  text == Append(ids[r], Data.token[r])
         IN  /\ pc = "post" /\ pc' = pc /\ todo /= <<>> /\ todo' = Tail(todo)
             /\ UNCHANGED <<kv, arrived, pending, chunk, budget, reserved, cur, last, finished, deferred>>
             /\ r \in Reqs /\ r \in InTodo /\ todo' \in Seq(Reqs) /\ IsInjective(todo')
             /\ InTodo' = InTodo \ {r}
             /\ \/ r \in Skipped /\ Skips
                \/ r \notin Skipped /\ (Stops(r, text) \/ GoesOn(r, text))
<1> DEFINE r == Head(todo)
           text == Append(ids[r], Data.token[r])
<1>1. /\ pc = "post" /\ pc' = pc /\ todo /= <<>> /\ todo' = Tail(todo)
      /\ UNCHANGED <<kv, arrived, pending, chunk, budget, reserved, cur, last, finished, deferred>>
  BY DEF PostProcess, adder, batchVars
<1>2. r \in Reqs /\ r \in InTodo /\ Tail(todo) \in Seq(Reqs) /\ IsInjective(Tail(todo))
      /\ InTodo' = InTodo \ {r}
  BY <1>1, TailOnce DEF LifeInv, Lists, InTodo
<1>3. CASE r \in Skipped
  <2>1. Skips
    BY <1>3 DEF PostProcess, Skips, cacheVars, reqVars
  <2>. QED  BY <1>1, <1>2, <1>3, <2>1
<1>4. CASE r \notin Skipped
  <2>1. PICK stops \in BOOLEAN :
          IF stops \/ RemainLen(r) <= 0
          THEN Release(r, text) /\ running' = running \ {r}
          ELSE /\ ids' = [ids EXCEPT ![r] = text]
               /\ IF Data.prefill THEN CacheReq(r, text, FALSE)
                  ELSE UNCHANGED <<cacheVars, handle>>
               /\ UNCHANGED <<live, running, limit, cached, device, row>>
    BY <1>4 DEF PostProcess
  <2>2. RemainLen(r) \in Int
    BY <1>2 DEF LifeInv, Fields, RemainLen
  <2> HIDE DEF r, text
  <2>3. Stops(r, text) \/ GoesOn(r, text)
    <3>1. CASE stops \/ RemainLen(r) <= 0
      BY <2>1, <3>1 DEF Stops
    <3>2. CASE ~(stops \/ RemainLen(r) <= 0)
      <4>1. RemainLen(r) > 0
        BY <2>2, <3>2
      <4>2. /\ ids' = [ids EXCEPT ![r] = text]
            /\ IF Data.prefill THEN CacheReq(r, text, FALSE) ELSE UNCHANGED <<cacheVars, handle>>
            /\ UNCHANGED <<live, running, limit, cached, device, row>>
        BY <2>1, <3>2
      <4>. QED  BY <4>1, <4>2 DEF GoesOn, cacheVars
    <3>. QED  BY <3>1, <3>2
  <2>. QED  BY <1>1, <1>2, <1>4, <2>3 DEF r, text
<1>. QED
  BY <1>3, <1>4

\* The token of a request that is not a chunk is there.
LEMMA DataToken ==
  ASSUME LifeInv, LensInv, pc = "post", NEW r \in InTodo, r \notin Data.partial
  PROVE  Data.token[r] \in Tokens /\ Append(ids[r], Data.token[r]) \in Seq(Tokens)
         /\ Len(Append(ids[r], Data.token[r])) = Len(ids[r]) + 1
         /\ r \in Reqs
<1>1. r \in Range(Data.reqs)
  BY DEF LifeInv, Phases, InLast, InCur, Data
<1>2. Sampled(Data)
  BY DEF LensInv, Data
<1>3. Data.token[r] \in Tokens
  BY <1>1, <1>2 DEF Sampled
<1>4. r \in Reqs
  BY DEF LifeInv, Phases, Members
<1>5. ids[r] \in Seq(Tokens)
  BY <1>4 DEF LifeInv, Fields
<1>. QED
  BY <1>3, <1>4, <1>5, AppendProperties

\* A request that is neither skipped nor gone is in no list and in no chunk.
LEMMA Processed ==
  ASSUME LifeInv, pc = "post", NEW r \in InTodo, r \notin Skipped
  PROVE  /\ r \in live /\ r \notin Queued /\ r \notin chunk /\ r \notin deferred
         /\ Overlap => r \in InLast \ last.partial
         /\ ~Overlap => r \in InCur \ cur.partial
<1>1. r \notin finished /\ r \notin deferred /\ r \notin Data.partial
  BY DEF Skipped
<1>2. r \in live
  BY <1>1 DEF LifeInv, Phases
<1>3. (Overlap => r \in InLast \ last.partial) /\ (~Overlap => r \in InCur \ cur.partial)
  BY <1>1 DEF LifeInv, Phases, Data
<1>. QED
  BY <1>1, <1>2, <1>3 DEF LifeInv, Members

LEMMA LifePostProcess == ASSUME LifeInv, LensInv, PostProcess PROVE LifeInv'
<1> DEFINE r == Head(todo)
           text == Append(ids[r], Data.token[r])
<1>1. /\ pc = "post" /\ pc' = pc /\ todo /= <<>> /\ todo' = Tail(todo)
      /\ UNCHANGED <<kv, arrived, pending, chunk, budget, reserved, cur, last, finished, deferred>>
      /\ r \in Reqs /\ r \in InTodo /\ todo' \in Seq(Reqs) /\ IsInjective(todo')
      /\ InTodo' = InTodo \ {r}
      /\ \/ r \in Skipped /\ Skips
         \/ r \notin Skipped /\ (Stops(r, text) \/ GoesOn(r, text))
  BY PostProcessIs
<1>2. r \notin Skipped => text \in Seq(Tokens)
  BY <1>1, DataToken DEF Skipped
<1> HIDE DEF r, text
<1>3. UNCHANGED <<Queued, InCur, InLast>> /\ Data' = Data
  BY <1>1 DEF Queued, InCur, InLast, Data
<1>4. Lists'
  BY <1>1 DEF LifeInv, Lists, IsBatch
<1>5. CASE r \in Skipped /\ Skips
  <2>1. UNCHANGED <<tree, free, live, running, ids, limit, cached, device, row, handle>>
    BY <1>5 DEF Skips
  <2>2. Fields'
    BY <1>1, <2>1 DEF LifeInv, Fields
  <2>3. Members' /\ Waiting'
    BY <1>1, <1>3, <2>1 DEF LifeInv, Members, Waiting
  <2>4. Phases'
    BY <1>1, <1>3, <2>1 DEF LifeInv, Phases
  <2>5. AllKept'
    <3>1. ASSUME NEW q \in live' PROVE Kept(q)'
      <4>1. q \in live /\ Kept(q)
        BY <1>1, <2>1, <3>1 DEF LifeInv, AllKept
      <4>2. q = r => r \in Data.partial \/ r \in deferred
        BY <1>5, <2>1, <4>1 DEF Skipped, LifeInv, Phases
      <4>. QED  BY <1>1, <1>3, <2>1, <4>1, <4>2 DEF Kept
    <3>. QED  BY <1>1, <2>1, <3>1 DEF LifeInv, AllKept
  <2>. QED  BY <1>4, <2>2, <2>3, <2>4, <2>5 DEF LifeInv
<1>6. CASE r \notin Skipped
  <2>1. /\ r \in live /\ r \notin Queued /\ r \notin chunk /\ r \notin deferred
        /\ Overlap => r \in InLast \ last.partial
        /\ ~Overlap => r \in InCur \ cur.partial
    BY <1>1, <1>6, Processed
  <2>2. CASE Stops(r, text)
    <3>1. live' = live \ {r} /\ Fields' /\ Others({r}) /\ running' = running \ {r}
      BY <1>1, <1>2, <1>6, <2>2, ReleaseIs DEF Stops
    <3>2. Members' /\ Waiting'
      BY <1>1, <1>3, <2>1, <3>1 DEF LifeInv, Members, Waiting
    <3>3. Phases'
      BY <1>1, <1>3, <2>1, <3>1 DEF LifeInv, Phases
    <3>4. AllKept'
      <4>1. live \subseteq Reqs /\ running \subseteq Reqs
        BY DEF LifeInv, Members
      <4>2. \A q \in Reqs \ {r} : limit'[q] = limit[q] /\ device'[q] = device[q]
        BY <3>1 DEF Others
      <4>3. \A q \in running' : device'[q] < limit'[q]
        BY <3>1, <4>1, <4>2 DEF LifeInv, AllKept
      <4>4. \A q \in live' : Kept(q)'
        BY <1>1, <1>3, <3>1, <4>1, <4>2 DEF LifeInv, AllKept, Kept
      <4>. QED  BY <4>3, <4>4 DEF AllKept
    <3>. QED  BY <1>4, <3>1, <3>2, <3>3, <3>4 DEF LifeInv
  <2>3. CASE GoesOn(r, text)
    <3>1. /\ limit[r] - device[r] > 0 /\ ids' = [ids EXCEPT ![r] = text]
          /\ UNCHANGED <<live, running, limit, cached, device, row>> /\ DOMAIN handle' = DOMAIN handle
      BY <2>3 DEF GoesOn, CacheReq, RemainLen
    <3>2. Fields'
      BY <1>1, <1>2, <1>6, <3>1 DEF LifeInv, Fields
    <3>3. Members' /\ Waiting'
      BY <1>1, <1>3, <3>1 DEF LifeInv, Members, Waiting
    <3>4. Phases'
      BY <1>1, <1>3, <3>1 DEF LifeInv, Phases
    <3>5. AllKept'
      <4>1. ~(limit[r] <= device[r])
        BY <1>1, <3>1 DEF LifeInv, Fields
      <4>2. \A q \in live' : Kept(q)'
        BY <1>1, <1>3, <3>1, <4>1 DEF LifeInv, AllKept, Kept
      <4>. QED  BY <3>1, <4>2 DEF LifeInv, AllKept
    <3>. QED  BY <1>4, <3>2, <3>3, <3>4, <3>5 DEF LifeInv
  <2>. QED  BY <1>1, <1>6, <2>2, <2>3
<1>. QED
  BY <1>1, <1>5, <1>6

LEMMA FreeDeferredIs ==
  ASSUME LifeInv, FreeDeferred
  PROVE  /\ pc = "post" /\ pc' = pc /\ todo = <<>> /\ todo' = todo
         /\ UNCHANGED <<kv, arrived, pending, chunk, running, budget, reserved, cur, last, finished>>
         /\ \E r \in deferred : Release(r, ids[r]) /\ deferred' = deferred \ {r}
BY DEF FreeDeferred, adder

LEMMA LifeFreeDeferred == ASSUME LifeInv, FreeDeferred PROVE LifeInv'
<1>1. /\ pc = "post" /\ pc' = pc /\ todo = <<>> /\ todo' = todo
      /\ UNCHANGED <<kv, arrived, pending, chunk, running, budget, reserved, cur, last, finished>>
  BY FreeDeferredIs
<1>2. PICK r \in deferred : Release(r, ids[r]) /\ deferred' = deferred \ {r}
  BY FreeDeferredIs
<1>3. UNCHANGED <<Queued, InCur, InLast, InTodo>> /\ InTodo = {} /\ Data' = Data
  BY <1>1, EmptyList DEF Queued, InCur, InLast, InTodo, Data
<1>4. r \in live /\ r \in Reqs /\ ids[r] \in Seq(Tokens) /\ r \notin Queued \union running \union InCur
  BY DEF LifeInv, Waiting, Members, Fields
<1>5. live' = live \ {r} /\ Fields' /\ Others({r})
  BY <1>1, <1>2, <1>4, ReleaseIs
<1>6. Lists'
  BY <1>1 DEF LifeInv, Lists, IsBatch
<1>7. Members' /\ Waiting'
  BY <1>1, <1>2, <1>3, <1>4, <1>5 DEF LifeInv, Members, Waiting
<1>8. Phases'
  BY <1>1, <1>3, <1>4, <1>5 DEF LifeInv, Phases
<1>9. AllKept'
  <2>1. live \subseteq Reqs /\ running \subseteq Reqs
    BY DEF LifeInv, Members
  <2>2. \A q \in Reqs \ {r} : limit'[q] = limit[q] /\ device'[q] = device[q]
    BY <1>5 DEF Others
  <2>3. \A q \in running' : device'[q] < limit'[q]
    BY <1>1, <1>4, <2>1, <2>2 DEF LifeInv, AllKept
  <2>4. \A q \in live' : Kept(q)'
    BY <1>1, <1>2, <1>3, <1>5, <2>1, <2>2 DEF LifeInv, AllKept, Kept
  <2>. QED  BY <2>3, <2>4 DEF AllKept
<1>. QED
  BY <1>5, <1>6, <1>7, <1>8, <1>9 DEF LifeInv

LEMMA LifeEndTick == ASSUME LifeInv, EndTick PROVE LifeInv'
<1>1. /\ pc = "post" /\ pc' = "loop" /\ todo = <<>> /\ todo' = <<>> /\ deferred = {} /\ deferred' = {}
      /\ finished' = IF Overlap THEN (InLast \intersect InCur) \ (live \union last.partial) ELSE {}
      /\ last' = (IF Overlap THEN cur ELSE NoBatch) /\ cur' = NoBatch
      /\ Forget(finished)
      /\ UNCHANGED <<tree, free, kv, arrived, pending, chunk, running, live, budget, reserved>>
  BY DEF EndTick, cacheVars, adder, Data, InLast, InCur
<1>2. /\ Queued' = Queued /\ InTodo = {} /\ InTodo' = {} /\ InCur' = {}
      /\ InLast' = IF Overlap THEN InCur ELSE {}
  BY <1>1, EmptyList, NoBatchIs DEF Queued, InTodo, InCur, InLast
<1>3. Lists'
  BY <1>1, NoBatchIs DEF LifeInv, Lists, IsBatch
<1>4. Fields' /\ Others(finished)
  BY <1>1, ForgetIs
<1>5. Members' /\ Waiting'
  BY <1>1, <1>2 DEF LifeInv, Members, Waiting
<1>6. Phases'
  <2>1. CASE Overlap
    BY <1>1, <1>2, <2>1 DEF LifeInv, Phases
  <2>2. CASE ~Overlap
    BY <1>1, <1>2, <2>2 DEF LifeInv, Phases
  <2>. QED  BY <2>1, <2>2
<1>7. AllKept'
  <2>1. live \subseteq Reqs /\ running \subseteq live /\ live \intersect finished = {}
    BY DEF LifeInv, Members, Phases
  <2>2. \A q \in live : limit'[q] = limit[q] /\ device'[q] = device[q]
    BY <1>4, <2>1 DEF Others
  <2>3. \A q \in running' : device'[q] < limit'[q]
    BY <1>1, <2>1, <2>2 DEF LifeInv, AllKept
  <2>4. \A q \in live' : Kept(q)'
    BY <1>1, <1>2, <2>1, <2>2 DEF LifeInv, AllKept, Kept
  <2>. QED  BY <2>3, <2>4 DEF AllKept
<1>. QED
  BY <1>3, <1>4, <1>5, <1>6, <1>7 DEF LifeInv

-----------------------------------------------------------------------------
(* The lengths: what a request has computed, is about to, and has of text.  *)

LEMMA LagIs == ASSUME NEW r PROVE Lag(r) \in Nat
BY DEF Lag

LEMMA LensInit == ASSUME Init PROVE LensInv
<1>1. live = {} /\ pc = "loop" /\ last = NoBatch /\ Queued = {}
  BY EmptyList DEF Init, Queued
<1>. QED
  BY <1>1, NoBatchIs DEF LensInv

\* Outside post-processing only the batch in flight matters.
LEMMA LensStay ==
  ASSUME LifeInv, LensInv, LifeInv', pc /= "post", pc' /= "post", UNCHANGED <<last, finished>>,
         deferred \subseteq deferred', live' \subseteq live,
         \A q \in live' : ids'[q] = ids[q] /\ cached'[q] = cached[q] /\ device'[q] = device[q],
         \A q \in Queued' : ids'[q] /= <<>>,
         pc' \in {"admit", "forward"} => \A q \in cur'.partial : device'[q] < Len(ids'[q])
  PROVE  LensInv'
<1>1. Unseen' = Unseen
  BY DEF Unseen
<1>2. ASSUME NEW q \in live' PROVE cached'[q] < device'[q] /\ device'[q] <= Len(ids'[q]) + Lag(q)'
  <2>1. cached[q] < device[q] /\ device[q] <= Len(ids[q]) + Lag(q)
    BY <1>2 DEF LensInv
  <2>2. Lag(q) = IF q \in Unseen \union deferred THEN 1 ELSE 0
    BY DEF Lag
  <2>3. Lag(q)' = IF q \in Unseen' \union deferred' THEN 1 ELSE 0
    BY DEF Lag
  <2>4. q \in Reqs
    BY <1>2 DEF LifeInv, Members
  <2>5. device[q] \in Nat /\ Len(ids[q]) \in Nat
    BY <2>4 DEF LifeInv, Fields
  <2>6. Lag(q) \in Nat /\ Lag(q)' \in Nat /\ Lag(q) <= Lag(q)'
    <3>1. q \in Unseen \union deferred => q \in Unseen' \union deferred'
      BY <1>1
    <3>2. CASE q \in Unseen \union deferred
      BY <2>2, <2>3, <3>1, <3>2
    <3>3. CASE q \notin Unseen \union deferred
      BY <2>2, <2>3, <3>3
    <3>. QED  BY <3>2, <3>3
  <2>7. ids'[q] = ids[q] /\ cached'[q] = cached[q] /\ device'[q] = device[q]
    BY <1>2
  <2>. QED  BY <2>1, <2>5, <2>6, <2>7
<1>3. Sampled(last)'
  BY DEF LensInv, Sampled
<1>. QED
  BY <1>2, <1>3 DEF LensInv

LEMMA LensStartTick == ASSUME LifeInv, LensInv, LifeInv', StartTick PROVE LensInv'
<1>1. /\ pc = "loop" /\ pc' \in {"recv", "wait", "crashed"}
      /\ UNCHANGED <<pending, live, ids, cached, device, last, finished, deferred>>
  BY DEF StartTick, cacheVars, reqVars, adder, batchVars
<1>2. \A q \in Queued' : ids'[q] /= <<>>
  BY <1>1 DEF LensInv, Queued
<1>. QED
  BY <1>1, <1>2, LensStay

LEMMA LensHandleUser ==
  ASSUME CacheAssumption, LifeInv, LensInv, LifeInv', NEW r \in Reqs, HandleUser(r) PROVE LensInv'
<1>1. /\ pc \in {"wait", "recv"} /\ pc' = "recv" /\ r \notin arrived /\ pending' = Append(pending, r)
      /\ UNCHANGED <<live, cached, device, last, finished, deferred>>
      /\ \E p \in Prompts : ids' = [ids EXCEPT ![r] = p]
  BY DEF HandleUser, Receiving, batchVars
<1>2. PICK p \in Prompts : ids' = [ids EXCEPT ![r] = p]
  BY <1>1
<1>3. p /= <<>>
  BY DEF CacheAssumption
<1>4. Queued' = Queued \union {r} /\ Queued \subseteq Reqs
  <2>1. r \notin Queued /\ pending \in Seq(Reqs) /\ IsInjective(pending) /\ Queued \subseteq Reqs
    BY <1>1 DEF LifeInv, Members, Lists
  <2>. QED  BY <1>1, <2>1, AppendOnce DEF Queued
<1>5. \A q \in Queued' : ids'[q] /= <<>>
  BY <1>2, <1>3, <1>4 DEF LensInv, LifeInv, Fields
<1>6. \A q \in live' : ids'[q] = ids[q]
  BY <1>1, <1>2 DEF LifeInv, Members, Fields
<1>. QED
  BY <1>1, <1>5, <1>6, LensStay

LEMMA LensHandleAbort ==
  ASSUME LifeInv, LensInv, LifeInv', NEW r \in Reqs, HandleAbort(r) PROVE LensInv'
<1>1. /\ pc \in {"wait", "recv"} /\ pc' = "recv" /\ RemovePending(r) /\ UNCHANGED <<last, finished, budget>>
      /\ r \in arrived /\ r \notin InLast \intersect finished
  BY DEF HandleAbort, Receiving, adder, InLast
<1>2. /\ deferred \subseteq deferred' /\ live' \subseteq live
      /\ \A q \in live' : ids'[q] = ids[q] /\ cached'[q] = cached[q] /\ device'[q] = device[q]
      /\ \A q \in Queued \ {r} : ids'[q] = ids[q]
  <2>1. live \subseteq Reqs /\ Queued \subseteq Reqs
    BY DEF LifeInv, Members
  <2>2. CASE r \in InLast
    BY <2>2 DEF HandleAbort, Fence, InLast, reqVars
  <2>3. CASE r \notin InLast /\ r \in chunk \union running
    <3>1. Release(r, ids[r]) /\ ids[r] \in Seq(Tokens) /\ deferred' = deferred
      BY <2>3 DEF HandleAbort, Fence, InLast, LifeInv, Fields
    <3>2. live' = live \ {r} /\ Others({r})
      BY <1>1, <3>1, ReleaseIs
    <3>. QED  BY <2>1, <3>1, <3>2 DEF Others
  <2>4. CASE r \notin InLast /\ r \notin chunk \union running
    <3>1. Forget({r}) /\ live' = live /\ deferred' = deferred
      BY <2>4 DEF HandleAbort, Fence, InLast
    <3>2. r \notin live
      <4>1. cur = NoBatch /\ pc \notin {"admit", "forward", "post", "crashed", "failed"}
        BY <1>1 DEF LifeInv, Phases
      <4>. QED  BY <2>4, <4>1 DEF LifeInv, AllKept, Kept, Waiting
    <3>3. Others({r})
      BY <1>1, <3>1, ForgetIs
    <3>. QED  BY <2>1, <3>1, <3>2, <3>3 DEF Others
  <2>. QED  BY <2>2, <2>3, <2>4
<1>3. Queued' \subseteq Queued \ {r}
  <2>1. CASE r \in Queued
    <3>1. PICK i \in DOMAIN pending : pending[i] = r /\ pending' = RemoveAt(pending, i)
      BY <1>1, <2>1 DEF RemovePending, Queued
    <3>. QED  BY <3>1, RemoveAtOnce DEF LifeInv, Lists, Queued
  <2>2. CASE r \notin Queued
    BY <1>1, <2>2 DEF RemovePending, Queued
  <2>. QED  BY <2>1, <2>2
<1>4. \A q \in Queued' : ids'[q] /= <<>>
  BY <1>2, <1>3 DEF LensInv
<1>. QED
  BY <1>1, <1>2, <1>4, LensStay

LEMMA LensEndReceive == ASSUME LifeInv, LensInv, LifeInv', EndReceive PROVE LensInv'
<1>1. /\ pc = "recv" /\ pc' = "admit"
      /\ UNCHANGED <<pending, live, ids, cached, device, cur, last, finished, deferred>>
  BY DEF EndReceive, cacheVars, reqVars, batchVars
<1>2. \A q \in Queued' : ids'[q] /= <<>>
  BY <1>1 DEF LensInv, Queued
<1>3. cur'.partial = {}
  BY <1>1, NoBatchIs DEF LifeInv, Phases
<1>. QED
  BY <1>1, <1>2, <1>3, LensStay

LEMMA LensCloseBatch == ASSUME LifeInv, LensInv, LifeInv', CloseBatch PROVE LensInv'
<1>1. /\ pc = "admit" /\ pc' = "forward"
      /\ UNCHANGED <<pending, live, ids, cached, device, last, finished, deferred>>
  BY DEF CloseBatch, reqVars, adder
<1>2. \A q \in Queued' : ids'[q] /= <<>>
  BY <1>1 DEF LensInv, Queued
<1>3. cur'.partial = cur.partial
  <2>1. DOMAIN cur = {"reqs", "prefill", "partial", "token"}
    BY DEF LifeInv, Lists, IsBatch
  <2>. QED  BY <2>1 DEF CloseBatch
<1>4. \A q \in cur'.partial : device'[q] < Len(ids'[q])
  BY <1>1, <1>3 DEF LensInv
<1>. QED
  BY <1>1, <1>2, <1>4, LensStay

LEMMA LensAdded ==
  ASSUME LifeInv, LensInv, LifeInv', pc = "admit", pc' = pc, NEW r \in Reqs, r = First, pending /= <<>>,
         cur.partial = {}, NEW from \in Nat, NEW size \in 1 .. budget,
         NEW part \in BOOLEAN, Added(r, from, size, part), live' = live \union {r},
         from + size <= Len(ids[r]), part => from + size < Len(ids[r]),
         UNCHANGED <<ids, last, finished, deferred>>
  PROVE  LensInv'
<1>1. Unseen' = Unseen
  BY DEF Unseen
<1>2. \A q \in live' : q \in Reqs
  BY DEF LifeInv, Members
<1>3. /\ cached' = [cached EXCEPT ![r] = from] /\ device' = [device EXCEPT ![r] = from + size]
      /\ cached'[r] = from /\ device'[r] = from + size
  BY DEF Added, LifeInv, Fields
<1>4. \A q \in Reqs : Lag(q) \in Nat /\ Lag(q)' = Lag(q)
  BY <1>1 DEF Lag
<1>5. ASSUME NEW q \in live' PROVE cached'[q] < device'[q] /\ device'[q] <= Len(ids'[q]) + Lag(q)'
  <2>1. CASE q = r
    <3>1. Len(ids[r]) \in Nat /\ size \in Nat \ {0}
      BY DEF LifeInv, Fields
    <3>2. from < from + size /\ from + size <= Len(ids[r]) + Lag(r)
      BY <1>4, <3>1
    <3>. QED  BY <1>3, <1>4, <2>1, <3>2
  <2>2. CASE q /= r
    <3>1. q \in live /\ q \in Reqs /\ cached'[q] = cached[q] /\ device'[q] = device[q]
      BY <1>2, <1>3, <1>5, <2>2 DEF LifeInv, Fields
    <3>. QED  BY <1>4, <3>1 DEF LensInv
  <2>. QED  BY <2>1, <2>2
<1>6. Queued' \subseteq Queued
  BY TailOnce DEF Added, LifeInv, Lists, Queued
<1>7. \A q \in cur'.partial : device'[q] < Len(ids'[q])
  BY <1>3 DEF Added
<1>8. Sampled(last)'
  BY DEF LensInv, Sampled
<1>. QED
  BY <1>5, <1>6, <1>7, <1>8 DEF LensInv

LEMMA LensContinue == ASSUME CacheInv, LifeInv', Continue PROVE LensInv'
<1>1. PICK size \in 1 .. budget, part \in BOOLEAN :
        /\ Added(First, cached[First], size, part) /\ First \in chunk /\ First \in Reqs
        /\ cached[First] + size <= Len(ids[First])
        /\ (part => cached[First] + size < Len(ids[First]))
  BY ContinueIs
<1>2. /\ pc = "admit" /\ pc' = pc /\ pending /= <<>> /\ budget > 0 /\ First \in chunk
      /\ UNCHANGED <<live, ids, last, finished, deferred>>
  BY DEF Continue
<1>3. LifeInv /\ LensInv /\ cached[First] \in Nat /\ live' = live \union {First}
  BY <1>2, ChunkRest DEF CacheInv, LifeInv, Members
<1>4. cur.partial = {}
  BY <1>2, <1>3 DEF LifeInv, Phases
<1>. QED
  BY <1>1, <1>2, <1>3, <1>4, LensAdded

LEMMA LensAdmit == ASSUME CacheAssumption, CacheInv, LifeInv', Admit PROVE LensInv'
<1>1. /\ First \in Reqs /\ First \in Queued /\ live' = live \union {First}
  BY AdmitIs
<1>2. PICK size \in 1 .. budget, part \in BOOLEAN :
        /\ Added(First, Len(MatchReq(First)), size, part)
        /\ Len(MatchReq(First)) + size <= Len(ids[First])
        /\ (part => Len(MatchReq(First)) + size < Len(ids[First]))
  BY AdmitIs
<1>3. /\ pc = "admit" /\ pc' = pc /\ pending /= <<>> /\ budget > 0
      /\ UNCHANGED <<ids, last, finished, deferred>>
  BY DEF Admit, MayTry
<1>4. LifeInv /\ LensInv
  BY DEF CacheInv
<1>5. Len(MatchReq(First)) \in Nat
  BY <1>1, <1>4, MatchIs DEF CacheInv, LensInv, HeldInv
<1>6. cur.partial = {}
  BY <1>3, <1>4 DEF LifeInv, Phases
<1>. QED
  BY <1>1, <1>2, <1>3, <1>4, <1>5, <1>6, LensAdded

LEMMA LensForward == ASSUME LifeInv, LensInv, LifeInv', Forward PROVE LensInv'
<1>1. /\ pc = "forward"
      /\ UNCHANGED <<arrived, pending, chunk, live, ids, limit, handle, budget, reserved, last, finished, deferred>>
  BY ForwardIs
<1>2. Queued' = Queued /\ \A q \in Queued' : ids'[q] /= <<>>
  BY <1>1 DEF LensInv, Queued
<1>3. CASE pc' = "crashed" /\ UNCHANGED <<tree, free, kv, running, cached, device, row, cur, todo>>
  BY <1>1, <1>2, <1>3, LensStay
<1>4. CASE Launches
  <2>1. IsBatch(cur)
    BY DEF LifeInv, Lists
  <2>2. cur'.reqs = cur.reqs /\ cur'.partial = cur.partial /\ Sampled(cur')
    BY <1>4, <2>1, LaunchedBatch
  <2>3. /\ pc' = "post" /\ todo' = IF Overlap THEN last.reqs ELSE cur.reqs
        /\ cached' = [r \in Reqs |-> IF r \in InCur THEN device[r] ELSE cached[r]]
        /\ device' = [r \in Reqs |-> IF r \in InCur THEN device[r] + 1 ELSE device[r]]
    BY <1>4 DEF Launches
  <2>4. InCur' = InCur /\ InLast' = InLast /\ InTodo' = IF Overlap THEN InLast ELSE InCur
    BY <1>1, <2>2, <2>3 DEF InCur, InLast, InTodo
  <2>5. Unseen = InLast \ (last.partial \union finished)
    BY <1>1 DEF Unseen, InLast
  <2>6. Unseen' = IF Overlap THEN InLast \ last.partial ELSE InCur \ cur.partial
    BY <1>1, <2>2, <2>3, <2>4 DEF Unseen, Data, InTodo
  <2>7. ASSUME NEW q \in live' PROVE cached'[q] < device'[q] /\ device'[q] <= Len(ids'[q]) + Lag(q)'
    <3>1. q \in live /\ q \in Reqs
      BY <1>1, <2>7 DEF LifeInv, Members
    <3>2. /\ device[q] \in Nat /\ cached[q] \in Nat /\ Len(ids[q]) \in Nat /\ ids'[q] = ids[q]
          /\ cached[q] < device[q] /\ device[q] <= Len(ids[q]) + Lag(q)
      BY <1>1, <3>1 DEF LifeInv, Fields, LensInv
    <3>3. Lag(q) = IF q \in Unseen \union deferred THEN 1 ELSE 0
      BY <1>1 DEF Lag
    <3>4. Lag(q)' = (IF q \in Unseen' \union deferred THEN 1 ELSE 0)
                     + (IF Overlap /\ q \in InCur \ cur.partial THEN 1 ELSE 0)
      BY <1>1, <2>2, <2>3, <2>4 DEF Lag
    <3>5. CASE q \in InCur
      <4>1. cached'[q] = device[q] /\ device'[q] = device[q] + 1
        BY <2>3, <3>1, <3>5
      <4>2. CASE q \in cur.partial
        <5>1. device[q] < Len(ids[q]) /\ Lag(q)' \in Nat
          BY <1>1, <3>4, <4>2 DEF LensInv
        <5>. QED  BY <3>2, <4>1, <5>1
      <4>3. CASE q \notin cur.partial
        <5>1. q \notin deferred
          BY <3>5 DEF LifeInv, Waiting
        <5>2. Lag(q) \in Nat /\ Lag(q)' \in Nat /\ Lag(q)' >= Lag(q) + 1
          <6>1. CASE Overlap
            <7>1. q \in Unseen => q \in Unseen'
              BY <2>5, <2>6, <6>1
            <7>2. CASE q \in Unseen
              BY <3>3, <3>4, <3>5, <4>3, <5>1, <6>1, <7>1, <7>2
            <7>3. CASE q \notin Unseen
              BY <3>3, <3>4, <3>5, <4>3, <5>1, <6>1, <7>3
            <7>. QED  BY <7>2, <7>3
          <6>2. CASE ~Overlap
            <7>1. q \notin Unseen
              BY <2>5, <6>2, NoBatchIs DEF LifeInv, Phases, InLast
            <7>2. q \in Unseen'
              BY <2>6, <3>5, <4>3, <6>2
            <7>. QED  BY <3>3, <3>4, <5>1, <6>2, <7>1, <7>2
          <6>. QED  BY <6>1, <6>2
        <5>. QED  BY <3>2, <4>1, <5>2
      <4>. QED  BY <4>2, <4>3
    <3>6. CASE q \notin InCur
      <4>1. cached'[q] = cached[q] /\ device'[q] = device[q]
        BY <2>3, <3>1, <3>6
      <4>2. q \in Unseen => q \in Unseen'
        <5>1. Overlap \/ Unseen = {}
          BY <2>5, NoBatchIs DEF LifeInv, Phases, InLast
        <5>. QED  BY <2>5, <2>6, <5>1
      <4>3. Lag(q) \in Nat /\ Lag(q)' \in Nat /\ Lag(q)' >= Lag(q)
        <5>1. CASE q \in Unseen \union deferred
          BY <3>3, <3>4, <4>2, <5>1
        <5>2. CASE q \notin Unseen \union deferred
          BY <3>3, <3>4, <5>2
        <5>. QED  BY <5>1, <5>2
      <4>. QED  BY <3>2, <4>1, <4>3
    <3>. QED  BY <3>5, <3>6
  <2>8. Sampled(last)'
    BY <1>1 DEF LensInv, Sampled
  <2>9. Sampled(cur)'
    BY <2>2 DEF Sampled
  <2>. QED  BY <1>2, <2>3, <2>7, <2>8, <2>9 DEF LensInv
<1>. QED
  BY <1>3, <1>4, ForwardIs

LEMMA LensFailedPrepare == ASSUME LifeInv, LensInv, LifeInv', FailedPrepare PROVE LensInv'
<1>1. /\ pc = "forward" /\ pc' = "failed"
      /\ UNCHANGED <<pending, live, ids, cached, device, last, finished, deferred>>
  BY DEF FailedPrepare, adder, reqVars, batchVars
<1>2. \A q \in Queued' : ids'[q] /= <<>>
  BY <1>1 DEF LensInv, Queued
<1>. QED
  BY <1>1, <1>2, LensStay

\* In post-processing a request lags behind until its turn.
LEMMA LagPost ==
  ASSUME pc = "post", NEW q
  PROVE  Lag(q) = (IF q \in (InTodo \ Data.partial) \union deferred THEN 1 ELSE 0)
                  + (IF Overlap /\ q \in InCur \ cur.partial THEN 1 ELSE 0)
BY DEF Lag, Unseen, InTodo

LEMMA LensPostProcess == ASSUME LifeInv, LensInv, LifeInv', PostProcess PROVE LensInv'
<1>0. PICK r, text : r = Head(todo) /\ text = Append(ids[r], Data.token[r])
  OBVIOUS
<1>1. /\ pc = "post" /\ pc' = pc /\ todo /= <<>> /\ todo' = Tail(todo)
      /\ UNCHANGED <<kv, arrived, pending, chunk, budget, reserved, cur, last, finished, deferred>>
      /\ r \in Reqs /\ r \in InTodo /\ todo' \in Seq(Reqs) /\ IsInjective(todo')
      /\ InTodo' = InTodo \ {r}
      /\ \/ r \in Skipped /\ Skips
         \/ r \notin Skipped /\ (Stops(r, text) \/ GoesOn(r, text))
  BY <1>0, PostProcessIs
<1>2. r \notin Skipped => text \in Seq(Tokens) /\ Len(text) = Len(ids[r]) + 1
  BY <1>0, <1>1, DataToken DEF Skipped
<1>3. UNCHANGED <<Queued, InCur, InLast>> /\ Data' = Data
  BY <1>1 DEF Queued, InCur, InLast, Data
<1>4. Sampled(last)' /\ Sampled(cur)'
  BY <1>1 DEF LensInv, Sampled
<1>5. live \subseteq Reqs /\ Queued \subseteq Reqs /\ live' \subseteq Reqs
  BY DEF LifeInv, Members
<1>6. \A q : /\ Lag(q) = (IF q \in (InTodo \ Data.partial) \union deferred THEN 1 ELSE 0)
                         + (IF Overlap /\ q \in InCur \ cur.partial THEN 1 ELSE 0)
             /\ Lag(q)' = (IF q \in ((InTodo \ {r}) \ Data.partial) \union deferred THEN 1 ELSE 0)
                          + (IF Overlap /\ q \in InCur \ cur.partial THEN 1 ELSE 0)
  BY <1>1, <1>3 DEF Lag, Unseen, InTodo
<1>7. \A q : Lag(q) \in Nat /\ Lag(q)' \in Nat /\ (q /= r => Lag(q)' = Lag(q))
  BY <1>6
<1>8. CASE r \in Skipped /\ Skips
  <2>1. UNCHANGED <<tree, free, live, running, ids, limit, cached, device, row, handle>>
    BY <1>8 DEF Skips
  <2>2. ASSUME NEW q \in live' PROVE cached'[q] < device'[q] /\ device'[q] <= Len(ids'[q]) + Lag(q)'
    <3>1. q \in live
      BY <2>1, <2>2
    <3>2. q = r => r \in Data.partial \/ r \in deferred
      BY <1>8, <3>1 DEF Skipped, LifeInv, Phases
    <3>3. Lag(q)' = Lag(q)
      BY <1>6, <1>7, <3>2
    <3>. QED  BY <2>1, <3>1, <3>3 DEF LensInv
  <2>. QED  BY <1>1, <1>3, <1>4, <2>1, <2>2 DEF LensInv
<1>9. CASE r \notin Skipped
  <2>1. /\ r \in live /\ r \notin Queued /\ r \notin chunk /\ r \notin deferred
        /\ Overlap => r \in InLast \ last.partial
        /\ ~Overlap => r \in InCur \ cur.partial
    BY <1>1, <1>9, Processed
  <2>2. CASE Stops(r, text)
    <3>1. live' = live \ {r} /\ Others({r})
      BY <1>1, <1>2, <1>9, <2>2, ReleaseIs DEF Stops
    <3>2. \A q \in live' : cached'[q] < device'[q] /\ device'[q] <= Len(ids'[q]) + Lag(q)'
      BY <1>5, <1>7, <3>1 DEF LensInv, Others
    <3>3. \A q \in Queued' : ids'[q] /= <<>>
      BY <1>3, <1>5, <2>1, <3>1 DEF LensInv, Others
    <3>. QED  BY <1>1, <1>4, <3>2, <3>3 DEF LensInv
  <2>3. CASE GoesOn(r, text)
    <3>1. ids' = [ids EXCEPT ![r] = text] /\ UNCHANGED <<live, cached, device>>
      BY <2>3 DEF GoesOn
    <3>2. ids'[r] = text /\ \A q \in Reqs : q /= r => ids'[q] = ids[q]
      BY <1>1, <3>1 DEF LifeInv, Fields
    <3>3. Lag(r) = Lag(r)' + 1
      <4>1. r \in InTodo \ Data.partial
        BY <1>1, <1>9 DEF Skipped
      <4>2. r \in (InTodo \ Data.partial) \union deferred /\ r \notin ((InTodo \ {r}) \ Data.partial) \union deferred
        BY <2>1, <4>1
      <4>3. CASE Overlap /\ r \in InCur \ cur.partial
        <5>1. Lag(r) = 2 /\ Lag(r)' = 1
          BY <1>6, <4>2, <4>3
        <5>. QED  BY <5>1
      <4>4. CASE ~(Overlap /\ r \in InCur \ cur.partial)
        <5>1. Lag(r) = 1 /\ Lag(r)' = 0
          BY <1>6, <4>2, <4>4
        <5>. QED  BY <5>1
      <4>. QED  BY <4>3, <4>4
    <3>4. ASSUME NEW q \in live' PROVE cached'[q] < device'[q] /\ device'[q] <= Len(ids'[q]) + Lag(q)'
      <4>1. CASE q = r
        <5>1. Len(ids[r]) \in Nat /\ device[r] \in Nat /\ cached[r] \in Nat
          BY <1>1 DEF LifeInv, Fields
        <5>2. device[r] <= Len(ids[r]) + Lag(r) /\ cached[r] < device[r]
          BY <2>1 DEF LensInv
        <5>3. Len(ids'[r]) = Len(ids[r]) + 1
          BY <1>2, <1>9, <3>2
        <5>4. Lag(r) \in Nat /\ Lag(r)' \in Nat
          BY <1>7
        <5>5. cached'[r] < device'[r] /\ device'[r] <= Len(ids'[r]) + Lag(r)'
          BY <3>1, <3>3, <5>1, <5>2, <5>3, <5>4
        <5>. QED  BY <4>1, <5>5
      <4>2. CASE q /= r
        BY <1>5, <1>7, <3>1, <3>2, <3>4, <4>2 DEF LensInv
      <4>. QED  BY <4>1, <4>2
    <3>5. \A q \in Queued' : ids'[q] /= <<>>
      BY <1>3, <1>5, <2>1, <3>2 DEF LensInv
    <3>. QED  BY <1>1, <1>4, <3>4, <3>5 DEF LensInv
  <2>. QED  BY <1>1, <1>9, <2>2, <2>3
<1>. QED
  BY <1>1, <1>8, <1>9

LEMMA LensFreeDeferred == ASSUME LifeInv, LensInv, LifeInv', FreeDeferred PROVE LensInv'
<1>1. /\ pc = "post" /\ pc' = pc /\ todo = <<>> /\ todo' = todo
      /\ UNCHANGED <<kv, arrived, pending, chunk, running, budget, reserved, cur, last, finished>>
  BY FreeDeferredIs
<1>2. PICK r \in deferred : Release(r, ids[r]) /\ deferred' = deferred \ {r}
  BY FreeDeferredIs
<1>3. UNCHANGED <<Queued, InCur, InTodo>> /\ Data' = Data
  BY <1>1 DEF Queued, InCur, InTodo, Data
<1>4. r \in live /\ r \in Reqs /\ ids[r] \in Seq(Tokens) /\ r \notin Queued /\ live \subseteq Reqs /\ Queued \subseteq Reqs
  BY DEF LifeInv, Waiting, Members, Fields
<1>5. live' = live \ {r} /\ Others({r})
  BY <1>1, <1>2, <1>4, ReleaseIs
<1>6. \A q \in live' : Lag(q)' = Lag(q)
  BY <1>1, <1>2, <1>3, <1>5 DEF Lag, Unseen
<1>7. \A q \in live' : cached'[q] < device'[q] /\ device'[q] <= Len(ids'[q]) + Lag(q)'
  BY <1>4, <1>5, <1>6 DEF LensInv, Others
<1>8. \A q \in Queued' : ids'[q] /= <<>>
  BY <1>3, <1>4, <1>5 DEF LensInv, Others
<1>9. Sampled(last)' /\ Sampled(cur)'
  BY <1>1 DEF LensInv, Sampled
<1>. QED
  BY <1>1, <1>7, <1>8, <1>9 DEF LensInv

LEMMA LensEndTick == ASSUME LifeInv, LensInv, LifeInv', EndTick PROVE LensInv'
<1>1. /\ pc = "post" /\ pc' = "loop" /\ todo = <<>> /\ todo' = <<>> /\ deferred = {} /\ deferred' = {}
      /\ finished' = IF Overlap THEN (InLast \intersect InCur) \ (live \union last.partial) ELSE {}
      /\ last' = (IF Overlap THEN cur ELSE NoBatch) /\ cur' = NoBatch
      /\ Forget(finished)
      /\ UNCHANGED <<tree, free, kv, arrived, pending, chunk, running, live, budget, reserved>>
  BY DEF EndTick, cacheVars, adder, Data, InLast, InCur
<1>2. /\ Queued' = Queued /\ InTodo = {}
      /\ InLast' = IF Overlap THEN InCur ELSE {}
  BY <1>1, EmptyList, NoBatchIs DEF Queued, InTodo, InCur, InLast
<1>3. Others(finished)
  BY <1>1, ForgetIs
<1>4. live \subseteq Reqs /\ Queued \subseteq Reqs /\ finished \intersect live = {} /\ finished \intersect Queued = {}
  BY DEF LifeInv, Members, Phases
<1>5. ASSUME NEW q \in live' PROVE Lag(q)' = Lag(q)
  <2>1. q \in live /\ q \notin finished'
    BY <1>1, <1>5
  <2>2. Lag(q) = IF Overlap /\ q \in InCur \ cur.partial THEN 1 ELSE 0
    BY <1>1, <1>2, LagPost
  <2>3. Lag(q)' = IF q \in Unseen' THEN 1 ELSE 0
    BY <1>1 DEF Lag
  <2>4. Unseen' = InLast' \ (last'.partial \union finished')
    BY <1>1 DEF Unseen, InLast
  <2>5. q \in Unseen' <=> Overlap /\ q \in InCur \ cur.partial
    BY <1>1, <1>2, <2>1, <2>4
  <2>. QED  BY <2>2, <2>3, <2>5
<1>6. \A q \in live' : cached'[q] < device'[q] /\ device'[q] <= Len(ids'[q]) + Lag(q)'
  BY <1>1, <1>3, <1>4, <1>5 DEF LensInv, Others
<1>7. \A q \in Queued' : ids'[q] /= <<>>
  BY <1>2, <1>3, <1>4 DEF LensInv, Others
<1>8. Sampled(last)'
  BY <1>1, NoBatchIs DEF LensInv, Sampled
<1>. QED
  BY <1>1, <1>6, <1>7, <1>8 DEF LensInv

-----------------------------------------------------------------------------
(* What is held of the tree.                                                *)

LEMMA CountedSame ==
  ASSUME NEW t, NEW L, NEW h, NEW k, \A q \in L : k[q] = h[q], Counted(t, L, h)
  PROVE  Counted(t, L, k)
<1>1. ASSUME NEW n \in Nodes(t) PROVE t.ref[n] = Cardinality({q \in L : IsPrefix(n, k[q])})
  <2>1. {q \in L : IsPrefix(n, k[q])} = {q \in L : IsPrefix(n, h[q])}
    OBVIOUS
  <2>. QED  BY <2>1 DEF Counted
<1>. QED
  BY <1>1 DEF Counted

LEMMA HeldSame ==
  ASSUME HeldInv, tree' = tree, live' = live, \A q \in live : handle'[q] = handle[q]
  PROVE  HeldInv'
<1>1. Counted(tree, live, handle')
  BY CountedSame DEF HeldInv
<1>. QED
  BY <1>1 DEF HeldInv

\* Evicted nodes are unlocked, and whole subtrees.
LEMMA EvictionsIs ==
  ASSUME NEW need, NEW R \in Evictions(need)
  PROVE  /\ R \in SUBSET Unlocked(tree)
         /\ \A n \in R, m \in Nodes(tree) : IsPrefix(n, m) => m \in R
BY DEF Evictions, Removals

LEMMA LiveFinite == ASSUME CacheAssumption, LifeInv PROVE IsFiniteSet(live)
<1>1. live \subseteq Reqs
  BY DEF LifeInv, Members
<1>. QED
  BY <1>1, FS_Subset DEF CacheAssumption

LEMMA HeldEvicted ==
  ASSUME CacheAssumption, LifeInv, HeldInv, NEW need, NEW R \in Evictions(need),
         tree' = Without(tree, R), live' = live, handle' = handle
  PROVE  HeldInv'
<1>1. /\ R \in SUBSET Unlocked(tree) /\ R \in SUBSET Nodes(tree)
      /\ \A n \in R, m \in Nodes(tree) : IsPrefix(n, m) => m \in R
  BY EvictionsIs DEF Unlocked
<1>2. IsTree(tree, Tokens) /\ Counted(tree, live, handle) /\ IsFiniteSet(live)
  BY LiveFinite DEF HeldInv
<1>3. IsTree(Without(tree, R), Tokens)
  BY <1>1, <1>2, WithoutIs
<1>4. Counted(Without(tree, R), live, handle)
  BY <1>1, <1>2, WithoutCounted
<1>. QED
  BY <1>3, <1>4 DEF HeldInv

\* Computed text is text.
LEMMA CachedText ==
  ASSUME LifeInv, LensInv, NEW r \in live, NEW text \in Seq(Tokens),
         Lag(r) <= 1 + (Len(text) - Len(ids[r]))
  PROVE  cached[r] \in 0 .. Len(text) /\ SubSeq(text, 1, cached[r]) \in Seq(Tokens)
         /\ Len(SubSeq(text, 1, cached[r])) = cached[r]
<1>1. r \in Reqs
  BY DEF LifeInv, Members
<1>2. /\ cached[r] \in Nat /\ device[r] \in Nat /\ Len(ids[r]) \in Nat /\ Lag(r) \in Nat /\ Len(text) \in Nat
      /\ cached[r] < device[r] /\ device[r] <= Len(ids[r]) + Lag(r)
  BY <1>1, LagIs DEF LifeInv, Fields, LensInv
<1>3. cached[r] \in 0 .. Len(text)
  <2>1. \A c, d, l, g, t \in Nat : c < d /\ d <= l + g /\ g <= 1 + (t - l) => c \in 0 .. t
    OBVIOUS
  <2>. QED  BY <1>2, <2>1
<1>. QED
  BY <1>3, PrefixCut

\* When a request is released, its text has caught up.
LEMMA AbortText ==
  ASSUME LifeInv, LensInv, NEW r \in live, NEW text, text = ids[r],
         \/ pc \in {"wait", "recv"} /\ r \notin InLast
         \/ pc = "post" /\ todo = <<>> /\ r \in deferred
  PROVE  text \in Seq(Tokens) /\ Lag(r) <= 1 + (Len(text) - Len(ids[r]))
<1>1. r \in Reqs
  BY DEF LifeInv, Members
<1>2. text \in Seq(Tokens) /\ Len(text) \in Nat
  BY <1>1 DEF LifeInv, Fields
<1>3. Lag(r) <= 1
  <2>1. CASE pc \in {"wait", "recv"}
    BY <2>1 DEF Lag
  <2>2. CASE pc = "post" /\ r \in deferred
    <3>1. r \notin InCur
      BY <2>2 DEF LifeInv, Waiting
    <3>. QED  BY <2>2, <3>1 DEF Lag
  <2>. QED  BY <2>1, <2>2
<1>. QED
  BY <1>2, <1>3, LagIs

LEMMA SampledText ==
  ASSUME LifeInv, LensInv, pc = "post", NEW r \in InTodo, r \notin Skipped,
         NEW text, text = Append(ids[r], Data.token[r])
  PROVE  text \in Seq(Tokens) /\ r \in live /\ Lag(r) <= 1 + (Len(text) - Len(ids[r]))
<1>1. r \notin Data.partial /\ r \in live
  BY Processed DEF Skipped
<1>2. text \in Seq(Tokens) /\ Len(text) = Len(ids[r]) + 1 /\ r \in Reqs
  BY <1>1, DataToken
<1>3. Lag(r) <= 2
  BY DEF Lag
<1>4. Len(ids[r]) \in Nat
  BY <1>2 DEF LifeInv, Fields
<1>. QED
  BY <1>1, <1>2, <1>3, <1>4, LagIs

\* cache_req puts the computed text in the tree, and gives up the handle; a
\* request that goes on takes a new one.
LEMMA HeldRelease ==
  ASSUME CacheAssumption, LifeInv, LensInv, HeldInv, NEW r \in live, NEW text \in Seq(Tokens),
         Lag(r) <= 1 + (Len(text) - Len(ids[r])), Release(r, text), budget' = budget
  PROVE  HeldInv'
<1> DEFINE done == InsertPrefix(tree, SubSeq(text, 1, cached[r]), row[r]).tree
<1>1. IsTree(tree, Tokens) /\ Counted(tree, live, handle) /\ IsFiniteSet(live) /\ PageSize \in Nat \ {0}
      /\ live \subseteq Reqs
  BY LiveFinite DEF HeldInv, CacheAssumption, LifeInv, Members
<1>2. SubSeq(text, 1, cached[r]) \in Seq(Tokens)
  BY CachedText
<1>3. IsTree(done, Tokens) /\ Counted(done, live, handle)
  BY <1>1, <1>2, InsertIs
<1>4. live' = live \ {r} /\ Others({r}) /\ tree' = Unlock(done, handle[r])
  BY <1>1, ReleaseIs
<1> HIDE DEF done
<1>5. \A q \in live \ {r} : handle'[q] = handle[q]
  BY <1>1, <1>4 DEF Others
<1>6. Counted(Unlock(done, handle[r]), live \ {r}, handle') /\ IsTree(Unlock(done, handle[r]), Tokens)
  BY <1>1, <1>3, <1>5, UnlockCounted
<1>. QED
  BY <1>4, <1>6 DEF HeldInv

LEMMA HeldGoesOn ==
  ASSUME CacheAssumption, LifeInv, LensInv, HeldInv, NEW r \in live, NEW text \in Seq(Tokens),
         Lag(r) <= 1 + (Len(text) - Len(ids[r])), CacheReq(r, text, FALSE), live' = live
  PROVE  HeldInv'
<1> DEFINE new == InsertPrefix(tree, SubSeq(text, 1, cached[r]), row[r])
           done == new.tree
           path == new.path
           given == Unlock(done, handle[r])
<1>1. IsTree(tree, Tokens) /\ Counted(tree, live, handle) /\ IsFiniteSet(live) /\ PageSize \in Nat \ {0}
      /\ live \subseteq Reqs
  BY LiveFinite DEF HeldInv, CacheAssumption, LifeInv, Members
<1>2. SubSeq(text, 1, cached[r]) \in Seq(Tokens)
  BY CachedText
<1>3. IsTree(done, Tokens) /\ Counted(done, live, handle) /\ (path = Root \/ path \in Nodes(done))
  BY <1>1, <1>2, InsertIs
<1>4. tree' = Lock(given, path) /\ handle' = [handle EXCEPT ![r] = path]
  BY DEF CacheReq
<1> HIDE DEF new, done, path
<1>5. Counted(given, live \ {r}, handle) /\ IsTree(given, Tokens) /\ Nodes(given) = Nodes(done)
  BY <1>1, <1>3, UnlockCounted, LockIs
<1> HIDE DEF given
<1>6. handle'[r] = path /\ \A q \in live \ {r} : handle'[q] = handle[q]
  BY <1>1, <1>4 DEF LifeInv, Fields
<1>7. IsFiniteSet(live \ {r}) /\ r \notin live \ {r} /\ (live \ {r}) \union {r} = live
  BY <1>1, FS_Subset
<1> DEFINE rest == live \ {r}
<1>8. \A k : k = handle' => Counted(Lock(given, path), rest \union {r}, k) /\ IsTree(Lock(given, path), Tokens)
  <2> SUFFICES ASSUME NEW k, k = handle'
               PROVE  Counted(Lock(given, path), rest \union {r}, k) /\ IsTree(Lock(given, path), Tokens)
    OBVIOUS
  <2>1. /\ k[r] = path /\ (\A q \in rest : k[q] = handle[q]) /\ IsFiniteSet(rest) /\ r \notin rest
        /\ IsTree(given, Tokens) /\ Counted(given, rest, handle) /\ (path = Root \/ path \in Nodes(given))
    BY <1>3, <1>5, <1>6, <1>7
  <2> HIDE DEF rest
  <2>. QED  BY ONLY <2>1, LockCounted, ZenonT(40)
<1>. QED
  BY <1>4, <1>7, <1>8 DEF HeldInv

LEMMA HeldInit == ASSUME Init PROVE HeldInv
<1>1. tree = EmptyTree /\ live = {}
  BY DEF Init
<1>2. Nodes(EmptyTree) = {}
  BY DEF EmptyTree, Nodes
<1>. QED
  BY <1>1, <1>2, EmptyTreeIs DEF HeldInv, Counted

LEMMA HeldHandleUser == ASSUME HeldInv, NEW r \in Reqs, HandleUser(r) PROVE HeldInv'
<1>1. tree' = tree /\ live' = live /\ handle' = handle
  BY DEF HandleUser, cacheVars
<1>. QED  BY <1>1, HeldSame

LEMMA HeldHandleAbort ==
  ASSUME CacheAssumption, CacheInv, NEW r \in Reqs, HandleAbort(r) PROVE HeldInv'
<1>1. /\ pc \in {"wait", "recv"} /\ UNCHANGED <<last, finished, budget>>
      /\ r \in arrived /\ r \notin InLast \intersect finished
      /\ LifeInv /\ LensInv /\ HeldInv
  BY DEF HandleAbort, Receiving, adder, InLast, CacheInv
<1>2. CASE r \in InLast
  <2>1. UNCHANGED <<tree, live, handle>>
    BY <1>2 DEF HandleAbort, Fence, InLast, cacheVars, reqVars
  <2>. QED  BY <1>1, <2>1, HeldSame
<1>3. CASE r \notin InLast /\ r \in chunk \union running
  <2>1. Release(r, ids[r]) /\ r \in live
    BY <1>1, <1>3 DEF HandleAbort, Fence, InLast, LifeInv, Members
  <2>2. ids[r] \in Seq(Tokens) /\ Lag(r) <= 1 + (Len(ids[r]) - Len(ids[r]))
    BY <1>1, <1>3, <2>1, AbortText
  <2>. QED  BY <1>1, <2>1, <2>2, HeldRelease
<1>4. CASE r \notin InLast /\ r \notin chunk \union running
  <2>1. Forget({r}) /\ live' = live /\ tree' = tree
    BY <1>4 DEF HandleAbort, Fence, InLast, cacheVars
  <2>2. r \notin live /\ live \subseteq Reqs
    <3>1. cur = NoBatch /\ pc \notin {"admit", "forward", "post", "crashed", "failed"}
      BY <1>1 DEF LifeInv, Phases
    <3>. QED  BY <1>1, <1>4, <3>1 DEF LifeInv, AllKept, Kept, Waiting, Members
  <2>3. Others({r})
    BY <1>1, <2>1, ForgetIs
  <2>4. \A q \in live : handle'[q] = handle[q]
    BY <2>2, <2>3 DEF Others
  <2>. QED  BY <1>1, <2>1, <2>4, HeldSame
<1>. QED
  BY <1>2, <1>3, <1>4

LEMMA HeldAdmit == ASSUME CacheAssumption, CacheInv, Admit PROVE HeldInv'
<1> DEFINE match == MatchReq(First)
           t == Split(tree, match)
<1>1. /\ First \in Reqs /\ First \in Queued /\ First \notin live /\ live' = live \union {First}
      /\ handle' = [handle EXCEPT ![First] = match] /\ tree' = Lock(t, match)
  BY AdmitIs
<1>2. IsTree(tree, Tokens) /\ Counted(tree, live, handle) /\ IsFiniteSet(live) /\ live \subseteq Reqs
      /\ DOMAIN handle = Reqs
  BY LiveFinite DEF CacheInv, HeldInv, LifeInv, Members, Fields
<1>3. match = Root \/ match \in DOMAIN tree.page
  BY <1>1, <1>2, MatchIs DEF CacheInv, LensInv
<1> HIDE DEF match
<1>4. IsTree(t, Tokens) /\ Counted(t, live, handle) /\ (match = Root \/ match \in Nodes(t))
  BY <1>2, <1>3, SplitTree, SplitCounted, SplitIs
<1> HIDE DEF t
<1>5. handle'[First] = match /\ \A q \in live : handle'[q] = handle[q]
  BY <1>1, <1>2
<1>6. \A k : k = handle' => Counted(Lock(t, match), live \union {First}, k) /\ IsTree(Lock(t, match), Tokens)
  <2> SUFFICES ASSUME NEW k, k = handle'
               PROVE  Counted(Lock(t, match), live \union {First}, k) /\ IsTree(Lock(t, match), Tokens)
    OBVIOUS
  <2>1. /\ k[First] = match /\ (\A q \in live : k[q] = handle[q]) /\ First \notin live /\ IsFiniteSet(live)
        /\ IsTree(t, Tokens) /\ Counted(t, live, handle) /\ (match = Root \/ match \in Nodes(t))
    BY <1>1, <1>2, <1>4, <1>5
  <2>. QED  BY ONLY <2>1, LockCounted
<1>. QED
  BY <1>1, <1>6 DEF HeldInv

\* To find out that nothing fits, the match of the first has split a node.
LEMMA CloseBatchIs ==
  ASSUME CacheAssumption, CacheInv, CloseBatch
  PROVE  \E path : /\ tree' = Split(tree, path) /\ (path = Root \/ path \in DOMAIN tree.page)
                   /\ live' = live /\ handle' = handle
<1>1. live' = live /\ handle' = handle
  BY DEF CloseBatch, reqVars
<1>2. CASE MayTry
  <2>1. tree' = Split(tree, MatchReq(First))
    BY <1>2 DEF CloseBatch
  <2>2. First \in Reqs /\ First \in Queued
    BY <1>2, TailOnce DEF MayTry, First, CacheInv, LifeInv, Lists, Queued
  <2>3. MatchReq(First) = Root \/ MatchReq(First) \in DOMAIN tree.page
    BY <2>2, MatchIs DEF CacheInv, LensInv, HeldInv
  <2>. QED  BY <1>1, <2>1, <2>3
<1>3. CASE ~MayTry
  <2>1. tree' = tree
    BY <1>3 DEF CloseBatch
  <2>2. Split(tree, Root) = tree
    BY DEF Split
  <2>. QED  BY <1>1, <2>1, <2>2
<1>. QED
  BY <1>2, <1>3

LEMMA HeldCloseBatch == ASSUME CacheAssumption, CacheInv, CloseBatch PROVE HeldInv'
<1>1. PICK path : /\ tree' = Split(tree, path) /\ (path = Root \/ path \in DOMAIN tree.page)
                  /\ live' = live /\ handle' = handle
  BY CloseBatchIs
<1>2. IsTree(tree, Tokens) /\ Counted(tree, live, handle)
  BY DEF CacheInv, HeldInv
<1>3. IsTree(Split(tree, path), Tokens) /\ Counted(Split(tree, path), live, handle)
  BY <1>1, <1>2, SplitTree, SplitCounted
<1>. QED
  BY <1>1, <1>3 DEF HeldInv

LEMMA HeldForward == ASSUME CacheAssumption, CacheInv, Forward PROVE HeldInv'
<1>1. live' = live /\ handle' = handle /\ LifeInv /\ HeldInv
  BY ForwardIs DEF CacheInv
<1>2. CASE tree' = tree
  BY <1>1, <1>2, HeldSame
<1>3. CASE Launches
  <2>1. PICK R \in Evictions(Needed) : tree' = Without(tree, R)
    BY <1>3 DEF Launches, Allocate
  <2>. QED  BY <1>1, <2>1, HeldEvicted
<1>. QED
  BY <1>2, <1>3, ForwardIs

LEMMA HeldFailedPrepare == ASSUME CacheAssumption, CacheInv, FailedPrepare PROVE HeldInv'
<1>1. live' = live /\ handle' = handle /\ LifeInv /\ HeldInv
  BY DEF FailedPrepare, reqVars, CacheInv
<1>2. PICK R \in Evictions(Needed) : tree' = Without(tree, R)
  BY DEF FailedPrepare
<1>. QED
  BY <1>1, <1>2, HeldEvicted

LEMMA HeldPostProcess == ASSUME CacheAssumption, CacheInv, PostProcess PROVE HeldInv'
<1>0. PICK r, text : r = Head(todo) /\ text = Append(ids[r], Data.token[r])
  OBVIOUS
<1>1. /\ pc = "post" /\ budget' = budget /\ r \in InTodo
      /\ \/ r \in Skipped /\ Skips
         \/ r \notin Skipped /\ (Stops(r, text) \/ GoesOn(r, text))
      /\ LifeInv /\ LensInv /\ HeldInv
  BY <1>0, PostProcessIs DEF CacheInv
<1>2. CASE r \in Skipped /\ Skips
  <2>1. UNCHANGED <<tree, live, handle>>
    BY <1>2 DEF Skips
  <2>. QED  BY <1>1, <2>1, HeldSame
<1>3. CASE r \notin Skipped
  <2>1. text \in Seq(Tokens) /\ r \in live /\ Lag(r) <= 1 + (Len(text) - Len(ids[r]))
    BY <1>0, <1>1, <1>3, SampledText
  <2>2. CASE Stops(r, text)
    BY <1>1, <2>1, <2>2, HeldRelease DEF Stops
  <2>3. CASE GoesOn(r, text)
    <3>1. live' = live
      BY <2>3 DEF GoesOn
    <3>2. CASE Data.prefill
      BY <1>1, <2>1, <2>3, <3>1, <3>2, HeldGoesOn DEF GoesOn
    <3>3. CASE ~Data.prefill
      BY <1>1, <2>3, <3>1, <3>3, HeldSame DEF GoesOn
    <3>. QED  BY <3>2, <3>3
  <2>. QED  BY <1>1, <1>3, <2>2, <2>3
<1>. QED
  BY <1>1, <1>2, <1>3

LEMMA HeldFreeDeferred == ASSUME CacheAssumption, CacheInv, FreeDeferred PROVE HeldInv'
<1>1. /\ pc = "post" /\ todo = <<>> /\ budget' = budget /\ LifeInv /\ LensInv /\ HeldInv
  BY FreeDeferredIs DEF CacheInv
<1>2. PICK r \in deferred : Release(r, ids[r])
  BY <1>1, FreeDeferredIs
<1>3. r \in live
  BY <1>1 DEF LifeInv, Waiting
<1>4. ids[r] \in Seq(Tokens) /\ Lag(r) <= 1 + (Len(ids[r]) - Len(ids[r]))
  BY <1>1, <1>3, AbortText
<1>. QED
  BY <1>1, <1>2, <1>3, <1>4, HeldRelease

LEMMA HeldEndTick == ASSUME LifeInv, HeldInv, EndTick PROVE HeldInv'
<1>1. Forget(finished) /\ budget' = budget /\ tree' = tree /\ live' = live
  BY DEF EndTick, cacheVars, adder
<1>2. Others(finished)
  BY <1>1, ForgetIs
<1>3. live \subseteq Reqs /\ finished \intersect live = {}
  BY DEF LifeInv, Members, Phases
<1>4. \A q \in live : handle'[q] = handle[q]
  BY <1>2, <1>3 DEF Others
<1>. QED
  BY <1>1, <1>4, HeldSame

-----------------------------------------------------------------------------
(* The invariant, and what it says of the tree.                             *)

LEMMA InvNext == ASSUME CacheAssumption, CacheInv, [Next]_vars PROVE CacheInv'
<1>0. LifeInv /\ LensInv /\ HeldInv
  BY DEF CacheInv
<1>1. CASE UNCHANGED vars
  <2>1. LifeInv'
    BY <1>0, <1>1, LifeIdle
  <2>2. LensInv'
    BY <1>0, <1>1 DEF vars, cacheVars, reqVars, adder, batchVars, LensInv, Lag, Unseen, Data, Sampled, InCur, Queued
  <2>3. HeldInv'
    BY <1>0, <1>1 DEF vars, cacheVars, reqVars, HeldInv
  <2>. QED  BY <2>1, <2>2, <2>3 DEF CacheInv
<1>2. CASE StartTick
  <2>1. LifeInv'
    BY <1>0, <1>2, LifeStartTick
  <2>2. tree' = tree /\ live' = live /\ handle' = handle
    BY <1>2 DEF StartTick, cacheVars, reqVars
  <2>. QED  BY <1>0, <1>2, <2>1, <2>2, LensStartTick, HeldSame DEF CacheInv
<1>3. CASE EndReceive
  <2>1. LifeInv'
    BY <1>0, <1>3, LifeEndReceive
  <2>2. tree' = tree /\ live' = live /\ handle' = handle
    BY <1>3 DEF EndReceive, cacheVars, reqVars
  <2>. QED  BY <1>0, <1>3, <2>1, <2>2, LensEndReceive, HeldSame DEF CacheInv
<1>4. CASE Continue
  <2>1. LifeInv'
    BY <1>4, LifeContinue
  <2>2. tree' = tree /\ live' = live /\ handle' = handle
    BY <1>4 DEF Continue, cacheVars
  <2>. QED  BY <1>0, <1>4, <2>1, <2>2, LensContinue, HeldSame DEF CacheInv
<1>5. CASE Admit
  BY <1>5, LifeAdmit, LensAdmit, HeldAdmit DEF CacheInv
<1>6. CASE CloseBatch
  BY <1>0, <1>6, LifeCloseBatch, LensCloseBatch, HeldCloseBatch DEF CacheInv
<1>7. CASE Forward
  BY <1>0, <1>7, LifeForward, LensForward, HeldForward DEF CacheInv
<1>8. CASE FailedPrepare
  BY <1>0, <1>8, LifeFailedPrepare, LensFailedPrepare, HeldFailedPrepare DEF CacheInv
<1>9. CASE PostProcess
  BY <1>0, <1>9, LifePostProcess, LensPostProcess, HeldPostProcess DEF CacheInv
<1>10. CASE FreeDeferred
  BY <1>0, <1>10, LifeFreeDeferred, LensFreeDeferred, HeldFreeDeferred DEF CacheInv
<1>11. CASE EndTick
  BY <1>0, <1>11, LifeEndTick, LensEndTick, HeldEndTick DEF CacheInv
<1>12. ASSUME NEW r \in Reqs, HandleUser(r) PROVE CacheInv'
  BY <1>0, <1>12, LifeHandleUser, LensHandleUser, HeldHandleUser DEF CacheInv
<1>13. ASSUME NEW r \in Reqs, HandleAbort(r) PROVE CacheInv'
  BY <1>0, <1>13, LifeHandleAbort, LensHandleAbort, HeldHandleAbort DEF CacheInv
<1>. QED
  BY <1>1, <1>2, <1>3, <1>4, <1>5, <1>6, <1>7, <1>8, <1>9, <1>10, <1>11, <1>12, <1>13
     DEF Next, Step, Idle

(* The inductive invariant of the cache manager, its requests and its tree. *)
THEOREM CacheSafe == Spec => []CacheInv
<1>1. Init => CacheInv
  BY LifeInit, LensInit, HeldInit DEF CacheInv
<1>2. CacheInv /\ [Next]_vars => CacheInv'
  BY CacheAssumption, InvNext
<1>. QED  BY <1>1, <1>2, PTL DEF Spec

(* A node's reference count is the number of live requests whose handle lies
   at or below it: what lock_handle and unlock_handle do through splits,
   insertions and evictions on behalf of others. *)
THEOREM RefsCorrect == Spec => []RefsExact
<1>1. CacheInv => RefsExact
  BY DEF CacheInv, HeldInv, Counted, RefsExact
<1>. QED  BY <1>1, CacheSafe, PTL

(* What two cached texts share, page by page, they share in one node: so
   _tree_walk keeps the tree after every insertion and eviction. *)
THEOREM BranchingCorrect == Spec => []Branching
<1>1. CacheInv => Branching
  BY CacheAssumption, ForkIs DEF CacheInv, HeldInv, Branching, CacheAssumption
<1>. QED  BY <1>1, CacheSafe, PTL

-----------------------------------------------------------------------------
(* The sizes by which admission and eviction decide.                        *)

LEMMA SizesRelease ==
  ASSUME CacheAssumption, LifeInv, LensInv, HeldInv, NEW r \in live, NEW text \in Seq(Tokens),
         Lag(r) <= 1 + (Len(text) - Len(ids[r])), Release(r, text), Sized(tree)
  PROVE  Sized(tree')
<1> DEFINE done == InsertPrefix(tree, SubSeq(text, 1, cached[r]), row[r]).tree
<1>1. IsTree(tree, Tokens) /\ Counted(tree, live, handle) /\ IsFiniteSet(live) /\ PageSize \in Nat \ {0}
      /\ live \subseteq Reqs
  BY LiveFinite DEF HeldInv, CacheAssumption, LifeInv, Members
<1>2. SubSeq(text, 1, cached[r]) \in Seq(Tokens)
  BY CachedText
<1>3. IsTree(done, Tokens) /\ Counted(done, live, handle) /\ Sized(done)
  BY <1>1, <1>2, InsertIs, InsertSized
<1>4. tree' = Unlock(done, handle[r])
  BY DEF Release, CacheReq
<1> HIDE DEF done
<1>5. IsTree(Unlock(done, handle[r]), Tokens)
  BY <1>1, <1>3, UnlockCounted
<1>6. \A n \in Nodes(done) : IsPrefix(n, handle[r]) => done.ref[n] > 0
  BY <1>1, <1>3, CountedHeld
<1>7. Sized(Unlock(done, handle[r]))
  BY <1>3, <1>5, <1>6, UnlockSized
<1>. QED
  BY <1>4, <1>7

LEMMA SizesGoesOn ==
  ASSUME CacheAssumption, LifeInv, LensInv, HeldInv, HeldInv', NEW r \in live, NEW text \in Seq(Tokens),
         Lag(r) <= 1 + (Len(text) - Len(ids[r])), CacheReq(r, text, FALSE), Sized(tree)
  PROVE  Sized(tree')
<1> DEFINE new == InsertPrefix(tree, SubSeq(text, 1, cached[r]), row[r])
           done == new.tree
           path == new.path
           given == Unlock(done, handle[r])
           after == Lock(given, path)
<1>1. IsTree(tree, Tokens) /\ Counted(tree, live, handle) /\ IsFiniteSet(live) /\ PageSize \in Nat \ {0}
      /\ live \subseteq Reqs
  BY LiveFinite DEF HeldInv, CacheAssumption, LifeInv, Members
<1>2. SubSeq(text, 1, cached[r]) \in Seq(Tokens)
  BY CachedText
<1>3. IsTree(done, Tokens) /\ Counted(done, live, handle) /\ Sized(done)
  BY <1>1, <1>2, InsertIs, InsertSized
<1>4. tree' = after
  BY DEF CacheReq
<1> HIDE DEF new, done, path
<1>5. IsTree(given, Tokens)
  BY <1>1, <1>3, UnlockCounted
<1>6. \A n \in Nodes(done) : IsPrefix(n, handle[r]) => done.ref[n] > 0
  BY <1>1, <1>3, CountedHeld
<1>7. Sized(given)
  BY <1>3, <1>5, <1>6, UnlockSized
<1> HIDE DEF given
<1>8. IsTree(after, Tokens)
  BY <1>4 DEF HeldInv
<1>9. Sized(after)
  BY <1>5, <1>7, <1>8, LockSized
<1>. QED
  BY <1>4, <1>9

LEMMA SizesEvicted ==
  ASSUME HeldInv, Sized(tree), NEW need, NEW R \in Evictions(need), tree' = Without(tree, R)
  PROVE  Sized(tree')
<1>1. R \in SUBSET Unlocked(tree) /\ (\A n \in R, m \in Nodes(tree) : IsPrefix(n, m) => m \in R)
      /\ IsTree(tree, Tokens)
  BY EvictionsIs DEF HeldInv
<1>2. Sized(Without(tree, R))
  BY <1>1, WithoutSized
<1>. QED
  BY <1>2

LEMMA SizesAdmit == ASSUME CacheAssumption, CacheInv, HeldInv', Admit, Sized(tree) PROVE Sized(tree')
<1> DEFINE match == MatchReq(First)
           t == Split(tree, match)
           u == Lock(t, match)
<1>1. First \in Reqs /\ First \in Queued /\ tree' = u
  BY AdmitIs
<1>2. IsTree(tree, Tokens) /\ IsTree(u, Tokens)
  BY <1>1 DEF CacheInv, HeldInv
<1>3. match = Root \/ match \in DOMAIN tree.page
  BY <1>1, <1>2, MatchIs DEF CacheInv, LensInv
<1> HIDE DEF match
<1>4. IsTree(t, Tokens) /\ Sized(t)
  BY <1>2, <1>3, SplitTree, SplitSized
<1> HIDE DEF t
<1>5. Sized(u)
  BY <1>2, <1>4, LockSized
<1>. QED
  BY <1>1, <1>5

LEMMA SizesHandleAbort ==
  ASSUME CacheAssumption, CacheInv, NEW r \in Reqs, HandleAbort(r), Sized(tree) PROVE Sized(tree')
<1>1. pc \in {"wait", "recv"} /\ LifeInv /\ LensInv /\ HeldInv
  BY DEF HandleAbort, Receiving, CacheInv
<1>2. CASE r \notin InLast /\ r \in chunk \union running
  <2>1. Release(r, ids[r]) /\ r \in live
    BY <1>1, <1>2 DEF HandleAbort, Fence, InLast, LifeInv, Members
  <2>2. ids[r] \in Seq(Tokens) /\ Lag(r) <= 1 + (Len(ids[r]) - Len(ids[r]))
    BY <1>1, <1>2, <2>1, AbortText
  <2>. QED  BY <1>1, <2>1, <2>2, SizesRelease
<1>3. CASE r \in InLast \/ r \notin chunk \union running
  <2>1. tree' = tree
    BY <1>3 DEF HandleAbort, Fence, InLast, cacheVars
  <2>. QED  BY <2>1
<1>. QED
  BY <1>2, <1>3

LEMMA SizesPostProcess ==
  ASSUME CacheAssumption, CacheInv, HeldInv', PostProcess, Sized(tree) PROVE Sized(tree')
<1>0. PICK r, text : r = Head(todo) /\ text = Append(ids[r], Data.token[r])
  OBVIOUS
<1>1. /\ pc = "post" /\ r \in InTodo
      /\ \/ r \in Skipped /\ Skips
         \/ r \notin Skipped /\ (Stops(r, text) \/ GoesOn(r, text))
      /\ LifeInv /\ LensInv /\ HeldInv
  BY <1>0, PostProcessIs DEF CacheInv
<1>2. CASE r \in Skipped /\ Skips
  <2>1. tree' = tree
    BY <1>2 DEF Skips
  <2>. QED  BY <2>1
<1>3. CASE r \notin Skipped
  <2>1. text \in Seq(Tokens) /\ r \in live /\ Lag(r) <= 1 + (Len(text) - Len(ids[r]))
    BY <1>0, <1>1, <1>3, SampledText
  <2>2. CASE Stops(r, text)
    BY <1>1, <2>1, <2>2, SizesRelease DEF Stops
  <2>3. CASE GoesOn(r, text)
    <3>1. CASE Data.prefill
      BY <1>1, <2>1, <2>3, <3>1, SizesGoesOn DEF GoesOn
    <3>2. CASE ~Data.prefill
      <4>1. tree' = tree
        BY <2>3, <3>2 DEF GoesOn
      <4>. QED  BY <4>1
    <3>. QED  BY <3>1, <3>2
  <2>. QED  BY <1>1, <1>3, <2>2, <2>3
<1>. QED
  BY <1>1, <1>2, <1>3

LEMMA SizesNext ==
  ASSUME CacheAssumption, CacheInv, CacheInv', [Next]_vars, Sized(tree) PROVE Sized(tree')
<1>0. LifeInv /\ LensInv /\ HeldInv /\ HeldInv'
  BY DEF CacheInv
<1>1. CASE tree' = tree
  BY <1>1
<1>2. CASE Admit
  BY <1>0, <1>2, SizesAdmit
<1>3. CASE CloseBatch
  <2>1. PICK path : tree' = Split(tree, path) /\ (path = Root \/ path \in DOMAIN tree.page)
    BY <1>3, CloseBatchIs
  <2>2. Sized(Split(tree, path))
    BY <1>0, <2>1, SplitSized DEF HeldInv
  <2>. QED  BY <2>1, <2>2
<1>4. CASE Forward
  <2>1. CASE Launches
    <3>1. PICK R \in Evictions(Needed) : tree' = Without(tree, R)
      BY <2>1 DEF Launches, Allocate
    <3>. QED  BY <1>0, <3>1, SizesEvicted
  <2>. QED  BY <1>1, <1>4, <2>1, ForwardIs
<1>5. CASE FailedPrepare
  <2>1. PICK R \in Evictions(Needed) : tree' = Without(tree, R)
    BY <1>5 DEF FailedPrepare
  <2>. QED  BY <1>0, <2>1, SizesEvicted
<1>6. CASE PostProcess
  BY <1>0, <1>6, SizesPostProcess
<1>7. CASE FreeDeferred
  <2>1. /\ pc = "post" /\ todo = <<>> /\ \E r \in deferred : Release(r, ids[r])
    BY <1>0, <1>7, FreeDeferredIs
  <2>2. PICK r \in deferred : Release(r, ids[r])
    BY <2>1
  <2>3. r \in live
    BY <1>0, <2>1 DEF LifeInv, Waiting
  <2>4. ids[r] \in Seq(Tokens) /\ Lag(r) <= 1 + (Len(ids[r]) - Len(ids[r]))
    BY <1>0, <2>1, <2>3, AbortText
  <2>. QED  BY <1>0, <2>2, <2>3, <2>4, SizesRelease
<1>8. ASSUME NEW r \in Reqs, HandleAbort(r) PROVE Sized(tree')
  BY <1>8, SizesHandleAbort
<1>9. CASE UNCHANGED vars \/ StartTick \/ EndReceive \/ Continue \/ EndTick \/ Idle
           \/ \E r \in Reqs : HandleUser(r)
  <2>1. tree' = tree
    BY <1>9 DEF StartTick, EndReceive, Continue, EndTick, Idle, HandleUser, vars, cacheVars
  <2>. QED  BY <2>1
<1>. QED
  BY <1>2, <1>3, <1>4, <1>5, <1>6, <1>7, <1>8, <1>9 DEF Next, Step

(* evictable_size and protected_size are what the unlocked and the locked nodes
   hold, through splits, insertions, evictions and the locks of every request. *)
THEOREM SizesCorrect == Spec => []SizesExact
<1>1. Init => Sized(tree)
  BY EmptySized DEF Init
<1>2. CacheInv /\ CacheInv' /\ [Next]_vars /\ Sized(tree) => Sized(tree)'
  BY CacheAssumption, SizesNext
<1>3. Sized(tree) => SizesExact
  BY DEF Sized, SizesExact
<1>. QED
  BY <1>1, <1>2, <1>3, CacheSafe, PTL DEF Spec

(* The tree is what admission and eviction take it for. *)
THEOREM TreeCorrect == Spec => []TreeSound
<1>1. SizesExact /\ Branching => TreeSound
  BY DEF TreeSound
<1>. QED
  BY <1>1, SizesCorrect, BranchingCorrect, PTL

-----------------------------------------------------------------------------
(* The cache is a prefix store.                                             *)

\* What is stored is a function, as the operations build it.
Paged(t) == t.page = [p \in DOMAIN t.page |-> t.page[p]]

\* Everything stored stays where it is.
Keeps(t, u) == DOMAIN t.page \subseteq DOMAIN u.page /\ \A p \in DOMAIN t.page : u.page[p] = t.page[p]

LEMMA PagedSame == ASSUME NEW t, NEW u, u.page = t.page, Paged(t) PROVE Paged(u) /\ Keeps(t, u)
BY DEF Paged, Keeps

LEMMA PagedInsert ==
  ASSUME PageSize \in Nat \ {0}, NEW S, NEW t, IsTree(t, S), NEW text \in Seq(S), NEW pages, Paged(t)
  PROVE  Paged(InsertPrefix(t, text, pages).tree)
<1> DEFINE key == SubSeq(text, 1, AlignDown(Len(text)))
           known == Matched(t, key)
<1>1. InsertPrefix(t, text, pages).tree = IF known = key THEN Split(t, known) ELSE Inserted(t, key, pages)
  BY DEF InsertPrefix
<1>2. key \in Seq(S)
  <2>1. AlignDown(Len(text)) \in 0 .. Len(text)
    BY AlignIs
  <2>. QED  BY <2>1, PrefixCut
<1> HIDE DEF key
<1>3. known = Root \/ known \in DOMAIN t.page
  BY <1>2, MatchedIs
<1> HIDE DEF known
<1>4. DOMAIN Split(t, known) = DOMAIN t /\ Split(t, known).page = t.page
  BY <1>3, SplitIs
<1>5. "page" \in DOMAIN Split(t, known)
  BY <1>4 DEF IsTree
<1>6. CASE known = key
  BY <1>1, <1>4, <1>6, PagedSame
<1>7. CASE known /= key
  <2> DEFINE new == {k \in Len(known) + 1 .. Len(key) : k % PageSize = 0}
             D == DOMAIN t.page \union {SubSeq(key, 1, k) : k \in new}
             f == [p \in D |-> IF p \in DOMAIN t.page THEN t.page[p] ELSE pages[Len(p) \div PageSize]]
  <2>1. Inserted(t, key, pages).page = f
    BY <1>4, <1>5 DEF Inserted, known
  <2>2. f = [p \in DOMAIN f |-> f[p]]
    OBVIOUS
  <2> HIDE DEF f
  <2>. QED  BY <1>1, <1>7, <2>1, <2>2 DEF Paged
<1>. QED
  BY <1>6, <1>7

LEMMA PagedWithout == ASSUME NEW t, NEW S, IsTree(t, S), NEW R PROVE Paged(Without(t, R))
<1> DEFINE left == Nodes(t) \ R
           keep == {p \in DOMAIN t.page : \E n \in left : IsPrefix(p, n)}
           f == [p \in keep |-> t.page[p]]
<1>1. Without(t, R).page = f
  BY DEF Without, IsTree
<1>2. f = [p \in DOMAIN f |-> f[p]]
  OBVIOUS
<1> HIDE DEF f
<1>. QED
  BY <1>1, <1>2 DEF Paged

LEMMA InsertKeeps ==
  ASSUME PageSize \in Nat \ {0}, NEW S, NEW t, IsTree(t, S), NEW text \in Seq(S), NEW pages,
         NEW L, NEW h, Counted(t, L, h)
  PROVE  Keeps(t, InsertPrefix(t, text, pages).tree)
<1> DEFINE done == InsertPrefix(t, text, pages)
<1>1. /\ DOMAIN t.page \subseteq DOMAIN done.tree.page
      /\ \A p \in DOMAIN t.page : done.tree.page[p] = t.page[p]
  BY InsertIs
<1> HIDE DEF done
<1>2. Keeps(t, done.tree)
  BY <1>1 DEF Keeps
<1>. QED
  BY <1>2 DEF done

\* The store's own operators are those of the cache.
LEMMA StoreIs ==
  /\ \A s, t : Store!IsPrefix(s, t) <=> IsPrefix(s, t)
  /\ Store!Nothing = Root
BY DEF Store!IsPrefix, IsPrefix, Store!Nothing, Root

Pins == [r \in Reqs |-> IF r \in live THEN handle[r] ELSE Root]

LEMMA StoreStutter ==
  ASSUME live \subseteq Reqs, tree'.page = tree.page, live' = live, \A q \in live : handle'[q] = handle[q]
  PROVE  UNCHANGED Store!storeVars
BY DEF Store!storeVars

\* A request contributes what it has computed, and pins something else.
LEMMA StoreContributes ==
  ASSUME NEW r \in Reqs, NEW text, text = Root \/ text \in DOMAIN tree'.page,
         Paged(tree), Keeps(tree, tree'), Pins' = [Pins EXCEPT ![r] = text]
  PROVE  Store!Next
<1>1. Store!Restrict(tree'.page, DOMAIN tree.page) = tree.page
  BY DEF Store!Restrict, Paged, Keeps
<1>2. Store!Contribute(r, text)
  BY <1>1, StoreIs DEF Store!Contribute, Keeps, Pins
<1>3. text \in DOMAIN tree'.page \union {Store!Nothing}
  BY StoreIs
<1>. QED
  BY <1>2, <1>3 DEF Store!Next

LEMMA StoreRelease ==
  ASSUME CacheAssumption, CacheInv, Paged(tree), NEW r \in live, NEW text \in Seq(Tokens),
         Lag(r) <= 1 + (Len(text) - Len(ids[r])), Release(r, text), budget' = budget
  PROVE  Store!Next /\ Paged(tree)'
<1> DEFINE done == InsertPrefix(tree, SubSeq(text, 1, cached[r]), row[r]).tree
<1>0. LifeInv /\ LensInv /\ HeldInv
  BY DEF CacheInv
<1>1. IsTree(tree, Tokens) /\ Counted(tree, live, handle) /\ PageSize \in Nat \ {0}
      /\ live \subseteq Reqs
  BY <1>0 DEF HeldInv, CacheAssumption, LifeInv, Members
<1>2. SubSeq(text, 1, cached[r]) \in Seq(Tokens)
  BY <1>0, CachedText
<1>3. IsTree(done, Tokens)
  BY <1>1, <1>2, InsertIs
<1>a. Keeps(tree, done)
  BY <1>1, <1>2, InsertKeeps
<1>4. live' = live \ {r} /\ Others({r}) /\ tree' = Unlock(done, handle[r])
  BY <1>0, <1>1, ReleaseIs
<1>5. Paged(done)
  BY <1>1, <1>2, PagedInsert
<1> HIDE DEF done
<1>6. tree'.page = done.page
  BY <1>3, <1>4, LockIs
<1>7. Paged(tree)' /\ Keeps(tree, tree')
  BY <1>3, <1>a, <1>5, <1>6 DEF Paged, Keeps
<1>8. Pins' = [Pins EXCEPT ![r] = Root]
  BY <1>1, <1>4 DEF Pins, Others
<1>. QED
  BY <1>1, <1>7, <1>8, StoreContributes

LEMMA StoreGoesOn ==
  ASSUME CacheAssumption, CacheInv, Paged(tree), NEW r \in live, NEW text \in Seq(Tokens),
         Lag(r) <= 1 + (Len(text) - Len(ids[r])), CacheReq(r, text, FALSE), live' = live
  PROVE  Store!Next /\ Paged(tree)'
<1> DEFINE new == InsertPrefix(tree, SubSeq(text, 1, cached[r]), row[r])
           done == new.tree
           path == new.path
           given == Unlock(done, handle[r])
<1>0. LifeInv /\ LensInv /\ HeldInv
  BY DEF CacheInv
<1>1. IsTree(tree, Tokens) /\ Counted(tree, live, handle) /\ PageSize \in Nat \ {0} /\ IsFiniteSet(live)
      /\ live \subseteq Reqs
  BY <1>0, LiveFinite DEF HeldInv, CacheAssumption, LifeInv, Members
<1>2. SubSeq(text, 1, cached[r]) \in Seq(Tokens)
  BY <1>0, CachedText
<1>3. IsTree(done, Tokens) /\ Counted(done, live, handle) /\ (path = Root \/ path \in Nodes(done))
  BY <1>1, <1>2, InsertIs
<1>a. Keeps(tree, done)
  BY <1>1, <1>2, InsertKeeps
<1>4. tree' = Lock(given, path) /\ handle' = [handle EXCEPT ![r] = path]
  BY DEF CacheReq
<1>5. Paged(done)
  BY <1>1, <1>2, PagedInsert
<1> HIDE DEF new, done, path
<1>6. IsTree(given, Tokens) /\ given.page = done.page
  BY <1>1, <1>3, UnlockCounted, LockIs
<1> HIDE DEF given
<1>7. tree'.page = done.page
  BY <1>4, <1>6, LockIs
<1>8. Paged(tree)' /\ Keeps(tree, tree')
  BY <1>3, <1>a, <1>5, <1>7 DEF Paged, Keeps
<1>9. Pins' = [Pins EXCEPT ![r] = path]
  <2>1. DOMAIN handle = Reqs
    BY <1>0 DEF LifeInv, Fields
  <2>. QED  BY <1>1, <1>4, <2>1 DEF Pins
<1>10. path = Root \/ path \in DOMAIN tree'.page
  BY <1>3, <1>7, TreeTexts
<1>. QED
  BY <1>1, <1>8, <1>9, <1>10, StoreContributes

LEMMA StoreAdmit == ASSUME CacheAssumption, CacheInv, Paged(tree), Admit PROVE Store!Next /\ Paged(tree)'
<1> DEFINE match == MatchReq(First)
           t == Split(tree, match)
<1>1. /\ First \in Reqs /\ First \in Queued /\ First \notin live /\ live' = live \union {First}
      /\ handle' = [handle EXCEPT ![First] = match] /\ tree' = Lock(t, match)
  BY AdmitIs
<1>2. IsTree(tree, Tokens) /\ DOMAIN handle = Reqs /\ live \subseteq Reqs
  BY DEF CacheInv, HeldInv, LifeInv, Fields, Members
<1>3. match = Root \/ match \in DOMAIN tree.page
  BY <1>1, <1>2, MatchIs DEF CacheInv, LensInv
<1> HIDE DEF match
<1>4. IsTree(t, Tokens) /\ t.page = tree.page
  BY <1>2, <1>3, SplitTree, SplitIs
<1> HIDE DEF t
<1>5. tree'.page = tree.page
  BY <1>1, <1>4, LockIs
<1>6. Paged(tree)' /\ Keeps(tree, tree')
  BY <1>5 DEF Paged, Keeps
<1>7. Pins' = [Pins EXCEPT ![First] = match]
  BY <1>1, <1>2 DEF Pins
<1>. QED
  BY <1>1, <1>3, <1>5, <1>6, <1>7, StoreContributes

\* Evicting drops what no pin needs.
LEMMA StoreDrops ==
  ASSUME CacheAssumption, CacheInv, NEW need, NEW R \in Evictions(need),
         tree' = Without(tree, R), live' = live, handle' = handle
  PROVE  Store!Next /\ Paged(tree)'
<1> DEFINE u == Without(tree, R)
<1>0. LifeInv /\ HeldInv
  BY DEF CacheInv
<1>1. /\ R \in SUBSET Unlocked(tree) /\ R \in SUBSET Nodes(tree)
      /\ \A n \in R, m \in Nodes(tree) : IsPrefix(n, m) => m \in R
  BY EvictionsIs DEF Unlocked
<1>2. IsTree(tree, Tokens) /\ Counted(tree, live, handle) /\ IsFiniteSet(live)
  BY <1>0, LiveFinite DEF HeldInv
<1>3. Paged(u)
  BY <1>2, PagedWithout
<1>4. /\ DOMAIN u.page = {p \in DOMAIN tree.page : \E n \in Nodes(tree) \ R : IsPrefix(p, n)}
      /\ \A p \in DOMAIN u.page : u.page[p] = tree.page[p]
  BY <1>1, <1>2, WithoutIs
<1>5. \A r \in live, p \in DOMAIN tree.page : IsPrefix(p, handle[r]) => p \in DOMAIN u.page
  BY <1>1, <1>2, WithoutCounted
<1> HIDE DEF u
<1>6. tree' = u
  BY DEF u
<1>7. u.page = Store!Restrict(tree.page, DOMAIN u.page)
  BY <1>3, <1>4 DEF Paged, Store!Restrict
<1>8. ASSUME NEW gone \in DOMAIN tree.page \ DOMAIN u.page
      PROVE  /\ \A r \in Reqs : ~IsPrefix(gone, Pins[r])
             /\ \A text \in DOMAIN u.page : ~IsPrefix(gone, text)
  <2>1. gone \in Seq(Tokens) /\ gone /= Root
    BY <1>2, TreeTexts
  <2>2. ASSUME NEW r \in Reqs PROVE ~IsPrefix(gone, Pins[r])
    <3>1. CASE r \in live
      BY <1>5, <3>1 DEF Pins
    <3>2. CASE r \notin live
      BY <2>1, <3>2, PrefixOrder DEF Pins
    <3>. QED  BY <3>1, <3>2
  <2>3. ASSUME NEW text \in DOMAIN u.page, IsPrefix(gone, text) PROVE FALSE
    <3>1. PICK n \in Nodes(tree) \ R : IsPrefix(text, n)
      BY <1>4, <2>3
    <3>2. text \in Seq(Tokens) /\ n \in Seq(Tokens)
      BY <1>2, <1>4, TreeTexts
    <3>3. IsPrefix(gone, n)
      BY <2>1, <2>3, <3>1, <3>2, PrefixOrder
    <3>. QED  BY <1>4, <3>3
  <2>. QED  BY <2>2, <2>3
<1>9. Store!Drop
  <2>1. DOMAIN u.page \subseteq DOMAIN tree.page
    BY <1>4
  <2>2. Pins' = Pins
    BY DEF Pins
  <2>. QED  BY <1>6, <1>7, <1>8, <2>1, <2>2, StoreIs DEF Store!Drop, Pins
<1>. QED
  BY <1>3, <1>6, <1>9 DEF Store!Next, Paged

LEMMA StoreStays ==
  ASSUME CacheInv, Paged(tree), tree'.page = tree.page, live' = live, \A q \in live : handle'[q] = handle[q]
  PROVE  UNCHANGED Store!storeVars /\ Paged(tree)'
<1>1. live \subseteq Reqs
  BY DEF CacheInv, LifeInv, Members
<1>. QED
  BY <1>1, StoreStutter DEF Paged

LEMMA StoreHandleAbort ==
  ASSUME CacheAssumption, CacheInv, Paged(tree), NEW r \in Reqs, HandleAbort(r)
  PROVE  [Store!Next]_(Store!storeVars) /\ Paged(tree)'
<1>1. /\ pc \in {"wait", "recv"} /\ UNCHANGED <<last, finished, budget>>
      /\ LifeInv /\ LensInv /\ HeldInv
  BY DEF HandleAbort, Receiving, adder, InLast, CacheInv
<1>2. CASE r \in InLast
  <2>1. UNCHANGED <<tree, live, handle>>
    BY <1>2 DEF HandleAbort, Fence, InLast, cacheVars, reqVars
  <2>. QED  BY <2>1, StoreStays
<1>3. CASE r \notin InLast /\ r \in chunk \union running
  <2>1. Release(r, ids[r]) /\ r \in live
    BY <1>1, <1>3 DEF HandleAbort, Fence, InLast, LifeInv, Members
  <2>2. ids[r] \in Seq(Tokens) /\ Lag(r) <= 1 + (Len(ids[r]) - Len(ids[r]))
    BY <1>1, <1>3, <2>1, AbortText
  <2>. QED  BY <1>1, <2>1, <2>2, StoreRelease
<1>4. CASE r \notin InLast /\ r \notin chunk \union running
  <2>1. Forget({r}) /\ live' = live /\ tree' = tree
    BY <1>4 DEF HandleAbort, Fence, InLast, cacheVars
  <2>2. r \notin live /\ live \subseteq Reqs
    <3>1. cur = NoBatch /\ pc \notin {"admit", "forward", "post", "crashed", "failed"}
      BY <1>1 DEF LifeInv, Phases
    <3>. QED  BY <1>1, <1>4, <3>1 DEF LifeInv, AllKept, Kept, Waiting, Members
  <2>3. Others({r})
    BY <1>1, <2>1, ForgetIs
  <2>4. \A q \in live : handle'[q] = handle[q]
    BY <2>2, <2>3 DEF Others
  <2>. QED  BY <2>1, <2>4, StoreStays
<1>. QED
  BY <1>2, <1>3, <1>4

LEMMA StorePostProcess ==
  ASSUME CacheAssumption, CacheInv, Paged(tree), PostProcess
  PROVE  [Store!Next]_(Store!storeVars) /\ Paged(tree)'
<1>0. PICK r, text : r = Head(todo) /\ text = Append(ids[r], Data.token[r])
  OBVIOUS
<1>1. /\ pc = "post" /\ budget' = budget /\ r \in InTodo
      /\ \/ r \in Skipped /\ Skips
         \/ r \notin Skipped /\ (Stops(r, text) \/ GoesOn(r, text))
      /\ LifeInv /\ LensInv
  BY <1>0, PostProcessIs DEF CacheInv
<1>2. CASE r \in Skipped /\ Skips
  <2>1. UNCHANGED <<tree, live, handle>>
    BY <1>2 DEF Skips
  <2>. QED  BY <2>1, StoreStays
<1>3. CASE r \notin Skipped
  <2>1. text \in Seq(Tokens) /\ r \in live /\ Lag(r) <= 1 + (Len(text) - Len(ids[r]))
    BY <1>0, <1>1, <1>3, SampledText
  <2>2. CASE Stops(r, text)
    BY <1>1, <2>1, <2>2, StoreRelease DEF Stops
  <2>3. CASE GoesOn(r, text)
    <3>1. live' = live
      BY <2>3 DEF GoesOn
    <3>2. CASE Data.prefill
      BY <2>1, <2>3, <3>1, <3>2, StoreGoesOn DEF GoesOn
    <3>3. CASE ~Data.prefill
      BY <2>3, <3>1, <3>3, StoreStays DEF GoesOn
    <3>. QED  BY <3>2, <3>3
  <2>. QED  BY <1>1, <1>3, <2>2, <2>3
<1>. QED
  BY <1>1, <1>2, <1>3

LEMMA StoreNext ==
  ASSUME CacheAssumption, CacheInv, Paged(tree), [Next]_vars
  PROVE  [Store!Next]_(Store!storeVars) /\ Paged(tree)'
<1>0. LifeInv /\ LensInv /\ HeldInv /\ IsTree(tree, Tokens)
  BY DEF CacheInv, HeldInv
<1>1. CASE UNCHANGED vars
  BY <1>1, StoreStays DEF vars, cacheVars, reqVars
<1>2. CASE StartTick \/ EndReceive \/ Continue \/ \E r \in Reqs : HandleUser(r)
  <2>1. tree' = tree /\ live' = live /\ handle' = handle
    BY <1>2 DEF StartTick, EndReceive, Continue, HandleUser, cacheVars, reqVars
  <2>. QED  BY <2>1, StoreStays
<1>3. CASE Admit
  BY <1>3, StoreAdmit
<1>4. CASE CloseBatch
  <2>1. PICK path : /\ tree' = Split(tree, path) /\ (path = Root \/ path \in DOMAIN tree.page)
                    /\ live' = live /\ handle' = handle
    BY <1>4, CloseBatchIs
  <2>2. tree'.page = tree.page
    BY <1>0, <2>1, SplitIs
  <2>. QED  BY <2>1, <2>2, StoreStays
<1>5. CASE Forward
  <2>1. live' = live /\ handle' = handle
    BY <1>5, ForwardIs
  <2>2. CASE tree' = tree
    BY <2>1, <2>2, StoreStays
  <2>3. CASE Launches
    <3>1. PICK R \in Evictions(Needed) : tree' = Without(tree, R)
      BY <2>3 DEF Launches, Allocate
    <3>. QED  BY <2>1, <3>1, StoreDrops
  <2>. QED  BY <1>5, <2>2, <2>3, ForwardIs
<1>6. CASE FailedPrepare
  <2>1. live' = live /\ handle' = handle
    BY <1>6 DEF FailedPrepare, reqVars
  <2>2. PICK R \in Evictions(Needed) : tree' = Without(tree, R)
    BY <1>6 DEF FailedPrepare
  <2>. QED  BY <2>1, <2>2, StoreDrops
<1>7. CASE PostProcess
  BY <1>7, StorePostProcess
<1>8. CASE FreeDeferred
  <2>1. /\ pc = "post" /\ todo = <<>> /\ budget' = budget
    BY <1>0, <1>8, FreeDeferredIs
  <2>2. PICK r \in deferred : Release(r, ids[r])
    BY <1>0, <1>8, FreeDeferredIs
  <2>3. r \in live
    BY <1>0 DEF LifeInv, Waiting
  <2>4. ids[r] \in Seq(Tokens) /\ Lag(r) <= 1 + (Len(ids[r]) - Len(ids[r]))
    BY <1>0, <2>1, <2>3, AbortText
  <2>. QED  BY <2>1, <2>2, <2>3, <2>4, StoreRelease
<1>9. CASE EndTick
  <2>1. Forget(finished) /\ budget' = budget /\ tree' = tree /\ live' = live
    BY <1>9 DEF EndTick, cacheVars, adder
  <2>2. Others(finished) /\ live \subseteq Reqs /\ finished \intersect live = {}
    BY <1>0, <2>1, ForgetIs DEF LifeInv, Members, Phases
  <2>3. \A q \in live : handle'[q] = handle[q]
    BY <2>2 DEF Others
  <2>. QED  BY <2>1, <2>3, StoreStays
<1>10. ASSUME NEW r \in Reqs, HandleAbort(r) PROVE [Store!Next]_(Store!storeVars) /\ Paged(tree)'
  BY <1>10, StoreHandleAbort
<1>. QED
  BY <1>1, <1>2, <1>3, <1>4, <1>5, <1>6, <1>7, <1>8, <1>9, <1>10 DEF Next, Step, Idle

LEMMA StoreInit == ASSUME Init PROVE Store!Init /\ Paged(tree)
<1>1. tree.page = <<>> /\ live = {}
  BY DEF Init, EmptyTree
<1>2. <<>> = [p \in {} |-> <<>>[p]]
  OBVIOUS
<1>. QED
  BY <1>1, <1>2, StoreIs DEF Store!Init, Store!Nothing, Paged

(* CacheManager implements PrefixStore: what a request has locked, and every
   prefix of it, keeps its page until the request lets go, whatever is
   inserted, split or evicted on behalf of others. *)
THEOREM StoreRefined == Spec => IsPrefixStore
<1>1. Init => Store!Init /\ CacheInv /\ Paged(tree)
  BY StoreInit, LifeInit, LensInit, HeldInit DEF CacheInv
<1>2. CacheInv /\ Paged(tree) /\ [Next]_vars => (CacheInv /\ Paged(tree))' /\ [Store!Next]_(Store!storeVars)
  BY CacheAssumption, InvNext, StoreNext
<1>. QED
  BY <1>1, <1>2, PTL DEF Spec, IsPrefixStore, Store!Spec

-----------------------------------------------------------------------------
(* Pages.  Every page is in one place, and what each step moves, it moves  *)
(* whole.                                                                   *)

\* The pages of a row beyond the handle, and how often each row has a page so
OwnOf(w, h) == SubSeq(w, Len(h) \div PageSize + 1, Len(w))
Owned(x, L, w, h) == [r \in L |-> Count(x, OwnOf(w[r], h[r]))]

\* How often a page is free, cached or a row's own
Spread(x, f, t, L, w, h) == Count(x, f) + Cardinality(Holders(t, x)) + Total(Owned(x, L, w, h), L)

PagesHeld(f, t, L, w, h) ==
  /\ f \in Seq(Pages) /\ \A p \in DOMAIN t.page : t.page[p] \in Pages
  /\ \A x \in Pages : Spread(x, f, t, L, w, h) = 1

\* A row w has the pages of the first c tokens, a handle h covers whole pages of them.
RowOf(w, h, c) ==
  /\ w \in Seq(Pages) /\ Len(w) = PageCount(c)
  /\ h \in Seq(Tokens) /\ Aligned(h) /\ Len(h) <= c

RowsInv == \A r \in live : RowOf(row[r], handle[r], cached[r]) /\ IsPrefix(handle[r], ids[r])

PageInv == PagesHeld(free, tree, live, row, handle) /\ RowsInv

\* div_ceil
LEMMA PageCountIs ==
  ASSUME PageSize \in Nat \ {0}
  PROVE  /\ \A c \in Nat : /\ PageCount(c) \in Nat /\ AlignDown(c) \div PageSize \in Nat
                           /\ AlignDown(c) \div PageSize <= PageCount(c)
                           /\ c % PageSize = 0 => PageCount(c) = c \div PageSize
         /\ \A c, d \in Nat : c <= d => PageCount(c) <= PageCount(d) /\ c \div PageSize <= d \div PageSize
<1>1. ASSUME NEW a \in Nat, NEW b \in Nat, a <= b
      PROVE  a \div PageSize \in Nat /\ b \div PageSize \in Nat /\ a \div PageSize <= b \div PageSize
  BY <1>1
<1>2. ASSUME NEW c \in Nat, NEW d \in Nat, c <= d
      PROVE  PageCount(c) \in Nat /\ PageCount(c) <= PageCount(d) /\ c \div PageSize <= d \div PageSize
  <2>1. c + PageSize - 1 \in Nat /\ d + PageSize - 1 \in Nat /\ c + PageSize - 1 <= d + PageSize - 1
    BY <1>2
  <2>. QED  BY <1>1, <1>2, <2>1 DEF PageCount
<1>3. ASSUME NEW c \in Nat
      PROVE  /\ AlignDown(c) \div PageSize \in Nat /\ AlignDown(c) \div PageSize <= PageCount(c)
             /\ c % PageSize = 0 => PageCount(c) = c \div PageSize
  <2> DEFINE q == c \div PageSize
  <2>1. AlignDown(c) = PageSize * q /\ q \in Nat
    BY AlignIs
  <2>2. AlignDown(c) \div PageSize = q
    BY <2>1, WholePages
  <2>3. c + PageSize - 1 \in Nat /\ c <= c + PageSize - 1
    OBVIOUS
  <2>4. q <= PageCount(c)
    BY <1>1, <2>3 DEF PageCount
  <2>5. ASSUME c % PageSize = 0 PROVE PageCount(c) = q
    <3>1. c = PageSize * q
      BY <2>1, <2>5, AlignIs
    <3>2. (PageSize * q + (PageSize - 1)) \div PageSize = q
      BY <2>1
    <3>. QED  BY <3>1, <3>2 DEF PageCount
  <2>. QED  BY <2>1, <2>2, <2>4, <2>5
<1>. QED
  BY <1>2, <1>3

LEMMA RowIs ==
  ASSUME PageSize \in Nat \ {0}, NEW w, NEW h, NEW c \in Nat, RowOf(w, h, c)
  PROVE  /\ Len(h) \in Nat /\ Len(h) % PageSize = 0 /\ Len(h) \div PageSize \in Nat
         /\ Len(h) \div PageSize <= Len(w) /\ Len(w) = PageCount(c) /\ Len(w) \in Nat
<1>1. Len(h) \in Nat /\ Len(h) % PageSize = 0 /\ Len(h) <= c
  BY DEF RowOf, Aligned
<1>2. PageCount(Len(h)) = Len(h) \div PageSize /\ PageCount(Len(h)) <= PageCount(c) /\ PageCount(Len(h)) \in Nat
  BY <1>1, PageCountIs
<1>. QED
  BY <1>1, <1>2, PageCountIs DEF RowOf

\* What a row owns, cut at a and b
LEMMA OwnCut ==
  ASSUME NEW w \in Seq(Pages), NEW h, NEW k \in Nat, k = Len(h) \div PageSize,
         NEW a \in Nat, NEW b \in Nat, k <= a, a <= b, b <= Len(w), NEW x
  PROVE  /\ Count(x, OwnOf(w, h)) = Count(x, SubSeq(w, k + 1, a)) + Count(x, SubSeq(w, a + 1, b))
                                    + Count(x, SubSeq(w, b + 1, Len(w)))
         /\ SubSeq(w, k + 1, a) \in Seq(Pages) /\ SubSeq(w, a + 1, b) \in Seq(Pages)
         /\ SubSeq(w, b + 1, Len(w)) \in Seq(Pages)
<1> DEFINE n == Len(w)
<1>1. n \in Nat /\ n <= Len(w) /\ a <= n /\ k <= n /\ a <= Len(w)
  BY LenProperties
<1> HIDE DEF n
<1>2. /\ Count(x, SubSeq(w, k + 1, n)) = Count(x, SubSeq(w, k + 1, a)) + Count(x, SubSeq(w, a + 1, n))
  BY <1>1, CountCut
<1>3. /\ Count(x, SubSeq(w, a + 1, n)) = Count(x, SubSeq(w, a + 1, b)) + Count(x, SubSeq(w, b + 1, n))
      /\ SubSeq(w, a + 1, n) \in Seq(Pages)
  BY <1>1, CountCut DEF n
<1>4. SubSeq(w, k + 1, a) \in Seq(Pages)
  BY <1>1, CountCut
<1>5. SubSeq(w, a + 1, b) \in Seq(Pages)
  BY <1>1, CountCut
<1>6. SubSeq(w, b + 1, n) \in Seq(Pages)
  BY <1>1, CountCut DEF n
<1>7. Count(x, SubSeq(w, k + 1, a)) \in Nat /\ Count(x, SubSeq(w, a + 1, b)) \in Nat
      /\ Count(x, SubSeq(w, b + 1, n)) \in Nat
  BY <1>4, <1>5, <1>6, CountIs
<1>. QED
  BY <1>2, <1>3, <1>4, <1>5, <1>6, <1>7 DEF OwnOf, n

\* Rows and handles as long as they should be
Rows(L, w, h, c) == \A r \in L : c[r] \in Nat /\ RowOf(w[r], h[r], c[r])

LEMMA OwnOfIs ==
  ASSUME PageSize \in Nat \ {0}, NEW w, NEW h, NEW c \in Nat, RowOf(w, h, c), NEW x
  PROVE  OwnOf(w, h) \in Seq(Pages) /\ Count(x, OwnOf(w, h)) \in Nat
<1> DEFINE k == Len(h) \div PageSize
           n == Len(w)
<1>a. w \in Seq(Pages)
  BY DEF RowOf
<1>1. k \in Nat /\ k <= n /\ n \in Nat
  BY RowIs
<1>b. n <= Len(w)
  BY <1>1
<1> HIDE DEF k, n
<1>2. SubSeq(w, k + 1, n) \in Seq(Pages)
  BY <1>a, <1>1, <1>b, CountCut
<1>3. Count(x, SubSeq(w, k + 1, n)) \in Nat
  BY <1>2, CountIs
<1>. QED
  BY <1>2, <1>3 DEF OwnOf, k, n

LEMMA OwnedIs ==
  ASSUME PageSize \in Nat \ {0}, NEW L, NEW w, NEW h, NEW c, Rows(L, w, h, c), NEW x
  PROVE  /\ Owned(x, L, w, h) \in [L -> Int]
         /\ \A r \in L : Owned(x, L, w, h)[r] = Count(x, OwnOf(w[r], h[r])) /\ Count(x, OwnOf(w[r], h[r])) \in Nat
<1>1. ASSUME NEW r \in L PROVE Count(x, OwnOf(w[r], h[r])) \in Nat
  <2>1. c[r] \in Nat /\ RowOf(w[r], h[r], c[r])
    BY DEF Rows
  <2>2. \A s, g : \A m \in Nat : RowOf(s, g, m) => Count(x, OwnOf(s, g)) \in Nat
    BY OwnOfIs
  <2>. QED  BY <2>1, <2>2
<1>. QED
  BY <1>1 DEF Owned

LEMMA HoldersNat ==
  ASSUME PageSize \in Nat \ {0}, NEW S, NEW t, IsTree(t, S), NEW x
  PROVE  IsFiniteSet(Holders(t, x)) /\ Cardinality(Holders(t, x)) \in Nat
<1>1. IsFiniteSet(DOMAIN t.page) /\ Holders(t, x) \in SUBSET DOMAIN t.page
  BY PagesAre DEF Holders
<1>. QED
  BY <1>1, FS_Subset, FS_CardinalityType

\* Pages may move between the free ones, the tree and one request,
LEMMA PagesMoved ==
  ASSUME PageSize \in Nat \ {0}, NEW t, IsTree(t, Tokens), NEW u, IsTree(u, Tokens),
         NEW f \in Seq(Pages), NEW g \in Seq(Pages), NEW L, IsFiniteSet(L),
         NEW w, NEW h, NEW c, Rows(L, w, h, c), NEW v, NEW k, NEW d, Rows(L, v, k, d),
         NEW r \in L, \A q \in L : q /= r => v[q] = w[q] /\ k[q] = h[q],
         PagesHeld(f, t, L, w, h), \A p \in DOMAIN u.page : u.page[p] \in Pages,
         \A x \in Pages : Count(x, g) + Cardinality(Holders(u, x)) + Count(x, OwnOf(v[r], k[r]))
                            = Count(x, f) + Cardinality(Holders(t, x)) + Count(x, OwnOf(w[r], h[r]))
  PROVE  PagesHeld(g, u, L, v, k)
<1> SUFFICES ASSUME NEW x \in Pages PROVE Spread(x, g, u, L, v, k) = 1
  BY DEF PagesHeld
<1> DEFINE e == Owned(x, L, w, h)
           o == Owned(x, L, v, k)
<1>1. /\ e \in [L -> Int] /\ e[r] = Count(x, OwnOf(w[r], h[r])) /\ e[r] \in Nat
      /\ o \in [L -> Int] /\ o[r] = Count(x, OwnOf(v[r], k[r])) /\ o[r] \in Nat
  BY OwnedIs
<1>2. \A q \in L : r /= q => o[q] = e[q]
  BY DEF Owned
<1>3. /\ Count(x, f) \in Nat /\ Count(x, g) \in Nat
      /\ Cardinality(Holders(t, x)) \in Nat /\ Cardinality(Holders(u, x)) \in Nat
  BY CountIs, HoldersNat
<1>4. Count(x, f) + Cardinality(Holders(t, x)) + Total(e, L) = 1
  BY DEF PagesHeld, Spread
<1> HIDE DEF e, o
<1> DEFINE n == o[r] - e[r]
<1>5. n \in Int /\ o[r] = e[r] + n
  BY <1>1
<1> HIDE DEF n
<1>6. Total(o, L) = Total(e, L) + n
  <2>1. \A y \in L : r /= y => o[y] = e[y]
    BY <1>2
  <2>2. \A y \in L : y /= r => o[y] = e[y]
    BY <2>1
  <2>. QED  BY <1>1, <1>5, <2>2, TotalBump, ZenonT(40)
<1>7. Total(e, L) \in Int
  BY <1>1, TotalRules
<1>8. Count(x, g) + Cardinality(Holders(u, x)) + o[r] = Count(x, f) + Cardinality(Holders(t, x)) + e[r]
  BY <1>1
<1>9. Count(x, g) + Cardinality(Holders(u, x)) + Total(o, L) = 1
  BY <1>1, <1>3, <1>4, <1>5, <1>6, <1>7, <1>8, SMTT(30)
<1>. QED
  BY <1>9 DEF Spread, o

\* or leave a request that goes,
LEMMA PagesDropped ==
  ASSUME PageSize \in Nat \ {0}, NEW t, IsTree(t, Tokens), NEW u, IsTree(u, Tokens),
         NEW f \in Seq(Pages), NEW g \in Seq(Pages), NEW L, IsFiniteSet(L),
         NEW w, NEW h, NEW c, Rows(L, w, h, c), NEW v, NEW k,
         NEW r \in L, \A q \in L \ {r} : v[q] = w[q] /\ k[q] = h[q],
         PagesHeld(f, t, L, w, h), \A p \in DOMAIN u.page : u.page[p] \in Pages,
         \A x \in Pages : Count(x, g) + Cardinality(Holders(u, x))
                            = Count(x, f) + Cardinality(Holders(t, x)) + Count(x, OwnOf(w[r], h[r]))
  PROVE  PagesHeld(g, u, L \ {r}, v, k)
<1> SUFFICES ASSUME NEW x \in Pages PROVE Spread(x, g, u, L \ {r}, v, k) = 1
  BY DEF PagesHeld
<1> DEFINE e == Owned(x, L, w, h)
           o == Owned(x, L \ {r}, v, k)
<1>1. e \in [L -> Int] /\ e[r] = Count(x, OwnOf(w[r], h[r])) /\ \A q \in L : e[q] \in Nat
  BY OwnedIs
<1>2. \A q \in L \ {r} : o[q] = e[q]
  BY DEF Owned
<1>3. o \in [L \ {r} -> Int]
  BY <1>1, <1>2 DEF Owned
<1>4. /\ Count(x, f) \in Nat /\ Count(x, g) \in Nat
      /\ Cardinality(Holders(t, x)) \in Nat /\ Cardinality(Holders(u, x)) \in Nat
  BY CountIs, HoldersNat
<1>5. Count(x, f) + Cardinality(Holders(t, x)) + Total(e, L) = 1
  BY DEF PagesHeld, Spread
<1> HIDE DEF e, o
<1>6. Total(e, L) = Total(o, L \ {r}) + e[r] /\ Total(o, L \ {r}) \in Int /\ e[r] \in Int
  BY <1>1, <1>2, <1>3, TotalDrop
<1>7. Count(x, g) + Cardinality(Holders(u, x)) + Total(o, L \ {r}) = 1
  BY <1>1, <1>4, <1>5, <1>6
<1>. QED
  BY <1>7 DEF Spread, o

\* and one that comes brings none.
LEMMA PagesAdded ==
  ASSUME PageSize \in Nat \ {0}, NEW t, NEW u, u.page = t.page, NEW f, NEW L, IsFiniteSet(L),
         NEW r, r \notin L, NEW w, NEW h,
         NEW v, NEW k, NEW d, Rows(L \union {r}, v, k, d), \A q \in L : v[q] = w[q] /\ k[q] = h[q],
         PagesHeld(f, t, L, w, h), \A x \in Pages : Count(x, OwnOf(v[r], k[r])) = 0
  PROVE  PagesHeld(f, u, L \union {r}, v, k)
<1> SUFFICES ASSUME NEW x \in Pages PROVE Spread(x, f, u, L \union {r}, v, k) = 1
  BY DEF PagesHeld
<1> DEFINE M == L \union {r}
           e == Owned(x, L, w, h)
           o == Owned(x, M, v, k)
<1>1. o \in [M -> Int] /\ o[r] = Count(x, OwnOf(v[r], k[r]))
  BY OwnedIs, SMTT(30)
<1>2. o[r] = 0
  BY <1>1
<1>3. \A q \in L : e[q] = o[q]
  BY DEF Owned
<1>4. e \in [L -> Int]
  BY <1>1, <1>3 DEF Owned
<1>5. Holders(u, x) = Holders(t, x)
  BY DEF Holders
<1>6. Count(x, f) + Cardinality(Holders(t, x)) + Total(e, L) = 1
  BY DEF PagesHeld, Spread
<1>7. IsFiniteSet(M) /\ r \in M /\ M \ {r} = L
  BY FS_AddElement
<1> HIDE DEF e, o, M
<1>8. Total(o, M) = Total(e, M \ {r}) + o[r] /\ Total(e, M \ {r}) \in Int
  <2>1. e \in [M \ {r} -> Int] /\ \A y \in M \ {r} : e[y] = o[y]
    BY <1>3, <1>4, <1>7
  <2>. QED  BY <1>1, <1>7, <2>1, TotalDrop
<1>9. Total(o, M) = Total(e, L)
  <2>1. Total(e, M \ {r}) = Total(e, L)
    BY <1>7
  <2>2. Total(o, M) = Total(e, M \ {r}) + 0
    BY <1>2, <1>8
  <2>. QED  BY <1>8, <2>1, <2>2
<1>. QED
  BY <1>5, <1>6, <1>9 DEF Spread, o, M

\* What is the same for everybody, nobody notices.
LEMMA PagesSame ==
  ASSUME NEW t, NEW u, u.page = t.page, NEW f, NEW L, NEW w, NEW h, NEW v, NEW k,
         \A q \in L : v[q] = w[q] /\ k[q] = h[q], PagesHeld(f, t, L, w, h)
  PROVE  PagesHeld(f, u, L, v, k)
<1> SUFFICES ASSUME NEW x \in Pages PROVE Spread(x, f, u, L, v, k) = 1
  BY DEF PagesHeld
<1>1. Owned(x, L, v, k) = Owned(x, L, w, h)
  BY DEF Owned
<1>2. Holders(u, x) = Holders(t, x)
  BY DEF Holders
<1>. QED
  BY <1>1, <1>2 DEF Spread, PagesHeld

\* insert_prefix takes pages from the row that brings them, from where the cache ends.
LEMMA PagesInserted ==
  ASSUME PageSize \in Nat \ {0}, NEW t, IsTree(t, Tokens), \A p \in DOMAIN t.page : t.page[p] \in Pages,
         NEW c \in Nat, NEW w, NEW h, RowOf(w, h, c), h = Root \/ h \in DOMAIN t.page,
         NEW text \in Seq(Tokens), Len(text) = c, IsPrefix(h, text),
         NEW done, done = InsertPrefix(t, text, w),
         NEW a, a = done.cached \div PageSize, NEW b, b = AlignDown(c) \div PageSize
  PROVE  /\ a \in Nat /\ b \in Nat /\ Len(h) \div PageSize <= a /\ a <= b /\ b <= Len(w)
         /\ done.path \in Seq(Tokens) /\ Len(done.path) = AlignDown(c) /\ IsPrefix(done.path, text)
         /\ \A p \in DOMAIN done.tree.page : done.tree.page[p] \in Pages
         /\ \A x : Cardinality(Holders(done.tree, x)) = Cardinality(Holders(t, x)) + Count(x, SubSeq(w, a + 1, b))
<1> DEFINE key == SubSeq(text, 1, AlignDown(Len(text)))
           known == Matched(t, key)
<1>1. AlignDown(c) \in 0 .. c /\ AlignDown(c) % PageSize = 0
  BY AlignIs
<1>2. key \in Seq(Tokens) /\ Len(key) = AlignDown(c) /\ Aligned(key) /\ IsPrefix(key, text)
  BY <1>1, PrefixCut DEF Aligned
<1>3. done.cached = Len(known) /\ done.path = key
      /\ done.tree = IF known = key THEN Split(t, known) ELSE Inserted(t, key, w)
  BY DEF InsertPrefix
<1> HIDE DEF key
<1>4. /\ known \in Seq(Tokens) /\ Aligned(known) /\ IsPrefix(known, key) /\ (known = Root \/ known \in DOMAIN t.page)
      /\ \A p \in DOMAIN t.page : IsPrefix(p, key) => IsPrefix(p, known)
  BY <1>2, MatchedIs
<1> HIDE DEF known
<1>5. w \in Seq(Pages) /\ h \in Seq(Tokens) /\ Aligned(h) /\ Len(h) \in Nat /\ Len(h) <= c
  BY DEF RowOf
<1>6. b \in Nat /\ b <= PageCount(c) /\ Len(w) = PageCount(c)
  BY PageCountIs DEF RowOf
<1>7. b <= Len(w)
  BY <1>6
<1>8. a \in Nat /\ a <= b /\ \A x : Cardinality(Holders(done.tree, x)) = Cardinality(Holders(t, x)) + Count(x, SubSeq(w, a + 1, b))
  <2> SUFFICES ASSUME NEW x
               PROVE  a \in Nat /\ a <= b /\ Cardinality(Holders(done.tree, x)) = Cardinality(Holders(t, x)) + Count(x, SubSeq(w, a + 1, b))
    OBVIOUS
  <2>1. AlignDown(Len(text)) \div PageSize = b
    OBVIOUS
  <2>2. AlignDown(Len(text)) \div PageSize <= Len(w)
    BY <1>7
  <2>. QED  BY <1>5, <2>1, <2>2, InsertHolders
<1>9. Len(h) \div PageSize <= a
  <2>1. Len(h) <= Len(known) /\ Len(known) \in Nat
    <3>1. CASE h = Root
      BY <1>4, <3>1 DEF Root
    <3>2. CASE h /= Root
      <4>1. IsPrefix(h, key)
        <5>1. Len(h) <= AlignDown(c)
          BY <1>5, AlignIs DEF Aligned
        <5>2. IsPrefix(h, key) \/ IsPrefix(key, h)
          BY <1>2, <1>5, PrefixOrder
        <5>3. IsPrefix(key, h) => key = h
          BY <1>2, <1>5, <5>1, PrefixOrder
        <5>4. IsPrefix(h, h)
          BY <1>5, PrefixOrder
        <5>. QED  BY <5>2, <5>3, <5>4
      <4>2. IsPrefix(h, known)
        BY <1>4, <3>2, <4>1
      <4>. QED  BY <1>4, <1>5, <4>2, PrefixIs
    <3>. QED  BY <3>1, <3>2
  <2>. QED  BY <1>3, <1>5, <2>1, PageCountIs
<1>10. \A p \in DOMAIN done.tree.page : done.tree.page[p] \in Pages
  <2>1. CASE known = key
    <3>1. Split(t, known).page = t.page
      BY <1>4, SplitIs
    <3>. QED  BY <1>3, <2>1, <3>1
  <2>2. CASE known /= key
    <3> DEFINE u == Inserted(t, key, w)
    <3>1. /\ DOMAIN u.page = DOMAIN t.page \union {p \in Seq(Tokens) \ {Root} : Aligned(p) /\ IsPrefix(p, key)}
          /\ \A p \in DOMAIN t.page : u.page[p] = t.page[p]
          /\ \A p \in Seq(Tokens) \ {Root} : p \notin DOMAIN t.page /\ Aligned(p) /\ IsPrefix(p, key) =>
               u.page[p] = w[Len(p) \div PageSize]
      BY <1>2, <2>2, InsertedIs DEF known
    <3> HIDE DEF u
    <3>2. ASSUME NEW p \in DOMAIN u.page, p \notin DOMAIN t.page PROVE u.page[p] \in Pages
      <4>1. p \in Seq(Tokens) \ {Root} /\ Aligned(p) /\ IsPrefix(p, key)
        BY <3>1, <3>2
      <4>2. Len(p) \in Nat /\ Len(p) <= AlignDown(c) /\ Len(p) > 0 /\ AlignDown(c) \in Nat
        BY <1>1, <1>2, <4>1, PrefixIs DEF Root
      <4> DEFINE i == Len(p) \div PageSize
      <4>3. i \in Nat /\ i <= b /\ Len(p) = PageSize * i
        BY <4>1, <4>2, WholePages, PageCountIs DEF Aligned
      <4> HIDE DEF i
      <4>4. i /= 0
        BY <4>2, <4>3
      <4>5. w[i] \in Pages
        BY <1>5, <1>6, <1>7, <4>3, <4>4
      <4>. QED  BY <3>1, <4>1, <4>5, <3>2 DEF i
    <3>3. \A p \in DOMAIN u.page : u.page[p] \in Pages
      BY <3>1, <3>2
    <3>. QED  BY <1>3, <2>2, <3>3 DEF u
  <2>. QED  BY <2>1, <2>2
<1>. QED
  BY <1>2, <1>3, <1>6, <1>7, <1>8, <1>9, <1>10

\* A row cut where the cache already had it, and where its whole pages end:
\* B what the cache had, C what it takes, D what the row keeps if the request goes on
RowCut(w, h, g, a, b, B, C, D) ==
  /\ w \in Seq(Pages) /\ a \in Nat /\ b \in Nat /\ Len(h) \div PageSize \in Nat
  /\ Len(h) \div PageSize <= a /\ a <= b /\ b <= Len(w) /\ b = Len(g) \div PageSize
  /\ B = SubSeq(w, Len(h) \div PageSize + 1, a) /\ C = SubSeq(w, a + 1, b) /\ D = SubSeq(w, b + 1, Len(w))

\* Of a row that is cached, what the cache had already is returned; the begun
\* page at its end too, when the request ends.
LEMMA PagesReturned ==
  ASSUME NEW w, NEW h, NEW g, NEW a, NEW b, NEW B, NEW C, NEW D, RowCut(w, h, g, a, b, B, C, D),
         NEW f \in Seq(Pages), NEW x, NEW m \in Nat, NEW n \in Nat, n = m + Count(x, C)
  PROVE  /\ f \o (B \o D) \in Seq(Pages) /\ f \o B \in Seq(Pages)
         /\ Count(x, f \o (B \o D)) + n = Count(x, f) + m + Count(x, OwnOf(w, h))
         /\ Count(x, f \o B) + n + Count(x, OwnOf(w, g)) = Count(x, f) + m + Count(x, OwnOf(w, h))
<1>1. /\ Count(x, OwnOf(w, h)) = Count(x, B) + Count(x, C) + Count(x, D)
      /\ B \in Seq(Pages) /\ C \in Seq(Pages) /\ D \in Seq(Pages)
  <2> DEFINE k == Len(h) \div PageSize
  <2>0. /\ w \in Seq(Pages) /\ k \in Nat /\ a \in Nat /\ b \in Nat /\ k <= a /\ a <= b /\ b <= Len(w)
        /\ B = SubSeq(w, k + 1, a) /\ C = SubSeq(w, a + 1, b) /\ D = SubSeq(w, b + 1, Len(w))
    BY DEF RowCut
  <2> HIDE DEF k
  <2>1. /\ Count(x, OwnOf(w, h)) = Count(x, SubSeq(w, k + 1, a)) + Count(x, SubSeq(w, a + 1, b))
                                   + Count(x, SubSeq(w, b + 1, Len(w)))
        /\ SubSeq(w, k + 1, a) \in Seq(Pages) /\ SubSeq(w, a + 1, b) \in Seq(Pages)
        /\ SubSeq(w, b + 1, Len(w)) \in Seq(Pages)
    <3>1. k = Len(h) \div PageSize
      BY DEF k
    <3>. QED  BY ONLY <2>0, <3>1, OwnCut, SMTT(30)
  <2>. QED  BY <2>0, <2>1
<1>2. \A s, t \in Seq(Pages) : s \o t \in Seq(Pages) /\ Count(x, s \o t) = Count(x, s) + Count(x, t)
  BY CountConcat
<1>3. OwnOf(w, g) = D
  BY DEF OwnOf, RowCut
<1>5. Count(x, B) \in Nat /\ Count(x, C) \in Nat /\ Count(x, D) \in Nat /\ Count(x, f) \in Nat
  BY <1>1, CountIs
<1>6. /\ f \o (B \o D) \in Seq(Pages) /\ f \o B \in Seq(Pages)
      /\ Count(x, f \o (B \o D)) = Count(x, f) + (Count(x, B) + Count(x, D))
      /\ Count(x, f \o B) = Count(x, f) + Count(x, B)
  <2>1. B \o D \in Seq(Pages) /\ Count(x, B \o D) = Count(x, B) + Count(x, D)
    BY <1>1, <1>2
  <2>2. f \o B \in Seq(Pages) /\ Count(x, f \o B) = Count(x, f) + Count(x, B)
    BY <1>1, <1>2
  <2> DEFINE e == B \o D
  <2>3. e \in Seq(Pages) /\ Count(x, e) = Count(x, B) + Count(x, D)
    BY <2>1
  <2> HIDE DEF e
  <2>4. f \o e \in Seq(Pages) /\ Count(x, f \o e) = Count(x, f) + Count(x, e)
    BY <1>2, <2>3
  <2>5. f \o (B \o D) \in Seq(Pages) /\ Count(x, f \o (B \o D)) = Count(x, f) + (Count(x, B) + Count(x, D))
    BY ONLY <2>3, <2>4 DEF e
  <2>. QED  BY ONLY <2>2, <2>5
<1>7. \A y1, y2, y3, y4, y5 \in Nat : /\ y4 + (y1 + y3) + (y5 + y2) = y4 + y5 + (y1 + y2 + y3)
                                     /\ (y4 + y1) + (y5 + y2) + y3 = y4 + y5 + (y1 + y2 + y3)
  OBVIOUS
<1>8. /\ Count(x, f \o (B \o D)) + n = Count(x, f) + m + Count(x, OwnOf(w, h))
      /\ Count(x, f \o B) + n + Count(x, OwnOf(w, g)) = Count(x, f) + m + Count(x, OwnOf(w, h))
  BY ONLY <1>1, <1>3, <1>5, <1>6, <1>7, m \in Nat, n = m + Count(x, C)
<1>. QED
  BY <1>1, <1>6, <1>8

\* What PageInv says of the rows, for the lemmas above
LEMMA RowsAre ==
  ASSUME CacheAssumption, CacheInv, PageInv
  PROVE  /\ PageSize \in Nat \ {0} /\ IsTree(tree, Tokens) /\ IsFiniteSet(live) /\ live \subseteq Reqs
         /\ Rows(live, row, handle, cached) /\ PagesHeld(free, tree, live, row, handle)
         /\ free \in Seq(Pages) /\ \A p \in DOMAIN tree.page : tree.page[p] \in Pages
         /\ \A q \in live : /\ RowOf(row[q], handle[q], cached[q]) /\ cached[q] \in Nat
                            /\ handle[q] = Root \/ handle[q] \in DOMAIN tree.page
                            /\ IsPrefix(handle[q], ids[q]) /\ ids[q] \in Seq(Tokens)
<1>1. PageSize \in Nat \ {0} /\ IsTree(tree, Tokens) /\ IsFiniteSet(live) /\ live \subseteq Reqs
      /\ Counted(tree, live, handle) /\ cached \in [Reqs -> Nat] /\ ids \in [Reqs -> Seq(Tokens)]
  BY LiveFinite DEF CacheInv, HeldInv, LifeInv, Members, Fields, CacheAssumption
<1>2. \A q \in live : handle[q] = Root \/ handle[q] \in DOMAIN tree.page
  BY <1>1, TreeTexts DEF Counted
<1>. QED
  BY <1>1, <1>2 DEF PageInv, RowsInv, Rows, PagesHeld

\* The text a request has cached begins with its handle.
LEMMA HandleText ==
  ASSUME CacheAssumption, CacheInv, PageInv, NEW r \in live, NEW text \in Seq(Tokens), IsPrefix(ids[r], text),
         Lag(r) <= 1 + (Len(text) - Len(ids[r])), NEW key, key = SubSeq(text, 1, cached[r])
  PROVE  key \in Seq(Tokens) /\ Len(key) = cached[r] /\ IsPrefix(key, text) /\ IsPrefix(handle[r], key)
<1>1. cached[r] \in 0 .. Len(text)
  BY CachedText DEF CacheInv
<1>2. key \in Seq(Tokens) /\ Len(key) = cached[r] /\ IsPrefix(key, text)
  BY <1>1, PrefixCut
<1>3. handle[r] \in Seq(Tokens) /\ Len(handle[r]) <= cached[r] /\ Len(handle[r]) \in Nat
      /\ IsPrefix(handle[r], ids[r]) /\ ids[r] \in Seq(Tokens)
  BY RowsAre DEF RowOf
<1> DEFINE h == handle[r]
           s == ids[r]
<1>4. h \in Seq(Tokens) /\ s \in Seq(Tokens) /\ IsPrefix(h, s) /\ IsPrefix(s, text) /\ Len(h) <= Len(key)
  BY <1>2, <1>3
<1> HIDE DEF h, s
<1>5. IsPrefix(h, text)
  BY <1>4, PrefixOrder
<1>6. IsPrefix(h, key) \/ IsPrefix(key, h)
  BY <1>2, <1>4, <1>5, PrefixOrder
<1>7. IsPrefix(key, h) => key = h
  BY <1>2, <1>4, PrefixOrder
<1>8. IsPrefix(h, h)
  BY <1>4, PrefixOrder
<1>. QED
  BY <1>2, <1>6, <1>7, <1>8 DEF h

LEMMA PagesRelease ==
  ASSUME CacheAssumption, CacheInv, PageInv, NEW r \in live, NEW text \in Seq(Tokens), IsPrefix(ids[r], text),
         Lag(r) <= 1 + (Len(text) - Len(ids[r])), Release(r, text), budget' = budget
  PROVE  PageInv'
<1> DEFINE w == row[r]
           h == handle[r]
           c == cached[r]
           key == SubSeq(text, 1, c)
           done == InsertPrefix(tree, key, w)
           k == Len(h) \div PageSize
           a == done.cached \div PageSize
           b == AlignDown(c) \div PageSize
           back == SubSeq(w, k + 1, a) \o SubSeq(w, b + 1, Len(w))
           u == Unlock(done.tree, h)
<1>1. /\ PageSize \in Nat \ {0} /\ IsTree(tree, Tokens) /\ IsFiniteSet(live) /\ live \subseteq Reqs
      /\ Rows(live, row, handle, cached) /\ PagesHeld(free, tree, live, row, handle)
      /\ free \in Seq(Pages) /\ \A p \in DOMAIN tree.page : tree.page[p] \in Pages
  BY RowsAre
<1>2. RowOf(w, h, c) /\ c \in Nat /\ (h = Root \/ h \in DOMAIN tree.page)
  BY RowsAre
<1>3. key \in Seq(Tokens) /\ Len(key) = c /\ IsPrefix(h, key)
  BY HandleText
<1>4. live' = live \ {r} /\ Others({r}) /\ tree' = u
  BY <1>1, ReleaseIs DEF CacheInv
<1>5. free' = free \o back
  <2>1. Len(w) = PageCount(c)
    BY <1>2 DEF RowOf
  <2>2. free' = free \o Returned(r, done.cached, TRUE)
    BY DEF Release, CacheReq
  <2>. QED  BY <2>1, <2>2 DEF Returned
<1> HIDE DEF key
<1>6. IsTree(done.tree, Tokens)
  BY <1>1, <1>3, InsertTree
<1>7. IsTree(u, Tokens)
  BY <1>4, HeldRelease DEF CacheInv, HeldInv
<1>8. k \in Nat /\ w \in Seq(Pages)
  BY <1>1, <1>2, RowIs DEF RowOf
<1> HIDE DEF done
<1>9. u.page = done.tree.page
  BY <1>6, LockIs
<1> HIDE DEF w, h, c, a, b, u
<1>10. /\ a \in Nat /\ b \in Nat /\ k <= a /\ a <= b /\ b <= Len(w)
       /\ \A p \in DOMAIN done.tree.page : done.tree.page[p] \in Pages
       /\ done.path \in Seq(Tokens) /\ Len(done.path) \div PageSize = b
       /\ \A x : Cardinality(Holders(done.tree, x)) = Cardinality(Holders(tree, x)) + Count(x, SubSeq(w, a + 1, b))
  BY <1>1, <1>2, <1>3, PagesInserted, SMTT(30) DEF done, a, b
<1>11. \A x : /\ free \o back \in Seq(Pages)
              /\ Count(x, free \o back) + Cardinality(Holders(u, x))
                   = Count(x, free) + Cardinality(Holders(tree, x)) + Count(x, OwnOf(w, h))
  <2> SUFFICES ASSUME NEW x
               PROVE  /\ free \o back \in Seq(Pages)
                      /\ Count(x, free \o back) + Cardinality(Holders(u, x))
                           = Count(x, free) + Cardinality(Holders(tree, x)) + Count(x, OwnOf(w, h))
    OBVIOUS
  <2> DEFINE m == Cardinality(Holders(tree, x))
             n == Cardinality(Holders(u, x))
  <2>1. Holders(u, x) = Holders(done.tree, x)
    BY <1>9 DEF Holders
  <2>2. m \in Nat /\ n \in Nat /\ n = m + Count(x, SubSeq(w, a + 1, b))
    BY <1>1, <1>7, <1>10, <2>1, HoldersNat
  <2> DEFINE g == done.path
             B == SubSeq(w, k + 1, a)
             C == SubSeq(w, a + 1, b)
             D == SubSeq(w, b + 1, Len(w))
  <2>3. RowCut(w, h, g, a, b, B, C, D) /\ free \in Seq(Pages)
    BY <1>1, <1>8, <1>10 DEF RowCut
  <2>5. n = m + Count(x, C)
    BY <2>2
  <2> HIDE DEF m, n, g, B, C, D, k
  <2>4. free \o (B \o D) \in Seq(Pages) /\ Count(x, free \o (B \o D)) + n = Count(x, free) + m + Count(x, OwnOf(w, h))
    BY ONLY <2>2, <2>3, <2>5, PagesReturned
  <2>. QED  BY <2>4 DEF m, n, B, D
<1>12. \A v, j : v = row' /\ j = handle' => PagesHeld(free \o back, u, live \ {r}, v, j)
  <2> SUFFICES ASSUME NEW v, NEW j, v = row', j = handle'
               PROVE  PagesHeld(free \o back, u, live \ {r}, v, j)
    OBVIOUS
  <2>1. \A q \in live \ {r} : v[q] = row[q] /\ j[q] = handle[q]
    BY <1>1, <1>4 DEF Others
  <2> DEFINE g == free \o back
  <2>2. g \in Seq(Pages) /\ \A x \in Pages : Count(x, g) + Cardinality(Holders(u, x))
                                = Count(x, free) + Cardinality(Holders(tree, x)) + Count(x, OwnOf(row[r], handle[r]))
    BY <1>11 DEF w, h
  <2>3. \A p \in DOMAIN u.page : u.page[p] \in Pages
    BY <1>9, <1>10
  <2> HIDE DEF g
  <2>4. PagesHeld(g, u, live \ {r}, v, j)
    BY ONLY <1>1, <1>7, <2>1, <2>2, <2>3, r \in live, PagesDropped
  <2>. QED  BY <2>4 DEF g
<1>13. PagesHeld(free', tree', live', row', handle')
  BY <1>4, <1>5, <1>12
<1>14. \A q \in live' : RowOf(row'[q], handle'[q], cached'[q]) /\ IsPrefix(handle'[q], ids'[q])
  BY <1>1, <1>4 DEF Others, PageInv, RowsInv
<1>. QED
  BY <1>13, <1>14 DEF PageInv, RowsInv

LEMMA PagesGoesOn ==
  ASSUME CacheAssumption, CacheInv, PageInv, NEW r \in live, NEW text \in Seq(Tokens), IsPrefix(ids[r], text),
         Lag(r) <= 1 + (Len(text) - Len(ids[r])), CacheReq(r, text, FALSE),
         live' = live, row' = row, cached' = cached, ids' = [ids EXCEPT ![r] = text]
  PROVE  PageInv'
<1> DEFINE w == row[r]
           h == handle[r]
           c == cached[r]
           key == SubSeq(text, 1, c)
           done == InsertPrefix(tree, key, w)
           path == done.path
           a == done.cached \div PageSize
           b == AlignDown(c) \div PageSize
           B == SubSeq(w, Len(h) \div PageSize + 1, a)
           C == SubSeq(w, a + 1, b)
           D == SubSeq(w, b + 1, Len(w))
           given == Unlock(done.tree, h)
           u == Lock(given, path)
<1>1. /\ PageSize \in Nat \ {0} /\ IsTree(tree, Tokens) /\ IsFiniteSet(live) /\ live \subseteq Reqs
      /\ Rows(live, row, handle, cached) /\ PagesHeld(free, tree, live, row, handle)
      /\ free \in Seq(Pages) /\ \A p \in DOMAIN tree.page : tree.page[p] \in Pages
  BY RowsAre
<1>2. RowOf(w, h, c) /\ c \in Nat /\ (h = Root \/ h \in DOMAIN tree.page)
  BY RowsAre
<1>3. key \in Seq(Tokens) /\ Len(key) = c /\ IsPrefix(h, key) /\ IsPrefix(key, text)
  BY HandleText
<1>4. /\ tree' = u /\ handle' = [handle EXCEPT ![r] = path]
      /\ free' = free \o (B \o <<>>)
  BY DEF CacheReq, Returned
<1> HIDE DEF key
<1>6. IsTree(done.tree, Tokens) /\ Counted(done.tree, live, handle)
  BY <1>1, <1>3, InsertIs DEF CacheInv, HeldInv
<1>7. IsTree(u, Tokens)
  BY <1>4, HeldGoesOn DEF CacheInv, HeldInv
<1>8. w \in Seq(Pages) /\ Len(h) \div PageSize \in Nat
  BY <1>1, <1>2, RowIs DEF RowOf
<1> HIDE DEF done
<1>9. u.page = done.tree.page
  <2>1. given.page = done.tree.page /\ IsTree(given, Tokens)
    BY <1>1, <1>6, UnlockCounted, LockIs
  <2> HIDE DEF given
  <2>. QED  BY <2>1, LockIs
<1> HIDE DEF w, h, c, a, b, u, path
<1>10. /\ a \in Nat /\ b \in Nat /\ Len(h) \div PageSize <= a /\ a <= b /\ b <= Len(w)
       /\ \A p \in DOMAIN done.tree.page : done.tree.page[p] \in Pages
       /\ path \in Seq(Tokens) /\ Len(path) = AlignDown(c) /\ IsPrefix(path, key)
       /\ \A x : Cardinality(Holders(done.tree, x)) = Cardinality(Holders(tree, x)) + Count(x, C)
  BY <1>1, <1>2, <1>3, PagesInserted DEF done, a, b, path
<1>11. RowCut(w, h, path, a, b, B, C, D)
  <2>1. Len(path) \div PageSize = b
    BY <1>10 DEF b
  <2>. QED  BY <1>8, <1>10, <2>1 DEF RowCut
<1>12. B \in Seq(Pages) /\ B \o <<>> = B
  <2> DEFINE k == Len(h) \div PageSize
  <2>1. k \in Nat /\ k <= a /\ a <= Len(w)
    BY <1>8, <1>10, LenProperties
  <2> HIDE DEF k
  <2>2. SubSeq(w, k + 1, a) \in Seq(Pages)
    BY <1>8, <1>10, <2>1, CountCut
  <2>. QED  BY <2>2, ConcatEmptySeq DEF k
<1> HIDE DEF B, C, D
<1>13. ASSUME NEW x
       PROVE  /\ free \o B \in Seq(Pages)
              /\ Count(x, free \o B) + Cardinality(Holders(u, x)) + Count(x, OwnOf(w, path))
                   = Count(x, free) + Cardinality(Holders(tree, x)) + Count(x, OwnOf(w, h))
  <2> DEFINE m == Cardinality(Holders(tree, x))
             n == Cardinality(Holders(u, x))
  <2>1. Holders(u, x) = Holders(done.tree, x)
    BY <1>9 DEF Holders
  <2>2. m \in Nat /\ n \in Nat /\ n = m + Count(x, C)
    BY <1>1, <1>7, <1>10, <2>1, HoldersNat
  <2> HIDE DEF m, n
  <2>3. free \o B \in Seq(Pages) /\ Count(x, free \o B) + n + Count(x, OwnOf(w, path)) = Count(x, free) + m + Count(x, OwnOf(w, h))
    BY ONLY <1>1, <1>11, <2>2, PagesReturned
  <2>. QED  BY <2>3 DEF m, n
<1>14. RowOf(w, path, c)
  <2>1. AlignDown(c) <= c /\ AlignDown(c) % PageSize = 0
    BY <1>1, <1>2, AlignIs
  <2>. QED  BY <1>2, <1>10, <2>1 DEF RowOf, Aligned
<1>15. handle'[r] = path /\ \A q \in live : q /= r => handle'[q] = handle[q]
  BY <1>1, <1>4 DEF CacheInv, LifeInv, Fields
<1>16. \A j : j = handle' => PagesHeld(free \o B, u, live, row, j) /\ Rows(live, row, j, cached)
  <2> SUFFICES ASSUME NEW j, j = handle' PROVE PagesHeld(free \o B, u, live, row, j) /\ Rows(live, row, j, cached)
    OBVIOUS
  <2>0. j[r] = path /\ \A q \in live : q /= r => row[q] = row[q] /\ j[q] = handle[q]
    BY <1>15
  <2>1. Rows(live, row, j, cached)
    BY <1>1, <1>14, <2>0 DEF Rows, w, c
  <2> DEFINE g == free \o B
  <2>2. g \in Seq(Pages) /\ \A x \in Pages : Count(x, g) + Cardinality(Holders(u, x)) + Count(x, OwnOf(row[r], j[r]))
                                = Count(x, free) + Cardinality(Holders(tree, x)) + Count(x, OwnOf(row[r], handle[r]))
    BY <1>13, <2>0 DEF w, h
  <2>3. \A p \in DOMAIN u.page : u.page[p] \in Pages
    BY <1>9, <1>10
  <2> HIDE DEF g
  <2>4. PagesHeld(g, u, live, row, j)
    BY ONLY <1>1, <1>7, <2>0, <2>1, <2>2, <2>3, r \in live, PagesMoved
  <2>. QED  BY <2>1, <2>4 DEF g
<1>17. PagesHeld(free', tree', live', row', handle')
  BY <1>4, <1>12, <1>16
<1>18. ids' = [ids EXCEPT ![r] = text] /\ DOMAIN ids = Reqs /\ r \in Reqs
  BY <1>1 DEF CacheInv, LifeInv, Fields
<1>19. IsPrefix(path, text)
  BY <1>3, <1>10, PrefixOrder
<1>20. \A q \in live' : RowOf(row'[q], handle'[q], cached'[q]) /\ IsPrefix(handle'[q], ids'[q])
  <2>1. \A q \in live : RowOf(row[q], handle'[q], cached[q])
    BY <1>16 DEF Rows
  <2>2. \A q \in live : IsPrefix(handle'[q], ids'[q])
    BY <1>15, <1>18, <1>19, RowsAre
  <2>. QED  BY <2>1, <2>2
<1>. QED
  BY <1>17, <1>20 DEF PageInv, RowsInv

\* The row of a new request is that of its match.
LEMMA MatchRow ==
  ASSUME PageSize \in Nat \ {0}, NEW t, IsTree(t, Tokens), \A p \in DOMAIN t.page : t.page[p] \in Pages,
         NEW match \in Seq(Tokens), Aligned(match), match = Root \/ match \in DOMAIN t.page,
         NEW w, w = [i \in 1 .. Len(match) \div PageSize |-> t.page[SubSeq(match, 1, i * PageSize)]]
  PROVE  RowOf(w, match, Len(match)) /\ \A x : Count(x, OwnOf(w, match)) = 0
<1> DEFINE n == Len(match) \div PageSize
<1>1. Len(match) \in Nat /\ n \in Nat /\ Len(match) = PageSize * n /\ PageCount(Len(match)) = n
  <2>1. Len(match) \in Nat /\ Len(match) % PageSize = 0
    BY DEF Aligned
  <2>2. Len(match) = PageSize * n /\ n \in Nat
    BY <2>1, WholePages
  <2>3. PageCount(Len(match)) = n
    BY <2>1, PageCountIs
  <2>. QED  BY <2>1, <2>2, <2>3
<1> HIDE DEF n
<1>2. ASSUME NEW i \in 1 .. n PROVE t.page[SubSeq(match, 1, i * PageSize)] \in Pages
  <2> DEFINE j == PageSize * i
  <2>1. j \in Nat /\ j <= PageSize * n /\ j > 0 /\ j % PageSize = 0 /\ i * PageSize = j
    <3>1. i \in Nat /\ i <= n /\ 0 < i /\ 0 \in Nat
      BY <1>1
    <3>2. PageSize * 0 = 0 /\ i * PageSize = PageSize * i
      BY <3>1
    <3>3. PageSize * i \in Nat /\ (PageSize * i) % PageSize = 0
      BY <3>1, WholePages
    <3>4. PageSize * i <= PageSize * n /\ PageSize * 0 < PageSize * i
      BY <1>1, <3>1, WholePages
    <3>. QED  BY <3>2, <3>3, <3>4
  <2> HIDE DEF j
  <2>2. j \in 0 .. Len(match)
    BY <1>1, <2>1
  <2> DEFINE p == SubSeq(match, 1, j)
  <2>3. p \in Seq(Tokens) /\ Len(p) = j /\ IsPrefix(p, match) /\ p /= Root
    BY <2>1, <2>2, PrefixCut
  <2>4. match /= Root
    BY <2>1, <2>2 DEF Root
  <2> HIDE DEF p
  <2>5. p \in DOMAIN t.page
    BY <2>1, <2>3, <2>4 DEF IsTree, Aligned
  <2>. QED  BY <2>1, <2>5 DEF p
<1>3. w \in Seq(Pages) /\ Len(w) = n
  <2>1. w = [i \in 1 .. n |-> t.page[SubSeq(match, 1, i * PageSize)]]
    BY DEF n
  <2>2. w \in [1 .. n -> Pages]
    BY <1>2, <2>1
  <2>3. \A f \in [1 .. n -> Pages] : f \in Seq(Pages) /\ Len(f) = n
    BY <1>1
  <2>. QED  BY <2>2, <2>3
<1>4. RowOf(w, match, Len(match))
  BY <1>1, <1>3 DEF RowOf
<1>5. ASSUME NEW x PROVE Count(x, OwnOf(w, match)) = 0
  <2>1. OwnOf(w, match) = SubSeq(w, n + 1, n)
    BY <1>3 DEF OwnOf, n
  <2>2. SubSeq(w, n + 1, n) = <<>>
    <3> DEFINE m == n + 1
    <3>1. m \in Int /\ n \in Int /\ n < m
      BY <1>1
    <3> HIDE DEF m
    <3>2. SubSeq(w, m, n) = <<>>
      BY <3>1, SubSeqEmpty
    <3>. QED  BY <3>2 DEF m
  <2>3. {i \in DOMAIN <<>> : <<>>[i] = x} = {}
    OBVIOUS
  <2>. QED  BY <2>1, <2>2, <2>3, FS_EmptySet DEF Count
<1>. QED
  BY <1>4, <1>5

LEMMA PagesAdmit == ASSUME CacheAssumption, CacheInv, PageInv, Admit PROVE PageInv'
<1> DEFINE r == First
           match == MatchReq(First)
           w == [i \in 1 .. Len(match) \div PageSize |-> tree.page[SubSeq(match, 1, i * PageSize)]]
           t == Split(tree, match)
           u == Lock(t, match)
<1>1. /\ PageSize \in Nat \ {0} /\ IsTree(tree, Tokens) /\ IsFiniteSet(live) /\ live \subseteq Reqs
      /\ Rows(live, row, handle, cached) /\ PagesHeld(free, tree, live, row, handle)
      /\ free \in Seq(Pages) /\ \A p \in DOMAIN tree.page : tree.page[p] \in Pages
  BY RowsAre
<1>2. /\ r \in Reqs /\ r \in Queued /\ r \notin live /\ tree' = u /\ handle' = [handle EXCEPT ![r] = match]
      /\ row' = [row EXCEPT ![r] = w] /\ live' = live \union {r} /\ cached' = [cached EXCEPT ![r] = Len(match)]
  BY AdmitIs DEF Added
<1>3. UNCHANGED <<free, ids>>
  BY DEF Admit
<1>4. /\ match \in Seq(Tokens) /\ Aligned(match) /\ (match = Root \/ match \in DOMAIN tree.page)
      /\ IsPrefix(match, ids[r]) /\ Len(match) \in Nat
  BY <1>1, <1>2, MatchIs DEF CacheInv, LensInv
<1> HIDE DEF match
<1>5. u.page = tree.page
  BY <1>1, <1>4, SplitTree, SplitIs, LockIs
<1> HIDE DEF t, u
<1>6. RowOf(w, match, Len(match)) /\ \A x : Count(x, OwnOf(w, match)) = 0
  BY <1>1, <1>4, MatchRow
<1> HIDE DEF w
<1>7. /\ handle'[r] = match /\ row'[r] = w /\ cached'[r] = Len(match)
      /\ \A q \in live : handle'[q] = handle[q] /\ row'[q] = row[q] /\ cached'[q] = cached[q]
  BY <1>1, <1>2 DEF CacheInv, LifeInv, Fields
<1>8. \A v, j, d : v = row' /\ j = handle' /\ d = cached' =>
        PagesHeld(free, u, live \union {r}, v, j) /\ Rows(live \union {r}, v, j, d)
  <2> SUFFICES ASSUME NEW v, NEW j, NEW d, v = row', j = handle', d = cached'
               PROVE  PagesHeld(free, u, live \union {r}, v, j) /\ Rows(live \union {r}, v, j, d)
    OBVIOUS
  <2>1. \A q \in live : v[q] = row[q] /\ j[q] = handle[q] /\ d[q] = cached[q]
    BY <1>7
  <2>2. v[r] = w /\ j[r] = match /\ d[r] = Len(match)
    BY <1>7
  <2> DEFINE y == r
  <2>3. Rows(live \union {y}, v, j, d) /\ y \notin live /\ \A x \in Pages : Count(x, OwnOf(v[y], j[y])) = 0
    BY <1>1, <1>2, <1>4, <1>6, <2>1, <2>2 DEF Rows
  <2> HIDE DEF y
  <2>4. PagesHeld(free, u, live \union {y}, v, j)
    BY ONLY <1>1, <1>5, <2>1, <2>3, PagesAdded
  <2>. QED  BY <2>3, <2>4 DEF y
<1>9. PagesHeld(free', tree', live', row', handle')
  BY <1>2, <1>3, <1>8
<1>10. \A q \in live' : RowOf(row'[q], handle'[q], cached'[q])
  BY <1>2, <1>8 DEF Rows
<1>11. \A q \in live' : IsPrefix(handle'[q], ids'[q])
  BY <1>2, <1>3, <1>4, <1>7 DEF PageInv, RowsInv
<1>. QED
  BY <1>9, <1>10, <1>11 DEF PageInv, RowsInv

\* Pages appended to a row are its own.
LEMMA OwnConcat ==
  ASSUME NEW w \in Seq(Pages), NEW s \in Seq(Pages), NEW h, Len(h) \div PageSize \in Nat,
         Len(h) \div PageSize <= Len(w), NEW x
  PROVE  Count(x, OwnOf(w \o s, h)) = Count(x, OwnOf(w, h)) + Count(x, s)
<1> DEFINE k == Len(h) \div PageSize
           v == w \o s
           W == Len(w)
           N == Len(v)
           z == 0
<1>1. v \in Seq(Pages) /\ W \in Nat /\ N \in Nat /\ W <= N /\ k \in Nat /\ k <= W /\ k <= N /\ z \in Nat
      /\ z <= k /\ k <= Len(w) /\ k <= Len(v)
  <2>1. Len(w) \in Nat /\ Len(s) \in Nat
    BY LenProperties
  <2>2. v \in Seq(Pages) /\ Len(v) = Len(w) + Len(s)
    BY ConcatProperties
  <2>. QED  BY <2>1, <2>2
<1>2. W <= Len(w) /\ N <= Len(v)
  BY <1>1
<1> HIDE DEF k, W, N, z
<1>3. SubSeq(v, 1, k) = SubSeq(w, 1, k)
  <2>1. CASE k = 0
    <3>1. SubSeq(v, 1, 0) = <<>> /\ SubSeq(w, 1, 0) = <<>>
      BY SubSeqEmpty
    <3>. QED  BY <2>1, <3>1
  <2>2. CASE k /= 0
    <3>1. k \in 1 .. Len(w) /\ 1 \in 1 .. Len(w)
      BY <1>1, <2>2 DEF W
    <3>. QED  BY <3>1, SubSeqOfConcat1
  <2>. QED  BY <2>1, <2>2
<1> HIDE DEF v
<1>4. Count(x, SubSeq(v, z + 1, N)) = Count(x, SubSeq(v, z + 1, k)) + Count(x, SubSeq(v, k + 1, N))
      /\ SubSeq(v, z + 1, N) \in Seq(Pages)
  BY <1>1, <1>2, CountCut
<1>5. Count(x, SubSeq(w, z + 1, W)) = Count(x, SubSeq(w, z + 1, k)) + Count(x, SubSeq(w, k + 1, W))
  BY <1>1, <1>2, CountCut
<1>6. /\ SubSeq(v, z + 1, k) \in Seq(Pages) /\ SubSeq(v, k + 1, N) \in Seq(Pages)
      /\ SubSeq(w, k + 1, W) \in Seq(Pages)
  BY <1>1, <1>2, CountCut
<1>7. SubSeq(v, z + 1, N) = v /\ SubSeq(w, z + 1, W) = w /\ z + 1 = 1
  BY <1>1, SubSeqFull DEF z, N, W
<1>8. Count(x, v) = Count(x, w) + Count(x, s)
  BY CountConcat DEF v
<1>9. OwnOf(v, h) = SubSeq(v, k + 1, N) /\ OwnOf(w, h) = SubSeq(w, k + 1, W)
  BY DEF OwnOf, k, N, W
<1> DEFINE c1 == Count(x, SubSeq(v, 1, k))
           c2 == Count(x, OwnOf(v, h))
           c3 == Count(x, OwnOf(w, h))
           c4 == Count(x, s)
<1>10. Count(x, v) = c1 + c2 /\ Count(x, w) = c1 + c3 /\ c1 \in Nat /\ c2 \in Nat /\ c3 \in Nat /\ c4 \in Nat
  <2>1. Count(x, SubSeq(v, z + 1, k)) \in Nat /\ Count(x, SubSeq(v, k + 1, N)) \in Nat
        /\ Count(x, SubSeq(w, k + 1, W)) \in Nat /\ Count(x, s) \in Nat
    BY <1>6, CountIs
  <2>. QED  BY <1>3, <1>4, <1>5, <1>7, <1>9, <2>1
<1> HIDE DEF c1, c2, c3, c4
<1>11. c1 + c2 = (c1 + c3) + c4
  BY <1>8, <1>10 DEF c4
<1>. QED
  BY <1>10, <1>11, SMTT(30) DEF c2, c3, c4, v

\* Free pages f, a tree t, and live requests L with their rows, handles and lengths
Shared(f, t, L, w, h, c) ==
  /\ PageSize \in Nat \ {0} /\ NumPages \in Nat \ {0} /\ IsTree(t, Tokens) /\ IsFiniteSet(L)
  /\ Rows(L, w, h, c) /\ PagesHeld(f, t, L, w, h)

\* No two texts are cached in one page.
LEMMA TreeOnce ==
  ASSUME NEW f, NEW t, NEW L, NEW w, NEW h, NEW c, Shared(f, t, L, w, h, c)
  PROVE  \A p, q \in DOMAIN t.page : t.page[p] = t.page[q] => p = q
<1> SUFFICES ASSUME NEW p \in DOMAIN t.page, NEW q \in DOMAIN t.page, t.page[p] = t.page[q], p /= q
             PROVE  FALSE
  OBVIOUS
<1> DEFINE x == t.page[p]
           e == Owned(x, L, w, h)
           n == [r \in L |-> 0]
           H == Holders(t, x)
<1>1. PageSize \in Nat \ {0} /\ IsTree(t, Tokens) /\ IsFiniteSet(L) /\ Rows(L, w, h, c)
      /\ f \in Seq(Pages) /\ PagesHeld(f, t, L, w, h) /\ x \in Pages
  BY DEF Shared, PagesHeld
<1>2. Count(x, f) + Cardinality(H) + Total(e, L) = 1
  BY <1>1 DEF PagesHeld, Spread
<1>3. e \in [L -> Int] /\ \A r \in L : e[r] \in Nat
  <2> HIDE DEF x
  <2>. QED  BY <1>1, OwnedIs
<1>4. {p, q} \subseteq H
  BY DEF Holders
<1>5. Count(x, f) \in Nat /\ IsFiniteSet(H) /\ Cardinality(H) \in Nat
  BY <1>1, CountIs, HoldersNat
<1> HIDE DEF x, e, H
<1>6. n \in [L -> Int] /\ \A r \in L : n[r] = 0 /\ n[r] <= e[r]
  BY <1>3
<1> HIDE DEF n
<1>7. Total(e, L) \in Int /\ Total(n, L) = 0 /\ Total(n, L) <= Total(e, L)
  BY <1>1, <1>3, <1>6, TotalRules, TotalZero, TotalMono
<1>8. Cardinality({p, q}) = 2
  <2>1. IsFiniteSet({p}) /\ Cardinality({p}) = 1
    BY FS_Singleton
  <2>2. Cardinality({p} \union {q}) = 1 + 1
    BY <2>1, FS_AddElement
  <2>3. {p} \union {q} = {p, q}
    OBVIOUS
  <2>. QED  BY <2>2, <2>3
<1>9. Cardinality({p, q}) <= Cardinality(H)
  BY <1>4, <1>5, FS_Subset
<1>. QED
  BY <1>2, <1>5, <1>7, <1>8, <1>9

LEMMA PagesDistinct ==
  ASSUME CacheAssumption, CacheInv, PageInv
  PROVE  \A p, q \in DOMAIN tree.page : tree.page[p] = tree.page[q] => p = q
<1>1. Shared(free, tree, live, row, handle, cached)
  BY RowsAre DEF Shared, CacheAssumption
<1>. QED
  BY <1>1, TreeOnce

\* Eviction moves pages from the tree to the end of the free ones, enough of them.
Gathered(R) == free \o SetToSeq(PagesOf(tree, R))

LEMMA Evicted ==
  ASSUME CacheAssumption, CacheInv, PageInv, NEW need \in Nat, NEW R \in Evictions(need)
  PROVE  /\ Gathered(R) \in Seq(Pages) /\ need <= Len(Gathered(R)) /\ Len(Gathered(R)) \in Nat
         /\ IsTree(Without(tree, R), Tokens)
         /\ \A p \in DOMAIN Without(tree, R).page : Without(tree, R).page[p] \in Pages
         /\ \A x : Count(x, Gathered(R)) + Cardinality(Holders(Without(tree, R), x))
                    = Count(x, free) + Cardinality(Holders(tree, x))
<1> DEFINE list == SetToSeq(PagesOf(tree, R))
           all == Gathered(R)
           u == Without(tree, R)
<1>1. PageSize \in Nat \ {0} /\ IsTree(tree, Tokens) /\ free \in Seq(Pages)
      /\ \A p \in DOMAIN tree.page : tree.page[p] \in Pages
  BY RowsAre
<1>2. \A p, q \in DOMAIN tree.page : tree.page[p] = tree.page[q] => p = q
  BY PagesDistinct
<1>3. R \in SUBSET Nodes(tree) /\ \A n \in R, m \in Nodes(tree) : IsPrefix(n, m) => m \in R
  BY EvictionsIs DEF Unlocked
<1>4. IsTree(u, Tokens) /\ \A p \in DOMAIN u.page : u.page[p] = tree.page[p] /\ p \in DOMAIN tree.page
  BY <1>1, <1>3, WithoutIs
<1>5. list \in Seq(Pages) /\ TotalLength(tree, R) = PageSize * Len(list)
      /\ \A x : Cardinality(Holders(Without(tree, R), x)) + Count(x, list) = Cardinality(Holders(tree, x))
  <2> SUFFICES ASSUME NEW x
               PROVE  /\ list \in Seq(Pages) /\ TotalLength(tree, R) = PageSize * Len(list)
                      /\ Cardinality(Holders(Without(tree, R), x)) + Count(x, list) = Cardinality(Holders(tree, x))
    OBVIOUS
  <2>1. list = SetToSeq(PagesOf(tree, R))
    OBVIOUS
  <2> HIDE DEF list
  <2>2. Evictable(tree, R, Pages)
    BY <1>1, <1>2, <1>3 DEF Evictable
  <2>. QED  BY ONLY <1>1, <2>1, <2>2, EvictHolders
<1>6. all = free \o list /\ Len(free) \in Nat /\ Len(list) \in Nat
  BY <1>1, <1>5, LenProperties DEF Gathered
<1> HIDE DEF list, all, u
<1>7. all \in Seq(Pages) /\ Len(all) = Len(free) + Len(list)
  BY <1>1, <1>5, <1>6, ConcatProperties
<1>8. need <= Len(all)
  <2>1. CASE need <= Len(free)
    BY <1>6, <1>7, <2>1
  <2>2. CASE ~(need <= Len(free))
    <3> DEFINE lack == need - Len(free)
    <3>1. lack \in Nat /\ need = Len(free) + lack
      BY <1>6, <2>2
    <3>2. TotalLength(tree, R) >= lack * PageSize
      BY <2>2 DEF Evictions, Removals
    <3> HIDE DEF lack
    <3>3. PageSize * lack <= PageSize * Len(list)
      BY <1>1, <1>5, <1>6, <3>1, <3>2
    <3>4. lack <= Len(list)
      BY <1>1, <1>6, <3>1, <3>3, WholePages
    <3>. QED  BY <1>6, <1>7, <3>1, <3>4
  <2>. QED  BY <2>1, <2>2
<1>9. ASSUME NEW x
      PROVE  Count(x, all) + Cardinality(Holders(u, x)) = Count(x, free) + Cardinality(Holders(tree, x))
  <2>1. Count(x, all) = Count(x, free) + Count(x, list)
    BY <1>1, <1>5, <1>6, CountConcat
  <2>2. Count(x, free) \in Nat /\ Count(x, list) \in Nat /\ Cardinality(Holders(u, x)) \in Nat
        /\ Cardinality(Holders(tree, x)) \in Nat
    BY <1>1, <1>4, <1>5, CountIs, HoldersNat
  <2>3. Cardinality(Holders(u, x)) + Count(x, list) = Cardinality(Holders(tree, x))
    BY <1>5 DEF u
  <2>. QED  BY <2>1, <2>2, <2>3
<1>10. \A p \in DOMAIN u.page : u.page[p] \in Pages
  BY <1>1, <1>4
<1>. QED
  BY <1>4, <1>6, <1>7, <1>8, <1>9, <1>10 DEF all, u

\* first_page of a request is where those before it in the batch end.
LEMMA BeforeIs ==
  ASSUME cur.reqs \in Seq(Reqs), \A r \in InCur : NewPages(r) \in Nat
  PROVE  /\ Len(cur.reqs) \in Nat /\ Before(1) = 0 /\ Needed = Before(Len(cur.reqs) + 1)
         /\ \A i \in 1 .. Len(cur.reqs) + 1 : Before(i) \in Nat
         /\ \A i \in 1 .. Len(cur.reqs) : Before(i + 1) = Before(i) + NewPages(cur.reqs[i])
<1> DEFINE n == Len(cur.reqs)
           f == [j \in 1 .. n |-> NewPages(cur.reqs[j])]
<1>1. n \in Nat /\ DOMAIN cur.reqs = 1 .. n
  OBVIOUS
<1>2. f \in [1 .. n -> Int] /\ \A j \in 1 .. n : f[j] = NewPages(cur.reqs[j]) /\ f[j] \in Nat
  BY <1>1 DEF InCur, Range
<1>3. IsFiniteSet(1 .. n)
  BY <1>1, FS_Interval
<1>4. ASSUME NEW P \in SUBSET (1 .. n)
      PROVE  MapThenSumSet(LAMBDA j : NewPages(cur.reqs[j]), P) = Total(f, P)
  <2> DEFINE h == CHOOSE iter : iter = [s \in SUBSET P |->
                    IF s = {} THEN 0
                    ELSE NewPages(cur.reqs[CHOOSE x \in s : TRUE]) + iter[s \ {CHOOSE x \in s : TRUE}]]
  <2>1. MapThenSumSet(LAMBDA j : NewPages(cur.reqs[j]), P) = h[P]
    BY DEF MapThenSumSet, MapThenFoldSet
  <2>2. \A s \in SUBSET P : s /= {} => f[Pick(s)] = NewPages(cur.reqs[Pick(s)])
    BY PickIn, <1>2
  <2> HIDE DEF f
  <2>3. PICK k : Unfolds(k, f, P)
    BY <1>2, <1>3, TotalHas
  <2>4. k = [s \in SUBSET P |-> IF s = {} THEN 0 ELSE NewPages(cur.reqs[Pick(s)]) + k[s \ {Pick(s)}]]
    <3> DEFINE with(v, s) == IF s = {} THEN 0 ELSE v + k[s \ {Pick(s)}]
    <3>1. \A s \in SUBSET P : with(f[Pick(s)], s) = with(NewPages(cur.reqs[Pick(s)]), s)
      BY <2>2
    <3>2. k = [s \in SUBSET P |-> with(f[Pick(s)], s)]
      BY <2>3 DEF Unfolds
    <3>3. k = [s \in SUBSET P |-> with(NewPages(cur.reqs[Pick(s)]), s)]
      <4> HIDE DEF with
      <4>. QED  BY <3>1, <3>2
    <3>. QED  BY <3>3
  <2>5. h = [s \in SUBSET P |-> IF s = {} THEN 0 ELSE NewPages(cur.reqs[Pick(s)]) + h[s \ {Pick(s)}]]
    BY <2>4 DEF Pick
  <2> HIDE DEF h
  <2>6. Unfolds(h, f, P)
    <3> DEFINE with(v, s) == IF s = {} THEN 0 ELSE v + h[s \ {Pick(s)}]
    <3>1. \A s \in SUBSET P : with(f[Pick(s)], s) = with(NewPages(cur.reqs[Pick(s)]), s)
      BY <2>2
    <3>2. h = [s \in SUBSET P |-> with(NewPages(cur.reqs[Pick(s)]), s)]
      BY <2>5
    <3>3. h = [s \in SUBSET P |-> with(f[Pick(s)], s)]
      <4> HIDE DEF with
      <4>. QED  BY <3>1, <3>2
    <3>. QED  BY <3>3 DEF Unfolds
  <2>7. Total(f, P) = h[P]
    BY <1>2, <1>3, <2>6, TotalHas, ZenonT(40)
  <2>. QED  BY <2>1, <2>7
<1> HIDE DEF n, f
<1>5. \A i \in 1 .. n + 1 : Before(i) = Total(f, 1 .. i - 1)
  <2> TAKE i \in 1 .. n + 1
  <2>1. 1 .. i - 1 \in SUBSET (1 .. n)
    BY <1>1
  <2>. QED  BY <1>4, <2>1 DEF Before
<1>6. Total(f, {}) = 0 /\ 1 .. 1 - 1 = {} /\ 1 \in 1 .. n + 1
  BY <1>1, <1>2, <1>3, TotalRules
<1>7. Before(1) = 0
  BY <1>5, <1>6
<1>8. ASSUME NEW i \in 1 .. n PROVE Before(i + 1) = Before(i) + f[i]
  <2> DEFINE A == 1 .. i - 1
             D == 1 .. n
  <2>1. A \union {i} = 1 .. (i + 1) - 1 /\ i \in 1 .. n + 1 /\ i + 1 \in 1 .. n + 1
    BY <1>1
  <2>2. IsFiniteSet(D) /\ f \in [D -> Int] /\ A \in SUBSET D /\ i \in D \ A
    BY <1>1, <1>2, <1>3
  <2> HIDE DEF A, D
  <2> DEFINE g == f
  <2> HIDE DEF g
  <2>4. g \in [D -> Int] /\ IsFiniteSet(D)
    BY <2>2 DEF g
  <2>5. \A T \in SUBSET D : \A x \in D \ T : Total(g, T \union {x}) = Total(g, T) + g[x]
    BY ONLY <2>4, TotalRules
  <2>3. Total(f, A \union {i}) = Total(f, A) + f[i]
    BY <2>2, <2>5 DEF g
  <2>. QED  BY <1>5, <2>1, <2>3 DEF A
<1> DEFINE N == {k \in Nat : k <= n => Before(k + 1) \in Nat}
<1>9. 0 \in N
  BY <1>7
<1>10. ASSUME NEW k \in N PROVE k + 1 \in N
  <2> SUFFICES ASSUME k + 1 <= n PROVE Before((k + 1) + 1) \in Nat
    OBVIOUS
  <2>1. k \in Nat /\ k <= n /\ k + 1 \in 1 .. n /\ Before(k + 1) \in Nat
    BY <1>1
  <2>2. Before((k + 1) + 1) = Before(k + 1) + f[k + 1] /\ f[k + 1] \in Nat
    BY <1>2, <1>8, <2>1
  <2>. QED  BY <2>1, <2>2
<1>11. N = Nat
  <2> HIDE DEF N
  <2>1. N \in SUBSET Nat
    BY DEF N
  <2>. QED  BY <1>9, <1>10, <2>1, NatInduct
<1>12. \A i \in 1 .. n + 1 : Before(i) \in Nat
  <2> TAKE i \in 1 .. n + 1
  <2>1. i - 1 \in Nat /\ i - 1 <= n /\ (i - 1) + 1 = i
    BY <1>1
  <2>2. i - 1 \in N
    BY <1>11, <2>1
  <2>. QED  BY <2>1, <2>2
<1>13. \A i \in 1 .. n : Before(i + 1) = Before(i) + NewPages(cur.reqs[i])
  BY <1>2, <1>8
<1>. QED
  BY <1>1, <1>7, <1>12, <1>13 DEF Needed, n

\* Each request of a batch gets the pages it lacks, from where the one before it ended.
LEMMA SlicesAre ==
  ASSUME CacheAssumption, CacheInv, PageInv, pc = "forward",
         NEW pages \in Seq(Pages), Len(pages) = Needed
  PROVE  \E slice \in [InCur -> Seq(Pages)] :
           /\ \A r \in InCur : NewRows(pages)[r] = row[r] \o slice[r] /\ Len(slice[r]) = NewPages(r)
           /\ \A r \in Reqs \ InCur : NewRows(pages)[r] = row[r]
           /\ \A x : \A d \in [InCur -> Int] :
                (\A r \in InCur : d[r] = Count(x, slice[r])) => Total(d, InCur) = Count(x, pages)
<1> DEFINE q == cur.reqs
           n == Len(q)
           at == [i \in 1 .. n + 1 |-> Before(i)]
           Place(r) == CHOOSE j \in DOMAIN q : q[j] = r
           slice == [r \in InCur |-> SubSeq(pages, Before(Place(r)) + 1, Before(Place(r)) + NewPages(r))]
<1>1. /\ q \in Seq(Reqs) /\ IsInjective(q) /\ InCur \subseteq live /\ live \subseteq Reqs
      /\ cached \in [Reqs -> Nat] /\ device \in [Reqs -> Nat]
  BY DEF CacheInv, LifeInv, Lists, IsBatch, Phases, Members, Fields
<1>2. PageSize \in Nat \ {0} /\ \A r \in live : row[r] \in Seq(Pages) /\ Len(row[r]) = PageCount(cached[r])
  BY RowsAre DEF RowOf
<1>3. \A r \in InCur : NewPages(r) \in Nat
  <2> TAKE r \in InCur
  <2>1. cached[r] \in Nat /\ device[r] \in Nat /\ cached[r] <= device[r]
    <3>1. r \in live /\ cached[r] \in Nat /\ device[r] \in Nat /\ cached[r] < device[r]
      BY <1>1 DEF CacheInv, LensInv
    <3>. QED  BY <3>1
  <2>2. PageCount(cached[r]) \in Nat /\ PageCount(device[r]) \in Nat /\ PageCount(cached[r]) <= PageCount(device[r])
    BY <1>2, <2>1, PageCountIs
  <2>. QED  BY <2>2 DEF NewPages, FirstPage
<1>4. /\ n \in Nat /\ Before(1) = 0 /\ Needed = Before(n + 1) /\ \A i \in 1 .. n + 1 : Before(i) \in Nat
      /\ \A i \in 1 .. n : Before(i + 1) = Before(i) + NewPages(q[i])
  BY <1>1, <1>3, BeforeIs
<1>5. DOMAIN q = 1 .. n /\ \A r \in InCur : Place(r) \in 1 .. n /\ q[Place(r)] = r
  BY <1>1 DEF InCur, Range
<1>6. \A i \in 1 .. n : q[i] \in InCur /\ Place(q[i]) = i
  BY <1>1, <1>5 DEF InCur, Range, IsInjective
<1> HIDE DEF Place
<1>7. /\ at \in [1 .. n + 1 -> Nat] /\ at[1] = 0 /\ at[n + 1] = Len(pages)
      /\ \A i \in 1 .. n : at[i + 1] = at[i] + NewPages(q[i]) /\ at[i] \in Nat
      /\ \A i \in 1 .. n + 1 : at[i] = Before(i)
  <2>1. 1 \in 1 .. n + 1 /\ n + 1 \in 1 .. n + 1 /\ \A i \in 1 .. n : i \in 1 .. n + 1 /\ i + 1 \in 1 .. n + 1
    BY <1>4
  <2>. QED  BY <1>4, <2>1
<1> HIDE DEF at, q, n
<1>8. \A i \in 1 .. n : at[i] <= at[i + 1] /\ at[i + 1] \in Nat
  <2> TAKE i \in 1 .. n
  <2>1. at[i + 1] = at[i] + NewPages(q[i]) /\ at[i] \in Nat /\ NewPages(q[i]) \in Nat
    BY <1>3, <1>6, <1>7
  <2>. QED  BY <2>1
<1>9. \A i \in 1 .. n + 1 : at[i] <= Len(pages)
  <2>1. \A i \in 1 .. n + 1 : at[i] <= at[n + 1]
    BY <1>4, <1>7, <1>8, LastMost
  <2>. QED  BY <1>7, <2>1
<1>10. \A i \in 1 .. n : /\ slice[q[i]] = SubSeq(pages, at[i] + 1, at[i + 1])
                        /\ slice[q[i]] \in Seq(Pages) /\ Len(slice[q[i]]) = NewPages(q[i])
  <2> TAKE i \in 1 .. n
  <2>1. i \in 1 .. n + 1 /\ i + 1 \in 1 .. n + 1
    BY <1>4
  <2>2. slice[q[i]] = SubSeq(pages, at[i] + 1, at[i] + NewPages(q[i]))
    BY <1>6, <1>7, <2>1
  <2>3. slice[q[i]] = SubSeq(pages, at[i] + 1, at[i + 1])
    BY <1>7, <2>2
  <2> DEFINE a == at[i]
             b == at[i + 1]
             e == NewPages(q[i])
  <2>4. a \in Nat /\ b \in Nat /\ a <= b /\ b <= Len(pages) /\ e \in Nat /\ b = a + e
    BY <1>3, <1>6, <1>7, <1>8, <1>9, <2>1
  <2> HIDE DEF a, b, e, slice
  <2>5. SubSeq(pages, a + 1, b) \in Seq(Pages) /\ Len(SubSeq(pages, a + 1, b)) = b - a
    BY <2>4, CountCut
  <2>. QED  BY <2>3, <2>4, <2>5, SMTT(30) DEF a, b, e
<1>11. slice \in [InCur -> Seq(Pages)] /\ \A r \in InCur : Len(slice[r]) = NewPages(r)
  <2>1. \A r \in InCur : slice[r] \in Seq(Pages) /\ Len(slice[r]) = NewPages(r)
    <3> HIDE DEF slice
    <3>. QED  BY <1>5, <1>10
  <2>. QED  BY <2>1
<1>12. ASSUME NEW r \in InCur PROVE NewRows(pages)[r] = row[r] \o slice[r]
  <2>1. NewRows(pages)[r] = SubSeq(row[r], 1, FirstPage(r)) \o slice[r]
    <3>1. r \in Reqs /\ r \in Range(cur.reqs)
      BY <1>1 DEF InCur
    <3>2. slice[r] = SubSeq(pages, Before(Place(r)) + 1, Before(Place(r)) + NewPages(r))
      OBVIOUS
    <3>3. NewRows(pages)[r] = SubSeq(row[r], 1, FirstPage(r))
                                \o SubSeq(pages, Before(Place(r)) + 1, Before(Place(r)) + NewPages(r))
      <4> HIDE DEF slice
      <4>. QED  BY <3>1 DEF NewRows, Place, q
    <3>. QED  BY <3>2, <3>3
  <2>2. SubSeq(row[r], 1, FirstPage(r)) = row[r]
    <3>1. row[r] \in Seq(Pages) /\ FirstPage(r) = Len(row[r])
      BY <1>1, <1>2 DEF FirstPage
    <3>. QED  BY <3>1, SubSeqFull
  <2>. QED  BY <2>1, <2>2
<1>13. \A r \in Reqs \ InCur : NewRows(pages)[r] = row[r]
  BY DEF NewRows, InCur
<1>14. ASSUME NEW x, NEW d \in [InCur -> Int], \A r \in InCur : d[r] = Count(x, slice[r])
       PROVE  Total(d, InCur) = Count(x, pages)
  <2>1. \A i \in 1 .. n : d[q[i]] = Count(x, SubSeq(pages, at[i] + 1, at[i + 1]))
    <3> HIDE DEF slice
    <3>. QED  BY <1>6, <1>10, <1>14
  <2>2. InCur = Range(q)
    BY DEF InCur, q
  <2>3. at \in [1 .. Len(q) + 1 -> Nat] /\ at[1] = 0 /\ at[Len(q) + 1] = Len(pages)
        /\ (\A i \in 1 .. Len(q) : at[i] <= at[i + 1]) /\ d \in [Range(q) -> Int]
        /\ \A i \in 1 .. Len(q) : d[q[i]] = Count(x, SubSeq(pages, at[i] + 1, at[i + 1]))
    BY <1>7, <1>8, <2>1, <2>2 DEF n
  <2>4. Total(d, Range(q)) = Count(x, pages)
    BY ONLY <1>1, <2>3, pages \in Seq(Pages), SliceTotal DEF q
  <2>. QED  BY <2>2, <2>4
<1> HIDE DEF slice
<1>. QED
  BY <1>11, <1>12, <1>13, <1>14

\* The first pages of a list, and the others
LEMMA TakenIs ==
  ASSUME NEW all \in Seq(Pages), NEW n \in Nat, n <= Len(all), NEW x
  PROVE  /\ SubSeq(all, 1, n) \in Seq(Pages) /\ Len(SubSeq(all, 1, n)) = n /\ SubSeq(all, n + 1, Len(all)) \in Seq(Pages)
         /\ Count(x, all) = Count(x, SubSeq(all, 1, n)) + Count(x, SubSeq(all, n + 1, Len(all)))
         /\ Count(x, SubSeq(all, 1, n)) \in Nat /\ Count(x, SubSeq(all, n + 1, Len(all))) \in Nat
<1> DEFINE N == Len(all)
           z == 0
           p == SubSeq(all, 1, n)
           q == SubSeq(all, n + 1, Len(all))
<1>1. N \in Nat /\ z \in Nat /\ z <= n /\ z <= N /\ n <= N /\ N <= Len(all) /\ n <= Len(all)
  BY LenProperties
<1> HIDE DEF N, z
<1>2. SubSeq(all, z + 1, n) \in Seq(Pages) /\ Len(SubSeq(all, z + 1, n)) = n - z
  BY <1>1, CountCut
<1>3. SubSeq(all, n + 1, N) \in Seq(Pages)
  BY <1>1, CountCut
<1>4. Count(x, SubSeq(all, z + 1, N)) = Count(x, SubSeq(all, z + 1, n)) + Count(x, SubSeq(all, n + 1, N))
  BY <1>1, CountCut
<1>5. SubSeq(all, z + 1, N) = all
  BY <1>1, SubSeqFull DEF N, z
<1>6. p \in Seq(Pages) /\ Len(p) = n /\ q \in Seq(Pages) /\ Count(x, all) = Count(x, p) + Count(x, q)
  <2>1. n - z = n /\ z + 1 = 1
    BY DEF z
  <2>. QED  BY <1>1, <1>2, <1>3, <1>4, <1>5, <2>1 DEF N
<1> HIDE DEF p, q
<1>7. Count(x, p) \in Nat /\ Count(x, q) \in Nat
  BY <1>6, CountIs
<1>. QED
  BY <1>6, <1>7 DEF p, q

\* What a batch needs of new pages: its rows grow to device_len.
LEMMA NeededIs ==
  ASSUME CacheAssumption, CacheInv, PageInv, pc = "forward"
  PROVE  /\ Needed \in Nat
         /\ \A r \in InCur : /\ NewPages(r) \in Nat /\ PageCount(cached[r]) + NewPages(r) = PageCount(device[r])
                            /\ cached[r] \in Nat /\ device[r] \in Nat /\ cached[r] <= device[r]
<1>1. PageSize \in Nat \ {0} /\ live \subseteq Reqs
  BY RowsAre
<1>2. /\ cur.reqs \in Seq(Reqs) /\ InCur \subseteq live
      /\ cached \in [Reqs -> Nat] /\ device \in [Reqs -> Nat] /\ \A r \in live : cached[r] < device[r]
  BY DEF CacheInv, LifeInv, LensInv, Lists, IsBatch, Phases, Fields
<1>3. ASSUME NEW r \in InCur
      PROVE  /\ NewPages(r) \in Nat /\ PageCount(cached[r]) + NewPages(r) = PageCount(device[r])
             /\ cached[r] \in Nat /\ device[r] \in Nat /\ cached[r] <= device[r]
  <2>1. cached[r] \in Nat /\ device[r] \in Nat /\ cached[r] <= device[r]
    <3>1. r \in live /\ cached[r] \in Nat /\ device[r] \in Nat /\ cached[r] < device[r]
      BY <1>1, <1>2
    <3>. QED  BY <3>1
  <2>2. PageCount(cached[r]) \in Nat /\ PageCount(device[r]) \in Nat /\ PageCount(cached[r]) <= PageCount(device[r])
    BY <1>1, <2>1, PageCountIs
  <2>. QED  BY <2>1, <2>2 DEF NewPages, FirstPage
<1>4. Needed \in Nat
  <2>1. Len(cur.reqs) \in Nat /\ Needed = Before(Len(cur.reqs) + 1) /\ \A i \in 1 .. Len(cur.reqs) + 1 : Before(i) \in Nat
    BY <1>2, <1>3, BeforeIs
  <2>2. Len(cur.reqs) + 1 \in 1 .. Len(cur.reqs) + 1
    BY <2>1
  <2>. QED  BY <2>1, <2>2
<1>. QED
  BY <1>3, <1>4

\* What the pages, the tree and the rows are to a forward
Handed(f, t, w) ==
  /\ PagesHeld(f, t, live, w, handle)
  /\ \A r \in live : /\ RowOf(w[r], handle[r], IF r \in InCur THEN device[r] ELSE cached[r])
                    /\ \A k \in 1 .. Len(row[r]) : w[r][k] = row[r][k]

\* What a batch takes from the free pages its rows have.
LEMMA PagesLaunched ==
  ASSUME CacheAssumption, CacheInv, PageInv, pc = "forward", NEW R \in Evictions(Needed),
         NEW all, all = Gathered(R), NEW u, u = Without(tree, R),
         NEW v, v = NewRows(SubSeq(all, 1, Needed)), NEW rest, rest = SubSeq(all, Needed + 1, Len(all))
  PROVE  Handed(rest, u, v)
<1> DEFINE pages == SubSeq(all, 1, Needed)
<1>1. /\ PageSize \in Nat \ {0} /\ IsTree(tree, Tokens) /\ IsFiniteSet(live) /\ live \subseteq Reqs
      /\ Rows(live, row, handle, cached) /\ PagesHeld(free, tree, live, row, handle)
      /\ free \in Seq(Pages) /\ \A p \in DOMAIN tree.page : tree.page[p] \in Pages
  BY RowsAre
<1>2. /\ cur.reqs \in Seq(Reqs) /\ InCur \subseteq live
      /\ cached \in [Reqs -> Nat] /\ device \in [Reqs -> Nat] /\ \A r \in live : cached[r] < device[r]
  BY DEF CacheInv, LifeInv, LensInv, Lists, IsBatch, Phases, Fields
<1>3. ASSUME NEW r \in InCur
      PROVE  /\ NewPages(r) \in Nat /\ PageCount(cached[r]) + NewPages(r) = PageCount(device[r])
             /\ cached[r] \in Nat /\ device[r] \in Nat /\ cached[r] <= device[r]
  BY NeededIs
<1>4. Needed \in Nat
  BY NeededIs
<1>5. /\ all \in Seq(Pages) /\ Needed <= Len(all) /\ IsTree(u, Tokens)
      /\ \A p \in DOMAIN u.page : u.page[p] \in Pages
      /\ \A x : Count(x, all) + Cardinality(Holders(u, x)) = Count(x, free) + Cardinality(Holders(tree, x))
  BY <1>4, Evicted
<1>6. /\ pages \in Seq(Pages) /\ Len(pages) = Needed /\ rest \in Seq(Pages)
      /\ \A x : Count(x, all) = Count(x, pages) + Count(x, rest) /\ Count(x, pages) \in Nat /\ Count(x, rest) \in Nat
  <2> DEFINE need == Needed
  <2>1. need \in Nat /\ all \in Seq(Pages) /\ need <= Len(all)
    BY <1>4, <1>5
  <2>2. pages = SubSeq(all, 1, need) /\ rest = SubSeq(all, need + 1, Len(all))
    OBVIOUS
  <2> HIDE DEF need, pages
  <2>3. ASSUME NEW x
        PROVE  /\ pages \in Seq(Pages) /\ Len(pages) = need /\ rest \in Seq(Pages)
               /\ Count(x, all) = Count(x, pages) + Count(x, rest) /\ Count(x, pages) \in Nat /\ Count(x, rest) \in Nat
    <3>1. /\ SubSeq(all, 1, need) \in Seq(Pages) /\ Len(SubSeq(all, 1, need)) = need
          /\ SubSeq(all, need + 1, Len(all)) \in Seq(Pages)
          /\ Count(x, all) = Count(x, SubSeq(all, 1, need)) + Count(x, SubSeq(all, need + 1, Len(all)))
          /\ Count(x, SubSeq(all, 1, need)) \in Nat /\ Count(x, SubSeq(all, need + 1, Len(all))) \in Nat
      BY ONLY <2>1, TakenIs
    <3>. QED  BY <2>2, <3>1
  <2>. QED  BY <2>3 DEF need
<1> HIDE DEF pages
<1>7. PICK slice \in [InCur -> Seq(Pages)] :
           /\ \A r \in InCur : v[r] = row[r] \o slice[r] /\ Len(slice[r]) = NewPages(r)
           /\ \A r \in Reqs \ InCur : v[r] = row[r]
           /\ \A x : \A d \in [InCur -> Int] :
                (\A r \in InCur : d[r] = Count(x, slice[r])) => Total(d, InCur) = Count(x, pages)
  <2>1. v = NewRows(pages)
    BY DEF pages
  <2>2. \E slice \in [InCur -> Seq(Pages)] :
           /\ \A r \in InCur : NewRows(pages)[r] = row[r] \o slice[r] /\ Len(slice[r]) = NewPages(r)
           /\ \A r \in Reqs \ InCur : NewRows(pages)[r] = row[r]
           /\ \A x : \A d \in [InCur -> Int] :
                (\A r \in InCur : d[r] = Count(x, slice[r])) => Total(d, InCur) = Count(x, pages)
    BY <1>6, SlicesAre
  <2>. QED  BY <2>1, <2>2, ZenonT(40)
<1>8. ASSUME NEW r \in live
      PROVE  /\ row[r] \in Seq(Pages) /\ Len(row[r]) = PageCount(cached[r]) /\ Len(row[r]) \in Nat
             /\ RowOf(row[r], handle[r], cached[r]) /\ cached[r] \in Nat
             /\ Len(handle[r]) \div PageSize \in Nat /\ Len(handle[r]) \div PageSize <= Len(row[r])
  <2>1. RowOf(row[r], handle[r], cached[r]) /\ cached[r] \in Nat
    BY RowsAre
  <2>2. \A w, h : \A c \in Nat : RowOf(w, h, c) =>
          Len(h) \div PageSize \in Nat /\ Len(h) \div PageSize <= Len(w) /\ Len(w) \in Nat
    BY <1>1, RowIs
  <2>. QED  BY <2>1, <2>2 DEF RowOf
<1>9. ASSUME NEW r \in live PROVE RowOf(v[r], handle[r], IF r \in InCur THEN device[r] ELSE cached[r])
  <2>1. CASE r \in InCur
    <3>0. v[r] = row[r] \o slice[r] /\ slice[r] \in Seq(Pages) /\ row[r] \in Seq(Pages) /\ Len(slice[r]) = NewPages(r)
      BY <1>7, <1>8, <2>1
    <3>1. v[r] \in Seq(Pages) /\ Len(v[r]) = Len(row[r]) + NewPages(r)
      <4> DEFINE w == row[r]
                 s == slice[r]
      <4>1. w \in Seq(Pages) /\ s \in Seq(Pages) /\ v[r] = w \o s /\ Len(s) = NewPages(r)
        BY <3>0
      <4> HIDE DEF w, s
      <4>2. w \o s \in Seq(Pages) /\ Len(w \o s) = Len(w) + Len(s)
        BY ONLY <4>1, ConcatProperties
      <4>. QED  BY <4>1, <4>2 DEF w
    <3>2. Len(v[r]) = PageCount(device[r]) /\ cached[r] <= device[r] /\ device[r] \in Nat
      BY <1>3, <1>8, <2>1, <3>1
    <3>3. handle[r] \in Seq(Tokens) /\ Aligned(handle[r]) /\ Len(handle[r]) <= cached[r] /\ Len(handle[r]) \in Nat
      BY <1>8, LenProperties DEF RowOf
    <3>4. Len(handle[r]) <= device[r]
      <4> DEFINE a == Len(handle[r])
                 b == cached[r]
                 c == device[r]
      <4>1. a \in Nat /\ b \in Nat /\ c \in Nat /\ a <= b /\ b <= c
        BY <1>3, <2>1, <3>3
      <4> HIDE DEF a, b, c
      <4>2. a <= c
        BY <4>1
      <4>. QED  BY <4>2 DEF a, c
    <3>. QED  BY <2>1, <3>1, <3>2, <3>3, <3>4 DEF RowOf
  <2>2. CASE r \notin InCur
    BY <1>1, <1>7, <1>8, <2>2
  <2>. QED  BY <2>1, <2>2
<1>10. ASSUME NEW x \in Pages PROVE Spread(x, rest, u, live, v, handle) = 1
  <2> DEFINE e == Owned(x, live, row, handle)
             o == Owned(x, live, v, handle)
             g == [r \in InCur |-> Count(x, slice[r])]
             d == [r \in live |-> IF r \in InCur THEN Count(x, slice[r]) ELSE 0]
  <2>1. e \in [live -> Int] /\ \A r \in live : e[r] = Count(x, OwnOf(row[r], handle[r])) /\ e[r] \in Nat
    BY <1>1, OwnedIs
  <2>2. \A r \in InCur : Count(x, slice[r]) \in Nat
    BY <1>7, CountIs
  <2>3. g \in [InCur -> Int] /\ d \in [live -> Int] /\ \A r \in live : d[r] \in Nat
    BY <2>2
  <2>4. Total(g, InCur) = Count(x, pages)
    <3> HIDE DEF g
    <3>1. \A r \in InCur : g[r] = Count(x, slice[r])
      BY DEF g
    <3>. QED  BY <1>7, <2>3, <3>1
  <2>5. \A r \in live : o[r] = Count(x, OwnOf(v[r], handle[r]))
    BY DEF Owned
  <2>6. ASSUME NEW r \in live PROVE o[r] = e[r] + d[r]
    <3>1. CASE r \in InCur
      <4>1. v[r] = row[r] \o slice[r] /\ slice[r] \in Seq(Pages)
        BY <1>7, <3>1
      <4>2. Count(x, OwnOf(row[r] \o slice[r], handle[r])) = Count(x, OwnOf(row[r], handle[r])) + Count(x, slice[r])
        <5> DEFINE w == row[r]
                   s == slice[r]
                   h == handle[r]
        <5>1. w \in Seq(Pages) /\ s \in Seq(Pages) /\ Len(h) \div PageSize \in Nat /\ Len(h) \div PageSize <= Len(w)
          BY <1>8, <4>1
        <5> HIDE DEF w, s, h
        <5>2. Count(x, OwnOf(w \o s, h)) = Count(x, OwnOf(w, h)) + Count(x, s)
          BY ONLY <5>1, OwnConcat
        <5>. QED  BY <5>2 DEF w, s, h
      <4>. QED  BY <2>1, <2>5, <3>1, <4>1, <4>2
    <3>2. CASE r \notin InCur
      <4>1. v[r] = row[r] /\ d[r] = 0
        BY <1>1, <1>7, <3>2
      <4> HIDE DEF d, e, o
      <4>. QED  BY <2>1, <2>5, <4>1
    <3>. QED  BY <3>1, <3>2
  <2>7. o \in [live -> Int]
    <3>1. \A r \in live : o[r] \in Int
      <4> HIDE DEF d, e, o
      <4>. QED  BY <2>1, <2>3, <2>6
    <3>. QED  BY <3>1 DEF Owned
  <2>8. (\A r \in InCur : d[r] = g[r]) /\ \A r \in live \ InCur : d[r] = 0
    BY <1>2
  <2>9. Count(x, free) + Cardinality(Holders(tree, x)) + Total(e, live) = 1
    BY <1>1 DEF PagesHeld, Spread
  <2> HIDE DEF e, o, g, d
  <2>10. Total(o, live) = Total(e, live) + Total(d, live) /\ Total(e, live) \in Int
    <3> DEFINE L == live
    <3>1. IsFiniteSet(L) /\ e \in [L -> Int] /\ d \in [L -> Int] /\ o \in [L -> Int] /\ \A r \in L : o[r] = e[r] + d[r]
      BY <1>1, <2>1, <2>3, <2>6, <2>7
    <3> HIDE DEF L
    <3>2. Total(o, L) = Total(e, L) + Total(d, L)
      BY ONLY <3>1, TotalPlus, ZenonT(40)
    <3>3. L \in SUBSET L
      OBVIOUS
    <3>4. Total(e, L) \in Int
      BY ONLY <3>1, <3>3, TotalRules
    <3>. QED  BY <3>2, <3>4 DEF L
  <2>11. Total(d, live) = Total(g, InCur)
    <3>1. InCur \in SUBSET live
      BY <1>2
    <3> DEFINE L == live
               P == InCur
    <3>2. IsFiniteSet(L) /\ P \in SUBSET L /\ d \in [L -> Int] /\ g \in [P -> Int]
          /\ (\A r \in P : d[r] = g[r]) /\ (\A r \in L \ P : d[r] = 0) /\ \A r \in P : d[r] = d[r]
      BY <1>1, <2>3, <2>8, <3>1
    <3>3. IsFiniteSet(P) /\ P \in SUBSET P
      BY <3>2, FS_Subset
    <3> HIDE DEF L, P
    <3>4. Total(d, L) = Total(d, P)
      BY ONLY <3>2, TotalPart
    <3>5. Total(d, P) = Total(g, P)
      BY ONLY <3>2, <3>3, TotalAgree
    <3>. QED  BY <3>4, <3>5 DEF L, P
  <2>12. /\ Cardinality(Holders(u, x)) \in Nat /\ Cardinality(Holders(tree, x)) \in Nat /\ Count(x, free) \in Nat
    BY <1>1, <1>5, CountIs, HoldersNat
  <2>13. /\ Count(x, all) = Count(x, pages) + Count(x, rest) /\ Count(x, pages) \in Nat /\ Count(x, rest) \in Nat
         /\ Count(x, all) + Cardinality(Holders(u, x)) = Count(x, free) + Cardinality(Holders(tree, x))
    BY <1>5, <1>6
  <2>14. Count(x, rest) + Cardinality(Holders(u, x)) + Total(o, live) = 1
    BY <2>4, <2>9, <2>10, <2>11, <2>12, <2>13
  <2>. QED  BY <2>14 DEF Spread, o
<1>11. ASSUME NEW r \in live PROVE \A k \in 1 .. Len(row[r]) : v[r][k] = row[r][k]
  <2>1. CASE r \in InCur
    <3> DEFINE w == row[r]
               s == slice[r]
    <3>1. w \in Seq(Pages) /\ s \in Seq(Pages) /\ v[r] = w \o s
      BY <1>7, <1>8, <2>1
    <3> HIDE DEF w, s
    <3>2. \A k \in 1 .. Len(w) : (w \o s)[k] = w[k]
      BY ONLY <3>1, ConcatProperties
    <3>. QED  BY <3>1, <3>2 DEF w
  <2>2. CASE r \notin InCur
    BY <1>1, <1>7, <2>2
  <2>. QED  BY <2>1, <2>2
<1>. QED
  BY <1>5, <1>6, <1>9, <1>10, <1>11 DEF PagesHeld, Handed

\* Nothing moves, and no text is cut below what its request has locked.
LEMMA PagesStay ==
  ASSUME PageInv, tree'.page = tree.page, free' = free, live' = live,
         \A q \in live : /\ row'[q] = row[q] /\ handle'[q] = handle[q] /\ cached'[q] = cached[q]
                         /\ IsPrefix(handle[q], ids'[q])
  PROVE  PageInv'
<1>1. ASSUME NEW v, v = row', NEW k, k = handle', NEW u, u = tree'
      PROVE  PagesHeld(free, u, live, v, k)
  <2>1. /\ u.page = tree.page /\ PagesHeld(free, tree, live, row, handle)
        /\ \A q \in live : v[q] = row[q] /\ k[q] = handle[q]
    BY <1>1 DEF PageInv
  <2>. QED  BY ONLY <2>1, PagesSame
<1>2. PagesHeld(free', tree', live', row', handle')
  BY <1>1
<1>. QED
  BY <1>2 DEF PageInv, RowsInv

\* A forward takes what it allocates to its rows, what it evicts to the free pages.
LEMMA PagesForward == ASSUME CacheAssumption, CacheInv, PageInv, Forward PROVE PageInv'
<1>1. /\ pc = "forward" /\ live' = live /\ ids' = ids /\ handle' = handle
      /\ UNCHANGED <<tree, free, cached, row>> \/ Launches
  BY ForwardIs
<1>2. CASE UNCHANGED <<tree, free, cached, row>>
  <2>1. \A q \in live : IsPrefix(handle[q], ids'[q])
    BY <1>1, RowsAre
  <2>. QED  BY <1>1, <1>2, <2>1, PagesStay
<1>3. CASE Launches
  <2>1. PICK R \in Evictions(Needed) : Allocate(Needed, R)
    BY <1>3 DEF Launches
  <2>2. /\ tree' = Without(tree, R) /\ row' = NewRows(SubSeq(Gathered(R), 1, Needed))
        /\ free' = SubSeq(Gathered(R), Needed + 1, Len(Gathered(R)))
    BY <2>1 DEF Allocate, Gathered
  <2>3. \A all, u, v, rest :
          (/\ all = Gathered(R) /\ u = Without(tree, R) /\ v = NewRows(SubSeq(all, 1, Needed))
           /\ rest = SubSeq(all, Needed + 1, Len(all)))
          => Handed(rest, u, v)
    BY <1>1, PagesLaunched
  <2>4. /\ PagesHeld(free', tree', live, row', handle)
        /\ \A r \in live : RowOf(row'[r], handle[r], IF r \in InCur THEN device[r] ELSE cached[r])
    <3>1. \A v, u, rest : v = row' /\ u = tree' /\ rest = free' =>
             /\ PagesHeld(rest, u, live, v, handle)
             /\ \A r \in live : RowOf(v[r], handle[r], IF r \in InCur THEN device[r] ELSE cached[r])
      BY <2>2, <2>3 DEF Handed
    <3>. QED  BY <3>1
  <2>5. \A r \in live : cached'[r] = IF r \in InCur THEN device[r] ELSE cached[r]
    BY <1>3, RowsAre DEF Launches
  <2>6. \A r \in live : IsPrefix(handle[r], ids[r])
    BY RowsAre
  <2>. QED  BY <1>1, <2>4, <2>5, <2>6 DEF PageInv, RowsInv
<1>. QED
  BY <1>1, <1>2, <1>3

\* rollback_allocation gives back every page it took.
LEMMA PagesFailedPrepare == ASSUME CacheAssumption, CacheInv, PageInv, FailedPrepare PROVE PageInv'
<1>1. /\ pc = "forward" /\ live' = live /\ ids' = ids /\ handle' = handle /\ row' = row /\ cached' = cached
  BY DEF FailedPrepare, reqVars
<1>2. PICK R \in Evictions(Needed) : tree' = Without(tree, R) /\ free' = RolledBack(Gathered(R), Needed)
  BY DEF FailedPrepare, Gathered
<1> DEFINE n == Needed
           all == Gathered(R)
           p == SubSeq(all, 1, n)
           q == SubSeq(all, n + 1, Len(all))
           u == Without(tree, R)
<1>3. n \in Nat
  BY <1>1, NeededIs
<1>4. /\ all \in Seq(Pages) /\ n <= Len(all)
      /\ \A x \in DOMAIN u.page : u.page[x] \in Pages
      /\ \A x : Count(x, all) + Cardinality(Holders(u, x)) = Count(x, free) + Cardinality(Holders(tree, x))
  BY <1>3, Evicted
<1>5. free' = q \o p
  BY <1>2 DEF RolledBack
<1> HIDE DEF n, all
<1>6. p \in Seq(Pages) /\ q \in Seq(Pages)
      /\ \A x : Count(x, all) = Count(x, p) + Count(x, q) /\ Count(x, p) \in Nat /\ Count(x, q) \in Nat
  <2> SUFFICES ASSUME NEW x
               PROVE  /\ p \in Seq(Pages) /\ q \in Seq(Pages)
                      /\ Count(x, all) = Count(x, p) + Count(x, q) /\ Count(x, p) \in Nat /\ Count(x, q) \in Nat
    OBVIOUS
  <2>. QED  BY ONLY <1>3, <1>4, TakenIs
<1> HIDE DEF p, q, u
<1>7. q \o p \in Seq(Pages) /\ \A x : Count(x, q \o p) = Count(x, q) + Count(x, p)
  BY <1>6, CountConcat, ConcatProperties
<1>8. \A x : Count(x, q \o p) = Count(x, all)
  BY <1>6, <1>7
<1>9. PagesHeld(q \o p, u, live, row, handle)
  <2>1. PagesHeld(free, tree, live, row, handle)
    BY RowsAre
  <2>2. ASSUME NEW x \in Pages PROVE Spread(x, q \o p, u, live, row, handle) = 1
    <3>1. Count(x, q \o p) + Cardinality(Holders(u, x)) = Count(x, free) + Cardinality(Holders(tree, x))
      BY <1>4, <1>8
    <3>2. Count(x, free) + Cardinality(Holders(tree, x)) + Total(Owned(x, live, row, handle), live) = 1
      BY <2>1 DEF PagesHeld, Spread
    <3>3. Count(x, q \o p) + Cardinality(Holders(u, x)) + Total(Owned(x, live, row, handle), live) = 1
      BY <3>1, <3>2
    <3>. QED  BY <3>3 DEF Spread
  <2>. QED  BY <1>4, <1>7, <2>2 DEF PagesHeld
<1>. QED
  BY <1>1, <1>2, <1>5, <1>9 DEF PageInv, RowsInv, u

LEMMA PagesHandleAbort ==
  ASSUME CacheAssumption, CacheInv, PageInv, NEW r \in Reqs, HandleAbort(r)
  PROVE  PageInv'
<1>1. /\ pc \in {"wait", "recv"} /\ UNCHANGED <<last, finished, budget>>
      /\ LifeInv /\ LensInv /\ HeldInv
  BY DEF HandleAbort, Receiving, adder, InLast, CacheInv
<1>2. \A q \in live : IsPrefix(handle[q], ids[q])
  BY RowsAre
<1>3. CASE r \in InLast
  <2>1. UNCHANGED <<tree, free, live, ids, cached, row, handle>>
    BY <1>3 DEF HandleAbort, Fence, InLast, cacheVars, reqVars
  <2>. QED  BY <1>2, <2>1, PagesStay
<1>4. CASE r \notin InLast /\ r \in chunk \union running
  <2>1. Release(r, ids[r]) /\ r \in live
    BY <1>1, <1>4 DEF HandleAbort, Fence, InLast, LifeInv, Members
  <2>2. ids[r] \in Seq(Tokens) /\ Lag(r) <= 1 + (Len(ids[r]) - Len(ids[r]))
    BY <1>1, <1>4, <2>1, AbortText
  <2>3. IsPrefix(ids[r], ids[r])
    BY <2>2, PrefixOrder
  <2>. QED  BY <1>1, <2>1, <2>2, <2>3, PagesRelease
<1>5. CASE r \notin InLast /\ r \notin chunk \union running
  <2>1. Forget({r}) /\ live' = live /\ tree' = tree /\ free' = free
    BY <1>5 DEF HandleAbort, Fence, InLast, cacheVars
  <2>2. r \notin live /\ live \subseteq Reqs
    <3>1. cur = NoBatch /\ pc \notin {"admit", "forward", "post", "crashed", "failed"}
      BY <1>1 DEF LifeInv, Phases
    <3>. QED  BY <1>1, <1>5, <3>1 DEF LifeInv, AllKept, Kept, Waiting, Members
  <2>3. Others({r})
    BY <1>1, <2>1, ForgetIs
  <2>4. \A q \in live : ids'[q] = ids[q] /\ row'[q] = row[q] /\ handle'[q] = handle[q] /\ cached'[q] = cached[q]
    BY <2>2, <2>3 DEF Others
  <2>. QED  BY <1>2, <2>1, <2>4, PagesStay
<1>. QED
  BY <1>3, <1>4, <1>5

LEMMA PrefixAppend ==
  ASSUME NEW S, NEW h \in Seq(S), NEW s \in Seq(S), NEW e, Append(s, e) \in Seq(S), IsPrefix(h, s)
  PROVE  IsPrefix(s, Append(s, e)) /\ IsPrefix(h, Append(s, e))
<1> DEFINE t == Append(s, e)
<1>1. /\ t \in Seq(S) /\ Len(s) \in Nat /\ Len(t) = Len(s) + 1
      /\ \A i \in 1 .. Len(s) : t[i] = s[i]
  OBVIOUS
<1> HIDE DEF t
<1>2. Len(s) <= Len(t) /\ \A i \in 1 .. Len(s) : s[i] = t[i]
  BY <1>1
<1>3. IsPrefix(s, t)
  BY <1>1, <1>2, PrefixIs
<1>4. IsPrefix(h, t)
  BY <1>1, <1>3, PrefixOrder
<1>. QED
  BY <1>3, <1>4 DEF t

LEMMA PagesPostProcess == ASSUME CacheAssumption, CacheInv, PageInv, PostProcess PROVE PageInv'
<1>0. PICK r, text : r = Head(todo) /\ text = Append(ids[r], Data.token[r])
  OBVIOUS
<1>1. /\ pc = "post" /\ budget' = budget /\ r \in InTodo
      /\ \/ r \in Skipped /\ Skips
         \/ r \notin Skipped /\ (Stops(r, text) \/ GoesOn(r, text))
      /\ LifeInv /\ LensInv
  BY <1>0, PostProcessIs DEF CacheInv
<1>2. \A q \in live : IsPrefix(handle[q], ids[q]) /\ handle[q] \in Seq(Tokens) /\ ids[q] \in Seq(Tokens)
  BY RowsAre DEF RowOf
<1>3. CASE r \in Skipped /\ Skips
  <2>1. UNCHANGED <<tree, free, live, ids, cached, row, handle>>
    BY <1>3 DEF Skips
  <2>. QED  BY <1>2, <2>1, PagesStay
<1>4. CASE r \notin Skipped
  <2>1. text \in Seq(Tokens) /\ r \in live /\ Lag(r) <= 1 + (Len(text) - Len(ids[r]))
    BY <1>0, <1>1, <1>4, SampledText
  <2>2. IsPrefix(ids[r], text) /\ IsPrefix(handle[r], text)
    <3>1. \A h, s \in Seq(Tokens) : \A e : Append(s, e) \in Seq(Tokens) /\ IsPrefix(h, s) =>
             IsPrefix(s, Append(s, e)) /\ IsPrefix(h, Append(s, e))
      BY PrefixAppend
    <3>. QED  BY <1>0, <1>2, <2>1, <3>1
  <2>3. CASE Stops(r, text)
    BY <1>1, <2>1, <2>2, <2>3, PagesRelease DEF Stops
  <2>4. CASE GoesOn(r, text)
    <3>1. live' = live /\ row' = row /\ cached' = cached /\ ids' = [ids EXCEPT ![r] = text]
      BY <2>4 DEF GoesOn
    <3>2. CASE Data.prefill
      BY <2>1, <2>2, <2>4, <3>1, <3>2, PagesGoesOn DEF GoesOn
    <3>3. CASE ~Data.prefill
      <4>1. tree' = tree /\ free' = free /\ handle' = handle
        BY <2>4, <3>3 DEF GoesOn
      <4>2. \A q \in live : IsPrefix(handle[q], ids'[q])
        <5>1. ids \in [Reqs -> Seq(Tokens)] /\ live \subseteq Reqs
          BY <1>1 DEF LifeInv, Fields, Members
        <5>. QED  BY <1>2, <2>1, <2>2, <3>1, <5>1
      <4>. QED  BY <3>1, <4>1, <4>2, PagesStay
    <3>. QED  BY <3>2, <3>3
  <2>. QED  BY <1>1, <1>4, <2>3, <2>4
<1>. QED
  BY <1>1, <1>3, <1>4

LEMMA PagesNext == ASSUME CacheAssumption, CacheInv, PageInv, [Next]_vars PROVE PageInv'
<1>0. /\ LifeInv /\ LensInv /\ HeldInv /\ IsTree(tree, Tokens)
      /\ ids \in [Reqs -> Seq(Tokens)] /\ cached \in [Reqs -> Nat] /\ live \subseteq arrived /\ live \subseteq Reqs
  BY DEF CacheInv, HeldInv, LifeInv, Fields, Members
<1>1. \A q \in live : IsPrefix(handle[q], ids[q])
  BY RowsAre
<1>2. CASE UNCHANGED vars \/ StartTick \/ EndReceive
  <2>1. UNCHANGED <<tree, free, live, ids, cached, row, handle>>
    BY <1>2 DEF vars, StartTick, EndReceive, cacheVars, reqVars
  <2>. QED  BY <1>1, <2>1, PagesStay
<1>3. CASE Continue
  <2>1. UNCHANGED <<tree, free, live, ids, row, handle>> /\ cached' = [cached EXCEPT ![First] = cached[First]]
    BY <1>3 DEF Continue, AddOneReq, cacheVars
  <2>2. \A q \in live : cached'[q] = cached[q]
    BY <1>0, <2>1
  <2>. QED  BY <1>1, <2>1, <2>2, PagesStay
<1>4. ASSUME NEW r \in Reqs, HandleUser(r) PROVE PageInv'
  <2>1. UNCHANGED <<tree, free, live, cached, row, handle>> /\ r \notin arrived
        /\ \E p : ids' = [ids EXCEPT ![r] = p]
    BY <1>4 DEF HandleUser, cacheVars
  <2>2. \A q \in live : ids'[q] = ids[q]
    BY <1>0, <2>1
  <2>. QED  BY <1>1, <2>1, <2>2, PagesStay
<1>5. CASE CloseBatch
  <2>1. PICK path : /\ tree' = Split(tree, path) /\ (path = Root \/ path \in DOMAIN tree.page)
                    /\ live' = live /\ handle' = handle
    BY <1>5, CloseBatchIs
  <2>2. tree'.page = tree.page
    BY <1>0, <2>1, SplitIs
  <2>3. UNCHANGED <<free, ids, cached, row>>
    BY <1>5 DEF CloseBatch, reqVars
  <2>. QED  BY <1>1, <2>1, <2>2, <2>3, PagesStay
<1>6. CASE FreeDeferred
  <2>1. /\ pc = "post" /\ todo = <<>> /\ budget' = budget
    BY <1>0, <1>6, FreeDeferredIs
  <2>2. PICK r \in deferred : Release(r, ids[r])
    BY <1>0, <1>6, FreeDeferredIs
  <2>3. r \in live
    BY <1>0 DEF LifeInv, Waiting
  <2>4. ids[r] \in Seq(Tokens) /\ Lag(r) <= 1 + (Len(ids[r]) - Len(ids[r]))
    BY <1>0, <2>1, <2>3, AbortText
  <2>5. IsPrefix(ids[r], ids[r])
    BY <2>4, PrefixOrder
  <2>. QED  BY <2>1, <2>2, <2>3, <2>4, <2>5, PagesRelease
<1>7. CASE EndTick
  <2>1. Forget(finished) /\ budget' = budget /\ tree' = tree /\ free' = free /\ live' = live
    BY <1>7 DEF EndTick, cacheVars, adder
  <2>2. Others(finished) /\ finished \intersect live = {}
    BY <1>0, <2>1, ForgetIs DEF LifeInv, Phases
  <2>3. \A q \in live : ids'[q] = ids[q] /\ row'[q] = row[q] /\ handle'[q] = handle[q] /\ cached'[q] = cached[q]
    BY <1>0, <2>2 DEF Others
  <2>. QED  BY <1>1, <2>1, <2>3, PagesStay
<1>8. ASSUME NEW r \in Reqs, HandleAbort(r) PROVE PageInv'
  BY <1>8, PagesHandleAbort
<1>. QED
  BY <1>2, <1>3, <1>4, <1>5, <1>6, <1>7, <1>8, PagesAdmit, PagesForward, PagesFailedPrepare, PagesPostProcess
     DEF Next, Step, Idle

LEMMA PagesInit == ASSUME CacheAssumption, Init PROVE PageInv
<1>1. /\ NumPages \in Nat \ {0} /\ free = [i \in 1 .. NumPages |-> i - 1] /\ tree.page = <<>> /\ live = {}
  BY DEF Init, EmptyTree, CacheAssumption
<1>2. free \in Seq(Pages) /\ DOMAIN free = 1 .. NumPages
  BY <1>1 DEF Pages
<1>3. IsInjective(free)
  BY <1>1 DEF IsInjective
<1>4. Range(free) = Pages
  <2>1. \A x \in Pages : x + 1 \in 1 .. NumPages /\ free[x + 1] = x
    BY <1>1 DEF Pages
  <2>2. \A i \in DOMAIN free : free[i] \in Pages
    BY <1>2
  <2>3. \A y : y \in Range(free) <=> \E i \in DOMAIN free : free[i] = y
    BY DEF Range
  <2>4. \A x \in Pages : x \in Range(free)
    BY <1>2, <2>1, <2>3
  <2>. QED  BY <2>2, <2>3, <2>4
<1>5. ASSUME NEW x \in Pages PROVE Spread(x, free, tree, live, row, handle) = 1
  <2>1. Count(x, free) = 1
    BY <1>2, <1>3, <1>4, CountOnce
  <2>2. Holders(tree, x) = {}
    BY <1>1 DEF Holders
  <2>3. Cardinality(Holders(tree, x)) = 0
    BY <2>2, FS_EmptySet
  <2>4. Total(Owned(x, live, row, handle), live) = 0
    <3> DEFINE f == Owned(x, live, row, handle)
               E == {}
    <3>1. IsFiniteSet(E) /\ f \in [E -> Int] /\ live = E
      BY <1>1, FS_EmptySet DEF Owned
    <3> HIDE DEF f
    <3>2. Total(f, E) = 0
      BY <3>1, TotalRules
    <3>. QED  BY <3>1, <3>2 DEF f
  <2>. QED  BY <2>1, <2>3, <2>4 DEF Spread
<1>. QED
  BY <1>1, <1>2, <1>5 DEF PageInv, PagesHeld, RowsInv

\* PagesOnce sums over the live requests what Owned counts for each.
LEMMA OnceIs == ASSUME CacheAssumption, CacheInv, PageInv PROVE PagesOnce
<1>1. /\ PageSize \in Nat \ {0} /\ IsFiniteSet(live) /\ Rows(live, row, handle, cached)
      /\ PagesHeld(free, tree, live, row, handle)
  BY RowsAre
<1>2. ASSUME NEW x
      PROVE  MapThenSumSet(LAMBDA r : Occurrences(x, Own(r)), live) = Total(Owned(x, live, row, handle), live)
  <2> DEFINE f == Owned(x, live, row, handle)
             h == CHOOSE iter : iter = [s \in SUBSET live |->
                    IF s = {} THEN 0
                    ELSE Occurrences(x, Own(CHOOSE y \in s : TRUE)) + iter[s \ {CHOOSE y \in s : TRUE}]]
  <2>1. MapThenSumSet(LAMBDA r : Occurrences(x, Own(r)), live) = h[live]
    BY DEF MapThenSumSet, MapThenFoldSet
  <2>2. f \in [live -> Int]
    BY <1>1, OwnedIs
  <2>3. \A s \in SUBSET live : s /= {} => f[Pick(s)] = Occurrences(x, Own(Pick(s)))
    <3>1. \A r \in live : f[r] = Occurrences(x, Own(r))
      BY DEF Owned, OwnOf, Own, Occurrences, Count
    <3>. QED  BY <3>1, PickIn
  <2> HIDE DEF f
  <2>4. live \in SUBSET live
    OBVIOUS
  <2>5. PICK k : Unfolds(k, f, live)
    BY <1>1, <2>2, <2>4, TotalHas
  <2>6. k = [s \in SUBSET live |-> IF s = {} THEN 0 ELSE Occurrences(x, Own(Pick(s))) + k[s \ {Pick(s)}]]
    <3> DEFINE with(v, s) == IF s = {} THEN 0 ELSE v + k[s \ {Pick(s)}]
    <3>1. \A s \in SUBSET live : with(f[Pick(s)], s) = with(Occurrences(x, Own(Pick(s))), s)
      BY <2>3
    <3>2. k = [s \in SUBSET live |-> with(f[Pick(s)], s)]
      BY <2>5 DEF Unfolds
    <3>3. k = [s \in SUBSET live |-> with(Occurrences(x, Own(Pick(s))), s)]
      <4> HIDE DEF with
      <4>. QED  BY <3>1, <3>2
    <3>. QED  BY <3>3
  <2>7. h = [s \in SUBSET live |-> IF s = {} THEN 0 ELSE Occurrences(x, Own(Pick(s))) + h[s \ {Pick(s)}]]
    BY <2>6 DEF Pick
  <2> HIDE DEF h
  <2>8. Unfolds(h, f, live)
    <3> DEFINE with(v, s) == IF s = {} THEN 0 ELSE v + h[s \ {Pick(s)}]
    <3>1. \A s \in SUBSET live : with(f[Pick(s)], s) = with(Occurrences(x, Own(Pick(s))), s)
      BY <2>3
    <3>2. h = [s \in SUBSET live |-> with(Occurrences(x, Own(Pick(s))), s)]
      BY <2>7
    <3>3. h = [s \in SUBSET live |-> with(f[Pick(s)], s)]
      <4> HIDE DEF with
      <4>. QED  BY <3>1, <3>2
    <3>. QED  BY <3>3 DEF Unfolds
  <2>9. Total(f, live) = h[live]
    BY <1>1, <2>2, <2>4, <2>8, TotalHas
  <2>. QED  BY <2>1, <2>9 DEF f
<1>3. ASSUME NEW x \in Pages
      PROVE  1 = Occurrences(x, free) + Cardinality({text \in DOMAIN tree.page : tree.page[text] = x})
                 + MapThenSumSet(LAMBDA r : Occurrences(x, Own(r)), live)
  <2>1. Count(x, free) + Cardinality(Holders(tree, x)) + Total(Owned(x, live, row, handle), live) = 1
    BY <1>1 DEF PagesHeld, Spread
  <2>2. Occurrences(x, free) = Count(x, free)
    BY DEF Occurrences, Count
  <2>3. Cardinality({text \in DOMAIN tree.page : tree.page[text] = x}) = Cardinality(Holders(tree, x))
    BY DEF Holders
  <2>. QED  BY <1>2, <2>1, <2>2, <2>3
<1>. QED
  BY <1>3 DEF PagesOnce

(* PagesOnce: a page is on the free list, in the tree or a request's own, and
   once: no sequence of admissions, chunks, forwards, insertions, evictions,
   failed preparations and releases loses a page or hands one out twice. *)
THEOREM PagesCorrect == Spec => []PagesOnce
<1>1. Init => CacheInv /\ PageInv
  BY CacheAssumption, LifeInit, LensInit, HeldInit, PagesInit DEF CacheInv
<1>2. CacheInv /\ PageInv /\ [Next]_vars => (CacheInv /\ PageInv)'
  BY CacheAssumption, InvNext, PagesNext
<1>3. CacheInv /\ PageInv => PagesOnce
  BY CacheAssumption, OnceIs
<1>. QED
  BY <1>1, <1>2, <1>3, PTL DEF Spec

=============================================================================
