--------------------------- MODULE FrontendProofs ---------------------------
(***************************************************************************)
(* Proofs about the frontend and the queues around it, for any number of   *)
(* requests, tokenizers and tokens: what an acknowledged abort means at    *)
(* either end, the order of a client's tokens, and what is kept of a       *)
(* request once all is quiet.                                              *)
(***************************************************************************)
EXTENDS Frontend, SequenceTheorems, FiniteSetTheorems, TLAPS

(* The messages of the queues towards the scheduler and back *)
Commands == [type : {"tokenize", "abort"}, uid : Uids, n : Nat, finished : BOOLEAN]
Answers == [type : {"ack", "reply"}, uid : Uids, n : Nat, finished : BOOLEAN]
Tasks == {"none", "waiting", "yielding", "closing", "done", "cancelled", "ackwait"}

Types ==
  /\ DOMAIN ackMap \subseteq Uids /\ \A u \in DOMAIN ackMap : ackMap[u] \in Seq(Answers)
  /\ isSet \in [Uids -> BOOLEAN] /\ kind \in [Uids -> Kinds] /\ task \in [Uids -> Tasks]
  /\ eventMap \subseteq Uids /\ aborter \subseteq Uids /\ acked \subseteq Uids
  /\ batch \in [Uids -> Seq(Answers)] /\ delivered \in [Uids -> Seq(Answers)]
  /\ toTok \in [tokenizers -> Seq(Commands)] /\ toSched \in Seq(Commands)
  /\ toDetok \in Seq(Answers) /\ toFront \in Seq(Answers)
  /\ decodeMap \subseteq Uids /\ trailing \subseteq Uids
  /\ left \in [Uids -> Nat] /\ made \in [Uids -> Nat]

(* A task woken finds replies, or that its request is gone. *)
Woken ==
  \A u \in Uids :
    /\ task[u] = "none" => ~isSet[u] /\ u \notin DOMAIN ackMap /\ u \notin eventMap
    /\ u \in DOMAIN ackMap /\ isSet[u] => ackMap[u] /= <<>>
    /\ (task[u] = "yielding") = (batch[u] /= <<>>)
    /\ u \in aborter => task[u] = "cancelled"

TaskInv == Types /\ Woken

Holds(q, u, type) == \E i \in DOMAIN q : q[i].uid = u /\ q[i].type = type

(* The abort of u, or its acknowledgement, is in a queue. *)
Travels(u) ==
  \/ \E i \in tokenizers : Holds(toTok[i], u, "abort")
  \/ Holds(toSched, u, "abort") \/ Holds(toDetok, u, "ack") \/ Holds(toFront, u, "ack")

(* An abort is asked for once: until then nothing of it is anywhere, and     *)
(* from then on it is to be sent, travels, or was acknowledged.              *)
AbortOnce ==
  \A u \in Uids :
    /\ (task[u] \notin {"cancelled", "ackwait"} \/ u \in aborter) => ~Travels(u) /\ u \notin acked
    /\ task[u] \in {"cancelled", "ackwait"} => u \in aborter \/ Travels(u) \/ u \in acked
    /\ u \in abortPending \union abortEvents => Travels(u)
    /\ (u \in DOMAIN ackMap) = (task[u] /= "none" /\ u \notin acked)
    /\ (u \in eventMap) = (task[u] /= "none" /\ u \notin acked)

(* An abort is the last message of its request in a queue. *)
AbortLast(q, u) ==
  \A i \in DOMAIN q, j \in DOMAIN q :
    i < j /\ q[i].uid = u /\ q[i].type = "abort" => q[j].uid /= u

(* The abort of u has been answered. *)
Answered(u) == Holds(toDetok, u, "ack") \/ Holds(toFront, u, "ack") \/ u \in acked

(* With one tokenizer nothing of a request follows its abort. *)
Settling(t, u) ==
  /\ AbortLast(toTok[t], u) /\ AbortLast(toSched, u)
  /\ Holds(toSched, u, "abort") => ~InQueue(toTok[t], u)
  /\ Answered(u) => ~InQueue(toTok[t], u) /\ ~InQueue(toSched, u) /\ left[u] = 0

SettleInv == \A t \in tokenizers : tokenizers = {t} => \A u \in Uids : Settling(t, u)

(* Before its request nothing of u is anywhere. *)
Fresh(u) ==
  /\ \A i \in tokenizers : ~InQueue(toTok[i], u)
  /\ ~InQueue(toSched, u) /\ ~InQueue(toDetok, u) /\ ~InQueue(toFront, u)
  /\ left[u] = 0 /\ u \notin trailing /\ made[u] = 0 /\ delivered[u] = <<>>

FreshInv == \A u \in Uids : task[u] = "none" => Fresh(u)

IsReply(q, u, i) == q[i].uid = u /\ q[i].type = "reply"

(* The replies of u in q are those after lo up to hi, in order. *)
Run(q, u, lo, hi) ==
  /\ lo <= hi
  /\ \A i \in DOMAIN q : IsReply(q, u, i) => lo < q[i].n /\ q[i].n <= hi
  /\ \A i \in DOMAIN q, j \in DOMAIN q :
       i < j /\ IsReply(q, u, i) /\ IsReply(q, u, j) => q[i].n < q[j].n
  /\ \A n \in lo + 1 .. hi : \E i \in DOMAIN q : IsReply(q, u, i) /\ q[i].n = n

Numbered(s, lo) == \A i \in DOMAIN s : s[i].n = lo + i

(* The tokens of an open request, from the client back to the scheduler *)
Flow(u) ==
  /\ Numbered(delivered[u], 0) /\ \A i \in DOMAIN delivered[u] : ~delivered[u][i].finished
  /\ Numbered(batch[u], Len(delivered[u]))
  /\ Numbered(ackMap[u], Len(delivered[u]) + Len(batch[u]))
  /\ \E mid \in Nat :
       /\ Run(toFront, u, Len(delivered[u]) + Len(batch[u]) + Len(ackMap[u]), mid)
       /\ Run(toDetok, u, mid, made[u])

Ended(u) == delivered[u] /= <<>> /\ delivered[u][Len(delivered[u])].finished

(* The replies of u that have passed the detokenizer and were not dropped *)
Passed(u) ==
  {m \in ToSet(toFront) : m.uid = u /\ m.type = "reply"} \union ToSet(delivered[u])
    \union ToSet(batch[u]) \union (IF u \in DOMAIN ackMap THEN ToSet(ackMap[u]) ELSE {})

(* The replies of u pass the detokenizer in order, and it forgets u at a     *)
(* final one, unless another follows.                                        *)
Decoding(u) ==
  /\ \A i \in DOMAIN toDetok : IsReply(toDetok, u, i) =>
       /\ toDetok[i].n <= made[u]
       /\ \A j \in DOMAIN toDetok : i < j /\ IsReply(toDetok, u, j) => toDetok[i].n < toDetok[j].n
       /\ \A m \in Passed(u) : m.n < toDetok[i].n
  /\ \A m \in Passed(u) : m.n <= made[u]
  /\ \A m \in Passed(u) : m.finished /\ u \in decodeMap => m.n < made[u]

DecodeInv == \A u \in Uids : Decoding(u)

-----------------------------------------------------------------------------
(* Queues                                                                  *)

LEMMA HeadTail ==
  ASSUME NEW M, NEW q \in Seq(M), q /= <<>>
  PROVE  /\ Head(q) \in M /\ Head(q) = q[1] /\ Tail(q) \in Seq(M) /\ 1 \in DOMAIN q
         /\ Len(q) \in Nat \ {0} /\ Len(Tail(q)) = Len(q) - 1
         /\ \A i \in DOMAIN Tail(q) : i \in Nat \ {0} /\ i + 1 \in DOMAIN q /\ Tail(q)[i] = q[i + 1]
         /\ \A i \in DOMAIN q : i = 1 \/ (i - 1 \in DOMAIN Tail(q) /\ q[i] = Tail(q)[i - 1])
<1> DEFINE t == Tail(q)
<1>1. /\ Head(q) \in M /\ Head(q) = q[1] /\ t \in Seq(M) /\ Len(t) = Len(q) - 1
      /\ Len(q) \in Nat /\ Len(q) /= 0
      /\ \A i \in 1 .. Len(q) - 1 : t[i] = q[i + 1]
  BY HeadTailProperties, EmptySeq, LenProperties
<1>2. DOMAIN q = 1 .. Len(q) /\ DOMAIN t = 1 .. Len(t)
  BY <1>1, LenProperties
<1> HIDE DEF t
<1>3. ASSUME NEW i \in DOMAIN t PROVE i \in Nat \ {0} /\ i + 1 \in DOMAIN q /\ t[i] = q[i + 1]
  BY <1>1, <1>2
<1>4. ASSUME NEW i \in DOMAIN q, i /= 1 PROVE i - 1 \in DOMAIN t /\ q[i] = t[i - 1]
  <2>1. i - 1 \in 1 .. Len(q) - 1 /\ (i - 1) + 1 = i
    BY <1>1, <1>2, <1>4
  <2>. QED  BY <1>1, <1>2, <2>1
<1>5. 1 \in DOMAIN q
  BY <1>1, <1>2
<1>. QED
  BY <1>1, <1>3, <1>4, <1>5 DEF t

LEMMA Appended ==
  ASSUME NEW M, NEW q \in Seq(M), NEW m \in M
  PROVE  /\ Append(q, m) \in Seq(M) /\ Append(q, m) /= <<>> /\ Len(q) \in Nat
         /\ Len(Append(q, m)) = Len(q) + 1 /\ DOMAIN q = 1 .. Len(q)
         /\ DOMAIN Append(q, m) = 1 .. Len(q) + 1
         /\ Append(q, m)[Len(q) + 1] = m /\ \A i \in DOMAIN q : Append(q, m)[i] = q[i]
<1>1. /\ Append(q, m) \in Seq(M) /\ Len(Append(q, m)) = Len(q) + 1
      /\ \A i \in 1 .. Len(q) : Append(q, m)[i] = q[i]
      /\ Append(q, m)[Len(q) + 1] = m
  BY AppendProperties
<1>2. Len(q) \in Nat /\ DOMAIN q = 1 .. Len(q) /\ DOMAIN Append(q, m) = 1 .. Len(Append(q, m))
  BY <1>1, LenProperties
<1>3. Append(q, m) /= <<>>
  BY <1>1, <1>2, EmptySeq
<1>. QED
  BY <1>1, <1>2, <1>3

LEMMA EmptyQueue ==
  /\ DOMAIN <<>> = {} /\ \A u, type : ~Holds(<<>>, u, type) /\ ~InQueue(<<>>, u)
<1>1. DOMAIN <<>> = {}
  OBVIOUS
<1>. QED
  BY <1>1 DEF Holds, InQueue

LEMMA HoldsAppend ==
  ASSUME NEW M, NEW q \in Seq(M), NEW m \in M, NEW u, NEW type
  PROVE  /\ Holds(Append(q, m), u, type) <=> Holds(q, u, type) \/ (m.uid = u /\ m.type = type)
         /\ InQueue(Append(q, m), u) <=> InQueue(q, u) \/ m.uid = u
<1> DEFINE a == Append(q, m)
<1>1. /\ Len(q) \in Nat /\ DOMAIN q = 1 .. Len(q) /\ DOMAIN a = 1 .. Len(q) + 1
      /\ a[Len(q) + 1] = m /\ \A i \in DOMAIN q : a[i] = q[i]
  BY Appended
<1> HIDE DEF a
<1>2. Len(q) + 1 \in DOMAIN a /\ \A i \in DOMAIN a : i = Len(q) + 1 \/ i \in DOMAIN q
  BY <1>1
<1>3. \A i \in DOMAIN q : i \in DOMAIN a
  BY <1>1
<1>. QED
  BY <1>1, <1>2, <1>3 DEF Holds, InQueue, a

LEMMA HoldsTail ==
  ASSUME NEW M, NEW q \in Seq(M), q /= <<>>, NEW u, NEW type
  PROVE  /\ Holds(q, u, type) <=> Holds(Tail(q), u, type) \/ (Head(q).uid = u /\ Head(q).type = type)
         /\ InQueue(q, u) <=> InQueue(Tail(q), u) \/ Head(q).uid = u
<1> DEFINE t == Tail(q)
           h == Head(q)
<1>1. /\ h = q[1] /\ 1 \in DOMAIN q
      /\ \A i \in DOMAIN t : i + 1 \in DOMAIN q /\ t[i] = q[i + 1]
      /\ \A i \in DOMAIN q : i = 1 \/ (i - 1 \in DOMAIN t /\ q[i] = t[i - 1])
  BY HeadTail
<1> HIDE DEF t, h
<1>2. \A i \in DOMAIN q : q[i] = h \/ \E j \in DOMAIN t : q[i] = t[j]
  BY <1>1
<1>3. \A j \in DOMAIN t : \E i \in DOMAIN q : t[j] = q[i]
  BY <1>1
<1>4. Holds(q, u, type) <=> Holds(t, u, type) \/ (h.uid = u /\ h.type = type)
  <2>1. ASSUME Holds(q, u, type) PROVE Holds(t, u, type) \/ (h.uid = u /\ h.type = type)
    BY <1>2, <2>1 DEF Holds
  <2>2. ASSUME Holds(t, u, type) PROVE Holds(q, u, type)
    BY <1>3, <2>2 DEF Holds
  <2>3. ASSUME h.uid = u, h.type = type PROVE Holds(q, u, type)
    BY <1>1, <2>3 DEF Holds
  <2>. QED  BY <2>1, <2>2, <2>3
<1>5. InQueue(q, u) <=> InQueue(t, u) \/ h.uid = u
  BY <1>1, <1>2, <1>3 DEF InQueue
<1>. QED
  BY <1>4, <1>5 DEF t, h

LEMMA QueueAppend ==
  ASSUME NEW M, NEW q \in Seq(M), NEW m \in M, NEW u
  PROVE  InQueue(Append(q, m), u) <=> InQueue(q, u) \/ m.uid = u
<1>1. \A type : InQueue(Append(q, m), u) <=> InQueue(q, u) \/ m.uid = u
  BY HoldsAppend
<1>. QED
  BY <1>1

LEMMA QueueTail ==
  ASSUME NEW M, NEW q \in Seq(M), q /= <<>>, NEW u
  PROVE  InQueue(q, u) <=> InQueue(Tail(q), u) \/ Head(q).uid = u
<1>1. \A type : InQueue(q, u) <=> InQueue(Tail(q), u) \/ Head(q).uid = u
  BY HoldsTail
<1>. QED
  BY <1>1

LEMMA HoldsIn ==
  ASSUME NEW q, NEW u, NEW type, Holds(q, u, type)
  PROVE  InQueue(q, u)
BY DEF Holds, InQueue

LEMMA LastAppend ==
  ASSUME NEW M, NEW q \in Seq(M), NEW m \in M, NEW u, AbortLast(q, u),
         m.uid = u => ~Holds(q, u, "abort")
  PROVE  AbortLast(Append(q, m), u)
<1> DEFINE a == Append(q, m)
<1>1. /\ Len(q) \in Nat /\ DOMAIN q = 1 .. Len(q) /\ DOMAIN a = 1 .. Len(q) + 1
      /\ a[Len(q) + 1] = m /\ \A i \in DOMAIN q : a[i] = q[i]
  BY Appended
<1> HIDE DEF a
<1>2. ASSUME NEW i \in DOMAIN a, NEW j \in DOMAIN a, i < j, a[i].uid = u, a[i].type = "abort"
      PROVE  a[j].uid /= u
  <2>1. i \in DOMAIN q
    BY <1>1, <1>2
  <2>2. CASE j \in DOMAIN q
    BY <1>1, <1>2, <2>1, <2>2 DEF AbortLast
  <2>3. CASE j \notin DOMAIN q
    <3>1. a[j] = m
      BY <1>1, <2>3
    <3>2. Holds(q, u, "abort")
      BY <1>1, <1>2, <2>1 DEF Holds
    <3>. QED  BY <3>1, <3>2
  <2>. QED  BY <2>2, <2>3
<1>. QED
  BY <1>2 DEF AbortLast, a

LEMMA LastTail ==
  ASSUME NEW M, NEW q \in Seq(M), q /= <<>>, NEW u, AbortLast(q, u)
  PROVE  /\ AbortLast(Tail(q), u)
         /\ Head(q).uid = u /\ Head(q).type = "abort" => ~InQueue(Tail(q), u)
<1> DEFINE t == Tail(q)
           h == Head(q)
<1>1. /\ h = q[1] /\ 1 \in DOMAIN q
      /\ \A i \in DOMAIN t : i \in Nat \ {0} /\ i + 1 \in DOMAIN q /\ t[i] = q[i + 1]
  BY HeadTail
<1> HIDE DEF t, h
<1>2. ASSUME NEW i \in DOMAIN t, NEW j \in DOMAIN t, i < j, t[i].uid = u, t[i].type = "abort"
      PROVE  t[j].uid /= u
  <2>1. i + 1 < j + 1
    BY <1>1, <1>2
  <2>. QED  BY <1>1, <1>2, <2>1 DEF AbortLast
<1>3. ASSUME h.uid = u, h.type = "abort", NEW j \in DOMAIN t PROVE t[j].uid /= u
  <2>1. 1 < j + 1
    BY <1>1
  <2>. QED  BY <1>1, <1>3, <2>1 DEF AbortLast
<1>. QED
  BY <1>2, <1>3 DEF AbortLast, InQueue, t, h

LEMMA AnswerParts ==
  ASSUME NEW q \in Seq(Answers), NEW i \in DOMAIN q
  PROVE  /\ q[i] \in Answers /\ q[i].n \in Nat /\ q[i].uid \in Uids /\ q[i].finished \in BOOLEAN
         /\ i \in Nat /\ 1 <= i
<1>1. Len(q) \in Nat /\ q \in [1 .. Len(q) -> Answers] /\ DOMAIN q = 1 .. Len(q)
  BY LenProperties
<1>2. q[i] \in Answers /\ i \in Nat /\ 1 <= i
  BY <1>1
<1>. QED
  BY <1>2 DEF Answers

LEMMA RunEmpty ==
  ASSUME NEW q, NEW u, ~InQueue(q, u)
  PROVE  Run(q, u, 0, 0)
BY DEF Run, InQueue, IsReply

LEMMA RunAppend ==
  ASSUME NEW q \in Seq(Answers), NEW m \in Answers, NEW u, NEW lo \in Nat, NEW hi \in Nat,
         Run(q, u, lo, hi)
  PROVE  /\ ~(m.uid = u /\ m.type = "reply") => Run(Append(q, m), u, lo, hi)
         /\ m.uid = u /\ m.type = "reply" /\ m.n = hi + 1 => Run(Append(q, m), u, lo, hi + 1)
<1> DEFINE a == Append(q, m)
           l == Len(q)
<1>1. /\ l \in Nat /\ DOMAIN q = 1 .. l /\ DOMAIN a = 1 .. l + 1
      /\ a[l + 1] = m /\ \A i \in DOMAIN q : a[i] = q[i]
  BY Appended
<1>0. \A i \in DOMAIN q : q[i].n \in Nat
  BY AnswerParts
<1> HIDE DEF a, l
<1>2. \A i \in DOMAIN q : i \in DOMAIN a /\ (IsReply(a, u, i) <=> IsReply(q, u, i))
  BY <1>1 DEF IsReply
<1>3. \A i \in DOMAIN a : i \in DOMAIN q \/ i = l + 1
  BY <1>1
<1>4. IsReply(a, u, l + 1) <=> m.uid = u /\ m.type = "reply"
  BY <1>1 DEF IsReply
<1>5. \A i \in DOMAIN a, j \in DOMAIN a : i < j => i \in DOMAIN q
  BY <1>1
<1>6. ASSUME ~(m.uid = u /\ m.type = "reply") PROVE Run(a, u, lo, hi)
  <2>1. \A i \in DOMAIN a : IsReply(a, u, i) => i \in DOMAIN q /\ IsReply(q, u, i) /\ a[i] = q[i]
    BY <1>1, <1>2, <1>3, <1>4, <1>6
  <2>2. \A n \in lo + 1 .. hi : \E i \in DOMAIN a : IsReply(a, u, i) /\ a[i].n = n
    BY <1>1, <1>2 DEF Run
  <2>. QED  BY <2>1, <2>2 DEF Run
<1>7. ASSUME m.uid = u, m.type = "reply", m.n = hi + 1 PROVE Run(a, u, lo, hi + 1)
  <2>1. lo <= hi
    BY DEF Run
  <2>2. \A i \in DOMAIN q : IsReply(q, u, i) => lo < q[i].n /\ q[i].n <= hi
    BY DEF Run
  <2>3. ASSUME NEW i \in DOMAIN a, IsReply(a, u, i) PROVE lo < a[i].n /\ a[i].n <= hi + 1
    <3>1. CASE i \in DOMAIN q
      BY <1>0, <1>1, <1>2, <2>2, <2>3, <3>1
    <3>2. CASE i = l + 1
      BY <1>1, <1>7, <2>1, <3>2
    <3>. QED  BY <1>3, <3>1, <3>2
  <2>4. ASSUME NEW i \in DOMAIN a, NEW j \in DOMAIN a, i < j, IsReply(a, u, i), IsReply(a, u, j)
        PROVE  a[i].n < a[j].n
    <3>1. i \in DOMAIN q /\ IsReply(q, u, i) /\ a[i] = q[i]
      BY <1>1, <1>2, <1>5, <2>4
    <3>2. CASE j \in DOMAIN q
      BY <1>1, <1>2, <2>4, <3>1, <3>2 DEF Run
    <3>3. CASE j = l + 1
      BY <1>0, <1>1, <1>7, <2>2, <3>1, <3>3
    <3>. QED  BY <1>3, <3>2, <3>3
  <2>5. ASSUME NEW n \in lo + 1 .. hi + 1 PROVE \E i \in DOMAIN a : IsReply(a, u, i) /\ a[i].n = n
    <3>1. CASE n = hi + 1
      <4>1. l + 1 \in DOMAIN a
        BY <1>1
      <4>. QED  BY <1>1, <1>4, <1>7, <3>1, <4>1
    <3>2. CASE n /= hi + 1
      <4>1. n \in lo + 1 .. hi
        BY <3>2
      <4>. QED  BY <1>1, <1>2, <4>1 DEF Run
    <3>. QED  BY <3>1, <3>2
  <2>6. lo <= hi + 1
    BY <2>1
  <2>. QED  BY <2>3, <2>4, <2>5, <2>6 DEF Run
<1>. QED
  BY <1>6, <1>7 DEF a

(* The oldest message of a queue: another's, or the next reply *)
LEMMA RunTail ==
  ASSUME NEW q \in Seq(Answers), q /= <<>>, NEW u, NEW lo \in Nat, NEW hi \in Nat,
         Run(q, u, lo, hi)
  PROVE  /\ ~IsReply(q, u, 1) => Run(Tail(q), u, lo, hi)
         /\ IsReply(q, u, 1) => Head(q).n = lo + 1 /\ Run(Tail(q), u, lo + 1, hi)
<1> DEFINE t == Tail(q)
           h == Head(q)
<1>1. /\ h = q[1] /\ 1 \in DOMAIN q /\ DOMAIN q \subseteq Nat
      /\ \A i \in DOMAIN t : i \in Nat \ {0} /\ i + 1 \in DOMAIN q /\ t[i] = q[i + 1]
      /\ \A i \in DOMAIN q : i = 1 \/ (i - 1 \in DOMAIN t /\ q[i] = t[i - 1])
  BY HeadTail, LenProperties
<1>0. \A i \in DOMAIN q : q[i].n \in Nat /\ i \in Nat /\ 1 <= i
  BY AnswerParts
<1> HIDE DEF t, h
<1>2. \A i \in DOMAIN t : IsReply(t, u, i) <=> IsReply(q, u, i + 1)
  BY <1>1 DEF IsReply
<1>3. \A i \in DOMAIN q : i = 1 \/ (IsReply(q, u, i) <=> IsReply(t, u, i - 1))
  BY <1>1 DEF IsReply
<1>4. \A i \in DOMAIN t, j \in DOMAIN t : i < j /\ IsReply(t, u, i) /\ IsReply(t, u, j) => t[i].n < t[j].n
  <2> SUFFICES ASSUME NEW i \in DOMAIN t, NEW j \in DOMAIN t, i < j, IsReply(t, u, i), IsReply(t, u, j)
               PROVE  t[i].n < t[j].n
    OBVIOUS
  <2>1. i + 1 < j + 1 /\ i + 1 \in DOMAIN q /\ j + 1 \in DOMAIN q
    BY <1>1
  <2>. QED  BY <1>1, <1>2, <2>1 DEF Run
<1>5. ASSUME ~IsReply(q, u, 1) PROVE Run(t, u, lo, hi)
  <2>1. \A i \in DOMAIN t : IsReply(t, u, i) => lo < t[i].n /\ t[i].n <= hi
    BY <1>1, <1>2 DEF Run
  <2>2. \A n \in lo + 1 .. hi : \E i \in DOMAIN t : IsReply(t, u, i) /\ t[i].n = n
    <3> TAKE n \in lo + 1 .. hi
    <3>1. PICK i \in DOMAIN q : IsReply(q, u, i) /\ q[i].n = n
      BY DEF Run
    <3>2. i /= 1
      BY <1>5, <3>1
    <3>. QED  BY <1>1, <1>3, <3>1, <3>2
  <2>. QED  BY <1>4, <2>1, <2>2 DEF Run
<1>6. ASSUME IsReply(q, u, 1) PROVE h.n = lo + 1 /\ Run(t, u, lo + 1, hi)
  <2>1. lo < h.n /\ h.n <= hi /\ h.n \in Nat
    BY <1>0, <1>1, <1>6 DEF Run
  <2>2. h.n = lo + 1
    <3>1. lo + 1 \in lo + 1 .. hi
      BY <2>1
    <3>2. PICK i \in DOMAIN q : IsReply(q, u, i) /\ q[i].n = lo + 1
      BY <3>1 DEF Run
    <3>3. i = 1 \/ q[1].n < q[i].n
      <4>1. i = 1 \/ 1 < i
        BY <1>0
      <4>. QED  BY <1>1, <1>6, <3>2, <4>1 DEF Run
    <3>. QED  BY <1>1, <2>1, <3>2, <3>3
  <2>3. \A i \in DOMAIN t : IsReply(t, u, i) => lo + 1 < t[i].n /\ t[i].n <= hi
    <3> SUFFICES ASSUME NEW i \in DOMAIN t, IsReply(t, u, i) PROVE lo + 1 < t[i].n /\ t[i].n <= hi
      OBVIOUS
    <3>1. 1 < i + 1 /\ i + 1 \in DOMAIN q /\ IsReply(q, u, i + 1) /\ t[i] = q[i + 1]
      BY <1>1, <1>2
    <3>. QED  BY <1>1, <1>6, <2>2, <3>1 DEF Run
  <2>4. \A n \in (lo + 1) + 1 .. hi : \E i \in DOMAIN t : IsReply(t, u, i) /\ t[i].n = n
    <3> TAKE n \in (lo + 1) + 1 .. hi
    <3>1. n \in lo + 1 .. hi /\ n /= lo + 1
      OBVIOUS
    <3>2. PICK i \in DOMAIN q : IsReply(q, u, i) /\ q[i].n = n
      BY <3>1 DEF Run
    <3>3. i /= 1
      BY <1>1, <2>2, <3>1, <3>2
    <3>. QED  BY <1>1, <1>3, <3>2, <3>3
  <2>5. lo + 1 <= hi
    BY <2>1
  <2>. QED  BY <1>4, <2>2, <2>3, <2>4, <2>5 DEF Run
<1>. QED
  BY <1>5, <1>6 DEF t, h

-----------------------------------------------------------------------------
(* Types, and what a task that wakes finds                                 *)

LEMMA Messages ==
  ASSUME NEW u \in Uids
  PROVE  /\ Msg("tokenize", u) \in Commands /\ Msg("abort", u) \in Commands /\ Msg("ack", u) \in Answers
         /\ \A n \in Nat, finished \in BOOLEAN : Reply(u, n, finished) \in Answers
         /\ \A m \in Answers : m.uid \in Uids /\ m.n \in Nat /\ m.finished \in BOOLEAN
                                 /\ m.type \in {"ack", "reply"}
         /\ \A m \in Commands : m.uid \in Uids /\ m.type \in {"tokenize", "abort"}
BY DEF Msg, Reply, Commands, Answers

LEMMA PutDrop ==
  ASSUME NEW f, NEW u, NEW x
  PROVE  /\ DOMAIN Put(f, u, x) = DOMAIN f \union {u} /\ Put(f, u, x)[u] = x
         /\ \A v \in DOMAIN f : v /= u => Put(f, u, x)[v] = f[v]
         /\ DOMAIN Drop(f, u) = DOMAIN f \ {u} /\ \A v \in DOMAIN Drop(f, u) : Drop(f, u)[v] = f[v]
BY DEF Put, Drop

(* send_one adds its message to one queue. *)
LEMMA Sent ==
  ASSUME NEW m, SendOne(m), toTok \in [tokenizers -> Seq(Commands)], UNCHANGED tokenizers, m \in Commands
  PROVE  /\ toTok' \in [tokenizers' -> Seq(Commands)]
         /\ \E i \in tokenizers : /\ toTok'[i] = Append(toTok[i], m)
                                  /\ \A j \in tokenizers : j /= i => toTok'[j] = toTok[j]
<1>1. PICK i \in tokenizers : toTok' = [toTok EXCEPT ![i] = Append(@, m)]
  BY DEF SendOne
<1>2. Append(toTok[i], m) \in Seq(Commands)
  OBVIOUS
<1>. QED
  BY <1>1, <1>2

LEMMA TaskStart == Init => TaskInv
<1> SUFFICES ASSUME Init PROVE TaskInv
  OBVIOUS
<1>1. /\ ackMap = <<>> /\ DOMAIN <<>> = {} /\ eventMap = {} /\ isSet = [u \in Uids |-> FALSE]
      /\ task = [u \in Uids |-> "none"] /\ aborter = {} /\ acked = {}
      /\ batch = [u \in Uids |-> <<>>] /\ delivered = [u \in Uids |-> <<>>]
      /\ toTok = [i \in tokenizers |-> <<>>] /\ toSched = <<>> /\ toDetok = <<>> /\ toFront = <<>>
      /\ decodeMap = {} /\ trailing = {}
      /\ left = [u \in Uids |-> 0] /\ made = [u \in Uids |-> 0] /\ kind \in [Uids -> Kinds]
  BY DEF Init
<1>2. <<>> \in Seq(Answers) /\ <<>> \in Seq(Commands)
  OBVIOUS
<1>3. Types
  BY <1>1, <1>2 DEF Types, Tasks
<1>4. Woken
  BY <1>1 DEF Woken
<1>. QED
  BY <1>3, <1>4 DEF TaskInv

LEMMA TaskStep1 == TaskInv /\ [Next]_vars => TaskInv'
<1> SUFFICES ASSUME TaskInv, [Next]_vars PROVE TaskInv'
  OBVIOUS
<1>0. Types /\ Woken
  BY DEF TaskInv
<1>1. ASSUME NEW u \in Uids, Request(u) PROVE TaskInv'
  <2>1. /\ task[u] = "none" /\ ackMap' = Put(ackMap, u, <<>>) /\ eventMap' = eventMap \union {u}
        /\ SendOne(Msg("tokenize", u)) /\ task' = [task EXCEPT ![u] = "waiting"]
        /\ UNCHANGED <<tokenizers, isSet, kind, batch, delivered, aborter, acked, toSched, toDetok,
                       toFront, decodeMap, left, made, trailing>>
    BY <1>1 DEF Request, sched
  <2>2. toTok' \in [tokenizers' -> Seq(Commands)]
    BY <1>0, <2>1, Messages, Sent DEF Types
  <2>3. DOMAIN ackMap' = DOMAIN ackMap \union {u} /\ ackMap'[u] = <<>>
        /\ \A v \in DOMAIN ackMap : v /= u => ackMap'[v] = ackMap[v]
    BY <2>1 DEF Put
  <2>4. task' \in [Uids -> Tasks] /\ task'[u] = "waiting" /\ \A v \in Uids \ {u} : task'[v] = task[v]
    BY <1>0, <2>1 DEF Types, Tasks
  <2>5. <<>> \in Seq(Answers)
    OBVIOUS
  <2>6. \A v \in DOMAIN ackMap' : ackMap'[v] \in Seq(Answers)
    BY <1>0, <2>3, <2>5 DEF Types
  <2>7. Types'
    BY <1>0, <2>1, <2>2, <2>3, <2>4, <2>6 DEF Types
  <2>8. Woken'
    BY <1>0, <2>1, <2>3, <2>4 DEF Woken
  <2>. QED  BY <2>7, <2>8 DEF TaskInv
<1>2. ASSUME NEW u \in Uids, Leave(u) PROVE TaskInv'
  BY <1>0, <1>2 DEF Leave, front, sched, TaskInv, Types, Woken
<1>3. ASSUME NEW u \in Uids, Wake(u) PROVE TaskInv'
  <2>1. /\ task[u] = "waiting" /\ isSet[u] /\ isSet' = [isSet EXCEPT ![u] = FALSE]
        /\ UNCHANGED <<tokenizers, eventMap, kind, delivered, aborter, acked, toTok, toSched, toDetok,
                       toFront, decodeMap, left, made, trailing>>
    BY <1>3 DEF Wake, sched
  <2>2. isSet' \in [Uids -> BOOLEAN] /\ ~isSet'[u] /\ \A v \in Uids \ {u} : isSet'[v] = isSet[v]
    BY <1>0, <2>1 DEF Types
  <2>3. CASE u \in DOMAIN ackMap
    <3>1. /\ batch' = [batch EXCEPT ![u] = ackMap[u]] /\ ackMap' = [ackMap EXCEPT ![u] = <<>>]
          /\ task' = [task EXCEPT ![u] = "yielding"]
      BY <1>3, <2>3 DEF Wake
    <3>2. batch' \in [Uids -> Seq(Answers)] /\ batch'[u] = ackMap[u]
          /\ \A v \in Uids \ {u} : batch'[v] = batch[v]
      BY <1>0, <2>3, <3>1 DEF Types
    <3>3. DOMAIN ackMap' = DOMAIN ackMap /\ ackMap'[u] = <<>>
          /\ \A v \in DOMAIN ackMap \ {u} : ackMap'[v] = ackMap[v]
      BY <2>3, <3>1
    <3>4. task' \in [Uids -> Tasks] /\ task'[u] = "yielding" /\ \A v \in Uids \ {u} : task'[v] = task[v]
      BY <1>0, <3>1 DEF Types, Tasks
    <3>5. <<>> \in Seq(Answers)
      OBVIOUS
    <3>6. \A v \in DOMAIN ackMap' : ackMap'[v] \in Seq(Answers)
      BY <1>0, <3>3, <3>5 DEF Types
    <3>7. Types'
      BY <1>0, <2>1, <2>2, <3>2, <3>3, <3>4, <3>6 DEF Types
    <3>8. Woken'
      <4>1. ackMap[u] /= <<>> /\ u \notin aborter
        BY <1>0, <2>1, <2>3 DEF Woken
      <4> SUFFICES ASSUME NEW v \in Uids
                   PROVE  /\ task'[v] = "none" => ~isSet'[v] /\ v \notin DOMAIN ackMap' /\ v \notin eventMap'
                          /\ v \in DOMAIN ackMap' /\ isSet'[v] => ackMap'[v] /= <<>>
                          /\ (task'[v] = "yielding") = (batch'[v] /= <<>>)
                          /\ v \in aborter' => task'[v] = "cancelled"
        BY DEF Woken
      <4>2. CASE v = u
        BY <2>1, <2>2, <3>2, <3>4, <4>1, <4>2
      <4>3. CASE v /= u
        <5>1. /\ task'[v] = task[v] /\ batch'[v] = batch[v] /\ isSet'[v] = isSet[v] /\ eventMap' = eventMap
              /\ aborter' = aborter /\ (v \in DOMAIN ackMap' <=> v \in DOMAIN ackMap)
              /\ v \in DOMAIN ackMap => ackMap'[v] = ackMap[v]
          BY <2>1, <2>2, <3>2, <3>3, <3>4, <4>3
        <5>. QED  BY <1>0, <5>1 DEF Woken
      <4>. QED  BY <4>2, <4>3
    <3>. QED  BY <3>7, <3>8 DEF TaskInv
  <2>4. CASE u \notin DOMAIN ackMap
    <3>1. task' = [task EXCEPT ![u] = "closing"] /\ UNCHANGED <<batch, ackMap>>
      BY <1>3, <2>4 DEF Wake
    <3>2. task' \in [Uids -> Tasks] /\ task'[u] = "closing" /\ \A v \in Uids \ {u} : task'[v] = task[v]
      BY <1>0, <3>1 DEF Types, Tasks
    <3>3. Types'
      BY <1>0, <2>1, <2>2, <3>1, <3>2 DEF Types
    <3>4. Woken'
      BY <1>0, <2>1, <2>2, <2>4, <3>1, <3>2 DEF Woken
    <3>. QED  BY <3>3, <3>4 DEF TaskInv
  <2>. QED  BY <2>3, <2>4
<1>4. ASSUME NEW u \in Uids, Cancelled(u), task[u] /= "none",
             UNCHANGED <<tokenizers, front, kind, gone, acked, toTok, toSched, toDetok, toFront, decodeMap,
                         sched>>
      PROVE  TaskInv'
  <2>1. /\ task' = [task EXCEPT ![u] = "cancelled"] /\ batch' = [batch EXCEPT ![u] = <<>>]
        /\ aborter' = aborter \union {u}
        /\ UNCHANGED <<tokenizers, ackMap, eventMap, isSet, kind, delivered, acked, toTok, toSched, toDetok,
                       toFront, decodeMap, left, made, trailing>>
    BY <1>4 DEF Cancelled, front, sched
  <2>2. task' \in [Uids -> Tasks] /\ task'[u] = "cancelled" /\ \A v \in Uids \ {u} : task'[v] = task[v]
    BY <1>0, <2>1 DEF Types, Tasks
  <2>3. <<>> \in Seq(Answers)
    OBVIOUS
  <2>4. batch' \in [Uids -> Seq(Answers)] /\ batch'[u] = <<>> /\ \A v \in Uids \ {u} : batch'[v] = batch[v]
    BY <1>0, <2>1, <2>3 DEF Types
  <2>5. Types'
    BY <1>0, <2>1, <2>2, <2>4 DEF Types
  <2>6. Woken'
    BY <1>0, <1>4, <2>1, <2>2, <2>4 DEF Woken
  <2>. QED  BY <2>5, <2>6 DEF TaskInv
<1>5. ASSUME NEW u \in Uids, Deliver(u), task[u] = "yielding",
             UNCHANGED <<tokenizers, front, kind, gone, acked, toTok, toSched, toDetok, toFront, decodeMap,
                         sched>>
      PROVE  TaskInv'
  <2> DEFINE b == batch[u]
             h == Head(b)
             place == IF h.finished THEN "closing" ELSE IF Len(b) > 1 THEN "yielding" ELSE "waiting"
             rest == IF h.finished THEN <<>> ELSE Tail(b)
  <2>1. /\ delivered' = [delivered EXCEPT ![u] = Append(delivered[u], h)]
        /\ batch' = [batch EXCEPT ![u] = rest] /\ task' = [task EXCEPT ![u] = place]
        /\ UNCHANGED <<tokenizers, ackMap, eventMap, isSet, kind, aborter, acked, toTok, toSched, toDetok,
                       toFront, decodeMap, left, made, trailing>>
    BY <1>0, <1>5 DEF Deliver, front, sched, Types
  <2>2. b \in Seq(Answers) /\ b /= <<>> /\ delivered[u] \in Seq(Answers)
    BY <1>0, <1>5 DEF Types, Woken
  <2>3. h \in Answers /\ Tail(b) \in Seq(Answers) /\ Len(b) \in Nat \ {0} /\ Len(Tail(b)) = Len(b) - 1
    BY <2>2, HeadTail
  <2>4. Append(delivered[u], h) \in Seq(Answers)
    BY <2>2, <2>3
  <2>5. rest \in Seq(Answers) /\ ((place = "yielding") = (rest /= <<>>))
        /\ place \in {"closing", "yielding", "waiting"}
    <3>1. (Len(b) > 1) <=> (Tail(b) /= <<>>)
      <4>1. Tail(b) = <<>> <=> Len(Tail(b)) = 0
        BY <2>3, EmptySeq
      <4> DEFINE l == Len(b)
      <4>2. l > 1 <=> l - 1 /= 0
        <5>1. l \in Nat \ {0}
          BY <2>3
        <5> HIDE DEF l
        <5>. QED  BY <5>1
      <4>. QED  BY <2>3, <4>1, <4>2
    <3>2. <<>> \in Seq(Answers)
      OBVIOUS
    <3>. QED  BY <2>3, <3>1, <3>2
  <2> HIDE DEF b, h, place, rest
  <2>6. batch' \in [Uids -> Seq(Answers)] /\ batch'[u] = rest /\ \A v \in Uids \ {u} : batch'[v] = batch[v]
    BY <1>0, <2>1, <2>5 DEF Types
  <2>7. task' \in [Uids -> Tasks] /\ task'[u] = place /\ \A v \in Uids \ {u} : task'[v] = task[v]
    BY <1>0, <2>1, <2>5 DEF Types, Tasks
  <2>8. delivered' \in [Uids -> Seq(Answers)]
    BY <1>0, <2>1, <2>4 DEF Types
  <2>9. Types'
    BY <1>0, <2>1, <2>6, <2>7, <2>8 DEF Types
  <2>10. Woken'
    BY <1>0, <1>5, <2>1, <2>5, <2>6, <2>7 DEF Woken
  <2>. QED  BY <2>9, <2>10 DEF TaskInv
<1>6. ASSUME NEW u \in Uids, task[u] = "closing", task' = [task EXCEPT ![u] = "done"],
             UNCHANGED <<tokenizers, front, kind, acked, toTok, toSched, toDetok, toFront, decodeMap, sched,
                         batch, delivered, aborter>>
      PROVE  TaskInv'
  <2>1. task' \in [Uids -> Tasks] /\ task'[u] = "done" /\ \A v \in Uids \ {u} : task'[v] = task[v]
    BY <1>0, <1>6 DEF Types, Tasks
  <2>. QED
    BY <1>0, <1>6, <2>1 DEF TaskInv, Types, Woken, front, sched
<1>7. ASSUME NEW u \in Uids, AbortUser(u) PROVE TaskInv'
  <2>1. /\ aborter' = aborter \ {u} /\ SendOne(Msg("abort", u)) /\ u \in aborter
        /\ task' = [task EXCEPT ![u] = IF kind[u] = "shell" THEN "ackwait" ELSE "cancelled"]
        /\ UNCHANGED <<tokenizers, ackMap, eventMap, isSet, kind, batch, delivered, acked, toSched, toDetok,
                       toFront, decodeMap, left, made, trailing>>
    BY <1>7 DEF AbortUser, sched
  <2>2. toTok' \in [tokenizers' -> Seq(Commands)]
    BY <1>0, <2>1, Messages, Sent DEF Types
  <2>3. /\ task' \in [Uids -> Tasks] /\ task'[u] \in {"ackwait", "cancelled"}
        /\ \A v \in Uids \ {u} : task'[v] = task[v]
    BY <1>0, <2>1 DEF Types, Tasks
  <2>4. Types'
    BY <1>0, <2>1, <2>2, <2>3 DEF Types
  <2>5. Woken'
    BY <1>0, <1>7, <2>1, <2>3 DEF Woken
  <2>. QED  BY <2>4, <2>5 DEF TaskInv
<1>8. ASSUME NEW u \in Uids, WaitForAbortAck(u) PROVE TaskInv'
  <2>1. /\ task[u] = "ackwait" /\ task' = [task EXCEPT ![u] = "cancelled"]
        /\ UNCHANGED <<tokenizers, ackMap, eventMap, isSet, kind, batch, delivered, aborter, acked, toTok,
                       toSched, toDetok, toFront, decodeMap, left, made, trailing>>
    BY <1>8 DEF WaitForAbortAck, front, sched
  <2>2. task' \in [Uids -> Tasks] /\ task'[u] = "cancelled" /\ \A v \in Uids \ {u} : task'[v] = task[v]
    BY <1>0, <2>1 DEF Types, Tasks
  <2>3. Types'
    BY <1>0, <2>1, <2>2 DEF Types
  <2>4. Woken'
    BY <1>0, <2>1, <2>2 DEF Woken
  <2>. QED  BY <2>3, <2>4 DEF TaskInv
<1>9. CASE Listen
  <2> DEFINE m == Head(toFront)
             u == m.uid
  <2>1. /\ toFront /= <<>> /\ toFront' = Tail(toFront)
        /\ UNCHANGED <<tokenizers, kind, task, batch, delivered, aborter, toTok, toSched, toDetok, decodeMap,
                       left, made, trailing>>
    BY <1>9 DEF Listen, tasks, sched
  <2>2. m \in Answers /\ Tail(toFront) \in Seq(Answers)
    BY <1>0, <2>1, HeadTail DEF Types
  <2>3. u \in Uids
    BY <2>2 DEF Answers
  <2> HIDE DEF m
  <2>4. CASE m.type = "ack"
    <3>1. /\ ackMap' = Drop(ackMap, u) /\ eventMap' = eventMap \ {u}
          /\ isSet' = [isSet EXCEPT ![u] = @ \/ u \in eventMap] /\ acked' = acked \union {u}
      BY <1>9, <2>4 DEF Listen, AbortAck, m
    <3>2. DOMAIN ackMap' = DOMAIN ackMap \ {u} /\ \A v \in DOMAIN ackMap' : ackMap'[v] = ackMap[v]
      BY <3>1 DEF Drop
    <3>3. /\ isSet' \in [Uids -> BOOLEAN] /\ isSet'[u] = (isSet[u] \/ u \in eventMap)
          /\ \A v \in Uids \ {u} : isSet'[v] = isSet[v]
      BY <1>0, <2>3, <3>1 DEF Types
    <3>4. Types'
      BY <1>0, <2>1, <2>2, <2>3, <3>1, <3>2, <3>3 DEF Types
    <3>5. Woken'
      <4> SUFFICES ASSUME NEW v \in Uids
                   PROVE  /\ task[v] = "none" => ~isSet'[v] /\ v \notin DOMAIN ackMap' /\ v \notin eventMap'
                          /\ v \in DOMAIN ackMap' /\ isSet'[v] => ackMap'[v] /= <<>>
        BY <1>0, <2>1 DEF Woken
      <4>. QED  BY <1>0, <2>3, <3>1, <3>2, <3>3 DEF Woken
    <3>. QED  BY <3>4, <3>5 DEF TaskInv
  <2>5. CASE m.type /= "ack" /\ u \in DOMAIN ackMap /\ u \notin abortPending
    <3>1. /\ ackMap' = [ackMap EXCEPT ![u] = Append(@, m)] /\ isSet' = [isSet EXCEPT ![u] = TRUE]
          /\ UNCHANGED <<eventMap, acked>>
      BY <1>9, <2>5 DEF Listen, UserReply, m
    <3>2. ackMap[u] \in Seq(Answers)
      BY <1>0, <2>5 DEF Types
    <3>3. Append(ackMap[u], m) \in Seq(Answers) /\ Append(ackMap[u], m) /= <<>>
      BY <2>2, <3>2, Appended
    <3>4. DOMAIN ackMap' = DOMAIN ackMap /\ ackMap'[u] = Append(ackMap[u], m)
          /\ \A v \in DOMAIN ackMap \ {u} : ackMap'[v] = ackMap[v]
      BY <2>5, <3>1
    <3>5. isSet' \in [Uids -> BOOLEAN] /\ isSet'[u] /\ \A v \in Uids \ {u} : isSet'[v] = isSet[v]
      BY <1>0, <2>3, <3>1 DEF Types
    <3>6. \A v \in DOMAIN ackMap' : ackMap'[v] \in Seq(Answers)
      BY <1>0, <3>3, <3>4 DEF Types
    <3>7. Types'
      BY <1>0, <2>1, <2>2, <3>1, <3>4, <3>5, <3>6 DEF Types
    <3>8. Woken'
      <4> SUFFICES ASSUME NEW v \in Uids
                   PROVE  /\ task[v] = "none" => ~isSet'[v] /\ v \notin DOMAIN ackMap' /\ v \notin eventMap'
                          /\ v \in DOMAIN ackMap' /\ isSet'[v] => ackMap'[v] /= <<>>
        BY <1>0, <2>1 DEF Woken
      <4>1. CASE v = u
        BY <1>0, <2>5, <3>1, <3>3, <3>4, <4>1 DEF Woken
      <4>2. CASE v /= u
        BY <1>0, <3>1, <3>4, <3>5, <4>2 DEF Woken
      <4>. QED  BY <4>1, <4>2
    <3>. QED  BY <3>7, <3>8 DEF TaskInv
  <2>6. CASE m.type /= "ack" /\ ~(u \in DOMAIN ackMap /\ u \notin abortPending)
    <3>1. UNCHANGED <<ackMap, isSet, eventMap, acked>>
      BY <1>9, <2>6 DEF Listen, UserReply, m
    <3>. QED  BY <1>0, <2>1, <2>2, <3>1 DEF TaskInv, Types, Woken
  <2>. QED  BY <2>4, <2>5, <2>6
<1>10. ASSUME NEW i \in tokenizers, Tokenize(i) PROVE TaskInv'
  <2>1. /\ toTok[i] /= <<>> /\ toTok' = [toTok EXCEPT ![i] = Tail(@)]
        /\ toSched' = Append(toSched, Head(toTok[i]))
        /\ UNCHANGED <<tokenizers, ackMap, eventMap, isSet, kind, task, batch, delivered, aborter, acked,
                       toDetok, toFront, decodeMap, left, made, trailing>>
    BY <1>10 DEF Tokenize, front, tasks, sched
  <2>2. Head(toTok[i]) \in Commands /\ Tail(toTok[i]) \in Seq(Commands)
    BY <1>0, <2>1, HeadTail DEF Types
  <2>3. toTok' \in [tokenizers' -> Seq(Commands)] /\ toSched' \in Seq(Commands)
    BY <1>0, <2>1, <2>2 DEF Types
  <2>. QED  BY <1>0, <2>1, <2>3 DEF TaskInv, Types, Woken
<1>11. CASE Detokenize
  <2> DEFINE m == Head(toDetok)
  <2>1. /\ toDetok /= <<>> /\ toDetok' = Tail(toDetok) /\ toFront' = Append(toFront, m)
        /\ decodeMap' = IF m.type = "ack" THEN decodeMap ELSE Decoded(m)
        /\ UNCHANGED <<tokenizers, ackMap, eventMap, isSet, kind, task, batch, delivered, aborter, acked,
                       toTok, toSched, left, made, trailing>>
    BY <1>11 DEF Detokenize, front, tasks, sched
  <2>2. m \in Answers /\ Tail(toDetok) \in Seq(Answers)
    BY <1>0, <2>1, HeadTail DEF Types
  <2>3. m.uid \in Uids
    BY <2>2 DEF Answers
  <2> HIDE DEF m
  <2>4. decodeMap' \subseteq Uids
    BY <1>0, <2>1, <2>3 DEF Types, Decoded
  <2>5. toFront' \in Seq(Answers)
    BY <1>0, <2>1, <2>2 DEF Types
  <2>. QED  BY <1>0, <2>1, <2>2, <2>4, <2>5 DEF TaskInv, Types, Woken
<1>12. CASE SchedReceive
  <2> DEFINE m == Head(toSched)
             u == m.uid
  <2>1. /\ toSched /= <<>> /\ toSched' = Tail(toSched)
        /\ UNCHANGED <<tokenizers, ackMap, eventMap, isSet, kind, task, batch, delivered, aborter, acked,
                       toTok, toFront, decodeMap, made>>
    BY <1>12 DEF SchedReceive, front, tasks
  <2>2. m \in Commands /\ Tail(toSched) \in Seq(Commands)
    BY <1>0, <2>1, HeadTail DEF Types
  <2>3. u \in Uids
    BY <2>2 DEF Commands
  <2> HIDE DEF m
  <2>4. CASE m.type = "abort"
    <3>1. /\ left' = [left EXCEPT ![u] = 0] /\ trailing' = trailing \ {u}
          /\ toDetok' = Append(toDetok, Msg("ack", u))
      BY <1>12, <2>4 DEF SchedReceive, SchedAbort, m
    <3>2. Msg("ack", u) \in Answers
      BY <2>3, Messages
    <3>3. toDetok' \in Seq(Answers) /\ left' \in [Uids -> Nat]
      <4>1. toDetok \in Seq(Answers) /\ left \in [Uids -> Nat]
        BY <1>0 DEF Types
      <4>2. left' \in [Uids -> Nat]
        BY ONLY <3>1, <4>1
      <4>3. Append(toDetok, Msg("ack", u)) \in Seq(Answers)
        BY ONLY <3>2, <4>1, Appended
      <4>. QED  BY <3>1, <4>2, <4>3
    <3>. QED  BY <1>0, <2>1, <2>2, <3>1, <3>3 DEF TaskInv, Types, Woken
  <2>5. CASE m.type /= "abort"
    <3>1. SchedUser(u)
      BY <1>12, <2>5 DEF SchedReceive, m
    <3>2. left' \in [Uids -> Nat] /\ UNCHANGED <<trailing, toDetok>>
      <4>1. left \in [Uids -> Nat]
        BY <1>0 DEF Types
      <4>2. MaxOut[u] \in Nat
        BY <2>3, FrontendAssumption
      <4>3. left' = left \/ \E n \in 1 .. MaxOut[u] : left' = [left EXCEPT ![u] = n]
        BY <3>1 DEF SchedUser
      <4>4. \A n \in 1 .. MaxOut[u] : n \in Nat
        BY <4>2
      <4>5. left' \in [Uids -> Nat]
        BY <4>1, <4>3, <4>4
      <4>. QED  BY <3>1, <4>5 DEF SchedUser
    <3>. QED  BY <1>0, <2>1, <2>2, <3>2 DEF TaskInv, Types, Woken
  <2>. QED  BY <2>4, <2>5
<1>13. ASSUME NEW u \in Uids, SchedToken(u) \/ SchedTrailing(u) PROVE TaskInv'
  <2>1. UNCHANGED <<tokenizers, ackMap, eventMap, isSet, kind, task, batch, delivered, aborter, acked,
                    toTok, toSched, toFront, decodeMap>>
    BY <1>13 DEF SchedToken, SchedTrailing, front, tasks
  <2>2. made' = [made EXCEPT ![u] = @ + 1]
    BY <1>13 DEF SchedToken, SchedTrailing
  <2>3. made' \in [Uids -> Nat] /\ made'[u] \in Nat
    BY <1>0, <2>2 DEF Types
  <2>4. \E stops \in BOOLEAN : toDetok' = Append(toDetok, Reply(u, made'[u], stops))
    BY <1>13 DEF SchedToken, SchedTrailing
  <2>5. toDetok' \in Seq(Answers)
    <3>1. PICK stops \in BOOLEAN : toDetok' = Append(toDetok, Reply(u, made'[u], stops))
      BY <2>4
    <3>2. Reply(u, made'[u], stops) \in Answers
      BY <2>3, Messages
    <3>. QED  BY <1>0, <3>1, <3>2 DEF Types
  <2>6. left' \in [Uids -> Nat] /\ trailing' \subseteq Uids
    <3>1. CASE SchedToken(u)
      <4>1. left[u] > 0 /\ left[u] \in Nat
        BY <1>0, <3>1 DEF SchedToken, Types
      <4>2. left[u] - 1 \in Nat
        BY <4>1
      <4>3. PICK stops \in BOOLEAN :
              /\ left' = [left EXCEPT ![u] = IF stops THEN 0 ELSE @ - 1]
              /\ trailing' \in {trailing} \union (IF stops THEN {trailing \union {u}} ELSE {})
        BY <3>1 DEF SchedToken
      <4>. QED  BY <1>0, <4>2, <4>3 DEF Types
    <3>2. CASE SchedTrailing(u)
      BY <1>0, <3>2 DEF SchedTrailing, Types
    <3>. QED  BY <1>13, <3>1, <3>2
  <2>. QED  BY <1>0, <2>1, <2>3, <2>5, <2>6 DEF TaskInv, Types, Woken
<1>14. CASE UNCHANGED vars
  BY <1>0, <1>14 DEF vars, front, tasks, sched, TaskInv, Types, Woken
<1>15. ASSUME NEW u \in Uids, Yield(u) \/ Close(u) \/ Cancel(u) PROVE TaskInv'
  <2>1. task[u] /= "none"
    BY <1>15 DEF Yield, Close, Cancel
  <2>2. UNCHANGED <<tokenizers, front, kind, gone, acked, toTok, toSched, toDetok, toFront, decodeMap, sched>>
    BY <1>15 DEF Yield, Close, Cancel
  <2>3. CASE Cancelled(u)
    BY <1>4, <2>1, <2>2, <2>3
  <2>4. CASE task[u] = "yielding" /\ Deliver(u)
    BY <1>5, <2>2, <2>4
  <2>5. CASE task[u] = "closing" /\ task' = [task EXCEPT ![u] = "done"] /\ UNCHANGED <<batch, delivered, aborter>>
    BY <1>6, <2>2, <2>5
  <2>. QED  BY <1>15, <2>3, <2>4, <2>5 DEF Yield, Close, Cancel
<1>. QED
  BY <1>1, <1>2, <1>3, <1>7, <1>8, <1>9, <1>10, <1>11, <1>12, <1>13, <1>14, <1>15 DEF Next, TaskStep, SchedStep

LEMMA TaskCorrect == Spec => []TaskInv
BY TaskStart, TaskStep1, PTL DEF Spec

-----------------------------------------------------------------------------
(* An abort, from the client to its acknowledgement                        *)

LEMMA SentHolds ==
  ASSUME TaskInv, UNCHANGED tokenizers, NEW m \in Commands, SendOne(m), NEW v, NEW type
  PROVE  (\E i \in tokenizers' : Holds(toTok'[i], v, type)) <=>
           (\E i \in tokenizers : Holds(toTok[i], v, type)) \/ (m.uid = v /\ m.type = type)
<1>1. toTok \in [tokenizers -> Seq(Commands)]
  BY DEF TaskInv, Types
<1>2. PICK i \in tokenizers : /\ toTok'[i] = Append(toTok[i], m)
                              /\ \A j \in tokenizers : j /= i => toTok'[j] = toTok[j]
  BY <1>1, Sent
<1>3. Holds(toTok'[i], v, type) <=> Holds(toTok[i], v, type) \/ (m.uid = v /\ m.type = type)
  <2>1. toTok[i] \in Seq(Commands)
    BY <1>1
  <2>. QED  BY <1>2, <2>1, HoldsAppend
<1>. QED
  BY <1>2, <1>3

(* What the processes do with their queues *)
LEMMA QueueTravels ==
  ASSUME TaskInv, SchedStep \/ Detokenize \/ \E i \in tokenizers : Tokenize(i)
  PROVE  \A v : Travels(v)' <=> Travels(v)
<1>0. Types
  BY DEF TaskInv
<1>1. ASSUME NEW i \in tokenizers, Tokenize(i), NEW v PROVE Travels(v)' <=> Travels(v)
  <2> DEFINE m == Head(toTok[i])
  <2>1. /\ toTok[i] /= <<>> /\ toTok[i] \in Seq(Commands) /\ toTok'[i] = Tail(toTok[i])
        /\ \A j \in tokenizers : j /= i => toTok'[j] = toTok[j]
        /\ toSched' = Append(toSched, m) /\ UNCHANGED <<tokenizers, toDetok, toFront>>
    BY <1>0, <1>1 DEF Tokenize, Types
  <2>2. m \in Commands /\ toSched \in Seq(Commands)
    BY <1>0, <2>1, HeadTail DEF Types
  <2>3. Holds(toTok[i], v, "abort") <=> Holds(toTok'[i], v, "abort") \/ (m.uid = v /\ m.type = "abort")
    BY <2>1, HoldsTail
  <2>4. Holds(toSched', v, "abort") <=> Holds(toSched, v, "abort") \/ (m.uid = v /\ m.type = "abort")
    BY <2>1, <2>2, HoldsAppend
  <2> HIDE DEF m
  <2>. QED  BY <2>1, <2>3, <2>4 DEF Travels
<1>2. ASSUME Detokenize, NEW v PROVE Travels(v)' <=> Travels(v)
  <2> DEFINE m == Head(toDetok)
  <2>1. /\ toDetok /= <<>> /\ toDetok' = Tail(toDetok) /\ toDetok \in Seq(Answers)
        /\ toFront' = Append(toFront, m) /\ UNCHANGED <<tokenizers, toTok, toSched>>
    BY <1>0, <1>2 DEF Detokenize, Types
  <2>2. m \in Answers /\ toFront \in Seq(Answers)
    BY <1>0, <2>1, HeadTail DEF Types
  <2>3. Holds(toDetok, v, "ack") <=> Holds(toDetok', v, "ack") \/ (m.uid = v /\ m.type = "ack")
    BY <2>1, HoldsTail
  <2>4. Holds(toFront', v, "ack") <=> Holds(toFront, v, "ack") \/ (m.uid = v /\ m.type = "ack")
    BY <2>1, <2>2, HoldsAppend
  <2> HIDE DEF m
  <2>. QED  BY <2>1, <2>3, <2>4 DEF Travels
<1>3. ASSUME SchedReceive, NEW v PROVE Travels(v)' <=> Travels(v)
  <2> DEFINE m == Head(toSched)
  <2>1. /\ toSched /= <<>> /\ toSched' = Tail(toSched) /\ toSched \in Seq(Commands)
        /\ UNCHANGED <<tokenizers, toTok, toFront>>
    BY <1>0, <1>3 DEF SchedReceive, Types
  <2>2. m \in Commands /\ toDetok \in Seq(Answers)
    BY <1>0, <2>1, HeadTail DEF Types
  <2>3. Holds(toSched, v, "abort") <=> Holds(toSched', v, "abort") \/ (m.uid = v /\ m.type = "abort")
    BY <2>1, HoldsTail
  <2>4. IF m.type = "abort" THEN toDetok' = Append(toDetok, Msg("ack", m.uid)) ELSE toDetok' = toDetok
    BY <1>3 DEF SchedReceive, SchedAbort, SchedUser
  <2>5. m.type = "abort" => (Holds(toDetok', v, "ack") <=> Holds(toDetok, v, "ack") \/ m.uid = v)
    <3> SUFFICES ASSUME m.type = "abort"
                 PROVE  Holds(toDetok', v, "ack") <=> Holds(toDetok, v, "ack") \/ m.uid = v
      OBVIOUS
    <3> DEFINE a == Msg("ack", m.uid)
    <3>1. a \in Answers /\ a.uid = m.uid /\ a.type = "ack"
      BY <2>2 DEF Msg, Answers, Commands
    <3> HIDE DEF a
    <3>2. Holds(Append(toDetok, a), v, "ack") <=> Holds(toDetok, v, "ack") \/ (a.uid = v /\ a.type = "ack")
      BY ONLY <2>2, <3>1, HoldsAppend
    <3>. QED  BY <2>4, <3>1, <3>2 DEF a
  <2> HIDE DEF m
  <2>. QED  BY <2>1, <2>3, <2>4, <2>5 DEF Travels
<1>4. ASSUME NEW u \in Uids, SchedToken(u) \/ SchedTrailing(u), NEW v PROVE Travels(v)' <=> Travels(v)
  <2>1. UNCHANGED <<tokenizers, toTok, toSched, toFront>>
    BY <1>4 DEF SchedToken, SchedTrailing
  <2>2. PICK stops \in BOOLEAN : toDetok' = Append(toDetok, Reply(u, made'[u], stops))
    BY <1>4 DEF SchedToken, SchedTrailing
  <2>3. made'[u] \in Nat /\ toDetok \in Seq(Answers)
    BY <1>0, <1>4 DEF SchedToken, SchedTrailing, Types
  <2>4. Reply(u, made'[u], stops) \in Answers /\ Reply(u, made'[u], stops).type /= "ack"
    BY <2>3 DEF Reply, Answers
  <2>5. Holds(toDetok', v, "ack") <=> Holds(toDetok, v, "ack")
    BY <2>2, <2>3, <2>4, HoldsAppend
  <2>. QED  BY <2>1, <2>5 DEF Travels
<1>. QED
  BY <1>1, <1>2, <1>3, <1>4 DEF SchedStep

(* What the processes leave alone *)
LEMMA QueueAlone ==
  ASSUME SchedStep \/ Detokenize \/ \E i \in tokenizers : Tokenize(i)
  PROVE  UNCHANGED <<tokenizers, front, tasks, acked>>
BY DEF SchedStep, SchedReceive, SchedToken, SchedTrailing, Detokenize, Tokenize

(* A cancelled task leaves its request to abort_user. *)
LEMMA CancelSteps ==
  ASSUME NEW u \in Uids, Yield(u) \/ Close(u) \/ Cancel(u)
  PROVE  /\ UNCHANGED <<tokenizers, front, kind, gone, acked, toTok, toSched, toDetok, toFront, decodeMap, sched>>
         /\ task[u] \in {"waiting", "yielding", "closing"}
         /\ \/ Cancelled(u)
            \/ task[u] = "yielding" /\ Deliver(u)
            \/ /\ task[u] = "closing" /\ task' = [task EXCEPT ![u] = "done"]
               /\ UNCHANGED <<batch, delivered, aborter>>
BY DEF Yield, Close, Cancel

AbortInv == AbortOnce /\ Purged

LEMMA AbortStep == TaskInv /\ AbortInv /\ [Next]_vars => AbortInv'
<1> SUFFICES ASSUME TaskInv, AbortInv, [Next]_vars PROVE AbortInv'
  OBVIOUS
<1>0. Types /\ Woken /\ AbortOnce /\ Purged
  BY DEF TaskInv, AbortInv
<1>1. ASSUME UNCHANGED <<task, aborter, acked, abortPending, abortEvents, eventMap>>,
             DOMAIN ackMap' = DOMAIN ackMap, \A v : Travels(v)' <=> Travels(v)
      PROVE  AbortInv'
  BY <1>0, <1>1 DEF AbortInv, AbortOnce, Purged
<1>2. CASE SchedStep \/ Detokenize \/ \E i \in tokenizers : Tokenize(i)
  BY <1>1, <1>2, QueueTravels, QueueAlone DEF front, tasks
<1>3. CASE UNCHANGED vars
  BY <1>1, <1>3 DEF vars, front, tasks, Travels
<1>4. ASSUME NEW u \in Uids, Leave(u) PROVE AbortInv'
  BY <1>1, <1>4 DEF Leave, front, Travels
<1>5. ASSUME NEW u \in Uids, Request(u) PROVE AbortInv'
  <2>1. /\ task[u] = "none" /\ ackMap' = Put(ackMap, u, <<>>) /\ eventMap' = eventMap \union {u}
        /\ SendOne(Msg("tokenize", u)) /\ task' = [task EXCEPT ![u] = "waiting"]
        /\ UNCHANGED <<tokenizers, abortPending, abortEvents, aborter, acked, toSched, toDetok, toFront>>
    BY <1>5 DEF Request
  <2>2. \A v : Travels(v)' <=> Travels(v)
    <3>1. Msg("tokenize", u) \in Commands /\ Msg("tokenize", u).type /= "abort"
      BY DEF Msg, Commands
    <3>2. \A v : (\E i \in tokenizers' : Holds(toTok'[i], v, "abort")) <=>
                   (\E i \in tokenizers : Holds(toTok[i], v, "abort"))
      BY <2>1, <3>1, SentHolds
    <3>. QED  BY <2>1, <3>2 DEF Travels
  <2>3. DOMAIN ackMap' = DOMAIN ackMap \union {u}
    BY <2>1 DEF Put
  <2>4. task'[u] = "waiting" /\ \A v \in Uids \ {u} : task'[v] = task[v]
    BY <1>0, <2>1 DEF Types
  <2>5. u \notin aborter /\ u \notin acked /\ ~Travels(u)
    BY <1>0, <2>1 DEF Woken, AbortOnce
  <2>6. AbortOnce'
    <3> SUFFICES ASSUME NEW v \in Uids
                 PROVE  /\ (task'[v] \notin {"cancelled", "ackwait"} \/ v \in aborter) => ~Travels(v) /\ v \notin acked
                        /\ task'[v] \in {"cancelled", "ackwait"} => v \in aborter \/ Travels(v) \/ v \in acked
                        /\ v \in abortPending \union abortEvents => Travels(v)
                        /\ (v \in DOMAIN ackMap') = (task'[v] /= "none" /\ v \notin acked)
                        /\ (v \in eventMap') = (task'[v] /= "none" /\ v \notin acked)
      BY <2>1, <2>2 DEF AbortOnce
    <3>1. CASE v = u
      BY <1>0, <2>1, <2>3, <2>4, <2>5, <3>1 DEF AbortOnce
    <3>2. CASE v /= u
      BY <1>0, <2>1, <2>3, <2>4, <3>2 DEF AbortOnce
    <3>. QED  BY <3>1, <3>2
  <2>7. Purged'
    BY <1>0, <2>1, <2>3, <2>5 DEF Purged
  <2>. QED  BY <2>6, <2>7 DEF AbortInv
<1>6. ASSUME NEW u \in Uids, Wake(u) PROVE AbortInv'
  <2>1. /\ task[u] = "waiting" /\ u \notin aborter
        /\ UNCHANGED <<tokenizers, eventMap, abortPending, abortEvents, aborter, acked, toTok, toSched, toDetok,
                       toFront>>
    BY <1>0, <1>6 DEF Wake, Woken
  <2>2. u \in DOMAIN ackMap
    BY <1>0, <2>1 DEF AbortOnce
  <2>3. DOMAIN ackMap' = DOMAIN ackMap /\ task' = [task EXCEPT ![u] = "yielding"]
    BY <1>6, <2>2 DEF Wake
  <2>4. task'[u] = "yielding" /\ \A v \in Uids \ {u} : task'[v] = task[v]
    BY <1>0, <2>3 DEF Types
  <2>5. \A v : Travels(v)' <=> Travels(v)
    BY <2>1 DEF Travels
  <2>. QED
    BY <1>0, <2>1, <2>3, <2>4, <2>5 DEF AbortInv, AbortOnce, Purged
<1>7. ASSUME NEW u \in Uids, Yield(u) \/ Close(u) \/ Cancel(u) PROVE AbortInv'
  <2>1. /\ UNCHANGED <<tokenizers, ackMap, eventMap, abortPending, abortEvents, acked, toTok, toSched, toDetok,
                       toFront>>
        /\ task[u] \in {"waiting", "yielding", "closing"}
    BY <1>7, CancelSteps DEF front
  <2>2. \A v : Travels(v)' <=> Travels(v)
    BY <2>1 DEF Travels
  <2>3. u \notin aborter /\ ~Travels(u) /\ u \notin acked
    BY <1>0, <2>1 DEF Woken, AbortOnce
  <2>4. CASE Cancelled(u)
    <3>1. /\ task'[u] = "cancelled" /\ aborter' = aborter \union {u}
          /\ \A v \in Uids \ {u} : task'[v] = task[v]
      BY <1>0, <2>4 DEF Cancelled, Types
    <3>. QED  BY <1>0, <2>1, <2>2, <2>3, <3>1 DEF AbortInv, AbortOnce, Purged
  <2>5. CASE ~Cancelled(u)
    <3>1. /\ task'[u] \in {"closing", "yielding", "waiting", "done"} /\ aborter' = aborter
          /\ \A v \in Uids \ {u} : task'[v] = task[v]
      BY <1>0, <1>7, <2>5, CancelSteps DEF Deliver, Types
    <3>. QED  BY <1>0, <2>1, <2>2, <2>3, <3>1 DEF AbortInv, AbortOnce, Purged
  <2>. QED  BY <2>4, <2>5
<1>8. ASSUME NEW u \in Uids, AbortUser(u) PROVE AbortInv'
  <2>1. /\ u \in aborter /\ aborter' = aborter \ {u} /\ SendOne(Msg("abort", u))
        /\ abortPending' = abortPending \union {u} /\ abortEvents' = abortEvents \union {u}
        /\ task' = [task EXCEPT ![u] = IF kind[u] = "shell" THEN "ackwait" ELSE "cancelled"]
        /\ UNCHANGED <<tokenizers, ackMap, eventMap, acked, toSched, toDetok, toFront>>
    BY <1>8 DEF AbortUser
  <2>2. Travels(u)' /\ \A v : v /= u => (Travels(v)' <=> Travels(v))
    <3>1. Msg("abort", u) \in Commands /\ Msg("abort", u).type = "abort" /\ Msg("abort", u).uid = u
      BY DEF Msg, Commands
    <3>2. \A v : (\E i \in tokenizers' : Holds(toTok'[i], v, "abort")) <=>
                   (\E i \in tokenizers : Holds(toTok[i], v, "abort")) \/ u = v
      BY <2>1, <3>1, SentHolds
    <3>. QED  BY <2>1, <3>2 DEF Travels
  <2>3. /\ task'[u] \in {"ackwait", "cancelled"} /\ task[u] = "cancelled"
        /\ \A v \in Uids \ {u} : task'[v] = task[v]
    BY <1>0, <2>1 DEF Types, Woken
  <2>4. u \notin acked
    BY <1>0, <2>1 DEF AbortOnce
  <2>. QED
    BY <1>0, <2>1, <2>2, <2>3, <2>4 DEF AbortInv, AbortOnce, Purged
<1>9. ASSUME NEW u \in Uids, WaitForAbortAck(u) PROVE AbortInv'
  <2>1. /\ task[u] = "ackwait" /\ task' = [task EXCEPT ![u] = "cancelled"]
        /\ UNCHANGED <<tokenizers, ackMap, eventMap, abortPending, abortEvents, aborter, acked, toTok, toSched,
                       toDetok, toFront>>
    BY <1>9 DEF WaitForAbortAck, front
  <2>2. task'[u] = "cancelled" /\ \A v \in Uids \ {u} : task'[v] = task[v]
    BY <1>0, <2>1 DEF Types
  <2>3. \A v : Travels(v)' <=> Travels(v)
    BY <2>1 DEF Travels
  <2>. QED
    BY <1>0, <2>1, <2>2, <2>3 DEF AbortInv, AbortOnce, Purged
<1>10. CASE Listen
  <2> DEFINE m == Head(toFront)
             u == m.uid
  <2>1. /\ toFront /= <<>> /\ toFront' = Tail(toFront) /\ toFront \in Seq(Answers)
        /\ UNCHANGED <<tokenizers, task, aborter, toTok, toSched, toDetok>>
    BY <1>0, <1>10 DEF Listen, tasks, Types
  <2>2. m \in Answers /\ u \in Uids
    <3>1. m \in Answers
      BY <2>1, HeadTail
    <3> HIDE DEF m
    <3>. QED  BY <3>1 DEF Answers
  <2>3. \A v : Holds(toFront, v, "ack") <=> Holds(toFront', v, "ack") \/ (u = v /\ m.type = "ack")
    BY <2>1, HoldsTail
  <2> HIDE DEF m
  <2>4. CASE m.type = "ack"
    <3>1. /\ ackMap' = Drop(ackMap, u) /\ eventMap' = eventMap \ {u} /\ acked' = acked \union {u}
          /\ abortPending' = abortPending \ {u} /\ abortEvents' = abortEvents \ {u}
      BY <1>10, <2>4 DEF Listen, AbortAck, m
    <3>2. DOMAIN ackMap' = DOMAIN ackMap \ {u}
      BY <3>1 DEF Drop
    <3>3. Travels(u) /\ \A v : v /= u => (Travels(v)' <=> Travels(v))
      BY <2>1, <2>3, <2>4 DEF Travels
    <3>4. task[u] \in {"cancelled", "ackwait"} /\ u \notin aborter
      BY <1>0, <2>2, <3>3 DEF AbortOnce
    <3> HIDE DEF u
    <3>5. Purged'
      BY <1>0, <3>1, <3>2 DEF Purged
    <3>6. AbortOnce'
      <4> SUFFICES ASSUME NEW v \in Uids
                   PROVE  /\ (task[v] \notin {"cancelled", "ackwait"} \/ v \in aborter) =>
                               ~Travels(v)' /\ v \notin acked'
                          /\ task[v] \in {"cancelled", "ackwait"} => v \in aborter \/ Travels(v)' \/ v \in acked'
                          /\ v \in abortPending' \union abortEvents' => Travels(v)'
                          /\ (v \in DOMAIN ackMap') = (task[v] /= "none" /\ v \notin acked')
                          /\ (v \in eventMap') = (task[v] /= "none" /\ v \notin acked')
        BY <2>1 DEF AbortOnce
      <4>1. CASE v = u
        BY <3>1, <3>2, <3>4, <4>1
      <4>2. CASE v /= u
        BY <1>0, <3>1, <3>2, <3>3, <4>2 DEF AbortOnce
      <4>. QED  BY <4>1, <4>2
    <3>. QED  BY <3>5, <3>6 DEF AbortInv
  <2>5. CASE m.type /= "ack"
    <3>1. UNCHANGED <<eventMap, abortPending, abortEvents, acked>> /\ DOMAIN ackMap' = DOMAIN ackMap
      BY <1>10, <2>5 DEF Listen, UserReply, m
    <3>2. \A v : Travels(v)' <=> Travels(v)
      BY <2>1, <2>3, <2>5 DEF Travels
    <3>. QED  BY <1>1, <2>1, <3>1, <3>2
  <2>. QED  BY <2>4, <2>5
<1>. QED
  BY <1>2, <1>3, <1>4, <1>5, <1>6, <1>7, <1>8, <1>9, <1>10 DEF Next, TaskStep

LEMMA AbortInvCorrect == Spec => []AbortInv
<1>1. Init => AbortInv
  <2> SUFFICES ASSUME Init PROVE AbortInv
    OBVIOUS
  <2>1. /\ DOMAIN ackMap = {} /\ eventMap = {} /\ task = [u \in Uids |-> "none"] /\ aborter = {} /\ acked = {}
        /\ toTok = [i \in tokenizers |-> <<>>] /\ toSched = <<>> /\ toDetok = <<>> /\ toFront = <<>>
        /\ abortPending = {} /\ abortEvents = {}
    BY EmptyQueue DEF Init
  <2>2. \A v : ~Travels(v)
    BY <2>1, EmptyQueue DEF Travels
  <2>. QED  BY <2>1, <2>2 DEF AbortInv, AbortOnce, Purged
<1>. QED
  BY <1>1, AbortStep, TaskCorrect, PTL DEF Spec

(* Wherever an abort crosses the replies still on their way, no task and no
   reply brings the request back into a map of the frontend once its
   acknowledgement was handled (the "four-bucket cleanup" of listen and
   abort_user), for any number of requests and tokenizers. *)
THEOREM PurgedCorrect == Spec => []Purged
BY AbortInvCorrect, PTL DEF AbortInv

-----------------------------------------------------------------------------
(* With one tokenizer an acknowledged abort is the end of its request      *)

LEMMA SameTokenizers == [Next]_vars => UNCHANGED tokenizers
BY QueueAlone DEF Next, TaskStep, Request, Leave, Wake, Yield, Close, Cancel, AbortUser, WaitForAbortAck,
                  Listen, vars

LEMMA SettleStep == TaskInv /\ AbortInv /\ SettleInv /\ [Next]_vars => SettleInv'
<1> SUFFICES ASSUME TaskInv, AbortInv, SettleInv, [Next]_vars, NEW t \in tokenizers', tokenizers' = {t}
             PROVE  (\A u \in Uids : Settling(t, u))'
  BY DEF SettleInv
<1>0. Types /\ Woken /\ AbortOnce
  BY DEF TaskInv, AbortInv
<1>00. tokenizers' = tokenizers
  BY SameTokenizers
<1>01. /\ t \in tokenizers /\ tokenizers = {t} /\ \A u \in Uids : Settling(t, u)
       /\ toTok[t] \in Seq(Commands) /\ toSched \in Seq(Commands) /\ toDetok \in Seq(Answers)
       /\ toFront \in Seq(Answers)
  BY <1>0, <1>00 DEF SettleInv, Types
<1>1. ASSUME UNCHANGED <<acked, toTok, toSched, toDetok, toFront, left>> PROVE (\A u \in Uids : Settling(t, u))'
  BY <1>01, <1>1 DEF Settling, Answered
<1>2. ASSUME NEW u \in Uids, NEW m \in Commands, SendOne(m), m.uid = u, ~Travels(u), u \notin acked,
             UNCHANGED <<acked, toSched, toDetok, toFront, left>>
      PROVE  (\A v \in Uids : Settling(t, v))'
  <2>1. toTok'[t] = Append(toTok[t], m)
    BY <1>0, <1>00, <1>01, <1>2, Sent DEF Types
  <2>2. ~Answered(u) /\ ~Holds(toSched, u, "abort") /\ ~Holds(toTok[t], u, "abort")
    BY <1>01, <1>2 DEF Travels, Answered
  <2>3. \A v \in Uids : v /= u => (InQueue(toTok'[t], v) <=> InQueue(toTok[t], v))
    <3>1. \A v : InQueue(toTok'[t], v) <=> InQueue(toTok[t], v) \/ m.uid = v
      BY <1>01, <2>1, QueueAppend
    <3>. QED  BY <1>2, <3>1
  <2>4. \A v \in Uids : AbortLast(toTok'[t], v)
    BY <1>01, <1>2, <2>1, <2>2, LastAppend DEF Settling
  <2>5. ASSUME NEW v \in Uids PROVE Settling(t, v)'
    <3>1. Answered(v)' <=> Answered(v)
      BY <1>2 DEF Answered
    <3>2. CASE v = u
      BY <1>01, <1>2, <2>2, <2>4, <3>1, <3>2 DEF Settling
    <3>3. CASE v /= u
      BY <1>01, <1>2, <2>3, <2>4, <3>1, <3>3 DEF Settling
    <3>. QED  BY <3>2, <3>3
  <2>. QED  BY <2>5
<1>3. ASSUME NEW u \in Uids, Request(u) PROVE (\A v \in Uids : Settling(t, v))'
  <2>1. /\ SendOne(Msg("tokenize", u)) /\ UNCHANGED <<acked, toSched, toDetok, toFront, left>>
        /\ task[u] = "none" /\ Msg("tokenize", u) \in Commands /\ Msg("tokenize", u).uid = u
    BY <1>3 DEF Request, sched, Msg, Commands
  <2>2. ~Travels(u) /\ u \notin acked
    BY <1>0, <2>1 DEF AbortOnce
  <2>. QED  BY <1>2, <2>1, <2>2
<1>4. ASSUME NEW u \in Uids, AbortUser(u) PROVE (\A v \in Uids : Settling(t, v))'
  <2>1. /\ SendOne(Msg("abort", u)) /\ UNCHANGED <<acked, toSched, toDetok, toFront, left>>
        /\ u \in aborter /\ Msg("abort", u) \in Commands /\ Msg("abort", u).uid = u
    BY <1>4 DEF AbortUser, sched, Msg, Commands
  <2>2. ~Travels(u) /\ u \notin acked
    BY <1>0, <2>1 DEF AbortOnce
  <2>. QED  BY <1>2, <2>1, <2>2
<1>5. ASSUME Tokenize(t) PROVE (\A v \in Uids : Settling(t, v))'
  <2> DEFINE q == toTok[t]
             m == Head(q)
             u == m.uid
  <2>1. /\ q /= <<>> /\ q \in Seq(Commands) /\ toTok'[t] = Tail(q) /\ toSched' = Append(toSched, m)
        /\ UNCHANGED <<acked, toDetok, toFront, left>>
    BY <1>0, <1>01, <1>5 DEF Tokenize, sched, Types
  <2>2. m \in Commands
    BY <2>1, HeadTail
  <2>3. \A v : InQueue(q, v) <=> InQueue(Tail(q), v) \/ u = v
    BY <2>1, HoldsTail
  <2>4. \A v : /\ Holds(toSched', v, "abort") <=> Holds(toSched, v, "abort") \/ (u = v /\ m.type = "abort")
               /\ InQueue(toSched', v) <=> InQueue(toSched, v) \/ u = v
    BY <1>01, <2>1, <2>2, HoldsAppend
  <2>5. \A v \in Uids : /\ AbortLast(Tail(q), v)
                        /\ u = v /\ m.type = "abort" => ~InQueue(Tail(q), v)
    BY <1>01, <2>1, LastTail DEF Settling
  <2> HIDE DEF m
  <2>6. \A v \in Uids : AbortLast(toSched', v)
    <3> TAKE v \in Uids
    <3>1. AbortLast(toSched, v) /\ (u = v => ~Holds(toSched, v, "abort"))
      BY <1>01, <2>3 DEF Settling
    <3>. QED  BY <1>01, <2>1, <2>2, <3>1, LastAppend
  <2>7. ASSUME NEW v \in Uids PROVE Settling(t, v)'
    <3>1. Answered(v)' <=> Answered(v)
      BY <2>1 DEF Answered
    <3>. QED  BY <1>01, <2>1, <2>3, <2>4, <2>5, <2>6, <3>1 DEF Settling
  <2>. QED  BY <2>7
<1>6. CASE SchedReceive
  <2> DEFINE m == Head(toSched)
             u == m.uid
  <2>1. /\ toSched /= <<>> /\ toSched' = Tail(toSched) /\ UNCHANGED <<acked, toTok, toFront>>
    BY <1>6 DEF SchedReceive
  <2>2. m \in Commands
    BY <1>01, <2>1, HeadTail
  <2>3. \A v : /\ Holds(toSched, v, "abort") <=> Holds(toSched', v, "abort") \/ (u = v /\ m.type = "abort")
               /\ InQueue(toSched, v) <=> InQueue(toSched', v) \/ u = v
    BY <1>01, <2>1, HoldsTail
  <2>4. \A v \in Uids : /\ AbortLast(toSched', v)
                        /\ u = v /\ m.type = "abort" => ~InQueue(toSched', v)
    BY <1>01, <2>1, LastTail DEF Settling
  <2> HIDE DEF m
  <2>5. u \in Uids
    BY <2>2 DEF Commands
  <2>6. CASE m.type = "abort"
    <3>1. toDetok' = Append(toDetok, Msg("ack", u)) /\ left' = [left EXCEPT ![u] = 0]
      BY <1>6, <2>6 DEF SchedReceive, SchedAbort, m
    <3>2. left'[u] = 0 /\ \A v \in Uids : v /= u => left'[v] = left[v]
      BY <1>0, <2>5, <3>1 DEF Types
    <3>3. \A v : Holds(toDetok', v, "ack") <=> Holds(toDetok, v, "ack") \/ u = v
      <4>1. Msg("ack", u) \in Answers /\ Msg("ack", u).uid = u /\ Msg("ack", u).type = "ack"
        BY <2>5 DEF Msg, Answers
      <4>. QED  BY <1>01, <3>1, <4>1, HoldsAppend
    <3> HIDE DEF u
    <3>4. \A v \in Uids : v /= u => (Answered(v)' <=> Answered(v))
      BY <2>1, <3>3 DEF Answered
    <3>5. \A v \in Uids : v = u => Settling(t, v)'
      BY <1>01, <2>1, <2>3, <2>4, <2>5, <2>6, <3>2 DEF Settling
    <3>6. \A v \in Uids : v /= u => Settling(t, v)'
      BY <1>01, <2>1, <2>3, <2>4, <3>2, <3>4 DEF Settling
    <3>. QED  BY <3>5, <3>6
  <2>7. CASE m.type /= "abort"
    <3>1. SchedUser(u)
      BY <1>6, <2>7 DEF SchedReceive, m
    <3>2. toDetok' = toDetok /\ \A v \in Uids : v /= u => left'[v] = left[v]
      BY <1>0, <3>1 DEF SchedUser, Types
    <3> HIDE DEF u
    <3>3. \A v : Answered(v)' <=> Answered(v)
      BY <2>1, <3>2 DEF Answered
    <3>4. ~Answered(u)
      BY <1>01, <2>3, <2>5 DEF Settling
    <3>5. ASSUME NEW v \in Uids PROVE Settling(t, v)'
      BY <1>01, <2>1, <2>3, <2>4, <3>2, <3>3, <3>4 DEF Settling
    <3>. QED  BY <3>5
  <2>. QED  BY <2>6, <2>7
<1>7. ASSUME NEW u \in Uids, SchedToken(u) \/ SchedTrailing(u) PROVE (\A v \in Uids : Settling(t, v))'
  <2>1. UNCHANGED <<acked, toTok, toSched, toFront>>
    BY <1>7 DEF SchedToken, SchedTrailing
  <2>2. PICK stops \in BOOLEAN : toDetok' = Append(toDetok, Reply(u, made'[u], stops))
    BY <1>7 DEF SchedToken, SchedTrailing
  <2>3. Reply(u, made'[u], stops) \in Answers /\ Reply(u, made'[u], stops).type /= "ack"
    <3>1. made'[u] \in Nat
      BY <1>0, <1>7 DEF SchedToken, SchedTrailing, Types
    <3>. QED  BY <3>1 DEF Reply, Answers
  <2>4. \A v : Holds(toDetok', v, "ack") <=> Holds(toDetok, v, "ack")
    BY <1>01, <2>2, <2>3, HoldsAppend
  <2>5. \A v : Answered(v)' <=> Answered(v)
    BY <2>1, <2>4 DEF Answered
  <2>6. left[u] > 0 \/ left' = left
    BY <1>7 DEF SchedToken, SchedTrailing
  <2>7. \A v \in Uids : v /= u => left'[v] = left[v]
    BY <1>0, <1>7 DEF SchedToken, SchedTrailing, Types
  <2>8. left[u] > 0 => ~Answered(u)
    BY <1>01 DEF Settling
  <2>9. ASSUME NEW v \in Uids PROVE Settling(t, v)'
    BY <1>01, <2>1, <2>5, <2>6, <2>7, <2>8 DEF Settling
  <2>. QED  BY <2>9
<1>8. CASE Detokenize
  <2> DEFINE m == Head(toDetok)
  <2>1. /\ toDetok /= <<>> /\ toDetok' = Tail(toDetok) /\ toFront' = Append(toFront, m)
        /\ UNCHANGED <<acked, toTok, toSched, left>>
    BY <1>8 DEF Detokenize, sched
  <2>2. m \in Answers
    BY <1>01, <2>1, HeadTail
  <2>3. \A v : /\ Holds(toDetok, v, "ack") <=> Holds(toDetok', v, "ack") \/ (m.uid = v /\ m.type = "ack")
               /\ Holds(toFront', v, "ack") <=> Holds(toFront, v, "ack") \/ (m.uid = v /\ m.type = "ack")
    BY <1>01, <2>1, <2>2, HoldsTail, HoldsAppend
  <2> HIDE DEF m
  <2>4. \A v : Answered(v)' <=> Answered(v)
    BY <2>1, <2>3 DEF Answered
  <2>. QED  BY <1>01, <2>1, <2>4 DEF Settling
<1>9. CASE Listen
  <2> DEFINE m == Head(toFront)
  <2>1. /\ toFront /= <<>> /\ toFront' = Tail(toFront) /\ UNCHANGED <<toTok, toSched, toDetok, left>>
    BY <1>9 DEF Listen, sched
  <2>2. \A v : Holds(toFront, v, "ack") <=> Holds(toFront', v, "ack") \/ (m.uid = v /\ m.type = "ack")
    BY <1>01, <2>1, HoldsTail
  <2>3. acked' = IF m.type = "ack" THEN acked \union {m.uid} ELSE acked
    BY <1>9 DEF Listen, AbortAck, UserReply
  <2> HIDE DEF m
  <2>4. \A v : Answered(v)' <=> Answered(v)
    BY <2>1, <2>2, <2>3 DEF Answered
  <2>. QED  BY <1>01, <2>1, <2>4 DEF Settling
<1>10. ASSUME NEW u \in Uids, Leave(u) \/ Wake(u) \/ Yield(u) \/ Close(u) \/ Cancel(u) \/ WaitForAbortAck(u)
       PROVE  (\A v \in Uids : Settling(t, v))'
  BY <1>1, <1>10 DEF Leave, Wake, Yield, Close, Cancel, WaitForAbortAck, sched
<1>11. CASE UNCHANGED vars
  BY <1>1, <1>11 DEF vars, sched
<1>. QED
  BY <1>01, <1>3, <1>4, <1>5, <1>6, <1>7, <1>8, <1>9, <1>10, <1>11 DEF Next, TaskStep, SchedStep

(* With one tokenizer an acknowledged abort means that the scheduler is done
   with the request: the queues keep their order, so its TokenizeMsg cannot
   come after its AbortMsg (tokenize_worker, Scheduler._process_one_msg). *)
THEOREM AckIsFinalCorrect == Spec => []AckIsFinal
<1>1. Init => SettleInv /\ IsFiniteSet(tokenizers)
  <2> SUFFICES ASSUME Init PROVE SettleInv /\ IsFiniteSet(tokenizers)
    OBVIOUS
  <2>1. /\ acked = {} /\ toTok = [i \in tokenizers |-> <<>>] /\ toSched = <<>> /\ toDetok = <<>>
        /\ toFront = <<>> /\ \E n \in 1 .. NumTokenizers : tokenizers = 1 .. n
    BY DEF Init
  <2>2. \A v : ~Answered(v)
    BY <2>1, EmptyQueue DEF Answered
  <2>3. \A u : AbortLast(<<>>, u)
    BY EmptyQueue DEF AbortLast
  <2>4. SettleInv
    BY <2>1, <2>2, <2>3, EmptyQueue DEF SettleInv, Settling
  <2>5. IsFiniteSet(tokenizers)
    BY <2>1, FS_Interval, FrontendAssumption
  <2>. QED  BY <2>4, <2>5
<1>3. IsFiniteSet(tokenizers) /\ [Next]_vars => IsFiniteSet(tokenizers)'
  BY SameTokenizers
<1>4. TaskInv /\ SettleInv /\ IsFiniteSet(tokenizers) => AckIsFinal
  <2> SUFFICES ASSUME TaskInv, SettleInv, IsFiniteSet(tokenizers), Cardinality(tokenizers) = 1, NEW u \in acked
               PROVE  left[u] = 0 /\ ~InQueue(toSched, u)
    BY DEF AckIsFinal
  <2>1. PICK t : tokenizers = {t}
    BY FS_Singleton
  <2>. QED  BY <2>1 DEF TaskInv, Types, SettleInv, Settling, Answered
<1>. QED
  BY <1>1, <1>3, <1>4, AbortInvCorrect, SettleStep, TaskCorrect, PTL DEF Spec

-----------------------------------------------------------------------------
(* The order of a client's tokens                                          *)

LEMMA NoneBefore ==
  ASSUME TaskInv, [Next]_vars, NEW v \in Uids, task'[v] = "none"
  PROVE  task[v] = "none"
<1>0. task \in [Uids -> Tasks] /\ aborter \subseteq Uids
  BY DEF TaskInv, Types
<1>1. CASE SchedStep \/ Detokenize \/ \E i \in tokenizers : Tokenize(i)
  BY <1>1, QueueAlone DEF tasks
<1>2. ASSUME NEW u \in Uids, Request(u) \/ Wake(u) \/ AbortUser(u) \/ WaitForAbortAck(u) PROVE task[v] = "none"
  <2>1. task' = task \/ \E place \in Tasks : task' = [task EXCEPT ![u] = place] /\ place /= "none"
    BY <1>2 DEF Request, Wake, AbortUser, WaitForAbortAck, Tasks
  <2>. QED  BY <1>0, <2>1
<1>3. ASSUME NEW u \in Uids, Yield(u) \/ Close(u) \/ Cancel(u) PROVE task[v] = "none"
  <2>1. \E place \in Tasks : task' = [task EXCEPT ![u] = place] /\ place /= "none"
    BY <1>3, CancelSteps DEF Cancelled, Deliver, Tasks
  <2>. QED  BY <1>0, <2>1
<1>4. CASE Listen
  BY <1>4 DEF Listen, tasks
<1>5. ASSUME NEW u \in Uids, Leave(u) PROVE task[v] = "none"
  BY <1>5 DEF Leave
<1>6. CASE UNCHANGED vars
  BY <1>6 DEF vars, tasks
<1>. QED
  BY <1>1, <1>2, <1>3, <1>4, <1>5, <1>6 DEF Next, TaskStep

LEMMA FreshStep == TaskInv /\ FreshInv /\ [Next]_vars => FreshInv'
<1> SUFFICES ASSUME TaskInv, FreshInv, [Next]_vars, NEW v \in Uids, task'[v] = "none" PROVE Fresh(v)'
  BY DEF FreshInv
<1>0. Types /\ Woken /\ Fresh(v) /\ task[v] = "none" /\ UNCHANGED tokenizers /\ v \notin aborter
  BY NoneBefore, SameTokenizers DEF TaskInv, FreshInv, Woken
<1>1. ASSUME UNCHANGED <<toTok, toSched, toDetok, toFront, left, trailing, made, delivered>> PROVE Fresh(v)'
  BY <1>0, <1>1 DEF Fresh
<1>2. ASSUME NEW u \in Uids, NEW m \in Commands, SendOne(m), m.uid = u, u /= v,
             UNCHANGED <<toSched, toDetok, toFront, left, trailing, made, delivered>>
      PROVE  Fresh(v)'
  <2>1. PICK i \in tokenizers : /\ toTok'[i] = Append(toTok[i], m)
                                /\ \A j \in tokenizers : j /= i => toTok'[j] = toTok[j]
    BY <1>0, <1>2, Sent DEF Types
  <2>2. toTok[i] \in Seq(Commands)
    BY <1>0 DEF Types
  <2>3. InQueue(toTok'[i], v) <=> InQueue(toTok[i], v) \/ m.uid = v
    BY <2>1, <2>2, QueueAppend
  <2>. QED  BY <1>0, <1>2, <2>1, <2>3 DEF Fresh
<1>3. ASSUME NEW u \in Uids, Request(u) PROVE Fresh(v)'
  <2>1. Msg("tokenize", u) \in Commands /\ Msg("tokenize", u).uid = u /\ task'[u] = "waiting"
    BY <1>0, <1>3 DEF Request, Msg, Commands, Types
  <2>. QED  BY <1>2, <1>3, <2>1 DEF Request, sched
<1>4. ASSUME NEW u \in Uids, AbortUser(u) PROVE Fresh(v)'
  <2>1. Msg("abort", u) \in Commands /\ Msg("abort", u).uid = u /\ u /= v
    BY <1>0, <1>4 DEF AbortUser, Msg, Commands
  <2>. QED  BY <1>2, <1>4, <2>1 DEF AbortUser, sched
<1>5. ASSUME NEW i \in tokenizers, Tokenize(i) PROVE Fresh(v)'
  <2> DEFINE q == toTok[i]
  <2>1. /\ q /= <<>> /\ q \in Seq(Commands) /\ toTok'[i] = Tail(q) /\ toSched' = Append(toSched, Head(q))
        /\ \A j \in tokenizers : j /= i => toTok'[j] = toTok[j]
        /\ UNCHANGED <<toDetok, toFront, left, trailing, made, delivered>>
    BY <1>0, <1>5 DEF Tokenize, tasks, sched, Types
  <2>2. InQueue(q, v) <=> InQueue(Tail(q), v) \/ Head(q).uid = v
    BY <2>1, QueueTail
  <2>3. Head(q) \in Commands /\ toSched \in Seq(Commands)
    BY <1>0, <2>1, HeadTail DEF Types
  <2>4. InQueue(toSched', v) <=> InQueue(toSched, v) \/ Head(q).uid = v
    BY <2>1, <2>3, QueueAppend
  <2>. QED  BY <1>0, <2>1, <2>2, <2>4 DEF Fresh
<1>6. CASE SchedReceive
  <2> DEFINE m == Head(toSched)
  <2>1. /\ toSched /= <<>> /\ toSched \in Seq(Commands) /\ toSched' = Tail(toSched) /\ toDetok \in Seq(Answers)
        /\ UNCHANGED <<toTok, toFront, made, delivered>>
    BY <1>0, <1>6 DEF SchedReceive, tasks, Types
  <2>2. InQueue(toSched, v) <=> InQueue(toSched', v) \/ m.uid = v
    BY <2>1, QueueTail
  <2>3. m \in Commands
    BY <2>1, HeadTail
  <2> HIDE DEF m
  <2>4. m.uid \in Uids /\ m.uid /= v
    BY <1>0, <2>2, <2>3 DEF Fresh, Commands
  <2>5. CASE m.type = "abort"
    <3>1. /\ left' = [left EXCEPT ![m.uid] = 0] /\ trailing' = trailing \ {m.uid}
          /\ toDetok' = Append(toDetok, Msg("ack", m.uid))
      BY <1>6, <2>5 DEF SchedReceive, SchedAbort, m
    <3> DEFINE a == Msg("ack", m.uid)
    <3>2. a \in Answers /\ a.uid = m.uid
      BY <2>4 DEF Msg, Answers
    <3> HIDE DEF a
    <3>3. InQueue(Append(toDetok, a), v) <=> InQueue(toDetok, v) \/ a.uid = v
      BY ONLY <2>1, <3>2, QueueAppend
    <3>4. left'[v] = left[v]
      BY <1>0, <2>4, <3>1 DEF Types
    <3>. QED  BY <1>0, <2>1, <2>2, <2>4, <3>1, <3>2, <3>3, <3>4 DEF Fresh, a
  <2>6. CASE m.type /= "abort"
    <3>1. SchedUser(m.uid)
      BY <1>6, <2>6 DEF SchedReceive, m
    <3>2. left'[v] = left[v] /\ UNCHANGED <<trailing, toDetok>>
      BY <1>0, <2>4, <3>1 DEF SchedUser, Types
    <3>. QED  BY <1>0, <2>1, <2>2, <3>2 DEF Fresh
  <2>. QED  BY <2>5, <2>6
<1>7. ASSUME NEW u \in Uids, SchedToken(u) \/ SchedTrailing(u) PROVE Fresh(v)'
  <2>1. u /= v
    BY <1>0, <1>7 DEF SchedToken, SchedTrailing, Fresh, Types
  <2>2. /\ UNCHANGED <<toTok, toSched, toFront, delivered>> /\ left'[v] = left[v] /\ made'[v] = made[v]
        /\ v \notin trailing'
    BY <1>0, <1>7, <2>1 DEF SchedToken, SchedTrailing, tasks, Types, Fresh
  <2>3. PICK stops \in BOOLEAN : toDetok' = Append(toDetok, Reply(u, made'[u], stops))
    BY <1>7 DEF SchedToken, SchedTrailing
  <2> DEFINE a == Reply(u, made'[u], stops)
  <2>4. a \in Answers /\ a.uid = u /\ toDetok \in Seq(Answers)
    <3>1. made'[u] \in Nat /\ toDetok \in Seq(Answers)
      BY <1>0, <1>7 DEF SchedToken, SchedTrailing, Types
    <3>. QED  BY <3>1 DEF Reply, Answers
  <2> HIDE DEF a
  <2>5. InQueue(Append(toDetok, a), v) <=> InQueue(toDetok, v) \/ a.uid = v
    BY ONLY <2>4, QueueAppend
  <2>. QED  BY <1>0, <2>1, <2>2, <2>3, <2>4, <2>5 DEF Fresh, a
<1>8. CASE Detokenize
  <2> DEFINE m == Head(toDetok)
  <2>1. /\ toDetok /= <<>> /\ toDetok \in Seq(Answers) /\ toFront \in Seq(Answers) /\ toDetok' = Tail(toDetok)
        /\ toFront' = Append(toFront, m)
        /\ UNCHANGED <<toTok, toSched, left, trailing, made, delivered>>
    BY <1>0, <1>8 DEF Detokenize, tasks, sched, Types
  <2>2. m \in Answers
    BY <2>1, HeadTail
  <2>3. InQueue(toDetok, v) <=> InQueue(toDetok', v) \/ m.uid = v
    BY <2>1, QueueTail
  <2>4. InQueue(toFront', v) <=> InQueue(toFront, v) \/ m.uid = v
    BY <2>1, <2>2, QueueAppend
  <2>. QED  BY <1>0, <2>1, <2>3, <2>4 DEF Fresh
<1>9. CASE Listen
  <2>1. /\ toFront /= <<>> /\ toFront \in Seq(Answers) /\ toFront' = Tail(toFront)
        /\ UNCHANGED <<toTok, toSched, toDetok, left, trailing, made, delivered>>
    BY <1>0, <1>9 DEF Listen, tasks, sched, Types
  <2>2. InQueue(toFront, v) <=> InQueue(toFront', v) \/ Head(toFront).uid = v
    BY <2>1, QueueTail
  <2>. QED  BY <1>0, <2>1, <2>2 DEF Fresh
<1>10. ASSUME NEW u \in Uids, Leave(u) \/ Wake(u) \/ WaitForAbortAck(u) PROVE Fresh(v)'
  BY <1>1, <1>10 DEF Leave, Wake, WaitForAbortAck, sched
<1>11. ASSUME NEW u \in Uids, Yield(u) \/ Close(u) \/ Cancel(u) PROVE Fresh(v)'
  <2>1. u /= v /\ UNCHANGED <<toTok, toSched, toDetok, toFront, left, trailing, made>>
    BY <1>0, <1>11, CancelSteps DEF sched
  <2>2. delivered'[v] = delivered[v]
    BY <1>0, <1>11, <2>1, CancelSteps DEF Cancelled, Deliver, Types
  <2>. QED  BY <1>0, <2>1, <2>2 DEF Fresh
<1>12. CASE UNCHANGED vars
  BY <1>1, <1>12 DEF vars, tasks, sched
<1>. QED
  BY <1>3, <1>4, <1>5, <1>6, <1>7, <1>8, <1>9, <1>10, <1>11, <1>12 DEF Next, TaskStep, SchedStep

LEMMA FreshCorrect == Spec => []FreshInv
<1>1. Init => FreshInv
  <2> SUFFICES ASSUME Init, NEW u \in Uids PROVE Fresh(u)
    BY DEF FreshInv
  <2>1. /\ toTok = [i \in tokenizers |-> <<>>] /\ toSched = <<>> /\ toDetok = <<>> /\ toFront = <<>>
        /\ left[u] = 0 /\ made[u] = 0 /\ u \notin trailing /\ delivered[u] = <<>>
    BY DEF Init
  <2>. QED  BY <2>1, EmptyQueue DEF Fresh
<1>. QED
  BY <1>1, FreshStep, TaskCorrect, PTL DEF Spec

(* An open request's tokens flow, a closing one's are all there. *)
Ordered(u) ==
  /\ task[u] \in {"waiting", "yielding"} => Flow(u)
  /\ task[u] \in {"closing", "done"} => Ended(u)
  /\ \A i \in DOMAIN delivered[u] : /\ delivered[u][i].n = i
                                    /\ delivered[u][i].finished => i = Len(delivered[u])

OrderInv == \A u \in Uids : Ordered(u)

(* An open request is in ack_map, and no abort of it is about. *)
LEMMA OpenRequest ==
  ASSUME TaskInv, AbortInv, NEW v \in Uids, task[v] \in {"waiting", "yielding"}
  PROVE  /\ v \in DOMAIN ackMap /\ v \notin abortPending /\ ~Travels(v) /\ ackMap[v] \in Seq(Answers)
         /\ Len(ackMap[v]) \in Nat /\ Len(delivered[v]) \in Nat /\ Len(batch[v]) \in Nat
         /\ delivered[v] \in Seq(Answers) /\ batch[v] \in Seq(Answers)
<1>1. v \in DOMAIN ackMap /\ v \notin abortPending /\ ~Travels(v)
  BY DEF AbortInv, AbortOnce
<1>2. ackMap[v] \in Seq(Answers) /\ delivered[v] \in Seq(Answers) /\ batch[v] \in Seq(Answers)
  BY <1>1 DEF TaskInv, Types
<1>. QED
  BY <1>1, <1>2, LenProperties

(* The two queues that carry replies go on, whatever the frontend holds. *)
LEMMA RunsOn ==
  ASSUME TaskInv, SchedStep \/ Detokenize, NEW v \in Uids, NEW lo \in Nat, NEW mid \in Nat,
         Run(toFront, v, lo, mid), Run(toDetok, v, mid, made[v])
  PROVE  \E next \in Nat : Run(toFront', v, lo, next) /\ Run(toDetok', v, next, made'[v])
<1>0. Types /\ toFront \in Seq(Answers) /\ toDetok \in Seq(Answers) /\ made[v] \in Nat
  BY DEF TaskInv, Types
<1>1. CASE Detokenize
  <2> DEFINE m == Head(toDetok)
  <2>1. /\ toDetok /= <<>> /\ toDetok' = Tail(toDetok) /\ toFront' = Append(toFront, m) /\ made' = made
    BY <1>1 DEF Detokenize, sched
  <2>2. m \in Answers /\ m = toDetok[1]
    BY <1>0, <2>1, HeadTail
  <2>3. IsReply(toDetok, v, 1) <=> m.uid = v /\ m.type = "reply"
    BY <2>2 DEF IsReply
  <2>4. CASE IsReply(toDetok, v, 1)
    <3>1. m.n = mid + 1 /\ Run(toDetok', v, mid + 1, made[v])
      BY <1>0, <2>1, <2>4, RunTail
    <3>2. Run(toFront', v, lo, mid + 1)
      BY <1>0, <2>1, <2>2, <2>3, <2>4, <3>1, RunAppend
    <3>. QED  BY <2>1, <3>1, <3>2
  <2>5. CASE ~IsReply(toDetok, v, 1)
    <3>1. Run(toDetok', v, mid, made[v])
      BY <1>0, <2>1, <2>5, RunTail
    <3>2. Run(toFront', v, lo, mid)
      BY <1>0, <2>1, <2>2, <2>3, <2>5, RunAppend
    <3>. QED  BY <2>1, <3>1, <3>2
  <2>. QED  BY <2>4, <2>5
<1>2. CASE SchedReceive
  <2> DEFINE m == Head(toSched)
             a == Msg("ack", m.uid)
  <2>1. /\ toFront' = toFront /\ made' = made
        /\ IF m.type = "abort" THEN toDetok' = Append(toDetok, a) ELSE toDetok' = toDetok
    BY <1>2 DEF SchedReceive, SchedAbort, SchedUser
  <2>2. a \in Answers /\ a.type = "ack"
    <3>1. m \in Commands
      BY <1>0, <1>2, HeadTail DEF SchedReceive, Types
    <3>. QED  BY <3>1 DEF Msg, Answers, Commands
  <2> HIDE DEF a
  <2>3. Run(Append(toDetok, a), v, mid, made[v])
    BY <1>0, <2>2, RunAppend
  <2>. QED  BY <2>1, <2>3
<1>3. ASSUME NEW u \in Uids, SchedToken(u) \/ SchedTrailing(u)
      PROVE  \E next \in Nat : Run(toFront', v, lo, next) /\ Run(toDetok', v, next, made'[v])
  <2>0. made' = [made EXCEPT ![u] = @ + 1] /\ made \in [Uids -> Nat] /\ toFront' = toFront
    BY <1>0, <1>3 DEF SchedToken, SchedTrailing, Types
  <2>1. /\ made'[u] = made[u] + 1 /\ made'[u] \in Nat /\ toFront' = toFront
        /\ u /= v => made'[v] = made[v]
    BY <2>0
  <2>2. PICK stops \in BOOLEAN : toDetok' = Append(toDetok, Reply(u, made'[u], stops))
    BY <1>3 DEF SchedToken, SchedTrailing
  <2> DEFINE a == Reply(u, made'[u], stops)
  <2>3. a \in Answers /\ a.uid = u /\ a.type = "reply" /\ a.n = made[u] + 1
    BY <2>1 DEF Reply, Answers
  <2> HIDE DEF a
  <2>4. Run(Append(toDetok, a), v, mid, made'[v])
    <3>1. CASE u = v
      BY <1>0, <2>1, <2>3, <3>1, RunAppend
    <3>2. CASE u /= v
      BY <1>0, <2>1, <2>3, <3>2, RunAppend
    <3>. QED  BY <3>1, <3>2
  <2>. QED  BY <2>1, <2>2, <2>4 DEF a
<1>. QED
  BY <1>1, <1>2, <1>3 DEF SchedStep

LEMMA OrderStep == TaskInv /\ AbortInv /\ FreshInv /\ OrderInv /\ [Next]_vars => OrderInv'
<1> SUFFICES ASSUME TaskInv, AbortInv, FreshInv, OrderInv, [Next]_vars, NEW v \in Uids PROVE Ordered(v)'
  BY DEF OrderInv
<1>0. Types /\ Woken /\ Ordered(v) /\ UNCHANGED tokenizers
  BY SameTokenizers DEF TaskInv, OrderInv
<1>1. ASSUME delivered'[v] = delivered[v], task'[v] \in {"cancelled", "ackwait"} \/
               (task'[v] = task[v] /\ task[v] \notin {"waiting", "yielding"})
      PROVE  Ordered(v)'
  BY <1>0, <1>1 DEF Ordered, Ended
<1>2. ASSUME delivered'[v] = delivered[v], task'[v] = task[v], batch'[v] = batch[v],
             v \in DOMAIN ackMap => ackMap'[v] = ackMap[v], UNCHANGED <<toDetok, toFront, made>>
      PROVE  Ordered(v)'
  <2>1. CASE task[v] \in {"waiting", "yielding"}
    <3>1. v \in DOMAIN ackMap
      BY <2>1, OpenRequest
    <3>2. Flow(v)'
      BY <1>0, <1>2, <2>1, <3>1 DEF Flow, Ordered
    <3>. QED  BY <1>0, <1>2, <2>1, <3>2 DEF Ordered
  <2>2. CASE task[v] \notin {"waiting", "yielding"}
    BY <1>1, <1>2, <2>2
  <2>. QED  BY <2>1, <2>2
<1>3. ASSUME NEW u \in Uids, Request(u) PROVE Ordered(v)'
  <2>1. /\ task[u] = "none" /\ task' = [task EXCEPT ![u] = "waiting"] /\ ackMap' = Put(ackMap, u, <<>>)
        /\ UNCHANGED <<delivered, batch, toDetok, toFront, made>>
    BY <1>3 DEF Request, sched
  <2>2. CASE u = v
    <3>1. Fresh(v) /\ batch[v] = <<>> /\ Len(<<>>) = 0 /\ DOMAIN <<>> = {}
      BY <1>0, <2>1, <2>2 DEF FreshInv, Woken
    <3>2. delivered[v] = <<>> /\ made[v] = 0 /\ ackMap'[v] = <<>> /\ task'[v] = "waiting"
      BY <1>0, <2>1, <2>2, <3>1 DEF Fresh, Put, Types
    <3>3. Run(toFront, v, 0, 0) /\ Run(toDetok, v, 0, 0)
      BY <3>1, RunEmpty DEF Fresh
    <3>4. Numbered(<<>>, 0)
      BY DEF Numbered
    <3>5. Flow(v)'
      BY <2>1, <3>1, <3>2, <3>3, <3>4 DEF Flow
    <3>. QED  BY <2>1, <3>1, <3>2, <3>5 DEF Ordered
  <2>3. CASE u /= v
    <3>1. task'[v] = task[v] /\ (v \in DOMAIN ackMap => ackMap'[v] = ackMap[v])
      BY <1>0, <2>1, <2>3 DEF Put, Types
    <3>. QED  BY <1>2, <2>1, <3>1
  <2>. QED  BY <2>2, <2>3
<1>4. ASSUME NEW u \in Uids, Wake(u) PROVE Ordered(v)'
  <2>1. task[u] = "waiting" /\ u \in DOMAIN ackMap
    BY <1>4, OpenRequest DEF Wake
  <2>2. /\ batch' = [batch EXCEPT ![u] = ackMap[u]] /\ ackMap' = [ackMap EXCEPT ![u] = <<>>]
        /\ task' = [task EXCEPT ![u] = "yielding"] /\ UNCHANGED <<delivered, toDetok, toFront, made>>
    BY <1>4, <2>1 DEF Wake, sched
  <2>3. CASE u = v
    <3>0. batch[v] = <<>> /\ Len(<<>>) = 0 /\ DOMAIN <<>> = {}
      <4>1. batch[v] = <<>>
        BY <1>0, <2>1, <2>3 DEF Woken
      <4>. QED  BY <4>1
    <3>1. /\ batch'[v] = ackMap[v] /\ ackMap'[v] = <<>> /\ task'[v] = "yielding" /\ batch[v] = <<>>
          /\ Len(<<>>) = 0 /\ DOMAIN <<>> = {}
      <4>1. batch'[v] = ackMap[v]
        BY <1>0, <2>2, <2>3 DEF Types
      <4>2. ackMap'[v] = <<>>
        BY <2>1, <2>2, <2>3
      <4>3. task'[v] = "yielding"
        BY <1>0, <2>2, <2>3 DEF Types
      <4>. QED  BY <3>0, <4>1, <4>2, <4>3
    <3>2. Flow(v) /\ Len(delivered[v]) \in Nat /\ Len(ackMap[v]) \in Nat
      BY <1>0, <2>1, <2>3, OpenRequest DEF Ordered
    <3>3. /\ Len(delivered[v]) + Len(batch[v]) = Len(delivered[v])
          /\ Len(delivered[v]) + Len(batch[v]) + Len(ackMap[v]) = Len(delivered[v]) + Len(ackMap[v]) + 0
      BY <3>1, <3>2
    <3>4. Numbered(<<>>, Len(delivered[v]) + Len(ackMap[v]))
      BY DEF Numbered
    <3>5. Flow(v)'
      BY <2>2, <3>1, <3>2, <3>3, <3>4 DEF Flow
    <3>. QED  BY <1>0, <2>2, <3>1, <3>5 DEF Ordered
  <2>4. CASE u /= v
    <3>1. task'[v] = task[v] /\ batch'[v] = batch[v] /\ (v \in DOMAIN ackMap => ackMap'[v] = ackMap[v])
      BY <1>0, <2>1, <2>2, <2>4 DEF Types
    <3>. QED  BY <1>2, <2>2, <3>1
  <2>. QED  BY <2>3, <2>4
<1>5. ASSUME NEW u \in Uids, Yield(u) \/ Close(u) \/ Cancel(u) PROVE Ordered(v)'
  <2>1. UNCHANGED <<ackMap, toDetok, toFront, made>>
    BY <1>5, CancelSteps DEF front, sched
  <2>2. CASE u /= v
    <3>0. \E x, y, z : /\ task' = [task EXCEPT ![u] = x] /\ batch' = [batch EXCEPT ![u] = y]
                       /\ delivered' = [delivered EXCEPT ![u] = z]
      <4>1. CASE Cancelled(u)
        <5>1. delivered' = [delivered EXCEPT ![u] = delivered[u]]
          BY <1>0, <4>1 DEF Cancelled, Types
        <5>. QED  BY <4>1, <5>1 DEF Cancelled
      <4>2. CASE Deliver(u)
        BY <4>2, Zenon DEF Deliver
      <4>3. CASE task' = [task EXCEPT ![u] = "done"] /\ UNCHANGED <<batch, delivered, aborter>>
        <5>1. delivered' = [delivered EXCEPT ![u] = delivered[u]] /\ batch' = [batch EXCEPT ![u] = batch[u]]
          BY <1>0, <4>3 DEF Types
        <5>. QED  BY <4>3, <5>1
      <4>. QED  BY <1>5, <4>1, <4>2, <4>3, CancelSteps
    <3>1. task'[v] = task[v] /\ batch'[v] = batch[v] /\ delivered'[v] = delivered[v]
      BY <1>0, <2>2, <3>0 DEF Types
    <3>. QED  BY <1>2, <2>1, <3>1
  <2>3. CASE u = v /\ Cancelled(u)
    <3>1. task'[v] = "cancelled" /\ delivered'[v] = delivered[v]
      BY <1>0, <2>3 DEF Cancelled, Types
    <3>. QED  BY <1>1, <3>1
  <2>4. CASE u = v /\ task[u] = "yielding" /\ Deliver(u)
    <3> DEFINE s == batch[v]
               h == Head(s)
               d == Len(delivered[v])
    <3>1. /\ s \in Seq(Answers) /\ s /= <<>> /\ delivered[v] \in Seq(Answers) /\ d \in Nat /\ Flow(v)
          /\ Len(ackMap[v]) \in Nat
      BY <1>0, <2>4, OpenRequest DEF Woken, Ordered
    <3>2. /\ h \in Answers /\ h = s[1] /\ 1 \in DOMAIN s /\ Len(s) \in Nat \ {0} /\ Len(Tail(s)) = Len(s) - 1
          /\ \A i \in DOMAIN Tail(s) : i \in Nat \ {0} /\ i + 1 \in DOMAIN s /\ Tail(s)[i] = s[i + 1]
      BY <3>1, HeadTail
    <3>3. /\ delivered'[v] = Append(delivered[v], h)
          /\ batch'[v] = IF h.finished THEN <<>> ELSE Tail(s)
          /\ task'[v] = IF h.finished THEN "closing" ELSE IF Len(s) > 1 THEN "yielding" ELSE "waiting"
      BY <1>0, <2>4 DEF Deliver, Types
    <3>4. /\ Len(delivered'[v]) = d + 1 /\ DOMAIN delivered[v] = 1 .. d /\ DOMAIN delivered'[v] = 1 .. d + 1
          /\ delivered'[v][d + 1] = h /\ \A i \in 1 .. d : delivered'[v][i] = delivered[v][i]
      BY <3>1, <3>2, <3>3, Appended
    <3>5. h.n = d + 1 /\ \A i \in DOMAIN s : s[i].n = d + i
      BY <3>1, <3>2 DEF Flow, Numbered
    <3>6. \A i \in 1 .. d : delivered[v][i].n = i /\ ~delivered[v][i].finished
      BY <1>0, <3>1, <3>4 DEF Ordered, Flow
    <3> HIDE DEF s, h, d
    <3>7. ASSUME NEW i \in DOMAIN delivered'[v]
          PROVE  delivered'[v][i].n = i /\ (delivered'[v][i].finished => i = Len(delivered'[v]))
      <4>1. i = d + 1 \/ i \in 1 .. d
        BY <3>1, <3>4
      <4>. QED  BY <3>4, <3>5, <3>6, <4>1
    <3>8. CASE h.finished
      <4>1. delivered'[v] /= <<>>
        BY <3>1, <3>2, <3>3, Appended
      <4>2. Ended(v)'
        BY <3>4, <3>8, <4>1 DEF Ended
      <4>. QED  BY <3>3, <3>7, <3>8, <4>2 DEF Ordered
    <3>9. CASE ~h.finished
      <4>1. Numbered(delivered'[v], 0) /\ \A i \in DOMAIN delivered'[v] : ~delivered'[v][i].finished
        <5>1. ASSUME NEW i \in DOMAIN delivered'[v] PROVE delivered'[v][i].n = 0 + i /\ ~delivered'[v][i].finished
          <6>1. i = d + 1 \/ i \in 1 .. d
            BY <3>1, <3>4
          <6>2. 0 + i = i
            BY <3>1, <3>4
          <6>. QED  BY <3>4, <3>6, <3>7, <3>9, <6>1, <6>2
        <5>. QED  BY <5>1 DEF Numbered
      <4>2. Numbered(Tail(s), d + 1)
        <5>1. ASSUME NEW i \in DOMAIN Tail(s) PROVE Tail(s)[i].n = (d + 1) + i
          <6>1. i \in Nat /\ Tail(s)[i].n = d + (i + 1)
            BY <3>2, <3>5
          <6>. QED  BY <3>1, <6>1
        <5>. QED  BY <5>1 DEF Numbered
      <4>3. (d + 1) + Len(Tail(s)) = d + Len(s)
        <5> DEFINE x == Len(s)
        <5>1. x \in Nat /\ Len(Tail(s)) = x - 1
          BY <3>2
        <5> HIDE DEF x
        <5>2. (d + 1) + (x - 1) = d + x
          BY ONLY <3>1, <5>1
        <5>. QED  BY <5>1, <5>2 DEF x
      <4>4. Flow(v)'
        BY <2>1, <3>1, <3>3, <3>4, <3>9, <4>1, <4>2, <4>3 DEF Flow, s, d
      <4>5. task'[v] \in {"waiting", "yielding"}
        BY <3>3, <3>9
      <4>. QED  BY <3>7, <4>4, <4>5 DEF Ordered
    <3>. QED  BY <3>8, <3>9
  <2>5. CASE u = v /\ task[u] = "closing" /\ task' = [task EXCEPT ![u] = "done"]
              /\ UNCHANGED <<batch, delivered, aborter>>
    <3>1. task'[v] = "done"
      BY <1>0, <2>5 DEF Types
    <3>. QED  BY <1>0, <2>5, <3>1 DEF Ordered, Ended
  <2>. QED  BY <1>5, <2>2, <2>3, <2>4, <2>5, CancelSteps
<1>6. ASSUME NEW u \in Uids, AbortUser(u) \/ WaitForAbortAck(u) PROVE Ordered(v)'
  <2>1. UNCHANGED <<ackMap, delivered, batch, toDetok, toFront, made>>
    BY <1>6 DEF AbortUser, WaitForAbortAck, front, sched
  <2>2. task'[u] \in {"cancelled", "ackwait"} /\ (u /= v => task'[v] = task[v])
    BY <1>0, <1>6 DEF AbortUser, WaitForAbortAck, Types
  <2>. QED  BY <1>1, <1>2, <2>1, <2>2
<1>7. CASE SchedStep \/ Detokenize
  <2>1. UNCHANGED <<task, delivered, batch, ackMap>>
    BY <1>7, QueueAlone DEF front, tasks
  <2>2. CASE task[v] \in {"waiting", "yielding"}
    <3>1. Flow(v)
      BY <1>0, <2>2 DEF Ordered
    <3> DEFINE lo == Len(delivered[v]) + Len(batch[v]) + Len(ackMap[v])
    <3>2. lo \in Nat
      <4> DEFINE d == Len(delivered[v])
                 c == Len(batch[v])
                 e == Len(ackMap[v])
      <4>1. d \in Nat /\ c \in Nat /\ e \in Nat
        BY <2>2, OpenRequest
      <4> HIDE DEF d, c, e
      <4>2. d + c + e \in Nat
        BY ONLY <4>1
      <4>. QED  BY <4>2 DEF d, c, e
    <3>3. PICK mid \in Nat : Run(toFront, v, lo, mid) /\ Run(toDetok, v, mid, made[v])
      BY <3>1 DEF Flow
    <3> HIDE DEF lo
    <3>4. \E next \in Nat : Run(toFront', v, lo, next) /\ Run(toDetok', v, next, made'[v])
      BY <1>7, <3>2, <3>3, RunsOn
    <3>5. Flow(v)'
      BY <2>1, <3>1, <3>4 DEF Flow, lo
    <3>. QED  BY <1>0, <2>1, <2>2, <3>5 DEF Ordered
  <2>3. CASE task[v] \notin {"waiting", "yielding"}
    BY <1>1, <2>1, <2>3
  <2>. QED  BY <2>2, <2>3
<1>8. CASE Listen
  <2> DEFINE m == Head(toFront)
  <2>1. /\ toFront /= <<>> /\ toFront \in Seq(Answers) /\ toFront' = Tail(toFront)
        /\ UNCHANGED <<task, delivered, batch, toDetok, made>>
    BY <1>0, <1>8 DEF Listen, tasks, sched, Types
  <2>2. m \in Answers /\ m = toFront[1] /\ 1 \in DOMAIN toFront
    BY <2>1, HeadTail
  <2>3. m.uid \in Uids /\ m.type \in {"ack", "reply"}
    BY <2>2, AnswerParts DEF Answers
  <2>4. CASE task[v] \in {"waiting", "yielding"}
    <3> DEFINE b == Len(delivered[v]) + Len(batch[v])
               a == ackMap[v]
    <3>0. /\ Flow(v) /\ v \in DOMAIN ackMap /\ v \notin abortPending /\ ~Travels(v) /\ a \in Seq(Answers)
          /\ Len(a) \in Nat /\ Len(delivered[v]) \in Nat /\ Len(batch[v]) \in Nat
      BY <1>0, <2>4, OpenRequest DEF Ordered
    <3>00. b \in Nat /\ b + Len(a) \in Nat
      <4> DEFINE d == Len(delivered[v])
                 c == Len(batch[v])
                 e == Len(a)
      <4>1. d \in Nat /\ c \in Nat /\ e \in Nat
        BY <3>0
      <4> HIDE DEF d, c, e
      <4>2. d + c \in Nat /\ d + c + e \in Nat
        BY ONLY <4>1
      <4>. QED  BY <4>2 DEF d, c, e
    <3>1. /\ Flow(v) /\ v \in DOMAIN ackMap /\ v \notin abortPending /\ ~Travels(v) /\ a \in Seq(Answers)
          /\ b \in Nat /\ Len(a) \in Nat
      BY <3>0, <3>00
    <3>2. PICK mid \in Nat : Run(toFront, v, b + Len(a), mid) /\ Run(toDetok, v, mid, made[v])
      BY <3>1 DEF Flow
    <3>3. Numbered(a, b)
      BY <3>1 DEF Flow
    <3>4. ~(m.uid = v /\ m.type = "ack")
      BY <2>2, <3>1 DEF Travels, Holds
    <3>5. b + Len(a) \in Nat
      BY <3>00
    <3>6. CASE m.uid = v
      <4>1. m.type = "reply" /\ IsReply(toFront, v, 1)
        BY <2>2, <2>3, <3>4, <3>6 DEF IsReply
      <4>2. ackMap' = [ackMap EXCEPT ![v] = Append(a, m)]
        BY <1>8, <3>1, <3>6, <4>1 DEF Listen, UserReply
      <4>3. ackMap'[v] = Append(a, m)
        BY <3>1, <4>2
      <4>4. m.n = b + Len(a) + 1 /\ Run(toFront', v, b + Len(a) + 1, mid)
        BY <2>1, <3>2, <3>5, <4>1, RunTail
      <4>5. /\ Len(ackMap'[v]) = Len(a) + 1 /\ DOMAIN a = 1 .. Len(a) /\ DOMAIN ackMap'[v] = 1 .. Len(a) + 1
            /\ ackMap'[v][Len(a) + 1] = m /\ \A i \in DOMAIN a : ackMap'[v][i] = a[i]
        BY <2>2, <3>1, <4>3, Appended
      <4> HIDE DEF a, b, m
      <4>6. Numbered(ackMap'[v], b)
        <5>1. ASSUME NEW i \in DOMAIN ackMap'[v] PROVE ackMap'[v][i].n = b + i
          <6>1. CASE i = Len(a) + 1
            <7>1. b + Len(a) + 1 = b + i
              BY <3>1, <6>1
            <7>. QED  BY <4>4, <4>5, <6>1, <7>1
          <6>2. CASE i /= Len(a) + 1
            <7>1. i \in DOMAIN a
              BY <3>1, <4>5, <6>2
            <7>. QED  BY <3>3, <4>5, <7>1 DEF Numbered
          <6>. QED  BY <6>1, <6>2
        <5>. QED  BY <5>1 DEF Numbered
      <4>7. b + Len(ackMap'[v]) = b + Len(a) + 1
        BY <3>1, <4>5
      <4>8. Flow(v)'
        BY <2>1, <3>1, <3>2, <4>4, <4>6, <4>7 DEF Flow, b
      <4>. QED  BY <1>0, <2>1, <2>4, <4>8 DEF Ordered
    <3>7. CASE m.uid /= v
      <4>1. ackMap'[v] = a
        <5>1. CASE m.type = "ack"
          BY <1>8, <3>1, <3>7, <5>1 DEF Listen, AbortAck, Drop
        <5>2. CASE m.type /= "ack"
          BY <1>8, <3>1, <3>7, <5>2 DEF Listen, UserReply
        <5>. QED  BY <5>1, <5>2
      <4>2. ~IsReply(toFront, v, 1)
        BY <2>2, <3>7 DEF IsReply
      <4>3. Run(toFront', v, b + Len(a), mid)
        BY <2>1, <3>2, <3>5, <4>2, RunTail
      <4>4. Flow(v)'
        BY <2>1, <3>1, <3>2, <4>1, <4>3 DEF Flow
      <4>. QED  BY <1>0, <2>1, <2>4, <4>4 DEF Ordered
    <3>. QED  BY <3>6, <3>7
  <2>5. CASE task[v] \notin {"waiting", "yielding"}
    BY <1>1, <2>1, <2>5
  <2>. QED  BY <2>4, <2>5
<1>9. ASSUME NEW i \in tokenizers, Tokenize(i) PROVE Ordered(v)'
  BY <1>2, <1>9 DEF Tokenize, front, tasks, sched
<1>10. ASSUME NEW u \in Uids, Leave(u) PROVE Ordered(v)'
  BY <1>2, <1>10 DEF Leave, front, sched
<1>11. CASE UNCHANGED vars
  BY <1>2, <1>11 DEF vars, front, tasks, sched
<1>. QED
  BY <1>3, <1>4, <1>5, <1>6, <1>7, <1>8, <1>9, <1>10, <1>11 DEF Next, TaskStep

LEMMA OrderCorrect == Spec => []OrderInv
<1>1. Init => OrderInv
  <2> SUFFICES ASSUME Init, NEW u \in Uids PROVE Ordered(u)
    BY DEF OrderInv
  <2>1. task[u] = "none" /\ delivered[u] = <<>> /\ DOMAIN <<>> = {}
    BY DEF Init
  <2>. QED  BY <2>1 DEF Ordered
<1>. QED
  BY <1>1, OrderStep, TaskCorrect, AbortInvCorrect, FreshCorrect, PTL DEF Spec

(* A client gets the tokens of its request in the order the scheduler sampled
   them, none missing and none after the final one, through the detokenizer,
   listen and wait_for_ack, whichever requests are aborted meanwhile. *)
THEOREM InOrderCorrect == Spec => []InOrder
<1>1. OrderInv => InOrder
  BY DEF OrderInv, Ordered, InOrder
<1>. QED
  BY <1>1, OrderCorrect, PTL

-----------------------------------------------------------------------------
(* What is kept of a request                                               *)

LEMMA Items ==
  /\ ToSet(<<>>) = {}
  /\ \A M : \A q \in Seq(M) : ToSet(q) \subseteq M
  /\ \A M : \A q \in Seq(M), m \in M : ToSet(Append(q, m)) = ToSet(q) \union {m}
  /\ \A M : \A q \in Seq(M) : q /= <<>> => ToSet(q) = ToSet(Tail(q)) \union {Head(q)}
<1>1. ToSet(<<>>) = {}
  BY EmptyQueue DEF ToSet
<1>2. ASSUME NEW M, NEW q \in Seq(M) PROVE ToSet(q) \subseteq M
  <2>1. q \in [1 .. Len(q) -> M] /\ DOMAIN q = 1 .. Len(q)
    BY LenProperties
  <2>. QED  BY <2>1 DEF ToSet
<1>3. ASSUME NEW M, NEW q \in Seq(M), NEW m \in M PROVE ToSet(Append(q, m)) = ToSet(q) \union {m}
  <2> DEFINE a == Append(q, m)
             l == Len(q)
  <2>1. /\ l \in Nat /\ DOMAIN q = 1 .. l /\ DOMAIN a = 1 .. l + 1
        /\ a[l + 1] = m /\ \A i \in DOMAIN q : a[i] = q[i]
    BY Appended
  <2> HIDE DEF a, l
  <2>2. l + 1 \in DOMAIN a /\ (\A i \in DOMAIN a : i = l + 1 \/ i \in DOMAIN q)
        /\ (\A i \in DOMAIN q : i \in DOMAIN a)
    BY <2>1
  <2>. QED  BY <2>1, <2>2 DEF ToSet, a
<1>4. ASSUME NEW M, NEW q \in Seq(M), q /= <<>> PROVE ToSet(q) = ToSet(Tail(q)) \union {Head(q)}
  <2> DEFINE t == Tail(q)
             h == Head(q)
  <2>1. /\ h = q[1] /\ 1 \in DOMAIN q
        /\ \A i \in DOMAIN t : i + 1 \in DOMAIN q /\ t[i] = q[i + 1]
        /\ \A i \in DOMAIN q : i = 1 \/ (i - 1 \in DOMAIN t /\ q[i] = t[i - 1])
    BY <1>4, HeadTail
  <2> HIDE DEF t, h
  <2>2. (\A i \in DOMAIN q : q[i] = h \/ \E j \in DOMAIN t : q[i] = t[j])
        /\ (\A j \in DOMAIN t : \E i \in DOMAIN q : t[j] = q[i])
    BY <2>1
  <2>. QED  BY <2>1, <2>2 DEF ToSet, t, h
<1>. QED
  BY <1>1, <1>2, <1>3, <1>4

LEMMA PassedAnswers == TaskInv => \A u \in Uids : Passed(u) \subseteq Answers
<1> SUFFICES ASSUME TaskInv, NEW u \in Uids PROVE Passed(u) \subseteq Answers
  OBVIOUS
<1>1. /\ toFront \in Seq(Answers) /\ delivered[u] \in Seq(Answers) /\ batch[u] \in Seq(Answers)
      /\ u \in DOMAIN ackMap => ackMap[u] \in Seq(Answers)
  BY DEF TaskInv, Types
<1>2. /\ ToSet(toFront) \subseteq Answers /\ ToSet(delivered[u]) \subseteq Answers
      /\ ToSet(batch[u]) \subseteq Answers /\ (u \in DOMAIN ackMap => ToSet(ackMap[u]) \subseteq Answers)
  BY <1>1, Items
<1>. QED
  BY <1>2 DEF Passed

(* One more message for the frontend, of another request or the next reply *)
LEMMA DecodeAppend ==
  ASSUME TaskInv, NEW v \in Uids, Decoding(v), NEW a \in Answers, toDetok' = Append(toDetok, a),
         Passed(v)' \subseteq Passed(v), decodeMap' = decodeMap,
         \/ ~(a.uid = v /\ a.type = "reply") /\ made'[v] = made[v]
         \/ a.n = made[v] + 1 /\ made'[v] = made[v] + 1
  PROVE  Decoding(v)'
<1> DEFINE l == Len(toDetok)
           d == toDetok'
<1>1. toDetok \in Seq(Answers) /\ made[v] \in Nat /\ made[v] <= made'[v] /\ made'[v] \in Nat
      /\ Passed(v) \subseteq Answers
  BY PassedAnswers DEF TaskInv, Types
<1>2. /\ l \in Nat /\ DOMAIN toDetok = 1 .. l /\ DOMAIN d = 1 .. l + 1
      /\ d[l + 1] = a /\ \A i \in DOMAIN toDetok : d[i] = toDetok[i]
  BY <1>1, Appended
<1> HIDE DEF l, d
<1>3. \A i \in DOMAIN toDetok : i \in DOMAIN d /\ (IsReply(d, v, i) <=> IsReply(toDetok, v, i))
                                /\ toDetok[i].n \in Nat
  BY <1>1, <1>2, AnswerParts DEF IsReply
<1>4. \A i \in DOMAIN d : i \in DOMAIN toDetok \/ i = l + 1
  BY <1>2
<1>5. \A m \in Passed(v) : m.n \in Nat /\ m.n <= made[v] /\ (m.finished /\ v \in decodeMap => m.n < made[v])
  BY <1>1 DEF Decoding, Answers
<1>6. \A i \in DOMAIN toDetok : IsReply(toDetok, v, i) =>
        /\ toDetok[i].n <= made[v]
        /\ \A j \in DOMAIN toDetok : i < j /\ IsReply(toDetok, v, j) => toDetok[i].n < toDetok[j].n
        /\ \A m \in Passed(v) : m.n < toDetok[i].n
  BY DEF Decoding
<1>7. ASSUME NEW i \in DOMAIN d, IsReply(d, v, i)
      PROVE  /\ d[i].n <= made'[v]
             /\ \A j \in DOMAIN d : i < j /\ IsReply(d, v, j) => d[i].n < d[j].n
             /\ \A m \in Passed(v) : m.n < d[i].n
  <2>1. CASE i = l + 1
    <3>1. a.n = made[v] + 1 /\ made'[v] = made[v] + 1
      BY <1>2, <1>7, <2>1 DEF IsReply
    <3>2. \A j \in DOMAIN d : ~(i < j)
      BY <1>2, <2>1
    <3>3. \A m \in Passed(v) : m.n < made[v] + 1
      BY <1>1, <1>5
    <3>. QED  BY <1>1, <1>2, <2>1, <3>1, <3>2, <3>3
  <2>2. CASE i \in DOMAIN toDetok
    <3>1. IsReply(toDetok, v, i) /\ d[i] = toDetok[i] /\ d[i].n \in Nat
      BY <1>2, <1>3, <1>7, <2>2
    <3>2. d[i].n <= made[v] /\ \A m \in Passed(v) : m.n < d[i].n
      BY <1>6, <2>2, <3>1
    <3>3. ASSUME NEW j \in DOMAIN d, i < j, IsReply(d, v, j) PROVE d[i].n < d[j].n
      <4>1. CASE j = l + 1
        <5>1. d[j].n = made[v] + 1
          BY <1>2, <3>3, <4>1 DEF IsReply
        <5>. QED  BY <1>1, <3>1, <3>2, <5>1
      <4>2. CASE j \in DOMAIN toDetok
        BY <1>2, <1>3, <1>6, <2>2, <3>1, <3>3, <4>2
      <4>. QED  BY <1>4, <4>1, <4>2
    <3>4. d[i].n <= made'[v]
      BY <1>1, <3>1, <3>2
    <3>. QED  BY <3>2, <3>3, <3>4
  <2>. QED  BY <1>4, <2>1, <2>2
<1>8. \A m \in Passed(v) : m.n <= made'[v] /\ (m.finished /\ v \in decodeMap => m.n < made'[v])
  BY <1>1, <1>5
<1>. QED
  BY <1>7, <1>8 DEF Decoding, d

LEMMA DecodeStep == TaskInv /\ DecodeInv /\ [Next]_vars => DecodeInv'
<1> SUFFICES ASSUME TaskInv, DecodeInv, [Next]_vars, NEW v \in Uids PROVE Decoding(v)'
  BY DEF DecodeInv
<1>0. Types /\ Woken /\ Decoding(v) /\ Passed(v) \subseteq Answers
  BY PassedAnswers DEF TaskInv, DecodeInv
<1>1. ASSUME Passed(v)' \subseteq Passed(v), UNCHANGED <<toDetok, made, decodeMap>> PROVE Decoding(v)'
  BY <1>0, <1>1 DEF Decoding
<1>2. ASSUME UNCHANGED <<toFront, delivered, batch, ackMap>> PROVE Passed(v)' = Passed(v)
  BY <1>2 DEF Passed
<1>3. ASSUME NEW u \in Uids, Request(u) PROVE Decoding(v)'
  <2>1. ackMap' = Put(ackMap, u, <<>>) /\ UNCHANGED <<toFront, delivered, batch, toDetok, made, decodeMap>>
    BY <1>3 DEF Request, sched
  <2>2. v \in DOMAIN ackMap' => (v \in DOMAIN ackMap /\ ackMap'[v] = ackMap[v]) \/ ackMap'[v] = <<>>
    BY <2>1 DEF Put
  <2>3. Passed(v)' \subseteq Passed(v)
    BY <2>1, <2>2, Items DEF Passed
  <2>. QED  BY <1>1, <2>1, <2>3
<1>4. ASSUME NEW u \in Uids, Wake(u) PROVE Decoding(v)'
  <2>1. UNCHANGED <<toFront, delivered, toDetok, made, decodeMap>>
    BY <1>4 DEF Wake, sched
  <2>2. CASE u \in DOMAIN ackMap
    <3>1. batch' = [batch EXCEPT ![u] = ackMap[u]] /\ ackMap' = [ackMap EXCEPT ![u] = <<>>]
      BY <1>4, <2>2 DEF Wake
    <3>2. DOMAIN ackMap' = DOMAIN ackMap
          /\ (u = v => batch'[v] = ackMap[v] /\ ackMap'[v] = <<>>)
          /\ (u /= v => batch'[v] = batch[v] /\ (v \in DOMAIN ackMap => ackMap'[v] = ackMap[v]))
      BY <1>0, <2>2, <3>1 DEF Types
    <3>3. Passed(v)' \subseteq Passed(v)
      BY <2>1, <2>2, <3>2, Items DEF Passed
    <3>. QED  BY <1>1, <2>1, <3>3
  <2>3. CASE u \notin DOMAIN ackMap
    BY <1>1, <1>2, <1>4, <2>1, <2>3 DEF Wake
  <2>. QED  BY <2>2, <2>3
<1>5. ASSUME NEW u \in Uids, Yield(u) \/ Close(u) \/ Cancel(u) PROVE Decoding(v)'
  <2>1. UNCHANGED <<toFront, ackMap, toDetok, made, decodeMap>>
    BY <1>5, CancelSteps DEF front, sched
  <2>2. CASE Cancelled(u)
    <3>1. delivered' = delivered /\ (batch'[v] = batch[v] \/ batch'[v] = <<>>)
      BY <1>0, <2>2 DEF Cancelled, Types
    <3>2. Passed(v)' \subseteq Passed(v)
      BY <2>1, <3>1, Items DEF Passed
    <3>. QED  BY <1>1, <2>1, <3>2
  <2>3. CASE task[u] = "yielding" /\ Deliver(u)
    <3> DEFINE b == batch[v]
               s == delivered[v]
    <3>1. CASE u = v
      <4>1. b \in Seq(Answers) /\ b /= <<>> /\ s \in Seq(Answers)
        BY <1>0, <2>3, <3>1 DEF Types, Woken
      <4>2. delivered'[v] = Append(s, Head(b)) /\ (batch'[v] = <<>> \/ batch'[v] = Tail(b))
        BY <1>0, <2>3, <3>1 DEF Deliver, Types
      <4>3. Head(b) \in Answers
        BY <4>1, HeadTail
      <4>4. ToSet(b) = ToSet(Tail(b)) \union {Head(b)} /\ ToSet(Append(s, Head(b))) = ToSet(s) \union {Head(b)}
            /\ ToSet(<<>>) = {}
        BY <4>1, <4>3, Items
      <4> HIDE DEF b, s
      <4>5. ToSet(delivered'[v]) \union ToSet(batch'[v]) \subseteq ToSet(s) \union ToSet(b)
        BY <4>2, <4>4
      <4>6. Passed(v)' \subseteq Passed(v)
        BY <2>1, <4>5 DEF Passed, b, s
      <4>. QED  BY <1>1, <2>1, <4>6
    <3>2. CASE u /= v
      <4>1. delivered'[v] = delivered[v] /\ batch'[v] = batch[v]
        BY <1>0, <2>3, <3>2 DEF Deliver, Types
      <4>2. Passed(v)' \subseteq Passed(v)
        BY <2>1, <4>1 DEF Passed
      <4>. QED  BY <1>1, <2>1, <4>2
    <3>. QED  BY <3>1, <3>2
  <2>4. CASE UNCHANGED <<batch, delivered, aborter>>
    BY <1>1, <1>2, <2>1, <2>4
  <2>. QED  BY <1>5, <2>2, <2>3, <2>4, CancelSteps
<1>6. ASSUME NEW u \in Uids, AbortUser(u) \/ WaitForAbortAck(u) \/ Leave(u) PROVE Decoding(v)'
  BY <1>1, <1>2, <1>6 DEF AbortUser, WaitForAbortAck, Leave, front, sched
<1>7. ASSUME NEW i \in tokenizers, Tokenize(i) PROVE Decoding(v)'
  BY <1>1, <1>2, <1>7 DEF Tokenize, front, tasks, sched
<1>8. CASE UNCHANGED vars
  BY <1>1, <1>2, <1>8 DEF vars, front, tasks, sched
<1>9. CASE SchedReceive
  <2> DEFINE m == Head(toSched)
             a == Msg("ack", m.uid)
  <2>1. /\ UNCHANGED <<toFront, delivered, batch, ackMap, made, decodeMap>>
        /\ IF m.type = "abort" THEN toDetok' = Append(toDetok, a) ELSE toDetok' = toDetok
    BY <1>9 DEF SchedReceive, SchedAbort, SchedUser, front, tasks
  <2>2. a \in Answers /\ a.type = "ack"
    <3>1. m \in Commands
      BY <1>0, <1>9, HeadTail DEF SchedReceive, Types
    <3>. QED  BY <3>1 DEF Msg, Answers, Commands
  <2> HIDE DEF a
  <2>3. Passed(v)' \subseteq Passed(v)
    BY <1>2, <2>1
  <2>4. CASE m.type = "abort"
    BY <1>0, <2>1, <2>2, <2>3, <2>4, DecodeAppend
  <2>5. CASE m.type /= "abort"
    BY <1>1, <2>1, <2>3, <2>5
  <2>. QED  BY <2>4, <2>5
<1>10. ASSUME NEW u \in Uids, SchedToken(u) \/ SchedTrailing(u) PROVE Decoding(v)'
  <2>0. made' = [made EXCEPT ![u] = @ + 1] /\ made \in [Uids -> Nat]
    BY <1>0, <1>10 DEF SchedToken, SchedTrailing, Types
  <2>1. /\ made'[u] = made[u] + 1 /\ made'[u] \in Nat /\ (u /= v => made'[v] = made[v])
        /\ UNCHANGED <<toFront, delivered, batch, ackMap, decodeMap>>
    BY <1>10, <2>0 DEF SchedToken, SchedTrailing, front, tasks
  <2>2. PICK stops \in BOOLEAN : toDetok' = Append(toDetok, Reply(u, made'[u], stops))
    BY <1>10 DEF SchedToken, SchedTrailing
  <2> DEFINE a == Reply(u, made'[u], stops)
  <2>3. a \in Answers /\ a.uid = u /\ a.type = "reply" /\ a.n = made[u] + 1
    BY <2>1 DEF Reply, Answers
  <2>4. toDetok' = Append(toDetok, a)
    BY <2>2
  <2> HIDE DEF a
  <2>5. Passed(v)' \subseteq Passed(v)
    BY <1>2, <2>1
  <2>6. CASE u = v
    BY <1>0, <2>1, <2>3, <2>4, <2>5, <2>6, DecodeAppend
  <2>7. CASE u /= v
    BY <1>0, <2>1, <2>3, <2>4, <2>5, <2>7, DecodeAppend
  <2>. QED  BY <2>6, <2>7
<1>11. CASE Detokenize
  <2> DEFINE m == Head(toDetok)
             t == Tail(toDetok)
  <2>1. /\ toDetok /= <<>> /\ toDetok \in Seq(Answers) /\ toFront \in Seq(Answers) /\ toDetok' = t
        /\ toFront' = Append(toFront, m)
        /\ decodeMap' = IF m.type = "ack" THEN decodeMap ELSE Decoded(m)
        /\ UNCHANGED <<delivered, batch, ackMap, made>>
    BY <1>0, <1>11 DEF Detokenize, front, tasks, sched, Types
  <2>2. /\ m \in Answers /\ m = toDetok[1] /\ 1 \in DOMAIN toDetok
        /\ \A i \in DOMAIN t : i \in Nat \ {0} /\ i + 1 \in DOMAIN toDetok /\ t[i] = toDetok[i + 1]
    BY <2>1, HeadTail
  <2>3. ToSet(toFront') = ToSet(toFront) \union {m}
    BY <2>1, <2>2, Items
  <2>4. m.type \in {"ack", "reply"} /\ m.finished \in BOOLEAN /\ m.n \in Nat /\ made[v] \in Nat
    BY <1>0, <2>2 DEF Answers, Types
  <2> HIDE DEF m, t
  <2>5. \A i \in DOMAIN t : IsReply(t, v, i) <=> IsReply(toDetok, v, i + 1)
    BY <2>2 DEF IsReply
  <2>6. ASSUME NEW i \in DOMAIN t, IsReply(t, v, i)
        PROVE  /\ t[i].n <= made[v]
               /\ \A j \in DOMAIN t : i < j /\ IsReply(t, v, j) => t[i].n < t[j].n
               /\ \A p \in Passed(v) : p.n < t[i].n
               /\ IsReply(toDetok, v, 1) => m.n < t[i].n
    <3>1. IsReply(toDetok, v, i + 1) /\ i + 1 \in DOMAIN toDetok /\ t[i] = toDetok[i + 1] /\ 1 < i + 1
      BY <2>2, <2>5, <2>6
    <3>2. ASSUME NEW j \in DOMAIN t, i < j, IsReply(t, v, j) PROVE t[i].n < t[j].n
      <4>1. IsReply(toDetok, v, j + 1) /\ j + 1 \in DOMAIN toDetok /\ t[j] = toDetok[j + 1] /\ i + 1 < j + 1
        BY <2>2, <2>5, <3>2
      <4>. QED  BY <1>0, <3>1, <4>1 DEF Decoding
    <3>3. IsReply(toDetok, v, 1) => m.n < t[i].n
      BY <1>0, <2>2, <3>1 DEF Decoding
    <3>. QED  BY <1>0, <3>1, <3>2, <3>3 DEF Decoding
  <2>7. CASE IsReply(toDetok, v, 1)
    <3>1. m.uid = v /\ m.type = "reply" /\ m.n <= made[v] /\ \A p \in Passed(v) : p.n < m.n
      BY <1>0, <2>2, <2>7 DEF IsReply, Decoding
    <3>2. Passed(v)' = Passed(v) \union {m}
      BY <2>1, <2>3, <3>1 DEF Passed
    <3>3. \A p \in Passed(v)' : p.n <= made[v] /\ (p.finished /\ v \in decodeMap' => p.n < made[v])
      <4>1. m.finished => v \notin decodeMap'
        BY <2>1, <2>4, <3>1 DEF Decoded
      <4>2. \A p \in Passed(v) : p.n \in Nat /\ p.n < made[v]
        BY <1>0, <2>4, <3>1 DEF Answers
      <4>. QED  BY <3>1, <3>2, <4>1, <4>2, <2>4
    <3>. QED  BY <2>1, <2>6, <2>7, <3>2, <3>3 DEF Decoding
  <2>8. CASE ~IsReply(toDetok, v, 1)
    <3>1. ~(m.uid = v /\ m.type = "reply")
      BY <2>2, <2>8 DEF IsReply
    <3>2. Passed(v)' = Passed(v)
      BY <2>1, <2>3, <3>1 DEF Passed
    <3>3. v \in decodeMap' => v \in decodeMap
      BY <2>1, <2>4, <3>1 DEF Decoded
    <3>. QED  BY <1>0, <2>1, <2>6, <3>2, <3>3 DEF Decoding
  <2>. QED  BY <2>7, <2>8
<1>12. CASE Listen
  <2> DEFINE m == Head(toFront)
  <2>1. /\ toFront /= <<>> /\ toFront \in Seq(Answers) /\ toFront' = Tail(toFront)
        /\ UNCHANGED <<delivered, batch, toDetok, made, decodeMap>>
    BY <1>0, <1>12 DEF Listen, tasks, sched, Types
  <2>2. ToSet(toFront) = ToSet(toFront') \union {m} /\ m \in Answers
    BY <2>1, Items, HeadTail
  <2>3. m.type \in {"ack", "reply"}
    BY <2>2 DEF Answers
  <2>4. CASE v \in DOMAIN ackMap /\ m.uid = v /\ m.type = "reply"
    <3>1. DOMAIN ackMap' = DOMAIN ackMap /\ (ackMap'[v] = ackMap[v] \/ ackMap'[v] = Append(ackMap[v], m))
      BY <1>12, <2>4 DEF Listen, UserReply
    <3>2. ackMap[v] \in Seq(Answers)
      BY <1>0, <2>4 DEF Types
    <3>3. ToSet(Append(ackMap[v], m)) = ToSet(ackMap[v]) \union {m}
      BY <2>2, <3>2, Items
    <3> HIDE DEF m
    <3>4. Passed(v)' \subseteq Passed(v)
      BY <2>1, <2>2, <2>4, <3>1, <3>3 DEF Passed
    <3>. QED  BY <1>1, <2>1, <3>4
  <2>5. CASE ~(v \in DOMAIN ackMap /\ m.uid = v /\ m.type = "reply")
    <3>1. v \in DOMAIN ackMap' => v \in DOMAIN ackMap /\ ackMap'[v] = ackMap[v]
      <4>1. CASE m.type = "ack"
        BY <1>12, <4>1 DEF Listen, AbortAck, Drop
      <4>2. CASE m.type = "reply"
        BY <1>12, <2>5, <4>2 DEF Listen, UserReply
      <4>. QED  BY <2>3, <4>1, <4>2
    <3>2. Passed(v)' \subseteq Passed(v)
      BY <2>1, <2>2, <3>1 DEF Passed
    <3>. QED  BY <1>1, <2>1, <3>2
  <2>. QED  BY <2>4, <2>5
<1>. QED
  BY <1>3, <1>4, <1>5, <1>6, <1>7, <1>8, <1>9, <1>10, <1>11, <1>12 DEF Next, TaskStep, SchedStep

LEMMA DecodeCorrect == Spec => []DecodeInv
<1>1. Init => DecodeInv
  <2> SUFFICES ASSUME Init, NEW u \in Uids PROVE Decoding(u)
    BY DEF DecodeInv
  <2>1. /\ toDetok = <<>> /\ toFront = <<>> /\ delivered[u] = <<>> /\ batch[u] = <<>> /\ DOMAIN <<>> = {}
        /\ ackMap = <<>>
    BY DEF Init
  <2>2. Passed(u) = {}
    BY <2>1, Items DEF Passed
  <2>. QED  BY <2>1, <2>2 DEF Decoding
<1>. QED
  BY <1>1, DecodeStep, TaskCorrect, PTL DEF Spec

(* Once nothing about a request is on its way, the frontend keeps nothing of
   it if its abort was acknowledged and its ack_map and event_map entries if
   not, and the detokenizer keeps its text state only if it was aborted or a
   token followed its final one. *)
THEOREM LeftoversCorrect == Spec => []Leftovers
<1>1. TaskInv /\ AbortInv /\ OrderInv /\ DecodeInv => Leftovers
  <2> SUFFICES ASSUME TaskInv, AbortInv, OrderInv, DecodeInv PROVE Leftovers
    OBVIOUS
  <2>1. ASSUME NEW u \in Uids, Quiet(u)
        PROVE  ~Travels(u) /\ u \notin aborter /\ task[u] \in {"done", "cancelled"}
    BY <2>1, HoldsIn DEF Quiet, Over, Travels
  <2>2. FrontendLeak
    BY <2>1 DEF FrontendLeak, AbortInv, AbortOnce
  <2>3. ASSUME NEW u \in decodeMap, Quiet(u), u \notin acked
        PROVE  \E i \in DOMAIN delivered[u] : delivered[u][i].finished /\ made[u] > i
    <3>1. u \in Uids /\ delivered[u] \in Seq(Answers) /\ made[u] \in Nat
      BY DEF TaskInv, Types
    <3>2. task[u] = "done"
      BY <2>1, <2>3, <3>1 DEF AbortInv, AbortOnce
    <3> DEFINE d == delivered[u]
               l == Len(d)
    <3>3. d /= <<>> /\ d[l].finished
      BY <3>1, <3>2 DEF OrderInv, Ordered, Ended
    <3>4. l \in DOMAIN d
      <4>1. l \in Nat /\ l /= 0 /\ DOMAIN d = 1 .. l
        BY <3>1, <3>3, LenProperties, EmptySeq
      <4> HIDE DEF l
      <4>. QED  BY <4>1
    <3>5. d[l].n = l
      BY <3>1, <3>4 DEF OrderInv, Ordered
    <3>6. d[l] \in Passed(u)
      BY <3>4 DEF Passed, ToSet
    <3>7. d[l].n < made[u]
      BY <3>1, <3>3, <3>6 DEF DecodeInv, Decoding
    <3>8. l \in Nat
      BY <3>1, LenProperties
    <3> HIDE DEF l
    <3>. QED  BY <3>1, <3>3, <3>4, <3>5, <3>7, <3>8
  <2>4. DecodeLeak
    BY <2>3 DEF DecodeLeak
  <2>. QED  BY <2>2, <2>4 DEF Leftovers
<1>. QED
  BY <1>1, TaskCorrect, AbortInvCorrect, OrderCorrect, DecodeCorrect, PTL

=============================================================================
