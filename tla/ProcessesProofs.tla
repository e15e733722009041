-------------------------- MODULE ProcessesProofs --------------------------
(***************************************************************************)
(* The processes around the scheduler, proved for any number of ranks,     *)
(* messages, tokenizers and prompts: the ranks read the same messages in   *)
(* the same ticks, a service that takes requests is whole and its ranks    *)
(* agree on their caches, and the offline driver returns what it sampled.  *)
(***************************************************************************)
EXTENDS RankIO, Launcher, Offline, CommonTheorems




-----------------------------------------------------------------------------
(* The ranks of the scheduler.                                              *)

RankSpec == RankInit /\ [][RankNext]_rankVars

Msgs == [id : Nat, work : Nat]

(* Where the loop of rank 0 may be, and that of another rank *)
LeaderPlaces == {"top", "get", "drain", "run", "barrier", "stopped"}
ReaderPlaces == {"top", "get", "count", "rest", "run", "barrier", "stopped"}

RankTypeOK ==
  /\ sent \in Nat /\ inbox \in Seq(Msgs) /\ raws \in Seq(Msgs)
  /\ published \in [Others -> Seq(Msgs)] /\ counts \in [Others -> Seq(Nat)]
  /\ at \in [Ranks -> LeaderPlaces \union ReaderPlaces]
  /\ at[0] \in LeaderPlaces /\ \A r \in Others : at[r] \in ReaderPlaces
  /\ got \in [Ranks -> Seq(Msgs)] /\ left \in [Ranks -> Nat]
  /\ DOMAIN work = Ranks /\ ticks \in [Ranks -> Seq(Seq(Msgs))]

LEMMA RanksType == 0 \in Ranks /\ Others \subseteq Ranks /\ \A r \in Ranks : r = 0 \/ r \in Others
BY RankAssumption DEF Ranks, Others

LEMMA RankTypeCorrect == RankSpec => []RankTypeOK
<1>1. RankInit => RankTypeOK
  BY RanksType, RankAssumption DEF RankInit, RankTypeOK, LeaderPlaces, ReaderPlaces
<1>2. RankTypeOK /\ [RankNext]_rankVars => RankTypeOK'
  <2> SUFFICES ASSUME RankTypeOK, [RankNext]_rankVars PROVE RankTypeOK'
    OBVIOUS
  <2>0. /\ 0 \in Ranks /\ Others \subseteq Ranks /\ \A r \in Ranks : r = 0 \/ r \in Others
        /\ 0 \notin Others
    BY RanksType DEF Others
  <2>1. CASE Send
    <3>1. Exit \in Msgs /\ \A w \in 0 .. MaxWork : [id |-> sent + 1, work |-> w] \in Msgs
      BY RankAssumption DEF RankTypeOK, Exit, Msgs
    <3>2. CASE inbox' = Append(inbox, Exit) /\ sent' = MaxMsgs + 1
      BY <2>1, <3>1, <3>2, RankAssumption DEF Send, RankTypeOK
    <3>3. CASE ~(inbox' = Append(inbox, Exit) /\ sent' = MaxMsgs + 1)
      <4>1. PICK w \in 0 .. MaxWork : inbox' = Append(inbox, [id |-> sent + 1, work |-> w])
        BY <2>1, <3>3 DEF Send
      <4>2. sent' = sent + 1
        BY <2>1, <3>3 DEF Send
      <4>. QED  BY <2>1, <3>1, <4>1, <4>2 DEF Send, RankTypeOK
    <3>. QED  BY <3>2, <3>3
  <2>2. ASSUME NEW r \in Ranks, Begin(r) PROVE RankTypeOK'
    BY <2>0, <2>2 DEF Begin, Go, RankTypeOK, LeaderPlaces, ReaderPlaces
  <2>3. CASE Get0
    <3>1. Head(inbox) \in Msgs /\ Tail(inbox) \in Seq(Msgs)
      BY <2>3, HeadTailProperties DEF Get0, RankTypeOK
    <3>2. published' \in [Others -> Seq(Msgs)]
      BY <2>3, <3>1 DEF Get0, Publish, RankTypeOK
    <3>. QED
      BY <2>0, <2>3, <3>1, <3>2 DEF Get0, Go, RankTypeOK, LeaderPlaces, ReaderPlaces
  <2>4. CASE Drain0
    <3>1. Head(inbox) \in Msgs /\ Tail(inbox) \in Seq(Msgs)
      BY <2>4, HeadTailProperties DEF Drain0, RankTypeOK
    <3>. QED  BY <2>4, <3>1 DEF Drain0, RankTypeOK
  <2>5. CASE Rest0
    <3>1. published' \in [Others -> Seq(Msgs)] /\ counts' \in [Others -> Seq(Nat)]
      BY <2>5 DEF Rest0, Publish, Broadcast, RankTypeOK
    <3>2. got' \in [Ranks -> Seq(Msgs)]
      BY <2>0, <2>5 DEF Rest0, RankTypeOK
    <3>. QED
      BY <2>0, <2>5, <3>1, <3>2 DEF Rest0, Go, RankTypeOK, LeaderPlaces, ReaderPlaces
  <2>6. ASSUME NEW r \in Ranks, Get(r) PROVE RankTypeOK'
    <3>1. Head(published[r]) \in Msgs /\ Tail(published[r]) \in Seq(Msgs) /\ r \in Others
      BY <2>6, HeadTailProperties DEF Get, RankTypeOK
    <3>. QED
      BY <2>0, <2>6, <3>1 DEF Get, Go, RankTypeOK, LeaderPlaces, ReaderPlaces
  <2>7. ASSUME NEW r \in Ranks, ReadCount(r) PROVE RankTypeOK'
    <3>1. r \in Others
      BY <2>0, <2>7 DEF ReadCount, RankTypeOK, LeaderPlaces
    <3>2. Head(counts[r]) \in Nat /\ Tail(counts[r]) \in Seq(Nat)
      BY <2>7, <3>1, HeadTailProperties DEF ReadCount, RankTypeOK
    <3>. QED
      BY <2>0, <2>7, <3>1, <3>2 DEF ReadCount, Go, RankTypeOK, LeaderPlaces, ReaderPlaces
  <2>8. ASSUME NEW r \in Ranks, Rest(r) PROVE RankTypeOK'
    <3>1. r \in Others
      BY <2>0, <2>8 DEF Rest, RankTypeOK, LeaderPlaces
    <3>2. CASE left[r] = 0
      BY <2>0, <2>8, <3>1, <3>2 DEF Rest, Go, RankTypeOK, LeaderPlaces, ReaderPlaces
    <3>3. CASE left[r] /= 0
      <4>1. Head(published[r]) \in Msgs /\ Tail(published[r]) \in Seq(Msgs)
        BY <2>8, <3>1, <3>3, HeadTailProperties DEF Rest, RankTypeOK
      <4>2. Append(got[r], Head(published[r])) \in Seq(Msgs) /\ left[r] - 1 \in Nat
        BY <3>3, <4>1 DEF RankTypeOK
      <4>. QED  BY <2>8, <3>1, <3>3, <4>1, <4>2 DEF Rest, RankTypeOK
    <3>. QED  BY <3>2, <3>3
  <2>9. ASSUME NEW r \in Ranks, Run(r) PROVE RankTypeOK'
    <3>1. ticks' \in [Ranks -> Seq(Seq(Msgs))] /\ got' \in [Ranks -> Seq(Msgs)]
      BY <2>9 DEF Run, RankTypeOK
    <3>2. DOMAIN work' = Ranks
      BY <2>9 DEF Run, RankTypeOK
    <3>. QED
      BY <2>0, <2>9, <3>1, <3>2 DEF Run, Go, RankTypeOK, LeaderPlaces, ReaderPlaces
  <2>10. CASE Barrier
    BY <2>0, <2>10 DEF Barrier, RankTypeOK, LeaderPlaces, ReaderPlaces
  <2>11. CASE UNCHANGED rankVars
    BY <2>11 DEF rankVars, RankTypeOK
  <2>. QED
    BY <2>1, <2>2, <2>3, <2>4, <2>5, <2>6, <2>7, <2>8, <2>9, <2>10, <2>11 DEF RankNext, RankStep
<1>. QED
  BY <1>1, <1>2, PTL DEF RankSpec

-----------------------------------------------------------------------------
(* s is what stands in S after the next lo up to the next hi.            *)
Slice(s, S, lo, hi) ==
  lo <= hi /\ Len(s) = hi - lo /\ \A i \in 1 .. hi - lo : s[i] = S[lo + i]

LEMMA SliceUnique ==
  ASSUME NEW M, NEW s \in Seq(M), NEW t \in Seq(M), NEW S, NEW lo \in Int, NEW hi \in Int,
         Slice(s, S, lo, hi), Slice(t, S, lo, hi)
  PROVE  s = t
<1>1. Len(s) = Len(t) /\ \A i \in 1 .. Len(s) : s[i] = t[i]
  BY DEF Slice
<1>. QED
  BY <1>1, SeqEqual

(* S goes on with the messages m. *)
Longer(S, m, S2) ==
  /\ Len(S2) = Len(S) + Len(m)
  /\ \A i \in 1 .. Len(S) : S2[i] = S[i]
  /\ \A i \in 1 .. Len(m) : S2[Len(S) + i] = m[i]

LEMMA JoinLonger ==
  ASSUME NEW M, NEW s \in Seq(M), NEW m \in Seq(M)
  PROVE  s \o m \in Seq(M) /\ Longer(s, m, s \o m)
<1> DEFINE t == s \o m
<1>1. /\ t \in Seq(M) /\ Len(s) \in Nat /\ Len(m) \in Nat /\ Len(t) = Len(s) + Len(m)
      /\ \A i \in 1 .. Len(s) + Len(m) : t[i] = IF i <= Len(s) THEN s[i] ELSE m[i - Len(s)]
  BY ConcatProperties
<1> HIDE DEF t
<1>2. ASSUME NEW i \in 1 .. Len(m) PROVE t[Len(s) + i] = m[i]
  <2>1. Len(s) + i \in 1 .. Len(s) + Len(m) /\ ~(Len(s) + i <= Len(s)) /\ (Len(s) + i) - Len(s) = i
    BY <1>1
  <2>. QED  BY <1>1, <2>1
<1>3. \A i \in 1 .. Len(s) : t[i] = s[i]
  BY <1>1
<1>4. Longer(s, m, t)
  BY <1>1, <1>2, <1>3 DEF Longer
<1>. QED
  BY <1>1, <1>4 DEF t

LEMMA SliceStays ==
  ASSUME NEW M, NEW S \in Seq(M), NEW m \in Seq(M), NEW S2, Longer(S, m, S2),
         NEW s, NEW lo \in Nat, NEW hi \in Nat, hi <= Len(S), Slice(s, S, lo, hi)
  PROVE  Slice(s, S2, lo, hi)
<1>1. \A i \in 1 .. hi - lo : lo + i \in 1 .. Len(S)
  OBVIOUS
<1>. QED
  BY <1>1 DEF Slice, Longer

(* A slice up to the end, taken on with the same messages, still is one. *)
LEMMA SliceJoin ==
  ASSUME NEW M, NEW S \in Seq(M), NEW m \in Seq(M), NEW S2, Longer(S, m, S2),
         NEW s \in Seq(M), NEW lo \in Nat, Slice(s, S, lo, Len(S))
  PROVE  Slice(s \o m, S2, lo, Len(S2))
<1> DEFINE t == s \o m
<1>1. Longer(s, m, t)
  BY JoinLonger
<1> HIDE DEF t
<1>2. /\ Len(S) \in Nat /\ Len(m) \in Nat /\ Len(s) = Len(S) - lo /\ lo <= Len(S)
      /\ Len(t) = Len(S2) - lo /\ lo <= Len(S2) /\ Len(S2) = Len(S) + Len(m)
  BY <1>1 DEF Slice, Longer
<1>3. ASSUME NEW i \in 1 .. Len(S2) - lo PROVE t[i] = S2[lo + i]
  <2>1. CASE i <= Len(s)
    <3>1. i \in 1 .. Len(s) /\ lo + i \in 1 .. Len(S)
      BY <1>2, <2>1
    <3>. QED  BY <1>1, <1>2, <3>1 DEF Slice, Longer
  <2>2. CASE ~(i <= Len(s))
    <3> DEFINE j == i - Len(s)
    <3>1. j \in 1 .. Len(m) /\ Len(s) + j = i /\ Len(S) + j = lo + i
      BY <1>2, <2>2
    <3> HIDE DEF j
    <3>2. t[Len(s) + j] = m[j] /\ S2[Len(S) + j] = m[j]
      BY <1>1, <3>1 DEF Longer
    <3>. QED  BY <3>1, <3>2
  <2>. QED  BY <2>1, <2>2
<1>4. Slice(t, S2, lo, Len(S2))
  BY <1>2, <1>3 DEF Slice
<1>. QED
  BY <1>4 DEF t

(* Taking the first message of a slice moves its beginning. *)
LEMMA SliceTail ==
  ASSUME NEW M, NEW S \in Seq(M), NEW s \in Seq(M), s /= <<>>, NEW lo \in Nat, NEW hi \in Nat,
         Slice(s, S, lo, hi)
  PROVE  lo + 1 <= hi /\ Head(s) = S[lo + 1] /\ Slice(Tail(s), S, lo + 1, hi)
<1> DEFINE t == Tail(s)
<1>1. /\ Len(s) \in Nat \ {0} /\ Head(s) = s[1] /\ Len(t) = Len(s) - 1
      /\ \A i \in 1 .. Len(s) - 1 : t[i] = s[i + 1]
  BY HeadTailProperties, EmptySeq
<1> HIDE DEF t
<1>2. /\ lo + 1 <= hi /\ Len(s) = hi - lo /\ Len(t) = hi - (lo + 1)
      /\ \A i \in 1 .. hi - lo : s[i] = S[lo + i]
  BY <1>1 DEF Slice
<1>3. ASSUME NEW i \in 1 .. hi - (lo + 1) PROVE t[i] = S[(lo + 1) + i]
  <2>1. i \in 1 .. Len(s) - 1 /\ i + 1 \in 1 .. hi - lo /\ (lo + 1) + i = lo + (i + 1)
    BY <1>2
  <2>. QED  BY <1>1, <1>2, <2>1
<1>4. s[1] = S[lo + 1]
  BY <1>2
<1>. QED
  BY <1>1, <1>2, <1>3, <1>4 DEF t, Slice

LEMMA SliceAppend ==
  ASSUME NEW M, NEW S \in Seq(M), NEW s \in Seq(M), NEW lo \in Nat, NEW hi \in Nat,
         Slice(s, S, lo, hi), NEW e \in M, e = S[hi + 1]
  PROVE  Slice(Append(s, e), S, lo, hi + 1)
<1> DEFINE t == Append(s, e)
<1>1. /\ Len(s) \in Nat /\ Len(t) = Len(s) + 1 /\ t[Len(s) + 1] = e
      /\ \A i \in 1 .. Len(s) : t[i] = s[i]
  BY AppendProperties
<1> HIDE DEF t
<1>2. lo <= hi + 1 /\ Len(s) = hi - lo /\ Len(t) = (hi + 1) - lo
  BY <1>1 DEF Slice
<1>3. ASSUME NEW i \in 1 .. (hi + 1) - lo PROVE t[i] = S[lo + i]
  <2>1. CASE i = Len(s) + 1
    <3>1. lo + i = hi + 1
      BY <1>2, <2>1
    <3>. QED  BY <1>1, <2>1, <3>1
  <2>2. CASE i /= Len(s) + 1
    <3>1. i \in 1 .. Len(s)
      BY <1>1, <1>2, <2>2
    <3>. QED  BY <1>1, <1>2, <3>1 DEF Slice
  <2>. QED  BY <2>1, <2>2
<1>. QED
  BY <1>2, <1>3 DEF t, Slice

-----------------------------------------------------------------------------
(* What the run does not keep: S, every message rank 0 has published, in    *)
(* order; b, where in S each tick ends; T, the messages of each tick; w, the *)
(* ticks of work left after it.  Some S, b, T, w fit every reachable state. *)

(* The message a blocking get takes before the broadcast of tick k + 1 *)
Extra(k, w) == IF w[k] = 0 THEN 1 ELSE 0

After(left0, msgs) ==
  LET total == left0 + FoldSeq(LAMBDA m, sum : m.work + sum, 0, msgs)
  IN  IF total = 0 THEN 0 ELSE total - 1

(* The ticks rank 0 has broadcast: the one it is running included *)
Begun == Len(ticks[0]) + (IF at[0] = "run" THEN 1 ELSE 0)

History(n, S, b, w, T) ==
  /\ S \in Seq(Msgs) /\ b \in [Nat -> Nat] /\ T \in [Nat -> Seq(Msgs)] /\ DOMAIN w = Nat
  /\ b[0] = 0 /\ w[0] = 0
  /\ \A i \in 0 .. n : b[i] <= Len(S)
  /\ \A i \in 0 .. n - 1 :
       b[i] + Extra(i, w) <= b[i + 1] /\ Slice(T[i + 1], S, b[i], b[i + 1])
         /\ w[i + 1] = After(w[i], T[i + 1])

(* A rank has processed the first ticks of T. *)
Follows(r, w, T) ==
  /\ Len(ticks[r]) <= Begun
  /\ \A i \in 1 .. Len(ticks[r]) : ticks[r][i] = T[i]
  /\ work[r] = w[Len(ticks[r])]

(* Rank 0 after k ticks: where its loop stands, what it has of the next one *)
Leads(next, k, g, S, b, w, T) ==
  /\ next \in {"top", "get", "barrier", "stopped"} => g = <<>> /\ Len(S) = b[k]
  /\ next = "get" => w[k] = 0
  /\ next = "drain" => Len(g) = Extra(k, w) /\ Slice(g, S, b[k], Len(S))
  /\ next = "run" => g = T[k + 1] /\ Len(S) = b[k + 1]

(* Another rank after k ticks, having read S up to pos *)
Stands(next, k, pos, g, lf, S, b, w, T) ==
  /\ next \in {"top", "get", "barrier", "stopped"} => g = <<>> /\ pos = b[k]
  /\ next = "get" => w[k] = 0
  /\ next = "count" => pos = b[k] + Extra(k, w) /\ Slice(g, S, b[k], pos)
  /\ next = "rest" => pos + lf = b[k + 1] /\ Slice(g, S, b[k], pos)
  /\ next = "run" => g = T[k + 1] /\ pos = b[k + 1]

(* The broadcasts a rank has still to take, once it has taken those of f ticks *)
RankKept(cs, f, n, b, w) ==
  /\ f <= n /\ Len(cs) = n - f
  /\ \A i \in 1 .. n - f : cs[i] = b[f + i] - b[f + i - 1] - Extra(f + i - 1, w)

Pos(r, S) == Len(S) - Len(published[r])
Known(r) == Len(ticks[r]) + (IF at[r] \in {"rest", "run"} THEN 1 ELSE 0)

Reader(r, S, b, w, T) ==
  /\ Pos(r, S) \in Nat /\ Slice(published[r], S, Pos(r, S), Len(S))
  /\ RankKept(counts[r], Known(r), Begun, b, w)
  /\ Stands(at[r], Len(ticks[r]), Pos(r, S), got[r], left[r], S, b, w, T)

Story(S, b, w, T) ==
  /\ History(Begun, S, b, w, T)
  /\ \A r \in Ranks : Follows(r, w, T)
  /\ Leads(at[0], Len(ticks[0]), got[0], S, b, w, T)
  /\ \A r \in Others : Reader(r, S, b, w, T)

RankInv == \E S, b, w, T : Story(S, b, w, T)

LEMMA HistoryLonger ==
  ASSUME NEW n \in Nat, NEW S, NEW b, NEW w, NEW T, History(n, S, b, w, T),
         NEW m \in Seq(Msgs), NEW S2 \in Seq(Msgs), Longer(S, m, S2)
  PROVE  History(n, S2, b, w, T)
<1>1. /\ S \in Seq(Msgs) /\ Len(S) \in Nat /\ Len(m) \in Nat /\ Len(S2) = Len(S) + Len(m)
      /\ b \in [Nat -> Nat]
  <2>1. S \in Seq(Msgs) /\ b \in [Nat -> Nat]
    BY DEF History
  <2>2. Len(S) \in Nat /\ Len(m) \in Nat
    BY <2>1, LenProperties
  <2>. QED  BY <2>1, <2>2 DEF Longer
<1>2. ASSUME NEW i \in 0 .. n PROVE b[i] <= Len(S2)
  BY <1>1 DEF History
<1>3. ASSUME NEW i \in 0 .. n - 1
      PROVE  /\ b[i] + Extra(i, w) <= b[i + 1] /\ Slice(T[i + 1], S2, b[i], b[i + 1])
             /\ w[i + 1] = After(w[i], T[i + 1])
  <2>1. b[i] \in Nat /\ b[i + 1] \in Nat /\ b[i + 1] <= Len(S) /\ Slice(T[i + 1], S, b[i], b[i + 1])
    <3>1. i \in Nat /\ i + 1 \in Nat /\ i \in 0 .. n /\ i + 1 \in 0 .. n
      OBVIOUS
    <3>2. b[i + 1] <= Len(S) /\ Slice(T[i + 1], S, b[i], b[i + 1])
      BY <3>1 DEF History
    <3>. QED  BY <1>1, <3>1, <3>2
  <2>2. Slice(T[i + 1], S2, b[i], b[i + 1])
    BY <1>1, <2>1, SliceStays
  <2>. QED  BY <2>2 DEF History
<1>. QED
  BY <1>2, <1>3 DEF History

(* More is published: a rank stands where it stood. *)
LEMMA StandsLonger ==
  ASSUME NEW next, NEW k \in Nat, NEW pos \in Nat, NEW g, NEW lf, NEW S \in Seq(Msgs),
         NEW b \in [Nat -> Nat], NEW w, NEW T, pos <= Len(S), Stands(next, k, pos, g, lf, S, b, w, T),
         NEW m \in Seq(Msgs), NEW S2, Longer(S, m, S2)
  PROVE  Stands(next, k, pos, g, lf, S2, b, w, T)
<1>1. Slice(g, S, b[k], pos) => Slice(g, S2, b[k], pos)
  BY SliceStays
<1>. QED
  BY <1>1 DEF Stands

(* The same of histories that agree on the first n ticks *)
Agree(n, b, w, T, b2, w2, T2) ==
  \A i \in 0 .. n : b2[i] = b[i] /\ w2[i] = w[i] /\ T2[i] = T[i]

LEMMA StandsAgree ==
  ASSUME NEW n \in Nat, NEW next, NEW k \in Nat, k <= n,
         next \in {"rest", "run"} => k + 1 <= n,
         NEW pos, NEW g, NEW lf, NEW S, NEW b, NEW w, NEW T, NEW b2, NEW w2, NEW T2,
         Agree(n, b, w, T, b2, w2, T2), Stands(next, k, pos, g, lf, S, b, w, T)
  PROVE  Stands(next, k, pos, g, lf, S, b2, w2, T2)
<1>1. b2[k] = b[k] /\ w2[k] = w[k] /\ Extra(k, w2) = Extra(k, w)
  BY DEF Agree, Extra
<1>2. next \in {"rest", "run"} => b2[k + 1] = b[k + 1] /\ T2[k + 1] = T[k + 1]
  BY DEF Agree
<1>. QED
  BY <1>1, <1>2 DEF Stands

(* A broadcast of what the new tick has left to read *)
LEMMA KeptAppend ==
  ASSUME NEW cs \in Seq(Nat), NEW f \in Nat, NEW n \in Nat, NEW b, NEW w, NEW T,
         NEW b2, NEW w2, NEW T2, Agree(n, b, w, T, b2, w2, T2), RankKept(cs, f, n, b, w),
         NEW c \in Nat, c = b2[n + 1] - b2[n] - Extra(n, w2)
  PROVE  RankKept(Append(cs, c), f, n + 1, b2, w2)
<1> DEFINE ds == Append(cs, c)
<1>1. /\ Len(cs) = n - f /\ Len(ds) = (n + 1) - f /\ f <= n /\ ds[Len(cs) + 1] = c
      /\ \A i \in 1 .. n - f : ds[i] = cs[i]
  BY AppendProperties DEF RankKept
<1> HIDE DEF ds
<1>2. ASSUME NEW i \in 1 .. (n + 1) - f
      PROVE  ds[i] = b2[f + i] - b2[f + i - 1] - Extra(f + i - 1, w2)
  <2>1. CASE i = (n + 1) - f
    <3>1. f + i = n + 1 /\ f + i - 1 = n /\ i = Len(cs) + 1
      BY <1>1, <2>1
    <3>. QED  BY <1>1, <3>1
  <2>2. CASE i /= (n + 1) - f
    <3>1. i \in 1 .. n - f /\ f + i \in 0 .. n /\ f + i - 1 \in 0 .. n
      BY <1>1, <2>2
    <3>2. ds[i] = b[f + i] - b[f + i - 1] - Extra(f + i - 1, w)
      BY <1>1, <3>1 DEF RankKept
    <3>. QED  BY <3>1, <3>2 DEF Agree, Extra
  <2>. QED  BY <2>1, <2>2
<1>. QED
  BY <1>1, <1>2 DEF RankKept, ds

(* Taking the oldest broadcast *)
LEMMA KeptTail ==
  ASSUME NEW cs \in Seq(Nat), cs /= <<>>, NEW f \in Nat, NEW n \in Nat, NEW b, NEW w,
         RankKept(cs, f, n, b, w)
  PROVE  /\ f + 1 <= n /\ Head(cs) = b[f + 1] - b[f] - Extra(f, w)
         /\ RankKept(Tail(cs), f + 1, n, b, w)
<1> DEFINE t == Tail(cs)
<1>1. /\ Len(cs) \in Nat \ {0} /\ Head(cs) = cs[1] /\ Len(t) = Len(cs) - 1
      /\ \A i \in 1 .. Len(cs) - 1 : t[i] = cs[i + 1]
  BY HeadTailProperties, EmptySeq
<1> HIDE DEF t
<1>2. Len(cs) = n - f /\ f + 1 <= n
  BY <1>1 DEF RankKept
<1>3. Head(cs) = b[f + 1] - b[f] - Extra(f, w)
  <2>1. 1 \in 1 .. n - f /\ f + 1 - 1 = f
    BY <1>2
  <2>. QED  BY <1>1, <2>1 DEF RankKept
<1>4. ASSUME NEW i \in 1 .. n - (f + 1)
      PROVE  t[i] = b[(f + 1) + i] - b[(f + 1) + i - 1] - Extra((f + 1) + i - 1, w)
  <2>1. i + 1 \in 1 .. n - f /\ (f + 1) + i = f + (i + 1) /\ (f + 1) + i - 1 = f + (i + 1) - 1
        /\ i \in 1 .. Len(cs) - 1
    BY <1>2
  <2>2. cs[i + 1] = b[f + (i + 1)] - b[f + (i + 1) - 1] - Extra(f + (i + 1) - 1, w)
    BY <2>1 DEF RankKept
  <2>. QED  BY <1>1, <2>1, <2>2
<1>. QED
  BY <1>1, <1>2, <1>3, <1>4 DEF RankKept, t

-----------------------------------------------------------------------------
(* The numbers of a state *)
LEMMA RankNumbers ==
  ASSUME RankTypeOK, NEW S, NEW b, NEW w, NEW T, Story(S, b, w, T)
  PROVE  /\ S \in Seq(Msgs) /\ Len(S) \in Nat /\ b \in [Nat -> Nat] /\ T \in [Nat -> Seq(Msgs)]
         /\ DOMAIN w = Nat /\ Begun \in Nat
         /\ \A r \in Ranks : Len(ticks[r]) \in Nat /\ Len(ticks[r]) <= Begun
         /\ \A r \in Others : /\ Len(published[r]) \in Nat /\ Pos(r, S) \in Nat /\ Pos(r, S) <= Len(S)
                              /\ Known(r) \in Nat /\ Known(r) <= Begun
<1>1. S \in Seq(Msgs) /\ b \in [Nat -> Nat] /\ T \in [Nat -> Seq(Msgs)] /\ DOMAIN w = Nat
  BY DEF Story, History
<1>2. Len(S) \in Nat
  BY <1>1, LenProperties
<1>3. \A r \in Ranks : Len(ticks[r]) \in Nat
  BY LenProperties DEF RankTypeOK
<1>4. Begun \in Nat
  <2> DEFINE l == Len(ticks[0])
  <2>1. l \in Nat
    BY <1>3, RanksType
  <2> HIDE DEF l
  <2>2. l + (IF at[0] = "run" THEN 1 ELSE 0) \in Nat
    BY <2>1
  <2>. QED  BY <2>2 DEF Begun, l
<1>5. \A r \in Ranks : Len(ticks[r]) <= Begun
  BY DEF Story, Follows
<1>6. ASSUME NEW r \in Others
      PROVE  /\ Len(published[r]) \in Nat /\ Pos(r, S) \in Nat /\ Pos(r, S) <= Len(S)
             /\ Known(r) \in Nat /\ Known(r) <= Begun
  <2>1. Len(published[r]) \in Nat
    BY LenProperties DEF RankTypeOK
  <2>2. Pos(r, S) \in Nat /\ RankKept(counts[r], Known(r), Begun, b, w)
    BY DEF Story, Reader
  <2>3. Known(r) \in Nat
    <3> DEFINE l == Len(ticks[r])
    <3>1. l \in Nat
      BY <1>3, RanksType
    <3> HIDE DEF l
    <3>2. l + (IF at[r] \in {"rest", "run"} THEN 1 ELSE 0) \in Nat
      BY <3>1
    <3>. QED  BY <3>2 DEF Known, l
  <2>. QED  BY <1>2, <2>1, <2>2, <2>3 DEF Pos, RankKept
<1>. QED
  BY <1>1, <1>2, <1>3, <1>4, <1>5, <1>6

(* A step of one reader that leaves what it has published alone *)
LEMMA OneReader ==
  ASSUME RankTypeOK, NEW S, NEW b, NEW w, NEW T, Story(S, b, w, T), NEW r \in Others,
         \A q \in Ranks \ {r} : at'[q] = at[q] /\ got'[q] = got[q] /\ left'[q] = left[q]
                                  /\ work'[q] = work[q] /\ ticks'[q] = ticks[q],
         \A q \in Others \ {r} : published'[q] = published[q] /\ counts'[q] = counts[q],
         Follows(r, w, T)', Reader(r, S, b, w, T)'
  PROVE  Story(S, b, w, T)'
<1>1. 0 \in Ranks \ {r} /\ Others \subseteq Ranks
  BY RanksType DEF Others
<1>2. Begun' = Begun
  BY <1>1 DEF Begun
<1>3. History(Begun, S, b, w, T)'
  BY <1>2 DEF Story
<1>4. Leads(at[0], Len(ticks[0]), got[0], S, b, w, T)'
  BY <1>1 DEF Story
<1>5. ASSUME NEW q \in Ranks PROVE Follows(q, w, T)'
  BY <1>2 DEF Story, Follows
<1>6. ASSUME NEW q \in Others PROVE Reader(q, S, b, w, T)'
  <2>1. CASE q /= r
    <3>1. Pos(q, S)' = Pos(q, S) /\ Known(q)' = Known(q)
      BY <1>1, <2>1 DEF Pos, Known
    <3>. QED  BY <1>1, <1>2, <2>1, <3>1 DEF Story, Reader
  <2>. QED  BY <2>1
<1>. QED
  BY <1>3, <1>4, <1>5, <1>6 DEF Story

(* A step of rank 0 that publishes nothing *)
LEMMA OneLeader ==
  ASSUME RankTypeOK, NEW S, NEW b, NEW w, NEW T, Story(S, b, w, T),
         \A q \in Others : at'[q] = at[q] /\ got'[q] = got[q] /\ work'[q] = work[q]
                             /\ ticks'[q] = ticks[q],
         UNCHANGED <<published, counts, left>>, Begun' = Begun,
         Follows(0, w, T)', Leads(at[0], Len(ticks[0]), got[0], S, b, w, T)'
  PROVE  Story(S, b, w, T)'
<1>1. 0 \in Ranks /\ Others \subseteq Ranks /\ \A r \in Ranks : r = 0 \/ r \in Others
  BY RanksType
<1>2. History(Begun, S, b, w, T)'
  BY DEF Story
<1>3. ASSUME NEW q \in Ranks PROVE Follows(q, w, T)'
  BY <1>1 DEF Story, Follows
<1>4. ASSUME NEW q \in Others PROVE Reader(q, S, b, w, T)'
  <2>1. Pos(q, S)' = Pos(q, S) /\ Known(q)' = Known(q)
    BY DEF Pos, Known
  <2>. QED  BY <2>1 DEF Story, Reader
<1>. QED
  BY <1>2, <1>3, <1>4 DEF Story

LEMMA EmptySlice ==
  ASSUME NEW S, NEW lo \in Nat
  PROVE  Slice(<<>>, S, lo, lo)
BY DEF Slice

LEMMA BeginStep ==
  ASSUME RankTypeOK, NEW S, NEW b, NEW w, NEW T, Story(S, b, w, T), NEW r \in Ranks, Begin(r)
  PROVE  Story(S, b, w, T)'
<1> DEFINE k == Len(ticks[r])
<1>0. /\ 0 \in Ranks /\ Others \subseteq Ranks /\ \A q \in Ranks : q = 0 \/ q \in Others
      /\ 0 \notin Others
  BY RanksType DEF Others
<1>1. /\ at[r] = "top" /\ UNCHANGED <<published, counts, got, left, work, ticks>>
      /\ at' = [at EXCEPT ![r] = IF work[r] = 0 THEN "get" ELSE IF r = 0 THEN "drain" ELSE "count"]
      /\ at'[r] = (IF work[r] = 0 THEN "get" ELSE IF r = 0 THEN "drain" ELSE "count")
  BY DEF Begin, Go, RankTypeOK
<1>2. work[r] = w[k] /\ k \in Nat /\ b[k] \in Nat
  <2>1. k \in Nat /\ b \in [Nat -> Nat]
    BY RankNumbers
  <2>. QED  BY <2>1 DEF Story, Follows
<1>3. CASE r = 0
  <2>1. Begun' = Begun
    BY <1>1, <1>3 DEF Begun
  <2>2. got[0] = <<>> /\ Len(S) = b[k]
    BY <1>1, <1>3 DEF Story, Leads
  <2>3. Slice(<<>>, S, b[k], Len(S)) /\ Len(<<>>) = 0
    BY <1>2, <2>2, EmptySlice
  <2>4. Leads(at'[0], k, <<>>, S, b, w, T)
    BY <1>1, <1>2, <1>3, <2>2, <2>3 DEF Leads, Extra
  <2>5. Leads(at[0], Len(ticks[0]), got[0], S, b, w, T)'
    BY <1>1, <1>3, <2>2, <2>4
  <2>6. Follows(0, w, T)'
    BY <1>0, <1>1, <2>1 DEF Follows, Story
  <2>7. \A q \in Others : at'[q] = at[q]
    BY <1>0, <1>1, <1>3 DEF RankTypeOK
  <2>. QED
    BY <1>1, <2>1, <2>5, <2>6, <2>7, OneLeader
<1>4. CASE r /= 0
  <2>1. r \in Others
    BY <1>0, <1>4
  <2>2. Begun' = Begun /\ Pos(r, S)' = Pos(r, S) /\ Known(r)' = Known(r)
    BY <1>0, <1>1, <1>4 DEF Begun, Pos, Known, RankTypeOK
  <2>3. got[r] = <<>> /\ Pos(r, S) = b[k]
    BY <1>1, <2>1 DEF Story, Reader, Stands
  <2>4. Slice(<<>>, S, b[k], b[k])
    BY <1>2, EmptySlice
  <2>5. Stands(at'[r], k, Pos(r, S), <<>>, left[r], S, b, w, T)
    BY <1>1, <1>2, <1>4, <2>3, <2>4 DEF Stands, Extra
  <2>6. Reader(r, S, b, w, T)'
    BY <1>1, <2>1, <2>2, <2>3, <2>5 DEF Reader, Story
  <2>7. Follows(r, w, T)'
    BY <1>1, <2>2 DEF Follows, Story
  <2>8. \A q \in Ranks \ {r} : at'[q] = at[q]
    BY <1>1 DEF RankTypeOK
  <2>. QED
    BY <1>0, <1>1, <2>1, <2>6, <2>7, <2>8, OneReader
<1>. QED
  BY <1>3, <1>4

LEMMA GetStep ==
  ASSUME RankTypeOK, NEW S, NEW b, NEW w, NEW T, Story(S, b, w, T), NEW r \in Ranks, Get(r)
  PROVE  Story(S, b, w, T)'
<1> DEFINE k == Len(ticks[r])
           p == Pos(r, S)
           s == published[r]
<1>0. r \in Others /\ 0 \notin Others /\ Others \subseteq Ranks
  BY RanksType DEF Get, Others
<1>1. /\ at[r] = "get" /\ s /= <<>> /\ at'[r] = "count" /\ got'[r] = <<Head(s)>>
      /\ published'[r] = Tail(s) /\ UNCHANGED <<counts, left, work, ticks>>
      /\ \A q \in Ranks \ {r} : at'[q] = at[q] /\ got'[q] = got[q]
      /\ \A q \in Others \ {r} : published'[q] = published[q]
  BY <1>0 DEF Get, Go, RankTypeOK
<1>2. k \in Nat /\ S \in Seq(Msgs) /\ Len(S) \in Nat /\ b[k] \in Nat /\ p \in Nat /\ s \in Seq(Msgs)
      /\ Len(s) \in Nat
  <2>1. k \in Nat /\ b \in [Nat -> Nat] /\ S \in Seq(Msgs) /\ Len(S) \in Nat /\ p \in Nat /\ s \in Seq(Msgs)
        /\ Len(s) \in Nat
    BY <1>0, RankNumbers DEF RankTypeOK
  <2>. QED  BY <2>1
<1>3. p = b[k] /\ w[k] = 0 /\ Slice(s, S, p, Len(S))
  BY <1>0, <1>1 DEF Story, Reader, Stands
<1>4. p + 1 <= Len(S) /\ Head(s) = S[p + 1] /\ Slice(Tail(s), S, p + 1, Len(S))
      /\ Len(Tail(s)) = Len(s) - 1
  BY <1>1, <1>2, <1>3, SliceTail, HeadTailProperties
<1>5. Slice(<<Head(s)>>, S, p, p + 1)
  <2>1. Slice(<<>>, S, p, p) /\ <<>> \in Seq(Msgs)
    BY <1>2, EmptySlice
  <2>2. Head(s) \in Msgs
    BY <1>1, <1>2, HeadTailProperties
  <2>3. Slice(Append(<<>>, Head(s)), S, p, p + 1)
    BY <1>2, <1>4, <2>1, <2>2, SliceAppend
  <2>. QED  BY <2>2, <2>3
<1>6. Pos(r, S)' = p + 1
  <2> DEFINE l == Len(s)
  <2>1. Len(published'[r]) = l - 1 /\ p = Len(S) - l /\ l \in Nat
    BY <1>1, <1>2, <1>4 DEF Pos
  <2>2. Pos(r, S)' = Len(S) - Len(published'[r])
    BY DEF Pos
  <2> HIDE DEF l, p
  <2>. QED  BY <1>2, <2>1, <2>2
<1>7. Begun' = Begun /\ Known(r)' = Known(r)
  BY <1>0, <1>1, RanksType DEF Begun, Known
<1>8. Stands("count", k, p + 1, <<Head(s)>>, left[r], S, b, w, T)
  BY <1>3, <1>5 DEF Stands, Extra
<1>9. RankKept(counts[r], Known(r), Begun, b, w)
  BY <1>0 DEF Story, Reader
<1> HIDE DEF p, s
<1>10. Reader(r, S, b, w, T)'
  BY <1>1, <1>2, <1>4, <1>6, <1>7, <1>8, <1>9 DEF Reader
<1>11. Follows(r, w, T)'
  BY <1>0, <1>1, <1>7 DEF Follows, Story
<1>. QED
  BY <1>0, <1>1, <1>10, <1>11, OneReader DEF p, s

LEMMA CountStep ==
  ASSUME RankTypeOK, NEW S, NEW b, NEW w, NEW T, Story(S, b, w, T), NEW r \in Ranks, ReadCount(r)
  PROVE  Story(S, b, w, T)'
<1> DEFINE k == Len(ticks[r])
           p == Pos(r, S)
           cs == counts[r]
<1>0. r \in Others /\ 0 \notin Others /\ Others \subseteq Ranks
  BY RanksType DEF ReadCount, Others, RankTypeOK, LeaderPlaces
<1>1. /\ at[r] = "count" /\ cs /= <<>> /\ at'[r] = "rest" /\ left'[r] = Head(cs)
      /\ counts'[r] = Tail(cs) /\ UNCHANGED <<published, got, work, ticks>>
      /\ \A q \in Ranks \ {r} : at'[q] = at[q] /\ left'[q] = left[q]
      /\ \A q \in Others \ {r} : counts'[q] = counts[q]
  BY <1>0 DEF ReadCount, Go, RankTypeOK
<1>2. /\ k \in Nat /\ S \in Seq(Msgs) /\ b \in [Nat -> Nat] /\ p \in Nat /\ cs \in Seq(Nat)
      /\ Begun \in Nat
  BY <1>0, RankNumbers DEF RankTypeOK
<1>3. b[k] \in Nat /\ b[k + 1] \in Nat /\ Extra(k, w) \in Nat
  <2>1. k \in Nat /\ b \in [Nat -> Nat]
    BY <1>2
  <2> HIDE DEF k
  <2>. QED  BY ONLY <2>1 DEF Extra
<1>4. p = b[k] + Extra(k, w) /\ Slice(got[r], S, b[k], p)
  BY <1>0, <1>1 DEF Story, Reader, Stands
<1>5. Known(r) = k /\ Known(r)' = k + 1 /\ Begun' = Begun
  <2>1. at[r] = "count" /\ at'[r] = "rest" /\ ticks' = ticks /\ k \in Nat
    BY <1>1, <1>2
  <2>2. Known(r) = k + 0
    BY <2>1 DEF Known
  <2>3. Known(r)' = k + 1
    BY <2>1 DEF Known
  <2>4. Begun' = Begun
    BY <1>0, <1>1, RanksType DEF Begun
  <2> HIDE DEF k
  <2>. QED  BY <2>1, <2>2, <2>3, <2>4
<1>6. RankKept(cs, k, Begun, b, w)
  BY <1>0, <1>5 DEF Story, Reader
<1>7. Head(cs) = b[k + 1] - b[k] - Extra(k, w) /\ RankKept(Tail(cs), k + 1, Begun, b, w)
  <2>1. k \in Nat /\ Begun \in Nat /\ cs \in Seq(Nat) /\ cs /= <<>> /\ RankKept(cs, k, Begun, b, w)
    BY <1>1, <1>2, <1>6
  <2> HIDE DEF k, cs
  <2>. QED  BY ONLY <2>1, KeptTail
<1>8. p + Head(cs) = b[k + 1]
  BY <1>3, <1>4, <1>7
<1>9. Stands("rest", k, p, got[r], Head(cs), S, b, w, T)
  BY <1>4, <1>8 DEF Stands
<1>10. Pos(r, S)' = p /\ p \in Nat /\ Slice(published[r], S, p, Len(S))
  BY <1>0, <1>1, <1>2 DEF Pos, Story, Reader
<1> HIDE DEF p, cs
<1>11. Reader(r, S, b, w, T)'
  BY <1>1, <1>5, <1>7, <1>9, <1>10 DEF Reader
<1>12. Follows(r, w, T)'
  BY <1>0, <1>1, <1>5 DEF Follows, Story
<1>. QED
  BY <1>0, <1>1, <1>11, <1>12, OneReader DEF p, cs

LEMMA RestStep ==
  ASSUME RankTypeOK, NEW S, NEW b, NEW w, NEW T, Story(S, b, w, T), NEW r \in Ranks, Rest(r)
  PROVE  Story(S, b, w, T)'
<1> DEFINE k == Len(ticks[r])
           p == Pos(r, S)
           s == published[r]
<1>0. r \in Others /\ 0 \notin Others /\ Others \subseteq Ranks
  BY RanksType DEF Rest, Others, RankTypeOK, LeaderPlaces
<1>1. at[r] = "rest" /\ UNCHANGED <<counts, work, ticks>>
  BY DEF Rest
<1>2. k \in Nat /\ S \in Seq(Msgs) /\ Len(S) \in Nat /\ b \in [Nat -> Nat] /\ T \in [Nat -> Seq(Msgs)]
      /\ p \in Nat /\ s \in Seq(Msgs) /\ Len(s) \in Nat /\ got[r] \in Seq(Msgs) /\ left[r] \in Nat
      /\ Begun \in Nat
  BY <1>0, RankNumbers DEF RankTypeOK
<1>3. b[k] \in Nat /\ b[k + 1] \in Nat /\ T[k + 1] \in Seq(Msgs)
  <2>1. k \in Nat /\ b \in [Nat -> Nat] /\ T \in [Nat -> Seq(Msgs)]
    BY <1>2
  <2> HIDE DEF k
  <2>. QED  BY ONLY <2>1
<1>4. p + left[r] = b[k + 1] /\ Slice(got[r], S, b[k], p) /\ Slice(s, S, p, Len(S))
  BY <1>0, <1>1 DEF Story, Reader, Stands
<1>5. Known(r) = k + 1 /\ k + 1 <= Begun /\ RankKept(counts[r], k + 1, Begun, b, w)
  BY <1>0, <1>1, <1>2 DEF Known, Story, Reader, RankKept
<1>6. CASE left[r] = 0
  <2>1. /\ at'[r] = "run" /\ UNCHANGED <<published, got, left>>
        /\ \A q \in Ranks \ {r} : at'[q] = at[q]
    BY <1>0, <1>6 DEF Rest, Go, RankTypeOK
  <2>2. Known(r)' = k + 1 /\ Begun' = Begun /\ Pos(r, S)' = p
    BY <1>0, <1>1, <1>2, <2>1, RanksType DEF Begun, Known, Pos
  <2>3. p = b[k + 1] /\ Slice(got[r], S, b[k], b[k + 1])
    <3> HIDE DEF k, p, s
    <3>. QED  BY <1>2, <1>3, <1>4, <1>6
  <2>4. Slice(T[k + 1], S, b[k], b[k + 1])
    <3>1. k \in 0 .. Begun - 1
      <4> HIDE DEF k, p, s
      <4>. QED  BY <1>2, <1>5
    <3>. QED  BY <3>1 DEF Story, History
  <2>5. got[r] = T[k + 1]
    <3> DEFINE g == got[r]
               t == T[k + 1]
               lo == b[k]
               hi == b[k + 1]
    <3>1. /\ g \in Seq(Msgs) /\ t \in Seq(Msgs) /\ lo \in Int /\ hi \in Int
          /\ Slice(g, S, lo, hi) /\ Slice(t, S, lo, hi)
      <4>1. g \in Seq(Msgs) /\ t \in Seq(Msgs)
        BY <1>2, <1>3
      <4>2. lo \in Int /\ hi \in Int
        <5>1. lo \in Nat /\ hi \in Nat
          BY <1>3
        <5> HIDE DEF lo, hi
        <5>. QED  BY ONLY <5>1
      <4>. QED  BY <2>3, <2>4, <4>1, <4>2
    <3> HIDE DEF g, t, lo, hi
    <3>2. g = t
      BY ONLY <3>1, SliceUnique
    <3>. QED  BY <3>2 DEF g, t
  <2>6. Stands("run", k, p, got[r], left[r], S, b, w, T)
    BY <2>3, <2>5 DEF Stands
  <2> HIDE DEF p, s
  <2>7. Reader(r, S, b, w, T)'
    BY <1>1, <1>2, <1>4, <1>5, <2>1, <2>2, <2>6 DEF Reader, s
  <2>8. Follows(r, w, T)'
    BY <1>0, <1>1, <2>2 DEF Follows, Story
  <2>. QED
    BY <1>0, <1>1, <2>1, <2>7, <2>8, OneReader
<1>7. CASE left[r] /= 0
  <2>1. /\ s /= <<>> /\ got'[r] = Append(got[r], Head(s)) /\ published'[r] = Tail(s)
        /\ left'[r] = left[r] - 1 /\ UNCHANGED at
        /\ \A q \in Ranks \ {r} : got'[q] = got[q] /\ left'[q] = left[q]
        /\ \A q \in Others \ {r} : published'[q] = published[q]
    BY <1>0, <1>7 DEF Rest, RankTypeOK
  <2>2. p + 1 <= Len(S) /\ Head(s) = S[p + 1] /\ Slice(Tail(s), S, p + 1, Len(S))
        /\ Len(Tail(s)) = Len(s) - 1 /\ Head(s) \in Msgs
    <3>1. /\ S \in Seq(Msgs) /\ s \in Seq(Msgs) /\ s /= <<>> /\ p \in Nat /\ Len(S) \in Nat
          /\ Slice(s, S, p, Len(S))
      BY <1>2, <1>4, <2>1
    <3> HIDE DEF k, p, s
    <3>2. p + 1 <= Len(S) /\ Head(s) = S[p + 1] /\ Slice(Tail(s), S, p + 1, Len(S))
      BY ONLY <3>1, SliceTail
    <3>3. Len(Tail(s)) = Len(s) - 1 /\ Head(s) \in Msgs
      BY ONLY <3>1, HeadTailProperties
    <3>. QED  BY ONLY <3>2, <3>3
  <2>3. Slice(Append(got[r], Head(s)), S, b[k], p + 1)
    BY <1>2, <1>3, <1>4, <2>2, SliceAppend
  <2>4. Known(r)' = k + 1 /\ Begun' = Begun /\ Pos(r, S)' = p + 1
    <3>1. Known(r)' = Known(r) /\ Begun' = Begun
      BY <1>1, <2>1 DEF Begun, Known
    <3>2. Pos(r, S)' = Len(S) - Len(Tail(s)) /\ p = Len(S) - Len(s)
      BY <2>1 DEF Pos
    <3>3. Len(S) \in Nat /\ Len(s) \in Nat /\ Len(Tail(s)) = Len(s) - 1
      BY <1>2, <2>2
    <3> HIDE DEF k, p, s
    <3>4. Len(S) - Len(Tail(s)) = (Len(S) - Len(s)) + 1
      <4> DEFINE x == Len(S)
                 y == Len(s)
                 z == Len(Tail(s))
      <4>1. x \in Nat /\ y \in Nat /\ z = y - 1
        BY ONLY <3>3
      <4> HIDE DEF x, y, z
      <4>2. x - z = (x - y) + 1
        BY ONLY <4>1
      <4>. QED  BY ONLY <4>2 DEF x, y, z
    <3>. QED  BY ONLY <1>5, <3>1, <3>2, <3>4
  <2>5. (p + 1) + (left[r] - 1) = b[k + 1]
    <3> DEFINE l == left[r]
    <3>1. p \in Nat /\ l \in Nat /\ p + l = b[k + 1]
      BY <1>2, <1>4
    <3> HIDE DEF k, p, l
    <3>2. (p + 1) + (l - 1) = p + l
      BY ONLY <3>1
    <3>. QED  BY <3>1, <3>2 DEF l
  <2>6. Stands("rest", k, p + 1, Append(got[r], Head(s)), left[r] - 1, S, b, w, T)
    BY <2>3, <2>5 DEF Stands
  <2>7. Reader(r, S, b, w, T)'
    <3>1. p + 1 \in Nat
      <4> HIDE DEF p
      <4>. QED  BY <1>2
    <3> HIDE DEF p, s
    <3>. QED  BY <1>1, <1>5, <2>1, <2>2, <2>4, <2>6, <3>1 DEF Reader
  <2>8. Follows(r, w, T)'
    BY <1>0, <1>1, <2>4 DEF Follows, Story
  <2>. QED
    BY <1>0, <1>1, <2>1, <2>7, <2>8, OneReader
<1>. QED
  BY <1>6, <1>7

(* The tick that ends is the next of T, for rank 0 as for the others. *)
LEMMA RunStep ==
  ASSUME RankTypeOK, NEW S, NEW b, NEW w, NEW T, Story(S, b, w, T), NEW r \in Ranks, Run(r)
  PROVE  Story(S, b, w, T)'
<1> DEFINE k == Len(ticks[r])
           next == IF Exit \in Range(got[r]) THEN "barrier" ELSE "top"
<1>0. /\ 0 \in Ranks /\ Others \subseteq Ranks /\ 0 \notin Others
      /\ \A q \in Ranks : q = 0 \/ q \in Others
  BY RanksType DEF Others
<1>1. /\ at[r] = "run" /\ at'[r] = next /\ ticks'[r] = Append(ticks[r], got[r]) /\ got'[r] = <<>>
      /\ work'[r] = After(work[r], got[r]) /\ UNCHANGED <<published, counts, left>>
      /\ \A q \in Ranks \ {r} : at'[q] = at[q] /\ got'[q] = got[q] /\ work'[q] = work[q]
                                  /\ ticks'[q] = ticks[q]
  BY DEF Run, Go, RankTypeOK, WorkAfter, After
<1>2. next \in {"top", "barrier"}
  OBVIOUS
<1>3. k \in Nat /\ ticks[r] \in Seq(Seq(Msgs)) /\ got[r] \in Seq(Msgs) /\ Begun \in Nat
  BY RankNumbers DEF RankTypeOK
<1>4. /\ Len(ticks'[r]) = k + 1 /\ ticks'[r][k + 1] = got[r]
      /\ \A i \in 1 .. k : ticks'[r][i] = ticks[r][i]
  BY <1>1, <1>3, AppendProperties
<1>5. k + 1 <= Begun
  <2>1. CASE r = 0
    <3>1. Begun = k + 1
      BY <1>1, <2>1 DEF Begun
    <3> HIDE DEF k
    <3>. QED  BY <1>3, <3>1
  <2>2. CASE r /= 0
    <3>1. Known(r) = k + 1 /\ r \in Others
      BY <1>0, <1>1, <2>2 DEF Known
    <3>. QED  BY <3>1, RankNumbers
  <2>. QED  BY <2>1, <2>2
<1>6. got[r] = T[k + 1]
  <2>1. CASE r = 0
    BY <1>1, <2>1 DEF Story, Leads
  <2>2. CASE r /= 0
    BY <1>0, <1>1, <2>2 DEF Story, Reader, Stands
  <2>. QED  BY <2>1, <2>2
<1>7. work'[r] = w[k + 1]
  <2>1. k \in 0 .. Begun - 1
    <3> HIDE DEF k
    <3>. QED  BY <1>3, <1>5
  <2>2. w[k + 1] = After(w[k], T[k + 1])
    BY <2>1 DEF Story, History
  <2>3. work[r] = w[k]
    BY DEF Story, Follows
  <2>. QED  BY <1>1, <1>6, <2>2, <2>3
<1>8. Begun' = Begun
  <2>1. CASE r = 0
    <3>1. Begun = k + 1 /\ Begun' = (k + 1) + 0
      BY <1>1, <1>2, <1>4, <2>1 DEF Begun
    <3> HIDE DEF k
    <3>. QED  BY <1>3, <3>1
  <2>2. CASE r /= 0
    BY <1>0, <1>1, <2>2 DEF Begun
  <2>. QED  BY <2>1, <2>2
<1>9. Follows(r, w, T)'
  <2>1. ASSUME NEW i \in 1 .. k + 1 PROVE ticks'[r][i] = T[i]
    <3>1. CASE i = k + 1
      BY <1>4, <1>6, <3>1
    <3>2. CASE i /= k + 1
      <4>1. i \in 1 .. k
        <5> HIDE DEF k
        <5>. QED  BY <1>3, <3>2
      <4>. QED  BY <1>4, <4>1 DEF Story, Follows
    <3>. QED  BY <3>1, <3>2
  <2>. QED  BY <1>4, <1>5, <1>7, <1>8, <2>1 DEF Follows
<1>10. CASE r = 0
  <2>1. Len(S) = b[k + 1]
    BY <1>1, <1>10 DEF Story, Leads
  <2>2. Leads(next, k + 1, <<>>, S, b, w, T)
    BY <1>2, <2>1 DEF Leads
  <2>3. Leads(at[0], Len(ticks[0]), got[0], S, b, w, T)'
    BY <1>1, <1>4, <1>10, <2>2
  <2>. QED
    BY <1>0, <1>1, <1>8, <1>9, <1>10, <2>3, OneLeader
<1>11. CASE r /= 0
  <2>1. r \in Others
    BY <1>0, <1>11
  <2>2. Pos(r, S)' = Pos(r, S) /\ Pos(r, S) \in Nat /\ Pos(r, S) = b[k + 1]
    BY <1>1, <2>1 DEF Pos, Story, Reader, Stands
  <2>3. Stands(next, k + 1, Pos(r, S), <<>>, left[r], S, b, w, T)
    BY <1>2, <2>2 DEF Stands
  <2>4. Known(r) = k + 1 /\ Known(r)' = k + 1
    <3>1. Known(r) = k + 1 /\ Known(r)' = (k + 1) + 0
      BY <1>1, <1>2, <1>4 DEF Known
    <3> HIDE DEF k
    <3>. QED  BY <1>3, <3>1
  <2>5. Reader(r, S, b, w, T)'
    BY <1>1, <1>4, <1>8, <2>1, <2>2, <2>3, <2>4 DEF Reader, Story
  <2>. QED
    BY <1>0, <1>1, <1>9, <2>1, <2>5, OneReader
<1>. QED
  BY <1>10, <1>11

Beyond(S, s) == Len(S) - Len(s)

(* What is published keeps the next of a reader. *)
LEMMA PosJoin ==
  ASSUME NEW S \in Seq(Msgs), NEW m \in Seq(Msgs), NEW S2, Longer(S, m, S2), NEW s \in Seq(Msgs)
  PROVE  Beyond(S2, s \o m) = Beyond(S, s)
<1> DEFINE x == Len(S)
           y == Len(s)
           z == Len(m)
<1>1. Len(S2) = x + z
  BY DEF Longer
<1>2. Len(s \o m) = y + z
  BY JoinLonger DEF Longer
<1>3. x \in Nat /\ y \in Nat /\ z \in Nat
  BY LenProperties
<1> HIDE DEF x, y, z
<1>4. Len(S2) - Len(s \o m) = x - y
  BY <1>1, <1>2, <1>3
<1>. QED
  BY <1>4 DEF x, y, Beyond

(* The blocking get publishes the first message of a tick. *)
LEMMA Get0Step ==
  ASSUME RankTypeOK, NEW S, NEW b, NEW w, NEW T, Story(S, b, w, T), Get0
  PROVE  RankInv'
<1> DEFINE k == Len(ticks[0])
<1>0. /\ 0 \in Ranks /\ Others \subseteq Ranks /\ 0 \notin Others
      /\ \A q \in Ranks : q = 0 \/ q \in Others
  BY RanksType DEF Others
<1>1. Head(inbox) \in Msgs
  BY HeadTailProperties DEF Get0, RankTypeOK
<1>2. PICK m : m = <<Head(inbox)>>
  OBVIOUS
<1>3. m \in Seq(Msgs) /\ Len(m) = 1
  BY <1>1, <1>2
<1>4. PICK S2 : S2 = S \o m
  OBVIOUS
<1>5. S2 \in Seq(Msgs) /\ Longer(S, m, S2)
  BY <1>3, <1>4, JoinLonger, RankNumbers
<1>6. /\ at[0] = "get" /\ at'[0] = "drain" /\ got'[0] = m /\ UNCHANGED <<counts, left, work, ticks>>
      /\ \A q \in Others : at'[q] = at[q] /\ got'[q] = got[q]
                             /\ published'[q] = published[q] \o m
  BY <1>0, <1>2 DEF Get0, Go, Publish, RankTypeOK
<1>7. Begun' = Begun /\ Begun \in Nat /\ k \in Nat /\ b \in [Nat -> Nat] /\ b[k] \in Nat
      /\ S \in Seq(Msgs) /\ Len(S) \in Nat
  <2>1. Begun \in Nat /\ k \in Nat /\ b \in [Nat -> Nat] /\ S \in Seq(Msgs) /\ Len(S) \in Nat
    BY <1>0, RankNumbers
  <2>. QED  BY <1>6, <2>1 DEF Begun
<1>8. History(Begun, S2, b, w, T)'
  BY <1>3, <1>5, <1>7, HistoryLonger DEF Story
<1>9. Leads("drain", k, m, S2, b, w, T)
  <2>1. Len(S) = b[k] /\ w[k] = 0
    BY <1>6 DEF Story, Leads
  <2>2. Slice(<<>>, S, b[k], Len(S)) /\ <<>> \in Seq(Msgs)
    BY <1>7, <2>1, EmptySlice
  <2>3. Slice(<<>> \o m, S2, b[k], Len(S2))
    BY <1>3, <1>5, <1>7, <2>2, SliceJoin
  <2>4. <<>> \o m = m
    BY <1>3, ConcatEmptySeq
  <2>. QED  BY <1>3, <2>1, <2>3, <2>4 DEF Leads, Extra
<1>10. ASSUME NEW q \in Others PROVE Reader(q, S2, b, w, T)'
  <2>1. /\ published[q] \in Seq(Msgs) /\ Pos(q, S) \in Nat /\ Pos(q, S) <= Len(S)
        /\ Len(published[q]) \in Nat /\ Len(ticks[q]) \in Nat
    BY <1>0, RankNumbers DEF RankTypeOK
  <2>2. Slice(published[q] \o m, S2, Pos(q, S), Len(S2))
    BY <1>3, <1>5, <1>7, <2>1, SliceJoin DEF Story, Reader
  <2>3. Pos(q, S2)' = Pos(q, S)
    <3>1. Beyond(S2, published[q] \o m) = Beyond(S, published[q])
      <4> DEFINE s == published[q]
      <4>1. S \in Seq(Msgs) /\ m \in Seq(Msgs) /\ Longer(S, m, S2) /\ s \in Seq(Msgs)
        BY <1>3, <1>5, <1>7, <2>1
      <4> HIDE DEF s
      <4>2. Beyond(S2, s \o m) = Beyond(S, s)
        BY ONLY <4>1, PosJoin
      <4>. QED  BY ONLY <4>2 DEF s
    <3>. QED  BY <1>6, <3>1 DEF Pos, Beyond
  <2>4. Known(q)' = Known(q)
    BY <1>6 DEF Known
  <2>5. Stands(at[q], Len(ticks[q]), Pos(q, S), got[q], left[q], S2, b, w, T)
    BY <1>3, <1>5, <1>7, <2>1, StandsLonger DEF Story, Reader
  <2>. QED
    BY <1>6, <1>7, <2>1, <2>2, <2>3, <2>4, <2>5 DEF Reader, Story
<1>11. \A q \in Ranks : Follows(q, w, T)'
  BY <1>6, <1>7 DEF Story, Follows
<1>12. Story(S2, b, w, T)'
  BY <1>6, <1>8, <1>9, <1>10, <1>11 DEF Story
<1>. QED
  BY <1>12 DEF RankInv

(* The end of the drain closes a tick: the broadcast counts what the others  *)
(* have still to read of it, its blocking get excepted.                      *)
LEMMA Rest0Step ==
  ASSUME RankTypeOK, NEW S, NEW b, NEW w, NEW T, Story(S, b, w, T), Rest0
  PROVE  RankInv'
<1> DEFINE k == Len(ticks[0])
<1>0. /\ 0 \in Ranks /\ Others \subseteq Ranks /\ 0 \notin Others
      /\ \A q \in Ranks : q = 0 \/ q \in Others
  BY RanksType DEF Others
<1>1. PICK m : m = raws
  OBVIOUS
<1>2. PICK g : g = got[0] \o m
  OBVIOUS
<1>3. m \in Seq(Msgs) /\ Len(m) \in Nat /\ g \in Seq(Msgs) /\ got[0] \in Seq(Msgs)
  <2>1. m \in Seq(Msgs) /\ got[0] \in Seq(Msgs)
    BY <1>0, <1>1 DEF RankTypeOK
  <2>. QED  BY <1>2, <2>1, LenProperties, JoinLonger
<1>4. PICK S2 : S2 = S \o m
  OBVIOUS
<1>5. S2 \in Seq(Msgs) /\ Len(S2) \in Nat /\ Longer(S, m, S2)
  BY <1>3, <1>4, JoinLonger, RankNumbers, LenProperties
<1>6. /\ at[0] = "drain" /\ at'[0] = "run" /\ got'[0] = g /\ UNCHANGED <<left, work, ticks>>
      /\ \A q \in Others : /\ at'[q] = at[q] /\ got'[q] = got[q]
                           /\ published'[q] = published[q] \o m
                           /\ counts'[q] = Append(counts[q], Len(m))
  BY <1>0, <1>1, <1>2 DEF Rest0, Go, Publish, Broadcast, RankTypeOK
<1>7. /\ k \in Nat /\ b \in [Nat -> Nat] /\ T \in [Nat -> Seq(Msgs)] /\ DOMAIN w = Nat
      /\ S \in Seq(Msgs) /\ Len(S) \in Nat
  BY <1>0, RankNumbers
<1>8. PICK n : n = k
  OBVIOUS
<1>9. n \in Nat /\ n + 1 \in Nat /\ n + 1 /= n /\ Begun = n /\ Begun' = n + 1 /\ b[n] \in Nat
  <2>1. n \in Nat
    BY <1>7, <1>8
  <2>2. Begun = n + 0 /\ Begun' = n + 1
    BY <1>6, <1>8 DEF Begun
  <2>3. b[n] \in Nat
    BY <1>7, <2>1
  <2>. QED  BY ONLY <2>1, <2>2, <2>3
<1>10. PICK b2 : b2 = [i \in Nat |-> IF i = n + 1 THEN Len(S2) ELSE b[i]]
  OBVIOUS
<1>11. PICK T2 : T2 = [i \in Nat |-> IF i = n + 1 THEN g ELSE T[i]]
  OBVIOUS
<1>12. PICK w2 : w2 = [i \in Nat |-> IF i = n + 1 THEN After(w[n], g) ELSE w[i]]
  OBVIOUS
<1>13. Agree(n, b, w, T, b2, w2, T2)
  BY <1>9, <1>10, <1>11, <1>12 DEF Agree
<1>14. /\ b2[n + 1] = Len(S2) /\ T2[n + 1] = g /\ w2[n + 1] = After(w[n], g)
       /\ b2[n] = b[n] /\ w2[n] = w[n] /\ Extra(n, w2) = Extra(n, w)
       /\ \A i \in Nat : i /= n + 1 => b2[i] = b[i] /\ T2[i] = T[i] /\ w2[i] = w[i]
  BY <1>9, <1>10, <1>11, <1>12 DEF Extra
<1>15. /\ b2 \in [Nat -> Nat] /\ T2 \in [Nat -> Seq(Msgs)] /\ DOMAIN w2 = Nat
       /\ Extra(n, w) \in Nat
  BY <1>3, <1>5, <1>7, <1>10, <1>11, <1>12 DEF Extra
<1>16. Len(got[0]) = Extra(n, w) /\ Slice(got[0], S, b[n], Len(S))
  BY <1>6, <1>8 DEF Story, Leads
<1>17. Slice(g, S2, b[n], Len(S2))
  BY <1>2, <1>3, <1>5, <1>7, <1>9, <1>16, SliceJoin
<1>18. b[n] + Extra(n, w) = Len(S) /\ Len(S2) = Len(S) + Len(m)
  <2> DEFINE e == Extra(n, w)
             x == Len(S)
             c == b[n]
  <2>1. e = x - c /\ x \in Nat /\ c \in Nat
    BY <1>7, <1>9, <1>16 DEF Slice
  <2> HIDE DEF e, x, c
  <2>2. c + e = x
    BY ONLY <2>1
  <2>. QED  BY <1>5, <2>2 DEF e, x, c, Longer
<1>19. Len(m) = b2[n + 1] - b2[n] - Extra(n, w2)
  <2> DEFINE e == Extra(n, w)
             x == Len(S)
             c == b[n]
             z == Len(m)
  <2>1. c + e = x /\ Len(S2) = x + z /\ e \in Nat /\ x \in Nat /\ c \in Nat /\ z \in Nat
    BY <1>3, <1>7, <1>9, <1>15, <1>18
  <2> HIDE DEF e, x, c, z
  <2>2. z = (x + z) - c - e
    BY ONLY <2>1
  <2>. QED  BY <1>14, <2>1, <2>2 DEF e, c, z
<1>20. History(n, S2, b, w, T)
  BY <1>3, <1>5, <1>9, HistoryLonger DEF Story
<1>21. History(n + 1, S2, b2, w2, T2)
  <2>1. b2[0] = 0 /\ w2[0] = 0
    <3>1. 0 /= n + 1 /\ b[0] = 0 /\ w[0] = 0
      BY <1>9, <1>20 DEF History
    <3>. QED  BY <1>14, <3>1
  <2>2. ASSUME NEW i \in 0 .. n + 1 PROVE b2[i] <= Len(S2)
    <3>1. CASE i = n + 1
      BY <1>5, <1>14, <3>1
    <3>2. CASE i /= n + 1
      <4>1. i \in 0 .. n
        BY <1>9, <3>2
      <4>2. b[i] <= Len(S2)
        BY <1>20, <4>1 DEF History
      <4>3. b2[i] = b[i]
        BY <1>14, <3>2, <4>1
      <4>. QED  BY <4>2, <4>3
    <3>. QED  BY <3>1, <3>2
  <2>3. ASSUME NEW i \in 0 .. (n + 1) - 1
        PROVE  /\ b2[i] + Extra(i, w2) <= b2[i + 1] /\ Slice(T2[i + 1], S2, b2[i], b2[i + 1])
               /\ w2[i + 1] = After(w2[i], T2[i + 1])
    <3>1. CASE i = n
      <4>1. b[n] + Extra(n, w) <= Len(S2)
        <5> DEFINE x == Len(S)
                   z == Len(m)
        <5>1. Len(S2) = x + z /\ b[n] + Extra(n, w) = x /\ x \in Nat /\ z \in Nat
          BY <1>3, <1>7, <1>18
        <5> HIDE DEF x, z
        <5>. QED  BY ONLY <5>1
      <4>. QED  BY <1>14, <1>17, <3>1, <4>1
    <3>2. CASE i /= n
      <4>1. i \in 0 .. n - 1 /\ i \in Nat /\ i + 1 \in Nat /\ i /= n + 1 /\ i + 1 /= n + 1
        BY <1>9, <3>2
      <4>2. /\ b[i] + Extra(i, w) <= b[i + 1] /\ Slice(T[i + 1], S2, b[i], b[i + 1])
            /\ w[i + 1] = After(w[i], T[i + 1])
        BY <1>20, <4>1 DEF History
      <4>3. b2[i] = b[i] /\ w2[i] = w[i] /\ b2[i + 1] = b[i + 1] /\ w2[i + 1] = w[i + 1]
            /\ T2[i + 1] = T[i + 1] /\ Extra(i, w2) = Extra(i, w)
        BY <1>14, <4>1 DEF Extra
      <4>. QED  BY <4>2, <4>3
    <3>. QED  BY <3>1, <3>2
  <2>. QED  BY <1>5, <1>15, <2>1, <2>2, <2>3 DEF History
<1>22. Leads("run", n, g, S2, b2, w2, T2)
  BY <1>14 DEF Leads
<1>23. ASSUME NEW q \in Others PROVE Reader(q, S2, b2, w2, T2)'
  <2>1. /\ published[q] \in Seq(Msgs) /\ Pos(q, S) \in Nat /\ Pos(q, S) <= Len(S)
        /\ Len(ticks[q]) \in Nat /\ Known(q) \in Nat /\ Known(q) <= n /\ Len(ticks[q]) <= n
        /\ counts[q] \in Seq(Nat)
    BY <1>0, <1>9, RankNumbers DEF RankTypeOK
  <2>2. Slice(published[q] \o m, S2, Pos(q, S), Len(S2))
    BY <1>3, <1>5, <1>7, <2>1, SliceJoin DEF Story, Reader
  <2>3. Pos(q, S2)' = Pos(q, S)
    <3>1. Beyond(S2, published[q] \o m) = Beyond(S, published[q])
      <4> DEFINE s == published[q]
      <4>1. S \in Seq(Msgs) /\ m \in Seq(Msgs) /\ Longer(S, m, S2) /\ s \in Seq(Msgs)
        BY <1>3, <1>5, <1>7, <2>1
      <4> HIDE DEF s
      <4>2. Beyond(S2, s \o m) = Beyond(S, s)
        BY ONLY <4>1, PosJoin
      <4>. QED  BY ONLY <4>2 DEF s
    <3>. QED  BY <1>6, <3>1 DEF Pos, Beyond
  <2>4. Known(q)' = Known(q)
    BY <1>6 DEF Known
  <2>5. Stands(at[q], Len(ticks[q]), Pos(q, S), got[q], left[q], S2, b, w, T)
    BY <1>3, <1>5, <1>7, <2>1, StandsLonger DEF Story, Reader
  <2>6. at[q] \in {"rest", "run"} => Len(ticks[q]) + 1 <= n
    BY <2>1 DEF Known
  <2>7. Stands(at[q], Len(ticks[q]), Pos(q, S), got[q], left[q], S2, b2, w2, T2)
    BY <1>9, <1>13, <2>1, <2>5, <2>6, StandsAgree
  <2>8. RankKept(Append(counts[q], Len(m)), Known(q), n + 1, b2, w2)
    <3>1. RankKept(counts[q], Known(q), n, b, w)
      BY <1>9 DEF Story, Reader
    <3>. QED  BY <1>3, <1>9, <1>13, <1>19, <2>1, <3>1, KeptAppend
  <2>. QED
    BY <1>6, <1>9, <2>1, <2>2, <2>3, <2>4, <2>7, <2>8 DEF Reader
<1>24. ASSUME NEW q \in Ranks PROVE Follows(q, w2, T2)'
  <2>1. Len(ticks[q]) \in Nat /\ Len(ticks[q]) <= n
    BY <1>9, RankNumbers
  <2>2. PICK l : l = Len(ticks[q])
    OBVIOUS
  <2>3. l <= n + 1 /\ l \in Nat /\ l /= n + 1
    BY <1>9, <2>1, <2>2
  <2>4. ASSUME NEW i \in 1 .. l PROVE ticks[q][i] = T2[i]
    <3>1. i \in Nat /\ i /= n + 1
      BY <1>9, <2>1, <2>2
    <3>. QED  BY <1>14, <2>2, <3>1 DEF Story, Follows
  <2>5. work[q] = w2[l]
    BY <1>14, <2>2, <2>3 DEF Story, Follows
  <2>. QED  BY <1>6, <1>9, <2>2, <2>3, <2>4, <2>5 DEF Follows
<1>25. Story(S2, b2, w2, T2)'
  BY <1>6, <1>8, <1>9, <1>21, <1>22, <1>23, <1>24 DEF Story
<1>. QED
  BY <1>25 DEF RankInv

LEMMA RankInvCorrect == RankSpec => []RankInv
<1>1. RankInit => RankInv
  <2> SUFFICES ASSUME RankInit PROVE RankInv
    OBVIOUS
  <2> DEFINE T == [i \in Nat |-> <<>>]
             b == [i \in Nat |-> 0]
  <2>0. 0 \in Ranks /\ Others \subseteq Ranks
    BY RanksType
  <2>1. /\ at = [r \in Ranks |-> "top"] /\ ticks = [r \in Ranks |-> <<>>] /\ Len(<<>>) = 0
        /\ work = [r \in Ranks |-> 0] /\ got = [r \in Ranks |-> <<>>]
        /\ published = [r \in Others |-> <<>>] /\ counts = [r \in Others |-> <<>>]
    BY DEF RankInit
  <2>2. Begun = 0
    BY <2>0, <2>1 DEF Begun
  <2>3. History(0, <<>>, b, b, T)
    BY DEF History
  <2>4. \A r \in Ranks : Follows(r, b, T)
    BY <2>1, <2>2 DEF Follows
  <2>5. Leads("top", 0, <<>>, <<>>, b, b, T)
    BY DEF Leads
  <2>6. Stands("top", 0, 0, <<>>, 0, <<>>, b, b, T) /\ RankKept(<<>>, 0, 0, b, b)
        /\ Slice(<<>>, <<>>, 0, 0)
    BY DEF Stands, RankKept, Slice
  <2>7. ASSUME NEW r \in Others PROVE Reader(r, <<>>, b, b, T)
    <3>1. Pos(r, <<>>) = 0 /\ Known(r) = 0
      BY <2>0, <2>1 DEF Pos, Known
    <3>2. Stands("top", 0, 0, <<>>, left[r], <<>>, b, b, T)
      BY DEF Stands
    <3>. QED  BY <2>0, <2>1, <2>2, <2>6, <3>1, <3>2 DEF Reader
  <2>8. Story(<<>>, b, b, T)
    BY <2>0, <2>1, <2>2, <2>3, <2>4, <2>5, <2>7 DEF Story
  <2>. QED  BY <2>8 DEF RankInv
<1>2. RankTypeOK /\ RankInv /\ [RankNext]_rankVars => RankInv'
  <2> SUFFICES ASSUME RankTypeOK, RankInv, [RankNext]_rankVars PROVE RankInv'
    OBVIOUS
  <2>0. PICK S, b, w, T : Story(S, b, w, T)
    BY DEF RankInv
  <2>1. CASE UNCHANGED <<published, counts, at, got, left, work, ticks>>
    <3>1. Begun' = Begun /\ \A r \in Ranks : Follows(r, w, T)' = Follows(r, w, T)
      BY <2>1 DEF Begun, Follows
    <3>2. ASSUME NEW r \in Others PROVE Reader(r, S, b, w, T)'
      <4>1. Pos(r, S)' = Pos(r, S) /\ Known(r)' = Known(r)
        BY <2>1 DEF Pos, Known
      <4>. QED  BY <2>0, <2>1, <3>1, <4>1 DEF Story, Reader
    <3>3. Story(S, b, w, T)'
      BY <2>0, <2>1, <3>1, <3>2 DEF Story
    <3>. QED  BY <3>3 DEF RankInv
  <2>2. CASE Send
    BY <2>1, <2>2 DEF Send
  <2>3. CASE Drain0
    BY <2>1, <2>3 DEF Drain0
  <2>4. CASE UNCHANGED rankVars
    BY <2>1, <2>4 DEF rankVars
  <2>5. CASE Get0
    BY <2>0, <2>5, Get0Step
  <2>6. CASE Rest0
    BY <2>0, <2>6, Rest0Step
  <2>7. ASSUME NEW r \in Ranks, Begin(r) \/ Get(r) \/ ReadCount(r) \/ Rest(r) \/ Run(r) PROVE RankInv'
    <3>1. Story(S, b, w, T)'
      BY <2>0, <2>7, BeginStep, GetStep, CountStep, RestStep, RunStep
    <3>. QED  BY <3>1 DEF RankInv
  <2>8. CASE Barrier
    <3>0. 0 \in Ranks /\ Others \subseteq Ranks
      BY RanksType
    <3>1. /\ \A r \in Ranks : at[r] = "barrier" /\ at'[r] = "stopped"
          /\ UNCHANGED <<published, counts, got, left, work, ticks>>
      BY <2>8 DEF Barrier
    <3>2. Begun' = Begun /\ \A r \in Ranks : Known(r)' = Known(r)
      BY <3>0, <3>1 DEF Begun, Known
    <3>3. Leads(at[0], Len(ticks[0]), got[0], S, b, w, T)'
      BY <2>0, <3>0, <3>1 DEF Story, Leads
    <3>4. ASSUME NEW r \in Others PROVE Reader(r, S, b, w, T)'
      <4>1. Pos(r, S)' = Pos(r, S) /\ r \in Ranks
        BY <3>0, <3>1 DEF Pos
      <4>2. Stands("barrier", Len(ticks[r]), Pos(r, S), got[r], left[r], S, b, w, T)
        BY <2>0, <3>1, <4>1 DEF Story, Reader
      <4>3. Stands("stopped", Len(ticks[r]), Pos(r, S), got[r], left[r], S, b, w, T)
        BY <4>2 DEF Stands
      <4>. QED  BY <2>0, <3>1, <3>2, <4>1, <4>3 DEF Story, Reader
    <3>5. \A r \in Ranks : Follows(r, w, T)'
      BY <2>0, <3>1, <3>2 DEF Story, Follows
    <3>6. Story(S, b, w, T)'
      BY <2>0, <3>2, <3>3, <3>4, <3>5 DEF Story
    <3>. QED  BY <3>6 DEF RankInv
  <2>. QED
    BY <2>2, <2>3, <2>4, <2>5, <2>6, <2>7, <2>8 DEF RankNext, RankStep
<1>. QED
  BY <1>1, <1>2, RankTypeCorrect, PTL DEF RankSpec

-----------------------------------------------------------------------------
(* For any number of ranks, however the tokenizers' messages fall between the
   broadcasts: two ranks have processed the same messages in every tick both
   have processed (_recv_msg_multi_rank0 and _recv_msg_multi_rank1). *)
THEOREM RanksAgreeCorrect == RankSpec => []RanksAgree
<1>1. RankTypeOK /\ RankInv => RanksAgree
  <2> SUFFICES ASSUME RankTypeOK, RankInv, NEW r \in Ranks, NEW s \in Ranks,
                      Len(ticks[r]) <= Len(ticks[s])
               PROVE  IsPrefix(ticks[r], ticks[s])
    BY DEF RanksAgree
  <2>0. PICK S, b, w, T : Story(S, b, w, T)
    BY DEF RankInv
  <2> DEFINE x == ticks[r]
             y == ticks[s]
             l == Len(x)
  <2>1. x \in Seq(Seq(Msgs)) /\ y \in Seq(Seq(Msgs)) /\ l \in Nat /\ Len(y) \in Nat /\ l <= Len(y)
    BY <2>0, RankNumbers DEF RankTypeOK
  <2>2. (\A i \in 1 .. l : x[i] = T[i]) /\ \A i \in 1 .. Len(y) : y[i] = T[i]
    BY <2>0 DEF Story, Follows
  <2> HIDE DEF x, y, l
  <2>3. ASSUME NEW i \in 1 .. l PROVE x[i] = y[i]
    <3>1. i \in 1 .. Len(y)
      BY <2>1
    <3>. QED  BY <2>2, <3>1
  <2>4. SubSeq(x, 1, l) = SubSeq(y, 1, l)
    BY <2>1, <2>3
  <2>. QED  BY <2>1, <2>4 DEF IsPrefix, x, y, l
<1>. QED
  BY <1>1, RankTypeCorrect, RankInvCorrect, PTL

-----------------------------------------------------------------------------
(* The launcher.                                                            *)

LaunchSpec == LaunchInit /\ [][LaunchNext]_launchVars

ApiPlaces    == {"start", "acks", "serving"}
RankPlaces   == {"unborn", "begin", "in", "synced", "ready", "raised", "crashed"}
WorkerPlaces == {"unborn", "begin", "loading", "ready", "crashed"}

LaunchTypeOK ==
  /\ world \in Nat \ {0} /\ toks \in Nat
  /\ place \in [Processes -> ApiPlaces \union RankPlaces \union WorkerPlaces]
  /\ place[Api] \in ApiPlaces
  /\ \A r \in TpRanks : place[Rank(r)] \in RankPlaces
  /\ \A i \in Workers : place[Worker(i)] \in WorkerPlaces
  /\ joined \in [TpRanks -> 0 .. AllRanks]
  /\ memory \in [TpRanks -> Int] /\ offered \in [TpRanks -> [BeforeLoad .. AtEnd -> Int]]
  /\ oldFree \in [TpRanks -> Int] /\ numPages \in [TpRanks -> Int]
  /\ acks \in Nat /\ heard \in Nat

\* What a rank's place says of its collectives, and of those of the others
Stage(r) ==
  /\ place[Rank(r)] = "unborn" => joined[r] = 0
  /\ place[Rank(r)] \in {"begin", "raised"} => joined[r] < AllRanks
  /\ place[Rank(r)] \in {"synced", "ready"} => \A s \in TpRanks : joined[s] = AllRanks

\* Before the launcher starts them there are no processes.
Started ==
  place[Api] = "start" => /\ \A r \in TpRanks : place[Rank(r)] = "unborn"
                          /\ \A i \in Workers : place[Worker(i)] = "unborn"

\* The acknowledgements, sent and received, are those of the processes that are ready.
ReadyWorkers == {i \in Workers : place[Worker(i)] = "ready"}
Primary == IF place[Rank(0)] = "ready" THEN 1 ELSE 0
Acked ==
  /\ acks + heard = Cardinality(ReadyWorkers) + Primary
  /\ place[Api] = "serving" => heard = AcksExpected

\* Who has opened what
Opened ==
  /\ place[Api] /= "start" => ApiSockets \subseteq sockets
  /\ \A i \in Workers : place[Worker(i)] \in {"loading", "ready"} => WorkerSockets(i) \subseteq sockets
  /\ \A r \in TpRanks : joined[r] = AllRanks => RankSockets(r) \subseteq sockets
  /\ \A s \in sockets : \/ s \in ApiSockets \/ \E i \in Workers : s \in WorkerSockets(i)
                        \/ \E r \in TpRanks : s \in RankSockets(r)

Offers(k) == {offered[s][k] : s \in TpRanks}
Entered(k) == \A s \in TpRanks : joined[s] >= k

\* A rank that is past the first exchange of free memory
Loads(r) == joined[r] > BeforeLoad \/ (joined[r] = BeforeLoad /\ place[Rank(r)] = "begin")
Shares(r) ==
  /\ Loads(r) => /\ Entered(BeforeLoad) /\ oldFree[r] = Max(Offers(BeforeLoad))
                 /\ Max(Offers(BeforeLoad)) - Min(Offers(BeforeLoad)) <= Imbalance
  /\ numPages[r] /= 0 => /\ Entered(AfterLoad)
                         /\ numPages[r] = PagesFor(Max(Offers(BeforeLoad)), Max(Offers(AfterLoad)))
  /\ joined[r] \in BeforeLoad .. AtEnd => memory[r] = offered[r][joined[r]]
  /\ joined[r] >= AfterLoad => offered[r][AfterLoad] = offered[r][BeforeLoad] - Weights

PlaceInv == LaunchTypeOK /\ Started /\ \A r \in TpRanks : Stage(r)
LaunchInv == PlaceInv /\ Acked /\ Opened /\ \A r \in TpRanks : Shares(r)

-----------------------------------------------------------------------------
(* Names of processes, and the most and the least of what the ranks offer.  *)

LEMMA Keys ==
  /\ Api \in Processes
  /\ \A r \in TpRanks : Rank(r) \in Processes /\ Rank(r) /= Api
  /\ \A i \in Workers : Worker(i) \in Processes /\ Worker(i) /= Api
  /\ \A r, s : Rank(r) = Rank(s) => r = s
  /\ \A i, j : Worker(i) = Worker(j) => i = j
  /\ \A r, i : Rank(r) /= Worker(i)
  /\ \A p \in Processes : p = Api \/ (\E r \in TpRanks : p = Rank(r)) \/ \E i \in Workers : p = Worker(i)
BY DEF Processes, Rank, Worker, Api

LEMMA MostExists ==
  ASSUME NEW S \in SUBSET Int, IsFiniteSet(S)
  PROVE  \A T \in SUBSET S : T /= {} => /\ \E x \in T : \A y \in T : x >= y
                                        /\ \E x \in T : \A y \in T : x =< y
<1>. DEFINE F == {T \in SUBSET S : T /= {} => /\ \E x \in T : \A y \in T : x >= y
                                              /\ \E x \in T : \A y \in T : x =< y}
<1>1. F \in SUBSET (SUBSET S) /\ {} \in F
  OBVIOUS
<1>2. ASSUME NEW T \in F, NEW z \in S \ T PROVE T \union {z} \in F
  <2>1. CASE T = {}
    BY <2>1, <1>2
  <2>2. CASE T /= {}
    <3>1. PICK x \in T : \A y \in T : x >= y
      BY <2>2, <1>2
    <3>2. PICK w \in T : \A y \in T : w =< y
      BY <2>2, <1>2
    <3>3. \E u \in T \union {z} : \A y \in T \union {z} : u >= y
      <4>1. CASE z >= x
        BY <3>1, <4>1, <1>2
      <4>2. CASE ~(z >= x)
        BY <3>1, <4>2, <1>2
      <4>. QED  BY <4>1, <4>2
    <3>4. \E u \in T \union {z} : \A y \in T \union {z} : u =< y
      <4>1. CASE z =< w
        BY <3>2, <4>1, <1>2
      <4>2. CASE ~(z =< w)
        BY <3>2, <4>2, <1>2
      <4>. QED  BY <4>1, <4>2
    <3>. QED  BY <3>3, <3>4, <1>2
  <2>. QED  BY <2>1, <2>2
<1>3. F = SUBSET S
  <2>. HIDE DEF F
  <2>. QED  BY <1>1, <1>2, FiniteInduct
<1>. QED  BY <1>3

LEMMA MostLeast ==
  ASSUME NEW S \in SUBSET Int, IsFiniteSet(S), S /= {}
  PROVE  /\ Max(S) \in S /\ Min(S) \in S /\ Max(S) \in Int /\ Min(S) \in Int
         /\ \A y \in S : y <= Max(S) /\ Min(S) <= y
<1>1. (\E x \in S : \A y \in S : x >= y) /\ \E x \in S : \A y \in S : x =< y
  BY MostExists
<1>2. Max(S) \in S /\ \A y \in S : Max(S) >= y
  BY <1>1 DEF Max
<1>3. Min(S) \in S /\ \A y \in S : Min(S) =< y
  BY <1>1 DEF Min
<1>. QED  BY <1>2, <1>3

LEMMA OffersMost ==
  ASSUME LaunchTypeOK, NEW k \in BeforeLoad .. AtEnd
  PROVE  /\ \A s \in TpRanks : offered[s][k] \in Int
         /\ Max(Offers(k)) \in Int /\ Min(Offers(k)) \in Int
         /\ \A s \in TpRanks : offered[s][k] <= Max(Offers(k)) /\ Min(Offers(k)) <= offered[s][k]
         /\ \E s \in TpRanks : offered[s][k] = Max(Offers(k))
<1>1. \A s \in TpRanks : offered[s][k] \in Int
  BY DEF LaunchTypeOK
<1>2. IsFiniteSet(TpRanks) /\ 0 \in TpRanks
  <2>1. world - 1 \in Int /\ 0 <= world - 1
    BY DEF LaunchTypeOK
  <2>2. IsFiniteSet(0 .. world - 1)
    BY <2>1, FS_Interval
  <2>. QED  BY <2>1, <2>2 DEF TpRanks
<1>3. IsFiniteSet({offered[s][k] : s \in TpRanks})
  <2>. DEFINE T == {offered[s][k] : s \in TpRanks}
              f == [s \in TpRanks |-> offered[s][k]]
  <2>1. f \in Surjection(TpRanks, T)
    BY DEF Surjection
  <2>. HIDE DEF T, f
  <2>2. IsFiniteSet(T)
    BY <2>1, <1>2, FS_Surjection
  <2>. QED  BY <2>2 DEF T
<1>4. Offers(k) \in SUBSET Int /\ IsFiniteSet(Offers(k)) /\ Offers(k) /= {}
  BY <1>1, <1>2, <1>3 DEF Offers
<1>5. /\ Max(Offers(k)) \in Offers(k) /\ Max(Offers(k)) \in Int /\ Min(Offers(k)) \in Int
      /\ \A y \in Offers(k) : y <= Max(Offers(k)) /\ Min(Offers(k)) <= y
  BY <1>4, MostLeast
<1>6. \A s \in TpRanks : offered[s][k] \in Offers(k)
  BY DEF Offers
<1>7. \E s \in TpRanks : offered[s][k] = Max(Offers(k))
  BY <1>5 DEF Offers
<1>. QED  BY <1>1, <1>5, <1>6, <1>7


-----------------------------------------------------------------------------
(* Where the processes are, and in which collective the ranks.              *)

Places == ApiPlaces \union RankPlaces \union WorkerPlaces
Fixed == UNCHANGED <<world, toks>>

\* The one process that moves is a rank, a worker or the launcher itself.
RankMoves(r, w) ==
  /\ place' \in [Processes -> Places]
  /\ place'[Rank(r)] = w /\ \A s \in TpRanks : s /= r => place'[Rank(s)] = place[Rank(s)]
  /\ place'[Api] = place[Api] /\ \A i \in Workers : place'[Worker(i)] = place[Worker(i)]
WorkerMoves(i, w) ==
  /\ place' \in [Processes -> Places]
  /\ place'[Worker(i)] = w /\ \A j \in Workers : j /= i => place'[Worker(j)] = place[Worker(j)]
  /\ place'[Api] = place[Api] /\ \A s \in TpRanks : place'[Rank(s)] = place[Rank(s)]

LEMMA Moves ==
  ASSUME LaunchTypeOK, NEW p, NEW w \in Places, To(p, w)
  PROVE  /\ \A r \in TpRanks : p = Rank(r) => RankMoves(r, w)
         /\ \A i \in Workers : p = Worker(i) => WorkerMoves(i, w)
         /\ p = Api => /\ place' \in [Processes -> Places] /\ place'[Api] = w
                       /\ \A s \in TpRanks : place'[Rank(s)] = place[Rank(s)]
                       /\ \A i \in Workers : place'[Worker(i)] = place[Worker(i)]
<1>1. place \in [Processes -> Places] /\ place' = [place EXCEPT ![p] = w]
  BY DEF LaunchTypeOK, Places, To
<1>. QED  BY <1>1, Keys DEF RankMoves, WorkerMoves

LEMMA Sets == Fixed => TpRanks' = TpRanks /\ Workers' = Workers /\ Processes' = Processes
BY DEF Fixed, TpRanks, Workers, Processes, Rank, Worker, Api

\* What is lost of the invariant about places once the rest is seen to
RankOK(r) ==
  /\ place[Rank(r)] \in RankPlaces /\ joined[r] \in 0 .. AllRanks /\ Stage(r)
Held == UNCHANGED <<joined, memory, offered, oldFree, numPages>>

LEMMA PlaceStart == PlaceInv /\ StartSubprocess => PlaceInv' /\ Fixed
<1>. SUFFICES ASSUME PlaceInv, StartSubprocess PROVE PlaceInv' /\ Fixed
  OBVIOUS
<1>1. /\ place' = [p \in Processes |-> IF p = Api THEN "acks" ELSE "begin"] /\ place[Api] = "start"
      /\ UNCHANGED <<world, toks, joined, memory, offered, oldFree, numPages, acks, heard>>
  BY DEF StartSubprocess
<1>2. Fixed /\ TpRanks' = TpRanks /\ Workers' = Workers /\ Processes' = Processes
  BY <1>1, Sets DEF Fixed
<1>3. /\ place'[Api] = "acks" /\ \A r \in TpRanks : place'[Rank(r)] = "begin"
      /\ \A i \in Workers : place'[Worker(i)] = "begin"
  BY <1>1, Keys
<1>4. \A r \in TpRanks : joined[r] = 0
  BY <1>1 DEF PlaceInv, Started, Stage
<1>5. LaunchTypeOK'
  <2>1. place' \in [Processes -> Places]
    BY <1>1 DEF Places, ApiPlaces, RankPlaces, WorkerPlaces
  <2>. QED  BY <1>1, <1>2, <1>3, <2>1
            DEF PlaceInv, LaunchTypeOK, Places, ApiPlaces, RankPlaces, WorkerPlaces
<1>6. Started' /\ \A r \in TpRanks : Stage(r)'
  BY <1>1, <1>2, <1>3, <1>4 DEF Started, Stage, AllRanks
<1>. QED  BY <1>2, <1>5, <1>6 DEF PlaceInv

LEMMA PlaceWait == PlaceInv /\ WaitForAcks => PlaceInv' /\ Fixed
<1>. SUFFICES ASSUME PlaceInv, WaitForAcks PROVE PlaceInv' /\ Fixed
  OBVIOUS
<1>1. /\ UNCHANGED <<world, toks, joined, memory, offered, oldFree, numPages, sockets>>
      /\ \/ To(Api, "serving") /\ UNCHANGED <<acks, heard>>
         \/ acks > 0 /\ acks' = acks - 1 /\ heard' = heard + 1 /\ UNCHANGED place
      /\ place[Api] = "acks"
  BY DEF WaitForAcks
<1>2. Fixed /\ TpRanks' = TpRanks /\ Workers' = Workers /\ Processes' = Processes
  BY <1>1, Sets DEF Fixed
<1>3. /\ place' \in [Processes -> Places] /\ place'[Api] \in {"acks", "serving"}
      /\ \A s \in TpRanks : place'[Rank(s)] = place[Rank(s)]
      /\ \A i \in Workers : place'[Worker(i)] = place[Worker(i)]
  <2>1. "serving" \in Places /\ LaunchTypeOK /\ place \in [Processes -> Places]
    BY DEF Places, ApiPlaces, PlaceInv, LaunchTypeOK
  <2>. QED  BY <1>1, <2>1, Moves
<1>4. acks' \in Nat /\ heard' \in Nat
  BY <1>1 DEF PlaceInv, LaunchTypeOK
<1>5. LaunchTypeOK'
  BY <1>1, <1>2, <1>3, <1>4 DEF PlaceInv, LaunchTypeOK, Places, ApiPlaces
<1>6. Started' /\ \A r \in TpRanks : Stage(r)'
  BY <1>1, <1>2, <1>3 DEF Started, Stage, PlaceInv
<1>. QED  BY <1>2, <1>5, <1>6 DEF PlaceInv

\* A worker moves, whichever action it is.
LEMMA PlaceWorker ==
  ASSUME PlaceInv, NEW i \in Workers, NEW w \in {"loading", "ready", "crashed"},
         To(Worker(i), w), Held, Fixed, place[Worker(i)] \in {"begin", "loading"}, acks' \in Nat, UNCHANGED heard
  PROVE  PlaceInv'
<1>1. TpRanks' = TpRanks /\ Workers' = Workers /\ Processes' = Processes
  BY Sets
<1>2. WorkerMoves(i, w)
  <2>1. LaunchTypeOK /\ w \in Places
    BY DEF PlaceInv, Places, WorkerPlaces
  <2>. QED  BY <2>1, Moves
<1>3. LaunchTypeOK'
  <2>1. \A j \in Workers : place'[Worker(j)] \in WorkerPlaces
    BY <1>2 DEF WorkerMoves, PlaceInv, LaunchTypeOK, WorkerPlaces
  <2>. QED  BY <1>1, <1>2, <2>1 DEF WorkerMoves, PlaceInv, LaunchTypeOK, Held, Fixed, Places
<1>4. Started'
  BY <1>1, <1>2 DEF WorkerMoves, Started, PlaceInv
<1>5. \A r \in TpRanks : Stage(r)'
  BY <1>1, <1>2 DEF WorkerMoves, Stage, PlaceInv, Held
<1>. QED  BY <1>1, <1>3, <1>4, <1>5 DEF PlaceInv

LEMMA PlaceOpen == ASSUME PlaceInv, NEW i \in Workers, OpenWorker(i) PROVE PlaceInv' /\ Fixed
<1>1. /\ To(Worker(i), "loading") /\ place[Worker(i)] = "begin"
      /\ UNCHANGED <<world, toks, joined, memory, offered, oldFree, numPages, acks, heard>>
  BY DEF OpenWorker
<1>2. Held /\ Fixed /\ acks' \in Nat /\ UNCHANGED heard
  BY <1>1 DEF Held, Fixed, PlaceInv, LaunchTypeOK
<1>. QED  BY <1>1, <1>2, PlaceWorker

LEMMA PlaceWorkerReady == ASSUME PlaceInv, NEW i \in Workers, WorkerReady(i) PROVE PlaceInv' /\ Fixed
<1>1. /\ To(Worker(i), "ready") /\ place[Worker(i)] = "loading" /\ acks' = acks + 1
      /\ UNCHANGED <<world, toks, joined, memory, offered, oldFree, numPages, sockets, heard>>
  BY DEF WorkerReady
<1>2. Held /\ Fixed /\ acks' \in Nat /\ UNCHANGED heard
  BY <1>1 DEF Held, Fixed, PlaceInv, LaunchTypeOK
<1>. QED  BY <1>1, <1>2, PlaceWorker



\* A rank enters a collective: what it brings to it.
Entering(r) ==
  /\ Fixed /\ UNCHANGED <<oldFree, numPages, acks, heard>>
  /\ place[Rank(r)] = "begin" /\ RankMoves(r, "in") /\ joined[r] < AllRanks
  /\ joined' \in [TpRanks -> 0 .. AllRanks] /\ joined'[r] = joined[r] + 1
  /\ memory' \in [TpRanks -> Int]
  /\ offered' \in [TpRanks -> [BeforeLoad .. AtEnd -> Int]]
  /\ \A s \in TpRanks : s /= r => joined'[s] = joined[s] /\ memory'[s] = memory[s] /\ offered'[s] = offered[s]
  /\ \A k \in BeforeLoad .. AtEnd : k /= joined'[r] => offered'[r][k] = offered[r][k]
  /\ joined'[r] \in BeforeLoad .. AtEnd => offered'[r][joined'[r]] = memory'[r]
  /\ joined'[r] = AfterLoad => memory'[r] = memory[r] - Weights
  /\ sockets' = IF joined'[r] = AllRanks THEN sockets \union RankSockets(r) ELSE sockets

LEMMA Enters == ASSUME PlaceInv, NEW r \in TpRanks, Enter(r) PROVE Entering(r)
<1>. DEFINE k == joined[r] + 1
            lost == CASE k = AfterLoad -> memory[r] - Weights
                      [] k = AtEnd -> memory[r] - numPages[r] * PageMemory
                      [] OTHER -> memory[r]
<1>1. /\ place[Rank(r)] = "begin" /\ To(Rank(r), "in")
      /\ joined' = [joined EXCEPT ![r] = k] /\ memory' = [memory EXCEPT ![r] = lost]
      /\ offered' = IF k \in BeforeLoad .. AtEnd THEN [offered EXCEPT ![r][k] = lost] ELSE offered
      /\ sockets' = IF k = AllRanks THEN sockets \union RankSockets(r) ELSE sockets
      /\ UNCHANGED <<world, toks, oldFree, numPages, acks, heard>>
  BY DEF Enter
<1>2. /\ joined \in [TpRanks -> 0 .. AllRanks] /\ memory \in [TpRanks -> Int]
      /\ offered \in [TpRanks -> [BeforeLoad .. AtEnd -> Int]]
      /\ numPages \in [TpRanks -> Int] /\ joined[r] < AllRanks
  BY <1>1 DEF PlaceInv, LaunchTypeOK, Stage
<1>3. k \in 1 .. AllRanks
  <2>1. joined[r] \in 0 .. AllRanks /\ joined[r] < AllRanks
    BY <1>2
  <2>. QED  BY <2>1 DEF AllRanks
<1>4. lost \in Int /\ (k = AfterLoad => lost = memory[r] - Weights)
  <2>1. memory[r] \in Int /\ memory[r] - Weights \in Int
    BY <1>2, LauncherAssumption
  <2>2. memory[r] - numPages[r] * PageMemory \in Int
    BY <1>2, LauncherAssumption
  <2>. HIDE DEF k
  <2>. QED  BY <2>1, <2>2 DEF AfterLoad, AtEnd
<1>5. RankMoves(r, "in")
  <2>1. LaunchTypeOK /\ "in" \in Places
    BY DEF PlaceInv, Places, RankPlaces
  <2>. QED  BY <1>1, <2>1, Moves
<1>. HIDE DEF k, lost
<1>6. /\ joined' \in [TpRanks -> 0 .. AllRanks] /\ joined'[r] = k
      /\ memory' \in [TpRanks -> Int] /\ memory'[r] = lost
      /\ \A s \in TpRanks : s /= r => joined'[s] = joined[s] /\ memory'[s] = memory[s]
  BY <1>1, <1>2, <1>3, <1>4 DEF AllRanks
<1>7. /\ offered' \in [TpRanks -> [BeforeLoad .. AtEnd -> Int]]
      /\ \A s \in TpRanks : s /= r => offered'[s] = offered[s]
      /\ \A j \in BeforeLoad .. AtEnd : j /= k => offered'[r][j] = offered[r][j]
      /\ k \in BeforeLoad .. AtEnd => offered'[r][k] = lost
  <2>1. CASE k \in BeforeLoad .. AtEnd
    BY <1>1, <1>2, <1>4, <2>1
  <2>2. CASE k \notin BeforeLoad .. AtEnd
    BY <1>1, <1>2, <2>2
  <2>. QED  BY <2>1, <2>2
<1>8. Fixed /\ UNCHANGED <<oldFree, numPages, acks, heard>>
  BY <1>1 DEF Fixed
<1>9. k = joined[r] + 1
  BY DEF k
<1>. QED  BY <1>1, <1>2, <1>4, <1>5, <1>6, <1>7, <1>8, <1>9 DEF Entering

LEMMA PlaceEnter == ASSUME PlaceInv, NEW r \in TpRanks, Entering(r) PROVE PlaceInv'
<1>1. TpRanks' = TpRanks /\ Workers' = Workers /\ Processes' = Processes
  BY Sets DEF Entering
<1>2. LaunchTypeOK'
  <2>1. \A s \in TpRanks : place'[Rank(s)] \in RankPlaces
    BY DEF Entering, RankMoves, PlaceInv, LaunchTypeOK, RankPlaces
  <2>. QED  BY <1>1, <2>1 DEF Entering, RankMoves, PlaceInv, LaunchTypeOK, Fixed, Places
<1>3. Started'
  BY <1>1 DEF Entering, RankMoves, Started, PlaceInv
<1>4. ASSUME NEW s \in TpRanks PROVE Stage(s)'
  <2>1. joined \in [TpRanks -> 0 .. AllRanks]
    BY DEF PlaceInv, LaunchTypeOK
  <2>2. CASE s = r
    BY <1>1, <2>1, <2>2 DEF Entering, RankMoves, Stage
  <2>3. CASE s /= r
    <3>1. place'[Rank(s)] = place[Rank(s)] /\ joined'[s] = joined[s]
      BY <2>3 DEF Entering, RankMoves
    <3>2. place[Rank(s)] \notin {"synced", "ready"}
      BY <2>1 DEF PlaceInv, Stage, Entering
    <3>. QED  BY <1>1, <3>1, <3>2 DEF PlaceInv, Stage
  <2>. QED  BY <2>2, <2>3
<1>. QED  BY <1>1, <1>2, <1>3, <1>4 DEF PlaceInv

\* A rank leaves a collective: what it takes from it.
Went(r) == IF joined[r] = AllRanks THEN {"synced"} ELSE {"begin", "raised"}
Leaving(r) ==
  /\ Fixed /\ UNCHANGED <<joined, memory, offered, sockets, acks, heard>>
  /\ place[Rank(r)] = "in" /\ Entered(joined[r])
  /\ \E w \in Went(r) : RankMoves(r, w)
  /\ oldFree' \in [TpRanks -> Int] /\ numPages' \in [TpRanks -> Int]
  /\ \A s \in TpRanks : s /= r => oldFree'[s] = oldFree[s] /\ numPages'[s] = numPages[s]
  /\ joined[r] = BeforeLoad =>
       /\ oldFree'[r] = Max(Offers(BeforeLoad)) /\ numPages'[r] = numPages[r]
       /\ place'[Rank(r)] = "begin" => Max(Offers(BeforeLoad)) - Min(Offers(BeforeLoad)) <= Imbalance
  /\ joined[r] = AfterLoad =>
       /\ oldFree'[r] = oldFree[r]
       /\ numPages'[r] \in {numPages[r], PagesFor(oldFree[r], Max(Offers(AfterLoad)))}
  /\ joined[r] \notin {BeforeLoad, AfterLoad} => oldFree'[r] = oldFree[r] /\ numPages'[r] = numPages[r]

LEMMA Leaves == ASSUME PlaceInv, NEW r \in TpRanks, Leave(r) PROVE Leaving(r)
<1>. DEFINE k     == joined[r]
            found == FreeMemory(r, k)
            pages == PagesFor(oldFree[r], found.most)
<1>1. /\ place[Rank(r)] = "in" /\ \A s \in TpRanks : joined[s] >= joined[r]
      /\ UNCHANGED <<world, toks, joined, memory, offered, sockets, acks, heard>>
      /\ k \in BeforeLoad .. AtEnd =>
           /\ To(Rank(r), IF Refuses(r, k, found, pages) THEN "raised" ELSE "begin")
           /\ oldFree' = IF k = BeforeLoad THEN [oldFree EXCEPT ![r] = found.most] ELSE oldFree
           /\ numPages' = IF k = AfterLoad /\ pages > 1 THEN [numPages EXCEPT ![r] = pages] ELSE numPages
      /\ k \notin BeforeLoad .. AtEnd =>
           /\ To(Rank(r), IF k = AllRanks THEN "synced" ELSE "begin")
           /\ UNCHANGED <<oldFree, numPages>>
  BY DEF Leave
<1>2. /\ joined \in [TpRanks -> 0 .. AllRanks] /\ LaunchTypeOK
      /\ oldFree \in [TpRanks -> Int] /\ numPages \in [TpRanks -> Int] /\ k \in 0 .. AllRanks
  BY DEF PlaceInv, LaunchTypeOK
<1>3. k \in BeforeLoad .. AtEnd => /\ found.most = Max(Offers(k)) /\ found.least = Min(Offers(k))
                                   /\ found.most \in Int /\ found.least \in Int
  BY <1>2, OffersMost DEF FreeMemory, Offers
<1>4. k \in BeforeLoad .. AtEnd => pages \in Int
  <2>. DEFINE m == found.most  o == oldFree[r]
  <2>1. o \in Int /\ (k \in BeforeLoad .. AtEnd => m \in Int)
    BY <1>2, <1>3
  <2>. HIDE DEF m, o
  <2>2. k \in BeforeLoad .. AtEnd => PagesFor(o, m) \in Int
    BY <2>1, LauncherAssumption DEF PagesFor
  <2>. QED  BY <2>2 DEF m, o
<1>5. \E w \in Went(r) : To(Rank(r), w)
  <2>1. CASE k \in BeforeLoad .. AtEnd
    <3>1. joined[r] /= AllRanks
      BY <2>1 DEF BeforeLoad, AtEnd, AllRanks
    <3>. QED  BY <1>1, <2>1, <3>1 DEF Went
  <2>2. CASE k \notin BeforeLoad .. AtEnd
    BY <1>1, <2>2 DEF Went
  <2>. QED  BY <2>1, <2>2
<1>6. PICK w \in Went(r) : To(Rank(r), w) /\ RankMoves(r, w)
  <2>1. \A w \in Went(r) : w \in Places
    BY DEF Went, Places, RankPlaces
  <2>. QED  BY <1>2, <1>5, <2>1, Moves
<1>7. place'[Rank(r)] = "begin" /\ k = BeforeLoad => found.most - found.least <= Imbalance
  <2>. SUFFICES ASSUME place'[Rank(r)] = "begin", k = BeforeLoad PROVE found.most - found.least <= Imbalance
    OBVIOUS
  <2>1. k \in BeforeLoad .. AtEnd
    BY DEF BeforeLoad, AtEnd
  <2>2. To(Rank(r), IF Refuses(r, k, found, pages) THEN "raised" ELSE "begin")
    BY <1>1, <2>1
  <2>3. ~Refuses(r, k, found, pages)
    <3>1. CASE Refuses(r, k, found, pages)
      <4>1. To(Rank(r), "raised") /\ "raised" \in Places
        BY <2>2, <3>1 DEF Places, RankPlaces
      <4>2. place'[Rank(r)] = "raised"
        BY <4>1, <1>2, Moves DEF RankMoves
      <4>. QED  BY <4>2
    <3>. QED  BY <3>1
  <2>. HIDE DEF found
  <2>. QED  BY <2>1, <2>3, <1>3, LauncherAssumption DEF Refuses
<1>. HIDE DEF k, found, pages
<1>8. /\ oldFree' \in [TpRanks -> Int] /\ numPages' \in [TpRanks -> Int]
      /\ \A s \in TpRanks : s /= r => oldFree'[s] = oldFree[s] /\ numPages'[s] = numPages[s]
      /\ k = BeforeLoad => oldFree'[r] = found.most /\ numPages'[r] = numPages[r]
      /\ k = AfterLoad => oldFree'[r] = oldFree[r] /\ numPages'[r] \in {numPages[r], pages}
      /\ k \notin {BeforeLoad, AfterLoad} => oldFree'[r] = oldFree[r] /\ numPages'[r] = numPages[r]
  BY <1>1, <1>2, <1>3, <1>4 DEF BeforeLoad, AfterLoad, AtEnd
<1>9. k = joined[r] /\ Fixed /\ Entered(joined[r])
  BY <1>1 DEF k, Fixed, Entered
<1>10. k = AfterLoad => pages = PagesFor(oldFree[r], Max(Offers(AfterLoad)))
  BY <1>3 DEF pages, BeforeLoad, AfterLoad, AtEnd
<1>11. k = BeforeLoad => /\ found.most = Max(Offers(BeforeLoad)) /\ found.least = Min(Offers(BeforeLoad))
  BY <1>3 DEF BeforeLoad, AtEnd
<1>. QED  BY <1>1, <1>6, <1>7, <1>8, <1>9, <1>10, <1>11 DEF Leaving



LEMMA PlaceLeave == ASSUME PlaceInv, NEW r \in TpRanks, Leaving(r) PROVE PlaceInv'
<1>1. TpRanks' = TpRanks /\ Workers' = Workers /\ Processes' = Processes
  BY Sets DEF Leaving
<1>2. PICK w \in Went(r) : RankMoves(r, w)
  BY DEF Leaving
<1>3. w \in RankPlaces /\ w \notin {"unborn", "in", "ready"}
  BY DEF Went, RankPlaces
<1>4. LaunchTypeOK'
  <2>1. \A s \in TpRanks : place'[Rank(s)] \in RankPlaces
    BY <1>2, <1>3 DEF RankMoves, PlaceInv, LaunchTypeOK
  <2>. QED  BY <1>1, <1>2, <2>1 DEF Leaving, RankMoves, PlaceInv, LaunchTypeOK, Fixed, Places
<1>5. Started'
  BY <1>1, <1>2 DEF Leaving, RankMoves, Started, PlaceInv
<1>6. ASSUME NEW s \in TpRanks PROVE Stage(s)'
  <2>1. joined \in [TpRanks -> 0 .. AllRanks] /\ joined' = joined
    BY DEF PlaceInv, LaunchTypeOK, Leaving
  <2>2. CASE s = r
    <3>1. joined[r] /= AllRanks => w \in {"begin", "raised"} /\ joined[r] < AllRanks
      BY <2>1 DEF Went, AllRanks
    <3>2. joined[r] = AllRanks => w = "synced" /\ \A q \in TpRanks : joined[q] = AllRanks
      BY <2>1 DEF Leaving, Entered, Went, AllRanks
    <3>3. place'[Rank(r)] = w
      BY <1>2 DEF RankMoves
    <3>. QED  BY <1>1, <1>3, <2>1, <2>2, <3>1, <3>2, <3>3 DEF Stage
  <2>3. CASE s /= r
    BY <1>1, <1>2, <2>1, <2>3 DEF PlaceInv, Stage, RankMoves
  <2>. QED  BY <2>2, <2>3
<1>. QED  BY <1>1, <1>4, <1>5, <1>6 DEF PlaceInv

\* A rank is ready.
Readying(r) ==
  /\ Fixed /\ Held /\ UNCHANGED <<sockets, heard>>
  /\ place[Rank(r)] = "synced" /\ RankMoves(r, "ready")
  /\ acks' = IF r = 0 THEN acks + 1 ELSE acks

LEMMA Readies == ASSUME PlaceInv, NEW r \in TpRanks, RankReady(r) PROVE Readying(r)
<1>1. "ready" \in Places /\ LaunchTypeOK
  BY DEF Places, RankPlaces, PlaceInv
<1>2. RankMoves(r, "ready")
  BY <1>1, Moves DEF RankReady
<1>. QED  BY <1>2 DEF RankReady, Readying, Fixed, Held

LEMMA PlaceReady == ASSUME PlaceInv, NEW r \in TpRanks, Readying(r) PROVE PlaceInv'
<1>1. TpRanks' = TpRanks /\ Workers' = Workers /\ Processes' = Processes
  BY Sets DEF Readying
<1>2. LaunchTypeOK'
  <2>1. \A s \in TpRanks : place'[Rank(s)] \in RankPlaces
    BY DEF Readying, RankMoves, PlaceInv, LaunchTypeOK, RankPlaces
  <2>2. acks' \in Nat
    BY DEF Readying, PlaceInv, LaunchTypeOK
  <2>. QED  BY <1>1, <2>1, <2>2 DEF Readying, RankMoves, PlaceInv, LaunchTypeOK, Fixed, Held, Places
<1>3. Started'
  BY <1>1 DEF Readying, RankMoves, Started, PlaceInv
<1>4. ASSUME NEW s \in TpRanks PROVE Stage(s)'
  <2>1. joined' = joined
    BY DEF Readying, Held
  <2>2. CASE s = r
    BY <1>1, <2>1, <2>2 DEF Readying, RankMoves, PlaceInv, Stage
  <2>3. CASE s /= r
    BY <1>1, <2>1, <2>3 DEF Readying, RankMoves, PlaceInv, Stage
  <2>. QED  BY <2>2, <2>3
<1>. QED  BY <1>1, <1>2, <1>3, <1>4 DEF PlaceInv

\* A process dies: a rank or a worker.
Crashes(p) ==
  /\ Fixed /\ Held /\ UNCHANGED <<sockets, acks, heard>>
  /\ \/ \E r \in TpRanks : place[Rank(r)] \in {"begin", "in"} /\ RankMoves(r, "crashed")
     \/ \E i \in Workers : /\ place[Worker(i)] \in {"begin", "loading"} /\ WorkerMoves(i, "crashed")
                           /\ To(Worker(i), "crashed")

LEMMA Crashing == ASSUME PlaceInv, NEW p \in Processes, Crash(p) PROVE Crashes(p)
<1>1. "crashed" \in Places /\ LaunchTypeOK
  BY DEF Places, RankPlaces, PlaceInv
<1>2. Fixed /\ Held /\ UNCHANGED <<sockets, acks, heard>> /\ To(p, "crashed") /\ place[p] \in {"begin", "in", "loading"}
  BY DEF Crash, Fixed, Held
<1>3. p /= Api
  BY <1>1, <1>2 DEF LaunchTypeOK, ApiPlaces
<1>4. ASSUME NEW r \in TpRanks, p = Rank(r) PROVE place[Rank(r)] \in {"begin", "in"} /\ RankMoves(r, "crashed")
  BY <1>1, <1>2, <1>4, Moves DEF LaunchTypeOK, RankPlaces
<1>5. ASSUME NEW i \in Workers, p = Worker(i)
      PROVE  place[Worker(i)] \in {"begin", "loading"} /\ WorkerMoves(i, "crashed") /\ To(Worker(i), "crashed")
  BY <1>1, <1>2, <1>5, Moves DEF LaunchTypeOK, WorkerPlaces
<1>. QED  BY <1>2, <1>3, <1>4, <1>5, Keys DEF Crashes

LEMMA PlaceCrash == ASSUME PlaceInv, NEW p, Crashes(p) PROVE PlaceInv'
<1>1. TpRanks' = TpRanks /\ Workers' = Workers /\ Processes' = Processes
  BY Sets DEF Crashes
<1>2. ASSUME NEW r \in TpRanks, place[Rank(r)] \in {"begin", "in"}, RankMoves(r, "crashed") PROVE PlaceInv'
  <2>1. LaunchTypeOK'
    <3>1. \A s \in TpRanks : place'[Rank(s)] \in RankPlaces
      BY <1>2 DEF RankMoves, PlaceInv, LaunchTypeOK, RankPlaces
    <3>. QED  BY <1>1, <1>2, <3>1 DEF Crashes, RankMoves, PlaceInv, LaunchTypeOK, Fixed, Held, Places
  <2>2. Started'
    BY <1>1, <1>2 DEF RankMoves, Started, PlaceInv
  <2>3. ASSUME NEW s \in TpRanks PROVE Stage(s)'
    BY <1>1, <1>2 DEF Crashes, Held, RankMoves, PlaceInv, Stage
  <2>. QED  BY <1>1, <2>1, <2>2, <2>3 DEF PlaceInv
<1>3. ASSUME NEW i \in Workers, place[Worker(i)] \in {"begin", "loading"}, To(Worker(i), "crashed")
      PROVE  PlaceInv'
  <2>1. acks' \in Nat /\ UNCHANGED heard /\ Held /\ Fixed
    BY DEF Crashes, PlaceInv, LaunchTypeOK
  <2>. QED  BY <1>3, <2>1, PlaceWorker
<1>. QED  BY <1>2, <1>3 DEF Crashes



-----------------------------------------------------------------------------
(* The acknowledgements.                                                    *)

LEMMA ReadyCount ==
  ASSUME LaunchTypeOK
  PROVE  /\ IsFiniteSet(ReadyWorkers) /\ Cardinality(ReadyWorkers) \in Nat
         /\ Cardinality(ReadyWorkers) <= toks + 1
         /\ Cardinality(ReadyWorkers) = toks + 1 => ReadyWorkers = Workers
<1>1. toks \in Int /\ 0 <= toks
  BY DEF LaunchTypeOK
<1>2. IsFiniteSet(0 .. toks) /\ Cardinality(0 .. toks) = toks + 1
  <2>1. Cardinality(0 .. toks) = toks - 0 + 1 /\ IsFiniteSet(0 .. toks)
    BY <1>1, FS_Interval
  <2>. QED  BY <1>1, <2>1
<1>3. ReadyWorkers \in SUBSET (0 .. toks) /\ Workers = 0 .. toks
  BY DEF ReadyWorkers, Workers
<1>. HIDE DEF ReadyWorkers
<1>4. /\ IsFiniteSet(ReadyWorkers) /\ Cardinality(ReadyWorkers) <= Cardinality(0 .. toks)
      /\ Cardinality(0 .. toks) = Cardinality(ReadyWorkers) => 0 .. toks = ReadyWorkers
  BY <1>2, <1>3, FS_Subset
<1>. QED  BY <1>2, <1>3, <1>4, FS_CardinalityType

\* The places that matter to the acknowledgements stay as they are.
LEMMA AckedKept ==
  ASSUME Acked, Fixed, UNCHANGED <<acks, heard>>, place'[Api] = place[Api] \/ place'[Api] /= "serving",
         \A i \in Workers : place'[Worker(i)] = "ready" <=> place[Worker(i)] = "ready",
         place'[Rank(0)] = "ready" <=> place[Rank(0)] = "ready"
  PROVE  Acked'
<1>1. ReadyWorkers' = ReadyWorkers /\ Primary' = Primary
  <2>1. Workers' = Workers
    BY Sets
  <2>. QED  BY <2>1 DEF ReadyWorkers, Primary
<1>. QED  BY <1>1 DEF Acked, Fixed, AcksExpected

LEMMA FirstRank == LaunchTypeOK => 0 \in TpRanks
BY DEF LaunchTypeOK, TpRanks

LEMMA AckedStart == PlaceInv /\ Acked /\ StartSubprocess => Acked'
<1>. SUFFICES ASSUME PlaceInv, Acked, StartSubprocess PROVE Acked'
  OBVIOUS
<1>1. Fixed /\ UNCHANGED <<acks, heard>>
  BY DEF StartSubprocess, Fixed
<1>2. /\ place' = [p \in Processes |-> IF p = Api THEN "acks" ELSE "begin"] /\ place[Api] = "start"
      /\ 0 \in TpRanks
  BY FirstRank DEF StartSubprocess, PlaceInv
<1>3. /\ place'[Api] /= "serving" /\ place'[Rank(0)] /= "ready" /\ place[Rank(0)] /= "ready"
      /\ \A i \in Workers : place'[Worker(i)] /= "ready" /\ place[Worker(i)] /= "ready"
  BY <1>2, Keys DEF PlaceInv, Started
<1>. QED  BY <1>1, <1>3, AckedKept

LEMMA AckedWait == PlaceInv /\ Acked /\ WaitForAcks => Acked'
<1>. SUFFICES ASSUME PlaceInv, Acked, WaitForAcks PROVE Acked'
  OBVIOUS
<1>0. /\ UNCHANGED <<world, toks>> /\ place[Api] = "acks"
      /\ \/ heard = AcksExpected /\ To(Api, "serving") /\ UNCHANGED <<acks, heard>>
         \/ acks > 0 /\ acks' = acks - 1 /\ heard' = heard + 1 /\ UNCHANGED place
  BY DEF WaitForAcks
<1>1. "serving" \in Places /\ LaunchTypeOK /\ place \in [Processes -> Places] /\ 0 \in TpRanks
  BY FirstRank DEF Places, ApiPlaces, PlaceInv, LaunchTypeOK
<1>2. /\ place'[Rank(0)] = place[Rank(0)]
      /\ \A i \in Workers : place'[Worker(i)] = place[Worker(i)]
  BY <1>0, <1>1, Moves
<1>3. ReadyWorkers' = ReadyWorkers /\ Primary' = Primary
  <2>1. Workers' = Workers
    BY <1>0, Sets DEF Fixed
  <2>. QED  BY <1>2, <2>1 DEF ReadyWorkers, Primary
<1>4. Cardinality(ReadyWorkers) \in Nat /\ Primary \in Nat /\ acks \in Nat /\ heard \in Nat
  BY <1>1, ReadyCount DEF Primary, LaunchTypeOK
<1>5. acks' + heard' = acks + heard
  BY <1>0, <1>4
<1>6. place'[Api] = "serving" => heard' = AcksExpected'
  BY <1>0, <1>1 DEF AcksExpected
<1>. QED  BY <1>3, <1>5, <1>6 DEF Acked

LEMMA AckedWorkerReady == ASSUME PlaceInv, Acked, NEW i \in Workers, WorkerReady(i) PROVE Acked'
<1>1. /\ place[Worker(i)] = "loading" /\ acks' = acks + 1 /\ heard' = heard /\ UNCHANGED <<world, toks>>
      /\ WorkerMoves(i, "ready") /\ LaunchTypeOK /\ 0 \in TpRanks
  <2>1. LaunchTypeOK /\ "ready" \in Places
    BY DEF Places, WorkerPlaces, PlaceInv
  <2>. QED  BY <2>1, Moves, FirstRank DEF WorkerReady
<1>2. ReadyWorkers' = ReadyWorkers \union {i} /\ i \notin ReadyWorkers
  <2>1. Workers' = Workers
    BY <1>1, Sets DEF Fixed
  <2>. QED  BY <1>1, <2>1 DEF ReadyWorkers, WorkerMoves
<1>3. IsFiniteSet(ReadyWorkers) /\ Cardinality(ReadyWorkers) \in Nat
  BY <1>1, ReadyCount
<1>4. Cardinality(ReadyWorkers') = Cardinality(ReadyWorkers) + 1
  BY <1>2, <1>3, FS_AddElement
<1>5. Primary' = Primary /\ Primary \in Nat /\ place'[Api] = place[Api]
  BY <1>1 DEF Primary, WorkerMoves
<1>6. acks \in Nat /\ heard \in Nat /\ AcksExpected' = AcksExpected
  BY <1>1 DEF LaunchTypeOK, AcksExpected
<1>. QED  BY <1>1, <1>3, <1>4, <1>5, <1>6 DEF Acked

LEMMA AckedReady == ASSUME PlaceInv, Acked, NEW r \in TpRanks, Readying(r) PROVE Acked'
<1>1. LaunchTypeOK /\ 0 \in TpRanks /\ Fixed
  BY FirstRank DEF PlaceInv, Readying
<1>2. /\ place'[Api] = place[Api] /\ heard' = heard
      /\ \A i \in Workers : place'[Worker(i)] = place[Worker(i)]
  BY DEF Readying, RankMoves
<1>3. ReadyWorkers' = ReadyWorkers
  BY <1>1, <1>2, Sets DEF ReadyWorkers
<1>4. /\ r = 0 => acks' = acks + 1 /\ Primary = 0 /\ Primary' = 1
      /\ r /= 0 => acks' = acks /\ Primary' = Primary
  BY <1>1 DEF Readying, RankMoves, Primary
<1>5. Cardinality(ReadyWorkers) \in Nat /\ Primary \in Nat /\ acks \in Nat /\ heard \in Nat
  BY <1>1, ReadyCount DEF Primary, LaunchTypeOK
<1>6. acks' + heard' = Cardinality(ReadyWorkers) + Primary'
  BY <1>2, <1>4, <1>5 DEF Acked
<1>. QED  BY <1>1, <1>2, <1>3, <1>6 DEF Acked, AcksExpected, Fixed

LEMMA AckedRank ==
  ASSUME PlaceInv, Acked, NEW r \in TpRanks, Fixed, UNCHANGED <<acks, heard>>, place[Rank(r)] /= "ready",
         NEW w, w /= "ready", RankMoves(r, w)
  PROVE  Acked'
<1>1. 0 \in TpRanks
  BY FirstRank DEF PlaceInv
<1>. QED  BY <1>1, AckedKept DEF RankMoves

LEMMA AckedWorker ==
  ASSUME PlaceInv, Acked, NEW i \in Workers, Fixed, UNCHANGED <<acks, heard>>, place[Worker(i)] /= "ready",
         NEW w, w /= "ready", WorkerMoves(i, w)
  PROVE  Acked'
<1>1. 0 \in TpRanks
  BY FirstRank DEF PlaceInv
<1>. QED  BY <1>1, AckedKept DEF WorkerMoves

LEMMA Opens ==
  ASSUME PlaceInv, NEW i \in Workers, OpenWorker(i)
  PROVE  /\ Fixed /\ Held /\ UNCHANGED <<acks, heard>> /\ place[Worker(i)] = "begin"
         /\ WorkerMoves(i, "loading") /\ sockets' = sockets \union WorkerSockets(i)
<1>1. "loading" \in Places /\ LaunchTypeOK
  BY DEF Places, WorkerPlaces, PlaceInv
<1>2. WorkerMoves(i, "loading")
  BY <1>1, Moves DEF OpenWorker
<1>. QED  BY <1>2 DEF OpenWorker, Fixed, Held

LEMMA AckedStep == PlaceInv /\ Acked /\ LaunchNext => Acked'
<1>. SUFFICES ASSUME PlaceInv, Acked, LaunchNext PROVE Acked'
  OBVIOUS
<1>1. CASE ApiOwn
  BY <1>1, AckedStart, AckedWait DEF ApiOwn
<1>2. ASSUME NEW i \in Workers, WorkerOwn(i) PROVE Acked'
  <2>1. CASE OpenWorker(i)
    <3>1. /\ Fixed /\ UNCHANGED <<acks, heard>> /\ place[Worker(i)] /= "ready" /\ "loading" /= "ready"
          /\ WorkerMoves(i, "loading")
      BY <2>1, Opens
    <3>. QED  BY <3>1, AckedWorker
  <2>2. CASE WorkerReady(i)
    BY <2>2, AckedWorkerReady
  <2>. QED  BY <1>2, <2>1, <2>2 DEF WorkerOwn
<1>3. ASSUME NEW r \in TpRanks, RankOwn(r) PROVE Acked'
  <2>1. CASE Enter(r)
    <3>1. Entering(r)
      BY <2>1, Enters
    <3>2. /\ Fixed /\ UNCHANGED <<acks, heard>> /\ place[Rank(r)] /= "ready" /\ "in" /= "ready"
          /\ RankMoves(r, "in")
      BY <3>1 DEF Entering
    <3>. QED  BY <3>2, AckedRank
  <2>2. CASE Leave(r)
    <3>1. Leaving(r)
      BY <2>2, Leaves
    <3>2. PICK w \in Went(r) : RankMoves(r, w)
      BY <3>1 DEF Leaving
    <3>3. Fixed /\ UNCHANGED <<acks, heard>> /\ place[Rank(r)] /= "ready" /\ w /= "ready"
      BY <3>1 DEF Leaving, Went
    <3>. QED  BY <3>2, <3>3, AckedRank
  <2>3. CASE RankReady(r)
    BY <2>3, Readies, AckedReady
  <2>. QED  BY <1>3, <2>1, <2>2, <2>3 DEF RankOwn
<1>4. ASSUME NEW p \in Processes, Crash(p) PROVE Acked'
  <2>1. Crashes(p)
    BY <1>4, Crashing
  <2>2. Fixed /\ UNCHANGED <<acks, heard>> /\ "crashed" /= "ready"
    BY <2>1 DEF Crashes
  <2>3. ASSUME NEW r \in TpRanks, place[Rank(r)] \in {"begin", "in"}, RankMoves(r, "crashed") PROVE Acked'
    <3>1. place[Rank(r)] /= "ready"
      BY <2>3
    <3>. QED  BY <2>2, <2>3, <3>1, AckedRank
  <2>4. ASSUME NEW i \in Workers, place[Worker(i)] \in {"begin", "loading"}, WorkerMoves(i, "crashed") PROVE Acked'
    <3>1. place[Worker(i)] /= "ready"
      BY <2>4
    <3>. QED  BY <2>2, <2>4, <3>1, AckedWorker
  <2>. QED  BY <2>1, <2>3, <2>4 DEF Crashes
<1>. QED  BY <1>1, <1>2, <1>3, <1>4 DEF LaunchNext

LEMMA PlaceStep == PlaceInv /\ LaunchNext => PlaceInv' /\ Fixed
<1>. SUFFICES ASSUME PlaceInv, LaunchNext PROVE PlaceInv' /\ Fixed
  OBVIOUS
<1>1. CASE ApiOwn
  BY <1>1, PlaceStart, PlaceWait DEF ApiOwn
<1>2. ASSUME NEW i \in Workers, WorkerOwn(i) PROVE PlaceInv' /\ Fixed
  BY <1>2, PlaceOpen, PlaceWorkerReady DEF WorkerOwn
<1>3. ASSUME NEW r \in TpRanks, RankOwn(r) PROVE PlaceInv' /\ Fixed
  <2>1. CASE Enter(r)
    BY <2>1, Enters, PlaceEnter DEF Entering
  <2>2. CASE Leave(r)
    BY <2>2, Leaves, PlaceLeave DEF Leaving
  <2>3. CASE RankReady(r)
    BY <2>3, Readies, PlaceReady DEF Readying
  <2>. QED  BY <1>3, <2>1, <2>2, <2>3 DEF RankOwn
<1>4. ASSUME NEW p \in Processes, Crash(p) PROVE PlaceInv' /\ Fixed
  BY <1>4, Crashing, PlaceCrash DEF Crashes
<1>. QED  BY <1>1, <1>2, <1>3, <1>4 DEF LaunchNext



-----------------------------------------------------------------------------
(* Who has opened which sockets.                                            *)

Opener(s) ==
  \/ s \in ApiSockets
  \/ \E i \in Workers : s \in WorkerSockets(i)
  \/ \E r \in TpRanks : s \in RankSockets(r)

LEMMA SameSockets ==
  ASSUME Fixed
  PROVE  /\ ApiSockets' = ApiSockets /\ \A i : WorkerSockets(i)' = WorkerSockets(i)
         /\ \A r : RankSockets(r)' = RankSockets(r) /\ \A s : Opener(s)' = Opener(s)
<1>1. ApiSockets' = ApiSockets
  BY DEF Fixed, ApiSockets, TokenizerAddr, Share, Socket
<1>2. \A i : WorkerSockets(i)' = WorkerSockets(i)
  BY DEF Fixed, WorkerSockets, Share, Socket
<1>3. \A r : RankSockets(r)' = RankSockets(r)
  BY DEF Fixed, RankSockets, Share, Socket
<1>4. \A s : Opener(s)' = Opener(s)
  BY <1>1, <1>2, <1>3, Sets DEF Opener
<1>. QED  BY <1>1, <1>2, <1>3, <1>4

LEMMA OpenedKept ==
  ASSUME Opened, Fixed, sockets \subseteq sockets', \A s \in sockets' : s \in sockets \/ Opener(s),
         place'[Api] /= "start" => ApiSockets \subseteq sockets',
         \A i \in Workers : place'[Worker(i)] \in {"loading", "ready"} =>
                             place[Worker(i)] \in {"loading", "ready"} \/ WorkerSockets(i) \subseteq sockets',
         \A r \in TpRanks : joined'[r] = AllRanks => joined[r] = AllRanks \/ RankSockets(r) \subseteq sockets'
  PROVE  Opened'
<1>1. /\ ApiSockets' = ApiSockets /\ \A i : WorkerSockets(i)' = WorkerSockets(i)
      /\ \A r : RankSockets(r)' = RankSockets(r) /\ TpRanks' = TpRanks /\ Workers' = Workers
  BY SameSockets, Sets
<1>2. \A s \in sockets' : Opener(s)
  BY DEF Opened, Opener
<1>3. \A i \in Workers : place'[Worker(i)] \in {"loading", "ready"} => WorkerSockets(i) \subseteq sockets'
  BY DEF Opened
<1>4. \A r \in TpRanks : joined'[r] = AllRanks => RankSockets(r) \subseteq sockets'
  BY DEF Opened
<1>. QED  BY <1>1, <1>2, <1>3, <1>4 DEF Opened, Opener

LEMMA OpenedStep == PlaceInv /\ Opened /\ LaunchNext => Opened'
<1>. SUFFICES ASSUME PlaceInv, Opened, LaunchNext PROVE Opened'
  OBVIOUS
<1>0. Fixed /\ LaunchTypeOK /\ place \in [Processes -> Places]
  BY PlaceStep DEF PlaceInv, LaunchTypeOK, Places
<1>1. CASE StartSubprocess
  <2>1. /\ sockets' = sockets \union ApiSockets /\ joined' = joined
        /\ place' = [p \in Processes |-> IF p = Api THEN "acks" ELSE "begin"]
    BY <1>1 DEF StartSubprocess
  <2>2. \A i \in Workers : place'[Worker(i)] = "begin"
    BY <2>1, Keys
  <2>3. \A s \in ApiSockets : Opener(s)
    BY DEF Opener
  <2>. QED  BY <1>0, <2>1, <2>2, <2>3, OpenedKept
<1>2. CASE WaitForAcks
  <2>1. sockets' = sockets /\ joined' = joined /\ place[Api] = "acks" /\ (To(Api, "serving") \/ place' = place)
    BY <1>2 DEF WaitForAcks
  <2>2. \A i \in Workers : place'[Worker(i)] = place[Worker(i)]
    <3>1. "serving" \in Places
      BY DEF Places, ApiPlaces
    <3>. QED  BY <1>0, <2>1, <3>1, Moves
  <2>3. ApiSockets \subseteq sockets
    BY <2>1 DEF Opened
  <2>. QED  BY <1>0, <2>1, <2>2, <2>3, OpenedKept
<1>3. ASSUME NEW i \in Workers, OpenWorker(i) PROVE Opened'
  <2>1. /\ Held /\ place[Worker(i)] = "begin" /\ WorkerMoves(i, "loading")
        /\ sockets' = sockets \union WorkerSockets(i)
    BY <1>3, Opens
  <2>2. \A s \in WorkerSockets(i) : Opener(s)
    BY DEF Opener
  <2>3. /\ place'[Api] = place[Api] /\ joined' = joined
        /\ \A j \in Workers : j /= i => place'[Worker(j)] = place[Worker(j)]
    BY <2>1 DEF WorkerMoves, Held
  <2>4. place'[Api] /= "start" => ApiSockets \subseteq sockets'
    BY <2>1, <2>3 DEF Opened
  <2>. QED  BY <1>0, <2>1, <2>2, <2>3, <2>4, OpenedKept
<1>4. ASSUME NEW i \in Workers, WorkerReady(i) PROVE Opened'
  <2>1. place[Worker(i)] = "loading" /\ WorkerMoves(i, "ready") /\ sockets' = sockets /\ joined' = joined
    <3>1. "ready" \in Places
      BY DEF Places, WorkerPlaces
    <3>. QED  BY <1>0, <1>4, <3>1, Moves DEF WorkerReady
  <2>2. /\ place'[Api] = place[Api]
        /\ \A j \in Workers : j /= i => place'[Worker(j)] = place[Worker(j)]
    BY <2>1 DEF WorkerMoves
  <2>3. place'[Api] /= "start" => ApiSockets \subseteq sockets'
    BY <2>1, <2>2 DEF Opened
  <2>. QED  BY <1>0, <2>1, <2>2, <2>3, OpenedKept
<1>5. ASSUME NEW r \in TpRanks, NEW w, RankMoves(r, w), sockets' = sockets, joined' = joined PROVE Opened'
  <2>1. place'[Api] = place[Api] /\ \A i \in Workers : place'[Worker(i)] = place[Worker(i)]
    BY <1>5 DEF RankMoves
  <2>2. place'[Api] /= "start" => ApiSockets \subseteq sockets'
    BY <1>5, <2>1 DEF Opened
  <2>. QED  BY <1>0, <1>5, <2>1, <2>2, OpenedKept
<1>6. ASSUME NEW r \in TpRanks, Enter(r) PROVE Opened'
  <2>1. Entering(r)
    BY <1>6, Enters
  <2>2. /\ place'[Api] = place[Api] /\ \A i \in Workers : place'[Worker(i)] = place[Worker(i)]
        /\ \A s \in TpRanks : s /= r => joined'[s] = joined[s]
        /\ sockets' = IF joined'[r] = AllRanks THEN sockets \union RankSockets(r) ELSE sockets
    BY <2>1 DEF Entering, RankMoves
  <2>3. \A s \in RankSockets(r) : Opener(s)
    BY DEF Opener
  <2>4. /\ sockets \subseteq sockets' /\ \A s \in sockets' : s \in sockets \/ Opener(s)
        /\ joined'[r] = AllRanks => RankSockets(r) \subseteq sockets'
    BY <2>2, <2>3
  <2>5. place'[Api] /= "start" => ApiSockets \subseteq sockets'
    BY <2>2, <2>4 DEF Opened
  <2>. QED  BY <1>0, <2>2, <2>4, <2>5, OpenedKept
<1>7. ASSUME NEW r \in TpRanks, RankOwn(r) PROVE Opened'
  <2>1. CASE Leave(r)
    <3>1. sockets' = sockets /\ joined' = joined /\ \E w \in Went(r) : RankMoves(r, w)
      BY <2>1, Leaves DEF Leaving
    <3>. QED  BY <3>1, <1>5
  <2>2. CASE RankReady(r)
    <3>1. sockets' = sockets /\ joined' = joined /\ RankMoves(r, "ready")
      BY <2>2, Readies DEF Readying, Held
    <3>. QED  BY <3>1, <1>5
  <2>. QED  BY <1>7, <1>6, <2>1, <2>2 DEF RankOwn
<1>8. ASSUME NEW p \in Processes, Crash(p) PROVE Opened'
  <2>1. Crashes(p) /\ sockets' = sockets /\ joined' = joined
    BY <1>8, Crashing DEF Crashes, Held
  <2>2. ASSUME NEW i \in Workers, WorkerMoves(i, "crashed") PROVE Opened'
    <3>1. /\ place'[Api] = place[Api] /\ place'[Worker(i)] = "crashed"
          /\ \A j \in Workers : j /= i => place'[Worker(j)] = place[Worker(j)]
      BY <2>2 DEF WorkerMoves
    <3>2. place'[Api] /= "start" => ApiSockets \subseteq sockets'
      BY <2>1, <3>1 DEF Opened
    <3>. QED  BY <1>0, <2>1, <3>1, <3>2, OpenedKept
  <2>. QED  BY <2>1, <2>2, <1>5 DEF Crashes
<1>. QED  BY <1>1, <1>2, <1>3, <1>4, <1>7, <1>8 DEF LaunchNext, ApiOwn, WorkerOwn



-----------------------------------------------------------------------------
(* What the ranks share of their memory.                                    *)

LEMMA SameOffers ==
  ASSUME Fixed, NEW k, \A s \in TpRanks : offered'[s][k] = offered[s][k] PROVE Offers(k)' = Offers(k)
BY Sets DEF Offers

LEMMA SharesEnter ==
  ASSUME PlaceInv, \A s \in TpRanks : Shares(s), NEW r \in TpRanks, Entering(r), NEW s \in TpRanks
  PROVE  Shares(s)'
<1>1. /\ joined \in [TpRanks -> 0 .. AllRanks] /\ joined' \in [TpRanks -> 0 .. AllRanks]
      /\ joined'[r] = joined[r] + 1 /\ \A q \in TpRanks : q /= r => joined'[q] = joined[q]
      /\ TpRanks' = TpRanks /\ oldFree' = oldFree /\ numPages' = numPages
  BY Sets DEF PlaceInv, LaunchTypeOK, Entering
<1>2. \A k \in BeforeLoad .. AtEnd : joined[r] >= k => Offers(k)' = Offers(k)
  <2>1. ASSUME NEW k \in BeforeLoad .. AtEnd, joined[r] >= k PROVE Offers(k)' = Offers(k)
    <3>1. k /= joined'[r]
      BY <1>1, <2>1 DEF BeforeLoad, AtEnd, AllRanks
    <3>. QED  BY <2>1, <3>1, SameOffers DEF Entering
  <2>. QED  BY <2>1
<1>3. \A k \in Nat : Entered(k) => Entered(k)'
  BY <1>1 DEF Entered, AllRanks
<1>4. BeforeLoad \in BeforeLoad .. AtEnd /\ AfterLoad \in BeforeLoad .. AtEnd /\ BeforeLoad \in Nat /\ AfterLoad \in Nat
  BY DEF BeforeLoad, AfterLoad, AtEnd
<1>5. Loads(s)' => Loads(s)
  <2>1. CASE s = r
    <3>1. place[Rank(r)] = "begin" /\ place'[Rank(r)] = "in"
      BY DEF Entering, RankMoves
    <3>. QED  BY <1>1, <2>1, <3>1 DEF Loads, BeforeLoad, AllRanks
  <2>2. CASE s /= r
    <3>1. place'[Rank(s)] = place[Rank(s)] /\ joined'[s] = joined[s]
      BY <2>2 DEF Entering, RankMoves
    <3>. QED  BY <3>1 DEF Loads
  <2>. QED  BY <2>1, <2>2
<1>6. Loads(s)' => /\ Entered(BeforeLoad)' /\ oldFree'[s] = Max(Offers(BeforeLoad)')
                   /\ Max(Offers(BeforeLoad)') - Min(Offers(BeforeLoad)') <= Imbalance
  <2>. SUFFICES ASSUME Loads(s)'
                PROVE  /\ Entered(BeforeLoad)' /\ oldFree'[s] = Max(Offers(BeforeLoad)')
                       /\ Max(Offers(BeforeLoad)') - Min(Offers(BeforeLoad)') <= Imbalance
    OBVIOUS
  <2>1. /\ Entered(BeforeLoad) /\ oldFree[s] = Max(Offers(BeforeLoad))
        /\ Max(Offers(BeforeLoad)) - Min(Offers(BeforeLoad)) <= Imbalance
    BY <1>5 DEF Shares
  <2>2. Offers(BeforeLoad)' = Offers(BeforeLoad)
    BY <1>2, <1>4, <2>1 DEF Entered
  <2>. QED  BY <1>1, <1>3, <1>4, <2>1, <2>2
<1>7. numPages'[s] /= 0 => /\ Entered(AfterLoad)'
                           /\ numPages'[s] = PagesFor(Max(Offers(BeforeLoad)'), Max(Offers(AfterLoad)'))
  <2>. SUFFICES ASSUME numPages'[s] /= 0
                PROVE  /\ Entered(AfterLoad)'
                       /\ numPages'[s] = PagesFor(Max(Offers(BeforeLoad)'), Max(Offers(AfterLoad)'))
    OBVIOUS
  <2>1. Entered(AfterLoad) /\ numPages[s] = PagesFor(Max(Offers(BeforeLoad)), Max(Offers(AfterLoad)))
    BY <1>1 DEF Shares
  <2>2. joined[r] >= AfterLoad /\ joined[r] >= BeforeLoad
    BY <1>1, <2>1 DEF Entered, AfterLoad, BeforeLoad, AllRanks
  <2>3. Offers(BeforeLoad)' = Offers(BeforeLoad) /\ Offers(AfterLoad)' = Offers(AfterLoad)
    BY <1>2, <1>4, <2>2
  <2>. QED  BY <1>1, <1>3, <1>4, <2>1, <2>3
<1>8. joined'[s] \in BeforeLoad .. AtEnd => memory'[s] = offered'[s][joined'[s]]
  BY DEF Entering, Shares
<1>9. joined'[s] >= AfterLoad => offered'[s][AfterLoad] = offered'[s][BeforeLoad] - Weights
  <2>1. CASE s /= r
    BY <2>1 DEF Entering, Shares
  <2>2. CASE s = r /\ joined'[r] = AfterLoad
    <3>1. joined[r] = BeforeLoad /\ BeforeLoad /= AfterLoad
      BY <1>1, <2>2 DEF BeforeLoad, AfterLoad, AllRanks
    <3>2. memory[r] = offered[r][BeforeLoad]
      BY <1>4, <3>1 DEF Shares
    <3>3. offered'[r][AfterLoad] = memory'[r] /\ memory'[r] = memory[r] - Weights
      BY <1>4, <2>2 DEF Entering
    <3>4. offered'[r][BeforeLoad] = offered[r][BeforeLoad]
      BY <1>4, <2>2, <3>1 DEF Entering
    <3>. QED  BY <2>2, <3>2, <3>3, <3>4
  <2>3. CASE s = r /\ joined'[r] /= AfterLoad
    <3>. SUFFICES ASSUME joined'[r] >= AfterLoad
                  PROVE  offered'[r][AfterLoad] = offered'[r][BeforeLoad] - Weights
      BY <2>3
    <3>1. joined[r] >= AfterLoad /\ joined'[r] /= BeforeLoad
      BY <1>1, <2>3 DEF BeforeLoad, AfterLoad, AllRanks
    <3>2. offered'[r][AfterLoad] = offered[r][AfterLoad] /\ offered'[r][BeforeLoad] = offered[r][BeforeLoad]
      BY <1>4, <2>3, <3>1 DEF Entering
    <3>. QED  BY <3>1, <3>2 DEF Shares
  <2>. QED  BY <2>1, <2>2, <2>3
<1>. QED  BY <1>6, <1>7, <1>8, <1>9 DEF Shares

LEMMA SharesLeave ==
  ASSUME PlaceInv, \A s \in TpRanks : Shares(s), NEW r \in TpRanks, Leaving(r), NEW s \in TpRanks
  PROVE  Shares(s)'
<1>1. /\ TpRanks' = TpRanks /\ joined' = joined /\ memory' = memory /\ offered' = offered
      /\ joined \in [TpRanks -> 0 .. AllRanks]
  BY Sets DEF PlaceInv, LaunchTypeOK, Leaving
<1>2. /\ Offers(BeforeLoad)' = Offers(BeforeLoad) /\ Offers(AfterLoad)' = Offers(AfterLoad)
      /\ Entered(BeforeLoad)' = Entered(BeforeLoad) /\ Entered(AfterLoad)' = Entered(AfterLoad)
  BY <1>1 DEF Offers, Entered
<1>3. CASE s /= r
  <2>1. oldFree'[s] = oldFree[s] /\ numPages'[s] = numPages[s] /\ place'[Rank(s)] = place[Rank(s)]
    BY <1>3 DEF Leaving, RankMoves
  <2>2. Loads(s)' = Loads(s)
    BY <1>1, <2>1 DEF Loads
  <2>. QED  BY <1>1, <1>2, <2>1, <2>2 DEF Shares
<1>4. CASE s = r
  <2>1. Loads(r)' => /\ Entered(BeforeLoad) /\ oldFree'[r] = Max(Offers(BeforeLoad))
                     /\ Max(Offers(BeforeLoad)) - Min(Offers(BeforeLoad)) <= Imbalance
    <3>. SUFFICES ASSUME Loads(r)'
                  PROVE  /\ Entered(BeforeLoad) /\ oldFree'[r] = Max(Offers(BeforeLoad))
                         /\ Max(Offers(BeforeLoad)) - Min(Offers(BeforeLoad)) <= Imbalance
      OBVIOUS
    <3>1. CASE joined[r] = BeforeLoad
      <4>1. place'[Rank(r)] = "begin"
        BY <1>1, <3>1 DEF Loads, BeforeLoad
      <4>. QED  BY <3>1, <4>1 DEF Leaving
    <3>2. CASE joined[r] /= BeforeLoad
      <4>1. Loads(r) /\ oldFree'[r] = oldFree[r]
        BY <1>1, <3>2 DEF Loads, Leaving
      <4>. QED  BY <4>1 DEF Shares
    <3>. QED  BY <3>1, <3>2
  <2>2. numPages'[r] /= 0 => /\ Entered(AfterLoad)
                             /\ numPages'[r] = PagesFor(Max(Offers(BeforeLoad)), Max(Offers(AfterLoad)))
    <3>1. CASE numPages'[r] = numPages[r]
      BY <3>1 DEF Shares
    <3>2. CASE numPages'[r] /= numPages[r]
      <4>1. joined[r] = AfterLoad /\ numPages'[r] = PagesFor(oldFree[r], Max(Offers(AfterLoad)))
        BY <3>2 DEF Leaving
      <4>2. Loads(r)
        BY <4>1 DEF Loads, AfterLoad, BeforeLoad
      <4>3. oldFree[r] = Max(Offers(BeforeLoad))
        BY <4>2 DEF Shares
      <4>4. Entered(AfterLoad)
        BY <4>1 DEF Leaving
      <4>. QED  BY <4>1, <4>3, <4>4
    <3>. QED  BY <3>1, <3>2
  <2>. QED  BY <1>1, <1>2, <1>4, <2>1, <2>2 DEF Shares
<1>. QED  BY <1>3, <1>4

\* Places change, but no rank passes a collective.
LEMMA SharesKept ==
  ASSUME Fixed, Held, NEW s \in TpRanks, Shares(s), Loads(s)' => Loads(s) PROVE Shares(s)'
<1>1. /\ TpRanks' = TpRanks /\ joined' = joined /\ memory' = memory /\ offered' = offered
      /\ oldFree' = oldFree /\ numPages' = numPages
  BY Sets DEF Held
<1>2. /\ Offers(BeforeLoad)' = Offers(BeforeLoad) /\ Offers(AfterLoad)' = Offers(AfterLoad)
      /\ Entered(BeforeLoad)' = Entered(BeforeLoad) /\ Entered(AfterLoad)' = Entered(AfterLoad)
  BY <1>1 DEF Offers, Entered
<1>. QED  BY <1>1, <1>2 DEF Shares

LEMMA SharesStep ==
  PlaceInv /\ (\A s \in TpRanks : Shares(s)) /\ LaunchNext => \A s \in TpRanks : Shares(s)'
<1>. SUFFICES ASSUME PlaceInv, \A q \in TpRanks : Shares(q), LaunchNext, NEW s \in TpRanks PROVE Shares(s)'
  OBVIOUS
<1>0. Fixed /\ LaunchTypeOK /\ place \in [Processes -> Places]
  BY PlaceStep DEF PlaceInv, LaunchTypeOK, Places
<1>1. ASSUME Held, place'[Rank(s)] = place[Rank(s)] \/ place'[Rank(s)] /= "begin" \/ joined[s] = 0 PROVE Shares(s)'
  <2>1. Loads(s)' => Loads(s)
    BY <1>1 DEF Held, Loads, BeforeLoad
  <2>. QED  BY <1>0, <1>1, <2>1, SharesKept
<1>2. CASE StartSubprocess
  <2>1. Held /\ place[Api] = "start"
    BY <1>2 DEF StartSubprocess, Held
  <2>2. joined[s] = 0
    BY <2>1 DEF PlaceInv, Started, Stage
  <2>. QED  BY <1>1, <2>1, <2>2
<1>3. CASE WaitForAcks
  <2>1. Held /\ (To(Api, "serving") \/ place' = place)
    BY <1>3 DEF WaitForAcks, Held
  <2>2. place'[Rank(s)] = place[Rank(s)]
    <3>1. "serving" \in Places
      BY DEF Places, ApiPlaces
    <3>. QED  BY <1>0, <2>1, <3>1, Moves
  <2>. QED  BY <1>1, <2>1, <2>2
<1>4. ASSUME NEW i \in Workers, WorkerOwn(i) PROVE Shares(s)'
  <2>1. CASE OpenWorker(i)
    <3>1. Held /\ place'[Rank(s)] = place[Rank(s)]
      BY <2>1, Opens DEF WorkerMoves
    <3>. QED  BY <1>1, <3>1
  <2>2. CASE WorkerReady(i)
    <3>1. "ready" \in Places /\ To(Worker(i), "ready") /\ Held
      BY <2>2 DEF Places, WorkerPlaces, WorkerReady, Held
    <3>2. place'[Rank(s)] = place[Rank(s)]
      BY <1>0, <3>1, Moves DEF WorkerMoves
    <3>. QED  BY <1>1, <3>1, <3>2
  <2>. QED  BY <1>4, <2>1, <2>2 DEF WorkerOwn
<1>5. ASSUME NEW r \in TpRanks, RankOwn(r) PROVE Shares(s)'
  <2>1. CASE Enter(r)
    BY <2>1, Enters, SharesEnter
  <2>2. CASE Leave(r)
    BY <2>2, Leaves, SharesLeave
  <2>3. CASE RankReady(r)
    <3>1. Held /\ RankMoves(r, "ready")
      BY <2>3, Readies DEF Readying
    <3>2. place'[Rank(s)] = place[Rank(s)] \/ place'[Rank(s)] /= "begin"
      BY <3>1 DEF RankMoves
    <3>. QED  BY <1>1, <3>1, <3>2
  <2>. QED  BY <1>5, <2>1, <2>2, <2>3 DEF RankOwn
<1>6. ASSUME NEW p \in Processes, Crash(p) PROVE Shares(s)'
  <2>1. Crashes(p)
    BY <1>6, Crashing
  <2>2. Held /\ (place'[Rank(s)] = place[Rank(s)] \/ place'[Rank(s)] /= "begin")
    BY <2>1 DEF Crashes, RankMoves, WorkerMoves
  <2>. QED  BY <1>1, <2>2
<1>. QED  BY <1>2, <1>3, <1>4, <1>5, <1>6 DEF LaunchNext, ApiOwn



-----------------------------------------------------------------------------
(* What a launch comes to.                                                  *)

LEMMA LaunchCorrect == LaunchSpec => []LaunchInv
<1>1. LaunchInit => LaunchInv
  <2>. SUFFICES ASSUME LaunchInit PROVE LaunchInv
    OBVIOUS
  <2>1. world \in Nat \ {0} /\ toks \in Nat
    BY LauncherAssumption DEF LaunchInit
  <2>2. /\ place = [p \in Processes |-> IF p = Api THEN "start" ELSE "unborn"] /\ sockets = {}
        /\ joined = [r \in TpRanks |-> 0] /\ acks = 0 /\ heard = 0
        /\ offered = [r \in TpRanks |-> [k \in BeforeLoad .. AtEnd |-> 0]]
        /\ oldFree = [r \in TpRanks |-> 0] /\ numPages = [r \in TpRanks |-> 0]
        /\ memory \in [TpRanks -> Int]
    <3>1. memory \in [TpRanks -> Memories] /\ Memories \subseteq Int
      BY LauncherAssumption DEF LaunchInit
    <3>2. memory \in [TpRanks -> Int]
      BY <3>1
    <3>. QED  BY <3>2 DEF LaunchInit
  <2>3. /\ place[Api] = "start" /\ \A r \in TpRanks : place[Rank(r)] = "unborn"
        /\ \A i \in Workers : place[Worker(i)] = "unborn"
    BY <2>2, Keys
  <2>4. place \in [Processes -> Places]
    BY <2>2 DEF Places, ApiPlaces, RankPlaces
  <2>5. LaunchTypeOK
    BY <2>1, <2>2, <2>3, <2>4 DEF LaunchTypeOK, Places, ApiPlaces, RankPlaces, WorkerPlaces, AllRanks
  <2>6. PlaceInv
    BY <2>2, <2>3, <2>5 DEF PlaceInv, Started, Stage, AllRanks
  <2>7. Acked
    <3>1. ReadyWorkers = {} /\ Primary = 0
      BY <2>3, <2>5, FirstRank DEF ReadyWorkers, Primary
    <3>2. Cardinality(ReadyWorkers) = 0
      BY <3>1, FS_EmptySet
    <3>. QED  BY <2>2, <2>3, <3>1, <3>2 DEF Acked
  <2>8. Opened
    BY <2>2, <2>3 DEF Opened, AllRanks
  <2>9. \A r \in TpRanks : Shares(r)
    BY <2>2 DEF Shares, Loads, BeforeLoad, AfterLoad, AtEnd
  <2>. QED  BY <2>6, <2>7, <2>8, <2>9 DEF LaunchInv
<1>2. LaunchInv /\ [LaunchNext]_launchVars => LaunchInv'
  <2>1. LaunchInv /\ LaunchNext => LaunchInv'
    <3>. SUFFICES ASSUME LaunchInv, LaunchNext PROVE LaunchInv'
      OBVIOUS
    <3>1. PlaceInv' /\ Fixed
      BY PlaceStep DEF LaunchInv
    <3>2. Acked' /\ Opened'
      BY AckedStep, OpenedStep DEF LaunchInv
    <3>3. TpRanks' = TpRanks /\ \A s \in TpRanks : Shares(s)'
      BY <3>1, SharesStep, Sets DEF LaunchInv
    <3>. QED  BY <3>1, <3>2, <3>3 DEF LaunchInv
  <2>2. LaunchInv /\ UNCHANGED launchVars => LaunchInv'
    <3>. SUFFICES ASSUME LaunchInv, UNCHANGED launchVars PROVE LaunchInv'
      OBVIOUS
    <3>1. /\ UNCHANGED <<world, toks, place, joined, memory, offered, oldFree, numPages, sockets, acks, heard>>
          /\ Fixed /\ Held
      BY DEF launchVars, Fixed, Held
    <3>2. TpRanks' = TpRanks /\ Workers' = Workers /\ Processes' = Processes
      BY <3>1, Sets
    <3>3. PlaceInv'
      BY <3>1, <3>2 DEF LaunchInv, PlaceInv, LaunchTypeOK, Started, Stage
    <3>4. Acked'
      BY <3>1, <3>2 DEF LaunchInv, Acked, ReadyWorkers, Primary, AcksExpected
    <3>5. Opened'
      BY <3>1, OpenedKept DEF LaunchInv, Opened
    <3>6. \A s \in TpRanks : Shares(s)'
      BY <3>1, SharesKept DEF LaunchInv, Loads
    <3>. QED  BY <3>2, <3>3, <3>4, <3>5, <3>6 DEF LaunchInv
  <2>. QED  BY <2>1, <2>2
<1>. QED  BY <1>1, <1>2, PTL DEF LaunchSpec

LEMMA AllReady ==
  ASSUME LaunchInv, Serving
  PROVE  ReadyWorkers = Workers /\ place[Rank(0)] = "ready"
<1>1. LaunchTypeOK /\ heard = toks + 2 /\ acks + heard = Cardinality(ReadyWorkers) + Primary
  BY DEF LaunchInv, PlaceInv, Acked, Serving, AcksExpected
<1>2. /\ Cardinality(ReadyWorkers) \in Nat /\ Cardinality(ReadyWorkers) <= toks + 1
      /\ Cardinality(ReadyWorkers) = toks + 1 => ReadyWorkers = Workers
  BY <1>1, ReadyCount
<1>3. acks \in Nat /\ toks \in Nat /\ Primary \in {0, 1}
  BY <1>1 DEF LaunchTypeOK, Primary
<1>4. Cardinality(ReadyWorkers) = toks + 1 /\ Primary = 1
  BY <1>1, <1>2, <1>3
<1>. QED  BY <1>2, <1>4 DEF Primary

LEMMA Ready == LaunchInv => ServingMeansReady
<1>. SUFFICES ASSUME LaunchInv, Serving
              PROVE  /\ \A i \in Workers : place[Worker(i)] = "ready"
                     /\ \A r \in TpRanks : joined[r] = AllRanks /\ place[Rank(r)] \in {"in", "synced", "ready", "crashed"}
  BY DEF ServingMeansReady
<1>1. \A i \in Workers : place[Worker(i)] = "ready"
  BY AllReady DEF ReadyWorkers
<1>2. \A r \in TpRanks : joined[r] = AllRanks
  BY AllReady, FirstRank DEF LaunchInv, PlaceInv, Stage
<1>3. \A r \in TpRanks : place[Rank(r)] \in {"in", "synced", "ready", "crashed"}
  <2>1. ASSUME NEW r \in TpRanks PROVE place[Rank(r)] \in {"in", "synced", "ready", "crashed"}
    <3>1. joined[r] = AllRanks /\ joined[r] /= 0 /\ ~(joined[r] < AllRanks)
      BY <1>2 DEF AllRanks
    <3>2. place[Rank(r)] \in RankPlaces /\ Stage(r)
      BY DEF LaunchInv, PlaceInv, LaunchTypeOK
    <3>. QED  BY <3>1, <3>2 DEF Stage, RankPlaces
  <2>. QED  BY <2>1
<1>. QED  BY <1>1, <1>2, <1>3

\* The one socket that binds an address
Binder(a) ==
  CASE a = "frontend"    -> Socket(Api, "pull", "frontend", TRUE)
    [] a = "tokenizer"   -> Socket(Api, "push", "tokenizer", TRUE)
    [] a = "detokenizer" -> IF Share THEN Socket(Worker(0), "pull", "detokenizer", TRUE)
                                     ELSE Socket(Rank(0), "push", "detokenizer", TRUE)
    [] a = "backend"     -> Socket(Rank(0), "pull", "backend", TRUE)
    [] a = "broadcast"   -> Socket(Rank(0), "pub", "broadcast", TRUE)

LEMMA BoundOnce ==
  ASSUME NEW s, Opener(s), s.bind
  PROVE  s = Binder(s.addr)
<1>1. CASE s \in ApiSockets
  <2>1. CASE Share
    <3>1. ApiSockets = {Socket(Api, "pull", "frontend", TRUE), Socket(Api, "push", "detokenizer", FALSE)}
      BY <2>1 DEF ApiSockets, TokenizerAddr
    <3>. QED  BY <1>1, <3>1 DEF Socket, Binder
  <2>2. CASE ~Share
    BY <1>1, <2>2 DEF ApiSockets, Socket, TokenizerAddr, Binder
  <2>. QED  BY <2>1, <2>2
<1>2. ASSUME NEW i \in Workers, s \in WorkerSockets(i) PROVE s = Binder(s.addr)
  <2>1. CASE Share
    <3>1. i = 0 /\ i = toks
      BY <2>1 DEF Share, Workers
    <3>2. WorkerSockets(i) = {Socket(Worker(0), "push", "backend", FALSE), Socket(Worker(0), "push", "frontend", FALSE),
                              Socket(Worker(0), "pull", "detokenizer", TRUE)}
      BY <2>1, <3>1 DEF WorkerSockets
    <3>3. s = Socket(Worker(0), "pull", "detokenizer", TRUE)
      BY <1>2, <3>2 DEF Socket
    <3>4. s.addr = "detokenizer"
      BY <3>3 DEF Socket
    <3>. QED  BY <2>1, <3>3, <3>4 DEF Binder
  <2>2. CASE ~Share
    BY <1>2, <2>2 DEF WorkerSockets, Socket
  <2>. QED  BY <2>1, <2>2
<1>3. ASSUME NEW r \in TpRanks, s \in RankSockets(r) PROVE s = Binder(s.addr)
  <2>1. CASE r = 0
    <3>1. \/ s = Socket(Rank(0), "pull", "backend", TRUE)
          \/ s = Socket(Rank(0), "push", "detokenizer", ~Share)
          \/ s = Socket(Rank(0), "pub", "broadcast", TRUE)
      BY <1>3, <2>1 DEF RankSockets
    <3>2. CASE Share
      <4>1. Socket(Rank(0), "push", "detokenizer", ~Share) = Socket(Rank(0), "push", "detokenizer", FALSE)
        BY <3>2
      <4>2. \/ s = Socket(Rank(0), "pull", "backend", TRUE)
            \/ s = Socket(Rank(0), "push", "detokenizer", FALSE)
            \/ s = Socket(Rank(0), "pub", "broadcast", TRUE)
        BY <3>1, <4>1
      <4>. QED  BY <4>2 DEF Socket, Binder
    <3>3. CASE ~Share
      BY <3>1, <3>3 DEF Socket, Binder
    <3>. QED  BY <3>2, <3>3
  <2>2. CASE r /= 0
    <3>1. s = Socket(Rank(r), "sub", "broadcast", FALSE)
      BY <1>3, <2>2 DEF RankSockets
    <3>. QED  BY <3>1 DEF Socket
  <2>. QED  BY <2>1, <2>2
<1>. QED  BY <1>1, <1>2, <1>3 DEF Opener



Bound(a) == (\E s \in sockets : s.addr = a /\ s.bind) /\ \E s \in sockets : s.addr = a /\ s.end \in {"pull", "sub"}

LEMMA Wires == LaunchInv => Wired
<1>. SUFFICES ASSUME LaunchInv PROVE Wired
  OBVIOUS
<1>1. \A s \in sockets : Opener(s)
  BY DEF LaunchInv, Opened, Opener
<1>2. ASSUME NEW s \in sockets, NEW t \in sockets, s.addr = t.addr, s.bind, t.bind PROVE s = t
  <2>1. s = Binder(s.addr) /\ t = Binder(t.addr)
    BY <1>1, <1>2, BoundOnce
  <2>. QED  BY <1>2, <2>1
<1>3. ASSUME Serving, NEW a, a \in {s.addr : s \in sockets} PROVE Bound(a)
  <2>0. LaunchTypeOK /\ world \in Nat /\ toks \in Nat /\ 0 \in TpRanks /\ 0 \in Workers /\ toks \in Workers
    BY FirstRank DEF LaunchInv, PlaceInv, LaunchTypeOK, Workers
  <2>1. ApiSockets \subseteq sockets
    BY <1>3 DEF LaunchInv, Opened, Serving
  <2>2. \A i \in Workers : WorkerSockets(i) \subseteq sockets
    BY <1>3, AllReady DEF LaunchInv, Opened, ReadyWorkers
  <2>3. \A r \in TpRanks : RankSockets(r) \subseteq sockets
    BY <1>3, Ready DEF LaunchInv, Opened, ServingMeansReady
  <2>4. Bound("frontend")
    <3>1. Socket(Api, "pull", "frontend", TRUE) \in sockets
      BY <2>1 DEF ApiSockets
    <3>. QED  BY <3>1 DEF Socket, Bound
  <2>5. Bound("backend")
    <3>1. Socket(Rank(0), "pull", "backend", TRUE) \in sockets
      BY <2>0, <2>3 DEF RankSockets
    <3>. QED  BY <3>1 DEF Socket, Bound
  <2>6. world > 1 => Bound("broadcast")
    <3>. SUFFICES ASSUME world > 1 PROVE Bound("broadcast")
      OBVIOUS
    <3>1. 1 \in TpRanks
      BY <2>0 DEF TpRanks
    <3>2. Socket(Rank(0), "pub", "broadcast", TRUE) \in RankSockets(0)
      BY DEF RankSockets
    <3>3. Socket(Rank(1), "sub", "broadcast", 1 = 0) \in RankSockets(1)
      BY DEF RankSockets
    <3>4. Socket(Rank(0), "pub", "broadcast", TRUE) \in sockets /\ Socket(Rank(1), "sub", "broadcast", 1 = 0) \in sockets
      BY <2>0, <2>3, <3>1, <3>2, <3>3
    <3>. QED  BY <3>4 DEF Socket, Bound
  <2>7. Bound("detokenizer")
    <3>1. CASE Share
      <4>1. toks = 0
        BY <3>1 DEF Share
      <4>2. Socket(Worker(0), "pull", "detokenizer", TRUE) \in WorkerSockets(0)
        BY <3>1, <4>1 DEF WorkerSockets
      <4>3. Socket(Worker(0), "pull", "detokenizer", TRUE) \in sockets
        BY <2>0, <2>2, <4>2
      <4>. QED  BY <4>3 DEF Socket, Bound
    <3>2. CASE ~Share
      <4>1. Socket(Rank(0), "push", "detokenizer", TRUE) \in RankSockets(0)
        BY <3>2 DEF RankSockets
      <4>2. Socket(Worker(toks), "pull", "detokenizer", Share) \in WorkerSockets(toks)
        BY <3>2 DEF WorkerSockets
      <4>3. Socket(Rank(0), "push", "detokenizer", TRUE) \in sockets /\ Socket(Worker(toks), "pull", "detokenizer", Share) \in sockets
        BY <2>0, <2>2, <2>3, <4>1, <4>2
      <4>. QED  BY <4>3 DEF Socket, Bound
    <3>. QED  BY <3>1, <3>2
  <2>8. ~Share => Bound("tokenizer")
    <3>. SUFFICES ASSUME ~Share PROVE Bound("tokenizer")
      OBVIOUS
    <3>1. Socket(Api, "push", "tokenizer", TRUE) \in ApiSockets
      BY DEF ApiSockets, TokenizerAddr
    <3>2. toks /= 0
      BY DEF Share
    <3>3. Socket(Worker(0), "pull", "tokenizer", Share) \in WorkerSockets(0)
      BY <3>2 DEF WorkerSockets
    <3>4. Socket(Api, "push", "tokenizer", TRUE) \in sockets /\ Socket(Worker(0), "pull", "tokenizer", Share) \in sockets
      BY <2>0, <2>1, <2>2, <3>1, <3>3
    <3>. QED  BY <3>4 DEF Socket, Bound
  <2>9. PICK t \in sockets : a = t.addr
    BY <1>3
  <2>10. \/ a \in {"frontend", "backend", "detokenizer"} \/ (a = "tokenizer" /\ ~Share) \/ (a = "broadcast" /\ world > 1)
    <3>1. CASE t \in ApiSockets
      BY <2>9, <3>1 DEF ApiSockets, Socket, TokenizerAddr
    <3>2. ASSUME NEW i \in Workers, t \in WorkerSockets(i)
          PROVE  a \in {"frontend", "backend", "detokenizer"} \/ (a = "tokenizer" /\ ~Share)
      <4>1. t.addr = "tokenizer" => ~Share
        BY <2>0, <3>2 DEF WorkerSockets, Socket, Workers, Share
      <4>2. t.addr \in {"frontend", "backend", "detokenizer", "tokenizer"}
        BY <3>2 DEF WorkerSockets, Socket
      <4>. QED  BY <2>9, <4>1, <4>2
    <3>3. ASSUME NEW r \in TpRanks, t \in RankSockets(r)
          PROVE  a \in {"backend", "detokenizer"} \/ (a = "broadcast" /\ world > 1)
      BY <2>9, <3>3 DEF RankSockets, Socket
    <3>. QED  BY <1>1, <3>1, <3>2, <3>3 DEF Opener
  <2>. QED  BY <2>4, <2>5, <2>6, <2>7, <2>8, <2>10
<1>. QED  BY <1>2, <1>3 DEF Wired, Bound

(* A service that takes requests is whole, whatever crashed on the way: every
   worker is in its loop, every rank has built its scheduler, no address is
   bound twice and each has the one that binds it and one that reads it. *)
THEOREM ServesWholeCorrect == LaunchSpec => []ServesWhole
<1>1. LaunchInv => ServesWhole
  BY Ready, Wires DEF ServesWhole
<1>. QED  BY <1>1, LaunchCorrect, PTL

-----------------------------------------------------------------------------
(* The sizes of the caches.                                                 *)

LEMMA Sizes == LaunchInv => SameSize
BY DEF LaunchInv, Shares, SameSize

LEMMA FloorLow == ASSUME NEW a \in Int, NEW n \in Nat \ {0} PROVE (a \div n) \in Int /\ (a \div n) * n <= a
OBVIOUS

LEMMA Percentage ==
  ASSUME NEW p \in 0 .. 100, NEW f \in Int, NEW e \in Int, (100 - p) * f >= 100 * e
  PROVE  ((p * f) \div 100) \in Int /\ (p * f) \div 100 <= f - e
<1>. DEFINE g == p * f
            h == (100 - p) * f
<1>1. g \in Int /\ h = 100 * f - g
  OBVIOUS
<1>2. h >= 100 * e
  OBVIOUS
<1>. HIDE DEF g, h
<1>3. (g \div 100) \in Int /\ g \div 100 <= f - e
  BY <1>1, <1>2
<1>. QED  BY <1>3 DEF g

\* Every rank's weights take the same, so the most that is lost after they
\* are loaded is that much less than the most there was before.
LEMMA MostLeft ==
  ASSUME LaunchInv, Entered(AfterLoad)
  PROVE  Max(Offers(AfterLoad)) = Max(Offers(BeforeLoad)) - Weights
<1>1. LaunchTypeOK /\ BeforeLoad \in BeforeLoad .. AtEnd /\ AfterLoad \in BeforeLoad .. AtEnd /\ Weights \in Nat
  BY LauncherAssumption DEF LaunchInv, PlaceInv, BeforeLoad, AfterLoad, AtEnd
<1>2. \A s \in TpRanks : offered[s][AfterLoad] = offered[s][BeforeLoad] - Weights
  BY DEF LaunchInv, Shares, Entered
<1>. DEFINE M == Max(Offers(BeforeLoad))
            L == Max(Offers(AfterLoad))
<1>3. /\ \A s \in TpRanks : offered[s][BeforeLoad] \in Int /\ offered[s][BeforeLoad] <= M
      /\ \E s \in TpRanks : offered[s][BeforeLoad] = M
      /\ M \in Int
  BY <1>1, OffersMost
<1>4. /\ \A s \in TpRanks : offered[s][AfterLoad] \in Int /\ offered[s][AfterLoad] <= L
      /\ \E s \in TpRanks : offered[s][AfterLoad] = L
      /\ L \in Int
  BY <1>1, OffersMost
<1>. HIDE DEF M, L
<1>5. M - Weights <= L
  <2>1. PICK s \in TpRanks : offered[s][BeforeLoad] = M
    BY <1>3
  <2>2. offered[s][AfterLoad] = M - Weights /\ offered[s][AfterLoad] <= L
    BY <1>2, <1>4, <2>1
  <2>. QED  BY <2>2
<1>6. L <= M - Weights
  <2>1. PICK s \in TpRanks : offered[s][AfterLoad] = L
    BY <1>4
  <2>2. L = offered[s][BeforeLoad] - Weights /\ offered[s][BeforeLoad] <= M /\ offered[s][BeforeLoad] \in Int
    BY <1>2, <1>3, <2>1
  <2>. QED  BY <1>1, <1>3, <2>2
<1>7. L = M - Weights
  BY <1>1, <1>3, <1>4, <1>5, <1>6
<1>. QED  BY <1>7 DEF M, L

LEMMA Fits == LaunchInv => CacheFits
<1>. SUFFICES ASSUME LaunchInv, NEW r \in TpRanks, numPages[r] /= 0, joined[r] = AfterLoad,
                     (100 - Percent) * oldFree[r] >= 100 * (Imbalance + PageMemory)
              PROVE  (numPages[r] + 1) * PageMemory <= memory[r]
  BY DEF CacheFits
<1>1. LaunchTypeOK /\ BeforeLoad \in BeforeLoad .. AtEnd /\ AfterLoad \in BeforeLoad .. AtEnd
  BY DEF LaunchInv, PlaceInv, BeforeLoad, AfterLoad, AtEnd
<1>2. Loads(r)
  BY DEF Loads, AfterLoad, BeforeLoad
<1>3. /\ oldFree[r] = Max(Offers(BeforeLoad)) /\ Max(Offers(BeforeLoad)) - Min(Offers(BeforeLoad)) <= Imbalance
      /\ Entered(AfterLoad) /\ numPages[r] = PagesFor(Max(Offers(BeforeLoad)), Max(Offers(AfterLoad)))
  BY <1>2 DEF LaunchInv, Shares
<1>4. memory[r] = offered[r][AfterLoad]
  BY <1>1 DEF LaunchInv, Shares
<1>5. offered[r][AfterLoad] = offered[r][BeforeLoad] - Weights
  BY DEF LaunchInv, Shares, AfterLoad
<1>6. Max(Offers(AfterLoad)) = Max(Offers(BeforeLoad)) - Weights
  BY <1>3, MostLeft
<1>. DEFINE M == Max(Offers(BeforeLoad))
            m == Min(Offers(BeforeLoad))
            o == offered[r][BeforeLoad]
            e == Imbalance + PageMemory
            d == (Percent * M) \div 100
            n == numPages[r]
<1>7. /\ M \in Int /\ m \in Int /\ o \in Int /\ m <= o /\ M - m <= Imbalance
      /\ memory[r] = o - Weights
  BY <1>1, <1>3, <1>4, <1>5, OffersMost
<1>8. n = (d - (M - (M - Weights))) \div PageMemory
  BY <1>3, <1>6 DEF PagesFor
<1>9. /\ Weights \in Nat /\ PageMemory \in Nat \ {0} /\ Imbalance \in Nat /\ Percent \in 0 .. 100
      /\ e \in Int /\ (100 - Percent) * M >= 100 * e
  <2>1. Weights \in Nat /\ PageMemory \in Nat \ {0} /\ Imbalance \in Nat /\ Percent \in 0 .. 100
    BY LauncherAssumption
  <2>. QED  BY <1>3, <2>1
<1>. HIDE DEF M, m, o, n
<1>10. d \in Int /\ d <= M - e
  <2>. HIDE DEF e
  <2>. QED  BY <1>7, <1>9, Percentage
<1>. HIDE DEF d
<1>11. n \in Int /\ n * PageMemory <= d - Weights
  <2>. DEFINE a == d - Weights
  <2>1. a \in Int /\ d - (M - (M - Weights)) = a
    BY <1>7, <1>9, <1>10
  <2>. HIDE DEF a
  <2>2. n = a \div PageMemory
    BY <1>8, <2>1
  <2>3. n \in Int /\ n * PageMemory <= a
    BY <1>9, <2>1, <2>2, FloorLow
  <2>. QED  BY <2>3 DEF a
<1>12. (n + 1) * PageMemory = n * PageMemory + PageMemory /\ n * PageMemory \in Int
  BY <1>9, <1>11
<1>13. (n + 1) * PageMemory <= o - Weights
  <2>. DEFINE x == n * PageMemory
              y == (n + 1) * PageMemory
  <2>1. y = x + PageMemory /\ x \in Int /\ x <= d - Weights
    BY <1>11, <1>12
  <2>. HIDE DEF x, y
  <2>2. y <= o - Weights
    BY <1>7, <1>9, <1>10, <2>1
  <2>. QED  BY <2>2 DEF y
<1>. QED  BY <1>7, <1>13 DEF n

(* The ranks agree on the number of pages, however the free memory of their
   devices differs, and that many pages and the dummy page fit the device of
   every rank while memory_ratio leaves out more than the imbalance and a page. *)
THEOREM CacheAgreedCorrect == LaunchSpec => []CacheAgreed
<1>1. LaunchInv => CacheAgreed
  BY Sizes, Fits DEF CacheAgreed
<1>. QED  BY <1>1, LaunchCorrect, PTL

-----------------------------------------------------------------------------
(* The offline driver.                                                      *)

OfflineSpec == OfflineInit /\ [][OfflineNext]_offlineVars

Asked == [len : Lengths, out : Outputs, call : Nat]
Marks == [uid : Nat, no : Nat, call : Nat]
Handed == 0 .. counter - 1
Flying == {d.uid : d \in flight}

\* What a request's output holds of the m tokens sampled for it: those up to
\* where it stopped, or all but the one in flight.
Told(u, c, o, text, m, st, F) ==
  /\ text \in Seq(Marks) /\ m \in Nat /\ st \in Nat
  /\ \A j \in 1 .. Len(text) : text[j].uid = u /\ text[j].call = c
  /\ st = 0 => /\ Len(text) = (IF u \in F THEN m - 1 ELSE m)
               /\ \A j \in 1 .. Len(text) : text[j].no = j
  /\ st /= 0 => /\ st - 1 <= Len(text) /\ Len(text) <= (IF o THEN st ELSE st - 1)
                /\ u \in F => Len(text) = st - 1
                /\ \A j \in 1 .. st - 1 : text[j].no = j
  /\ u \in F => m >= 1 /\ o

\* How far a request is, in the scheduler or past it
Course(u) ==
  /\ made[u] <= (IF Limit(u) > 0 THEN Limit(u) ELSE 0)
  /\ u \notin active /\ stop[u] = 0 /\ Limit(u) > 0 => made[u] >= Limit(u)
  /\ u \in active => stop[u] = 0 /\ Limit(u) > 0

OfflineInv ==
  /\ overlapping \in BOOLEAN /\ calls \in Nat /\ counter \in Nat
  /\ prompts \in Seq(Asked) /\ unfed \in Seq(Asked) /\ counter + Len(unfed) = Len(prompts)
  /\ DOMAIN outs = Handed /\ DOMAIN made = Handed /\ DOMAIN stop = Handed
  /\ active \subseteq Handed
  /\ \A d \in flight : d.uid \in Handed /\ d = [uid |-> d.uid, no |-> made[d.uid], call |-> calls]
  /\ \A u \in Handed : Told(u, calls, overlapping, outs[u], made[u], stop[u], Flying) /\ Course(u)
  /\ where = "idle" => /\ active = {} /\ flight = {} /\ unfed = <<>>
                       /\ DOMAIN results = DOMAIN prompts
                       /\ \A i \in DOMAIN prompts : results[i] = outs[i - 1]

\* How many prompts are fed at once is well defined.
Sums(q, k) ==
  k = [s \in SUBSET (DOMAIN q) |-> IF s = {} THEN 0
         ELSE q[CHOOSE x \in s : TRUE].len + k[s \ {CHOOSE x \in s : TRUE}]]

LEMMA FedSum ==
  ASSUME NEW q \in Seq(Asked)
  PROVE  FoldSeq(LAMBDA p, s : p.len + s, 0, q) \in Int
<1>. DEFINE D == DOMAIN q
            f == [i \in D |-> q[i].len]
            h == CHOOSE k : k = [s \in SUBSET D |-> IF s = {} THEN 0
                   ELSE q[CHOOSE x \in s : TRUE].len + k[s \ {CHOOSE x \in s : TRUE}]]
<1>1. f \in [D -> Int] /\ IsFiniteSet(D)
  <2>1. D = 1 .. Len(q) /\ Len(q) \in Nat /\ \A i \in D : q[i] \in Asked
    OBVIOUS
  <2>2. \A i \in D : q[i].len \in Int
    <3>1. \A i \in D : q[i].len \in Lengths
      BY <2>1 DEF Asked
    <3>2. \A n \in Lengths : n \in Int
      BY OfflineAssumption
    <3>. HIDE DEF D
    <3>. QED  BY <3>1, <3>2
  <2>. QED  BY <2>1, <2>2, FS_Interval
<1>2. \A k : Sums(q, k) <=> Unfolds(k, f, D)
  <2> TAKE k
  <2> DEFINE op(s) == IF s = {} THEN 0 ELSE q[Pick(s)].len + k[s \ {Pick(s)}]
             fn(s) == IF s = {} THEN 0 ELSE f[Pick(s)] + k[s \ {Pick(s)}]
  <2>1. \A s \in SUBSET D : s /= {} => q[Pick(s)].len = f[Pick(s)]
    BY PickIn
  <2>2. \A s \in SUBSET D : op(s) = fn(s)
    <3> HIDE DEF f, D
    <3>. QED  BY <2>1
  <2>3. Sums(q, k) <=> k = [s \in SUBSET D |-> op(s)]
    BY DEF Pick, Sums
  <2>4. Unfolds(k, f, D) <=> k = [s \in SUBSET D |-> fn(s)]
    <3> HIDE DEF f, D
    <3>. QED  BY DEF Unfolds
  <2>5. [s \in SUBSET D |-> op(s)] = [s \in SUBSET D |-> fn(s)]
    <3> HIDE DEF op, fn, D
    <3>. QED  BY <2>2
  <2>. QED  BY <2>3, <2>4, <2>5
<1>3. (\E k : Unfolds(k, f, D)) /\ \A k : Unfolds(k, f, D) => k[D] \in Int
  <2> HIDE DEF f, D
  <2>1. /\ \E k : Unfolds(k, f, D)
        /\ \A k : Unfolds(k, f, D) => Total(f, D) = k[D]
    BY <1>1, TotalHas
  <2>2. Total(f, D) \in Int
    BY <1>1, TotalRules
  <2>. QED  BY <2>1, <2>2
<1>4. FoldSeq(LAMBDA p, s : p.len + s, 0, q) = h[D]
  BY DEF FoldSeq, FoldFunction, FoldFunctionOnSet, MapThenFoldSet
<1>5. Sums(q, h)
  <2>1. \E k : Sums(q, k)
    BY <1>2, <1>3
  <2>. QED  BY <2>1 DEF Sums
<1>. QED
  <2> HIDE DEF h, f, D
  <2>. QED  BY <1>2, <1>3, <1>4, <1>5

LEMMA FedSome == ASSUME OfflineInv PROVE Added \in 0 .. Len(unfed)
<1>. DEFINE sum(n) == FoldSeq(LAMBDA p, s : p.len + s, 0, SubSeq(unfed, 1, n))
            Far == {n \in Nat : n <= Len(unfed) /\ (n = Len(unfed) \/ sum(n) >= Allowance)}
<1>1. unfed \in Seq(Asked) /\ Len(unfed) \in Nat
  BY DEF OfflineInv
<1>2. \A n \in 0 .. Len(unfed) : sum(n) \in Int
  <2>1. \A n \in 0 .. Len(unfed) : SubSeq(unfed, 1, n) \in Seq(Asked)
    BY <1>1
  <2>. QED  BY <2>1, FedSum
<1>. HIDE DEF sum
<1>3. Far \in SUBSET Nat /\ Len(unfed) \in Far
  BY <1>1
<1>4. PICK n \in Far : \A m \in Far : ~(m < n)
  <2>. HIDE DEF Far
  <2>. QED  BY <1>3, LeastNat
<1>5. \E k \in 0 .. Len(unfed) : (k = Len(unfed) \/ sum(k) >= Allowance) /\ \A i \in 0 .. k - 1 : sum(i) < Allowance
  <2>1. n \in 0 .. Len(unfed) /\ (n = Len(unfed) \/ sum(n) >= Allowance)
    BY <1>1
  <2>2. ASSUME NEW i \in 0 .. n - 1 PROVE sum(i) < Allowance
    <3>1. i \in Nat /\ i < n /\ i <= Len(unfed) /\ i \in 0 .. Len(unfed)
      BY <1>1, <2>1
    <3>2. i \notin Far
      BY <1>4, <3>1
    <3>3. ~(sum(i) >= Allowance)
      BY <3>1, <3>2
    <3>. QED  BY <1>2, <3>1, <3>3, OfflineAssumption
  <2>. QED  BY <2>1, <2>2
<1>6. Added = CHOOSE k \in 0 .. Len(unfed) : (k = Len(unfed) \/ sum(k) >= Allowance) /\ \A i \in 0 .. k - 1 : sum(i) < Allowance
  BY DEF Added, sum
<1>. QED  BY <1>5, <1>6

\* A tick of one request: B is the batch, D what is post-processed, E and H the
\* outputs that end, at an EOS or at a stop token.
TellsOne(u, c, o, text, m, st, F, B, D, E, H, no, text2, m2, st2, F2) ==
  /\ u \in Nat /\ c \in Nat /\ o \in BOOLEAN /\ Told(u, c, o, text, m, st, F)
  /\ u \in B => st = 0
  /\ u \in D <=> IF o THEN u \in F ELSE u \in B
  /\ no = IF o THEN m ELSE m + 1
  /\ E \intersect H = {} /\ (u \in E \union H => u \in D)
  /\ text2 = IF u \in D /\ u \notin E THEN Append(text, [uid |-> u, no |-> no, call |-> c]) ELSE text
  /\ m2 = IF u \in B THEN m + 1 ELSE m
  /\ st2 = IF u \in E \union H /\ st = 0 THEN (IF u \in E THEN no ELSE no + 1) ELSE st
  /\ u \in F2 <=> o /\ u \in B

LEMMA ToldOne ==
  ASSUME NEW u, NEW c, NEW o, NEW text, NEW m, NEW st, NEW F, NEW B, NEW D, NEW E, NEW H,
         NEW no, NEW text2, NEW m2, NEW st2, NEW F2,
         TellsOne(u, c, o, text, m, st, F, B, D, E, H, no, text2, m2, st2, F2)
  PROVE  Told(u, c, o, text2, m2, st2, F2) /\ (u \in E \union H => st2 /= 0)
<1>0. /\ u \in Nat /\ c \in Nat /\ o \in BOOLEAN /\ Told(u, c, o, text, m, st, F)
      /\ u \in B => st = 0
      /\ u \in D <=> IF o THEN u \in F ELSE u \in B
      /\ no = IF o THEN m ELSE m + 1
      /\ E \intersect H = {} /\ (u \in E \union H => u \in D)
      /\ text2 = IF u \in D /\ u \notin E THEN Append(text, [uid |-> u, no |-> no, call |-> c]) ELSE text
      /\ m2 = IF u \in B THEN m + 1 ELSE m
      /\ st2 = IF u \in E \union H /\ st = 0 THEN (IF u \in E THEN no ELSE no + 1) ELSE st
      /\ u \in F2 <=> o /\ u \in B
  BY DEF TellsOne
<1>. USE <1>0
<1>. DEFINE x == [uid |-> u, no |-> no, call |-> c]
<1>1. /\ text \in Seq(Marks) /\ m \in Nat /\ st \in Nat /\ Len(text) \in Nat
      /\ \A j \in 1 .. Len(text) : text[j].uid = u /\ text[j].call = c
  BY DEF Told
<1>2. no \in Nat /\ m2 \in Nat /\ st2 \in Nat /\ (u \in D => no >= 1)
  BY <1>1 DEF Told
<1>3. x \in Marks /\ x.uid = u /\ x.call = c /\ x.no = no
  BY <1>2 DEF Marks
<1>. HIDE DEF x
<1>4. /\ text2 \in Seq(Marks)
      /\ Len(text2) = IF u \in D /\ u \notin E THEN Len(text) + 1 ELSE Len(text)
      /\ \A j \in 1 .. Len(text) : text2[j] = text[j]
      /\ u \in D /\ u \notin E => text2[Len(text) + 1] = x
  <2>1. text2 = IF u \in D /\ u \notin E THEN Append(text, x) ELSE text
    BY DEF x
  <2>. QED  BY <1>1, <1>3, <2>1
<1>5. \A j \in 1 .. Len(text2) : j \in 1 .. Len(text) \/ (u \in D /\ u \notin E /\ j = Len(text) + 1)
  BY <1>1, <1>4
<1>6. \A j \in 1 .. Len(text2) : text2[j].uid = u /\ text2[j].call = c
  BY <1>1, <1>3, <1>4, <1>5
<1>7. u \in E \union H => st2 /= 0
  BY <1>1, <1>2
<1>8. CASE st = 0
  <2>1. /\ Len(text) = (IF u \in F THEN m - 1 ELSE m) /\ \A j \in 1 .. Len(text) : text[j].no = j
        /\ u \in F => m >= 1 /\ o
    BY <1>8 DEF Told
  <2>2. u \in D => no = Len(text) + 1
    BY <1>1, <2>1
  <2>3. \A j \in 1 .. Len(text2) : text2[j].no = j
    BY <1>1, <1>3, <1>4, <1>5, <2>1, <2>2
  <2>4. u \in F2 => m2 >= 1 /\ o
    BY <1>1
  <2>5. u \notin E \union H => Len(text2) = (IF u \in F2 THEN m2 - 1 ELSE m2)
    BY <1>1, <1>4, <2>1
  <2>6. u \in E \union H => st2 - 1 = Len(text2)
    BY <1>1, <1>4, <1>8, <2>2
  <2>7. st2 = 0 <=> u \notin E \union H
    BY <1>7, <1>8
  <2>8. st2 /= 0 => /\ st2 - 1 <= Len(text2) /\ Len(text2) <= (IF o THEN st2 ELSE st2 - 1)
                    /\ u \in F2 => Len(text2) = st2 - 1
                    /\ \A j \in 1 .. st2 - 1 : text2[j].no = j
    BY <1>2, <2>3, <2>6, <2>7
  <2>. QED  BY <1>2, <1>4, <1>6, <1>7, <2>3, <2>4, <2>5, <2>7, <2>8 DEF Told
<1>9. CASE st /= 0
  <2>1. /\ st - 1 <= Len(text) /\ Len(text) <= (IF o THEN st ELSE st - 1)
        /\ u \in F => Len(text) = st - 1 /\ o
        /\ \A j \in 1 .. st - 1 : text[j].no = j
    BY <1>9 DEF Told
  <2>2. u \notin B /\ st2 = st /\ m2 = m /\ u \notin F2 /\ (u \in D => u \in F /\ o)
    BY <1>9
  <2>3. st - 1 <= Len(text2) /\ Len(text2) <= (IF o THEN st ELSE st - 1)
    BY <1>1, <1>4, <2>1, <2>2
  <2>4. \A j \in 1 .. st - 1 : text2[j].no = j
    <3>1. \A j \in 1 .. st - 1 : j \in 1 .. Len(text)
      BY <1>1, <2>1
    <3>. QED  BY <1>4, <2>1, <3>1
  <2>. QED  BY <1>1, <1>4, <1>6, <1>7, <1>9, <2>2, <2>3, <2>4 DEF Told
<1>. QED  BY <1>8, <1>9

Had(u) == IF u \in DOMAIN made THEN made[u] ELSE 0

\* What a tick does to a request: batch runs, data is post-processed, eos and
\* halt are the outputs that end there.
Ticks(batch, eos, halt) ==
  LET new  == counter .. counter + Added - 1
      all  == DOMAIN outs \union new
      have == active \union {u \in new : Limit(u) > 0}
      data == IF overlapping THEN flight
              ELSE {[uid |-> u, no |-> Had(u) + 1, call |-> calls] : u \in batch}
      uids == {d.uid : d \in data}
      number(u) == CHOOSE d \in data : d.uid = u
      gone == {u \in uids : u \in eos \union halt \/ made'[u] >= Limit(u)}
  IN  /\ batch \subseteq {u \in have : Had(u) < Limit(u)}
      /\ eos \subseteq uids /\ halt \subseteq uids /\ eos \intersect halt = {}
      /\ made' = [u \in all |-> IF u \in batch THEN Had(u) + 1 ELSE Had(u)]
      /\ outs' = [u \in all |->
           LET old == IF u \in DOMAIN outs THEN outs[u] ELSE <<>>
           IN  IF u \in uids /\ u \notin eos THEN Append(old, number(u)) ELSE old]
      /\ stop' = [u \in all |->
           LET old == IF u \in DOMAIN stop THEN stop[u] ELSE 0
           IN  IF u \in eos \union halt /\ old = 0
               THEN (IF u \in eos THEN number(u).no ELSE number(u).no + 1) ELSE old]
      /\ active' = have \ gone
      /\ flight' = IF overlapping THEN {[uid |-> u, no |-> Had(u) + 1, call |-> calls] : u \in batch} ELSE {}

LEMMA TickIs ==
  ASSUME Tick
  PROVE  /\ where = "loop" /\ counter' = counter + Added /\ unfed' = SubSeq(unfed, Added + 1, Len(unfed))
         /\ UNCHANGED <<overlapping, where, calls, prompts, results>>
         /\ \E batch, eos, halt : Ticks(batch, eos, halt)
<1>1. /\ where = "loop" /\ counter' = counter + Added /\ unfed' = SubSeq(unfed, Added + 1, Len(unfed))
      /\ UNCHANGED <<overlapping, where, calls, prompts, results>>
  BY DEF Tick, Counted
<1>. DEFINE new  == counter .. counter + Added - 1
            all  == DOMAIN outs \union new
            have == active \union {u \in new : Limit(u) > 0}
            runnable == {u \in have : Had(u) < Limit(u)}
            now(batch) == {[uid |-> u, no |-> Had(u) + 1, call |-> calls] : u \in batch}
            data(batch) == IF overlapping THEN flight ELSE now(batch)
            uids(batch) == {d.uid : d \in data(batch)}
            number(batch, u) == CHOOSE d \in data(batch) : d.uid = u
            does(batch, eos, halt) ==
              /\ eos \intersect halt = {}
              /\ made' = [u \in all |-> IF u \in batch THEN Had(u) + 1 ELSE Had(u)]
              /\ outs' = [u \in all |->
                   LET old == IF u \in DOMAIN outs THEN outs[u] ELSE <<>>
                   IN  IF u \in uids(batch) /\ Kept(u, eos) THEN Append(old, number(batch, u)) ELSE old]
              /\ stop' = [u \in all |->
                   LET old == IF u \in DOMAIN stop THEN stop[u] ELSE 0
                   IN  IF u \in eos \union halt /\ old = 0
                       THEN (IF u \in eos THEN number(batch, u).no ELSE number(batch, u).no + 1) ELSE old]
              /\ active' = have \ {u \in uids(batch) : u \in eos \union halt \/ made'[u] >= Limit(u)}
              /\ freed' = {u \in uids(batch) : u \in eos \union halt \/ made'[u] >= Limit(u)} \ freed
              /\ flight' = IF overlapping THEN now(batch) ELSE {}
<1>2. \E batch \in (IF runnable = {} THEN {{}} ELSE (SUBSET runnable) \ {{}}) :
        \E eos \in SUBSET uids(batch), halt \in SUBSET uids(batch) : does(batch, eos, halt)
  BY DEF Tick, Had
<1>3. ASSUME NEW batch \in (IF runnable = {} THEN {{}} ELSE (SUBSET runnable) \ {{}}),
             NEW eos \in SUBSET uids(batch), NEW halt \in SUBSET uids(batch), does(batch, eos, halt)
      PROVE  Ticks(batch, eos, halt)
  <2>1. batch \subseteq runnable
    OBVIOUS
  <2>. QED  BY <1>3, <2>1 DEF Ticks, Kept
<1>4. \E batch, eos, halt : Ticks(batch, eos, halt)
  <2>. HIDE DEF does, uids, runnable
  <2>. QED  BY <1>2, <1>3
<1>. QED  BY <1>1, <1>4

TickPre ==
  /\ OfflineInv /\ where = "loop"
  /\ counter' = counter + Added /\ unfed' = SubSeq(unfed, Added + 1, Len(unfed))
  /\ UNCHANGED <<overlapping, where, calls, prompts, results>>

OldText(u) == IF u \in DOMAIN outs THEN outs[u] ELSE <<>>
OldStop(u) == IF u \in DOMAIN stop THEN stop[u] ELSE 0

LEMMA TickHanded ==
  ASSUME TickPre
  PROVE  /\ Added \in Nat /\ counter' \in Nat /\ unfed' \in Seq(Asked) /\ counter' + Len(unfed') = Len(prompts)
         /\ Handed' = Handed \union (counter .. counter + Added - 1) /\ Handed' \subseteq Nat
         /\ DOMAIN outs \union (counter .. counter + Added - 1) = Handed'
         /\ \A u \in counter .. counter + Added - 1 : u \notin Handed
<1>. DEFINE k == Added
<1>1. /\ k \in 0 .. Len(unfed) /\ unfed \in Seq(Asked) /\ Len(unfed) \in Nat /\ counter \in Nat
      /\ counter + Len(unfed) = Len(prompts) /\ DOMAIN outs = Handed
      /\ counter' = counter + k /\ unfed' = SubSeq(unfed, k + 1, Len(unfed))
  BY FedSome DEF TickPre, OfflineInv
<1>. HIDE DEF k
<1>2. /\ unfed' \in Seq(Asked) /\ Len(unfed') = Len(unfed) - k
      /\ k \in Nat /\ counter' \in Nat /\ counter' + Len(unfed') = Len(prompts)
  <2>1. unfed' \in Seq(Asked) /\ Len(unfed') = Len(unfed) - k
    BY <1>1
  <2>2. /\ k \in Nat /\ k <= Len(unfed) /\ counter \in Nat /\ Len(unfed) \in Nat
        /\ counter' = counter + k /\ counter + Len(unfed) = Len(prompts)
    BY <1>1
  <2>3. counter' \in Nat /\ counter' + Len(unfed') = counter + Len(unfed)
    <3>. DEFINE a == Len(unfed)
                b == Len(unfed')
    <3>1. b = a - k /\ a \in Nat
      BY <2>1, <2>2
    <3>. HIDE DEF a, b
    <3>2. counter' \in Nat /\ counter' + b = counter + a
      BY <2>2, <3>1
    <3>. QED  BY <3>2 DEF a, b
  <2>4. counter' + Len(unfed') = Len(prompts)
    BY <2>2, <2>3
  <2>. QED  BY <2>1, <2>2, <2>3, <2>4
<1>3. Handed' = Handed \union (counter .. counter + k - 1) /\ Handed' \subseteq Nat
      /\ \A u \in counter .. counter + k - 1 : u \notin Handed
  BY <1>1 DEF Handed
<1>. QED  BY <1>1, <1>2, <1>3 DEF k

LEMMA TickOld ==
  ASSUME TickPre, NEW u \in Handed'
  PROVE  /\ Told(u, calls, overlapping, OldText(u), Had(u), OldStop(u), Flying)
         /\ u \notin Handed => u \notin Flying /\ u \notin active /\ Had(u) = 0 /\ OldStop(u) = 0
<1>1. /\ DOMAIN outs = Handed /\ DOMAIN made = Handed /\ DOMAIN stop = Handed
      /\ Flying \subseteq Handed /\ active \subseteq Handed
  BY DEF TickPre, OfflineInv, Flying
<1>2. CASE u \in Handed
  BY <1>1, <1>2 DEF TickPre, OfflineInv, OldText, Had, OldStop
<1>3. CASE u \notin Handed
  <2>1. OldText(u) = <<>> /\ Had(u) = 0 /\ OldStop(u) = 0 /\ u \notin Flying /\ u \notin active
    BY <1>1, <1>3 DEF OldText, Had, OldStop
  <2>2. <<>> \in Seq(Marks) /\ Len(<<>>) = 0
    OBVIOUS
  <2>. QED  BY <2>1, <2>2 DEF Told
<1>. QED  BY <1>2, <1>3

LEMMA TickAll ==
  ASSUME TickPre, NEW B, NEW E, NEW H, Ticks(B, E, H)
  PROVE  OfflineInv'
<1>. DEFINE new  == counter .. counter + Added - 1
            have == active \union {u \in new : Limit(u) > 0}
            data == IF overlapping THEN flight
                    ELSE {[uid |-> u, no |-> Had(u) + 1, call |-> calls] : u \in B}
            D == {d.uid : d \in data}
            number(u) == CHOOSE d \in data : d.uid = u
            No(u) == IF overlapping THEN Had(u) ELSE Had(u) + 1
            gone == {u \in D : u \in E \union H \/ made'[u] >= Limit(u)}
<1>1. /\ B \subseteq {u \in have : Had(u) < Limit(u)}
      /\ E \subseteq D /\ H \subseteq D /\ E \intersect H = {}
      /\ made' = [u \in DOMAIN outs \union new |-> IF u \in B THEN Had(u) + 1 ELSE Had(u)]
      /\ outs' = [u \in DOMAIN outs \union new |->
                     IF u \in D /\ u \notin E THEN Append(OldText(u), number(u)) ELSE OldText(u)]
      /\ stop' = [u \in DOMAIN outs \union new |-> IF u \in E \union H /\ OldStop(u) = 0
                       THEN (IF u \in E THEN number(u).no ELSE number(u).no + 1) ELSE OldStop(u)]
      /\ active' = have \ gone
      /\ flight' = IF overlapping THEN {[uid |-> u, no |-> Had(u) + 1, call |-> calls] : u \in B} ELSE {}
  BY DEF Ticks, OldText, OldStop
<1>2. /\ overlapping \in BOOLEAN /\ calls \in Nat /\ prompts \in Seq(Asked)
      /\ overlapping' = overlapping /\ calls' = calls /\ prompts' = prompts /\ where' = "loop"
      /\ DOMAIN made = Handed /\ DOMAIN stop = Handed /\ DOMAIN outs = Handed /\ active \subseteq Handed
      /\ \A d \in flight : d.uid \in Handed /\ d = [uid |-> d.uid, no |-> made[d.uid], call |-> calls]
      /\ \A u \in Handed : Course(u)
  BY DEF TickPre, OfflineInv
<1>3. /\ counter' \in Nat /\ unfed' \in Seq(Asked) /\ counter' + Len(unfed') = Len(prompts)
      /\ Handed' = Handed \union new /\ Handed' \subseteq Nat
      /\ DOMAIN outs \union new = Handed' /\ \A u \in new : u \notin Handed
  BY TickHanded
<1>. HIDE DEF new
<1>4. /\ DOMAIN outs' = Handed' /\ DOMAIN made' = Handed' /\ DOMAIN stop' = Handed'
      /\ active' \subseteq Handed' /\ B \subseteq Handed'
  BY <1>1, <1>2, <1>3
<1>5. D = IF overlapping THEN Flying ELSE B
  <2>1. CASE overlapping
    BY <2>1 DEF Flying
  <2>2. CASE ~overlapping
    <3>1. data = {[uid |-> u, no |-> Had(u) + 1, call |-> calls] : u \in B}
      BY <2>2
    <3>a. \A u \in B : u \in D
      <4>. TAKE u \in B
      <4>1. [uid |-> u, no |-> Had(u) + 1, call |-> calls] \in data
        BY <3>1
      <4>2. [uid |-> u, no |-> Had(u) + 1, call |-> calls].uid = u
        OBVIOUS
      <4>. QED  BY <4>1, <4>2
    <3>b. \A u \in D : u \in B
      <4>. HIDE DEF data
      <4>. QED  BY <3>1
    <3>2. \A u : u \in D <=> u \in B
      <4>. HIDE DEF D
      <4>. QED  BY <3>a, <3>b
    <3>. HIDE DEF D
    <3>. QED  BY <2>2, <3>2
  <2>. QED  BY <2>1, <2>2
<1>6. \A u \in D : u \in Handed' /\ number(u) = [uid |-> u, no |-> No(u), call |-> calls]
  <2>. SUFFICES ASSUME NEW u \in D
                PROVE  u \in Handed' /\ number(u) = [uid |-> u, no |-> No(u), call |-> calls]
    OBVIOUS
  <2>1. PICK d \in data : d.uid = u
    OBVIOUS
  <2>2. \A e \in data : e.uid = u => e = [uid |-> u, no |-> No(u), call |-> calls] /\ u \in Handed'
    <3>1. CASE overlapping
      BY <1>2, <1>3, <3>1 DEF Had
    <3>2. CASE ~overlapping
      BY <1>4, <3>2
    <3>. QED  BY <3>1, <3>2
  <2>3. number(u) \in data /\ number(u).uid = u
    BY <2>1
  <2>. QED  BY <2>2, <2>3
<1>. HIDE DEF number, data
<1>7. Flying' = IF overlapping THEN B ELSE {}
  <2>1. CASE overlapping
    <3>1. \A u \in B : [uid |-> u, no |-> Had(u) + 1, call |-> calls].uid = u
      OBVIOUS
    <3>. QED  BY <1>1, <2>1, <3>1 DEF Flying
  <2>2. CASE ~overlapping
    BY <1>1, <2>2 DEF Flying
  <2>. QED  BY <2>1, <2>2
<1>8. \A d \in flight' : d.uid \in Handed' /\ d = [uid |-> d.uid, no |-> made'[d.uid], call |-> calls']
  <2>1. \A u \in B : made'[u] = Had(u) + 1
    BY <1>1, <1>3, <1>4
  <2>. QED  BY <1>1, <1>2, <1>4, <2>1
<1>9. \A u : Limit(u)' = Limit(u)
  BY <1>2 DEF Limit, PromptOf
<1>10. \A u \in B : OldStop(u) = 0 /\ u \in have /\ Had(u) < Limit(u)
  <2>1. \A u \in have : OldStop(u) = 0
    <3>1. \A u \in active : u \in Handed /\ stop[u] = 0
      BY <1>2 DEF Course
    <3>. QED  BY <1>2, <1>3, <3>1 DEF OldStop
  <2>. QED  BY <1>1, <2>1
<1>11. ASSUME NEW u \in Handed'
       PROVE  /\ Told(u, calls, overlapping, outs'[u], made'[u], stop'[u], Flying')
              /\ u \in E \union H => stop'[u] /= 0
  <2>1. Told(u, calls, overlapping, OldText(u), Had(u), OldStop(u), Flying)
    BY TickOld
  <2>2. u \in B => OldStop(u) = 0
    BY <1>10
  <2>3. u \in D <=> IF overlapping THEN u \in Flying ELSE u \in B
    BY <1>5
  <2>4. u \in Flying' <=> overlapping /\ u \in B
    BY <1>7
  <2>5. outs'[u] = IF u \in D /\ u \notin E THEN Append(OldText(u), [uid |-> u, no |-> No(u), call |-> calls])
                                             ELSE OldText(u)
    BY <1>1, <1>3, <1>6
  <2>6. made'[u] = IF u \in B THEN Had(u) + 1 ELSE Had(u)
    BY <1>1, <1>3
  <2>7. stop'[u] = IF u \in E \union H /\ OldStop(u) = 0 THEN (IF u \in E THEN No(u) ELSE No(u) + 1) ELSE OldStop(u)
    <3>1. u \in E \union H => number(u).no = No(u)
      BY <1>1, <1>6
    <3>. QED  BY <1>1, <1>3, <3>1
  <2>8. u \in E \union H => u \in D
    BY <1>1
  <2>9. u \in Nat /\ No(u) = IF overlapping THEN Had(u) ELSE Had(u) + 1
    BY <1>3
  <2>10. overlapping \in BOOLEAN /\ calls \in Nat /\ E \intersect H = {}
    BY <1>1, <1>2
  <2>. DEFINE text  == OldText(u)
              m     == Had(u)
              st    == OldStop(u)
              no    == No(u)
              text2 == outs'[u]
              m2    == made'[u]
              st2   == stop'[u]
              F     == Flying
              F2    == Flying'
  <2>11. TellsOne(u, calls, overlapping, text, m, st, F, B, D, E, H, no, text2, m2, st2, F2)
    <3>. HIDE DEF D, No
    <3>. QED  BY <2>1, <2>2, <2>3, <2>4, <2>5, <2>6, <2>7, <2>8, <2>9, <2>10 DEF TellsOne
  <2>. HIDE DEF No, D, text, m, st, no, text2, m2, st2, F, F2
  <2>12. Told(u, calls, overlapping, text2, m2, st2, F2) /\ (u \in E \union H => st2 /= 0)
    BY <2>11, ToldOne
  <2>. QED  BY <2>12 DEF text2, m2, st2, F2
<1>12. ASSUME NEW u \in Handed' PROVE Course(u)'
  <2>1. Had(u) \in Nat /\ OldStop(u) \in Nat
    BY TickOld DEF Told
  <2>2. made'[u] = IF u \in B THEN Had(u) + 1 ELSE Had(u)
    BY <1>1, <1>3
  <2>3. u \in Handed => /\ Had(u) <= (IF Limit(u) > 0 THEN Limit(u) ELSE 0)
                        /\ u \notin active /\ OldStop(u) = 0 /\ Limit(u) > 0 => Had(u) >= Limit(u)
                        /\ u \in active => OldStop(u) = 0 /\ Limit(u) > 0
    BY <1>2 DEF Course, Had, OldStop
  <2>4. u \notin Handed => u \notin active /\ Had(u) = 0 /\ OldStop(u) = 0 /\ u \in new
    BY <1>3, TickOld
  <2>5. Limit(u) \in Int
    <3>1. u + 1 \in DOMAIN prompts
      BY <1>2, <1>3 DEF Handed
    <3>2. prompts[u + 1] \in Asked
      BY <1>2, <3>1
    <3>3. PromptOf(u).len \in Lengths /\ PromptOf(u).out \in Outputs
      BY <3>2 DEF PromptOf, Asked
    <3>4. (\A n \in Lengths : n \in Int) /\ (\A n \in Outputs : n \in Int) /\ MaxLength \in Int
      BY OfflineAssumption
    <3>5. PromptOf(u).len \in Int /\ PromptOf(u).out \in Int
      BY <3>3, <3>4
    <3>. QED  BY <3>4, <3>5 DEF Limit
  <2>6. made'[u] <= (IF Limit(u) > 0 THEN Limit(u) ELSE 0)
    BY <1>10, <2>1, <2>2, <2>3, <2>4, <2>5
  <2>7. stop'[u] = 0 => u \notin E \union H /\ OldStop(u) = 0
    BY <1>1, <1>3, <1>11
  <2>8. u \notin active' /\ stop'[u] = 0 /\ Limit(u) > 0 => made'[u] >= Limit(u)
    <3>. SUFFICES ASSUME u \notin active', stop'[u] = 0, Limit(u) > 0 PROVE made'[u] >= Limit(u)
      OBVIOUS
    <3>1. CASE u \in have
      BY <1>1, <2>7, <3>1
    <3>2. CASE u \notin have
      BY <1>10, <2>2, <2>3, <2>4, <2>7, <3>2
    <3>. QED  BY <3>1, <3>2
  <2>9. u \in active' => stop'[u] = 0 /\ Limit(u) > 0
    <3>. SUFFICES ASSUME u \in active' PROVE stop'[u] = 0 /\ Limit(u) > 0
      OBVIOUS
    <3>1. u \in have /\ u \notin gone
      BY <1>1
    <3>2. u \notin E \union H
      BY <1>1, <3>1
    <3>3. OldStop(u) = 0 /\ Limit(u) > 0
      <4>1. u \in active => u \in Handed
        BY <2>4
      <4>2. u \in new => u \notin Handed
        BY <1>3
      <4>. QED  BY <2>3, <2>4, <3>1, <4>1, <4>2
    <3>. QED  BY <1>1, <1>3, <3>2, <3>3
  <2>. QED  BY <1>9, <2>6, <2>8, <2>9 DEF Course
<1>. QED  BY <1>2, <1>3, <1>4, <1>8, <1>11, <1>12 DEF OfflineInv

LEMMA NobodyYet == Empty = Empty /\ DOMAIN Empty = {} /\ 0 .. 0 - 1 = {}
BY DEF Empty

LEMMA GenerateKeeps == OfflineInv /\ Generate => OfflineInv'
<1>. SUFFICES ASSUME OfflineInv, Generate PROVE OfflineInv'
  OBVIOUS
<1>1. /\ where = "idle" /\ where' = "loop" /\ calls' = calls + 1 /\ unfed' = prompts' /\ counter' = 0
      /\ outs' = Empty /\ made' = Empty /\ stop' = Empty
      /\ overlapping' = overlapping /\ active' = active /\ flight' = flight
      /\ \E n \in 1 .. MaxPrompts : prompts' \in [1 .. n -> [len : Lengths, out : Outputs, call : {calls + 1}]]
  BY DEF Generate
<1>2. overlapping \in BOOLEAN /\ calls' \in Nat /\ active = {} /\ flight = {}
  BY <1>1 DEF OfflineInv
<1>3. prompts' \in Seq(Asked)
  <2>1. PICK n \in 1 .. MaxPrompts : prompts' \in [1 .. n -> [len : Lengths, out : Outputs, call : {calls + 1}]]
    BY <1>1
  <2>2. n \in Nat /\ calls + 1 \in Nat
    BY <1>1, <1>2, OfflineAssumption
  <2>3. \A q \in [len : Lengths, out : Outputs, call : {calls + 1}] : q \in Asked
    BY <2>2 DEF Asked
  <2>4. prompts' \in [1 .. n -> Asked]
    BY <2>1, <2>3
  <2>. QED  BY <2>2, <2>4
<1>4. Handed' = {} /\ DOMAIN outs' = {} /\ DOMAIN made' = {} /\ DOMAIN stop' = {}
  BY <1>1, NobodyYet DEF Handed
<1>5. counter' \in Nat /\ counter' + Len(unfed') = Len(prompts')
  BY <1>1, <1>3
<1>. QED  BY <1>1, <1>2, <1>3, <1>4, <1>5 DEF OfflineInv

LEMMA FinishedKeeps == OfflineInv /\ AllFinished => OfflineInv'
<1>. SUFFICES ASSUME OfflineInv, AllFinished PROVE OfflineInv'
  OBVIOUS
<1>1. /\ active = {} /\ (overlapping => flight = {}) /\ unfed = <<>> /\ where' = "idle" /\ flight' = {}
      /\ results' = [i \in DOMAIN prompts |-> outs[i - 1]]
      /\ UNCHANGED <<overlapping, calls, prompts, unfed, counter, outs, active, made, stop>>
  BY DEF AllFinished, Blocking
<1>2. flight = {}
  <2>1. CASE overlapping
    BY <1>1, <2>1
  <2>2. CASE ~overlapping
    <3>1. \A d \in flight : d.uid \in Flying /\ d.uid \in Handed
      BY DEF Flying, OfflineInv
    <3>2. \A u \in Handed : u \notin Flying
      BY <2>2 DEF OfflineInv, Told
    <3>. QED  BY <3>1, <3>2
  <2>. QED  BY <2>1, <2>2
<1>3. Flying' = Flying /\ Handed' = Handed
  BY <1>1, <1>2 DEF Flying, Handed
<1>4. \A u : Limit(u)' = Limit(u)
  BY <1>1 DEF Limit, PromptOf
<1>5. \A u \in Handed : Course(u)'
  BY <1>1, <1>4 DEF Course, OfflineInv
<1>6. DOMAIN results' = DOMAIN prompts /\ \A i \in DOMAIN prompts : results'[i] = outs[i - 1]
  BY <1>1
<1>. QED  BY <1>1, <1>2, <1>3, <1>5, <1>6 DEF OfflineInv

LEMMA OfflineCorrect == OfflineSpec => []OfflineInv
<1>1. OfflineInit => OfflineInv
  <2>. SUFFICES ASSUME OfflineInit PROVE OfflineInv
    OBVIOUS
  <2>1. /\ overlapping \in BOOLEAN /\ where = "idle" /\ calls = 0 /\ prompts = <<>> /\ unfed = <<>>
        /\ counter = 0 /\ outs = Empty /\ active = {} /\ made = Empty /\ flight = {}
        /\ stop = Empty /\ results = <<>>
    BY OfflineAssumption DEF OfflineInit
  <2>2. <<>> \in Seq(Asked) /\ Len(<<>>) = 0 /\ DOMAIN (<<>>) = {}
    OBVIOUS
  <2>3. Handed = {} /\ DOMAIN outs = {} /\ DOMAIN made = {} /\ DOMAIN stop = {}
    BY <2>1, NobodyYet DEF Handed
  <2>. QED  BY <2>1, <2>2, <2>3 DEF OfflineInv
<1>2. OfflineInv /\ [OfflineNext]_offlineVars => OfflineInv'
  <2>. SUFFICES ASSUME OfflineInv, [OfflineNext]_offlineVars PROVE OfflineInv'
    OBVIOUS
  <2>1. CASE Generate
    BY <2>1, GenerateKeeps
  <2>2. CASE AllFinished
    BY <2>2, FinishedKeeps
  <2>3. CASE Tick
    <3>1. TickPre
      BY <2>3, TickIs DEF TickPre
    <3>2. \E B, E, H : Ticks(B, E, H)
      BY <2>3, TickIs
    <3>. QED  BY <3>1, <3>2, TickAll
  <2>4. CASE UNCHANGED offlineVars
    <3>1. UNCHANGED <<overlapping, where, calls, prompts, unfed, counter, outs, active, made, flight, stop, results>>
      BY <2>4 DEF offlineVars
    <3>2. Flying' = Flying /\ Handed' = Handed /\ \A u : Limit(u)' = Limit(u)
      BY <3>1 DEF Flying, Handed, Limit, PromptOf
    <3>3. \A u \in Handed : Course(u)'
      BY <3>1, <3>2 DEF Course, OfflineInv
    <3>. QED  BY <3>1, <3>2, <3>3 DEF OfflineInv
  <2>. QED  BY <2>1, <2>2, <2>3, <2>4 DEF OfflineNext
<1>. QED  BY <1>1, <1>2, PTL DEF OfflineSpec

(* When generate returns, the output of every prompt is what this call sampled
   for it, all of it and in order, whatever batches the scheduler chose and in
   whatever rounds the prompts were fed; overlap_loop may add the one token
   that was in flight when the request stopped. *)
THEOREM OutputsCorrect == OfflineSpec => []OutputsComplete
<1>1. OfflineInv => OutputsComplete
  <2>. SUFFICES ASSUME OfflineInv, where = "idle", NEW i \in DOMAIN results
                PROVE  LET u == i - 1
                           n == Expected(u)
                       IN  /\ \A j \in DOMAIN results[i] : results[i][j].uid = u /\ results[i][j].call = calls
                           /\ n <= Len(results[i]) /\ \A j \in 1 .. n : results[i][j].no = j
                           /\ Len(results[i]) <= (IF overlapping /\ stop[u] /= 0 THEN n + 1 ELSE n)
    BY DEF OutputsComplete
  <2>. DEFINE u == i - 1
              n == Expected(u)
  <2>1. /\ active = {} /\ flight = {} /\ i \in DOMAIN prompts /\ results[i] = outs[u]
        /\ prompts \in Seq(Asked) /\ counter = Len(prompts) /\ overlapping \in BOOLEAN
    BY DEF OfflineInv
  <2>2. u \in Handed /\ u \notin Flying
    BY <2>1 DEF Handed, Flying
  <2>3. Told(u, calls, overlapping, outs[u], made[u], stop[u], Flying) /\ Course(u)
    BY <2>2 DEF OfflineInv
  <2>4. Limit(u) \in Int
    <3>1. u + 1 \in DOMAIN prompts /\ u + 1 = i
      BY <2>1
    <3>2. prompts[u + 1] \in Asked
      BY <2>1, <3>1
    <3>3. PromptOf(u).len \in Lengths /\ PromptOf(u).out \in Outputs
      BY <3>2 DEF PromptOf, Asked
    <3>4. (\A k \in Lengths : k \in Int) /\ (\A k \in Outputs : k \in Int) /\ MaxLength \in Int
      BY OfflineAssumption
    <3>5. PromptOf(u).len \in Int /\ PromptOf(u).out \in Int
      BY <3>3, <3>4
    <3>. QED  BY <3>4, <3>5 DEF Limit
  <2>. HIDE DEF u
  <2>5. /\ outs[u] \in Seq(Marks) /\ Len(outs[u]) \in Nat /\ made[u] \in Nat /\ stop[u] \in Nat
        /\ DOMAIN outs[u] = 1 .. Len(outs[u])
        /\ \A j \in 1 .. Len(outs[u]) : outs[u][j].uid = u /\ outs[u][j].call = calls
    BY <2>3 DEF Told
  <2>6. /\ n <= Len(outs[u]) /\ \A j \in 1 .. n : outs[u][j].no = j
        /\ Len(outs[u]) <= (IF overlapping /\ stop[u] /= 0 THEN n + 1 ELSE n)
    <3>1. CASE stop[u] = 0
      <4>1. Len(outs[u]) = made[u] /\ \A j \in 1 .. Len(outs[u]) : outs[u][j].no = j
        BY <2>2, <2>3, <3>1 DEF Told
      <4>2. made[u] = (IF Limit(u) > 0 THEN Limit(u) ELSE 0)
        BY <2>1, <2>3, <2>4, <2>5, <3>1 DEF Course
      <4>3. n = made[u]
        BY <3>1, <4>2 DEF Expected
      <4>. HIDE DEF n
      <4>. QED  BY <2>5, <3>1, <4>1, <4>3
    <3>2. CASE stop[u] /= 0
      <4>1. n = stop[u] - 1
        BY <3>2 DEF Expected
      <4>2. /\ stop[u] - 1 <= Len(outs[u]) /\ Len(outs[u]) <= (IF overlapping THEN stop[u] ELSE stop[u] - 1)
            /\ \A j \in 1 .. stop[u] - 1 : outs[u][j].no = j
        BY <2>3, <3>2 DEF Told
      <4>. HIDE DEF n
      <4>. QED  BY <2>1, <2>5, <3>2, <4>1, <4>2
    <3>. QED  BY <3>1, <3>2
  <2>. HIDE DEF n
  <2>. QED  BY <2>1, <2>5, <2>6 DEF u, n
<1>. QED  BY <1>1, OfflineCorrect, PTL
=============================================================================
