---------------------------- MODULE RadixProofs ----------------------------
(***************************************************************************)
(* What the operations of RadixCache do to a tree, for every page size and *)
(* every tree: each keeps a radix tree a radix tree, and is described by   *)
(* the nodes, the pages and the reference counts it leaves.                *)
(***************************************************************************)
EXTENDS RadixCache, CommonTheorems

-----------------------------------------------------------------------------
(* Prefixes are a partial order in which what lies above a text is a chain. *)

LEMMA PrefixIs ==
  ASSUME NEW S, NEW s \in Seq(S), NEW t \in Seq(S)
  PROVE  IsPrefix(s, t) <=> Len(s) <= Len(t) /\ \A i \in 1 .. Len(s) : s[i] = t[i]
<1>1. Len(s) \in Nat /\ Len(t) \in Nat /\ SubSeq(s, 1, Len(s)) = s
  BY LenProperties, SubSeqFull
<1>2. ASSUME Len(s) <= Len(t)
      PROVE  s = SubSeq(t, 1, Len(s)) <=> \A i \in 1 .. Len(s) : s[i] = t[i]
  <2>1. \A i \in 1 .. Len(s) : t[i] \in S
    BY <1>1, <1>2, LenProperties
  <2>2. /\ SubSeq(t, 1, Len(s)) \in Seq(S)
        /\ Len(SubSeq(t, 1, Len(s))) = Len(s)
        /\ \A i \in 1 .. Len(s) : SubSeq(t, 1, Len(s))[i] = t[i]
    BY <1>1, <2>1, SubSeqProperties
  <2>. QED  BY <2>2, SeqEqual
<1>. QED
  BY <1>1, <1>2 DEF IsPrefix

LEMMA PrefixOrder ==
  ASSUME NEW S
  PROVE  /\ \A s \in Seq(S) : IsPrefix(s, s) /\ IsPrefix(Root, s)
         /\ \A s \in Seq(S) : IsPrefix(s, Root) => s = Root
         /\ \A s, t \in Seq(S) : IsPrefix(s, t) /\ IsPrefix(t, s) => s = t
         /\ \A s, t, u \in Seq(S) : IsPrefix(s, t) /\ IsPrefix(t, u) => IsPrefix(s, u)
         /\ \A s, t, u \in Seq(S) : IsPrefix(s, u) /\ IsPrefix(t, u) => IsPrefix(s, t) \/ IsPrefix(t, s)
         /\ \A s, t \in Seq(S) : IsPrefix(s, t) /\ Len(s) >= Len(t) => s = t
<1>1. \A s \in Seq(S) : Len(s) \in Nat
  BY LenProperties
<1>2. Root \in Seq(S) /\ Len(Root) = 0 /\ \A s \in Seq(S) : Len(s) = 0 => s = Root
  BY EmptySeq DEF Root
<1>3. \A s, t \in Seq(S) :
        IsPrefix(s, t) <=> Len(s) <= Len(t) /\ \A i \in 1 .. Len(s) : s[i] = t[i]
  BY PrefixIs
<1>4. \A s, t \in Seq(S) : IsPrefix(s, t) /\ Len(s) >= Len(t) => s = t
  <2> TAKE s \in Seq(S), t \in Seq(S)
  <2>1. IsPrefix(s, t) /\ Len(s) >= Len(t) =>
          Len(s) = Len(t) /\ \A i \in 1 .. Len(s) : s[i] = t[i]
    BY <1>1, <1>3
  <2>. QED  BY <2>1, SeqEqual
<1>5. \A s \in Seq(S) : IsPrefix(s, s) /\ IsPrefix(Root, s)
  <2> HIDE DEF Root
  <2> TAKE s \in Seq(S)
  <2>1. Len(Root) <= Len(s) /\ \A i \in 1 .. Len(Root) : Root[i] = s[i]
    BY <1>1, <1>2
  <2>2. IsPrefix(Root, s)
    BY <1>2, <1>3, <2>1
  <2>3. IsPrefix(s, s)
    BY <1>1, <1>3
  <2>. QED  BY <2>2, <2>3
<1>6. \A s \in Seq(S) : IsPrefix(s, Root) => s = Root
  <2> HIDE DEF Root
  <2> TAKE s \in Seq(S)
  <2>1. IsPrefix(s, Root) => Len(s) <= Len(Root)
    BY <1>2, <1>3
  <2>. QED  BY <1>1, <1>2, <2>1
<1>7. \A s, t \in Seq(S) : IsPrefix(s, t) /\ IsPrefix(t, s) => s = t
  BY <1>1, <1>3, <1>4
<1>8. \A s, t, u \in Seq(S) : IsPrefix(s, t) /\ IsPrefix(t, u) => IsPrefix(s, u)
  <2> SUFFICES ASSUME NEW s \in Seq(S), NEW t \in Seq(S), NEW u \in Seq(S),
                      IsPrefix(s, t), IsPrefix(t, u)
               PROVE  IsPrefix(s, u)
    OBVIOUS
  <2>1. Len(s) <= Len(u) /\ \A i \in 1 .. Len(s) : i \in 1 .. Len(t) /\ s[i] = t[i] /\ t[i] = u[i]
    BY <1>1, <1>3
  <2>. QED  BY <1>3, <2>1
<1>9. \A s, t, u \in Seq(S) : IsPrefix(s, u) /\ IsPrefix(t, u) => IsPrefix(s, t) \/ IsPrefix(t, s)
  <2> SUFFICES ASSUME NEW s \in Seq(S), NEW t \in Seq(S), NEW u \in Seq(S),
                      IsPrefix(s, u), IsPrefix(t, u)
               PROVE  IsPrefix(s, t) \/ IsPrefix(t, s)
    OBVIOUS
  <2>1. /\ \A i \in 1 .. Len(s) : s[i] = u[i]
        /\ \A i \in 1 .. Len(t) : t[i] = u[i]
    BY <1>3
  <2>2. CASE Len(s) <= Len(t)
    <3>1. \A i \in 1 .. Len(s) : i \in 1 .. Len(t)
      BY <1>1, <2>2
    <3>. QED  BY <1>3, <2>1, <2>2, <3>1
  <2>3. CASE Len(t) <= Len(s)
    <3>1. \A i \in 1 .. Len(t) : i \in 1 .. Len(s)
      BY <1>1, <2>3
    <3>. QED  BY <1>3, <2>1, <2>3, <3>1
  <2>. QED  BY <1>1, <2>2, <2>3
<1>. QED
  BY <1>4, <1>5, <1>6, <1>7, <1>8, <1>9

(* The prefix of a given length, and that there is no other. *)
LEMMA PrefixCut ==
  ASSUME NEW S, NEW s \in Seq(S), NEW k \in 0 .. Len(s)
  PROVE  /\ SubSeq(s, 1, k) \in Seq(S) /\ Len(SubSeq(s, 1, k)) = k
         /\ IsPrefix(SubSeq(s, 1, k), s)
         /\ k = 0 <=> SubSeq(s, 1, k) = Root
         /\ \A p \in Seq(S) : IsPrefix(p, s) /\ Len(p) = k => p = SubSeq(s, 1, k)
<1>1. Len(s) \in Nat /\ \A i \in 1 .. Len(s) : s[i] \in S
  BY LenProperties
<1>2. /\ SubSeq(s, 1, k) \in Seq(S) /\ Len(SubSeq(s, 1, k)) = k
      /\ \A i \in 1 .. k : SubSeq(s, 1, k)[i] = s[i]
  BY <1>1, SubSeqProperties
<1>3. IsPrefix(SubSeq(s, 1, k), s)
  <2> DEFINE p == SubSeq(s, 1, k)
  <2>1. p \in Seq(S) /\ Len(p) <= Len(s) /\ \A i \in 1 .. Len(p) : p[i] = s[i]
    BY <1>1, <1>2
  <2> HIDE DEF p
  <2>2. IsPrefix(p, s)
    BY <2>1, PrefixIs
  <2>. QED  BY <2>2 DEF p
<1>4. k = 0 <=> SubSeq(s, 1, k) = Root
  BY <1>2, EmptySeq DEF Root
<1>5. ASSUME NEW p \in Seq(S), IsPrefix(p, s), Len(p) = k PROVE p = SubSeq(s, 1, k)
  <2>1. \A i \in 1 .. Len(p) : p[i] = SubSeq(s, 1, k)[i]
    BY <1>2, <1>5, PrefixIs
  <2>. QED  BY <1>2, <1>5, <2>1, SeqEqual
<1>. QED
  BY <1>2, <1>3, <1>4, <1>5

LEMMA MaxIs ==
  ASSUME NEW n \in Nat, NEW T \in SUBSET (0 .. n), T /= {}
  PROVE  Max(T) \in T /\ \A k \in T : Max(T) >= k
<1> DEFINE R == {n - k : k \in T}
<1>1. R \in SUBSET Nat /\ R /= {}
  <2>1. \A k \in T : k \in Int /\ k <= n
    OBVIOUS
  <2>2. \A k \in T : n - k \in Nat
    BY <2>1
  <2>. QED  BY <2>2
<1>2. PICK m \in R : \A k \in R : ~(k < m)
  <2> HIDE DEF R
  <2>. QED  BY <1>1, LeastNat
<1>3. \E x \in T : \A y \in T : x >= y
  <2>1. n - m \in T
    BY <1>2
  <2>2. ASSUME NEW y \in T PROVE n - m >= y
    <3>1. n - y \in R /\ m \in Nat
      BY <1>2
    <3>2. ~(n - y < m)
      BY <1>2, <3>1
    <3>. QED  BY <3>1, <3>2
  <2>. QED  BY <2>1, <2>2
<1>. QED
  BY <1>3 DEF Max

(* Rounding down to whole pages *)
LEMMA AlignIs ==
  ASSUME PageSize \in Nat \ {0}, NEW x \in Nat
  PROVE  /\ AlignDown(x) \in 0 .. x /\ AlignDown(x) % PageSize = 0
         /\ \A k \in Nat : k <= x /\ k % PageSize = 0 => k <= AlignDown(x)
         /\ AlignDown(x) = PageSize * (x \div PageSize)
         /\ x % PageSize = 0 => AlignDown(x) = x
<1>1. x - (x % PageSize) \in 0 .. x /\ (x - (x % PageSize)) % PageSize = 0
  <2>1. x % PageSize \in 0 .. x
    OBVIOUS
  <2>2. x - (x % PageSize) = PageSize * (x \div PageSize) /\ x \div PageSize \in Nat
    OBVIOUS
  <2>3. \A j \in Nat : (PageSize * j) % PageSize = 0
    OBVIOUS
  <2>. QED  BY <2>1, <2>2, <2>3
<1>2. \A k \in Nat : k % PageSize = 0 => k = PageSize * (k \div PageSize)
  OBVIOUS
<1>3. x = PageSize * (x \div PageSize) + (x % PageSize) /\ x \div PageSize \in Nat /\ x % PageSize \in Nat
  OBVIOUS
<1>4. ASSUME NEW k \in Nat, k <= x, k % PageSize = 0 PROVE k <= x - (x % PageSize)
  <2>1. k \div PageSize <= x \div PageSize /\ k \div PageSize \in Nat
    BY <1>4
  <2>2. PageSize * (k \div PageSize) <= PageSize * (x \div PageSize)
    BY <1>3, <2>1
  <2>. QED  BY <1>2, <1>3, <1>4, <2>2
<1>. QED
  BY <1>1, <1>3, <1>4 DEF AlignDown

-----------------------------------------------------------------------------
(* Radix trees over the tokens S                                            *)

Aligned(p) == Len(p) % PageSize = 0

(* What two nodes share, page by page, they share in a node. *)
Forks(t) ==
  \A n, m \in Nodes(t), p \in DOMAIN t.page :
    IsPrefix(p, n) /\ IsPrefix(p, m) =>
      \E f \in Nodes(t) : IsPrefix(p, f) /\ IsPrefix(f, n) /\ IsPrefix(f, m)

IsTree(t, S) ==
  /\ DOMAIN t = {"ref", "page", "evictable", "protected"}
  /\ IsFiniteSet(Nodes(t)) /\ \A n \in Nodes(t) : t.ref[n] \in Nat
  /\ DOMAIN t.page \subseteq Seq(S) \ {Root}
  /\ Nodes(t) \subseteq DOMAIN t.page
  /\ \A p \in DOMAIN t.page : Aligned(p) /\ \E n \in Nodes(t) : IsPrefix(p, n)
  /\ \A p \in DOMAIN t.page : \A q \in Seq(S) \ {Root} :
       Aligned(q) /\ IsPrefix(q, p) => q \in DOMAIN t.page
  /\ Forks(t)

LEMMA EmptyTreeIs == ASSUME NEW S PROVE IsTree(EmptyTree, S)
<1>1. /\ DOMAIN EmptyTree = {"ref", "page", "evictable", "protected"}
      /\ DOMAIN EmptyTree.page = {} /\ Nodes(EmptyTree) = {}
  BY DEF EmptyTree, Nodes
<1> HIDE DEF EmptyTree
<1>. QED
  BY <1>1, FS_EmptySet DEF IsTree, Forks

(* _tree_walk finds the longest text of the tree that ids begins with. *)
LEMMA MatchedIs ==
  ASSUME PageSize \in Nat \ {0}, NEW S, NEW t, IsTree(t, S), NEW ids \in Seq(S)
  PROVE  /\ Matched(t, ids) \in Seq(S) /\ Aligned(Matched(t, ids))
         /\ IsPrefix(Matched(t, ids), ids)
         /\ Matched(t, ids) = Root \/ Matched(t, ids) \in DOMAIN t.page
         /\ \A p \in DOMAIN t.page : IsPrefix(p, ids) => IsPrefix(p, Matched(t, ids))
<1> DEFINE K == {0} \union {k \in 1 .. Len(ids) :
                              k % PageSize = 0 /\ SubSeq(ids, 1, k) \in DOMAIN t.page}
           n == Max(K)
           m == SubSeq(ids, 1, n)
<1>1. Len(ids) \in Nat
  BY LenProperties
<1>2. n \in K /\ \A k \in K : n >= k
  <2>1. K \in SUBSET (0 .. Len(ids)) /\ K /= {}
    BY <1>1
  <2> HIDE DEF K
  <2>. QED  BY <1>1, <2>1, MaxIs
<1>3. n \in 0 .. Len(ids) /\ n % PageSize = 0
  <2>1. 0 % PageSize = 0
    OBVIOUS
  <2>2. \A k \in K : k \in 0 .. Len(ids) /\ k % PageSize = 0
    BY <1>1, <2>1
  <2> HIDE DEF K
  <2>. QED  BY <1>2, <2>2
<1>4. /\ m \in Seq(S) /\ Len(m) = n /\ IsPrefix(m, ids)
      /\ n = 0 <=> m = Root
  <2> HIDE DEF n
  <2>. QED  BY <1>3, PrefixCut
<1>5. m = Root \/ m \in DOMAIN t.page
  BY <1>2, <1>4
<1>6. ASSUME NEW p \in DOMAIN t.page, IsPrefix(p, ids) PROVE IsPrefix(p, m)
  <2>1. p \in Seq(S) /\ p /= Root /\ Len(p) % PageSize = 0
    BY DEF IsTree, Aligned
  <2>2. Len(p) \in 1 .. Len(ids)
    <3>1. Len(p) \in Nat /\ Len(p) <= Len(ids)
      BY <1>6, <2>1, LenProperties, PrefixIs
    <3>2. Len(p) /= 0
      BY <2>1, EmptySeq DEF Root
    <3>. QED  BY <1>1, <3>1, <3>2
  <2>3. p = SubSeq(ids, 1, Len(p))
    <3>1. \A k \in 0 .. Len(ids) : Len(p) = k => p = SubSeq(ids, 1, k)
      BY <1>6, <2>1, PrefixCut
    <3>. QED  BY <2>2, <3>1, <1>1
  <2>4. Len(p) \in K
    BY <2>1, <2>2, <2>3
  <2> HIDE DEF K
  <2>5. n >= Len(p)
    BY <1>2, <2>4
  <2> HIDE DEF n, m
  <2>6. IsPrefix(p, m) \/ IsPrefix(m, p)
    BY <1>4, <1>6, <2>1, PrefixOrder
  <2>. QED  BY <1>4, <2>1, <2>5, <2>6, PrefixOrder
<1>7. Matched(t, ids) = m
  BY DEF Matched
<1> HIDE DEF m
<1>. QED
  BY <1>3, <1>4, <1>5, <1>6, <1>7 DEF Aligned

(* Among the nodes below a text of the tree one is above all others. *)
LEMMA LeastBelow ==
  ASSUME NEW S, NEW t, IsTree(t, S), NEW path \in DOMAIN t.page
  PROVE  \E n \in Nodes(t) : /\ IsPrefix(path, n)
                             /\ \A m \in Nodes(t) : IsPrefix(path, m) => IsPrefix(n, m)
<1> DEFINE below == {n \in Nodes(t) : IsPrefix(path, n)}
           lens == {Len(n) : n \in below}
<1>1. \A n \in Nodes(t) : n \in Seq(S) /\ Len(n) \in Nat
  BY LenProperties DEF IsTree
<1>2. PICK k \in lens : \A l \in lens : ~(l < k)
  <2>1. \E n \in Nodes(t) : IsPrefix(path, n)
    BY DEF IsTree
  <2>2. lens /= {} /\ lens \in SUBSET Nat
    BY <1>1, <2>1
  <2> HIDE DEF lens
  <2>. QED  BY <2>2, LeastNat
<1>3. PICK n \in below : Len(n) = k
  OBVIOUS
<1>4. ASSUME NEW m \in below PROVE IsPrefix(n, m)
  <2>1. PICK f \in Nodes(t) : IsPrefix(path, f) /\ IsPrefix(f, n) /\ IsPrefix(f, m)
    BY DEF IsTree, Forks
  <2>2. ~(Len(f) < Len(n))
    BY <1>2, <1>3, <2>1
  <2>3. f = n
    BY <1>1, <2>1, <2>2, PrefixOrder
  <2>. QED  BY <2>1, <2>3
<1>. QED
  BY <1>4

-----------------------------------------------------------------------------
(* The operations: the fields, then the shape.                              *)

LEMMA TreeTexts ==
  ASSUME NEW S, NEW t, IsTree(t, S)
  PROVE  /\ Nodes(t) \subseteq DOMAIN t.page
         /\ \A p \in DOMAIN t.page : p \in Seq(S) /\ p /= Root /\ Aligned(p)
         /\ Root \in Seq(S)
BY EmptySeq DEF IsTree, Root

(* Splitting changes neither what is stored nor any count; the new node has
   the count of the node it was cut from. *)
LEMMA SplitIs ==
  ASSUME NEW S, NEW t, IsTree(t, S), NEW path, path = Root \/ path \in DOMAIN t.page
  PROVE  /\ DOMAIN Split(t, path) = DOMAIN t
         /\ Split(t, path).page = t.page
         /\ Split(t, path).evictable = t.evictable
         /\ Split(t, path).protected = t.protected
         /\ Nodes(Split(t, path)) = Nodes(t) \union ({path} \ {Root})
         /\ \A n \in Nodes(t) : Split(t, path).ref[n] = t.ref[n]
         /\ path /= Root => \E n \in Nodes(t) :
              /\ Split(t, path).ref[path] = t.ref[n] /\ IsPrefix(path, n)
              /\ \A m \in Nodes(t) : IsPrefix(path, m) => IsPrefix(n, m)
<1> DEFINE u == Split(t, path)
<1>1. CASE path = Root
  BY <1>1 DEF Split
<1>2. CASE path \in Nodes(t)
  <2>1. path \in Seq(S) /\ IsPrefix(path, path)
    BY <1>2, TreeTexts, PrefixOrder
  <2>. QED  BY <1>2, <2>1 DEF Split
<1>3. CASE path /= Root /\ path \notin Nodes(t)
  <2> DEFINE below == {n \in Nodes(t) : IsPrefix(path, n)}
             split == CHOOSE n \in below : \A m \in below : IsPrefix(n, m)
  <2>1. split \in below /\ \A m \in below : IsPrefix(split, m)
    BY <1>3, LeastBelow
  <2>2. u = [t EXCEPT !.ref = With(@, path, t.ref[split])]
    BY <1>3 DEF Split
  <2> HIDE DEF split
  <2>3. DOMAIN t = {"ref", "page", "evictable", "protected"}
    BY DEF IsTree
  <2> DEFINE ref == With(t.ref, path, t.ref[split])
  <2>4. /\ DOMAIN ref = Nodes(t) \union {path}
        /\ \A n \in Nodes(t) : ref[n] = t.ref[n]
        /\ ref[path] = t.ref[split]
    BY <1>3 DEF Nodes, With
  <2>5. u.ref = ref /\ u.page = t.page /\ u.evictable = t.evictable /\ u.protected = t.protected /\ DOMAIN u = DOMAIN t
    <3> HIDE DEF ref, u
    <3>1. u = [t EXCEPT !.ref = ref]
      BY <2>2 DEF ref
    <3>. QED  BY <2>3, <3>1
  <2> HIDE DEF ref, u
  <2>6. Nodes(u) = Nodes(t) \union ({path} \ {Root})
    BY <1>3, <2>4, <2>5 DEF Nodes
  <2>. QED  BY <2>1, <2>4, <2>5, <2>6 DEF u
<1>. QED
  BY <1>1, <1>2, <1>3

LEMMA SplitTree ==
  ASSUME NEW S, NEW t, IsTree(t, S), NEW path, path = Root \/ path \in DOMAIN t.page
  PROVE  IsTree(Split(t, path), S)
<1> DEFINE u == Split(t, path)
<1>1. /\ DOMAIN u = DOMAIN t /\ u.page = t.page
      /\ Nodes(u) = Nodes(t) \union ({path} \ {Root})
      /\ \A n \in Nodes(t) : u.ref[n] = t.ref[n]
      /\ path /= Root => \E n \in Nodes(t) :
           /\ u.ref[path] = t.ref[n] /\ IsPrefix(path, n)
           /\ \A m \in Nodes(t) : IsPrefix(path, m) => IsPrefix(n, m)
  BY SplitIs
<1> HIDE DEF u
<1>2. /\ \A p \in DOMAIN t.page : p \in Seq(S)
      /\ Nodes(u) \subseteq DOMAIN t.page /\ Nodes(t) \subseteq DOMAIN t.page
  BY <1>1, TreeTexts
<1>3. IsFiniteSet(Nodes(u)) /\ \A n \in Nodes(u) : u.ref[n] \in Nat
  <2>1. IsFiniteSet({path} \ {Root}) /\ IsFiniteSet(Nodes(t))
    BY FS_EmptySet, FS_Singleton, FS_Subset DEF IsTree
  <2>2. IsFiniteSet(Nodes(t) \union ({path} \ {Root}))
    <3> DEFINE one == {path} \ {Root}
    <3> HIDE DEF one
    <3>. QED  BY <2>1, FS_Union DEF one
  <2>. QED  BY <1>1, <2>2 DEF IsTree
<1>4. Forks(u)
  <2> SUFFICES ASSUME NEW n \in Nodes(u), NEW m \in Nodes(u), NEW p \in DOMAIN t.page,
                      IsPrefix(p, n), IsPrefix(p, m)
               PROVE  \E f \in Nodes(u) : IsPrefix(p, f) /\ IsPrefix(f, n) /\ IsPrefix(f, m)
    BY <1>1 DEF Forks
  <2>1. /\ \A x, y \in Nodes(t), q \in DOMAIN t.page :
             IsPrefix(q, x) /\ IsPrefix(q, y) =>
               \E f \in Nodes(t) : IsPrefix(q, f) /\ IsPrefix(f, x) /\ IsPrefix(f, y)
    BY DEF IsTree, Forks
  <2>2. ASSUME NEW x \in Nodes(t), path /= Root, IsPrefix(p, x), IsPrefix(p, path)
        PROVE  \E f \in Nodes(u) : IsPrefix(p, f) /\ IsPrefix(f, path) /\ IsPrefix(f, x)
    <3>1. PICK s \in Nodes(t) : IsPrefix(path, s)
      BY <1>1, <2>2
    <3>2. path \in Seq(S) /\ path \in Nodes(u) /\ p \in Seq(S) /\ s \in Seq(S) /\ x \in Seq(S)
      BY <1>1, <1>2, <2>2
    <3>3. IsPrefix(p, s)
      BY <2>2, <3>1, <3>2, PrefixOrder
    <3>4. PICK f \in Nodes(t) : IsPrefix(p, f) /\ IsPrefix(f, s) /\ IsPrefix(f, x)
      BY <2>1, <2>2, <3>3
    <3>5. f \in Seq(S)
      BY <1>2
    <3>6. CASE IsPrefix(f, path)
      BY <1>1, <3>4, <3>6
    <3>7. CASE IsPrefix(path, f)
      <4>1. IsPrefix(path, x) /\ IsPrefix(path, path)
        BY <3>2, <3>4, <3>5, <3>7, PrefixOrder
      <4>. QED  BY <2>2, <3>2, <4>1
    <3>. QED  BY <3>1, <3>2, <3>4, <3>5, <3>6, <3>7, PrefixOrder
  <2>3. CASE n \in Nodes(t) /\ m \in Nodes(t)
    BY <1>1, <2>1, <2>3
  <2>4. CASE n \in Nodes(t) /\ m \notin Nodes(t)
    <3>1. m = path /\ path /= Root
      BY <1>1, <2>4
    <3>. QED  BY <2>2, <2>4, <3>1
  <2>5. CASE n \notin Nodes(t) /\ m \in Nodes(t)
    <3>1. n = path /\ path /= Root
      BY <1>1, <2>5
    <3>. QED  BY <2>2, <2>5, <3>1
  <2>6. CASE n \notin Nodes(t) /\ m \notin Nodes(t)
    <3>1. n = m
      BY <1>1, <2>6
    <3>. QED  BY <1>2, <3>1, PrefixOrder
  <2>. QED  BY <2>3, <2>4, <2>5, <2>6
<1>. QED
  <2>1. IsTree(u, S)
    BY <1>1, <1>2, <1>3, <1>4 DEF IsTree
  <2>. QED  BY <2>1 DEF u

(* A lock adds one to every count from the path up to the root, and an unlock
   takes one away. *)
LEMMA LockIs ==
  ASSUME NEW S, NEW t, IsTree(t, S), NEW path
  PROVE  /\ DOMAIN Lock(t, path) = DOMAIN t
         /\ Lock(t, path).page = t.page
         /\ Nodes(Lock(t, path)) = Nodes(t)
         /\ \A n \in Nodes(t) :
              Lock(t, path).ref[n] = IF IsPrefix(n, path) THEN t.ref[n] + 1 ELSE t.ref[n]
         /\ DOMAIN Unlock(t, path) = DOMAIN t
         /\ Unlock(t, path).page = t.page
         /\ Nodes(Unlock(t, path)) = Nodes(t)
         /\ \A n \in Nodes(t) :
              Unlock(t, path).ref[n] = IF IsPrefix(n, path) THEN t.ref[n] - 1 ELSE t.ref[n]
<1>1. DOMAIN t = {"ref", "page", "evictable", "protected"}
  BY DEF IsTree
<1>2. \A n \in Nodes(t) : n \in Upward(t, path) <=> IsPrefix(n, path)
  BY DEF Upward
<1> DEFINE up == Upward(t, path)
           more == [n \in Nodes(t) |-> IF n \in up THEN t.ref[n] + 1 ELSE t.ref[n]]
           less == [n \in Nodes(t) |-> IF n \in up THEN t.ref[n] - 1 ELSE t.ref[n]]
           lock == Lock(t, path)
           unlock == Unlock(t, path)
<1>3. PICK d : lock = [t EXCEPT !.ref = more, !.evictable = t.evictable - d, !.protected = t.protected + d]
  BY DEF Lock
<1>4. PICK e : unlock = [t EXCEPT !.ref = less, !.evictable = t.evictable + e, !.protected = t.protected - e]
  BY DEF Unlock
<1> HIDE DEF lock, unlock
<1>5. lock.ref = more /\ lock.page = t.page /\ DOMAIN lock = DOMAIN t
  <2> HIDE DEF more
  <2>. QED  BY <1>1, <1>3
<1>6. unlock.ref = less /\ unlock.page = t.page /\ DOMAIN unlock = DOMAIN t
  <2> HIDE DEF less
  <2>. QED  BY <1>1, <1>4
<1>7. /\ Nodes(lock) = Nodes(t) /\ Nodes(unlock) = Nodes(t)
      /\ \A n \in Nodes(t) : lock.ref[n] = IF IsPrefix(n, path) THEN t.ref[n] + 1 ELSE t.ref[n]
      /\ \A n \in Nodes(t) : unlock.ref[n] = IF IsPrefix(n, path) THEN t.ref[n] - 1 ELSE t.ref[n]
  <2>1. /\ DOMAIN lock.ref = Nodes(t) /\ DOMAIN unlock.ref = Nodes(t)
    BY <1>5, <1>6
  <2>. QED  BY <1>2, <1>5, <1>6, <2>1 DEF Nodes
<1>. QED
  BY <1>5, <1>6, <1>7 DEF lock, unlock

(* A tree whose nodes and pages are those of another is a tree as well. *)
LEMMA SameTree ==
  ASSUME NEW S, NEW t, IsTree(t, S), NEW u, DOMAIN u = DOMAIN t, DOMAIN u.page = DOMAIN t.page,
         Nodes(u) = Nodes(t), \A n \in Nodes(t) : u.ref[n] \in Nat
  PROVE  IsTree(u, S)
<1>1. Forks(u)
  BY DEF IsTree, Forks
<1>. QED
  BY <1>1 DEF IsTree

(* What insert_prefix adds to a tree that does not hold the key entirely. *)
LEMMA InsertedIs ==
  ASSUME PageSize \in Nat \ {0}, NEW S, NEW t, IsTree(t, S), NEW key \in Seq(S), Aligned(key),
         NEW pages, NEW known, known = Matched(t, key), known /= key
  PROVE  /\ key \notin DOMAIN t.page /\ key /= Root
         /\ DOMAIN Inserted(t, key, pages) = DOMAIN t
         /\ Nodes(Inserted(t, key, pages)) = Nodes(Split(t, known)) \union {key}
         /\ \A n \in Nodes(Split(t, known)) :
              Inserted(t, key, pages).ref[n] = Split(t, known).ref[n]
         /\ Inserted(t, key, pages).ref[key] = 0
         /\ DOMAIN Inserted(t, key, pages).page =
              DOMAIN t.page \union {p \in Seq(S) \ {Root} : Aligned(p) /\ IsPrefix(p, key)}
         /\ \A p \in DOMAIN t.page : Inserted(t, key, pages).page[p] = t.page[p]
         /\ \A p \in Seq(S) \ {Root} : p \notin DOMAIN t.page /\ Aligned(p) /\ IsPrefix(p, key) =>
              Inserted(t, key, pages).page[p] = pages[Len(p) \div PageSize]
         /\ Inserted(t, key, pages).evictable = t.evictable + Len(key) - Len(known)
         /\ Inserted(t, key, pages).protected = t.protected
<1>1. /\ known \in Seq(S) /\ IsPrefix(known, key) /\ Aligned(known)
      /\ known = Root \/ known \in DOMAIN t.page
      /\ \A p \in DOMAIN t.page : IsPrefix(p, key) => IsPrefix(p, known)
  BY MatchedIs
<1>2. key \notin DOMAIN t.page /\ key /= Root
  <2>1. ASSUME key \in DOMAIN t.page PROVE FALSE
    BY <1>1, <2>1, PrefixOrder
  <2>2. key /= Root
    BY <1>1, PrefixOrder
  <2>. QED  BY <2>1, <2>2
<1> DEFINE u == Inserted(t, key, pages)
           s == Split(t, known)
           new == {SubSeq(key, 1, k) : k \in {k \in Len(known) + 1 .. Len(key) : k % PageSize = 0}}
           page == [p \in DOMAIN t.page \union new |->
                      IF p \in DOMAIN t.page THEN t.page[p] ELSE pages[Len(p) \div PageSize]]
           ref == With(s.ref, key, 0)
<1>3. /\ DOMAIN s = DOMAIN t /\ s.page = t.page
      /\ s.evictable = t.evictable /\ s.protected = t.protected
      /\ Nodes(s) = Nodes(t) \union ({known} \ {Root})
  BY <1>1, SplitIs
<1>4. u = [s EXCEPT !.ref = ref, !.page = page,
                    !.evictable = s.evictable + Len(key) - Len(known)]
  BY <1>3 DEF Inserted
<1>5. DOMAIN t = {"ref", "page", "evictable", "protected"}
  BY DEF IsTree
<1>6. /\ u.ref = ref /\ u.page = page /\ DOMAIN u = DOMAIN t
      /\ u.evictable = t.evictable + Len(key) - Len(known) /\ u.protected = t.protected
  <2> HIDE DEF ref, page, s, u
  <2>. QED  BY <1>3, <1>4, <1>5
<1>7. key \notin Nodes(s)
  BY <1>1, <1>2, <1>3, TreeTexts
<1>8. /\ DOMAIN ref = Nodes(s) \union {key} /\ ref[key] = 0
      /\ \A n \in Nodes(s) : ref[n] = s.ref[n]
  <2> HIDE DEF s
  <2>. QED  BY <1>7 DEF With, Nodes
<1>9. DOMAIN t.page \union new =
        DOMAIN t.page \union {p \in Seq(S) \ {Root} : Aligned(p) /\ IsPrefix(p, key)}
  <2>1. Len(key) \in Nat /\ Len(known) \in Nat
    BY <1>1, LenProperties
  <2>2. ASSUME NEW p \in new PROVE p \in Seq(S) \ {Root} /\ Aligned(p) /\ IsPrefix(p, key)
    <3>1. PICK k \in Len(known) + 1 .. Len(key) : k % PageSize = 0 /\ p = SubSeq(key, 1, k)
      OBVIOUS
    <3>2. k \in 0 .. Len(key) /\ k /= 0
      BY <2>1
    <3>3. p \in Seq(S) /\ Len(p) = k /\ IsPrefix(p, key) /\ (k = 0 <=> p = Root)
      BY <3>1, <3>2, PrefixCut
    <3>. QED  BY <3>1, <3>2, <3>3 DEF Aligned
  <2>3. ASSUME NEW p \in Seq(S) \ {Root}, Aligned(p), IsPrefix(p, key), p \notin DOMAIN t.page
        PROVE  p \in new
    <3>1. Len(p) \in Nat /\ Len(p) <= Len(key)
      BY <2>3, LenProperties, PrefixIs
    <3>2. ~IsPrefix(p, known)
      <4>1. CASE known = Root
        BY <4>1, PrefixOrder
      <4>2. CASE known \in DOMAIN t.page
        BY <2>3, <4>2 DEF IsTree
      <4>. QED  BY <1>1, <4>1, <4>2
    <3>3. Len(p) > Len(known)
      BY <1>1, <2>1, <2>3, <3>1, <3>2, PrefixOrder
    <3>4. p = SubSeq(key, 1, Len(p))
      <4>1. \A k \in 0 .. Len(key) : Len(p) = k => p = SubSeq(key, 1, k)
        BY <2>3, PrefixCut
      <4>2. Len(p) \in 0 .. Len(key)
        BY <2>1, <3>1
      <4>. QED  BY <4>1, <4>2
    <3>5. Len(p) \in Len(known) + 1 .. Len(key) /\ Len(p) % PageSize = 0
      BY <2>1, <2>3, <3>1, <3>3 DEF Aligned
    <3>. QED  BY <3>4, <3>5
  <2>. QED  BY <2>2, <2>3
<1> HIDE DEF ref, u, s, new
<1>10. DOMAIN page = DOMAIN t.page \union {p \in Seq(S) \ {Root} : Aligned(p) /\ IsPrefix(p, key)}
  BY <1>9
<1>11. /\ \A p \in DOMAIN t.page : page[p] = t.page[p]
       /\ \A p \in Seq(S) \ {Root} : p \notin DOMAIN t.page /\ Aligned(p) /\ IsPrefix(p, key) =>
            page[p] = pages[Len(p) \div PageSize]
  BY <1>9
<1> HIDE DEF page
<1>. QED
  <2>1. Nodes(u) = Nodes(s) \union {key}
    BY <1>6, <1>8 DEF Nodes
  <2>. QED  BY <1>2, <1>6, <1>8, <1>10, <1>11, <2>1 DEF u, s

LEMMA InsertedTree ==
  ASSUME PageSize \in Nat \ {0}, NEW S, NEW t, IsTree(t, S), NEW key \in Seq(S), Aligned(key),
         NEW pages, Matched(t, key) /= key
  PROVE  IsTree(Inserted(t, key, pages), S)
<1> DEFINE known == Matched(t, key)
           s == Split(t, known)
           u == Inserted(t, key, pages)
<1>1. /\ known \in Seq(S) /\ IsPrefix(known, key) /\ Aligned(known)
      /\ known = Root \/ known \in DOMAIN t.page
      /\ \A p \in DOMAIN t.page : IsPrefix(p, key) => IsPrefix(p, known)
  BY MatchedIs
<1>2. /\ DOMAIN s = DOMAIN t /\ s.page = t.page
      /\ Nodes(s) = Nodes(t) \union ({known} \ {Root})
  BY <1>1, SplitIs
<1>3. IsTree(s, S)
  BY <1>1, SplitTree
<1>4. /\ key \notin DOMAIN t.page /\ key /= Root
      /\ DOMAIN u = DOMAIN t /\ Nodes(u) = Nodes(s) \union {key}
      /\ \A n \in Nodes(s) : u.ref[n] = s.ref[n]
      /\ u.ref[key] = 0
      /\ DOMAIN u.page = DOMAIN t.page \union {p \in Seq(S) \ {Root} : Aligned(p) /\ IsPrefix(p, key)}
  BY <1>1, InsertedIs
<1> HIDE DEF known, s, u
<1>5. /\ \A p \in DOMAIN u.page : p \in Seq(S) /\ p /= Root /\ Aligned(p)
      /\ \A n \in Nodes(u) : n \in Seq(S) /\ n \in DOMAIN u.page
      /\ \A n \in Nodes(s) : n \in DOMAIN t.page /\ n \in Seq(S)
  <2>1. IsPrefix(key, key)
    BY PrefixOrder
  <2>. QED  BY <1>2, <1>3, <1>4, <2>1, TreeTexts
<1>6. IsFiniteSet(Nodes(u)) /\ \A n \in Nodes(u) : u.ref[n] \in Nat
  <2>1. IsFiniteSet(Nodes(s)) /\ \A n \in Nodes(s) : s.ref[n] \in Nat
    BY <1>3 DEF IsTree
  <2>2. IsFiniteSet(Nodes(s) \union {key})
    BY <2>1, FS_AddElement
  <2>. QED  BY <1>4, <2>1, <2>2
<1>7. ASSUME NEW p \in DOMAIN u.page PROVE \E n \in Nodes(u) : IsPrefix(p, n)
  <2>1. CASE p \in DOMAIN t.page
    BY <1>2, <1>3, <1>4, <2>1 DEF IsTree
  <2>2. CASE p \notin DOMAIN t.page
    BY <1>4, <2>2
  <2>. QED  BY <2>1, <2>2
<1>8. ASSUME NEW p \in DOMAIN u.page, NEW q \in Seq(S) \ {Root}, Aligned(q), IsPrefix(q, p)
      PROVE  q \in DOMAIN u.page
  <2>1. CASE p \in DOMAIN t.page
    BY <1>4, <1>8, <2>1 DEF IsTree
  <2>2. CASE p \notin DOMAIN t.page
    <3>1. IsPrefix(p, key) /\ p \in Seq(S)
      BY <1>4, <1>5, <2>2
    <3>2. IsPrefix(q, key)
      BY <1>8, <3>1, PrefixOrder
    <3>. QED  BY <1>4, <1>8, <3>2
  <2>. QED  BY <2>1, <2>2
<1>9. Forks(u)
  <2> SUFFICES ASSUME NEW n \in Nodes(u), NEW m \in Nodes(u), NEW p \in DOMAIN u.page,
                      IsPrefix(p, n), IsPrefix(p, m)
               PROVE  \E f \in Nodes(u) : IsPrefix(p, f) /\ IsPrefix(f, n) /\ IsPrefix(f, m)
    BY DEF Forks
  <2>1. \A x, y \in Nodes(s), q \in DOMAIN t.page :
          IsPrefix(q, x) /\ IsPrefix(q, y) =>
            \E f \in Nodes(s) : IsPrefix(q, f) /\ IsPrefix(f, x) /\ IsPrefix(f, y)
    BY <1>2, <1>3 DEF IsTree, Forks
  <2>2. ASSUME NEW x \in Nodes(s), IsPrefix(p, x), IsPrefix(p, key)
        PROVE  \E f \in Nodes(u) : IsPrefix(p, f) /\ IsPrefix(f, x) /\ IsPrefix(f, key)
    <3>1. p \in DOMAIN t.page
      BY <1>2, <1>3, <1>5, <2>2 DEF IsTree
    <3>2. IsPrefix(p, known) /\ p \in Seq(S) /\ p /= Root
      BY <1>1, <1>5, <2>2, <3>1
    <3>3. known \in Nodes(s)
      BY <1>2, <3>2, PrefixOrder
    <3>4. PICK f \in Nodes(s) : IsPrefix(p, f) /\ IsPrefix(f, x) /\ IsPrefix(f, known)
      BY <2>1, <2>2, <3>1, <3>2, <3>3
    <3>5. IsPrefix(f, key)
      BY <1>1, <1>5, <3>4, PrefixOrder
    <3>. QED  BY <1>4, <3>4, <3>5
  <2>3. CASE n \in Nodes(s) /\ m \in Nodes(s)
    <3>1. p \in DOMAIN t.page
      BY <1>2, <1>3, <1>5, <2>3 DEF IsTree
    <3>. QED  BY <1>4, <2>1, <2>3, <3>1
  <2>4. CASE n \in Nodes(s) /\ m \notin Nodes(s)
    BY <1>4, <2>2, <2>4
  <2>5. CASE n \notin Nodes(s) /\ m \in Nodes(s)
    BY <1>4, <2>2, <2>5
  <2>6. CASE n \notin Nodes(s) /\ m \notin Nodes(s)
    <3>1. n = key /\ m = key
      BY <1>4, <2>6
    <3>. QED  BY <1>5, <3>1, PrefixOrder
  <2>. QED  BY <2>3, <2>4, <2>5, <2>6
<1>. QED
  <2>1. /\ DOMAIN u = {"ref", "page", "evictable", "protected"}
        /\ DOMAIN u.page \subseteq Seq(S) \ {Root}
        /\ Nodes(u) \subseteq DOMAIN u.page
        /\ \A p \in DOMAIN u.page : Aligned(p)
    BY <1>4, <1>5 DEF IsTree
  <2>2. IsTree(u, S)
    BY <1>6, <1>7, <1>8, <1>9, <2>1 DEF IsTree
  <2>. QED  BY <2>2 DEF u

(* Evicting whole subtrees leaves a tree, in which the rest is as it was. *)
LEMMA WithoutIs ==
  ASSUME NEW S, NEW t, IsTree(t, S), NEW R \in SUBSET Nodes(t),
         \A n \in R, m \in Nodes(t) : IsPrefix(n, m) => m \in R
  PROVE  /\ IsTree(Without(t, R), S)
         /\ Nodes(Without(t, R)) = Nodes(t) \ R
         /\ \A n \in Nodes(t) \ R : Without(t, R).ref[n] = t.ref[n]
         /\ DOMAIN Without(t, R).page =
              {p \in DOMAIN t.page : \E n \in Nodes(t) \ R : IsPrefix(p, n)}
         /\ \A p \in DOMAIN Without(t, R).page : Without(t, R).page[p] = t.page[p]
         /\ Without(t, R).evictable = t.evictable - TotalLength(t, R)
         /\ Without(t, R).protected = t.protected
<1> DEFINE u == Without(t, R)
           left == Nodes(t) \ R
           keep == {p \in DOMAIN t.page : \E n \in left : IsPrefix(p, n)}
           ref == [n \in left |-> t.ref[n]]
           page == [p \in keep |-> t.page[p]]
           all == TotalLength(t, R)
<1>1. DOMAIN t = {"ref", "page", "evictable", "protected"}
  BY DEF IsTree
<1>2. u = [t EXCEPT !.ref = ref, !.page = page, !.evictable = t.evictable - all]
  BY DEF Without
<1>3. /\ u.ref = ref /\ u.page = page /\ u.evictable = t.evictable - all
      /\ u.protected = t.protected /\ DOMAIN u = DOMAIN t
  <2> HIDE DEF u, ref, page, all
  <2>. QED  BY <1>1, <1>2
<1> HIDE DEF u, all
<1>4. /\ Nodes(u) = left /\ \A n \in left : u.ref[n] = t.ref[n]
      /\ DOMAIN u.page = keep /\ \A p \in keep : u.page[p] = t.page[p]
  BY <1>3 DEF Nodes
<1> HIDE DEF ref, page
<1>5. \A p \in DOMAIN t.page : p \in Seq(S) /\ IsPrefix(p, p)
  BY TreeTexts, PrefixOrder
<1>6. Forks(u)
  <2> SUFFICES ASSUME NEW n \in left, NEW m \in left, NEW p \in keep,
                      IsPrefix(p, n), IsPrefix(p, m)
               PROVE  \E f \in left : IsPrefix(p, f) /\ IsPrefix(f, n) /\ IsPrefix(f, m)
    BY <1>4 DEF Forks
  <2>1. PICK f \in Nodes(t) : IsPrefix(p, f) /\ IsPrefix(f, n) /\ IsPrefix(f, m)
    BY DEF IsTree, Forks
  <2>2. f \notin R
    BY <2>1
  <2>. QED  BY <2>1, <2>2
<1>7. IsFiniteSet(left) /\ \A n \in left : u.ref[n] \in Nat
  <2>1. IsFiniteSet(Nodes(t)) /\ left \subseteq Nodes(t)
    BY DEF IsTree
  <2>2. IsFiniteSet(left)
    BY <2>1, FS_Subset
  <2>. QED  BY <1>4, <2>2 DEF IsTree
<1>8. ASSUME NEW p \in keep, NEW q \in Seq(S) \ {Root}, Aligned(q), IsPrefix(q, p)
      PROVE  q \in keep
  <2>1. PICK n \in left : IsPrefix(p, n)
    OBVIOUS
  <2>2. n \in Seq(S) /\ p \in Seq(S)
    BY <1>5, TreeTexts
  <2>3. q \in DOMAIN t.page
    BY <1>8 DEF IsTree
  <2>4. IsPrefix(q, n)
    BY <1>8, <2>1, <2>2, PrefixOrder
  <2>. QED  BY <2>3, <2>4
<1>9. left \subseteq keep
  BY <1>5, TreeTexts
<1>10. IsTree(u, S)
  <2>1. keep \subseteq DOMAIN t.page /\ \A p \in keep : \E n \in left : IsPrefix(p, n)
    OBVIOUS
  <2> HIDE DEF keep, left
  <2>. QED  BY <1>1, <1>3, <1>4, <1>6, <1>7, <1>8, <1>9, <2>1 DEF IsTree
<1>. QED
  BY <1>3, <1>4, <1>10 DEF u, all

-----------------------------------------------------------------------------
(* Counts: ref counts the holders L by the handles h they hold.             *)

Counted(t, L, h) ==
  /\ \A r \in L : h[r] = Root \/ h[r] \in Nodes(t)
  /\ \A n \in Nodes(t) : t.ref[n] = Cardinality({r \in L : IsPrefix(n, h[r])})

LEMMA HandleTexts ==
  ASSUME NEW S, NEW t, IsTree(t, S), NEW L, NEW h, Counted(t, L, h)
  PROVE  \A r \in L : h[r] \in Seq(S)
BY TreeTexts DEF Counted

(* A split moves no count: who holds a node below the new one holds it too. *)
LEMMA SplitCounted ==
  ASSUME NEW S, NEW t, IsTree(t, S), NEW path, path = Root \/ path \in DOMAIN t.page,
         NEW L, NEW h, Counted(t, L, h)
  PROVE  Counted(Split(t, path), L, h)
<1> DEFINE u == Split(t, path)
<1>1. /\ Nodes(u) = Nodes(t) \union ({path} \ {Root})
      /\ \A n \in Nodes(t) : u.ref[n] = t.ref[n]
      /\ path /= Root => \E n \in Nodes(t) :
           /\ u.ref[path] = t.ref[n] /\ IsPrefix(path, n)
           /\ \A m \in Nodes(t) : IsPrefix(path, m) => IsPrefix(n, m)
  BY SplitIs
<1> HIDE DEF u
<1>2. ASSUME path /= Root PROVE u.ref[path] = Cardinality({r \in L : IsPrefix(path, h[r])})
  <2>1. PICK n \in Nodes(t) : /\ u.ref[path] = t.ref[n] /\ IsPrefix(path, n)
                              /\ \A m \in Nodes(t) : IsPrefix(path, m) => IsPrefix(n, m)
    BY <1>1, <1>2
  <2>2. path \in Seq(S) /\ n \in Seq(S)
    BY <1>2, TreeTexts
  <2>3. \A r \in L : IsPrefix(path, h[r]) <=> IsPrefix(n, h[r])
    <3> TAKE r \in L
    <3>1. h[r] \in Seq(S)
      BY HandleTexts
    <3>2. IsPrefix(path, h[r]) => h[r] /= Root
      BY <1>2, <2>2, PrefixOrder
    <3>3. IsPrefix(path, h[r]) => IsPrefix(n, h[r])
      BY <2>1, <3>2 DEF Counted
    <3>4. IsPrefix(n, h[r]) => IsPrefix(path, h[r])
      BY <2>1, <2>2, <3>1, PrefixOrder
    <3>. QED  BY <3>3, <3>4
  <2>4. {r \in L : IsPrefix(path, h[r])} = {r \in L : IsPrefix(n, h[r])}
    BY <2>3
  <2>. QED  BY <2>1, <2>4 DEF Counted
<1>3. Counted(u, L, h)
  BY <1>1, <1>2 DEF Counted
<1>. QED
  BY <1>3 DEF u

(* A new holder of path, and one less. *)
LEMMA LockCounted ==
  ASSUME NEW S, NEW t, IsTree(t, S), NEW path, path = Root \/ path \in Nodes(t),
         NEW L, IsFiniteSet(L), NEW h, Counted(t, L, h),
         NEW r, r \notin L, NEW k, k[r] = path, \A q \in L : k[q] = h[q]
  PROVE  Counted(Lock(t, path), L \union {r}, k) /\ IsTree(Lock(t, path), S)
<1> DEFINE u == Lock(t, path)
<1>1. /\ DOMAIN u = DOMAIN t /\ u.page = t.page /\ Nodes(u) = Nodes(t)
      /\ \A n \in Nodes(t) : u.ref[n] = IF IsPrefix(n, path) THEN t.ref[n] + 1 ELSE t.ref[n]
  BY LockIs
<1> HIDE DEF u
<1>2. ASSUME NEW n \in Nodes(t)
      PROVE  u.ref[n] = Cardinality({q \in L \union {r} : IsPrefix(n, k[q])})
  <2> DEFINE old == {q \in L : IsPrefix(n, h[q])}
             now == {q \in L \union {r} : IsPrefix(n, k[q])}
  <2>1. IsFiniteSet(old) /\ r \notin old
    BY FS_Subset
  <2>2. now = IF IsPrefix(n, path) THEN old \union {r} ELSE old
    OBVIOUS
  <2>3. t.ref[n] = Cardinality(old)
    BY DEF Counted
  <2> HIDE DEF old, now
  <2>4. u.ref[n] = Cardinality(now)
    <3>1. CASE IsPrefix(n, path)
      <4>1. Cardinality(old \union {r}) = Cardinality(old) + 1
        BY <2>1, FS_AddElement
      <4>. QED  BY <1>1, <2>2, <2>3, <3>1, <4>1
    <3>2. CASE ~IsPrefix(n, path)
      BY <1>1, <2>2, <2>3, <3>2
    <3>. QED  BY <3>1, <3>2
  <2>. QED  BY <2>4 DEF now
<1>3. Counted(u, L \union {r}, k)
  BY <1>1, <1>2 DEF Counted
<1>4. IsTree(u, S)
  <2>1. \A n \in Nodes(t) : u.ref[n] \in Nat
    BY <1>1 DEF IsTree
  <2>. QED  BY <1>1, <2>1, SameTree
<1>. QED
  BY <1>3, <1>4 DEF u

LEMMA UnlockCounted ==
  ASSUME NEW S, NEW t, IsTree(t, S), NEW L, IsFiniteSet(L), NEW h, Counted(t, L, h),
         NEW r \in L, NEW k, \A q \in L \ {r} : k[q] = h[q]
  PROVE  Counted(Unlock(t, h[r]), L \ {r}, k) /\ IsTree(Unlock(t, h[r]), S)
<1> DEFINE u == Unlock(t, h[r])
<1>1. /\ DOMAIN u = DOMAIN t /\ u.page = t.page /\ Nodes(u) = Nodes(t)
      /\ \A n \in Nodes(t) : u.ref[n] = IF IsPrefix(n, h[r]) THEN t.ref[n] - 1 ELSE t.ref[n]
  BY LockIs
<1> HIDE DEF u
<1>2. ASSUME NEW n \in Nodes(t)
      PROVE  u.ref[n] = Cardinality({q \in L \ {r} : IsPrefix(n, k[q])}) /\ u.ref[n] \in Nat
  <2> DEFINE old == {q \in L : IsPrefix(n, h[q])}
             now == {q \in L \ {r} : IsPrefix(n, k[q])}
  <2>1. IsFiniteSet(old) /\ Cardinality(old) \in Nat /\ IsFiniteSet(now) /\ Cardinality(now) \in Nat
    BY FS_Subset, FS_CardinalityType
  <2>2. now = old \ {r} /\ (r \in old <=> IsPrefix(n, h[r]))
    OBVIOUS
  <2>3. t.ref[n] = Cardinality(old)
    BY DEF Counted
  <2> HIDE DEF old, now
  <2>4. u.ref[n] = Cardinality(now)
    <3>1. CASE r \in old
      BY <1>1, <2>1, <2>2, <2>3, <3>1, FS_RemoveElement
    <3>2. CASE r \notin old
      <4>1. now = old
        BY <2>2, <3>2
      <4>. QED  BY <1>1, <2>2, <2>3, <3>2, <4>1
    <3>. QED  BY <3>1, <3>2
  <2>. QED  BY <2>1, <2>4 DEF now
<1>3. Counted(u, L \ {r}, k)
  BY <1>1, <1>2 DEF Counted
<1>4. IsTree(u, S)
  BY <1>1, <1>2, SameTree
<1>. QED
  BY <1>3, <1>4 DEF u

(* A new leaf is held by nobody, nor is anything held before changed. *)
LEMMA InsertedCounted ==
  ASSUME PageSize \in Nat \ {0}, NEW S, NEW t, IsTree(t, S), NEW key \in Seq(S), Aligned(key),
         NEW pages, Matched(t, key) /= key, NEW L, NEW h, Counted(t, L, h)
  PROVE  Counted(Inserted(t, key, pages), L, h)
<1> DEFINE known == Matched(t, key)
           s == Split(t, known)
           u == Inserted(t, key, pages)
<1>1. known = Root \/ known \in DOMAIN t.page
  BY MatchedIs
<1>2. Counted(s, L, h) /\ Nodes(s) = Nodes(t) \union ({known} \ {Root})
  BY <1>1, SplitCounted, SplitIs
<1>3. /\ key \notin DOMAIN t.page /\ key /= Root
      /\ Nodes(u) = Nodes(s) \union {key}
      /\ \A n \in Nodes(s) : u.ref[n] = s.ref[n]
      /\ u.ref[key] = 0
  BY InsertedIs
<1> HIDE DEF known, s, u
<1>4. \A r \in L : ~IsPrefix(key, h[r])
  <2> SUFFICES ASSUME NEW r \in L, IsPrefix(key, h[r]) PROVE FALSE
    OBVIOUS
  <2>1. h[r] \in Seq(S) /\ h[r] /= Root
    BY <1>3, HandleTexts, PrefixOrder
  <2>2. h[r] \in DOMAIN t.page
    BY <2>1, TreeTexts DEF Counted
  <2>. QED  BY <1>3, <2>2 DEF IsTree
<1>5. {r \in L : IsPrefix(key, h[r])} = {}
  BY <1>4
<1>6. Cardinality({r \in L : IsPrefix(key, h[r])}) = 0
  BY <1>5, FS_EmptySet
<1>7. Counted(u, L, h)
  BY <1>2, <1>3, <1>6 DEF Counted
<1>. QED
  BY <1>7 DEF u

LEMMA WithoutCounted ==
  ASSUME NEW S, NEW t, IsTree(t, S), NEW R \in SUBSET Unlocked(t),
         \A n \in R, m \in Nodes(t) : IsPrefix(n, m) => m \in R,
         NEW L, IsFiniteSet(L), NEW h, Counted(t, L, h)
  PROVE  /\ Counted(Without(t, R), L, h)
         /\ \A r \in L, p \in DOMAIN t.page : IsPrefix(p, h[r]) => p \in DOMAIN Without(t, R).page
<1> DEFINE u == Without(t, R)
<1>1. R \in SUBSET Nodes(t) /\ \A n \in R : t.ref[n] = 0
  BY DEF Unlocked
<1>2. /\ Nodes(u) = Nodes(t) \ R
      /\ \A n \in Nodes(t) \ R : u.ref[n] = t.ref[n]
      /\ DOMAIN u.page = {p \in DOMAIN t.page : \E n \in Nodes(t) \ R : IsPrefix(p, n)}
  BY <1>1, WithoutIs
<1> HIDE DEF u
<1>3. ASSUME NEW r \in L, h[r] /= Root PROVE h[r] \in Nodes(t) \ R
  <2>1. h[r] \in Nodes(t) /\ IsPrefix(h[r], h[r])
    BY <1>3, HandleTexts, PrefixOrder, SMTT(30) DEF Counted
  <2> DEFINE holders == {q \in L : IsPrefix(h[r], h[q])}
  <2>2. r \in holders /\ IsFiniteSet(holders)
    BY <2>1, FS_Subset
  <2>3. t.ref[h[r]] = Cardinality(holders)
    BY <2>1 DEF Counted
  <2> HIDE DEF holders
  <2>4. t.ref[h[r]] /= 0
    BY <2>2, <2>3, FS_EmptySet
  <2>. QED  BY <1>1, <2>1, <2>4
<1>4. Counted(u, L, h)
  BY <1>2, <1>3 DEF Counted
<1>5. ASSUME NEW r \in L, NEW p \in DOMAIN t.page, IsPrefix(p, h[r]) PROVE p \in DOMAIN u.page
  <2>1. h[r] /= Root
    BY <1>5, TreeTexts, PrefixOrder
  <2>. QED  BY <1>2, <1>3, <1>5, <2>1
<1>. QED
  BY <1>4, <1>5 DEF u

(* insert_prefix as a whole *)
LEMMA InsertIs ==
  ASSUME PageSize \in Nat \ {0}, NEW S, NEW t, IsTree(t, S), NEW ids \in Seq(S), NEW pages,
         NEW L, NEW h, Counted(t, L, h)
  PROVE  LET done == InsertPrefix(t, ids, pages)
         IN  /\ IsTree(done.tree, S) /\ Counted(done.tree, L, h)
             /\ done.path = Root \/ done.path \in Nodes(done.tree)
             /\ DOMAIN t.page \subseteq DOMAIN done.tree.page
             /\ \A p \in DOMAIN t.page : done.tree.page[p] = t.page[p]
<1> DEFINE len == AlignDown(Len(ids))
           key == SubSeq(ids, 1, len)
           known == Matched(t, key)
           done == InsertPrefix(t, ids, pages)
<1>1. Len(ids) \in Nat /\ len \in 0 .. Len(ids) /\ len % PageSize = 0
  BY LenProperties, AlignIs
<1>2. key \in Seq(S) /\ Len(key) = len /\ Aligned(key)
  <2> HIDE DEF len
  <2>. QED  BY <1>1, PrefixCut DEF Aligned
<1> HIDE DEF len, key
<1>3. /\ known = Root \/ known \in DOMAIN t.page
      /\ known \in Seq(S) /\ IsPrefix(known, key)
  BY <1>2, MatchedIs
<1>4. done.tree = (IF known = key THEN Split(t, known) ELSE Inserted(t, key, pages)) /\ done.path = key
  BY DEF InsertPrefix, len, key
<1> HIDE DEF done
<1>5. CASE known = key
  <2>1. done.tree = Split(t, known)
    BY <1>4, <1>5
  <2> DEFINE u == Split(t, known)
  <2>2. IsTree(u, S) /\ Counted(u, L, h)
    BY <1>3, SplitTree, SplitCounted
  <2>3. u.page = t.page /\ Nodes(u) = Nodes(t) \union ({known} \ {Root})
    BY <1>3, SplitIs
  <2> HIDE DEF u, known
  <2>4. done.tree = u /\ done.path = known
    BY <1>4, <1>5 DEF u
  <2>5. /\ IsTree(done.tree, S) /\ Counted(done.tree, L, h)
        /\ done.path = Root \/ done.path \in Nodes(done.tree)
        /\ DOMAIN t.page \subseteq DOMAIN done.tree.page
        /\ \A p \in DOMAIN t.page : done.tree.page[p] = t.page[p]
    BY <2>2, <2>3, <2>4
  <2>. QED  BY <2>5 DEF done
<1>6. CASE known /= key
  <2> DEFINE u == Inserted(t, key, pages)
  <2>1. done.tree = u
    BY <1>4, <1>6
  <2>2. IsTree(u, S) /\ Counted(u, L, h)
    BY <1>2, <1>6, InsertedTree, InsertedCounted
  <2>3. /\ Nodes(u) = Nodes(Split(t, known)) \union {key}
        /\ DOMAIN u.page =
             DOMAIN t.page \union {p \in Seq(S) \ {Root} : Aligned(p) /\ IsPrefix(p, key)}
        /\ \A p \in DOMAIN t.page : u.page[p] = t.page[p]
    BY <1>2, <1>6, InsertedIs
  <2> HIDE DEF u
  <2>5. /\ IsTree(done.tree, S) /\ Counted(done.tree, L, h)
        /\ done.path = Root \/ done.path \in Nodes(done.tree)
        /\ DOMAIN t.page \subseteq DOMAIN done.tree.page
        /\ \A p \in DOMAIN t.page : done.tree.page[p] = t.page[p]
    BY <1>4, <2>1, <2>2, <2>3
  <2>. QED  BY <2>5 DEF done
<1>. QED
  BY <1>5, <1>6

(* Where two nodes part, page by page, there is a node. *)
LEMMA ForkIs ==
  ASSUME PageSize \in Nat \ {0}, NEW S, NEW t, IsTree(t, S), NEW n \in Nodes(t), NEW m \in Nodes(t)
  PROVE  LET shared == LongestCommonPrefix({n, m})
             fork   == SubSeq(shared, 1, AlignDown(Len(shared)))
         IN  fork = Root \/ fork \in Nodes(t)
<1> DEFINE common == CommonPrefixes({n, m})
           shared == LongestCommonPrefix({n, m})
           len == AlignDown(Len(shared))
           fork == SubSeq(shared, 1, len)
<1>1. n \in Seq(S) /\ m \in Seq(S) /\ n \in DOMAIN t.page
  BY TreeTexts
<1>2. /\ \A p \in common : p \in Seq(S) /\ Len(p) \in 0 .. Len(n)
      /\ \A p \in Seq(S) : p \in common <=> IsPrefix(p, n) /\ IsPrefix(p, m)
  <2> DEFINE all == UNION {Prefixes(seq) : seq \in {n, m}}
  <2>1. common = {p \in all : IsPrefix(p, n) /\ IsPrefix(p, m)}
    BY DEF CommonPrefixes
  <2>2. all = Prefixes(n) \union Prefixes(m)
    OBVIOUS
  <2>3. \A p \in Prefixes(n) : p \in Seq(S)
    <3> SUFFICES ASSUME NEW l \in 0 .. Len(n) PROVE SubSeq(n, 1, l) \in Seq(S)
      BY DEF Prefixes
    <3>. QED  BY <1>1, PrefixCut
  <2>4. \A p \in Prefixes(m) : p \in Seq(S)
    <3> SUFFICES ASSUME NEW l \in 0 .. Len(m) PROVE SubSeq(m, 1, l) \in Seq(S)
      BY DEF Prefixes
    <3>. QED  BY <1>1, PrefixCut
  <2>5. \A p \in Seq(S) : IsPrefix(p, n) => p \in Prefixes(n)
    <3> SUFFICES ASSUME NEW p \in Seq(S), IsPrefix(p, n) PROVE p \in Prefixes(n)
      OBVIOUS
    <3>1. Len(p) \in 0 .. Len(n)
      BY <1>1, PrefixIs, LenProperties
    <3>2. \A k \in 0 .. Len(n) : Len(p) = k => p = SubSeq(n, 1, k)
      BY <1>1, PrefixCut
    <3>3. p = SubSeq(n, 1, Len(p))
      BY <3>1, <3>2
    <3>. QED  BY <3>1, <3>3 DEF Prefixes
  <2> HIDE DEF all
  <2>6. \A p \in common : p \in Seq(S)
    BY <2>1, <2>2, <2>3, <2>4
  <2>7. \A p \in Seq(S) : p \in common <=> IsPrefix(p, n) /\ IsPrefix(p, m)
    BY <2>1, <2>2, <2>5
  <2>8. \A p \in Seq(S) : IsPrefix(p, n) => Len(p) \in 0 .. Len(n)
    BY <1>1, PrefixIs, LenProperties
  <2> HIDE DEF common
  <2>. QED  BY <2>6, <2>7, <2>8
<1>3. shared \in common /\ \A p \in common : Len(p) <= Len(shared)
  <2> DEFINE lens == {Len(p) : p \in common}
  <2>1. Root \in common
    BY <1>1, <1>2, PrefixOrder, TreeTexts
  <2> HIDE DEF common
  <2>0. Len(n) \in Nat
    BY <1>1, LenProperties
  <2>2. lens \in SUBSET (0 .. Len(n)) /\ lens /= {} /\ Len(n) \in Nat
    BY <1>2, <2>0, <2>1
  <2>3. Max(lens) \in lens /\ \A k \in lens : Max(lens) >= k
    <3> HIDE DEF lens
    <3>. QED  BY <2>2, MaxIs
  <2> DEFINE top == Max(lens)
  <2> HIDE DEF top
  <2>4. PICK p \in common : Len(p) = top
    BY <2>3 DEF top
  <2>5. \A q \in common : Len(q) <= Len(p)
    BY <1>2, <2>2, <2>3, <2>4 DEF top
  <2>6. shared = CHOOSE longest \in common : \A other \in common : Len(other) <= Len(longest)
    BY DEF LongestCommonPrefix, common
  <2>. QED  BY <2>5, <2>6
<1> HIDE DEF common, shared
<1>4. /\ shared \in Seq(S) /\ IsPrefix(shared, n) /\ IsPrefix(shared, m) /\ Len(shared) \in Nat
  BY <1>2, <1>3, LenProperties
<1>5. /\ len \in 0 .. Len(shared) /\ len % PageSize = 0
      /\ \A k \in Nat : k <= Len(shared) /\ k % PageSize = 0 => k <= len
  BY <1>4, AlignIs
<1> HIDE DEF len
<1>6. /\ fork \in Seq(S) /\ Len(fork) = len /\ IsPrefix(fork, shared) /\ Aligned(fork)
  BY <1>4, <1>5, PrefixCut DEF Aligned
<1> HIDE DEF fork
<1>7. CASE fork /= Root
  <2>1. IsPrefix(fork, n) /\ IsPrefix(fork, m)
    BY <1>1, <1>4, <1>6, PrefixOrder
  <2>2. fork \in DOMAIN t.page
    BY <1>1, <1>6, <1>7, <2>1 DEF IsTree
  <2>3. PICK f \in Nodes(t) : IsPrefix(fork, f) /\ IsPrefix(f, n) /\ IsPrefix(f, m)
    BY <2>1, <2>2 DEF IsTree, Forks
  <2>4. f \in Seq(S) /\ Len(f) \in Nat /\ Len(f) % PageSize = 0
    BY TreeTexts, LenProperties DEF Aligned
  <2>5. Len(f) <= Len(shared)
    BY <1>2, <1>3, <2>3, <2>4
  <2>6. Len(f) <= len
    BY <1>5, <2>4, <2>5
  <2>7. fork = f
    BY <1>6, <2>3, <2>4, <2>6, PrefixOrder
  <2>. QED  BY <2>7 DEF fork, len, shared
<1>. QED
  BY <1>7 DEF fork, len, shared

-----------------------------------------------------------------------------
(* Sizes: the keys of the nodes add up to what the cache keeps of them.     *)

Lengths(t) == [n \in Nodes(t) |-> Length(t, n)]

Sized(t) ==
  /\ t.evictable = TotalLength(t, {n \in Nodes(t) : t.ref[n] = 0})
  /\ t.protected = TotalLength(t, {n \in Nodes(t) : t.ref[n] > 0})

\* The lengths of the nodes above a node
Above(t, n) == {Len(m) : m \in Upward(t, n) \ {n}}

(* The key of a node begins where the longest node above it ends. *)
LEMMA LengthAt ==
  ASSUME NEW S, NEW t, IsTree(t, S), NEW n \in Seq(S), NEW a \in Nat,
         a = 0 \/ a \in Above(t, n), \A b \in Above(t, n) : b <= a
  PROVE  Length(t, n) = Len(n) - a
<1> DEFINE T == {0} \union Above(t, n)
<1>1. Len(n) \in Nat
  OBVIOUS
<1>2. \A b \in Above(t, n) : b \in 0 .. Len(n)
  <2> SUFFICES ASSUME NEW m \in Upward(t, n) \ {n} PROVE Len(m) \in 0 .. Len(n)
    BY DEF Above
  <2>1. m \in Seq(S) /\ IsPrefix(m, n)
    BY TreeTexts DEF Upward
  <2>. QED  BY <2>1, PrefixIs
<1>3. T \in SUBSET (0 .. Len(n)) /\ T /= {}
  BY <1>1, <1>2
<1> HIDE DEF T
<1>4. Max(T) \in T /\ \A k \in T : Max(T) >= k
  BY <1>1, <1>3, MaxIs
<1>5. a \in T /\ (\A k \in T : k \in Nat) /\ \A k \in T : k <= a
  BY <1>2 DEF T
<1> DEFINE x == Max(T)
<1>6. x = a
  <2>1. x \in T /\ x >= a
    BY <1>4, <1>5
  <2> HIDE DEF x
  <2>2. x \in Nat /\ x <= a
    BY <1>5, <2>1
  <2>. QED  BY <2>1, <2>2
<1>7. Length(t, n) = Len(n) - Max(T)
  BY DEF Length, T, Above
<1>. QED
  BY <1>6, <1>7

LEMMA LengthIs ==
  ASSUME NEW S, NEW t, IsTree(t, S), NEW n \in Seq(S)
  PROVE  /\ Length(t, n) \in 0 .. Len(n)
         /\ \E a \in 0 .. Len(n) : /\ Length(t, n) = Len(n) - a /\ (a = 0 \/ a \in Above(t, n))
                                   /\ \A b \in Above(t, n) : b <= a
         /\ (n /= Root => Length(t, n) > 0)
<1> DEFINE T == {0} \union Above(t, n)
<1>1. Len(n) \in Nat
  OBVIOUS
<1>2. ASSUME NEW m \in Upward(t, n) \ {n} PROVE Len(m) \in 0 .. Len(n) /\ Len(m) /= Len(n)
  <2>1. m \in Seq(S) /\ IsPrefix(m, n) /\ m /= n
    BY TreeTexts DEF Upward
  <2>2. Len(m) \in 0 .. Len(n)
    BY <2>1, PrefixIs
  <2>. QED  BY <2>1, <2>2, PrefixOrder
<1>2a. \A b \in Above(t, n) : b \in 0 .. Len(n) /\ b /= Len(n)
  BY <1>2 DEF Above
<1>3. T \in SUBSET (0 .. Len(n)) /\ T /= {}
  BY <1>1, <1>2a
<1> HIDE DEF T
<1>4. Max(T) \in T /\ \A k \in T : Max(T) >= k
  BY <1>1, <1>3, MaxIs
<1> DEFINE a == Max(T)
<1>5. a \in 0 .. Len(n) /\ (a = 0 \/ a \in Above(t, n)) /\ \A b \in Above(t, n) : b <= a
  <2>1. a \in T /\ \A k \in T : a >= k
    BY <1>4
  <2> HIDE DEF a
  <2>2. \A k \in T : k \in 0 .. Len(n)
    BY <1>3
  <2>3. \A b \in Above(t, n) : b \in T
    BY DEF T
  <2>4. \A b \in Above(t, n) : b <= a
    BY <2>1, <2>2, <2>3
  <2>. QED  BY <2>1, <2>2, <2>4 DEF T
<1>6. Length(t, n) = Len(n) - a
  BY DEF Length, T, Above
<1> HIDE DEF a
<1>7. n /= Root => a /= Len(n)
  <2>1. n /= Root => Len(n) /= 0
    BY EmptySeq DEF Root
  <2>. QED  BY <1>2a, <1>5, <2>1
<1>. QED
  BY <1>1, <1>5, <1>6, <1>7

LEMMA LengthsAre ==
  ASSUME NEW S, NEW t, IsTree(t, S)
  PROVE  /\ Lengths(t) \in [Nodes(t) -> Int] /\ IsFiniteSet(Nodes(t))
         /\ \A n \in Nodes(t) : Lengths(t)[n] = Length(t, n) /\ Length(t, n) \in Nat
<1>1. \A n \in Nodes(t) : n \in Seq(S)
  BY TreeTexts
<1>2. \A n \in Nodes(t) : Length(t, n) \in Nat
  BY <1>1, LengthIs
<1>. QED
  BY <1>2 DEF Lengths, IsTree

(* The sum the code keeps is the sum of these. *)
LEMMA LengthTotal ==
  ASSUME NEW S, NEW t, IsTree(t, S), NEW P \in SUBSET Nodes(t)
  PROVE  TotalLength(t, P) = Total(Lengths(t), P)
<1> DEFINE f == Lengths(t)
           h == CHOOSE iter : iter = [s \in SUBSET P |->
                  IF s = {} THEN 0
                  ELSE Length(t, CHOOSE x \in s : TRUE) + iter[s \ {CHOOSE x \in s : TRUE}]]
<1>1. TotalLength(t, P) = h[P]
  BY DEF TotalLength, MapThenSumSet, MapThenFoldSet
<1>2. IsFiniteSet(Nodes(t)) /\ f \in [Nodes(t) -> Int]
  BY LengthsAre
<1>3. \E g : Unfolds(g, f, P)
  <2> HIDE DEF f
  <2>. QED  BY <1>2, TotalHas
<1>4. \A s \in SUBSET P : s /= {} => f[Pick(s)] = Length(t, Pick(s))
  BY PickIn DEF Lengths
<1>5. \E g : g = [s \in SUBSET P |-> IF s = {} THEN 0 ELSE Length(t, Pick(s)) + g[s \ {Pick(s)}]]
  <2>1. PICK k : Unfolds(k, f, P)
    BY <1>3
  <2> DEFINE with(v, s) == IF s = {} THEN 0 ELSE v + k[s \ {Pick(s)}]
  <2>2. \A s \in SUBSET P : with(f[Pick(s)], s) = with(Length(t, Pick(s)), s)
    BY <1>4
  <2>3. k = [s \in SUBSET P |-> with(f[Pick(s)], s)]
    BY <2>1 DEF Unfolds
  <2>4. k = [s \in SUBSET P |-> with(Length(t, Pick(s)), s)]
    <3> HIDE DEF with, f
    <3>. QED  BY <2>2, <2>3
  <2>. QED  BY <2>4
<1>6. h = [s \in SUBSET P |-> IF s = {} THEN 0 ELSE Length(t, Pick(s)) + h[s \ {Pick(s)}]]
  BY <1>5 DEF Pick
<1> HIDE DEF h
<1>7. Unfolds(h, f, P)
  <2> DEFINE with(v, s) == IF s = {} THEN 0 ELSE v + h[s \ {Pick(s)}]
  <2>1. \A s \in SUBSET P : with(f[Pick(s)], s) = with(Length(t, Pick(s)), s)
    BY <1>4
  <2>2. h = [s \in SUBSET P |-> with(Length(t, Pick(s)), s)]
    BY <1>6
  <2>3. h = [s \in SUBSET P |-> with(f[Pick(s)], s)]
    <3> HIDE DEF with, f
    <3>. QED  BY <2>1, <2>2
  <2>. QED  BY <2>3 DEF Unfolds
<1>8. Total(f, P) = h[P]
  <2> HIDE DEF f
  <2>. QED  BY <1>2, <1>7, TotalHas
<1>. QED
  BY <1>1, <1>8

(* A node with the same nodes above it has the same key. *)
LEMMA LengthSame ==
  ASSUME NEW t, NEW u, NEW n, Upward(t, n) \ {n} = Upward(u, n) \ {n}
  PROVE  Length(t, n) = Length(u, n)
BY DEF Length

(* The new node takes its key from the node it was cut from. *)
LEMMA SplitLengths ==
  ASSUME NEW S, NEW t, IsTree(t, S), NEW path \in DOMAIN t.page, path \notin Nodes(t),
         NEW u, u = Split(t, path), NEW n \in Nodes(t), IsPrefix(path, n),
         \A m \in Nodes(t) : IsPrefix(path, m) => IsPrefix(n, m)
  PROVE  /\ Length(u, path) + Length(u, n) = Length(t, n)
         /\ \A m \in Nodes(t) : m /= n => Length(u, m) = Length(t, m)
<1>0. path \in Seq(S) /\ path /= Root /\ \A m \in Nodes(t) : m \in Seq(S) /\ m /= Root
  BY TreeTexts
<1>1. Nodes(u) = Nodes(t) \union {path} /\ IsTree(u, S)
  BY <1>0, SplitIs, SplitTree
<1>o. \A a, b, c \in Seq(S) : /\ IsPrefix(a, a)
                              /\ IsPrefix(a, b) /\ IsPrefix(b, a) => a = b
                              /\ IsPrefix(a, b) /\ IsPrefix(b, c) => IsPrefix(a, c)
                              /\ IsPrefix(a, c) /\ IsPrefix(b, c) => IsPrefix(a, b) \/ IsPrefix(b, a)
  BY PrefixOrder
<1>2. ASSUME NEW m \in Nodes(t), m /= n PROVE Length(u, m) = Length(t, m)
  <2>1. CASE ~IsPrefix(path, m)
    <3>1. Upward(u, m) = Upward(t, m)
      BY <1>1, <2>1 DEF Upward
    <3>. QED  BY <3>1, LengthSame
  <2>2. CASE IsPrefix(path, m)
    <3>1. IsPrefix(n, m) /\ n \in Above(t, m) \union {n} /\ m \in Seq(S) /\ n \in Seq(S)
      BY <1>0, <2>2
    <3>2. Len(n) \in Above(t, m) /\ Len(path) \in Nat /\ Len(n) \in Nat /\ Len(path) <= Len(n)
      <4>1. n \in Upward(t, m) \ {m}
        BY <1>2, <3>1 DEF Upward
      <4>2. Len(path) <= Len(n)
        BY <1>0, <3>1, PrefixIs
      <4>. QED  BY <1>0, <3>1, <4>1, <4>2 DEF Above
    <3>3. PICK a \in 0 .. Len(m) : /\ Length(t, m) = Len(m) - a /\ (a = 0 \/ a \in Above(t, m))
                                   /\ \A b \in Above(t, m) : b <= a
      BY <3>1, LengthIs
    <3>4. Above(u, m) = Above(t, m) \union {Len(path)}
      <4>1. Upward(u, m) \ {m} = (Upward(t, m) \ {m}) \union {path}
        BY <1>1, <2>2 DEF Upward
      <4>. QED  BY <4>1 DEF Above
    <3>5. a \in Nat /\ (a = 0 \/ a \in Above(u, m)) /\ \A b \in Above(u, m) : b <= a
      <4>1. Len(n) <= a /\ a \in Nat
        BY <3>1, <3>2, <3>3
      <4>2. Len(path) <= a
        BY <3>2, <4>1
      <4>. QED  BY <3>3, <3>4, <4>1, <4>2
    <3>6. Length(u, m) = Len(m) - a
      BY <1>1, <3>1, <3>5, LengthAt
    <3>. QED  BY <3>3, <3>6
  <2>. QED  BY <2>1, <2>2
<1>3. n \in Seq(S) /\ Len(n) \in Nat /\ Len(path) \in Nat /\ n /= path
  BY <1>0
<1>4. Upward(t, n) \ {n} = Upward(u, path) \ {path}
  <2>1. ASSUME NEW m \in Nodes(t), IsPrefix(m, n), m /= n PROVE IsPrefix(m, path) /\ m /= path
    <3>1. m \in Seq(S) /\ m /= path
      BY <1>0
    <3>2. CASE IsPrefix(path, m)
      <4>1. IsPrefix(n, m)
        BY <3>2
      <4>. QED  BY <1>3, <1>o, <2>1, <3>1, <4>1
    <3>. QED  BY <1>0, <1>3, <1>o, <2>1, <3>1, <3>2
  <2>2. ASSUME NEW m \in Nodes(t), IsPrefix(m, path) PROVE IsPrefix(m, n) /\ m /= n
    <3>1. m \in Seq(S)
      BY <1>0
    <3>2. IsPrefix(m, n)
      BY <1>0, <1>3, <1>o, <2>2, <3>1
    <3>3. m /= n
      BY <1>0, <1>3, <1>o, <2>2
    <3>. QED  BY <3>2, <3>3
  <2>. QED  BY <1>1, <2>1, <2>2 DEF Upward
<1>5. Upward(u, n) \ {n} = (Upward(t, n) \ {n}) \union {path}
  BY <1>1, <1>3 DEF Upward
<1>6. Above(u, path) = Above(t, n) /\ Above(u, n) = Above(t, n) \union {Len(path)}
  BY <1>4, <1>5 DEF Above
<1>7. PICK a \in 0 .. Len(n) : /\ Length(t, n) = Len(n) - a /\ (a = 0 \/ a \in Above(t, n))
                               /\ \A b \in Above(t, n) : b <= a
  BY <1>3, LengthIs
<1>8. Length(u, path) = Len(path) - a
  BY <1>0, <1>1, <1>6, <1>7, LengthAt
<1>9. Length(u, n) = Len(n) - Len(path)
  <2>1. \A b \in Above(u, n) : b <= Len(path)
    <3>1. \A m \in Upward(u, path) \ {path} : Len(m) <= Len(path)
      <4> SUFFICES ASSUME NEW m \in Upward(u, path) \ {path} PROVE Len(m) <= Len(path)
        OBVIOUS
      <4>1. m \in Seq(S) /\ IsPrefix(m, path)
        BY <1>0, <1>1 DEF Upward
      <4>. QED  BY <1>0, <4>1, PrefixIs
    <3>. QED  BY <1>3, <1>6, <3>1 DEF Above
  <2>. QED  BY <1>1, <1>3, <1>6, <2>1, LengthAt
<1>. QED
  BY <1>2, <1>3, <1>7, <1>8, <1>9

LEMMA SplitTotal ==
  ASSUME NEW S, NEW t, IsTree(t, S), NEW path \in DOMAIN t.page, path \notin Nodes(t),
         NEW u, u = Split(t, path), NEW n \in Nodes(t), IsPrefix(path, n),
         \A m \in Nodes(t) : IsPrefix(path, m) => IsPrefix(n, m), NEW A \in SUBSET Nodes(t)
  PROVE  Total(Lengths(u), IF n \in A THEN A \union {path} ELSE A) = Total(Lengths(t), A)
<1> DEFINE e == Lengths(t)
           f == Lengths(u)
<1>0. path \in Seq(S) /\ path /= Root
  BY TreeTexts
<1>1. IsTree(u, S) /\ Nodes(u) = Nodes(t) \union {path}
  BY <1>0, SplitIs, SplitTree
<1>2. /\ e \in [Nodes(t) -> Int] /\ f \in [Nodes(u) -> Int]
      /\ IsFiniteSet(Nodes(t)) /\ IsFiniteSet(Nodes(u)) /\ IsFiniteSet(A)
  BY <1>1, LengthsAre, FS_Subset
<1>3. f[path] + f[n] = e[n] /\ \A m \in Nodes(t) : m /= n => f[m] = e[m]
  <2>1. /\ Length(u, path) + Length(u, n) = Length(t, n)
        /\ \A m \in Nodes(t) : m /= n => Length(u, m) = Length(t, m)
    BY SplitLengths
  <2>. QED  BY <1>1, <2>1 DEF Lengths
<1> HIDE DEF e, f
<1>4. CASE n \notin A
  <2>1. Total(f, A) = Total(e, A)
    BY <1>1, <1>2, <1>3, <1>4, TotalAgree
  <2>. QED  BY <1>4, <2>1 DEF e, f
<1>5. CASE n \in A
  <2> DEFINE c == [m \in A |-> e[m]]
             d == [m \in A |-> f[m]]
  <2>1. c \in [A -> Int] /\ d \in [A -> Int] /\ d[n] = c[n] + (-f[path]) /\ (\A m \in A : m /= n => d[m] = c[m])
        /\ f[path] \in Int /\ -f[path] \in Int /\ (\A m \in A : c[m] = e[m] /\ d[m] = f[m])
    BY <1>1, <1>2, <1>3, <1>5
  <2> HIDE DEF c, d
  <2>2. Total(d, A) = Total(c, A) + (-f[path])
    BY <1>2, <1>5, <2>1, TotalBump
  <2>3. Total(c, A) = Total(e, A) /\ Total(d, A) = Total(f, A)
    BY <1>1, <1>2, <2>1, TotalAgree
  <2>4. A \in SUBSET Nodes(u) /\ path \in Nodes(u) \ A
    BY <1>1
  <2>5. Total(f, A \union {path}) = Total(f, A) + f[path] /\ Total(e, A) \in Int /\ Total(f, A) \in Int
    BY <1>2, <2>4, TotalRules
  <2>6. Total(f, A \union {path}) = Total(e, A)
    BY <2>1, <2>2, <2>3, <2>5
  <2>. QED  BY <1>5, <2>6 DEF e, f
<1>. QED
  BY <1>4, <1>5

(* A split changes neither size. *)
LEMMA SplitSized ==
  ASSUME NEW S, NEW t, IsTree(t, S), NEW path, path = Root \/ path \in DOMAIN t.page, Sized(t)
  PROVE  Sized(Split(t, path))
<1> DEFINE u == Split(t, path)
<1>1. CASE path = Root \/ path \in Nodes(t)
  <2>1. u = t
    BY <1>1 DEF Split
  <2> HIDE DEF u
  <2>2. Sized(u)
    BY <2>1
  <2>. QED  BY <2>2 DEF u
<1>2. CASE path /= Root /\ path \notin Nodes(t)
  <2>0. path \in DOMAIN t.page
    BY <1>2
  <2>1. /\ IsTree(u, S) /\ Nodes(u) = Nodes(t) \union {path}
        /\ u.evictable = t.evictable /\ u.protected = t.protected
        /\ \A m \in Nodes(t) : u.ref[m] = t.ref[m]
    BY <1>2, SplitIs, SplitTree
  <2>2. PICK n \in Nodes(t) : /\ u.ref[path] = t.ref[n] /\ IsPrefix(path, n)
                              /\ \A m \in Nodes(t) : IsPrefix(path, m) => IsPrefix(n, m)
    BY <1>2, SplitIs
  <2>3. \A A \in SUBSET Nodes(t) :
          Total(Lengths(u), IF n \in A THEN A \union {path} ELSE A) = Total(Lengths(t), A)
    BY <1>2, <2>0, <2>2, SplitTotal
  <2> HIDE DEF u
  <2> DEFINE Z == {m \in Nodes(t) : t.ref[m] = 0}
             P == {m \in Nodes(t) : t.ref[m] > 0}
  <2>4. {m \in Nodes(u) : u.ref[m] = 0} = IF n \in Z THEN Z \union {path} ELSE Z
    BY <1>2, <2>1, <2>2
  <2>5. {m \in Nodes(u) : u.ref[m] > 0} = IF n \in P THEN P \union {path} ELSE P
    BY <1>2, <2>1, <2>2
  <2>6. Z \in SUBSET Nodes(t) /\ P \in SUBSET Nodes(t)
    OBVIOUS
  <2>7. t.evictable = TotalLength(t, Z) /\ t.protected = TotalLength(t, P)
    BY DEF Sized
  <2> DEFINE Zu == {m \in Nodes(u) : u.ref[m] = 0}
             Pu == {m \in Nodes(u) : u.ref[m] > 0}
  <2>8. Zu \in SUBSET Nodes(u) /\ Pu \in SUBSET Nodes(u)
    OBVIOUS
  <2> HIDE DEF Z, P
  <2>9. Total(Lengths(u), Zu) = Total(Lengths(t), Z) /\ Total(Lengths(u), Pu) = Total(Lengths(t), P)
    BY <2>3, <2>4, <2>5, <2>6
  <2> HIDE DEF Zu, Pu
  <2>10. /\ TotalLength(t, Z) = Total(Lengths(t), Z) /\ TotalLength(t, P) = Total(Lengths(t), P)
         /\ TotalLength(u, Zu) = Total(Lengths(u), Zu) /\ TotalLength(u, Pu) = Total(Lengths(u), Pu)
    BY <2>1, <2>6, <2>8, LengthTotal
  <2>11. u.evictable = TotalLength(u, Zu) /\ u.protected = TotalLength(u, Pu)
    BY <2>1, <2>7, <2>9, <2>10
  <2>12. Sized(u)
    BY <2>11 DEF Sized, Zu, Pu
  <2>. QED  BY <2>12 DEF u
<1>. QED
  BY <1>1, <1>2

(* Trees with the same nodes have the same keys. *)
LEMMA SameLengths ==
  ASSUME NEW t, NEW u, Nodes(u) = Nodes(t)
  PROVE  Lengths(u) = Lengths(t)
<1>1. \A n : Upward(u, n) = Upward(t, n)
  BY DEF Upward
<1>2. \A n : Length(u, n) = Length(t, n)
  BY <1>1 DEF Length
<1>3. Lengths(u) = Lengths(t)
  BY <1>2 DEF Lengths
<1>. QED
  BY <1>3

\* The nodes with no count, and those with one
Idles(t) == {n \in Nodes(t) : t.ref[n] = 0}
Helds(t) == {n \in Nodes(t) : t.ref[n] > 0}

(* Nodes that go from one kind to the other take their keys along. *)
LEMMA MovedSized ==
  ASSUME NEW S, NEW t, IsTree(t, S), NEW u, IsTree(u, S), Nodes(u) = Nodes(t),
         NEW M \in SUBSET Nodes(t), NEW d, d = TotalLength(t, M), Sized(t),
         \/ /\ M \subseteq Idles(t) /\ Idles(u) = Idles(t) \ M /\ Helds(u) = Helds(t) \union M
            /\ u.evictable = t.evictable - d /\ u.protected = t.protected + d
         \/ /\ M \subseteq Helds(t) /\ Idles(u) = Idles(t) \union M /\ Helds(u) = Helds(t) \ M
            /\ u.evictable = t.evictable + d /\ u.protected = t.protected - d
  PROVE  Sized(u)
<1> DEFINE f == Lengths(t)
           Z == Idles(t)
           P == Helds(t)
<1>1. f \in [Nodes(t) -> Int] /\ IsFiniteSet(Nodes(t)) /\ Z \in SUBSET Nodes(t) /\ P \in SUBSET Nodes(t)
  BY LengthsAre DEF Idles, Helds
<1>2. t.evictable = Total(f, Z) /\ t.protected = Total(f, P) /\ d = Total(f, M)
  BY <1>1, LengthTotal DEF Sized, Idles, Helds
<1>3. \A A \in SUBSET Nodes(t) : TotalLength(u, A) = Total(f, A)
  <2>1. Lengths(u) = f
    BY SameLengths
  <2>. QED  BY <2>1, LengthTotal
<1>4. Z \intersect P = {}
  BY DEF Idles, Helds
<1>5. Idles(u) \in SUBSET Nodes(t) /\ Helds(u) \in SUBSET Nodes(t)
  BY DEF Idles, Helds
<1>6. Sized(u) <=> u.evictable = Total(f, Idles(u)) /\ u.protected = Total(f, Helds(u))
  <2>1. Sized(u) <=> u.evictable = TotalLength(u, Idles(u)) /\ u.protected = TotalLength(u, Helds(u))
    BY DEF Sized, Idles, Helds
  <2>. QED  BY <1>3, <1>5, <2>1
<1> HIDE DEF f, Z, P
<1>7. \A A, B \in SUBSET Nodes(t) : A \intersect B = {} =>
        Total(f, A \union B) = Total(f, A) + Total(f, B) /\ Total(f, A) \in Int /\ Total(f, B) \in Int
  BY <1>1, TotalUnion
<1>8. CASE /\ M \subseteq Z /\ Idles(u) = Z \ M /\ Helds(u) = P \union M
           /\ u.evictable = t.evictable - d /\ u.protected = t.protected + d
  <2>1. (Z \ M) \union M = Z /\ (Z \ M) \intersect M = {} /\ P \intersect M = {} /\ Z \ M \in SUBSET Nodes(t)
    BY <1>1, <1>4, <1>8
  <2>2. Total(f, Z) = Total(f, Z \ M) + Total(f, M) /\ Total(f, Z \ M) \in Int /\ Total(f, M) \in Int
    BY <1>7, <2>1
  <2>3. Total(f, P \union M) = Total(f, P) + Total(f, M) /\ Total(f, P) \in Int
    BY <1>1, <1>7, <2>1
  <2>. QED  BY <1>2, <1>6, <1>8, <2>2, <2>3
<1>9. CASE /\ M \subseteq P /\ Idles(u) = Z \union M /\ Helds(u) = P \ M
           /\ u.evictable = t.evictable + d /\ u.protected = t.protected - d
  <2>1. (P \ M) \union M = P /\ (P \ M) \intersect M = {} /\ Z \intersect M = {} /\ P \ M \in SUBSET Nodes(t)
    BY <1>1, <1>4, <1>9
  <2>2. Total(f, P) = Total(f, P \ M) + Total(f, M) /\ Total(f, P \ M) \in Int /\ Total(f, M) \in Int
    BY <1>7, <2>1
  <2>3. Total(f, Z \union M) = Total(f, Z) + Total(f, M) /\ Total(f, Z) \in Int
    BY <1>1, <1>7, <2>1
  <2>. QED  BY <1>2, <1>6, <1>9, <2>2, <2>3
<1>. QED
  BY <1>8, <1>9 DEF Z, P

(* lock_handle and unlock_handle move the keys of what they lock first and
   unlock last. *)
LEMMA LockSizes ==
  ASSUME NEW S, NEW t, IsTree(t, S), NEW path
  PROVE  LET lock == TotalLength(t, {n \in Upward(t, path) : t.ref[n] = 0})
             unlock == TotalLength(t, {n \in Upward(t, path) : t.ref[n] = 1})
         IN  /\ Lock(t, path).evictable = t.evictable - lock
             /\ Lock(t, path).protected = t.protected + lock
             /\ Unlock(t, path).evictable = t.evictable + unlock
             /\ Unlock(t, path).protected = t.protected - unlock
<1>1. DOMAIN t = {"ref", "page", "evictable", "protected"}
  BY DEF IsTree
<1> DEFINE lock == TotalLength(t, {n \in Upward(t, path) : t.ref[n] = 0})
           unlock == TotalLength(t, {n \in Upward(t, path) : t.ref[n] = 1})
           u == Lock(t, path)
           v == Unlock(t, path)
           rl == [n \in Nodes(t) |-> IF n \in Upward(t, path) THEN t.ref[n] + 1 ELSE t.ref[n]]
           ru == [n \in Nodes(t) |-> IF n \in Upward(t, path) THEN t.ref[n] - 1 ELSE t.ref[n]]
<1>2. u = [t EXCEPT !.ref = rl, !.evictable = t.evictable - lock, !.protected = t.protected + lock]
  BY DEF Lock
<1>3. v = [t EXCEPT !.ref = ru, !.evictable = t.evictable + unlock, !.protected = t.protected - unlock]
  BY DEF Unlock
<1> HIDE DEF u, v, lock, unlock, rl, ru
<1>4. u.evictable = t.evictable - lock /\ u.protected = t.protected + lock
  BY <1>1, <1>2
<1>5. v.evictable = t.evictable + unlock /\ v.protected = t.protected - unlock
  BY <1>1, <1>3
<1>. QED
  BY <1>4, <1>5 DEF u, v, lock, unlock

LEMMA LockSized ==
  ASSUME NEW S, NEW t, IsTree(t, S), NEW path, Sized(t), IsTree(Lock(t, path), S)
  PROVE  Sized(Lock(t, path))
<1> DEFINE u == Lock(t, path)
           M == {n \in Upward(t, path) : t.ref[n] = 0}
           d == TotalLength(t, M)
<1>1. u.evictable = t.evictable - d /\ u.protected = t.protected + d
  BY LockSizes
<1>2. /\ Nodes(u) = Nodes(t)
      /\ \A n \in Nodes(t) : u.ref[n] = IF IsPrefix(n, path) THEN t.ref[n] + 1 ELSE t.ref[n]
  BY LockIs
<1>3. \A n \in Nodes(t) : t.ref[n] \in Nat
  BY DEF IsTree
<1>4. IsTree(u, S)
  OBVIOUS
<1> HIDE DEF u, d
<1>5. M \in SUBSET Nodes(t) /\ M \subseteq Idles(t)
  BY DEF Upward, Idles
<1>6. Idles(u) = Idles(t) \ M /\ Helds(u) = Helds(t) \union M
  BY <1>2, <1>3 DEF Idles, Helds, Upward
<1>7. d = TotalLength(t, M)
  BY DEF d
<1> HIDE DEF M
<1>8. Sized(u)
  BY <1>1, <1>2, <1>4, <1>5, <1>6, <1>7, MovedSized
<1>. QED
  BY <1>8 DEF u

LEMMA UnlockSized ==
  ASSUME NEW S, NEW t, IsTree(t, S), NEW path, Sized(t), IsTree(Unlock(t, path), S),
         \A n \in Nodes(t) : IsPrefix(n, path) => t.ref[n] > 0
  PROVE  Sized(Unlock(t, path))
<1> DEFINE u == Unlock(t, path)
           M == {n \in Upward(t, path) : t.ref[n] = 1}
           d == TotalLength(t, M)
<1>1. u.evictable = t.evictable + d /\ u.protected = t.protected - d
  BY LockSizes
<1>2. /\ Nodes(u) = Nodes(t)
      /\ \A n \in Nodes(t) : u.ref[n] = IF IsPrefix(n, path) THEN t.ref[n] - 1 ELSE t.ref[n]
  BY LockIs
<1>3. \A n \in Nodes(t) : t.ref[n] \in Nat
  BY DEF IsTree
<1>4. IsTree(u, S)
  OBVIOUS
<1> HIDE DEF u, d
<1>5. M \in SUBSET Nodes(t) /\ M \subseteq Helds(t)
  BY DEF Upward, Helds
<1>6. Idles(u) = Idles(t) \union M /\ Helds(u) = Helds(t) \ M
  BY <1>2, <1>3 DEF Idles, Helds, Upward
<1>7. d = TotalLength(t, M)
  BY DEF d
<1> HIDE DEF M
<1>8. Sized(u)
  BY <1>1, <1>2, <1>4, <1>5, <1>6, <1>7, MovedSized
<1>. QED
  BY <1>8 DEF u

(* A new leaf begins where the match ends: its key is what the cache counts
   for it. *)
LEMMA InsertedSized ==
  ASSUME PageSize \in Nat \ {0}, NEW S, NEW t, IsTree(t, S), NEW key \in Seq(S), Aligned(key),
         NEW pages, Matched(t, key) /= key, Sized(t)
  PROVE  Sized(Inserted(t, key, pages))
<1> DEFINE known == Matched(t, key)
           v == Split(t, known)
           u == Inserted(t, key, pages)
<1>1. /\ known \in Seq(S) /\ IsPrefix(known, key) /\ known /= key
      /\ known = Root \/ known \in DOMAIN t.page
      /\ \A p \in DOMAIN t.page : IsPrefix(p, key) => IsPrefix(p, known)
  BY MatchedIs
<1>2. /\ IsTree(v, S) /\ Sized(v) /\ v.page = t.page
      /\ v.evictable = t.evictable /\ v.protected = t.protected
      /\ Nodes(v) = Nodes(t) \union ({known} \ {Root})
  <2> HIDE DEF known
  <2>. QED  BY <1>1, SplitIs, SplitTree, SplitSized
<1>3. IsTree(u, S)
  BY InsertedTree
<1>4. /\ key \notin DOMAIN t.page /\ key /= Root
      /\ Nodes(u) = Nodes(v) \union {key} /\ (\A n \in Nodes(v) : u.ref[n] = v.ref[n]) /\ u.ref[key] = 0
      /\ u.evictable = t.evictable + Len(key) - Len(known) /\ u.protected = t.protected
  BY <1>1, InsertedIs
<1> HIDE DEF known, v, u
<1>5. /\ Len(key) \in Nat /\ Len(known) \in Nat
      /\ \A n \in Nodes(v) : n \in Seq(S) /\ n /= Root /\ n \in DOMAIN t.page /\ Len(n) \in Nat
  BY <1>1, <1>2, TreeTexts, LenProperties
<1>6. key \notin Nodes(v)
  BY <1>4, <1>5
<1>7. ASSUME NEW m \in Nodes(v) PROVE Length(u, m) = Length(v, m)
  <2>1. ~IsPrefix(key, m)
    BY <1>4, <1>5 DEF IsTree
  <2>2. Upward(u, m) = Upward(v, m)
    BY <1>4, <2>1 DEF Upward
  <2>. QED  BY <2>2, LengthSame
<1>8. Length(u, key) = Len(key) - Len(known)
  <2>1. \A b \in Above(u, key) : b <= Len(known)
    <3> SUFFICES ASSUME NEW m \in Upward(u, key) \ {key} PROVE Len(m) <= Len(known)
      BY DEF Above
    <3>1. m \in Nodes(v) /\ IsPrefix(m, key)
      BY <1>4 DEF Upward
    <3>2. IsPrefix(m, known) /\ m \in Seq(S)
      BY <1>1, <1>5, <3>1
    <3>. QED  BY <1>1, <3>2, PrefixIs
  <2>2. Len(known) = 0 \/ Len(known) \in Above(u, key)
    <3>1. CASE known = Root
      BY <3>1, EmptySeq DEF Root
    <3>2. CASE known /= Root
      <4>1. known \in Upward(u, key) \ {key}
        BY <1>1, <1>2, <1>4, <3>2 DEF Upward
      <4>. QED  BY <4>1 DEF Above
    <3>. QED  BY <3>1, <3>2
  <2>. QED  BY <1>3, <1>5, <2>1, <2>2, LengthAt
<1> DEFINE e == Lengths(v)
           f == Lengths(u)
           Z == Idles(v)
           P == Helds(v)
<1>9. /\ e \in [Nodes(v) -> Int] /\ IsFiniteSet(Nodes(v))
      /\ f \in [Nodes(u) -> Int] /\ IsFiniteSet(Nodes(u))
  BY <1>2, <1>3, LengthsAre
<1>10. f[key] = Len(key) - Len(known) /\ \A m \in Nodes(v) : e[m] = f[m]
  BY <1>4, <1>7, <1>8 DEF Lengths
<1>11. Z \in SUBSET Nodes(v) /\ P \in SUBSET Nodes(v)
  BY DEF Idles, Helds
<1>12. Idles(u) = Z \union {key} /\ Helds(u) = P
  BY <1>4, <1>6 DEF Idles, Helds
<1>13. v.evictable = Total(e, Z) /\ v.protected = Total(e, P)
  BY <1>2, <1>11, LengthTotal DEF Sized, Idles, Helds
<1>14. TotalLength(u, Idles(u)) = Total(f, Z \union {key}) /\ TotalLength(u, Helds(u)) = Total(f, P)
  <2>1. Idles(u) \in SUBSET Nodes(u) /\ Helds(u) \in SUBSET Nodes(u)
    BY DEF Idles, Helds
  <2>. QED  BY <1>3, <1>12, <2>1, LengthTotal
<1> HIDE DEF e, f, Z, P
<1>15. Z \in SUBSET Nodes(u) /\ P \in SUBSET Nodes(u) /\ key \in Nodes(u) \ Z
  BY <1>4, <1>6, <1>11
<1>16. Total(f, Z) = Total(e, Z) /\ Total(f, P) = Total(e, P)
  BY <1>9, <1>10, <1>11, <1>15, TotalAgree
<1>17. Total(f, Z \union {key}) = Total(f, Z) + f[key] /\ Total(f, Z) \in Int
  BY <1>9, <1>15, TotalRules
<1>18. u.evictable = TotalLength(u, Idles(u)) /\ u.protected = TotalLength(u, Helds(u))
  BY <1>2, <1>4, <1>5, <1>10, <1>13, <1>14, <1>16, <1>17
<1>19. Sized(u)
  BY <1>18 DEF Sized, Idles, Helds
<1>. QED
  BY <1>19 DEF u

(* Eviction takes off what it removes. *)
LEMMA WithoutSized ==
  ASSUME NEW S, NEW t, IsTree(t, S), NEW R \in SUBSET Unlocked(t),
         \A n \in R, m \in Nodes(t) : IsPrefix(n, m) => m \in R, Sized(t)
  PROVE  Sized(Without(t, R))
<1> DEFINE u == Without(t, R)
           e == Lengths(t)
           f == Lengths(u)
           Z == Idles(t)
           P == Helds(t)
<1>1. R \in SUBSET Nodes(t) /\ R \subseteq Z /\ R \intersect P = {} /\ Z \in SUBSET Nodes(t) /\ P \in SUBSET Nodes(t)
  BY DEF Unlocked, Idles, Helds
<1>2. /\ IsTree(u, S) /\ Nodes(u) = Nodes(t) \ R /\ \A n \in Nodes(t) \ R : u.ref[n] = t.ref[n]
      /\ u.evictable = t.evictable - TotalLength(t, R) /\ u.protected = t.protected
  BY <1>1, WithoutIs
<1> HIDE DEF u
<1>3. ASSUME NEW n \in Nodes(u) PROVE Length(u, n) = Length(t, n)
  <2>1. Upward(u, n) = Upward(t, n)
    BY <1>2 DEF Upward
  <2>. QED  BY <2>1, LengthSame
<1>4. /\ e \in [Nodes(t) -> Int] /\ IsFiniteSet(Nodes(t))
      /\ f \in [Nodes(u) -> Int] /\ IsFiniteSet(Nodes(u))
  BY <1>2, LengthsAre
<1>5. \A n \in Nodes(u) : e[n] = f[n]
  BY <1>2, <1>3 DEF Lengths
<1>6. Idles(u) = Z \ R /\ Helds(u) = P
  BY <1>1, <1>2 DEF Idles, Helds
<1>7. t.evictable = Total(e, Z) /\ t.protected = Total(e, P) /\ TotalLength(t, R) = Total(e, R)
  BY <1>1, LengthTotal DEF Sized, Idles, Helds
<1>8. TotalLength(u, Idles(u)) = Total(f, Z \ R) /\ TotalLength(u, Helds(u)) = Total(f, P)
  <2>1. Idles(u) \in SUBSET Nodes(u) /\ Helds(u) \in SUBSET Nodes(u)
    BY DEF Idles, Helds
  <2>. QED  BY <1>2, <1>6, <2>1, LengthTotal
<1> HIDE DEF e, f, Z, P
<1>9. Z \ R \in SUBSET Nodes(u) /\ P \in SUBSET Nodes(u) /\ Z \ R \in SUBSET Nodes(t)
  BY <1>1, <1>2
<1>10. Total(f, Z \ R) = Total(e, Z \ R) /\ Total(f, P) = Total(e, P)
  BY <1>1, <1>4, <1>5, <1>9, TotalAgree
<1>11. Total(e, Z) = Total(e, Z \ R) + Total(e, R) /\ Total(e, Z \ R) \in Int /\ Total(e, R) \in Int
  <2>1. (Z \ R) \union R = Z /\ (Z \ R) \intersect R = {}
    BY <1>1
  <2> DEFINE W == Z \ R
  <2>2. W \in SUBSET Nodes(t) /\ R \in SUBSET Nodes(t) /\ W \intersect R = {}
    BY <1>1, <1>9, <2>1
  <2> HIDE DEF W
  <2>a. IsFiniteSet(Nodes(t)) /\ e \in [Nodes(t) -> Int]
    BY <1>4
  <2>3. Total(e, W \union R) = Total(e, W) + Total(e, R) /\ Total(e, W) \in Int /\ Total(e, R) \in Int
    BY ONLY <2>a, <2>2, TotalUnion
  <2>. QED  BY <2>1, <2>3 DEF W
<1>12. u.evictable = TotalLength(u, Idles(u)) /\ u.protected = TotalLength(u, Helds(u))
  BY <1>2, <1>7, <1>8, <1>10, <1>11
<1>13. Sized(u)
  BY <1>12 DEF Sized, Idles, Helds
<1>. QED
  BY <1>13 DEF u

LEMMA InsertTree ==
  ASSUME PageSize \in Nat \ {0}, NEW S, NEW t, IsTree(t, S), NEW ids \in Seq(S), NEW pages
  PROVE  IsTree(InsertPrefix(t, ids, pages).tree, S)
<1> DEFINE key == SubSeq(ids, 1, AlignDown(Len(ids)))
           known == Matched(t, key)
<1>1. Len(ids) \in Nat
  BY LenProperties
<1>2. AlignDown(Len(ids)) \in 0 .. Len(ids) /\ AlignDown(Len(ids)) % PageSize = 0
  BY <1>1, AlignIs
<1>3. key \in Seq(S) /\ Aligned(key)
  BY <1>2, PrefixCut DEF Aligned
<1>4. InsertPrefix(t, ids, pages).tree = IF known = key THEN Split(t, known) ELSE Inserted(t, key, pages)
  BY DEF InsertPrefix
<1> HIDE DEF key
<1>5. known = Root \/ known \in DOMAIN t.page
  BY <1>3, MatchedIs
<1>6. known = key => IsTree(Split(t, known), S)
  <2> HIDE DEF known
  <2>. QED  BY <1>5, SplitTree
<1>7. known /= key => IsTree(Inserted(t, key, pages), S)
  BY <1>3, InsertedTree
<1> HIDE DEF known
<1>. QED
  BY <1>4, <1>6, <1>7

LEMMA InsertSized ==
  ASSUME PageSize \in Nat \ {0}, NEW S, NEW t, IsTree(t, S), NEW ids \in Seq(S), NEW pages, Sized(t)
  PROVE  Sized(InsertPrefix(t, ids, pages).tree)
<1> DEFINE key == SubSeq(ids, 1, AlignDown(Len(ids)))
           known == Matched(t, key)
<1>1. Len(ids) \in Nat
  BY LenProperties
<1>2. AlignDown(Len(ids)) \in 0 .. Len(ids) /\ AlignDown(Len(ids)) % PageSize = 0
  BY <1>1, AlignIs
<1>3. key \in Seq(S) /\ Aligned(key)
  BY <1>2, PrefixCut DEF Aligned
<1>4. InsertPrefix(t, ids, pages).tree = IF known = key THEN Split(t, known) ELSE Inserted(t, key, pages)
  BY DEF InsertPrefix
<1> HIDE DEF key
<1>5. known = Root \/ known \in DOMAIN t.page
  BY <1>3, MatchedIs
<1>6. known = key => Sized(Split(t, known))
  <2> HIDE DEF known
  <2>. QED  BY <1>5, SplitSized
<1>7. known /= key => Sized(Inserted(t, key, pages))
  BY <1>3, InsertedSized
<1> HIDE DEF known
<1>. QED
  BY <1>4, <1>6, <1>7

LEMMA EmptySized == ASSUME NEW S PROVE Sized(EmptyTree)
<1> DEFINE t == EmptyTree
<1>1. IsTree(t, S)
  BY EmptyTreeIs
<1>2. t.evictable = 0 /\ t.protected = 0 /\ Nodes(t) = {}
  BY DEF EmptyTree, Nodes
<1>3. Lengths(t) \in [Nodes(t) -> Int] /\ IsFiniteSet(Nodes(t))
  BY <1>1, LengthsAre
<1> HIDE DEF t
<1>4. Total(Lengths(t), {}) = 0
  BY <1>3, TotalRules
<1>5. TotalLength(t, {}) = 0
  BY <1>1, <1>4, LengthTotal
<1>6. {n \in Nodes(t) : t.ref[n] = 0} = {} /\ {n \in Nodes(t) : t.ref[n] > 0} = {}
  BY <1>2
<1>7. Sized(t)
  BY <1>2, <1>5, <1>6 DEF Sized
<1>. QED
  BY <1>7 DEF t

(* What a handle lies below has a count. *)
LEMMA CountedHeld ==
  ASSUME NEW t, NEW L, IsFiniteSet(L), NEW h, Counted(t, L, h), NEW r \in L,
         NEW n \in Nodes(t), IsPrefix(n, h[r])
  PROVE  t.ref[n] > 0
<1> DEFINE Q == {q \in L : IsPrefix(n, h[q])}
<1>1. t.ref[n] = Cardinality(Q) /\ r \in Q
  BY DEF Counted
<1>2. IsFiniteSet(Q) /\ Cardinality(Q) \in Nat /\ Q /= {}
  BY <1>1, FS_Subset, FS_CardinalityType
<1>3. Cardinality(Q) /= 0
  BY <1>2, FS_EmptySet
<1>. QED
  BY <1>1, <1>2, <1>3

-----------------------------------------------------------------------------
(* Pages: a tree has as many as its keys are long.                          *)

(* Whole pages, and the numbers of pages between two of them. *)
LEMMA WholePages ==
  ASSUME PageSize \in Nat \ {0}
  PROVE  /\ \A x \in Nat : x % PageSize = 0 => x = PageSize * (x \div PageSize) /\ x \div PageSize \in Nat
         /\ \A i \in Nat : /\ PageSize * i \in Nat /\ (PageSize * i) % PageSize = 0
                           /\ (PageSize * i) \div PageSize = i
         /\ \A i, j \in Nat : (i < j <=> PageSize * i < PageSize * j) /\ (i <= j <=> PageSize * i <= PageSize * j)
<1>1. \A x \in Nat : x % PageSize = 0 => x = PageSize * (x \div PageSize) /\ x \div PageSize \in Nat
  <2> TAKE x \in Nat
  <2>1. x \div PageSize \in Nat
    OBVIOUS
  <2>2. x % PageSize = 0 => x = PageSize * (x \div PageSize)
    BY AlignIs
  <2>. QED  BY <2>1, <2>2
<1>2. \A i \in Nat : /\ PageSize * i \in Nat /\ (PageSize * i) % PageSize = 0
                     /\ (PageSize * i) \div PageSize = i
  OBVIOUS
<1>3. \A i, j \in Nat : i < j => PageSize * i < PageSize * j
  OBVIOUS
<1>4. \A i, j \in Nat : (i < j <=> PageSize * i < PageSize * j) /\ (i <= j <=> PageSize * i <= PageSize * j)
  <2> TAKE i, j \in Nat
  <2>1. PageSize * i \in Nat /\ PageSize * j \in Nat
    OBVIOUS
  <2>2. i < j \/ i = j \/ j < i
    OBVIOUS
  <2>3. /\ i < j => PageSize * i < PageSize * j
        /\ i = j => PageSize * i = PageSize * j
        /\ j < i => PageSize * j < PageSize * i
    BY <1>3
  <2>. QED  BY <2>1, <2>2, <2>3
<1>. QED
  BY <1>1, <1>2, <1>4

(* The whole pages of a text beyond the first a *)
Cuts(n, a, S) == {p \in Seq(S) : Aligned(p) /\ IsPrefix(p, n) /\ a < Len(p)}

(* and those of the pages a + 1 to b *)
CutAt(n, a, b) == [i \in a + 1 .. b |-> SubSeq(n, 1, PageSize * i)]

LEMMA CutsAre ==
  ASSUME PageSize \in Nat \ {0}, NEW S, NEW n \in Seq(S), NEW a \in Nat, NEW b \in Nat,
         a <= b, Len(n) = PageSize * b
  PROVE  /\ CutAt(n, a, b) \in Bijection(a + 1 .. b, Cuts(n, PageSize * a, S))
         /\ IsFiniteSet(Cuts(n, PageSize * a, S)) /\ Cardinality(Cuts(n, PageSize * a, S)) \in Nat
         /\ a + Cardinality(Cuts(n, PageSize * a, S)) = b
<1> DEFINE I == a + 1 .. b
           f == CutAt(n, a, b)
           C == Cuts(n, PageSize * a, S)
<1>1. ASSUME NEW i \in I PROVE i \in Nat /\ PageSize * i \in 0 .. Len(n) /\ PageSize * a < PageSize * i
  <2>1. i \in Nat /\ i <= b /\ a < i
    OBVIOUS
  <2>. QED  BY <2>1, WholePages
<1>2. \A i \in I : f[i] \in C /\ Len(f[i]) = PageSize * i
  <2> TAKE i \in I
  <2> DEFINE k == PageSize * i
             p == SubSeq(n, 1, k)
  <2>1. k \in 0 .. Len(n) /\ PageSize * a < k /\ k % PageSize = 0
    BY <1>1, WholePages
  <2> HIDE DEF k
  <2>2. p \in Seq(S) /\ Len(p) = k /\ IsPrefix(p, n)
    BY <2>1, PrefixCut
  <2>3. f[i] = p
    BY DEF k, CutAt
  <2> HIDE DEF p, f
  <2>. QED  BY <2>1, <2>2, <2>3 DEF k, Cuts, Aligned
<1>3. \A p \in C : \E i \in I : f[i] = p
  <2> TAKE p \in C
  <2>1. p \in Seq(S) /\ Len(p) % PageSize = 0 /\ Len(p) \in Nat /\ IsPrefix(p, n) /\ PageSize * a < Len(p)
    BY LenProperties DEF Cuts, Aligned
  <2>2. Len(p) <= Len(n)
    BY <2>1, PrefixIs
  <2> DEFINE i == Len(p) \div PageSize
  <2>3. Len(p) = PageSize * i /\ i \in Nat
    BY <2>1, WholePages
  <2> HIDE DEF i
  <2>4. i <= b /\ a < i
    BY <2>1, <2>2, <2>3, WholePages
  <2>5. i \in I
    BY <2>3, <2>4
  <2>6. Len(n) \in Nat
    BY LenProperties
  <2>7. SubSeq(n, 1, Len(p)) = p
    BY <2>1, <2>2, <2>6, PrefixCut
  <2>. QED  BY <2>3, <2>5, <2>7 DEF CutAt
<1>4. f \in Bijection(I, C)
  <2>1. \A i, j \in I : f[i] = f[j] => i = j
    <3> TAKE i, j \in I
    <3>1. f[i] = f[j] => PageSize * i = PageSize * j
      BY <1>2
    <3>2. PageSize * i = PageSize * j => i = j
      BY <1>1, WholePages
    <3>. QED  BY <3>1, <3>2
  <2>2. f \in [I -> C]
    BY <1>2 DEF CutAt
  <2> HIDE DEF f, I, C
  <2>. QED  BY <1>3, <2>1, <2>2, Fun_IsBij
<1>5. IsFiniteSet(I) /\ Cardinality(I) = b - a
  <2> DEFINE c == a + 1
  <2>1. c \in Int /\ b \in Int /\ ~(c > b + 1)
    OBVIOUS
  <2> HIDE DEF c
  <2>2. IsFiniteSet(c .. b) /\ Cardinality(c .. b) = IF c > b THEN 0 ELSE b - c + 1
    BY <2>1, FS_Interval
  <2>. QED  BY <2>1, <2>2 DEF c
<1>6. IsFiniteSet(C) /\ Cardinality(C) = Cardinality(I)
  BY <1>4, <1>5, FS_Bijection DEF ExistsBijection
<1>. QED
  BY <1>2, <1>4, <1>5, <1>6

(* Some node has none below it. *)
LEMMA LeafExists ==
  ASSUME NEW S, NEW t, IsTree(t, S), Nodes(t) /= {}
  PROVE  \E n \in Nodes(t) : \A m \in Nodes(t) : IsPrefix(n, m) => m = n
<1> DEFINE Below(n) == {m \in Nodes(t) : IsPrefix(n, m)}
           T == {Cardinality(Below(n)) : n \in Nodes(t)}
<1>1. \A n \in Nodes(t) : IsFiniteSet(Below(n)) /\ Cardinality(Below(n)) \in Nat
  BY FS_Subset, FS_CardinalityType DEF IsTree
<1>2. T \in SUBSET Nat /\ T /= {}
  BY <1>1
<1>3. PICK c \in T : \A b \in T : ~(b < c)
  <2> HIDE DEF T
  <2>. QED  BY <1>2, LeastNat
<1>4. PICK n \in Nodes(t) : c = Cardinality(Below(n))
  BY <1>3
<1>5. ASSUME NEW m \in Nodes(t), IsPrefix(n, m) PROVE m = n
  <2>0. n \in Seq(S) /\ m \in Seq(S) /\ \A k \in Nodes(t) : k \in Seq(S)
    BY TreeTexts
  <2>1. Below(m) \in SUBSET Below(n)
    BY <1>5, <2>0, PrefixOrder
  <2>2. Cardinality(Below(m)) <= Cardinality(Below(n))
        /\ (Cardinality(Below(n)) = Cardinality(Below(m)) => Below(n) = Below(m))
    BY <1>1, <2>1, FS_Subset
  <2>3. ~(Cardinality(Below(m)) < Cardinality(Below(n)))
    BY <1>3, <1>4
  <2>4. Below(n) = Below(m)
    <3>1. Cardinality(Below(n)) \in Nat /\ Cardinality(Below(m)) \in Nat
      BY <1>1
    <3> DEFINE x == Cardinality(Below(n))
               y == Cardinality(Below(m))
    <3> HIDE DEF x, y
    <3>2. x = y
      BY <2>2, <2>3, <3>1 DEF x, y
    <3>. QED  BY <2>2, <3>2 DEF x, y
  <2>5. IsPrefix(n, n)
    BY <2>0, PrefixOrder
  <2>6. n \in Below(n)
    BY <2>5
  <2>7. IsPrefix(m, n)
    BY <2>4, <2>6
  <2>. QED  BY <1>5, <2>0, <2>7, PrefixOrder
<1>. QED
  BY <1>5

(* Taking off a leaf takes off the pages of its key. *)
LEMMA LeafCount ==
  ASSUME PageSize \in Nat \ {0}, NEW S, NEW t, IsTree(t, S), NEW n \in Nodes(t),
         \A m \in Nodes(t) : IsPrefix(n, m) => m = n
  PROVE  LET gone == DOMAIN t.page \ DOMAIN Without(t, {n}).page
         IN  IsFiniteSet(gone) /\ Cardinality(gone) \in Nat /\ PageSize * Cardinality(gone) = Length(t, n)
<1> DEFINE u == Without(t, {n})
           gone == DOMAIN t.page \ DOMAIN u.page
<1>0. n \in Seq(S) /\ n /= Root /\ Aligned(n) /\ Len(n) \in Nat /\ n \in DOMAIN t.page
      /\ \A m \in Nodes(t) : m \in Seq(S) /\ Aligned(m) /\ Len(m) \in Nat
  BY TreeTexts, LenProperties
<1>1. DOMAIN u.page = {p \in DOMAIN t.page : \E m \in Nodes(t) \ {n} : IsPrefix(p, m)}
  BY WithoutIs
<1> HIDE DEF u
<1>2. PICK a \in 0 .. Len(n) : /\ Length(t, n) = Len(n) - a /\ (a = 0 \/ a \in Above(t, n))
                               /\ \A b \in Above(t, n) : b <= a
  BY <1>0, LengthIs
<1>3. a % PageSize = 0 /\ Len(n) % PageSize = 0
  <2>1. a \in Above(t, n) => a % PageSize = 0
    BY <1>0 DEF Above, Upward, Aligned
  <2>. QED  BY <1>0, <1>2, <2>1 DEF Aligned
<1>4. \A p \in DOMAIN t.page : p \in Seq(S) /\ p /= Root /\ Aligned(p) /\ Len(p) \in Nat
  BY TreeTexts, LenProperties
<1>5. gone = {p \in DOMAIN t.page : IsPrefix(p, n) /\ a < Len(p)}
  <2>1. ASSUME NEW p \in DOMAIN t.page, IsPrefix(p, n), a < Len(p), NEW m \in Nodes(t) \ {n}, IsPrefix(p, m)
        PROVE  FALSE
    <3>1. PICK f \in Nodes(t) : IsPrefix(p, f) /\ IsPrefix(f, n) /\ IsPrefix(f, m)
      BY <2>1 DEF IsTree, Forks
    <3>2. f /= n
      BY <2>1, <3>1
    <3>3. Len(f) \in Above(t, n)
      BY <3>1, <3>2 DEF Above, Upward
    <3>4. Len(p) <= Len(f)
      BY <1>0, <1>4, <3>1, PrefixIs
    <3>. QED  BY <1>0, <1>2, <1>4, <2>1, <3>3, <3>4
  <2>2. ASSUME NEW p \in DOMAIN t.page, \A m \in Nodes(t) \ {n} : ~IsPrefix(p, m)
        PROVE  IsPrefix(p, n) /\ a < Len(p)
    <3>1. IsPrefix(p, n)
      BY <2>2 DEF IsTree
    <3>2. CASE a = 0
      <4>1. Len(p) /= 0
        BY <1>4, EmptySeq DEF Root
      <4>. QED  BY <1>4, <3>1, <3>2, <4>1
    <3>3. CASE a \in Above(t, n)
      <4>1. PICK m \in Nodes(t) \ {n} : IsPrefix(m, n) /\ a = Len(m)
        BY <3>3 DEF Above, Upward
      <4>2. IsPrefix(p, m) \/ IsPrefix(m, p)
        BY <1>0, <1>4, <3>1, <4>1, PrefixOrder
      <4>3. IsPrefix(m, p) /\ ~(Len(m) >= Len(p))
        BY <1>0, <1>4, <2>2, <4>1, <4>2, PrefixOrder
      <4>. QED  BY <1>0, <1>4, <3>1, <4>1, <4>3
    <3>. QED  BY <1>2, <3>2, <3>3
  <2>. QED  BY <1>1, <2>1, <2>2
<1> DEFINE A == a \div PageSize
           B == Len(n) \div PageSize
<1>6. A \in Nat /\ B \in Nat /\ a = PageSize * A /\ Len(n) = PageSize * B
  BY <1>0, <1>2, <1>3, WholePages
<1> HIDE DEF gone, A, B
<1>7. A <= B
  BY <1>2, <1>6, WholePages
<1>8. IsFiniteSet(gone) /\ Cardinality(gone) = B - A
  <2>1. gone = Cuts(n, PageSize * A, S)
    <3>1. \A p \in Cuts(n, PageSize * A, S) : p /= Root
      BY <1>2, <1>6, EmptySeq DEF Cuts, Root
    <3>2. \A p \in Cuts(n, PageSize * A, S) : p \in DOMAIN t.page
      BY <1>0, <3>1 DEF Cuts, IsTree
    <3>. QED  BY <1>4, <1>5, <1>6, <3>2 DEF Cuts
  <2>2. /\ IsFiniteSet(Cuts(n, PageSize * A, S)) /\ Cardinality(Cuts(n, PageSize * A, S)) \in Nat
        /\ A + Cardinality(Cuts(n, PageSize * A, S)) = B
    BY <1>0, <1>6, <1>7, CutsAre
  <2>. QED  BY <1>6, <2>1, <2>2
<1>9. B - A \in Nat /\ PageSize * (B - A) = Len(n) - a
  <2>1. PageSize * (B - A) = PageSize * B - PageSize * A
    BY <1>6
  <2>. QED  BY <1>6, <1>7, <2>1
<1>. QED
  BY <1>2, <1>8, <1>9 DEF gone, u

(* The pages of a tree, and those of the nodes evicted from it *)
LEMMA PagesAre ==
  ASSUME PageSize \in Nat \ {0}, NEW S, NEW t, IsTree(t, S)
  PROVE  /\ IsFiniteSet(DOMAIN t.page) /\ Cardinality(DOMAIN t.page) \in Nat
         /\ PageSize * Cardinality(DOMAIN t.page) = TotalLength(t, Nodes(t))
<1> DEFINE Right(u) == /\ IsFiniteSet(DOMAIN u.page) /\ Cardinality(DOMAIN u.page) \in Nat
                       /\ PageSize * Cardinality(DOMAIN u.page) = TotalLength(u, Nodes(u))
           N == {n \in Nat : \A u : IsTree(u, S) /\ Cardinality(Nodes(u)) = n => Right(u)}
<1>0. \A u : IsTree(u, S) => IsFiniteSet(Nodes(u)) /\ Cardinality(Nodes(u)) \in Nat
  BY FS_CardinalityType DEF IsTree
<1>1. 0 \in N
  <2> SUFFICES ASSUME NEW u, IsTree(u, S), Cardinality(Nodes(u)) = 0 PROVE Right(u)
    OBVIOUS
  <2>1. Nodes(u) = {}
    BY <1>0, FS_EmptySet
  <2>2. DOMAIN u.page = {}
    BY <2>1 DEF IsTree
  <2>3. Lengths(u) \in [Nodes(u) -> Int] /\ IsFiniteSet(Nodes(u))
    BY LengthsAre
  <2>4. Total(Lengths(u), {}) = 0
    BY <2>3, TotalRules
  <2>5. TotalLength(u, Nodes(u)) = 0
    BY <2>1, <2>4, LengthTotal
  <2>. QED  BY <2>2, <2>5, FS_EmptySet
<1>2. ASSUME NEW n \in N PROVE n + 1 \in N
  <2> SUFFICES ASSUME NEW u, IsTree(u, S), Cardinality(Nodes(u)) = n + 1 PROVE Right(u)
    OBVIOUS
  <2>1. Nodes(u) /= {}
    BY FS_EmptySet
  <2>2. PICK m \in Nodes(u) : \A k \in Nodes(u) : IsPrefix(m, k) => k = m
    BY <2>1, LeafExists
  <2> DEFINE v == Without(u, {m})
             gone == DOMAIN u.page \ DOMAIN v.page
  <2>3. /\ IsTree(v, S) /\ Nodes(v) = Nodes(u) \ {m}
        /\ DOMAIN v.page \subseteq DOMAIN u.page
    <3> DEFINE R == {m}
    <3>1. R \in SUBSET Nodes(u) /\ \A x \in R, k \in Nodes(u) : IsPrefix(x, k) => k \in R
      BY <2>2
    <3> HIDE DEF R
    <3>2. /\ IsTree(Without(u, R), S) /\ Nodes(Without(u, R)) = Nodes(u) \ R
          /\ DOMAIN Without(u, R).page \subseteq DOMAIN u.page
      BY <3>1, WithoutIs
    <3>. QED  BY <3>2 DEF R
  <2>4. IsFiniteSet(gone) /\ Cardinality(gone) \in Nat /\ PageSize * Cardinality(gone) = Length(u, m)
    BY <2>2, LeafCount
  <2> HIDE DEF v
  <2>5. Cardinality(Nodes(v)) = n
    <3>1. Cardinality(Nodes(u) \ {m}) = Cardinality(Nodes(u)) - 1 /\ n \in Nat
      BY <1>0, <2>2, FS_RemoveElement
    <3>. QED  BY <2>3, <3>1
  <2>6. Right(v)
    BY <2>3, <2>5
  <2>7. Cardinality(DOMAIN u.page) = Cardinality(DOMAIN v.page) + Cardinality(gone) /\ IsFiniteSet(DOMAIN u.page)
    <3> DEFINE D == DOMAIN v.page
    <3>1. DOMAIN u.page = D \union gone /\ D \intersect gone = {}
      BY <2>3
    <3>2. IsFiniteSet(D) /\ IsFiniteSet(gone)
      BY <2>4, <2>6
    <3> HIDE DEF D, gone
    <3>3. IsFiniteSet(D \union gone) /\ Cardinality(D \union gone) = Cardinality(D) + Cardinality(gone) - Cardinality(D \intersect gone)
      BY <3>2, FS_Union
    <3>4. Cardinality(D \intersect gone) = 0 /\ Cardinality(D) \in Nat /\ Cardinality(gone) \in Nat
      BY <3>1, <3>2, FS_EmptySet, FS_CardinalityType
    <3>. QED  BY <3>1, <3>3, <3>4 DEF D
  <2>8. \A k \in Nodes(v) : Length(u, k) = Length(v, k)
    <3>1. \A k \in Nodes(v) : Upward(u, k) = Upward(v, k)
      BY <2>2, <2>3 DEF Upward
    <3>. QED  BY <3>1, LengthSame
  <2> DEFINE e == Lengths(u)
             f == Lengths(v)
             V == Nodes(v)
             U == Nodes(u)
  <2>9. /\ e \in [U -> Int] /\ IsFiniteSet(U) /\ f \in [V -> Int] /\ IsFiniteSet(V)
        /\ \A k \in V : e[k] = f[k]
        /\ e[m] = Length(u, m) /\ V \in SUBSET U /\ V \in SUBSET V /\ m \in U \ V /\ U = V \union {m}
    <3>1. \A k \in V : e[k] = f[k]
      BY <2>3, <2>8 DEF Lengths
    <3>. QED  BY <2>2, <2>3, <3>1, LengthsAre
  <2>10. TotalLength(u, U) = Total(e, U) /\ TotalLength(v, V) = Total(f, V)
    BY <2>3, LengthTotal
  <2> HIDE DEF e, f, U, V
  <2>11. Total(e, V) = Total(f, V)
    BY <2>9, TotalAgree
  <2>12. Total(e, V \union {m}) = Total(e, V) + e[m]
    BY ONLY <2>9, TotalRules
  <2>13. TotalLength(u, U) = TotalLength(v, V) + Length(u, m)
    BY <2>9, <2>10, <2>11, <2>12
  <2> HIDE DEF gone
  <2>14. PageSize * (Cardinality(DOMAIN v.page) + Cardinality(gone)) = TotalLength(v, V) + Length(u, m)
    <3>1. \A i, j \in Nat : PageSize * (i + j) = PageSize * i + PageSize * j
      OBVIOUS
    <3>2. /\ Cardinality(DOMAIN v.page) \in Nat /\ Cardinality(gone) \in Nat
          /\ PageSize * Cardinality(DOMAIN v.page) = TotalLength(v, V)
          /\ PageSize * Cardinality(gone) = Length(u, m)
      BY <2>4, <2>6 DEF V
    <3>. QED  BY <3>1, <3>2
  <2>. QED  BY <2>4, <2>6, <2>7, <2>13, <2>14 DEF U
<1>3. N = Nat
  <2> HIDE DEF N
  <2>1. N \in SUBSET Nat
    BY DEF N
  <2>. QED  BY <1>1, <1>2, <2>1, NatInduct
<1>4. Right(t)
  <2> HIDE DEF Right
  <2>. QED  BY <1>0, <1>3
<1>. QED
  BY <1>4

LEMMA EvictedAre ==
  ASSUME PageSize \in Nat \ {0}, NEW S, NEW t, IsTree(t, S), NEW R \in SUBSET Nodes(t),
         \A n \in R, m \in Nodes(t) : IsPrefix(n, m) => m \in R,
         NEW gone, gone = DOMAIN t.page \ DOMAIN Without(t, R).page
  PROVE  /\ IsFiniteSet(gone) /\ Cardinality(gone) \in Nat /\ TotalLength(t, R) = PageSize * Cardinality(gone)
<1> DEFINE u == Without(t, R)
           e == Lengths(t)
           f == Lengths(u)
           V == Nodes(u)
           U == Nodes(t)
           D == DOMAIN u.page
<1>1. /\ IsTree(u, S) /\ V = U \ R
      /\ D \subseteq DOMAIN t.page
  BY WithoutIs
<1> HIDE DEF u
<1>2. ASSUME NEW n \in V PROVE Length(u, n) = Length(t, n)
  <2>1. Upward(u, n) = Upward(t, n)
    BY <1>1 DEF Upward
  <2>. QED  BY <2>1, LengthSame
<1>3. /\ e \in [U -> Int] /\ IsFiniteSet(U) /\ f \in [V -> Int] /\ IsFiniteSet(V)
      /\ \A n \in V : e[n] = f[n]
  <2>1. \A n \in V : e[n] = f[n]
    BY <1>1, <1>2 DEF Lengths
  <2>. QED  BY <1>1, <2>1, LengthsAre
<1>4. TotalLength(t, U) = Total(e, U) /\ TotalLength(t, R) = Total(e, R) /\ TotalLength(u, V) = Total(f, V)
  BY <1>1, LengthTotal
<1>5. /\ IsFiniteSet(DOMAIN t.page) /\ IsFiniteSet(D) /\ Cardinality(D) \in Nat
      /\ PageSize * Cardinality(DOMAIN t.page) = TotalLength(t, U) /\ PageSize * Cardinality(D) = TotalLength(u, V)
  BY <1>1, PagesAre
<1> HIDE DEF e, f, U, V
<1>6. V \in SUBSET U /\ V \in SUBSET V /\ R \in SUBSET U /\ V \intersect R = {} /\ V \union R = U
  BY <1>1 DEF U
<1>7. Total(e, V) = Total(f, V)
  BY <1>3, <1>6, TotalAgree
<1>8. Total(e, V \union R) = Total(e, V) + Total(e, R) /\ Total(e, V) \in Int /\ Total(e, R) \in Int
  BY ONLY <1>3, <1>6, TotalUnion
<1>9. IsFiniteSet(gone) /\ Cardinality(gone) \in Nat
      /\ Cardinality(DOMAIN t.page) = Cardinality(D) + Cardinality(gone)
  <2>1. DOMAIN t.page = D \union gone /\ D \intersect gone = {} /\ gone \in SUBSET DOMAIN t.page
    BY <1>1 DEF u
  <2> HIDE DEF D
  <2>2. IsFiniteSet(gone)
    BY <1>5, <2>1, FS_Subset
  <2>3. Cardinality(D \union gone) = Cardinality(D) + Cardinality(gone) - Cardinality(D \intersect gone)
    BY <1>5, <2>2, FS_Union
  <2>4. Cardinality(D \intersect gone) = 0 /\ Cardinality(gone) \in Nat
    BY <2>1, <2>2, FS_EmptySet, FS_CardinalityType
  <2>5. Cardinality(DOMAIN t.page) = Cardinality(D \union gone)
    BY <2>1
  <2>. QED  BY ONLY <1>5, <2>2, <2>3, <2>4, <2>5
<1> HIDE DEF D
<1>10. PageSize * (Cardinality(D) + Cardinality(gone)) = PageSize * Cardinality(D) + PageSize * Cardinality(gone)
       /\ PageSize * Cardinality(gone) \in Int
  <2>1. \A i, j \in Nat : PageSize * (i + j) = PageSize * i + PageSize * j /\ PageSize * j \in Int
    OBVIOUS
  <2>. QED  BY <1>5, <1>9, <2>1
<1>11. TotalLength(t, R) = PageSize * Cardinality(gone)
  <2>1. Total(e, U) = Total(e, V) + Total(e, R)
    BY <1>6, <1>8
  <2>2. PageSize * Cardinality(DOMAIN t.page) = PageSize * Cardinality(D) + PageSize * Cardinality(gone)
    BY <1>9, <1>10
  <2>3. Total(e, U) = PageSize * Cardinality(DOMAIN t.page) /\ Total(e, V) = PageSize * Cardinality(D)
    BY <1>4, <1>5, <1>7
  <2> DEFINE y == PageSize * Cardinality(gone)
             z == PageSize * Cardinality(D)
  <2>4. y \in Int /\ Total(e, U) = z + y /\ Total(e, V) = z
    BY <1>10, <2>2, <2>3
  <2> HIDE DEF y, z
  <2>5. Total(e, R) = y
    <3>1. \A i, j, k \in Int : i + j = i + k => j = k
      OBVIOUS
    <3>2. z \in Int /\ Total(e, R) \in Int /\ z + Total(e, R) = z + y
      BY <1>8, <2>1, <2>4
    <3>. QED  BY ONLY <2>4, <3>1, <3>2
  <2>. QED  BY <1>4, <2>5 DEF y
<1>. QED
  BY <1>9, <1>11

(* The texts that a page holds *)
Holders(t, x) == {p \in DOMAIN t.page : t.page[p] = x}

(* insert_prefix takes over the pages of the part that was not there, and no
   other. *)
LEMMA InsertHolders ==
  ASSUME PageSize \in Nat \ {0}, NEW S, NEW t, IsTree(t, S), NEW ids \in Seq(S),
         NEW P, NEW pages \in Seq(P), NEW done, done = InsertPrefix(t, ids, pages),
         AlignDown(Len(ids)) \div PageSize <= Len(pages), NEW x
  PROVE  LET a == done.cached \div PageSize
             b == AlignDown(Len(ids)) \div PageSize
         IN  /\ a \in Nat /\ b \in Nat /\ a <= b
             /\ Cardinality(Holders(done.tree, x)) = Cardinality(Holders(t, x)) + Count(x, SubSeq(pages, a + 1, b))
<1> DEFINE key == SubSeq(ids, 1, AlignDown(Len(ids)))
           known == Matched(t, key)
           a == Len(known) \div PageSize
           b == AlignDown(Len(ids)) \div PageSize
           L == SubSeq(pages, a + 1, b)
<1>1. Len(ids) \in Nat /\ AlignDown(Len(ids)) \in 0 .. Len(ids) /\ AlignDown(Len(ids)) % PageSize = 0
  BY LenProperties, AlignIs
<1>2. key \in Seq(S) /\ Len(key) = AlignDown(Len(ids)) /\ Aligned(key)
  BY <1>1, PrefixCut DEF Aligned
<1>3. /\ done.cached = Len(known)
      /\ done.tree = IF known = key THEN Split(t, known) ELSE Inserted(t, key, pages)
  BY DEF InsertPrefix
<1> HIDE DEF key
<1>4. /\ known \in Seq(S) /\ IsPrefix(known, key) /\ Aligned(known) /\ (known = Root \/ known \in DOMAIN t.page)
      /\ \A p \in DOMAIN t.page : IsPrefix(p, key) => IsPrefix(p, known)
  BY <1>2, MatchedIs
<1> HIDE DEF known
<1>5. Len(known) \in Nat /\ Len(key) \in Nat /\ Len(known) <= Len(key)
  BY <1>2, <1>4, LenProperties, PrefixIs
<1>6. a \in Nat /\ b \in Nat /\ Len(known) = PageSize * a /\ Len(key) = PageSize * b
  BY <1>1, <1>2, <1>4, <1>5, WholePages DEF Aligned
<1>7. b <= Len(pages)
  OBVIOUS
<1> HIDE DEF a, b
<1>8. a <= b
  BY <1>5, <1>6, WholePages
<1>9. /\ L \in Seq(P) /\ DOMAIN L = 1 .. b - a /\ \A i \in 1 .. b - a : L[i] = pages[a + i]
  <2>1. Len(pages) \in Nat /\ \A i \in a + 1 .. b : pages[i] \in P
    BY <1>6, <1>7
  <2> DEFINE c == a + 1
  <2>2. c \in Int /\ b \in Int /\ \A i \in c .. b : pages[i] \in P
    BY <1>6, <2>1
  <2> HIDE DEF c
  <2>3. /\ SubSeq(pages, c, b) \in Seq(P)
        /\ Len(SubSeq(pages, c, b)) = IF c <= b THEN b - c + 1 ELSE 0
        /\ \A i \in 1 .. b - c + 1 : SubSeq(pages, c, b)[i] = pages[c + i - 1]
    BY <2>2, SubSeqProperties, SMTT(30)
  <2>4. /\ L \in Seq(P) /\ Len(L) = b - a
        /\ \A i \in 1 .. b - a : L[i] = pages[(a + 1) + i - 1]
    <3>1. b - c + 1 = b - a /\ (c <= b <=> a < b)
      BY <1>6 DEF c
    <3>. QED  BY <1>6, <1>8, <2>3, <3>1 DEF c
  <2>5. \A i \in 1 .. b - a : (a + 1) + i - 1 = a + i
    BY <1>6
  <2>. QED  BY <2>4, <2>5
<1>10. IsFiniteSet(Holders(t, x)) /\ Cardinality(Holders(t, x)) \in Nat
  <2>1. IsFiniteSet(DOMAIN t.page) /\ Holders(t, x) \in SUBSET DOMAIN t.page
    BY PagesAre DEF Holders
  <2>. QED  BY <2>1, FS_Subset, FS_CardinalityType
<1>11. CASE known = key
  <2>1. done.tree.page = t.page
    <3>1. Split(t, known).page = t.page
      BY <1>4, SplitIs
    <3>. QED  BY <1>3, <1>11, <3>1
  <2>2. a = b
    BY <1>6, <1>11, WholePages
  <2>3. {i \in DOMAIN L : L[i] = x} = {}
    BY <1>6, <1>9, <2>2
  <2>4. Count(x, L) = 0
    BY <2>3, FS_EmptySet DEF Count
  <2>5. Holders(done.tree, x) = Holders(t, x)
    BY <2>1 DEF Holders
  <2>. QED  BY <1>3, <1>6, <1>8, <1>10, <2>4, <2>5 DEF a, b
<1>12. CASE known /= key
  <2> DEFINE u == Inserted(t, key, pages)
             new == {p \in Cuts(key, PageSize * a, S) : pages[Len(p) \div PageSize] = x}
             A == {i \in DOMAIN L : L[i] = x}
             f == [i \in A |-> CutAt(key, a, b)[a + i]]
  <2>1. /\ DOMAIN u.page = DOMAIN t.page \union {p \in Seq(S) \ {Root} : Aligned(p) /\ IsPrefix(p, key)}
        /\ \A p \in DOMAIN t.page : u.page[p] = t.page[p]
        /\ \A p \in Seq(S) \ {Root} : p \notin DOMAIN t.page /\ Aligned(p) /\ IsPrefix(p, key) =>
             u.page[p] = pages[Len(p) \div PageSize]
    BY <1>2, <1>12, InsertedIs DEF known
  <2>2. done.tree = u
    BY <1>3, <1>12
  <2> HIDE DEF u
  <2>3. \A p \in Seq(S) \ {Root} : Aligned(p) /\ IsPrefix(p, key) =>
          (p \in DOMAIN t.page <=> ~(PageSize * a < Len(p)))
    <3> SUFFICES ASSUME NEW p \in Seq(S) \ {Root}, Aligned(p), IsPrefix(p, key)
                 PROVE  p \in DOMAIN t.page <=> ~(Len(known) < Len(p))
      BY <1>6
    <3>0. Len(p) \in Nat
      BY LenProperties
    <3>1. ASSUME p \in DOMAIN t.page PROVE Len(p) <= Len(known)
      BY <1>4, <3>1, PrefixIs
    <3>2. ASSUME Len(p) <= Len(known) PROVE p \in DOMAIN t.page
      <4>1. IsPrefix(p, known)
        <5>1. IsPrefix(p, known) \/ IsPrefix(known, p)
          BY <1>2, <1>4, PrefixOrder
        <5>2. IsPrefix(known, p) => known = p
          BY <1>4, <1>5, <3>0, <3>2, PrefixOrder
        <5>. QED  BY <5>1, <5>2, PrefixOrder
      <4>2. known /= Root
        BY <4>1, PrefixOrder
      <4>. QED  BY <1>4, <4>1, <4>2 DEF IsTree
    <3>. QED  BY <1>5, <3>0, <3>1, <3>2
  <2>4. Root \notin Cuts(key, PageSize * a, S)
    BY <1>5, <1>6, EmptySeq DEF Cuts, Root
  <2>5. Holders(u, x) = Holders(t, x) \union new /\ Holders(t, x) \intersect new = {}
    <3>1. \A p \in Cuts(key, PageSize * a, S) :
            p \in DOMAIN u.page /\ p \notin DOMAIN t.page /\ u.page[p] = pages[Len(p) \div PageSize]
      BY <2>1, <2>3, <2>4 DEF Cuts
    <3>2. \A p \in DOMAIN u.page : p \in DOMAIN t.page \/ p \in Cuts(key, PageSize * a, S)
      BY <2>1, <2>3 DEF Cuts
    <3>. QED  BY <2>1, <3>1, <3>2 DEF Holders
  <2>6. /\ CutAt(key, a, b) \in Bijection(a + 1 .. b, Cuts(key, PageSize * a, S))
        /\ \A i \in a + 1 .. b : Len(CutAt(key, a, b)[i]) = PageSize * i
    <3>1. key \in Seq(S) /\ PageSize \in Nat \ {0}
      BY <1>2
    <3>2. CutAt(key, a, b) \in Bijection(a + 1 .. b, Cuts(key, PageSize * a, S))
      BY ONLY <1>6, <1>8, <3>1, CutsAre
    <3>3. ASSUME NEW i \in a + 1 .. b PROVE Len(CutAt(key, a, b)[i]) = PageSize * i
      <4> DEFINE k == PageSize * i
      <4>1. i \in Nat /\ i <= b
        BY <1>6
      <4>2. k \in 0 .. Len(key)
        BY <1>6, <4>1, WholePages
      <4>3. CutAt(key, a, b)[i] = SubSeq(key, 1, k)
        BY DEF CutAt
      <4> HIDE DEF k
      <4>4. Len(SubSeq(key, 1, k)) = k
        BY <3>1, <4>2, PrefixCut
      <4>. QED  BY <4>3, <4>4 DEF k
    <3>. QED  BY <3>2, <3>3
  <2> DEFINE g == CutAt(key, a, b)
  <2> HIDE DEF g
  <2>7. /\ \A i \in a + 1 .. b : g[i] \in Cuts(key, PageSize * a, S) /\ Len(g[i]) = PageSize * i
        /\ \A i, j \in a + 1 .. b : g[i] = g[j] => i = j
        /\ \A p \in Cuts(key, PageSize * a, S) : \E i \in a + 1 .. b : g[i] = p
    BY <2>6 DEF g, Bijection, Injection, IsInjective, Surjection
  <2>8. \A i \in 1 .. b - a : a + i \in a + 1 .. b
    BY <1>6
  <2>9. \A i \in 1 .. b - a : L[i] = pages[Len(g[a + i]) \div PageSize]
    <3> TAKE i \in 1 .. b - a
    <3>1. a + i \in Nat /\ Len(g[a + i]) = PageSize * (a + i)
      BY <1>6, <2>7, <2>8
    <3>2. Len(g[a + i]) \div PageSize = a + i
      BY <3>1, WholePages
    <3>. QED  BY <1>9, <3>2
  <2>10. f \in Bijection(A, new)
    <3>0. A = {i \in 1 .. b - a : L[i] = x}
      BY <1>9
    <3>1. \A i \in A : i \in 1 .. b - a /\ f[i] = g[a + i]
      BY <3>0 DEF g
    <3>2. \A i \in A : f[i] \in new
      BY <2>7, <2>8, <2>9, <3>0, <3>1
    <3>3. \A i, j \in A : f[i] = f[j] => i = j
      <4> TAKE i, j \in A
      <4>0. i \in 1 .. b - a /\ j \in 1 .. b - a
        BY <3>1
      <4> DEFINE k == a + i
                 l == a + j
      <4>1. k \in a + 1 .. b /\ l \in a + 1 .. b /\ f[i] = g[k] /\ f[j] = g[l]
        BY <2>8, <3>1, <4>0
      <4>2. k = l => i = j
        BY ONLY <1>6, <4>0
      <4> HIDE DEF k, l, f
      <4>. QED  BY <2>7, <4>1, <4>2
    <3>4. \A p \in new : \E i \in A : f[i] = p
      <4> TAKE p \in new
      <4>1. PICK k \in a + 1 .. b : g[k] = p
        BY <2>7
      <4>2. k - a \in 1 .. b - a /\ a + (k - a) = k
        BY <1>6
      <4>3. L[k - a] = x
        BY <2>9, <4>1, <4>2
      <4>. QED  BY <3>0, <3>1, <4>1, <4>2, <4>3
    <3>5. f \in [A -> new]
      BY <3>2
    <3> HIDE DEF f, A, new
    <3>. QED  BY <3>3, <3>4, <3>5, Fun_IsBij
  <2>11. IsFiniteSet(A) /\ Cardinality(A) = Count(x, L) /\ Count(x, L) \in Nat
    BY <1>9, CountIs DEF Count
  <2> HIDE DEF A, new, f
  <2>12. IsFiniteSet(new) /\ Cardinality(new) = Count(x, L)
    BY <2>10, <2>11, FS_Bijection DEF ExistsBijection
  <2>13. Cardinality(Holders(t, x) \union new) = Cardinality(Holders(t, x)) + Count(x, L)
    <3>1. Cardinality(Holders(t, x) \union new) =
            Cardinality(Holders(t, x)) + Cardinality(new) - Cardinality(Holders(t, x) \intersect new)
      BY <1>10, <2>12, FS_Union
    <3>2. Cardinality(Holders(t, x) \intersect new) = 0
      BY <2>5, FS_EmptySet
    <3>. QED  BY <1>10, <2>11, <2>12, <3>1, <3>2
  <2>. QED  BY <1>3, <1>6, <1>8, <2>2, <2>5, <2>13 DEF a, b
<1>. QED
  BY <1>11, <1>12

(* What may be evicted: nodes with all those below them, of a tree whose pages
   are in P and in one place each *)
Evictable(t, R, P) ==
  /\ R \in SUBSET Nodes(t) /\ \A n \in R, m \in Nodes(t) : IsPrefix(n, m) => m \in R
  /\ \A p, q \in DOMAIN t.page : t.page[p] = t.page[q] => p = q
  /\ \A p \in DOMAIN t.page : t.page[p] \in P

(* evict returns the pages of the texts it removes, each once. *)
LEMMA EvictHolders ==
  ASSUME PageSize \in Nat \ {0}, NEW S, NEW t, IsTree(t, S), NEW R, NEW P, Evictable(t, R, P),
         NEW list, list = SetToSeq(PagesOf(t, R)), NEW x
  PROVE  /\ list \in Seq(P) /\ TotalLength(t, R) = PageSize * Len(list)
         /\ Cardinality(Holders(Without(t, R), x)) + Count(x, list) = Cardinality(Holders(t, x))
<1> SUFFICES ASSUME R \in SUBSET Nodes(t), \A n \in R, m \in Nodes(t) : IsPrefix(n, m) => m \in R,
                    \A p, q \in DOMAIN t.page : t.page[p] = t.page[q] => p = q,
                    \A p \in DOMAIN t.page : t.page[p] \in P
             PROVE  /\ list \in Seq(P) /\ TotalLength(t, R) = PageSize * Len(list)
                    /\ Cardinality(Holders(Without(t, R), x)) + Count(x, list) = Cardinality(Holders(t, x))
  BY DEF Evictable
<1> DEFINE u == Without(t, R)
           gone == DOMAIN t.page \ DOMAIN u.page
           out == PagesOf(t, R)
           f == [p \in gone |-> t.page[p]]
<1>1. /\ DOMAIN u.page \subseteq DOMAIN t.page /\ \A p \in DOMAIN u.page : u.page[p] = t.page[p]
  BY WithoutIs
<1>2. IsFiniteSet(gone) /\ Cardinality(gone) \in Nat /\ TotalLength(t, R) = PageSize * Cardinality(gone)
  BY EvictedAre
<1>3. out = {t.page[p] : p \in gone}
  BY DEF PagesOf
<1> HIDE DEF u, out
<1>4. f \in Bijection(gone, out)
  <2>1. f \in [gone -> out] /\ \A q \in out : \E p \in gone : f[p] = q
    BY <1>3
  <2>2. \A p, q \in gone : f[p] = f[q] => p = q
    OBVIOUS
  <2> HIDE DEF f, gone
  <2>. QED  BY <2>1, <2>2, Fun_IsBij
<1>5. IsFiniteSet(out) /\ Cardinality(out) = Cardinality(gone)
  <2> HIDE DEF f, gone
  <2>. QED  BY <1>2, <1>4, FS_Bijection DEF ExistsBijection
<1>6. list \in Seq(out) /\ Len(list) = Cardinality(out) /\ IsInjective(list) /\ Range(list) = out
  BY <1>5, ListOnce DEF out
<1>7. list \in Seq(P)
  <2>1. \A q \in out : q \in P
    BY <1>3
  <2>2. \A i \in 1 .. Len(list) : list[i] \in P
    BY <1>6, <2>1
  <2>3. Len(list) \in Nat /\ list = [i \in 1 .. Len(list) |-> list[i]]
    BY <1>6
  <2>. QED  BY <2>2, <2>3
<1>8. Count(x, list) = IF x \in out THEN 1 ELSE 0
  BY <1>6, CountOnce
<1>9. Cardinality(Holders(u, x)) + Count(x, list) = Cardinality(Holders(t, x))
  <2>1. IsFiniteSet(Holders(t, x)) /\ Cardinality(Holders(t, x)) \in Nat
    <3>1. IsFiniteSet(DOMAIN t.page) /\ Holders(t, x) \in SUBSET DOMAIN t.page
      BY PagesAre DEF Holders
    <3>. QED  BY <3>1, FS_Subset, FS_CardinalityType
  <2>2. CASE x \in out
    <3>1. PICK p \in gone : t.page[p] = x
      BY <1>3, <2>2
    <3>2. Holders(t, x) = {p} /\ Holders(u, x) = {}
      BY <1>1, <3>1 DEF Holders
    <3>3. Cardinality(Holders(t, x)) = 1 /\ Cardinality(Holders(u, x)) = 0 /\ Count(x, list) = 1
      BY <1>8, <2>2, <3>2, FS_Singleton, FS_EmptySet
    <3>. QED  BY <3>3
  <2>3. CASE x \notin out
    <3>1. Holders(u, x) = Holders(t, x)
      BY <1>1, <1>3, <2>3 DEF Holders
    <3>. QED  BY <1>8, <2>1, <2>3, <3>1
  <2>. QED  BY <2>2, <2>3
<1>. QED
  BY <1>2, <1>5, <1>6, <1>7, <1>9 DEF u

-----------------------------------------------------------------------------
(* Every operation of the radix cache keeps a radix tree with true sizes one:
   the match that splits a node, lock_handle, lock_handle(unlock=True) of a
   path that is locked, insert_prefix, and evict whatever it picks. *)
THEOREM TreeKept ==
  ASSUME PageSize \in Nat \ {0}, NEW S, NEW t, IsTree(t, S), Sized(t)
  PROVE  /\ \A path \in DOMAIN t.page \union {Root} : IsTree(Split(t, path), S) /\ Sized(Split(t, path))
         /\ \A path : IsTree(Lock(t, path), S) /\ Sized(Lock(t, path))
         /\ \A path : (\A n \in Upward(t, path) : t.ref[n] > 0) =>
              IsTree(Unlock(t, path), S) /\ Sized(Unlock(t, path))
         /\ \A ids \in Seq(S) : \A pages :
              LET u == InsertPrefix(t, ids, pages).tree IN IsTree(u, S) /\ Sized(u)
         /\ \A size : \A R \in Removals(t, size) : IsTree(Without(t, R), S) /\ Sized(Without(t, R))
<1>1. \A n \in Nodes(t) : t.ref[n] \in Nat
  BY DEF IsTree
<1>2. \A path \in DOMAIN t.page \union {Root} : IsTree(Split(t, path), S) /\ Sized(Split(t, path))
  BY SplitTree, SplitSized
<1>3. ASSUME NEW path PROVE IsTree(Lock(t, path), S) /\ Sized(Lock(t, path))
  <2> DEFINE u == Lock(t, path)
  <2>1. /\ DOMAIN u = DOMAIN t /\ u.page = t.page /\ Nodes(u) = Nodes(t)
        /\ \A n \in Nodes(t) : u.ref[n] = IF IsPrefix(n, path) THEN t.ref[n] + 1 ELSE t.ref[n]
    BY LockIs
  <2> HIDE DEF u
  <2>2. DOMAIN u.page = DOMAIN t.page /\ \A n \in Nodes(t) : u.ref[n] \in Nat
    BY <1>1, <2>1
  <2>3. IsTree(u, S)
    BY <2>1, <2>2, SameTree
  <2>. QED  BY <2>3, LockSized DEF u
<1>4. ASSUME NEW path, \A n \in Upward(t, path) : t.ref[n] > 0
      PROVE  IsTree(Unlock(t, path), S) /\ Sized(Unlock(t, path))
  <2> DEFINE u == Unlock(t, path)
  <2>1. /\ DOMAIN u = DOMAIN t /\ u.page = t.page /\ Nodes(u) = Nodes(t)
        /\ \A n \in Nodes(t) : u.ref[n] = IF IsPrefix(n, path) THEN t.ref[n] - 1 ELSE t.ref[n]
    BY LockIs
  <2> HIDE DEF u
  <2>2. \A n \in Nodes(t) : IsPrefix(n, path) => t.ref[n] > 0
    BY <1>4 DEF Upward
  <2>3. DOMAIN u.page = DOMAIN t.page /\ \A n \in Nodes(t) : u.ref[n] \in Nat
    BY <1>1, <2>1, <2>2
  <2>4. IsTree(u, S)
    BY <2>1, <2>3, SameTree
  <2>. QED  BY <2>2, <2>4, UnlockSized DEF u
<1>5. ASSUME NEW ids \in Seq(S), NEW pages
      PROVE  IsTree(InsertPrefix(t, ids, pages).tree, S) /\ Sized(InsertPrefix(t, ids, pages).tree)
  BY InsertTree, InsertSized
<1>6. ASSUME NEW size, NEW R \in Removals(t, size) PROVE IsTree(Without(t, R), S) /\ Sized(Without(t, R))
  <2>1. /\ R \in SUBSET Unlocked(t) /\ R \in SUBSET Nodes(t)
        /\ \A n \in R, m \in Nodes(t) : IsPrefix(n, m) => m \in R
    BY DEF Removals, Unlocked
  <2>. QED  BY <2>1, WithoutIs, WithoutSized
<1>. QED
  BY <1>2, <1>3, <1>4, <1>5, <1>6

(* The keys on the way to a node add up to its path. *)
LEMMA ChainLength ==
  ASSUME NEW S, NEW t, IsTree(t, S)
  PROVE  \A n \in Nodes(t) \union {Root} : TotalLength(t, Upward(t, n)) = Len(n)
<1>0. /\ \A n \in Nodes(t) : n \in Seq(S) /\ n /= Root
      /\ Root \in Seq(S) /\ Lengths(t) \in [Nodes(t) -> Int] /\ IsFiniteSet(Nodes(t))
      /\ \A n \in Nodes(t) : Lengths(t)[n] = Length(t, n)
      /\ \A n : Upward(t, n) \in SUBSET Nodes(t)
  BY TreeTexts, LengthsAre DEF Upward
<1> DEFINE f == Lengths(t)
           up(n) == Upward(t, n)
           Bad == {n \in Nodes(t) : Total(f, up(n)) /= Len(n)}
<1>1. Total(f, {}) = 0 /\ \A T \in SUBSET Nodes(t) : \A x \in Nodes(t) \ T : Total(f, T \union {x}) = Total(f, T) + f[x]
  <2> HIDE DEF f
  <2>. QED  BY <1>0, TotalRules DEF f
<1>2. up(Root) = {} /\ Len(Root) = 0
  BY <1>0, PrefixOrder, EmptySeq DEF Upward, Root
<1>3. Bad = {}
  <2> SUFFICES ASSUME Bad /= {} PROVE FALSE
    OBVIOUS
  <2> DEFINE Ls == {Len(n) : n \in Bad}
  <2>0. \A n \in Nodes(t) : Len(n) \in Nat
    BY <1>0, LenProperties
  <2>1. Ls \in SUBSET Nat /\ Ls /= {}
    <3> HIDE DEF up, f
    <3>. QED  BY <2>0
  <2>2. PICK k \in Ls : \A m \in Ls : ~(m < k)
    <3> HIDE DEF Ls
    <3>. QED  BY <2>1, LeastNat
  <2>3. PICK n \in Bad : Len(n) = k
    BY <2>2
  <2>4. n \in Nodes(t) /\ n \in Seq(S) /\ Len(n) \in Nat /\ Total(f, up(n)) /= Len(n)
    BY <1>0, <2>3, LenProperties
  <2>5. \A m \in Nodes(t) : Len(m) < Len(n) => Total(f, up(m)) = Len(m)
    BY <2>2, <2>3
  <2>6. PICK a \in 0 .. Len(n) : /\ Length(t, n) = Len(n) - a /\ (a = 0 \/ a \in Above(t, n))
                                 /\ \A b \in Above(t, n) : b <= a
    BY <2>4, LengthIs
  <2>7. IsPrefix(n, n) /\ n \in up(n)
    BY <2>4, PrefixOrder DEF Upward
  <2>8. ASSUME NEW m \in up(n) \ {n}
        PROVE  m \in Nodes(t) /\ m \in Seq(S) /\ IsPrefix(m, n) /\ Len(m) \in Nat /\ Len(m) < Len(n) /\ Len(m) \in Above(t, n) /\ Len(m) > 0
    <3>1. m \in Nodes(t) /\ m \in Seq(S) /\ IsPrefix(m, n) /\ m /= n /\ Len(m) \in Nat
      BY <1>0, LenProperties DEF Upward
    <3>2. Len(m) <= Len(n) /\ Len(m) /= Len(n)
      BY <2>4, <3>1, PrefixIs, PrefixOrder
    <3>3. Len(m) /= 0
      BY <1>0, <3>1, EmptySeq DEF Root
    <3>. QED  BY <2>4, <3>1, <3>2, <3>3 DEF Above
  <2>9. f[n] = Len(n) - a
    BY <1>0, <2>4, <2>6
  <2>10. CASE up(n) \ {n} = {}
    <3>1. a = 0
      BY <2>6, <2>10 DEF Above
    <3>2. up(n) = {} \union {n}
      BY <2>7, <2>10
    <3>3. Total(f, {} \union {n}) = Total(f, {}) + f[n]
      <4> HIDE DEF f
      <4>. QED  BY <1>1, <2>4
    <3> HIDE DEF f, up
    <3>. QED  BY <1>1, <2>4, <2>9, <3>1, <3>2, <3>3
  <2>11. CASE up(n) \ {n} /= {}
    <3>1. PICK j \in up(n) \ {n} : TRUE
      BY <2>11
    <3>2. a /= 0
      BY <2>6, <2>8, <3>1
    <3>3. PICK m \in up(n) \ {n} : Len(m) = a
      BY <2>6, <3>2 DEF Above
    <3>4. m \in Nodes(t) /\ m \in Seq(S) /\ IsPrefix(m, n) /\ Total(f, up(m)) = a
      BY <2>5, <2>8, <3>3
    <3>5. up(n) = up(m) \union {n}
      <4>1. ASSUME NEW q \in up(n), q /= n PROVE q \in up(m)
        <5>1. q \in Nodes(t) /\ q \in Seq(S) /\ IsPrefix(q, n) /\ Len(q) \in Nat /\ Len(q) <= a
          BY <2>6, <2>8, <4>1
        <5>2. IsPrefix(q, m) \/ IsPrefix(m, q)
          BY <2>4, <3>4, <5>1, PrefixOrder
        <5>3. IsPrefix(m, q) => m = q
          BY <3>3, <3>4, <5>1, PrefixOrder
        <5>. QED  BY <3>4, <5>1, <5>2, <5>3 DEF Upward
      <4>2. ASSUME NEW q \in up(m) PROVE q \in up(n)
        <5>1. q \in Nodes(t) /\ q \in Seq(S) /\ IsPrefix(q, m)
          BY <1>0 DEF Upward
        <5>2. IsPrefix(q, n)
          BY <2>4, <3>4, <5>1, PrefixOrder
        <5>. QED  BY <5>1, <5>2 DEF Upward
      <4>. QED  BY <2>7, <4>1, <4>2
    <3>6. n \notin up(m)
      <4>1. ~IsPrefix(n, m)
        BY <2>4, <3>3, <3>4, PrefixOrder
      <4>. QED  BY <4>1 DEF Upward
    <3>7. Total(f, up(m) \union {n}) = Total(f, up(m)) + f[n]
      <4>1. up(m) \in SUBSET Nodes(t) /\ n \in Nodes(t) \ up(m)
        BY <1>0, <2>4, <3>6
      <4> HIDE DEF f, up
      <4>. QED  BY <1>1, <4>1
    <3> HIDE DEF f, up
    <3>. QED  BY <2>4, <2>6, <2>9, <3>4, <3>5, <3>7
  <2>. QED  BY <2>10, <2>11
<1>4. \A n \in Nodes(t) \union {Root} : Total(f, up(n)) = Len(n)
  BY <1>1, <1>2, <1>3
<1>. QED
  BY <1>0, <1>4, LengthTotal

(* Moving a handle down locks no more than it grows by. *)
LEMMA LockGrows ==
  ASSUME NEW S, NEW t, IsTree(t, S), t.protected \in Int, NEW h, h = Root \/ h \in Nodes(t),
         NEW path, path = Root \/ path \in Nodes(t), IsPrefix(h, path),
         NEW u, u = Unlock(t, h), IsTree(u, S)
  PROVE  Lock(u, path).protected \in Int /\ Lock(u, path).protected <= t.protected + Len(path) - Len(h)
<1> DEFINE f == Lengths(t)
           A == {n \in Upward(t, h) : t.ref[n] = 1}
           B == {n \in Upward(u, path) : u.ref[n] = 0}
           C == Upward(t, path) \ Upward(t, h)
<1>1. /\ \A n \in Nodes(t) : n \in Seq(S) /\ t.ref[n] \in Nat
      /\ Root \in Seq(S) /\ f \in [Nodes(t) -> Int] /\ IsFiniteSet(Nodes(t))
      /\ \A n \in Nodes(t) : f[n] \in Nat
      /\ Nodes(u) = Nodes(t)
      /\ \A n \in Nodes(t) : u.ref[n] = IF IsPrefix(n, h) THEN t.ref[n] - 1 ELSE t.ref[n]
  <2>1. \A n \in Nodes(t) : n \in Seq(S) /\ t.ref[n] \in Nat
    BY TreeTexts DEF IsTree
  <2>2. Root \in Seq(S) /\ f \in [Nodes(t) -> Int] /\ IsFiniteSet(Nodes(t)) /\ \A n \in Nodes(t) : f[n] \in Nat
    BY TreeTexts, LengthsAre
  <2>3. /\ Nodes(u) = Nodes(t)
        /\ \A n \in Nodes(t) : u.ref[n] = IF IsPrefix(n, h) THEN t.ref[n] - 1 ELSE t.ref[n]
    BY LockIs
  <2>. QED  BY <2>1, <2>2, <2>3
<1>2. /\ u.protected = t.protected - TotalLength(t, A)
      /\ Lock(u, path).protected = u.protected + TotalLength(u, B)
  <2>1. IsTree(t, S) /\ IsTree(u, S) /\ u = Unlock(t, h)
    OBVIOUS
  <2>2. Unlock(t, h).protected = t.protected - TotalLength(t, A)
    BY <2>1, LockSizes
  <2> HIDE DEF A, B
  <2>3. Lock(u, path).protected = u.protected + TotalLength(u, B)
    BY <2>1, LockSizes DEF B
  <2>. QED  BY <2>1, <2>2, <2>3
<1>3. /\ A \in SUBSET Nodes(t) /\ B \in SUBSET Nodes(t) /\ C \in SUBSET Nodes(t) /\ B \in SUBSET Nodes(u)
      /\ Upward(t, h) \in SUBSET Nodes(t) /\ Upward(t, path) \in SUBSET Nodes(t)
  BY <1>1 DEF Upward
<1>4. TotalLength(t, A) = Total(f, A) /\ TotalLength(u, B) = Total(f, B)
  <2>1. Lengths(u) = f
    BY <1>1, SameLengths
  <2>2. TotalLength(t, A) = Total(Lengths(t), A) /\ TotalLength(u, B) = Total(Lengths(u), B)
    BY <1>3, LengthTotal
  <2>. QED  BY <2>1, <2>2
<1>5. Upward(t, h) \subseteq Upward(t, path)
  <2> SUFFICES ASSUME NEW n \in Upward(t, h) PROVE IsPrefix(n, path) /\ n \in Nodes(t)
    BY DEF Upward
  <2>1. n \in Nodes(t) /\ n \in Seq(S) /\ IsPrefix(n, h) /\ h \in Seq(S) /\ path \in Seq(S)
    BY <1>1 DEF Upward
  <2>. QED  BY <2>1, PrefixOrder
<1>6. Total(f, Upward(t, h)) = Len(h) /\ Total(f, Upward(t, path)) = Len(path)
  <2>1. TotalLength(t, Upward(t, h)) = Len(h) /\ TotalLength(t, Upward(t, path)) = Len(path)
    BY ChainLength
  <2>. QED  BY <1>3, <2>1, LengthTotal
<1>7. B \subseteq A \union C
  <2> SUFFICES ASSUME NEW n \in B, n \notin C PROVE n \in A
    OBVIOUS
  <2>1. n \in Nodes(t) /\ IsPrefix(n, path) /\ u.ref[n] = 0 /\ t.ref[n] \in Nat
    BY <1>1 DEF Upward
  <2>2. n \in Upward(t, h) /\ IsPrefix(n, h)
    BY <2>1 DEF Upward
  <2>3. t.ref[n] = 1
    BY <1>1, <2>1, <2>2
  <2>. QED  BY <2>2, <2>3
<1>8. A \intersect C = {} /\ Upward(t, h) \intersect C = {} /\ Upward(t, h) \union C = Upward(t, path)
  BY <1>5
<1> DEFINE D == (A \union C) \ B
           H == Upward(t, h)
           W == Upward(t, path)
<1>9. /\ D \in SUBSET Nodes(t) /\ B \intersect D = {} /\ B \union D = A \union C
      /\ H \intersect C = {} /\ H \union C = W /\ A \intersect C = {} /\ H \in SUBSET Nodes(t) /\ W \in SUBSET Nodes(t)
  BY <1>3, <1>7, <1>8
<1>10. Total(f, H) = Len(h) /\ Total(f, W) = Len(path)
  BY <1>6
<1> HIDE DEF A, B, C, D, H, W, f
<1>11. /\ Total(f, B \union D) = Total(f, B) + Total(f, D) /\ Total(f, A \union C) = Total(f, A) + Total(f, C)
       /\ Total(f, H \union C) = Total(f, H) + Total(f, C)
       /\ \A T \in SUBSET Nodes(t) : Total(f, T) \in Int
  <2>1. \A P, Q \in SUBSET Nodes(t) : P \intersect Q = {} => Total(f, P \union Q) = Total(f, P) + Total(f, Q)
    <3> DEFINE N == Nodes(t)
    <3>1. IsFiniteSet(N) /\ f \in [N -> Int]
      BY <1>1
    <3> HIDE DEF N
    <3>2. \A P, Q \in SUBSET N : P \intersect Q = {} => Total(f, P \union Q) = Total(f, P) + Total(f, Q)
      BY ONLY <3>1, TotalUnion
    <3>. QED  BY <3>2 DEF N
  <2>2. \A T \in SUBSET Nodes(t) : Total(f, T) \in Int
    BY <1>1, TotalRules
  <2>. QED  BY <1>3, <1>9, <2>1, <2>2
<1>12. Total(f, D) >= 0
  <2> DEFINE z == [n \in D |-> 0]
             g == [n \in D |-> f[n]]
  <2>1. IsFiniteSet(D)
    BY <1>1, <1>9, FS_Subset
  <2>2. z \in [D -> Int] /\ g \in [D -> Int] /\ \A n \in D : z[n] = 0 /\ z[n] <= g[n] /\ g[n] = f[n]
    BY <1>1, <1>9
  <2> HIDE DEF z, g
  <2>3. Total(z, D) = 0 /\ Total(z, D) <= Total(g, D)
    BY <2>1, <2>2, TotalZero, TotalMono
  <2>4. Total(f, D) = Total(g, D)
    <3> DEFINE N == Nodes(t)
    <3>1. /\ IsFiniteSet(N) /\ f \in [N -> Int] /\ IsFiniteSet(D) /\ g \in [D -> Int]
          /\ D \in SUBSET N /\ D \in SUBSET D /\ \A n \in D : f[n] = g[n]
      BY <1>1, <1>9, <2>1, <2>2
    <3> HIDE DEF N
    <3>. QED  BY ONLY <3>1, TotalAgree
  <2>. QED  BY <1>9, <1>11, <2>3, <2>4
<1> DEFINE ta == Total(f, A)
           tb == Total(f, B)
           tc == Total(f, C)
           td == Total(f, D)
           x == Lock(u, path).protected
           y == t.protected
<1>13. /\ x = y - ta + tb /\ tb + td = ta + tc /\ td >= 0 /\ Len(h) + tc = Len(path)
       /\ ta \in Int /\ tb \in Int /\ tc \in Int /\ td \in Int /\ y \in Int
  BY <1>2, <1>3, <1>4, <1>9, <1>10, <1>11, <1>12
<1>14. Len(h) \in Nat /\ Len(path) \in Nat
  BY <1>1, LenProperties
<1> HIDE DEF ta, tb, tc, td, x, y
<1>15. x \in Int /\ x <= y + Len(path) - Len(h)
  BY <1>13, <1>14
<1>. QED
  BY <1>15 DEF x, y

(* What is evictable can be evicted: some set of unlocked nodes reaches any
   size up to it and none of its nodes too many. *)
LEMMA RemovalExists ==
  ASSUME NEW S, NEW t, IsTree(t, S), Sized(t), NEW L, IsFiniteSet(L), NEW h, Counted(t, L, h),
         NEW size \in Nat \ {0}, size <= t.evictable
  PROVE  Removals(t, size) /= {}
<1> DEFINE f == Lengths(t)
           U == Unlocked(t)
           Closed(R) == \A n \in R, m \in Nodes(t) : IsPrefix(n, m) => m \in R
           Enough == {R \in SUBSET U : Closed(R) /\ Total(f, R) >= size}
           Sizes == {Cardinality(R) : R \in Enough}
<1>1. /\ \A n \in Nodes(t) : n \in Seq(S) /\ t.ref[n] \in Nat
      /\ f \in [Nodes(t) -> Int] /\ IsFiniteSet(Nodes(t))
      /\ \A n \in Nodes(t) : f[n] = Length(t, n)
      /\ U \in SUBSET Nodes(t)
  BY TreeTexts, LengthsAre DEF IsTree, Unlocked
<1>2. /\ Total(f, {}) = 0
      /\ \A T \in SUBSET Nodes(t) : Total(f, T) \in Int
      /\ \A T \in SUBSET Nodes(t) : \A x \in Nodes(t) \ T : Total(f, T \union {x}) = Total(f, T) + f[x]
  <2> HIDE DEF f
  <2>. QED  BY <1>1, TotalRules
<1>3. U \in Enough
  <2>1. Closed(U)
    <3> SUFFICES ASSUME NEW n \in U, NEW m \in Nodes(t), IsPrefix(n, m) PROVE t.ref[m] = 0
      BY DEF Unlocked
    <3>1. n \in Nodes(t) /\ t.ref[n] = 0 /\ n \in Seq(S) /\ m \in Seq(S)
      BY <1>1 DEF Unlocked
    <3>2. ~(t.ref[m] > 0)
      <4> SUFFICES ASSUME t.ref[m] > 0 PROVE FALSE
        OBVIOUS
      <4> DEFINE E == {r \in L : IsPrefix(m, h[r])}
      <4>1. E /= {}
        <5>1. t.ref[m] = Cardinality(E)
          BY DEF Counted
        <5> HIDE DEF E
        <5>2. Cardinality({}) = 0
          BY FS_EmptySet
        <5>. QED  BY <5>1, <5>2
      <4>2. PICK r \in L : IsPrefix(m, h[r])
        BY <4>1
      <4>3. h[r] \in Seq(S)
        BY HandleTexts
      <4>4. IsPrefix(n, h[r])
        BY <3>1, <4>2, <4>3, PrefixOrder
      <4>. QED  BY <3>1, <4>4, CountedHeld
    <3>. QED  BY <1>1, <3>2
  <2>2. Total(f, U) >= size
    <3>1. t.evictable = TotalLength(t, {n \in Nodes(t) : t.ref[n] = 0})
      BY DEF Sized
    <3>2. U = {n \in Nodes(t) : t.ref[n] = 0}
      BY DEF Unlocked
    <3>3. t.evictable = TotalLength(t, U)
      BY <3>1, <3>2
    <3>4. TotalLength(t, U) = Total(f, U)
      BY <1>1, LengthTotal
    <3>5. Total(f, U) \in Int
      BY <1>1, <1>2
    <3>. QED  BY <3>3, <3>4, <3>5
  <2>. QED  BY <2>1, <2>2
<1>4. \A R \in Enough : R \in SUBSET Nodes(t) /\ IsFiniteSet(R) /\ Cardinality(R) \in Nat
  BY <1>1, FS_Subset, FS_CardinalityType
<1>5. PICK R \in Enough : \A Q \in Enough : ~(Cardinality(Q) < Cardinality(R))
  <2> HIDE DEF Enough
  <2>1. Sizes \in SUBSET Nat /\ Sizes /= {}
    BY <1>3, <1>4
  <2> HIDE DEF Sizes
  <2>2. PICK k \in Sizes : \A m \in Sizes : ~(m < k)
    BY <2>1, LeastNat
  <2>. QED  BY <2>2 DEF Sizes
<1>6. R \in SUBSET U /\ R \in SUBSET Nodes(t) /\ Closed(R) /\ Total(f, R) >= size /\ IsFiniteSet(R)
  BY <1>4, <1>5
<1>7. R /= {}
  <2> SUFFICES ASSUME R = {} PROVE FALSE
    OBVIOUS
  <2> HIDE DEF f
  <2>. QED  BY <1>2, <1>6
<1>8. PICK n \in R : \A m \in R : IsPrefix(m, n) => m = n
  <2> DEFINE Ls == {Len(m) : m \in R}
  <2>1. Ls \in SUBSET Nat /\ Ls /= {}
    BY <1>1, <1>6, <1>7, LenProperties, SMTT(30)
  <2>2. PICK k \in Ls : \A j \in Ls : ~(j < k)
    <3> HIDE DEF Ls
    <3>. QED  BY <2>1, LeastNat
  <2>3. PICK n \in R : Len(n) = k
    BY <2>2
  <2>4. ASSUME NEW m \in R, IsPrefix(m, n) PROVE m = n
    <3>1. m \in Seq(S) /\ n \in Seq(S) /\ Len(m) \in Nat /\ Len(n) \in Nat /\ ~(Len(m) < Len(n))
      BY <1>1, <1>6, <2>2, <2>3, LenProperties
    <3>. QED  BY <2>4, <3>1, PrefixOrder
  <2>. QED  BY <2>4
<1> DEFINE Q == R \ {n}
<1>9. Closed(Q)
  <2> SUFFICES ASSUME NEW m \in Q, NEW k \in Nodes(t), IsPrefix(m, k) PROVE k \in Q
    OBVIOUS
  <2>. QED  BY <1>6, <1>8
<1>10. Cardinality(Q) < Cardinality(R)
  <2>1. IsFiniteSet(Q) /\ Cardinality(Q) = Cardinality(R) - 1 /\ Cardinality(R) \in Nat
    BY <1>6, FS_RemoveElement, FS_CardinalityType
  <2>. QED  BY <2>1
<1>11. ~(Total(f, Q) >= size)
  <2>1. Q \notin Enough
    <3> HIDE DEF Enough, Q
    <3>. QED  BY <1>5, <1>10
  <2>. QED  BY <1>6, <1>9, <2>1
<1>12. Total(f, R) = Total(f, Q) + f[n]
  <2>1. R = Q \union {n} /\ Q \in SUBSET Nodes(t) /\ n \in Nodes(t) \ Q
    BY <1>6
  <2> HIDE DEF Q, f
  <2>. QED  BY <1>2, <2>1
<1>13. TotalLength(t, R) = Total(f, R)
  BY <1>6, LengthTotal
<1>14. TotalLength(t, R) >= size /\ TotalLength(t, R) - Length(t, n) < size
  <2>1. f[n] = Length(t, n) /\ f[n] \in Int /\ Total(f, Q) \in Int /\ Total(f, R) \in Int
    BY <1>1, <1>2, <1>6
  <2> HIDE DEF f, Q
  <2>. QED  BY <1>6, <1>11, <1>12, <1>13, <2>1
<1>15. R \in Removals(t, size)
  BY <1>6, <1>8, <1>14 DEF Removals
<1>. QED
  BY <1>15

=============================================================================
