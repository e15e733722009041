----------------------------- MODULE RadixCache -----------------------------
(***************************************************************************)
(* The tree of kvcache/radix_cache.py, as a value and the operations on it.*)
(*                                                                         *)
(* A node is named by its path: the tokens from the root to its end.  A    *)
(* split keeps the lower part in the old node object, whose path does not  *)
(* change, so a RadixCacheHandle, a node and a length, is a path as well.  *)
(* Lengths are tokens; keys, and so paths, are multiples of PageSize, and  *)
(* children are looked up by their first page.                             *)
(*                                                                         *)
(*   ref        ref_count of each node but the root                        *)
(*   page       the KV page of each page-aligned prefix of a node: the     *)
(*              values of the nodes on the way, one page at a time         *)
(*   evictable, protected     the sizes the cache keeps of either kind     *)
(*                                                                         *)
(* Timestamps are left out: evict may take any unlocked leaf, of which the *)
(* heap would take the least recently used.                                *)
(***************************************************************************)
EXTENDS Integers, Sequences, FiniteSets, SequencesExt

CONSTANT PageSize

EmptyTree == [ref |-> <<>>, page |-> <<>>, evictable |-> 0, protected |-> 0]

Root == <<>>
Nodes(t) == DOMAIN t.ref

\* The nodes from path up to the root, without the root
Upward(t, path) == {n \in Nodes(t) : IsPrefix(n, path)}

\* The length of a node's key
Length(t, n) == Len(n) - Max({0} \union {Len(m) : m \in Upward(t, n) \ {n}})
TotalLength(t, S) == MapThenSumSet(LAMBDA n : Length(t, n), S)

AlignDown(len) == len - (len % PageSize)

\* Where _tree_walk ends: the longest page-aligned prefix in the tree
Matched(t, ids) ==
  SubSeq(ids, 1, Max({0} \union {k \in 1 .. Len(ids) :
                                   k % PageSize = 0 /\ SubSeq(ids, 1, k) \in DOMAIN t.page}))

\* The counts with one more node
With(ref, path, count) ==
  [n \in DOMAIN ref \union {path} |-> IF n = path THEN count ELSE ref[n]]

FaultySplit(t, path) ==
  IF path = Root \/ path \in Nodes(t) THEN t
  ELSE [t EXCEPT !.ref = With(@, path, 0)]

\* _tree_walk splits the node it ends in: both parts are locked as it was.
Split(t, path) ==
  IF path = Root \/ path \in Nodes(t) THEN t
  ELSE LET below == {n \in Nodes(t) : IsPrefix(path, n)}
           split == CHOOSE n \in below : \A m \in below : IsPrefix(n, m)
       IN  [t EXCEPT !.ref = With(@, path, t.ref[split])]

\* lock_handle(unlock=False)
Lock(t, path) ==
  LET up  == Upward(t, path)
      len == TotalLength(t, {n \in up : t.ref[n] = 0})
  IN  [t EXCEPT !.ref = [n \in Nodes(t) |-> IF n \in up THEN @[n] + 1 ELSE @[n]],
                !.evictable = @ - len, !.protected = @ + len]

FaultyUnlock(t, path) ==
  [t EXCEPT !.ref = [n \in Nodes(t) |-> IF n \in Upward(t, path) THEN @[n] - 1 ELSE @[n]]]

\* lock_handle(unlock=True)
Unlock(t, path) ==
  LET up  == Upward(t, path)
      len == TotalLength(t, {n \in up : t.ref[n] = 1})
  IN  [t EXCEPT !.ref = [n \in Nodes(t) |-> IF n \in up THEN @[n] - 1 ELSE @[n]],
                !.evictable = @ + len, !.protected = @ - len]

FaultyInserted(t, key, pages) ==
  LET known == Matched(t, key)
      new   == {k \in Len(known) + 1 .. Len(key) : k % PageSize = 0}
  IN  [t EXCEPT
         !.ref  = With(@, key, 0),
         !.page = [p \in DOMAIN @ \union {SubSeq(key, 1, k) : k \in new} |->
                     IF p \in DOMAIN @ THEN @[p] ELSE pages[Len(p) \div PageSize]],
         !.evictable = @ + Len(key) - Len(known)]

\* insert_prefix of a page-aligned key that the tree does not hold entirely:
\* the rest becomes a leaf, unlocked, with the pages given for it.
Inserted(t, key, pages) ==
  LET known == Matched(t, key)
      new   == {k \in Len(known) + 1 .. Len(key) : k % PageSize = 0}
  IN  [Split(t, known) EXCEPT
         !.ref  = With(@, key, 0),
         !.page = [p \in DOMAIN @ \union {SubSeq(key, 1, k) : k \in new} |->
                     IF p \in DOMAIN @ THEN @[p] ELSE pages[Len(p) \div PageSize]],
         !.evictable = @ + Len(key) - Len(known)]

\* insert_prefix: the tree, the length it held before, and the new handle
InsertPrefix(t, ids, pages) ==
  LET key   == SubSeq(ids, 1, AlignDown(Len(ids)))
      known == Matched(t, key)
  IN  [tree   |-> IF known = key THEN Split(t, known) ELSE Inserted(t, key, pages),
       cached |-> Len(known),
       path   |-> key]

FaultyUnlocked(t) == Nodes(t)

Unlocked(t) == {n \in Nodes(t) : t.ref[n] = 0}

\* The sets of nodes evict(size) may remove: unlocked nodes, children before
\* parents, until the total reaches size and no further.
Removals(t, size) ==
  {R \in SUBSET Unlocked(t) :
     /\ \A n \in R, m \in Nodes(t) : IsPrefix(n, m) => m \in R
     /\ TotalLength(t, R) >= size
     /\ \E n \in R : /\ \A m \in R : IsPrefix(m, n) => m = n
                     /\ TotalLength(t, R) - Length(t, n) < size}

\* What is left of the tree when R is removed
Without(t, R) ==
  LET left == Nodes(t) \ R
      keep == {p \in DOMAIN t.page : \E n \in left : IsPrefix(p, n)}
  IN  [t EXCEPT !.ref  = [n \in left |-> t.ref[n]],
                !.page = [p \in keep |-> t.page[p]],
                !.evictable = @ - TotalLength(t, R)]

\* The pages evict returns
PagesOf(t, R) == {t.page[p] : p \in DOMAIN t.page \ DOMAIN Without(t, R).page}
=============================================================================
