-------------------------- MODULE CacheProperties --------------------------
(***************************************************************************)
(* What CacheManager must keep true, whatever requests share.              *)
(***************************************************************************)
EXTENDS CacheManager

\* Every variable keeps its type; in particular no length is negative.
TypeOK ==
  /\ pc \in {"loop", "wait", "recv", "admit", "forward", "post", "crashed", "failed"}
  /\ DOMAIN tree.page \subseteq Seq(Tokens) \ {Root}
  /\ Nodes(tree) \subseteq DOMAIN tree.page
  /\ Range(tree.ref) \subseteq Nat /\ Range(tree.page) \subseteq Pages
  /\ tree.evictable \in Nat /\ tree.protected \in Nat
  /\ free \in Seq(Pages) /\ kv \in [Slots -> Seq(Tokens)]
  /\ arrived \subseteq Reqs /\ pending \in Seq(Reqs)
  /\ chunk \union running \subseteq live /\ live \subseteq Reqs
  /\ ids \in [Reqs -> Seq(Tokens)] /\ row \in [Reqs -> Seq(Pages)]
  /\ handle \in [Reqs -> Seq(Tokens)]
  /\ limit \in [Reqs -> Nat] /\ cached \in [Reqs -> Nat] /\ device \in [Reqs -> Nat]
  /\ budget \in Nat /\ reserved \in Nat
  /\ \A b \in {cur, last} :
       /\ b.reqs \in Seq(Reqs) /\ b.prefill \in BOOLEAN /\ b.partial \subseteq Range(b.reqs)
       /\ Range(b.token) \subseteq Tokens /\ DOMAIN b.token \subseteq Range(b.reqs) \ b.partial
  /\ todo \in Seq(Reqs) /\ finished \subseteq Reqs /\ deferred \subseteq Range(last.reqs)

\* A node's reference count is the number of requests that rely on it: those
\* whose handle lies at or below it, whoever has split it since.
RefsExact ==
  /\ \A r \in live : handle[r] = Root \/ handle[r] \in Nodes(tree)
  /\ \A n \in Nodes(tree) :
       tree.ref[n] = Cardinality({r \in live : IsPrefix(n, handle[r])})

\* The two sizes by which admission and eviction decide are those of the tree.
SizesExact ==
  /\ tree.evictable = TotalLength(tree, {n \in Nodes(tree) : tree.ref[n] = 0})
  /\ tree.protected = TotalLength(tree, {n \in Nodes(tree) : tree.ref[n] > 0})

\* The pages of a row that are not the cache's: those beyond the handle.
Own(r) == SubSeq(row[r], Len(handle[r]) \div PageSize + 1, Len(row[r]))

Occurrences(page, seq) == Cardinality({i \in DOMAIN seq : seq[i] = page})

\* Every page is free, cached or a request's own, and only once: none is
\* leaked, none handed out twice, though equal prompts may compute it twice and
\* the batch a page was drawn for may fail.
PagesOnce ==
  \A page \in Pages :
    1 = Occurrences(page, free)
        + Cardinality({text \in DOMAIN tree.page : tree.page[text] = page})
        + MapThenSumSet(LAMBDA r : Occurrences(page, Own(r)), live)

\* Admission never promises pages that a later forward cannot get: neither
\* "Cannot evict" nor the integrity check of an idle process is reached.
NeverFails == pc /= "crashed"

\* What the cache would give a new request is the text it asked for.
CacheTruthful ==
  \A text \in DOMAIN tree.page : \A j \in 1 .. PageSize :
    kv[tree.page[text] * PageSize + j - 1] = SubSeq(text, 1, Len(text) - PageSize + j)

\* What two cached texts share, they share in one node: a text that is
\* cached twice would be found in one place and evicted in another.
Branching ==
  \A n, m \in Nodes(tree) :
    LET shared == LongestCommonPrefix({n, m})
        fork   == SubSeq(shared, 1, AlignDown(Len(shared)))
    IN  fork = Root \/ fork \in Nodes(tree)

\* The tree is what its operations take it for: admission and eviction decide
\* by true sizes, and no text is hidden behind another.
TreeSound == SizesExact /\ Branching

\* [0, req.cached_len) of a row "is valid for attention kernel read/write":
\* cache_req says so, and every forward reads the pages of its rows up to
\* there.
RowsValid ==
  \A r \in live :
    LET text == Text(r)
    IN  \A i \in 1 .. cached[r] : kv[Slot(row[r], i)] = SubSeq(text, 1, i)

\* The radix cache is a prefix store: what a request has locked stays where
\* it is, through splits, insertions and evictions on behalf of others.
Store == INSTANCE PrefixStore WITH
  Users <- Reqs, stored <- tree.page, pinned <- [r \in Reqs |-> IF r \in live THEN handle[r] ELSE Root]
IsPrefixStore == Store!Spec

\* Every waiting request is admitted (or aborted), and once no more arrive none
\* is left: what others cached gives way.  Nothing runs on once preparing a
\* batch has failed.
Admitted == (pending /= <<>>) ~> (pending = <<>> \/ pc = "failed")
=============================================================================
