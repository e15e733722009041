---------------------------- MODULE PrefixStore ----------------------------
(***************************************************************************)
(* What a prefix cache promises its users, however it is built: a store of *)
(* texts, each with the page that holds it, closed under prefixes.  A user *)
(* may pin a text it found there.  While it does, that text and all its    *)
(* prefixes stay where they are; the rest may disappear.                   *)
(***************************************************************************)
EXTENDS Functions, Sequences, SequencesExt

CONSTANTS Users

VARIABLES
  stored,  \* text -> page
  pinned   \* user -> the text it has pinned

storeVars == <<stored, pinned>>

Nothing == <<>>

Init == stored = <<>> /\ pinned = [u \in Users |-> Nothing]

\* A user adds texts on pages of its own, or none, and pins something else.
\* What was stored before keeps its page.
Contribute(u, text) ==
  /\ DOMAIN stored \subseteq DOMAIN stored'
  /\ Restrict(stored', DOMAIN stored) = stored
  /\ text = Nothing \/ text \in DOMAIN stored'
  /\ pinned' = [pinned EXCEPT ![u] = text]

\* Texts that no pin needs are dropped, longer ones first.
Drop ==
  /\ DOMAIN stored' \subseteq DOMAIN stored
  /\ stored' = Restrict(stored, DOMAIN stored')
  /\ \A gone \in DOMAIN stored \ DOMAIN stored' :
       /\ \A u \in Users : ~IsPrefix(gone, pinned[u])
       /\ \A text \in DOMAIN stored' : ~IsPrefix(gone, text)
  /\ UNCHANGED pinned

Next == \/ \E u \in Users : \E text \in DOMAIN stored' \union {Nothing} : Contribute(u, text)
        \/ Drop

Spec == Init /\ [][Next]_storeVars
=============================================================================
