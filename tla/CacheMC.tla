------------------------------ MODULE CacheMC ------------------------------
(***************************************************************************)
(* Small instances of CacheManager for TLC.                                *)
(***************************************************************************)
EXTENDS CacheProperties

CONSTANTS r1, r2, r3, a, b

TwoReqs   == {r1, r2}
ThreeReqs == {r1, r2, r3}
BothTokens == {a, b}

\* Prompts that fork after a page, and one that another continues
Forking == {<<a, a>>, <<a, b>>, <<a, a, b>>}
\* A long prompt that a new request may find cached, one that forks from it
\* and a short one
Uneven == {<<a, a, a>>, <<a, b>>, <<b>>}
\* No prompt that a cached one covers to its last whole page but for a token
Odd == {<<a, a, a>>, <<a, b, a>>}

UpTo2 == {1, 2}
=============================================================================
