----------------------------- MODULE FrontendMC -----------------------------
(***************************************************************************)
(* The instance of Frontend for TLC: a request of any endpoint beside one  *)
(* whose answer is collected.                                              *)
(***************************************************************************)
EXTENDS Frontend

CONSTANTS r1, r2

TwoUids == {r1, r2}
AnyAndCollect == [u \in TwoUids |-> IF u = r1 THEN Kinds ELSE {"collect"}]
TwoAndOne == [u \in TwoUids |-> IF u = r1 THEN 2 ELSE 1]
=============================================================================
