---------------------------- MODULE SchedulerMC ----------------------------
(***************************************************************************)
(* Instances of Scheduler for TLC: the bounds are in the .cfg files.       *)
(***************************************************************************)
EXTENDS SchedulerProperties

\* Requests differ in nothing but their names.
UidSymmetry == Permutations(Uids)
=============================================================================
