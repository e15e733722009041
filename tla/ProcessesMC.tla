---------------------------- MODULE ProcessesMC ----------------------------
(***************************************************************************)
(* RankIO, Launcher and Offline share no state: each behaviour here is one *)
(* of one of them, chosen at the start, the other two staying as they      *)
(* begin.                                                                  *)
(***************************************************************************)
EXTENDS RankIO, Launcher, Offline

VARIABLE part

AllVars == <<part, rankVars, launchVars, offlineVars>>

\* The parts that stand still begin in one of their states.
Still ==
  /\ part /= "launcher" =>
       /\ world = 1 /\ toks = Min(Tokenizers)
       /\ memory = [r \in {0} |-> Min(Memories)]
  /\ part /= "offline" => overlapping = FALSE

ProcessesInit ==
  /\ part \in {"ranks", "launcher", "offline"}
  /\ Still
  /\ RankInit /\ LaunchInit /\ OfflineInit

ProcessesNext ==
  /\ UNCHANGED part
  /\ \/ part = "ranks" /\ RankNext /\ UNCHANGED <<launchVars, offlineVars>>
     \/ part = "launcher" /\ LaunchNext /\ UNCHANGED <<rankVars, offlineVars>>
     \/ part = "offline" /\ OfflineNext /\ UNCHANGED <<rankVars, launchVars>>

\* Each rank keeps running its loop; a process that starts goes on unless it
\* crashes; run_forever does not stop by itself.  Nothing makes the tokenizers
\* send or the caller call.
Fairness ==
  /\ \A r \in Ranks : WF_rankVars(part = "ranks" /\ RankStep(r))
  /\ WF_launchVars(part = "launcher" /\ ApiOwn)
  /\ \A i \in 0 .. Max(Tokenizers) : WF_launchVars(part = "launcher" /\ i \in Workers /\ WorkerOwn(i))
  /\ \A r \in 0 .. Max(Worlds) - 1 : WF_launchVars(part = "launcher" /\ r \in TpRanks /\ RankOwn(r))
  /\ WF_offlineVars(part = "offline" /\ (AllFinished \/ Tick))

ProcessesSpec == ProcessesInit /\ [][ProcessesNext]_AllVars /\ Fairness

(* Nobody waits for ever for another process: the ranks for a message or a
   barrier after a shutdown, the launcher for an acknowledgement unless a
   process died, a rank for those that raised, generate for its outputs. *)
NobodyHangs == AllStop /\ ComesUp /\ RefuseTogether /\ Returns
=============================================================================
