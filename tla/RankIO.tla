------------------------------- MODULE RankIO -------------------------------
(***************************************************************************)
(* receive_msg across tensor-parallel ranks (SchedulerIOMixin).  Rank 0    *)
(* reads the queue of the tokenizers and republishes each message; the     *)
(* number it drained goes to the others by a broadcast, so that every rank *)
(* reads as many.  Each rank then runs its own scheduler: all it has in    *)
(* common with the others is the messages of each tick.  What a tick makes *)
(* of them is one number here, the ticks of work left, because it decides  *)
(* whether the next call blocks.                                           *)
(***************************************************************************)
EXTENDS Integers, Sequences, FiniteSets, SequencesExt

CONSTANTS
  Size,     \* tensor-parallel ranks
  MaxMsgs,  \* bound: messages the tokenizers send before an ExitMsg
  MaxWork   \* bound: ticks of work a message brings (0: dropped, or an abort)

ASSUME RankAssumption == Size \in Nat \ {0} /\ MaxMsgs \in Nat /\ MaxWork \in Nat

VARIABLES
  sent,      \* messages the tokenizers have sent
  inbox,     \* the queue of rank 0
  published, \* what each other rank has still to read from rank 0
  counts,    \* broadcast values each other rank has still to take
  at,        \* where each rank's loop is
  raws,      \* pending_raw_msgs of rank 0
  got,       \* pending_msgs of each rank in this tick
  left,      \* messages each rank has still to read after the broadcast
  work,      \* ticks of work each rank has left
  ticks      \* the messages of each tick a rank has processed

rankVars == <<sent, inbox, published, counts, at, raws, got, left, work, ticks>>

Ranks == 0 .. Size - 1
Others == Ranks \ {0}
Exit == [id |-> 0, work |-> 0]

RankInit ==
  /\ sent = 0 /\ inbox = <<>> /\ raws = <<>>
  /\ published = [r \in Others |-> <<>>] /\ counts = [r \in Others |-> <<>>]
  /\ at = [r \in Ranks |-> "top"] /\ got = [r \in Ranks |-> <<>>]
  /\ left = [r \in Ranks |-> 0] /\ work = [r \in Ranks |-> 0]
  /\ ticks = [r \in Ranks |-> <<>>]

\* A message of the tokenizers; an ExitMsg is the last.
Send ==
  /\ sent <= MaxMsgs
  /\ \/ /\ sent < MaxMsgs
        /\ \E w \in 0 .. MaxWork : inbox' = Append(inbox, [id |-> sent + 1, work |-> w])
        /\ sent' = sent + 1
     \/ inbox' = Append(inbox, Exit) /\ sent' = MaxMsgs + 1
  /\ UNCHANGED <<published, counts, at, raws, got, left, work, ticks>>

Go(r, place) == at' = [at EXCEPT ![r] = place]
Publish(msgs) == published' = [r \in Others |-> published[r] \o msgs]

\* blocking: this rank has nothing left to run
Begin(r) ==
  /\ at[r] = "top"
  /\ Go(r, IF work[r] = 0 THEN "get" ELSE IF r = 0 THEN "drain" ELSE "count")
  /\ UNCHANGED <<sent, inbox, published, counts, raws, got, left, work, ticks>>

\* The blocking get of rank 0, republished at once
Get0 ==
  /\ at[0] = "get" /\ inbox /= <<>>
  /\ got' = [got EXCEPT ![0] = <<Head(inbox)>>] /\ inbox' = Tail(inbox)
  /\ Publish(<<Head(inbox)>>)
  /\ Go(0, "drain")
  /\ UNCHANGED <<sent, counts, raws, left, work, ticks>>

\* get_raw until the queue is empty
Drain0 ==
  /\ at[0] = "drain" /\ inbox /= <<>>
  /\ raws' = Append(raws, Head(inbox)) /\ inbox' = Tail(inbox)
  /\ UNCHANGED <<sent, published, counts, at, got, left, work, ticks>>

FaultyBroadcast(n) == counts' = [r \in Others |-> Append(counts[r], n + Len(got[0]))]

Broadcast(n) == counts' = [r \in Others |-> Append(counts[r], n)]

\* The queue is empty: broadcast how many there were, then republish them.
Rest0 ==
  /\ at[0] = "drain" /\ inbox = <<>>
  /\ Broadcast(Len(raws))
  /\ Publish(raws)
  /\ got' = [got EXCEPT ![0] = @ \o raws] /\ raws' = <<>>
  /\ Go(0, "run")
  /\ UNCHANGED <<sent, inbox, left, work, ticks>>

Get(r) ==
  /\ at[r] = "get" /\ r \in Others /\ published[r] /= <<>>
  /\ got' = [got EXCEPT ![r] = <<Head(published[r])>>]
  /\ published' = [published EXCEPT ![r] = Tail(@)]
  /\ Go(r, "count")
  /\ UNCHANGED <<sent, inbox, counts, raws, left, work, ticks>>

\* The broadcast ends for a rank once rank 0 has joined it.
ReadCount(r) ==
  /\ at[r] = "count" /\ counts[r] /= <<>>
  /\ left' = [left EXCEPT ![r] = Head(counts[r])]
  /\ counts' = [counts EXCEPT ![r] = Tail(@)]
  /\ Go(r, "rest")
  /\ UNCHANGED <<sent, inbox, published, raws, got, work, ticks>>

FaultyRest(r) ==
  /\ at[r] = "rest"
  /\ got' = [got EXCEPT ![r] = @ \o published[r]]
  /\ published' = [published EXCEPT ![r] = <<>>]
  /\ Go(r, "run")
  /\ UNCHANGED <<sent, inbox, counts, raws, left, work, ticks>>

Rest(r) ==
  /\ at[r] = "rest"
  /\ IF left[r] = 0 THEN Go(r, "run") /\ UNCHANGED <<published, got, left>>
     ELSE /\ published[r] /= <<>>
          /\ got' = [got EXCEPT ![r] = Append(@, Head(published[r]))]
          /\ published' = [published EXCEPT ![r] = Tail(@)]
          /\ left' = [left EXCEPT ![r] = @ - 1]
          /\ UNCHANGED at
  /\ UNCHANGED <<sent, inbox, counts, raws, work, ticks>>

\* What the messages before an ExitMsg bring, less this tick
WorkAfter(r) ==
  LET total == work[r] + FoldSeq(LAMBDA m, sum : m.work + sum, 0, got[r])
  IN  IF total = 0 THEN 0 ELSE total - 1

\* An ExitMsg ends the loop of every rank in the tick that processes it, and
\* shutdown meets the others at a barrier.
Run(r) ==
  /\ at[r] = "run"
  /\ Go(r, IF Exit \in Range(got[r]) THEN "barrier" ELSE "top")
  /\ work' = [work EXCEPT ![r] = WorkAfter(r)]
  /\ ticks' = [ticks EXCEPT ![r] = Append(@, got[r])]
  /\ got' = [got EXCEPT ![r] = <<>>]
  /\ UNCHANGED <<sent, inbox, published, counts, raws, left>>

Barrier ==
  /\ \A r \in Ranks : at[r] = "barrier"
  /\ at' = [r \in Ranks |-> "stopped"]
  /\ UNCHANGED <<sent, inbox, published, counts, raws, got, left, work, ticks>>

RankStep(r) == \/ Begin(r) \/ Get(r) \/ ReadCount(r) \/ Rest(r) \/ Run(r)
               \/ r = 0 /\ (Get0 \/ Drain0 \/ Rest0 \/ Barrier)

RankNext == Send \/ \E r \in Ranks : RankStep(r)

-----------------------------------------------------------------------------
(* Every rank processes the same messages in the same tick, though each
   decides for itself whether to block and messages keep arriving while rank 0
   drains: otherwise their batches, and the collectives in them, differ. *)
RanksAgree ==
  \A r \in Ranks, s \in Ranks :
    Len(ticks[r]) <= Len(ticks[s]) => IsPrefix(ticks[r], ticks[s])

(* A shutdown requested through the queue brings all ranks to the barrier:
   none is left waiting for a message or a broadcast. *)
AllStop == (sent = MaxMsgs + 1) ~> \A r \in Ranks : at[r] = "stopped"
=============================================================================
