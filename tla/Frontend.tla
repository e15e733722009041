------------------------------ MODULE Frontend ------------------------------
(***************************************************************************)
(* The path of a request outside the scheduler: the asyncio tasks of the   *)
(* API server (FrontendManager and its endpoints), the tokenizer and the   *)
(* detokenizer processes, and the queues between them:                     *)
(*                                                                         *)
(*   handler --toTok[i]--> tokenizer i --toSched--> scheduler              *)
(*      ^                                               |                  *)
(*   listen <--toFront-- detokenizer <----toDetok-------+                  *)
(*                                                                         *)
(* Queues are FIFO; the push socket deals messages out to the tokenizers.  *)
(* A task runs alone between two awaits, so each piece of code between     *)
(* awaits is one step.  With no separate tokenizer one worker serves both  *)
(* ends of toTok and toDetok, one message a time: the same steps.          *)
(* The scheduler is reduced to what reaches these processes: Scheduler.tla *)
(* models it.  A Faulty... definition is a plausible defect of the next.   *)
(***************************************************************************)
EXTENDS Integers, Sequences, FiniteSets, SequencesExt

CONSTANTS
  Uids,           \* the uids new_user hands out
  NumTokenizers,  \* bound: tokenizer processes
  MaxOut,         \* bound: tokens each request may get
  Endpoints       \* bound: the endpoints each request may come from

ASSUME FrontendAssumption ==
  /\ IsFiniteSet(Uids) /\ NumTokenizers \in Nat \ {0} /\ MaxOut \in [Uids -> Nat \ {0}]
  /\ Endpoints \in [Uids -> SUBSET {"stream", "collect", "shell"}]

VARIABLES
  tokenizers,    \* the tokenizer processes of this launch
  \* FrontendManager.  ackMap is a function whose domain is the uids it holds;
  \* isSet is the flag of each uid's Event, which outlives its eventMap entry.
  ackMap, eventMap, isSet, abortPending, abortEvents,
  \* Each request's task: which endpoint it is, where it waits, the replies
  \* wait_for_ack has still to yield, and what reached the client.
  kind, task, batch, delivered,
  gone,          \* clients that left: disconnected, or pressed Ctrl-C
  aborter,       \* abort_user tasks created that have not run yet
  acked,         \* requests whose AbortAckReply was handled
  toTok, toSched, toDetok, toFront,   \* the queues
  decodeMap,     \* DetokenizeManager.decode_map
  \* The scheduler: tokens still to make, replies made, requests that are in
  \* a second batch when they finish, and prompts it dropped.
  left, made, trailing, dropped

front == <<ackMap, eventMap, isSet, abortPending, abortEvents>>
tasks == <<kind, task, batch, delivered, gone, aborter>>
sched == <<left, made, trailing, dropped>>
vars == <<tokenizers, front, tasks, acked, toTok, toSched, toDetok, toFront, decodeMap, sched>>

-----------------------------------------------------------------------------
Msg(type, u) == [type |-> type, uid |-> u, n |-> 0, finished |-> FALSE]
Reply(u, n, finished) == [type |-> "reply", uid |-> u, n |-> n, finished |-> finished]

\* The endpoints: a streaming response, a collected one, the shell
Kinds == {"stream", "collect", "shell"}

Init ==
  /\ tokenizers \in {1 .. n : n \in 1 .. NumTokenizers}
  /\ ackMap = <<>> /\ eventMap = {} /\ isSet = [u \in Uids |-> FALSE]
  /\ abortPending = {} /\ abortEvents = {}
  /\ kind \in {k \in [Uids -> Kinds] : \A u \in Uids : k[u] \in Endpoints[u]}
  /\ task = [u \in Uids |-> "none"]
  /\ batch = [u \in Uids |-> <<>>] /\ delivered = [u \in Uids |-> <<>>]
  /\ gone = {} /\ aborter = {} /\ acked = {}
  /\ toTok = [i \in tokenizers |-> <<>>] /\ toSched = <<>> /\ toDetok = <<>> /\ toFront = <<>>
  /\ decodeMap = {}
  /\ left = [u \in Uids |-> 0] /\ made = [u \in Uids |-> 0] /\ trailing = {} /\ dropped = {}

Drop(f, u) == [v \in DOMAIN f \ {u} |-> f[v]]
Put(f, u, x) == [v \in DOMAIN f \union {u} |-> IF v = u THEN x ELSE f[v]]

\* send_one: the message goes to one of the tokenizers
SendOne(m) == \E i \in tokenizers : toTok' = [toTok EXCEPT ![i] = Append(@, m)]

-----------------------------------------------------------------------------
(* The request's task                                                      *)

\* new_user and the TokenizeMsg; wait_for_ack then waits on the event.
Request(u) ==
  /\ task[u] = "none"
  /\ ackMap' = Put(ackMap, u, <<>>) /\ eventMap' = eventMap \union {u}
  /\ SendOne(Msg("tokenize", u))
  /\ task' = [task EXCEPT ![u] = "waiting"]
  /\ UNCHANGED <<tokenizers, isSet, abortPending, abortEvents, kind, batch, delivered, gone,
                 aborter, acked, toSched, toDetok, toFront, decodeMap, sched>>

\* wait_for_ack after event.wait(): take the replies there are and put an
\* empty list in their place, or return if listen has removed the request
\* (no endpoint calls abort_user while its task still waits).
Wake(u) ==
  /\ task[u] = "waiting" /\ isSet[u]
  /\ isSet' = [isSet EXCEPT ![u] = FALSE]
  /\ IF u \in DOMAIN ackMap
     THEN /\ batch' = [batch EXCEPT ![u] = ackMap[u]]
          /\ ackMap' = [ackMap EXCEPT ![u] = <<>>]
          /\ task' = [task EXCEPT ![u] = "yielding"]
     ELSE /\ task' = [task EXCEPT ![u] = "closing"]
          /\ UNCHANGED <<batch, ackMap>>
  /\ UNCHANGED <<tokenizers, eventMap, abortPending, abortEvents, kind, delivered, gone,
                 aborter, acked, toTok, toSched, toDetok, toFront, decodeMap, sched>>

\* stream_with_cancellation looks for a disconnected client after each chunk;
\* CancelledError creates the abort_user task.
Cancelled(u) ==
  /\ task' = [task EXCEPT ![u] = "cancelled"]
  /\ batch' = [batch EXCEPT ![u] = <<>>]
  /\ aborter' = aborter \union {u}
  /\ UNCHANGED delivered

FaultyDeliver(u) ==
  /\ delivered' = [delivered EXCEPT ![u] = Append(@, Head(batch[u]))]
  /\ batch' = [batch EXCEPT ![u] = Tail(@)]
  /\ task' = [task EXCEPT ![u] = IF Len(batch[u]) > 1 THEN "yielding"
                                 ELSE IF Head(batch[u]).finished THEN "closing" ELSE "waiting"]
  /\ UNCHANGED aborter

\* The consumer of wait_for_ack hands on one reply, and breaks out of the
\* loop at a finished one, whatever the generator had still to yield.
Deliver(u) ==
  /\ delivered' = [delivered EXCEPT ![u] = Append(@, Head(batch[u]))]
  /\ batch' = [batch EXCEPT ![u] = IF Head(@).finished THEN <<>> ELSE Tail(@)]
  /\ task' = [task EXCEPT ![u] = IF Head(batch[u]).finished THEN "closing"
                                 ELSE IF Len(batch[u]) > 1 THEN "yielding" ELSE "waiting"]
  /\ UNCHANGED aborter

Yield(u) ==
  /\ task[u] = "yielding"
  /\ IF u \in gone /\ kind[u] = "stream" THEN Cancelled(u) ELSE Deliver(u)
  /\ UNCHANGED <<tokenizers, front, kind, gone, acked, toTok, toSched, toDetok, toFront,
                 decodeMap, sched>>

\* The [DONE] chunk, or the collected answer, ends the request.
Close(u) ==
  /\ task[u] = "closing"
  /\ IF u \in gone /\ kind[u] = "stream" THEN Cancelled(u)
     ELSE /\ task' = [task EXCEPT ![u] = "done"]
          /\ UNCHANGED <<batch, delivered, aborter>>
  /\ UNCHANGED <<tokenizers, front, kind, gone, acked, toTok, toSched, toDetok, toFront,
                 decodeMap, sched>>

\* Nothing would notice that the client of a collected answer left.
Leave(u) ==
  /\ task[u] \in {"waiting", "yielding", "closing"} /\ u \notin gone /\ kind[u] /= "collect"
  /\ gone' = gone \union {u}
  /\ UNCHANGED <<tokenizers, front, kind, task, batch, delivered, aborter, acked, toTok, toSched,
                 toDetok, toFront, decodeMap, sched>>

\* The server library cancels a streaming response whose client left, and
\* Ctrl-C the shell's.
Cancel(u) ==
  /\ task[u] \in {"waiting", "yielding", "closing"} /\ u \in gone
  /\ Cancelled(u)
  /\ UNCHANGED <<tokenizers, front, kind, gone, acked, toTok, toSched, toDetok, toFront,
                 decodeMap, sched>>

\* abort_user: pending before the message is sent.  The shell goes on to
\* wait_for_abort_ack.
AbortUser(u) ==
  /\ u \in aborter
  /\ aborter' = aborter \ {u}
  /\ abortPending' = abortPending \union {u} /\ abortEvents' = abortEvents \union {u}
  /\ SendOne(Msg("abort", u))
  /\ task' = [task EXCEPT ![u] = IF kind[u] = "shell" THEN "ackwait" ELSE "cancelled"]
  /\ UNCHANGED <<tokenizers, ackMap, eventMap, isSet, kind, batch, delivered, gone, acked,
                 toSched, toDetok, toFront, decodeMap, sched>>

\* wait_for_abort_ack returns: the event was set, and removed, by listen.
WaitForAbortAck(u) ==
  /\ task[u] = "ackwait" /\ u \notin abortEvents
  /\ task' = [task EXCEPT ![u] = "cancelled"]
  /\ UNCHANGED <<tokenizers, front, kind, batch, delivered, gone, aborter, acked, toTok, toSched,
                 toDetok, toFront, decodeMap, sched>>

-----------------------------------------------------------------------------
(* listen                                                                  *)

\* AbortAckReply: the request leaves all four maps and its waiters wake.
AbortAck(u) ==
  /\ abortPending' = abortPending \ {u}
  /\ ackMap' = Drop(ackMap, u) /\ eventMap' = eventMap \ {u}
  /\ isSet' = [isSet EXCEPT ![u] = @ \/ u \in eventMap]
  /\ abortEvents' = abortEvents \ {u}
  /\ acked' = acked \union {u}

FaultyUserReply(m) ==
  /\ IF m.uid \notin abortPending
     THEN /\ ackMap' = Put(ackMap, m.uid, <<m>>)
          /\ isSet' = [isSet EXCEPT ![m.uid] = TRUE]
     ELSE UNCHANGED <<ackMap, isSet>>
  /\ UNCHANGED <<eventMap, abortPending, abortEvents, acked>>

\* UserReply: dropped for an unknown or an abort-pending request.
UserReply(m) ==
  /\ IF m.uid \in DOMAIN ackMap /\ m.uid \notin abortPending
     THEN /\ ackMap' = [ackMap EXCEPT ![m.uid] = Append(@, m)]
          /\ isSet' = [isSet EXCEPT ![m.uid] = TRUE]
     ELSE UNCHANGED <<ackMap, isSet>>
  /\ UNCHANGED <<eventMap, abortPending, abortEvents, acked>>

Listen ==
  /\ toFront /= <<>>
  /\ toFront' = Tail(toFront)
  /\ IF Head(toFront).type = "ack" THEN AbortAck(Head(toFront).uid) ELSE UserReply(Head(toFront))
  /\ UNCHANGED <<tokenizers, tasks, toTok, toSched, toDetok, decodeMap, sched>>

-----------------------------------------------------------------------------
(* The tokenizer and detokenizer processes: one message per iteration.     *)

FaultyTokenize(i) ==
  /\ toTok[i] /= <<>>
  /\ toTok' = [toTok EXCEPT ![i] = Tail(@)]
  /\ toSched' = IF Head(toTok[i]).type = "abort" THEN <<Head(toTok[i])>> \o toSched
                                                ELSE Append(toSched, Head(toTok[i]))
  /\ UNCHANGED <<tokenizers, front, tasks, acked, toDetok, toFront, decodeMap, sched>>

Tokenize(i) ==
  /\ toTok[i] /= <<>>
  /\ toTok' = [toTok EXCEPT ![i] = Tail(@)]
  /\ toSched' = Append(toSched, Head(toTok[i]))
  /\ UNCHANGED <<tokenizers, front, tasks, acked, toDetok, toFront, decodeMap, sched>>

FaultyDecoded(m) == decodeMap \union {m.uid}

\* DetokenizeManager.detokenize: an entry for each uid met, until it finishes
Decoded(m) == IF m.finished THEN decodeMap \ {m.uid} ELSE decodeMap \union {m.uid}

Detokenize ==
  /\ toDetok /= <<>>
  /\ toDetok' = Tail(toDetok)
  /\ toFront' = Append(toFront, Head(toDetok))
  /\ decodeMap' = IF Head(toDetok).type = "ack" THEN decodeMap ELSE Decoded(Head(toDetok))
  /\ UNCHANGED <<tokenizers, front, tasks, acked, toTok, toSched, sched>>

-----------------------------------------------------------------------------
(* The scheduler                                                           *)

\* UserMsg: queued, or dropped without a reply when the prompt is too long
SchedUser(u) ==
  /\ \/ \E n \in 1 .. MaxOut[u] : left' = [left EXCEPT ![u] = n] /\ UNCHANGED dropped
     \/ dropped' = dropped \union {u} /\ UNCHANGED left
  /\ UNCHANGED <<trailing, toDetok>>

FaultySchedAbort(u) ==
  /\ left' = [left EXCEPT ![u] = 0] /\ trailing' = trailing \ {u}
  /\ toDetok' = IF left[u] = 0 THEN toDetok ELSE Append(toDetok, Msg("ack", u))
  /\ UNCHANGED dropped

\* AbortBackendMsg: whatever it has of the request goes, and the ack follows
\* every reply already sent.
SchedAbort(u) ==
  /\ left' = [left EXCEPT ![u] = 0] /\ trailing' = trailing \ {u}
  /\ toDetok' = Append(toDetok, Msg("ack", u))
  /\ UNCHANGED dropped

SchedReceive ==
  /\ toSched /= <<>>
  /\ toSched' = Tail(toSched)
  /\ IF Head(toSched).type = "abort" THEN SchedAbort(Head(toSched).uid)
                                     ELSE SchedUser(Head(toSched).uid)
  /\ UNCHANGED <<tokenizers, front, tasks, acked, toTok, toFront, decodeMap, made>>

\* One more token.  The last one leaves the request in the batch in flight,
\* if overlap_loop has launched one with it.
SchedToken(u) ==
  /\ left[u] > 0
  /\ made' = [made EXCEPT ![u] = @ + 1]
  /\ \E stops \in {b \in BOOLEAN : left[u] = 1 => b} :
       /\ left' = [left EXCEPT ![u] = IF stops THEN 0 ELSE @ - 1]
       /\ toDetok' = Append(toDetok, Reply(u, made'[u], stops))
       /\ trailing' \in {trailing} \union (IF stops THEN {trailing \union {u}} ELSE {})
  /\ UNCHANGED <<tokenizers, front, tasks, acked, toTok, toSched, toFront, decodeMap, dropped>>

\* The token of that batch, marked finished if it stops the request again
SchedTrailing(u) ==
  /\ u \in trailing
  /\ trailing' = trailing \ {u}
  /\ made' = [made EXCEPT ![u] = @ + 1]
  /\ \E stops \in BOOLEAN : toDetok' = Append(toDetok, Reply(u, made'[u], stops))
  /\ UNCHANGED <<tokenizers, front, tasks, acked, toTok, toSched, toFront, decodeMap, left, dropped>>

-----------------------------------------------------------------------------
TaskStep(u) == Wake(u) \/ Yield(u) \/ Close(u) \/ Cancel(u) \/ AbortUser(u) \/ WaitForAbortAck(u)

SchedStep == SchedReceive \/ \E u \in Uids : SchedToken(u) \/ SchedTrailing(u)

Next ==
  \/ \E u \in Uids : Request(u) \/ Leave(u) \/ TaskStep(u)
  \/ Listen \/ Detokenize \/ SchedStep
  \/ \E i \in tokenizers : Tokenize(i)

Spec == Init /\ [][Next]_vars

\* Every task that can run and every process with a message runs; clients
\* need neither make requests nor leave.
FairSpec ==
  /\ Spec
  /\ WF_vars(Listen) /\ WF_vars(Detokenize) /\ WF_vars(SchedStep)
  /\ \A u \in Uids : WF_vars(TaskStep(u))
  /\ \A i \in 1 .. NumTokenizers : WF_vars(i \in tokenizers /\ Tokenize(i))

-----------------------------------------------------------------------------
Over(u) == task[u] \in {"done", "cancelled"}

\* Nothing about u is on its way anywhere.
InQueue(q, u) == \E i \in DOMAIN q : q[i].uid = u
Quiet(u) ==
  /\ Over(u) /\ u \notin aborter
  /\ ~ \E i \in tokenizers : InQueue(toTok[i], u)
  /\ ~InQueue(toSched, u) /\ ~InQueue(toDetok, u) /\ ~InQueue(toFront, u)
  /\ left[u] = 0 /\ u \notin trailing

(* A client gets the tokens of its request in the order they were sampled,
   without a gap, and nothing after the final one, though the scheduler may
   send one more, through three queues and two event handlers. *)
InOrder ==
  \A u \in Uids : \A i \in DOMAIN delivered[u] :
    /\ delivered[u][i].n = i
    /\ delivered[u][i].finished => i = Len(delivered[u])

(* The "four-bucket cleanup" wait_for_abort_ack waits for is for good: once
   the acknowledgement was handled no task brings the request back into a
   map, so the shell may go on to its next prompt. *)
Purged ==
  \A u \in acked : u \notin DOMAIN ackMap \union eventMap \union abortPending \union abortEvents

(* What the frontend keeps of a request once all is quiet: nothing if its
   abort was acknowledged, and its entries in ack_map and event_map for ever
   if it finished, because the consumers break out of wait_for_ack before its
   cleanup runs. *)
FrontendLeak ==
  \A u \in Uids : Quiet(u) =>
    /\ u \notin abortPending \union abortEvents
    /\ (u \in DOMAIN ackMap) = (u \notin acked) /\ (u \in eventMap) = (u \notin acked)

(* What the detokenizer keeps of a request once all is quiet: an entry only
   if it was aborted before its final token or a token followed that one. *)
DecodeLeak ==
  \A u \in decodeMap : Quiet(u) =>
    u \in acked \/ \E i \in DOMAIN delivered[u] : delivered[u][i].finished /\ made[u] > i

(* With one tokenizer the acknowledgement of an abort means that the
   scheduler is done with the request.  With more, the AbortMsg may overtake
   the TokenizeMsg, and a request whose client left is served to the end. *)
AckIsFinal ==
  Cardinality(tokenizers) = 1 => \A u \in acked : left[u] = 0 /\ ~InQueue(toSched, u)

(* Every request ends, if only because its client leaves: the only one that
   may wait for ever is one the scheduler has dropped, which gets no reply. *)
Ends == \A u \in Uids : (task[u] = "waiting") ~> (Over(u) \/ u \in dropped)

(* Every abort is acknowledged, and the shell gets its prompt back. *)
AbortEnds ==
  \A u \in Uids : (u \in aborter) ~> (u \in acked /\ task[u] = "cancelled")

(* What the maps keep of a request afterwards is named exactly, on both sides
   of the queues. *)
Leftovers == FrontendLeak /\ DecodeLeak

(* Whether the client stays or leaves at any await, its request comes to an
   end and so does the wait for its acknowledgement. *)
EveryoneEnds == Ends /\ AbortEnds
=============================================================================
