--------------------------- MODULE RequestService ---------------------------
(***************************************************************************)
(* What the scheduler promises to the process that feeds it: a request is  *)
(* answered by at most out[u] tokens, the last of which is marked final,   *)
(* unless an abort cuts it short; from then on it is only acknowledged.    *)
(* Requests are answered in batches: one step may serve any of them.       *)
(***************************************************************************)
EXTENDS Integers, Sequences, FiniteSets

CONSTANTS Uids

VARIABLES
  arrived,  \* the requests made
  out,      \* the number of tokens each may get, 0 before it is made
  aborts,   \* abort messages received
  sent      \* the messages sent back, in order: "token", "final", "ack"

vars == <<arrived, out, aborts, sent>>

Init ==
  /\ arrived = {}
  /\ out = [u \in Uids |-> 0]
  /\ aborts = [u \in Uids |-> 0]
  /\ sent = [u \in Uids |-> <<>>]

\* A request that gets no room for a token is dropped: out stays 0.
Ask(u) ==
  /\ u \notin arrived
  /\ arrived' = arrived \union {u}
  /\ out'[u] \in Nat /\ out' = [out EXCEPT ![u] = out'[u]]
  /\ UNCHANGED <<aborts, sent>>

Abort(u) ==
  /\ u \in arrived
  /\ aborts' = [aborts EXCEPT ![u] = @ + 1]
  /\ UNCHANGED <<arrived, out, sent>>

\* Not aborted, and every message so far was a token that is not the last
Open(u) == aborts[u] = 0 /\ \A i \in DOMAIN sent[u] : sent[u][i] = "token"

\* One more token for u: the last if it reaches out[u], else the last or not
Answers(u) ==
  CASE ~Open(u) \/ Len(sent[u]) >= out[u] -> {<<>>}
    [] Open(u) /\ Len(sent[u]) + 1 = out[u] -> {<<>>, <<"final">>}
    [] OTHER -> {<<>>, <<"token">>, <<"final">>}

Serve ==
  /\ \A u \in Uids : \E a \in Answers(u) : sent'[u] = sent[u] \o a
  /\ DOMAIN sent' = Uids
  /\ UNCHANGED <<arrived, out, aborts>>

Acks(u) == Cardinality({i \in DOMAIN sent[u] : sent[u][i] = "ack"})

\* Acknowledgements, at most one for each abort message
Acknowledge ==
  /\ \A u \in Uids :
       LET n == Len(sent'[u]) - Len(sent[u])
       IN  /\ n >= 0 /\ Acks(u) + n <= aborts[u]
           /\ sent'[u] = sent[u] \o [i \in 1 .. n |-> "ack"]
  /\ DOMAIN sent' = Uids
  /\ UNCHANGED <<arrived, out, aborts>>

Next == (\E u \in Uids : Ask(u) \/ Abort(u)) \/ Serve \/ Acknowledge

Spec == Init /\ [][Next]_vars
=============================================================================
