------------------------------ MODULE Launcher ------------------------------
(***************************************************************************)
(* Bringing the service up: launch_server starts one scheduler process per *)
(* tensor-parallel rank, a detokenizer and the tokenizers, and serves only *)
(* when the primary rank and every worker have acknowledged.  The ranks    *)
(* meet in collectives while they construct: the process group, the free   *)
(* memory before and after the weights are loaded (which sizes the KV      *)
(* cache) and at the end, and the barrier of sync_all_ranks.               *)
(***************************************************************************)
EXTENDS Integers, FiniteSets, FiniteSetsExt

CONSTANTS
  Worlds,      \* bound: numbers of tensor-parallel ranks
  Tokenizers,  \* bound: values of --num-tokenizer, 0 to share the detokenizer
  Memories,    \* bound: free memory of a device
  Weights,     \* what a rank's share of the weights takes
  PageMemory,  \* cache_per_page
  Imbalance,   \* the difference between ranks that is tolerated
  Percent      \* memory_ratio, in percent

ASSUME LauncherAssumption ==
  /\ Worlds \subseteq Nat \ {0} /\ Tokenizers \subseteq Nat /\ Memories \subseteq Nat
  /\ Weights \in Nat /\ PageMemory \in Nat \ {0} /\ Imbalance \in Nat /\ Percent \in 0 .. 100

VARIABLES
  world, toks,  \* the configuration
  place,        \* where each process is
  joined,       \* collectives each rank has entered
  memory,       \* free memory of each rank
  offered,      \* the memory a rank contributed to each collective
  oldFree,      \* init_free_memory
  numPages,     \* 0 until determined
  sockets, acks, heard

launchVars == <<world, toks, place, joined, memory, offered, oldFree, numPages, sockets, acks, heard>>

TpRanks == 0 .. world - 1
Workers == 0 .. toks
Rank(r) == <<"rank", r>>
Worker(i) == <<"worker", i>>
Api == <<"api", 0>>
Processes == {Api} \union {Rank(r) : r \in TpRanks} \union {Worker(i) : i \in Workers}

Group == 1
BeforeLoad == 2
AfterLoad == 3
AtEnd == 4
AllRanks == 5

-----------------------------------------------------------------------------
(* The addresses and who binds them                                        *)

Share == toks = 0
TokenizerAddr == IF Share THEN "detokenizer" ELSE "tokenizer"
Socket(p, end, addr, bind) == [owner |-> p, end |-> end, addr |-> addr, bind |-> bind]

ApiSockets == {Socket(Api, "pull", "frontend", TRUE), Socket(Api, "push", TokenizerAddr, ~Share)}

\* The detokenizer is the worker of the highest number; create is tokenizer_create_addr.
WorkerSockets(i) ==
  {Socket(Worker(i), "push", "backend", FALSE), Socket(Worker(i), "push", "frontend", FALSE),
   Socket(Worker(i), "pull", IF i = toks THEN "detokenizer" ELSE "tokenizer", Share)}

RankSockets(r) ==
  (IF r = 0 THEN {Socket(Rank(0), "pull", "backend", TRUE),
                  Socket(Rank(0), "push", "detokenizer", ~Share)}
            ELSE {})
  \union (IF world > 1 THEN {Socket(Rank(r), IF r = 0 THEN "pub" ELSE "sub", "broadcast", r = 0)}
                       ELSE {})

-----------------------------------------------------------------------------
LaunchInit ==
  /\ world \in Worlds /\ toks \in Tokenizers
  /\ place = [p \in Processes |-> IF p = Api THEN "start" ELSE "unborn"]
  /\ joined = [r \in TpRanks |-> 0]
  /\ memory \in [TpRanks -> Memories]
  /\ offered = [r \in TpRanks |-> [k \in BeforeLoad .. AtEnd |-> 0]]
  /\ oldFree = [r \in TpRanks |-> 0] /\ numPages = [r \in TpRanks |-> 0]
  /\ sockets = {} /\ acks = 0 /\ heard = 0

To(p, where) == place' = [place EXCEPT ![p] = where]

\* run_api_server opens the queues of the frontend, then starts the backend.
StartSubprocess ==
  /\ place[Api] = "start"
  /\ sockets' = sockets \union ApiSockets
  /\ place' = [p \in Processes |-> IF p = Api THEN "acks" ELSE "begin"]
  /\ UNCHANGED <<world, toks, joined, memory, offered, oldFree, numPages, acks, heard>>

FaultyAcksExpected == toks + 1

\* One of the primary rank, one of each tokenizer, one of the detokenizer
AcksExpected == toks + 2

WaitForAcks ==
  /\ place[Api] = "acks"
  /\ IF heard = AcksExpected THEN To(Api, "serving") /\ UNCHANGED <<acks, heard>>
     ELSE acks > 0 /\ acks' = acks - 1 /\ heard' = heard + 1 /\ UNCHANGED place
  /\ UNCHANGED <<world, toks, joined, memory, offered, oldFree, numPages, sockets>>

\* tokenize_worker: the queues, then the tokenizer, then the acknowledgement
OpenWorker(i) ==
  /\ place[Worker(i)] = "begin"
  /\ sockets' = sockets \union WorkerSockets(i)
  /\ To(Worker(i), "loading")
  /\ UNCHANGED <<world, toks, joined, memory, offered, oldFree, numPages, acks, heard>>

WorkerReady(i) ==
  /\ place[Worker(i)] = "loading"
  /\ To(Worker(i), "ready") /\ acks' = acks + 1
  /\ UNCHANGED <<world, toks, joined, memory, offered, oldFree, numPages, sockets, heard>>

-----------------------------------------------------------------------------
(* The ranks                                                               *)

\* Enter the next collective.  The weights are loaded before the third, the
\* KV cache is allocated before the fourth and the queues are opened before
\* the last.
Enter(r) ==
  /\ place[Rank(r)] = "begin"
  /\ To(Rank(r), "in")
  /\ LET k == joined[r] + 1
         left == CASE k = AfterLoad -> memory[r] - Weights
                   [] k = AtEnd -> memory[r] - numPages[r] * PageMemory
                   [] OTHER -> memory[r]
     IN  /\ joined' = [joined EXCEPT ![r] = k]
         /\ memory' = [memory EXCEPT ![r] = left]
         /\ offered' = IF k \in BeforeLoad .. AtEnd THEN [offered EXCEPT ![r][k] = left] ELSE offered
         /\ sockets' = IF k = AllRanks THEN sockets \union RankSockets(r) ELSE sockets
  /\ UNCHANGED <<world, toks, oldFree, numPages, acks, heard>>

FaultyFreeMemory(r, k) ==
  [least |-> offered[r][k], most |-> offered[r][k]]

\* _sync_get_memory: the least and the most over the ranks
FreeMemory(r, k) ==
  [least |-> Min({offered[s][k] : s \in TpRanks}), most |-> Max({offered[s][k] : s \in TpRanks})]

\* _determine_num_pages
PagesFor(old, new) == ((Percent * old) \div 100 - (old - new)) \div PageMemory

\* Memory across TP ranks are imbalanced, or not enough of it for two pages
Refuses(r, k, found, pages) ==
  found.most - found.least > Imbalance \/ (k = AfterLoad /\ pages <= 1)

\* The collective has everyone: take its result and go on, or raise.
Leave(r) ==
  /\ place[Rank(r)] = "in" /\ \A s \in TpRanks : joined[s] >= joined[r]
  /\ LET k     == joined[r]
         found == FreeMemory(r, k)
         pages == PagesFor(oldFree[r], found.most)
     IN  IF k \in BeforeLoad .. AtEnd
         THEN /\ To(Rank(r), IF Refuses(r, k, found, pages) THEN "raised" ELSE "begin")
              /\ oldFree' = IF k = BeforeLoad THEN [oldFree EXCEPT ![r] = found.most] ELSE oldFree
              /\ numPages' = IF k = AfterLoad /\ pages > 1 THEN [numPages EXCEPT ![r] = pages]
                                                           ELSE numPages
         ELSE /\ To(Rank(r), IF k = AllRanks THEN "synced" ELSE "begin")
              /\ UNCHANGED <<oldFree, numPages>>
  /\ UNCHANGED <<world, toks, joined, memory, offered, sockets, acks, heard>>

\* _run_scheduler: the primary rank acknowledges, then the loop
RankReady(r) ==
  /\ place[Rank(r)] = "synced"
  /\ To(Rank(r), "ready")
  /\ acks' = IF r = 0 THEN acks + 1 ELSE acks
  /\ UNCHANGED <<world, toks, joined, memory, offered, oldFree, numPages, sockets, heard>>

\* A process may die while it constructs (a missing file, no memory).
Crash(p) ==
  /\ place[p] \in {"begin", "in", "loading"}
  /\ To(p, "crashed")
  /\ UNCHANGED <<world, toks, joined, memory, offered, oldFree, numPages, sockets, acks, heard>>

RankOwn(r) == Enter(r) \/ Leave(r) \/ RankReady(r)
WorkerOwn(i) == OpenWorker(i) \/ WorkerReady(i)
ApiOwn == StartSubprocess \/ WaitForAcks

LaunchNext ==
  \/ ApiOwn
  \/ \E i \in Workers : WorkerOwn(i)
  \/ \E r \in TpRanks : RankOwn(r)
  \/ \E p \in Processes : Crash(p)

-----------------------------------------------------------------------------
Serving == place[Api] = "serving"

(* The service takes requests only when every worker is in its loop and
   every rank, acknowledged or not, is past its construction, in the barrier
   at least: a crash of any of them leaves the launcher waiting instead. *)
ServingMeansReady ==
  Serving => /\ \A i \in Workers : place[Worker(i)] = "ready"
             /\ \A r \in TpRanks : joined[r] = AllRanks /\ place[Rank(r)] \in {"in", "synced", "ready", "crashed"}

(* No address is bound twice, and once the service is up every address has
   the process that binds it and one that reads it, whether the tokenizer
   has processes of its own or shares the detokenizer's. *)
Wired ==
  /\ \A s, t \in sockets : s.addr = t.addr /\ s.bind /\ t.bind => s = t
  /\ Serving => \A a \in {s.addr : s \in sockets} :
                  /\ \E s \in sockets : s.addr = a /\ s.bind
                  /\ \E s \in sockets : s.addr = a /\ s.end \in {"pull", "sub"}

(* Every rank sizes its KV cache alike, though their devices differ: the page
   numbers of one scheduler are those of all. *)
SameSize ==
  \A r, s \in TpRanks : numPages[r] /= 0 /\ numPages[s] /= 0 => numPages[r] = numPages[s]

(* The KV cache and its dummy page fit the device of every rank, also of the
   one with the least memory, while memory_ratio leaves out more than the
   imbalance and a page: the pages are counted from the most memory. *)
CacheFits ==
  \A r \in TpRanks :
    (100 - Percent) * oldFree[r] >= 100 * (Imbalance + PageMemory) /\ numPages[r] /= 0
      /\ joined[r] = AfterLoad => (numPages[r] + 1) * PageMemory <= memory[r]

(* Once the processes are started the service comes up, if nothing crashes,
   or the ranks refuse to. *)
ComesUp ==
  (place[Api] = "acks") ~> (Serving \/ \E p \in Processes : place[p] \in {"crashed", "raised"})

(* Ranks that refuse (imbalanced memory, too few pages) do so together: none
   is left in a collective that the others have abandoned. *)
RefuseTogether ==
  (\E r \in TpRanks : place[Rank(r)] = "raised")
    ~> (\A r \in TpRanks : place[Rank(r)] \in {"raised", "crashed"})

(* A service that is up is whole: every process is there and every queue has
   both its ends. *)
ServesWhole == ServingMeansReady /\ Wired

(* The ranks' KV caches are one size, and one that fits them all. *)
CacheAgreed == SameSize /\ CacheFits
=============================================================================
