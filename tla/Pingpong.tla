------------------------------ MODULE Pingpong ------------------------------
(***************************************************************************)
(* The test loop of rdm_pingpong.c.  Two ranks; for every message size     *)
(* main creates worker threads, and each worker of rank 0 and its peer on  *)
(* rank 1 send one message to and fro.  Built with THREAD_SYNC, the        *)
(* workers of a rank also start and end together.                          *)
(*                                                                         *)
(* Endpoints are libfabric's: an operation completes some time after it    *)
(* was posted, in the order of posting on one endpoint.  A receive may     *)
(* complete with an error, MaxErrors times, and a message may be lost,     *)
(* MaxLost times.  ctpm_Barrier is used through what module Barrier        *)
(* promises and PmiColl shows.                                             *)
(***************************************************************************)
EXTENDS Integers, FiniteSets

CONSTANTS
  Threads, Zero,                  \* the workers of a rank (-t); the one with thread_id 0
  Builds,                         \* whether THREAD_SYNC is defined
  Sizes, SmallSizes,              \* bound: message sizes; those before loop_large
  Loop, Skip, LoopLarge, SkipLarge,
  MaxErrors, MaxLost,             \* bounds: failing receives, lost messages
  MaxNoThread                     \* bound: calls of pthread_create that fail

ASSUME ThreadsAssumption == IsFiniteSet(Threads) /\ Zero \in Threads /\ Builds \subseteq BOOLEAN
ASSUME TunablesAssumption ==
  /\ Sizes \in Nat \ {0} /\ {SmallSizes, MaxErrors, MaxLost, MaxNoThread} \subseteq Nat
  /\ {Loop, Skip, LoopLarge, SkipLarge} \subseteq Nat \ {0}

Ranks == {0, 1}
Workers == Ranks \X Threads
Peer(w) == <<1 - w[1], w[2]>>
Team(r) == {r} \X Threads

VARIABLES
  mpc, size, calls,   \* main: its place, its size, the ctpm_Barrier calls it made
  thread_sync,        \* whether the program was built with THREAD_SYNC
  pc, i,              \* a worker: its place, its loop index
  waits,              \* a worker's calls of pthread_barrier_wait
  sends, scq,         \* sends not yet complete; entries of ptd->scq
  net, posted, rcq,   \* messages under way, receives posted, entries of ptd->rcq
  rounds, arrived,    \* history: waits for a receive that ended; messages taken
  errors, lost        \* history: failed receives, lost messages

mainVars == <<mpc, size, calls>>
epVars == <<sends, scq, net, posted, rcq, rounds, arrived, errors, lost>>
workVars == <<thread_sync, pc, i, waits>>
vars == <<mainVars, workVars, epVars>>

(* loop + skip for the size main is at                                     *)
LastAt(n) == IF n > SmallSizes THEN LoopLarge + SkipLarge ELSE Loop + Skip

TypeOK ==
  /\ mpc \in [Ranks -> {"enter", "create", "join", "leave", "final", "fini", "done", "gone"}]
  /\ size \in [Ranks -> 1 .. Sizes + 1]
  /\ calls \in [Ranks -> 1 .. 4 * Sizes + 2]
  /\ pc \in [Workers -> {"none", "sync", "ctpm", "barr", "send", "waits", "recv", "waitr", "ret"}]
  /\ \A w \in Workers : i[w] \in 0 .. LastAt(size[w[1]])
  /\ \A w \in Workers : {sends[w], scq[w], net[w], posted[w], rcq[w], rounds[w], arrived[w]} \subseteq Nat
  /\ thread_sync \in Builds /\ waits \in [Workers -> 0 .. 2 * Sizes]
  /\ errors \in 0 .. MaxErrors /\ lost \in 0 .. MaxLost

(* main has touched the buffers and entered its first ctpm_Barrier         *)
Init ==
  /\ mpc = [r \in Ranks |-> "enter"]
  /\ size = [r \in Ranks |-> 1]
  /\ calls = [r \in Ranks |-> 1]
  /\ pc = [w \in Workers |-> "none"]
  /\ i = [w \in Workers |-> 0]
  /\ sends = i /\ scq = i /\ net = i /\ posted = i /\ rcq = i
  /\ rounds = i /\ arrived = i /\ waits = i
  /\ thread_sync \in Builds
  /\ errors = 0 /\ lost = 0

Add(f, x, n) == [f EXCEPT ![x] = @ + n]
MGoto(r, label) == mpc' = [mpc EXCEPT ![r] = label]
Goto(w, label) == pc' = [pc EXCEPT ![w] = label]

(* All ranks have entered the barrier r is in                              *)
AllCalled(r) == \A q \in Ranks : calls[q] >= calls[r]

LeaveFirst(r) ==
  /\ mpc[r] = "enter" /\ AllCalled(r)
  /\ MGoto(r, "create")
  /\ UNCHANGED <<size, calls, workVars, epVars>>

(* Rank 0 begins with a send.                                              *)
Begin(w) == IF w[1] = 0 THEN "send" ELSE "recv"

(* pthread_create of one worker                                            *)
Create(r) ==
  /\ mpc[r] = "create"
  /\ \E w \in Team(r) :
       /\ pc[w] = "none" /\ (w[2] = Zero \/ pc[<<r, Zero>>] # "none")
       /\ Goto(w, IF thread_sync THEN "sync" ELSE Begin(w))
       /\ i' = [i EXCEPT ![w] = 0]
       /\ MGoto(r, IF \A v \in Team(r) \ {w} : pc[v] # "none" THEN "join" ELSE "create")
  /\ UNCHANGED <<size, calls, thread_sync, waits, epVars>>

(* pthread_create fails: main ends its own thread, and the workers it has  *)
(* created so far go on without it.                                        *)
CreateFails(r) ==
  /\ mpc[r] = "create"
  /\ Cardinality({q \in Ranks : mpc[q] = "gone"}) < MaxNoThread
  /\ MGoto(r, "gone")
  /\ UNCHANGED <<size, calls, workVars, epVars>>

(* pthread_join of all workers, then ctpm_Barrier                          *)
Join(r) ==
  /\ mpc[r] = "join" /\ \A w \in Team(r) : pc[w] = "ret"
  /\ pc' = [w \in Workers |-> IF w \in Team(r) THEN "none" ELSE pc[w]]
  /\ calls' = Add(calls, r, 1)
  /\ MGoto(r, "leave")
  /\ UNCHANGED <<size, thread_sync, i, waits, epVars>>

(* Rank 0 prints; both go on to the next size, or to the final barrier     *)
LeaveSecond(r) ==
  /\ mpc[r] = "leave" /\ AllCalled(r)
  /\ calls' = Add(calls, r, 1)
  /\ size' = Add(size, r, 1)
  /\ MGoto(r, IF size[r] < Sizes THEN "enter" ELSE "final")
  /\ i' = [w \in Workers |-> IF w \in Team(r) THEN 0 ELSE i[w]]
  /\ UNCHANGED <<thread_sync, pc, waits, epVars>>

(* The endpoints, the domain and the fabric are closed; one more barrier   *)
Fini(r) ==
  /\ mpc[r] = "final" /\ AllCalled(r)
  /\ calls' = Add(calls, r, 1)
  /\ MGoto(r, "fini")
  /\ UNCHANGED <<size, workVars, epVars>>

Exit(r) ==
  /\ mpc[r] = "fini" /\ AllCalled(r)
  /\ MGoto(r, "done")
  /\ UNCHANGED <<size, calls, workVars, epVars>>

-----------------------------------------------------------------------------
(* thread_fn                                                               *)

(* THREAD_SYNC, before and after the loop: thread 0 calls ctpm_Barrier,    *)
(* then all of the rank pthread_barrier_wait.                              *)
EnterSync(w) ==
  /\ pc[w] = "sync"
  /\ IF w[2] = Zero
       THEN calls' = Add(calls, w[1], 1) /\ Goto(w, "ctpm") /\ UNCHANGED waits
       ELSE waits' = Add(waits, w, 1) /\ Goto(w, "barr") /\ UNCHANGED calls
  /\ UNCHANGED <<mpc, size, thread_sync, i, epVars>>

LeaveCtpm(w) ==
  /\ pc[w] = "ctpm" /\ AllCalled(w[1])
  /\ waits' = Add(waits, w, 1)
  /\ Goto(w, "barr")
  /\ UNCHANGED <<mainVars, thread_sync, i, epVars>>

LeaveSync(w) ==
  /\ pc[w] = "barr" /\ \A v \in Team(w[1]) : waits[v] >= waits[w]
  /\ Goto(w, IF i[w] = 0 THEN Begin(w) ELSE "ret")
  /\ UNCHANGED <<mainVars, thread_sync, i, waits, epVars>>

(* fi_tsend                                                                *)
Send(w) ==
  /\ pc[w] = "send"
  /\ sends' = Add(sends, w, 1)
  /\ net' = Add(net, Peer(w), 1)
  /\ Goto(w, "waits")
  /\ UNCHANGED <<mainVars, thread_sync, i, waits, scq, posted, rcq, rounds, arrived, errors, lost>>

(* fi_trecv                                                                *)
Recv(w) ==
  /\ pc[w] = "recv"
  /\ posted' = Add(posted, w, 1)
  /\ Goto(w, "waitr")
  /\ UNCHANGED <<mainVars, thread_sync, i, waits, sends, scq, net, rcq, rounds, arrived, errors, lost>>

(* Faulty variant: rank 1 stops before its last answer                     *)
NextRoundOneLess(w, label) ==
  /\ i' = Add(i, w, 1)
  /\ Goto(w, IF i[w] + 1 + w[1] < LastAt(size[w[1]]) THEN label ELSE IF thread_sync THEN "sync" ELSE "ret")

(* The end of a round                                                      *)
NextRound(w, label) ==
  /\ i' = Add(i, w, 1)
  /\ Goto(w, IF i[w] + 1 < LastAt(size[w[1]]) THEN label ELSE IF thread_sync THEN "sync" ELSE "ret")

(* wait_for_comp(ptd->scq, 1).  Error or not, the entry is consumed and    *)
(* the worker goes on.                                                     *)
WaitSend(w) ==
  /\ pc[w] = "waits" /\ scq[w] > 0
  /\ scq' = Add(scq, w, -1)
  /\ IF w[1] = 0 THEN Goto(w, "recv") /\ UNCHANGED i ELSE NextRound(w, "recv")
  /\ UNCHANGED <<mainVars, thread_sync, waits, sends, net, posted, rcq, rounds, arrived, errors, lost>>

(* Faulty variant: an error entry is not read, and stays                   *)
WaitRecvKeep(w) ==
  /\ pc[w] = "waitr" /\ rcq[w] > 0
  /\ rcq' = Add(rcq, w, IF errors > 0 THEN 0 ELSE -1)
  /\ rounds' = Add(rounds, w, 1)
  /\ IF w[1] = 1 THEN Goto(w, "send") /\ UNCHANGED i ELSE NextRound(w, "send")
  /\ UNCHANGED <<mainVars, thread_sync, waits, sends, scq, net, posted, arrived, errors, lost>>

(* wait_for_comp(ptd->rcq, 1)                                              *)
WaitRecv(w) ==
  /\ pc[w] = "waitr" /\ rcq[w] > 0
  /\ rcq' = Add(rcq, w, -1)
  /\ rounds' = Add(rounds, w, 1)
  /\ IF w[1] = 1 THEN Goto(w, "send") /\ UNCHANGED i ELSE NextRound(w, "send")
  /\ UNCHANGED <<mainVars, thread_sync, waits, sends, scq, net, posted, arrived, errors, lost>>

-----------------------------------------------------------------------------
(* libfabric                                                               *)

(* The message may have come before its sender is told.                    *)
SendDone(w) ==
  /\ sends[w] > 0
  /\ sends' = Add(sends, w, -1)
  /\ scq' = Add(scq, w, 1)
  /\ UNCHANGED <<mainVars, workVars, net, posted, rcq, rounds, arrived, errors, lost>>

Lose(w) ==
  /\ net[w] > 0 /\ lost < MaxLost
  /\ net' = Add(net, w, -1)
  /\ lost' = lost + 1
  /\ UNCHANGED <<mainVars, workVars, sends, scq, posted, rcq, rounds, arrived, errors>>

RecvDone(w) ==
  /\ net[w] > 0 /\ posted[w] > 0
  /\ net' = Add(net, w, -1)
  /\ posted' = Add(posted, w, -1)
  /\ rcq' = Add(rcq, w, 1)
  /\ arrived' = Add(arrived, w, 1)
  /\ \/ UNCHANGED errors
     \/ errors < MaxErrors /\ errors' = errors + 1
  /\ UNCHANGED <<mainVars, workVars, sends, scq, rounds, lost>>

MainStep(r) == LeaveFirst(r) \/ Create(r) \/ Join(r) \/ LeaveSecond(r) \/ Fini(r) \/ Exit(r)
WorkerStep(w) ==
  \/ EnterSync(w) \/ LeaveCtpm(w) \/ LeaveSync(w)
  \/ Send(w) \/ Recv(w) \/ WaitSend(w) \/ WaitRecv(w)
FabricStep(w) == SendDone(w) \/ RecvDone(w)

Next ==
  \/ \E r \in Ranks : MainStep(r) \/ CreateFails(r)
  \/ \E w \in Workers : WorkerStep(w) \/ FabricStep(w) \/ Lose(w)

(* Threads keep running and libfabric makes progress.                      *)
Fairness ==
  /\ \A r \in Ranks : WF_vars(MainStep(r))
  /\ \A w \in Workers : WF_vars(WorkerStep(w)) /\ WF_vars(FabricStep(w))

Spec == Init /\ [][Next]_vars /\ Fairness

-----------------------------------------------------------------------------
(* Every wait consumes the completion of the operation posted before it,   *)
(* although its result is ignored: with or without errors a worker has     *)
(* one operation outstanding while it waits, and none otherwise.           *)
OneOutstanding ==
  \A w \in Workers :
    /\ sends[w] + scq[w] = IF pc[w] = "waits" THEN 1 ELSE 0
    /\ posted[w] + rcq[w] = IF pc[w] = "waitr" THEN 1 ELSE 0

(* The latency is that of real round trips: a worker never ends a round,   *)
(* or answers, before the message it waited for has come.                  *)
RoundTripsReal ==
  \A w \in Workers : rounds[w] <= arrived[w] /\ rounds[w] <= rounds[Peer(w)] + w[1]

(* Workers that talk to each other run the same message size.              *)
PeersAtSameSize ==
  \A w \in Workers : pc[w] # "none" /\ pc[Peer(w)] # "none" => size[0] = size[1]

(* No endpoint is closed while a message is under way to the other.        *)
ClosedAtRest ==
  lost = 0 /\ (\E r \in Ranks : mpc[r] \in {"fini", "done"}) =>
    \A w \in Workers : pc[w] = "none" /\ sends[w] = 0 /\ net[w] = 0 /\ posted[w] = 0

(* The ranks and their workers agree on what is outstanding, on the size   *)
(* they are at, and on when the endpoints may be closed.                   *)
WorkersInStep == TypeOK /\ OneOutstanding /\ PeersAtSameSize /\ ClosedAtRest

(* Both mains stand still for ever after a failed pthread_create, one gone *)
(* and the other waiting for workers whose peers were never created.       *)
StoppedTogether ==
  \E r \in Ranks : mpc[r] = "gone" /\ mpc[1 - r] \in {"join", "gone"}

(* The test ends, unless a message is lost, for nobody repeats it, or a    *)
(* pthread_create fails, which stops both ranks at the same size.          *)
Completes ==
  <>[]( \/ \A r \in Ranks : mpc[r] = "done"
        \/ lost > 0
        \/ StoppedTogether /\ size[0] = size[1] )
=============================================================================
