------------------------------ MODULE OneSided ------------------------------
(***************************************************************************)
(* The test loop of rdm_one_sided.c.  Two ranks, each a main thread and    *)
(* the worker threads it creates anew for every message size.  A worker of *)
(* rank 0 writes windows of messages into the buffer of its peer on rank   *)
(* 1, tells it when it is done and waits for the answer; its time counts   *)
(* from iteration skip on.                                                 *)
(*                                                                         *)
(* Endpoints and completion queues are libfabric's: an operation completes *)
(* some time after it was posted, and a write may complete with an error.  *)
(* The two barriers are used through what module Barrier promises: a       *)
(* caller leaves its n-th call once all have entered theirs (TBarrier and  *)
(* PmiColl show that ct_tbarrier and ctpm_Barrier do that).                *)
(***************************************************************************)
EXTENDS Integers, Sequences, FiniteSets, FiniteSetsExt

CONSTANTS
  Threads,          \* the workers of a rank (tunables.threads of them)
  Sizes,            \* bound: how many message sizes main runs through
  SmallSizes,       \* how many of them are at most large_message_size
  Loop, Skip, Window,             \* loop, skip, window_size
  LoopLarge, SkipLarge,           \* loop_large, skip_large
  MaxErrors,        \* bound: writes that complete with an error
  MaxNoThread       \* bound: calls of pthread_create that fail

ASSUME ThreadsAssumption == IsFiniteSet(Threads) /\ Threads # {}
ASSUME TunablesAssumption ==
  /\ Sizes \in Nat \ {0} /\ SmallSizes \in Nat /\ MaxErrors \in Nat /\ MaxNoThread \in Nat
  /\ {Loop, Skip, Window, LoopLarge, SkipLarge} \subseteq Nat \ {0}

Ranks == {0, 1}
Workers == Ranks \X Threads
Peer(w) == <<1 - w[1], w[2]>>
Team(r) == {r} \X Threads

VARIABLES
  mpc, size, calls,   \* main: its place, the size it is at, its ctpm_Barrier calls
  pc, i, need,        \* a worker: its place, its loop index, what it waits for
  tcalls,             \* its calls of ct_tbarrier
  bytes,              \* ptd->bytes_sent, in messages of the current size
  writes, sends,      \* operations posted and not yet complete
  scq,                \* its send completion queue, "ok" and "err" entries
  net, posted, rcq,   \* messages under way to it, receives posted, completed
  errors              \* history: error completions so far

mainVars == <<mpc, size, calls>>
workVars == <<pc, i, need, tcalls, bytes>>
epVars == <<writes, sends, scq, net, posted, rcq, errors>>
vars == <<mainVars, workVars, epVars>>

(* loop and skip for the size main is at                                   *)
LoopAt(n) == IF n > SmallSizes THEN LoopLarge ELSE Loop
SkipAt(n) == IF n > SmallSizes THEN SkipLarge ELSE Skip

TypeOK ==
  /\ mpc \in [Ranks -> {"touch", "enter", "create", "join", "leave", "report", "done", "gone"}]
  /\ size \in [Ranks -> 1 .. Sizes + 1]
  /\ calls \in [Ranks -> 0 .. 2 * Sizes]
  /\ pc \in [Workers -> {"none", "start", "bar1", "write", "waitw", "send", "waits",
                         "recv", "waitr", "bar2", "ret"}]
  /\ need \in [Workers -> 0 .. Window]
  /\ tcalls \in [Workers -> 0 .. 2 * Sizes]
  /\ \A w \in Workers : {writes[w], sends[w], net[w], posted[w], rcq[w], i[w], bytes[w]} \subseteq Nat
  /\ scq \in [Workers -> Seq({"ok", "err"})]
  /\ errors \in 0 .. MaxErrors

Init ==
  /\ mpc = [r \in Ranks |-> "touch"]
  /\ size = [r \in Ranks |-> 1]
  /\ calls = [r \in Ranks |-> 0]
  /\ pc = [w \in Workers |-> "none"]
  /\ scq = [w \in Workers |-> <<>>]
  /\ i = [w \in Workers |-> 0]
  /\ need = i /\ tcalls = i /\ bytes = i
  /\ writes = i /\ sends = i /\ net = i /\ posted = i /\ rcq = i
  /\ errors = 0

-----------------------------------------------------------------------------
(* main                                                                    *)

MGoto(r, label) == mpc' = [mpc EXCEPT ![r] = label]

(* Touch the buffers, then enter ctpm_Barrier                              *)
Touch(r) ==
  /\ mpc[r] = "touch"
  /\ calls' = [calls EXCEPT ![r] = @ + 1]
  /\ MGoto(r, "enter")
  /\ UNCHANGED <<size, workVars, epVars>>

(* Faulty variant: nobody waits                                            *)
AllCalledOrNot(r) == calls[r] > 0

(* All ranks have entered the barrier r is in                              *)
AllCalled(r) == \A q \in Ranks : calls[q] >= calls[r]

LeaveFirst(r) ==
  /\ mpc[r] = "enter" /\ AllCalled(r)
  /\ MGoto(r, "create")
  /\ UNCHANGED <<size, calls, workVars, epVars>>

(* pthread_create of one worker after the other                            *)
Create(r) ==
  /\ mpc[r] = "create"
  /\ \E w \in Team(r) :
       /\ pc[w] = "none"
       /\ pc' = [pc EXCEPT ![w] = "start"]
       /\ MGoto(r, IF \A v \in Team(r) \ {w} : pc[v] # "none" THEN "join" ELSE "create")
  /\ UNCHANGED <<size, calls, i, need, tcalls, bytes, epVars>>

(* pthread_create fails: main ends its own thread, and the workers it has  *)
(* created so far go on without it.                                        *)
CreateFails(r) ==
  /\ mpc[r] = "create"
  /\ Cardinality({q \in Ranks : mpc[q] = "gone"}) < MaxNoThread
  /\ MGoto(r, "gone")
  /\ UNCHANGED <<size, calls, workVars, epVars>>

(* pthread_join of all workers, then ctpm_Barrier                          *)
Join(r) ==
  /\ mpc[r] = "join"
  /\ \A w \in Team(r) : pc[w] = "ret"
  /\ pc' = [w \in Workers |-> IF w \in Team(r) THEN "none" ELSE pc[w]]
  /\ calls' = [calls EXCEPT ![r] = @ + 1]
  /\ MGoto(r, "leave")
  /\ UNCHANGED <<size, i, need, tcalls, bytes, epVars>>

LeaveSecond(r) ==
  /\ mpc[r] = "leave" /\ AllCalled(r)
  /\ MGoto(r, "report")
  /\ UNCHANGED <<size, calls, workVars, epVars>>

(* Rank 0 adds up and prints; on to the next size                          *)
Report(r) ==
  /\ mpc[r] = "report"
  /\ size' = [size EXCEPT ![r] = @ + 1]
  /\ MGoto(r, IF size[r] < Sizes THEN "touch" ELSE "done")
  /\ UNCHANGED <<calls, workVars, epVars>>

-----------------------------------------------------------------------------
(* thread_fn                                                               *)

Goto(w, label) == pc' = [pc EXCEPT ![w] = label]

EnterTbarrier(w) == tcalls' = [tcalls EXCEPT ![w] = @ + 1]
TeamCalled(w) == \A v \in Team(w[1]) : tcalls[v] >= tcalls[w]

Start(w) ==
  /\ pc[w] = "start"
  /\ bytes' = [bytes EXCEPT ![w] = 0]
  /\ EnterTbarrier(w)
  /\ Goto(w, "bar1")
  /\ UNCHANGED <<mainVars, i, need, epVars>>

(* Rank 0 writes first, rank 1 listens first                               *)
Started(w) ==
  /\ pc[w] = "bar1" /\ TeamCalled(w)
  /\ i' = [i EXCEPT ![w] = 0]
  /\ Goto(w, IF w[1] = 0 THEN "write" ELSE "recv")
  /\ UNCHANGED <<mainVars, need, tcalls, bytes, epVars>>

(* Faulty variant: the warm-up messages are counted                        *)
BytesNoReset(w) == bytes[w] + Window

(* bytes_sent after the window: the warm-up messages do not count          *)
BytesSent(w) == (IF i[w] = SkipAt(size[w[1]]) THEN 0 ELSE bytes[w]) + Window

(* Faulty variant: a window waits for one completion too few               *)
WindowCompsFewer == Window - 1

(* wait_for_comp(ptd->scq, window_size)                                    *)
WindowComps == Window

(* fi_write of a whole window.  Nothing reads the queue meanwhile, so that *)
(* completions that arrive during the window may as well arrive after it.  *)
WriteWindow(w) ==
  /\ pc[w] = "write"
  /\ bytes' = [bytes EXCEPT ![w] = BytesSent(w)]
  /\ writes' = [writes EXCEPT ![w] = @ + Window]
  /\ need' = [need EXCEPT ![w] = WindowComps]
  /\ Goto(w, "waitw")
  /\ UNCHANGED <<mainVars, i, tcalls, sends, scq, net, posted, rcq, errors>>

Send(w) ==
  /\ pc[w] = "send"
  /\ sends' = [sends EXCEPT ![w] = @ + 1]
  /\ net' = [net EXCEPT ![Peer(w)] = @ + 1]
  /\ need' = [need EXCEPT ![w] = 1]
  /\ Goto(w, "waits")
  /\ UNCHANGED <<mainVars, i, tcalls, bytes, writes, scq, posted, rcq, errors>>

Recv(w) ==
  /\ pc[w] = "recv"
  /\ posted' = [posted EXCEPT ![w] = @ + 1]
  /\ need' = [need EXCEPT ![w] = 1]
  /\ Goto(w, "waitr")
  /\ UNCHANGED <<mainVars, i, tcalls, bytes, writes, sends, scq, net, rcq, errors>>

(* Faulty variant: rank 1 does not answer                                  *)
ResumeNoAnswer(w) ==
  LET last == LoopAt(size[w[1]]) + SkipAt(size[w[1]])
  IN  CASE pc[w] = "waitw" ->
             /\ i' = [i EXCEPT ![w] = @ + 1]
             /\ Goto(w, IF i[w] + 1 < last THEN "write" ELSE "send")
             /\ UNCHANGED tcalls
        [] pc[w] = "waits" /\ w[1] = 0 -> Goto(w, "recv") /\ UNCHANGED <<i, tcalls>>
        [] OTHER -> Goto(w, "bar2") /\ EnterTbarrier(w) /\ UNCHANGED i

(* What follows a wait_for_comp.  Its result is ignored everywhere.        *)
Resume(w) ==
  LET last == LoopAt(size[w[1]]) + SkipAt(size[w[1]])
  IN  CASE pc[w] = "waitw" ->
             /\ i' = [i EXCEPT ![w] = @ + 1]
             /\ Goto(w, IF i[w] + 1 < last THEN "write" ELSE "send")
             /\ UNCHANGED tcalls
        [] pc[w] = "waits" /\ w[1] = 0 -> Goto(w, "recv") /\ UNCHANGED <<i, tcalls>>
        [] pc[w] = "waitr" /\ w[1] = 1 -> Goto(w, "send") /\ UNCHANGED <<i, tcalls>>
        [] OTHER -> Goto(w, "bar2") /\ EnterTbarrier(w) /\ UNCHANGED i

(* wait_for_comp: one fi_cq_read that finds an entry.  On an error it      *)
(* reads the error entry and gives up the completions it still waits for.  *)
ReadSend(w) ==
  /\ pc[w] \in {"waitw", "waits"}
  /\ scq[w] # <<>>
  /\ scq' = [scq EXCEPT ![w] = Tail(@)]
  /\ need' = [need EXCEPT ![w] = IF Head(scq[w]) = "err" THEN 0 ELSE @ - 1]
  /\ IF need'[w] = 0 THEN Resume(w) ELSE UNCHANGED <<pc, i, tcalls>>
  /\ UNCHANGED <<mainVars, bytes, writes, sends, net, posted, rcq, errors>>

ReadRecv(w) ==
  /\ pc[w] = "waitr"
  /\ rcq[w] > 0
  /\ rcq' = [rcq EXCEPT ![w] = @ - 1]
  /\ need' = [need EXCEPT ![w] = 0]
  /\ Resume(w)
  /\ UNCHANGED <<mainVars, bytes, writes, sends, scq, net, posted, errors>>

Return(w) ==
  /\ pc[w] = "bar2" /\ TeamCalled(w)
  /\ Goto(w, "ret")
  /\ UNCHANGED <<mainVars, i, need, tcalls, bytes, epVars>>

-----------------------------------------------------------------------------
(* libfabric                                                               *)

WriteDone(w) ==
  /\ writes[w] > 0
  /\ writes' = [writes EXCEPT ![w] = @ - 1]
  /\ \/ /\ scq' = [scq EXCEPT ![w] = Append(@, "ok")]
        /\ UNCHANGED errors
     \/ /\ errors < MaxErrors
        /\ errors' = errors + 1
        /\ scq' = [scq EXCEPT ![w] = Append(@, "err")]
  /\ UNCHANGED <<mainVars, workVars, sends, net, posted, rcq>>

SendDone(w) ==
  /\ sends[w] > 0
  /\ sends' = [sends EXCEPT ![w] = @ - 1]
  /\ scq' = [scq EXCEPT ![w] = Append(@, "ok")]
  /\ UNCHANGED <<mainVars, workVars, writes, net, posted, rcq, errors>>

Arrive(w) ==
  /\ net[w] > 0 /\ posted[w] > 0
  /\ net' = [net EXCEPT ![w] = @ - 1]
  /\ posted' = [posted EXCEPT ![w] = @ - 1]
  /\ rcq' = [rcq EXCEPT ![w] = @ + 1]
  /\ UNCHANGED <<mainVars, workVars, writes, sends, scq, errors>>

MainStep(r) ==
  Touch(r) \/ LeaveFirst(r) \/ Create(r) \/ Join(r) \/ LeaveSecond(r) \/ Report(r)
WorkerStep(w) ==
  \/ Start(w) \/ Started(w) \/ WriteWindow(w) \/ Send(w) \/ Recv(w)
  \/ ReadSend(w) \/ ReadRecv(w) \/ Return(w)
FabricStep(w) == WriteDone(w) \/ SendDone(w) \/ Arrive(w)

Finished == \A r \in Ranks : mpc[r] = "done"

Next ==
  \/ \E r \in Ranks : MainStep(r) \/ CreateFails(r)
  \/ \E w \in Workers : WorkerStep(w) \/ FabricStep(w)

(* Threads keep running and libfabric makes progress (data_progress is     *)
(* automatic, or driven by the reads of the waiting threads).              *)
Fairness ==
  /\ \A r \in Ranks : WF_vars(MainStep(r))
  /\ \A w \in Workers : WF_vars(WorkerStep(w)) /\ WF_vars(FabricStep(w))

Spec == Init /\ [][Next]_vars /\ Fairness

-----------------------------------------------------------------------------
(* A wait_for_comp that gives up after an error leaves completions behind  *)
(* that later waits take for their own.  The surplus stays bounded: each   *)
(* error adds less than a window to what a thread has outstanding, which   *)
(* bounds the send completion queue (rx_depth entries) as well.            *)
SurplusBounded ==
  \A w \in Workers :
    writes[w] + sends[w] + Len(scq[w]) <= Window + errors * (Window - 1) + 1

(* Without errors, what the time of a worker measures is complete: when    *)
(* its peer starts to answer, every write of this size has arrived.        *)
AnswerAfterWrites ==
  \A w \in Team(1) :
    errors = 0 /\ pc[w] \in {"send", "waits", "bar2"} =>
      writes[Peer(w)] = 0 /\ i[Peer(w)] = LoopAt(size[1]) + SkipAt(size[1])

(* Without errors, main never touches the buffers of the next size while   *)
(* a write or a message of the previous one is still under way.            *)
TouchedAtRest ==
  errors = 0 /\ (\E r \in Ranks : mpc[r] = "touch") =>
    \A w \in Workers : /\ writes[w] = 0 /\ net[w] = 0 /\ posted[w] = 0
                       /\ sends[w] = 0 /\ scq[w] = <<>>

(* The bandwidth rank 0 prints counts each timed message of each worker    *)
(* once, and no warm-up message, with or without errors.                   *)
BytesExact ==
  mpc[0] = "report" =>
    SumFunctionOnSet(bytes, Team(0)) = Cardinality(Threads) * LoopAt(size[0]) * Window

(* Workers are at the same size as their peers: no message of one size is  *)
(* taken for the handshake of another.                                     *)
PeersAtSameSize ==
  \A w \in Workers : pc[w] \notin {"none", "start", "bar1"} /\ pc[Peer(w)] # "none" =>
    size[0] = size[1]

(* The two ranks and their workers change from one size to the next        *)
(* together, and only once the fabric is at rest.                          *)
SizesChangeAtRest == TypeOK /\ TouchedAtRest /\ PeersAtSameSize

(* Both mains stand still for ever after a failed pthread_create, one gone *)
(* and the other waiting for workers whose peers were never created.       *)
StoppedTogether ==
  \E r \in Ranks : mpc[r] = "gone" /\ mpc[1 - r] \in {"join", "gone"}

(* The test runs through all sizes, even if writes fail.  Only a failed    *)
(* pthread_create stops it, and then both ranks, at the same size and      *)
(* before either reports a result for it.                                  *)
Completes == <>[](Finished \/ (StoppedTogether /\ size[0] = size[1]))
=============================================================================
