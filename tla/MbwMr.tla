------------------------------- MODULE MbwMr -------------------------------
(***************************************************************************)
(* The measurement of rdm_mbw_mr.c: calc_bw, called by main once for each  *)
(* combination of message size, iov count and send/recv flavour.  Rank     *)
(* p < num_pairs sends windows of messages to rank p + num_pairs, which    *)
(* answers each window with a FIN; surplus ranks only take part in the     *)
(* collectives.  Completions are counted either in a completion queue or   *)
(* in a libfabric counter that the program sets back to 0 after each wait. *)
(*                                                                         *)
(* The collectives are used through what module Barrier promises and       *)
(* PmiColl shows: a rank leaves its n-th one once all have entered theirs. *)
(* A receive of data may complete with an error, and a wait for            *)
(* completions may give up before its count, MaxFailures times in all.     *)
(***************************************************************************)
EXTENDS Integers, Sequences

CONSTANTS
  NRanks, NPairs,     \* numprocs, pairs (-x)
  IOV_CNT,            \* the most iovecs a message is made of
  Calls,              \* bound: the calls of calc_bw, records of type and iov_cnt
  Loop, Skip,         \* loop and skip of calc_bw
  Window,             \* window_size (-w)
  Modes,              \* the options -c and -m: test_type and wait_type
  MaxFailures,        \* bound: receives that fail, and waits that give up
  Failing             \* bound: the ranks where they do

Ranks == 0 .. NRanks - 1

ASSUME JobAssumption == NRanks \in Nat /\ NPairs \in Nat \ {0} /\ 2 * NPairs <= NRanks
ASSUME LoopAssumption ==
  /\ {Loop, Skip, Window, IOV_CNT} \subseteq Nat \ {0}
  /\ MaxFailures \in Nat /\ Failing \subseteq Ranks
ASSUME CallsAssumption ==
  /\ Calls \in Seq([type : {"SEND_RECV", "SENDV_RECVV", "SEND_RECVV", "SENDV_RECV"},
                    iov_cnt : 1 .. IOV_CNT])
  /\ Calls # <<>>
ASSUME ModesAssumption == Modes \subseteq {"CQ", "CNTR"} \X {"NONE", "UNSPEC", "SET"}

Senders == 0 .. NPairs - 1
Receivers == NPairs .. 2 * NPairs - 1
target(r) == IF r \in Senders THEN r + NPairs ELSE r - NPairs

VARIABLES
  test_type,          \* "CQ" or "CNTR" (-c)
  wait_type,          \* "NONE", "UNSPEC" or "SET" (-m): poll, block, or fi_wait
  pc, call, i,        \* a rank's place, its calc_bw call, its loop index
  colls,              \* collectives the rank has entered
  need,               \* num_completions of its wait_for_comp
  sends, scomp,       \* sends posted and not complete; scq entries or scntr
  net, posted,        \* messages under way to a rank; receives it has posted
  rcomp,              \* rcq entries or rcntr (successful receives)
  rerr,               \* error entries in rcq
  errors, giveups,    \* history: failed receives; waits that gave up
  recvd               \* history: data messages received in this call

procVars == <<pc, call, i, colls>>
epVars == <<sends, scomp, net, posted, rcomp, rerr, errors, giveups, recvd>>
optVars == <<test_type, wait_type>>
vars == <<optVars, procVars, need, epVars>>

TypeOK ==
  /\ <<test_type, wait_type>> \in Modes
  /\ pc \in [Ranks -> {"bar0", "bar1", "post", "waitw", "fin", "waitf", "gather",
                       "fini", "closed"}]
  /\ call \in [Ranks -> 1 .. Len(Calls) + 1]
  /\ i \in [Ranks -> 0 .. Loop + Skip]
  /\ colls \in [Ranks -> 0 .. 3 * Len(Calls) + 1]
  /\ \A r \in Ranks : {need[r], sends[r], scomp[r], net[r], posted[r], rcomp[r],
                       rerr[r], recvd[r]} \subseteq Nat
  /\ errors \in Nat /\ giveups \in Nat /\ errors + giveups <= MaxFailures

(* Every rank is in the ctpm_Barrier at the top of its first calc_bw.      *)
Init ==
  /\ \E mode \in Modes : test_type = mode[1] /\ wait_type = mode[2]
  /\ pc = [r \in Ranks |-> "bar0"]
  /\ call = [r \in Ranks |-> 1]
  /\ colls = [r \in Ranks |-> 1]
  /\ i = [r \in Ranks |-> 0]
  /\ need = i /\ sends = i /\ scomp = i /\ net = i /\ posted = i /\ rcomp = i
  /\ rerr = i /\ recvd = i
  /\ errors = 0 /\ giveups = 0

Set(f, r, v) == [f EXCEPT ![r] = v]
Add(f, r, n) == [f EXCEPT ![r] = @ + n]

(* Operations posted per window: one per iovec for SEND_RECV, else one     *)
SendOps(c) == IF c.type = "SEND_RECV" THEN Window * c.iov_cnt ELSE Window
RecvOps(c) == IF c.type = "SEND_RECV" THEN Window * c.iov_cnt ELSE Window

(* Faulty variant: the iovecs are forgotten                                *)
CompsPerWindowNoIov(c) == Window

(* The completions that both sides wait for after a window                 *)
CompsPerWindow(c) == IF c.type = "SEND_RECV" THEN Window * c.iov_cnt ELSE Window

EnterColl(r, label) == pc' = Set(pc, r, label) /\ colls' = Add(colls, r, 1)

(* Faulty variants: no barrier between warm-up and measurement; one        *)
(* iteration too few                                                       *)
IterateNoBarrier(r, k) ==
  /\ i' = Set(i, r, k)
  /\ IF k = Loop + Skip
       THEN EnterColl(r, "gather")
       ELSE pc' = Set(pc, r, "post") /\ UNCHANGED colls
IterateOneLess(r, k) ==
  /\ i' = Set(i, r, k)
  /\ CASE k = Loop + Skip - 1 -> EnterColl(r, "gather")
       [] k # Loop + Skip - 1 /\ k = Skip -> EnterColl(r, "bar1")
       [] OTHER -> pc' = Set(pc, r, "post") /\ UNCHANGED colls

(* The loop head: at i == skip all ranks meet, and the clock starts.  The  *)
(* last iteration is followed by ctpm_Allgather of the times.              *)
Iterate(r, k) ==
  /\ i' = Set(i, r, k)
  /\ CASE k = Loop + Skip -> EnterColl(r, "gather")
       [] k = Skip -> EnterColl(r, "bar1")
       [] OTHER -> pc' = Set(pc, r, "post") /\ UNCHANGED colls

(* All ranks have entered the collective r is in                           *)
AllEntered(r) == \A q \in Ranks : colls[q] >= colls[r]

(* Faulty variant: surplus ranks skip the second barrier                   *)
LeaveBar0NoIdle(r) ==
  /\ pc[r] = "bar0" /\ AllEntered(r)
  /\ recvd' = Set(recvd, r, 0)
  /\ IF r < 2 * NPairs THEN Iterate(r, 0)
                       ELSE EnterColl(r, "gather") /\ UNCHANGED i
  /\ UNCHANGED <<optVars, call, need, sends, scomp, net, posted, rcomp, rerr>>
  /\ UNCHANGED <<errors, giveups>>

(* The first barrier of calc_bw; surplus ranks go straight to the second   *)
LeaveBar0(r) ==
  /\ pc[r] = "bar0" /\ AllEntered(r)
  /\ recvd' = Set(recvd, r, 0)
  /\ IF r < 2 * NPairs THEN Iterate(r, 0)
                       ELSE EnterColl(r, "bar1") /\ UNCHANGED i
  /\ UNCHANGED <<optVars, call, need, sends, scomp, net, posted, rcomp, rerr>>
  /\ UNCHANGED <<errors, giveups>>

LeaveBar1(r) ==
  /\ pc[r] = "bar1" /\ AllEntered(r)
  /\ IF r < 2 * NPairs THEN pc' = Set(pc, r, "post") /\ UNCHANGED colls
                       ELSE EnterColl(r, "gather")
  /\ UNCHANGED <<optVars, call, i, need, epVars>>

(* A window of fi_send or fi_recv                                          *)
PostWindow(r) ==
  /\ pc[r] = "post"
  /\ IF r \in Senders
       THEN /\ sends' = Add(sends, r, SendOps(Calls[call[r]]))
            /\ net' = Add(net, target(r), SendOps(Calls[call[r]]))
            /\ UNCHANGED posted
       ELSE /\ posted' = Add(posted, r, RecvOps(Calls[call[r]]))
            /\ UNCHANGED <<sends, net>>
  /\ need' = Set(need, r, CompsPerWindow(Calls[call[r]]))
  /\ pc' = Set(pc, r, "waitw")
  /\ UNCHANGED <<optVars, call, i, colls, scomp, rcomp, rerr, errors, giveups, recvd>>

(* Faulty variant: the receiver goes on without a FIN                      *)
PostFinSilent(r) ==
  /\ pc[r] = "fin"
  /\ IF r \in Receivers
       THEN Iterate(r, i[r] + 1) /\ UNCHANGED <<posted, need>>
       ELSE /\ posted' = Add(posted, r, 1)
            /\ need' = Set(need, r, 1)
            /\ pc' = Set(pc, r, "waitf")
            /\ UNCHANGED <<i, colls>>
  /\ UNCHANGED <<optVars, call, sends, scomp, net, rcomp, rerr, errors, giveups, recvd>>

(* The FIN: the receiver sends it, the sender waits for it                 *)
PostFin(r) ==
  /\ pc[r] = "fin"
  /\ IF r \in Receivers
       THEN sends' = Add(sends, r, 1) /\ net' = Add(net, target(r), 1) /\ UNCHANGED posted
       ELSE posted' = Add(posted, r, 1) /\ UNCHANGED <<sends, net>>
  /\ need' = Set(need, r, 1)
  /\ pc' = Set(pc, r, "waitf")
  /\ UNCHANGED <<optVars, call, i, colls, scomp, rcomp, rerr, errors, giveups, recvd>>

(* A rank waits on its receive side for data or FIN, else on its send side *)
OnRecvSide(r) == (r \in Receivers) <=> (pc[r] = "waitw")

(* What follows a wait, whatever it returned                               *)
Resume(r) ==
  IF pc[r] = "waitw" THEN pc' = Set(pc, r, "fin") /\ UNCHANGED <<i, colls>>
                     ELSE Iterate(r, i[r] + 1)

(* wait_for_comp with CQ_TEST: read one entry.  An error entry ends the    *)
(* wait; the caller goes on.                                               *)
WaitCq(r) ==
  /\ test_type = "CQ"
  /\ pc[r] \in {"waitw", "waitf"}
  /\ \/ /\ OnRecvSide(r) /\ rcomp[r] > 0
        /\ rcomp' = Add(rcomp, r, -1)
        /\ need' = Add(need, r, -1)
        /\ UNCHANGED <<scomp, rerr>>
     \/ /\ OnRecvSide(r) /\ rerr[r] > 0
        /\ rerr' = Add(rerr, r, -1)
        /\ need' = Set(need, r, 0)
        /\ UNCHANGED <<scomp, rcomp>>
     \/ /\ ~OnRecvSide(r) /\ scomp[r] > 0
        /\ scomp' = Add(scomp, r, -1)
        /\ need' = Add(need, r, -1)
        /\ UNCHANGED <<rcomp, rerr>>
  /\ IF need'[r] = 0 THEN Resume(r) ELSE UNCHANGED <<pc, i, colls>>
  /\ UNCHANGED <<optVars, call, sends, net, posted, errors, giveups, recvd>>

(* Faulty variant: the counter is not set back                             *)
WaitCntrNoReset(r) ==
  /\ test_type = "CNTR"
  /\ pc[r] \in {"waitw", "waitf"}
  /\ need[r] <= IF OnRecvSide(r) THEN rcomp[r] ELSE scomp[r]
  /\ need' = Set(need, r, 0)
  /\ Resume(r)
  /\ UNCHANGED <<optVars, call, epVars>>

(* fi_cntr_set(cntr, 0) on the side that was waited on                     *)
ResetCntr(r) ==
  IF OnRecvSide(r) THEN rcomp' = Set(rcomp, r, 0) /\ UNCHANGED scomp
                   ELSE scomp' = Set(scomp, r, 0) /\ UNCHANGED rcomp

(* wait_for_comp with CNTR_TEST: fi_cntr_read until the counter is high    *)
(* enough, then fi_cntr_set(cntr, 0)                                       *)
WaitCntr(r) ==
  /\ test_type = "CNTR"
  /\ pc[r] \in {"waitw", "waitf"}
  /\ need[r] <= IF OnRecvSide(r) THEN rcomp[r] ELSE scomp[r]
  /\ ResetCntr(r)
  /\ need' = Set(need, r, 0)
  /\ Resume(r)
  /\ UNCHANGED <<optVars, call, sends, net, posted, rerr, errors, giveups, recvd>>

(* One more failure on rank r                                              *)
MayFail(r) == r \in Failing /\ errors + giveups < MaxFailures

(* wait_for_comp returns before its count: fi_cq_read fails otherwise than *)
(* with an error entry, fi_cq_sread returns -FI_EAGAIN, fi_cntr_wait or    *)
(* fi_wait fails.  The callers ignore that; a counter is set back all the  *)
(* same.  A counter that is polled without waiting never gives up, and one *)
(* that gets there before it is set back has just been awaited.            *)
GiveUp(r) ==
  /\ pc[r] \in {"waitw", "waitf"} /\ MayFail(r)
  /\ giveups' = giveups + 1
  /\ \/ test_type = "CQ" /\ UNCHANGED <<scomp, rcomp>>
     \/ /\ test_type = "CNTR" /\ wait_type # "NONE"
        /\ need[r] > IF OnRecvSide(r) THEN rcomp[r] ELSE scomp[r]
        /\ ResetCntr(r)
  /\ need' = Set(need, r, 0)
  /\ Resume(r)
  /\ UNCHANGED <<optVars, call, sends, net, posted, rerr, errors, recvd>>

(* ctpm_Allgather returns; main calls calc_bw again, which begins with a   *)
(* ctpm_Barrier, or ends the test with one                                 *)
LeaveGather(r) ==
  /\ pc[r] = "gather" /\ AllEntered(r)
  /\ call' = Add(call, r, 1)
  /\ EnterColl(r, IF call[r] < Len(Calls) THEN "bar0" ELSE "fini")
  /\ UNCHANGED <<optVars, i, need, epVars>>

(* The last barrier, after which the endpoint and its queues are closed    *)
Close(r) ==
  /\ pc[r] = "fini" /\ AllEntered(r)
  /\ pc' = Set(pc, r, "closed")
  /\ UNCHANGED <<optVars, call, i, colls, need, epVars>>

-----------------------------------------------------------------------------
(* libfabric                                                               *)

SendDone(r) ==
  /\ sends[r] > 0
  /\ sends' = Add(sends, r, -1)
  /\ scomp' = Add(scomp, r, 1)
  /\ UNCHANGED <<optVars, procVars, need, net, posted, rcomp, rerr, errors, giveups, recvd>>

(* A message meets a posted receive.  Data may arrive damaged: an error    *)
(* entry in the queue, which a counter does not count.                     *)
RecvDone(r) ==
  /\ net[r] > 0 /\ posted[r] > 0
  /\ net' = Add(net, r, -1)
  /\ posted' = Add(posted, r, -1)
  /\ \/ /\ rcomp' = Add(rcomp, r, 1)
        /\ recvd' = Add(recvd, r, 1)
        /\ UNCHANGED <<rerr, errors>>
     \/ /\ r \in Receivers /\ MayFail(r)
        /\ errors' = errors + 1
        /\ rerr' = IF test_type = "CQ" THEN Add(rerr, r, 1) ELSE rerr
        /\ UNCHANGED <<rcomp, recvd>>
  /\ UNCHANGED <<optVars, procVars, need, sends, scomp, giveups>>

RankStep(r) ==
  \/ LeaveBar0(r) \/ LeaveBar1(r) \/ PostWindow(r) \/ PostFin(r)
  \/ WaitCq(r) \/ WaitCntr(r) \/ LeaveGather(r) \/ Close(r)
FabricStep(r) == SendDone(r) \/ RecvDone(r)

Next == \E r \in Ranks : RankStep(r) \/ GiveUp(r) \/ FabricStep(r)

(* Ranks are processes that keep running and libfabric makes progress: as  *)
(* long as one of them can move one of them does.  No wait has to give up. *)
Fairness == WF_vars(\E r \in Ranks : RankStep(r) \/ FabricStep(r))

Spec == Init /\ [][Next]_vars /\ Fairness

-----------------------------------------------------------------------------
Finished == \A r \in Ranks : pc[r] = "closed"

(* r has left the second barrier of its current calc_bw: its clock runs    *)
Timed(r) == i[r] >= Skip /\ pc[r] \in {"post", "waitw", "fin", "waitf"}

Payload(c, n) == n * SendOps(c)

(* No receive has failed, and every wait has got what it waited for.       *)
Clean == errors = 0 /\ giveups = 0

(* The measurement is clean: while some sender's clock runs, no pair has a *)
(* warm-up message of this call still to receive.                          *)
NoWarmupTimed ==
  Clean =>
    \A s \in Senders : Timed(s) =>
      \A q \in Receivers : call[q] = call[s] => recvd[q] >= Payload(Calls[call[s]], Skip)

(* The bandwidth is not overstated: once rank 0 can compute it from the    *)
(* gathered times, all messages that it counts have been received.         *)
AllReceived ==
  Clean =>
    \A r \in Ranks : pc[r] = "gather" /\ AllEntered(r) =>
      \A q \in Receivers : call[q] = call[r] =>
        recvd[q] = Payload(Calls[call[r]], Loop + Skip)

(* fi_cntr_set(cntr, 0) after a wait loses no completion: the operations   *)
(* that the wait was for were the only ones outstanding on that side, also *)
(* when a receive has failed.  Only a wait that gave up leaves some behind.*)
ResetLosesNothing ==
  test_type = "CNTR" /\ giveups = 0 =>
    \A r \in Ranks : pc[r] \in {"waitw", "waitf"} =>
      IF OnRecvSide(r) THEN rcomp[r] + posted[r] <= need[r]
                       ELSE scomp[r] + sends[r] <= need[r]

(* What is left behind in the queues that rx_depth and tx_depth bound: a   *)
(* wait that ends on an error entry leaves less than one window, one that  *)
(* gives up at most one, on the side that it was for.                      *)
MaxWindow == Window * IOV_CNT
SurplusBounded ==
  \A r \in Ranks :
    /\ posted[r] + rcomp[r] + rerr[r] <=
         MaxWindow + errors * (MaxWindow - 1) + giveups * MaxWindow
    /\ sends[r] + scomp[r] <= MaxWindow + giveups * MaxWindow

(* Ranks that are in the same collective are in it for the same reason:    *)
(* surplus ranks and pairs call the same sequence of collectives, so no    *)
(* rank gathers times from a rank that is in a barrier.                    *)
CollectivesMatch ==
  \A r, q \in Ranks :
    /\ pc[r] \in {"bar0", "bar1", "gather", "fini"}
    /\ pc[q] \in {"bar0", "bar1", "gather", "fini"}
    /\ colls[r] = colls[q]
    => pc[r] = pc[q] /\ call[r] = call[q]

(* Where nothing failed, the endpoints are closed at rest.                 *)
ClosedAtRest ==
  Clean /\ (\E r \in Ranks : pc[r] = "closed") =>
    \A q \in Ranks : sends[q] = 0 /\ net[q] = 0 /\ posted[q] = 0

(* All ranks follow one sequence of collectives, up to the last, after     *)
(* which nothing is under way to an endpoint being closed.                 *)
RanksInStep == TypeOK /\ CollectivesMatch /\ ClosedAtRest

(* The test ends, except that a counter never reaches its goal after an    *)
(* error (errors are not counted).                                         *)
Completes == <>(Finished \/ (test_type = "CNTR" /\ errors > 0))
=============================================================================
