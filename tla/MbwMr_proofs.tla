---------------------------- MODULE MbwMr_proofs ----------------------------
(***************************************************************************)
(* The measurement of rdm_mbw_mr.c, for any number of ranks and pairs, any *)
(* calls of calc_bw, loop counts and window, in all wait modes, and        *)
(* however many receives fail and waits give up.  No rank tells another    *)
(* where it is: the number of collectives it has entered determines its    *)
(* call and its place in it, and within a call what a pair has sent and    *)
(* received follows from the loop indices of the two.                      *)
(***************************************************************************)
EXTENDS MbwMr, TLAPS

Paired == 0 .. 2 * NPairs - 1
Looping == {"post", "waitw", "fin", "waitf"}
Waiting == {"waitw", "waitf"}
Entered == {"bar0", "bar1", "gather", "fini"}
Outside == {"bar0", "fini", "closed"}

Types ==
  /\ <<test_type, wait_type>> \in Modes /\ test_type \in {"CQ", "CNTR"}
  /\ pc \in [Ranks -> Looping \cup Entered \cup {"closed"}]
  /\ call \in [Ranks -> 1 .. Len(Calls) + 1]
  /\ i \in [Ranks -> 0 .. Loop + Skip] /\ colls \in [Ranks -> Nat]
  /\ need \in [Ranks -> Nat] /\ sends \in [Ranks -> Nat] /\ scomp \in [Ranks -> Nat]
  /\ net \in [Ranks -> Nat] /\ posted \in [Ranks -> Nat] /\ rcomp \in [Ranks -> Nat]
  /\ rerr \in [Ranks -> Nat] /\ recvd \in [Ranks -> Nat]
  /\ errors \in Nat /\ giveups \in Nat /\ errors + giveups <= MaxFailures

(* The collectives of its current call that a rank has entered             *)
StageOf(label, k) ==
  IF label = "gather" THEN 3
  ELSE IF label = "bar1" \/ (label \in Looping /\ k >= Skip) THEN 2
  ELSE 1
Stage(r) == StageOf(pc[r], i[r])

(* A rank may be at label in call c with loop index k and n collectives.   *)
PlaceOk(r, label, c, k, n) ==
  /\ c = Len(Calls) + 1 <=> label \in {"fini", "closed"}
  /\ n = 3 * (c - 1) + StageOf(label, k)
  /\ label \in Looping => r \in Paired /\ k < Loop + Skip
  /\ r \in Paired /\ label = "bar1" => k = Skip
  /\ r \in Paired /\ label = "gather" => k = Loop + Skip
PlaceAt(r) == PlaceOk(r, pc[r], call[r], i[r], colls[r])
Places == \A r \in Ranks : PlaceAt(r)

(* The collectives that a rank has left: all ranks have entered them.      *)
Left(r) == IF pc[r] \in Entered THEN colls[r] - 1 ELSE colls[r]
Passed == \A r, q \in Ranks : colls[q] >= Left(r)

StepInv == Types /\ Places /\ Passed

-----------------------------------------------------------------------------
(* What a rank's wait has still to read, on its receive and its send side  *)
RecvWait(r) == IF pc[r] \in Waiting /\ OnRecvSide(r) THEN need[r] ELSE 0
SendWait(r) == IF pc[r] \in Waiting /\ ~OnRecvSide(r) THEN need[r] ELSE 0

NeedAt(r) ==
  /\ pc[r] = "waitw" => need[r] \in 1 .. SendOps(Calls[call[r]])
  /\ pc[r] = "waitf" => need[r] = 1

(* Where nothing has failed, what is posted or complete is what is         *)
(* awaited, on the send side whatever receives have failed, too.           *)
SidesAt(r) ==
  /\ giveups = 0 => sends[r] + scomp[r] = SendWait(r)
  /\ giveups = 0 /\ (r \notin Receivers \/ errors = 0) =>
       posted[r] + rcomp[r] = RecvWait(r) /\ rerr[r] = 0
  /\ giveups = 0 /\ test_type = "CNTR" => posted[r] + rcomp[r] <= RecvWait(r)

(* A failed receive leaves at most all but one of a window behind, a wait  *)
(* that gives up at most all of it, on the side that it was for.           *)
Slack(n) == n * (MaxWindow - 1)
Loss(n) == n * MaxWindow
SurplusAt(r) ==
  /\ test_type = "CNTR" => rerr[r] = 0
  /\ posted[r] + rcomp[r] + rerr[r] <= RecvWait(r) + Slack(errors - rerr[r]) + Loss(giveups)
  /\ sends[r] + scomp[r] <= SendWait(r) + Loss(giveups)

SideInv == \A r \in Ranks : NeedAt(r) /\ SidesAt(r) /\ SurplusAt(r)

-----------------------------------------------------------------------------
(* The windows and the FINs of its call that a rank has posted             *)
Windows(r) == IF pc[r] \in {"waitw", "fin", "waitf"} THEN i[r] + 1 ELSE i[r]
Fins(r) == IF pc[r] = "waitf" THEN i[r] + 1 ELSE i[r]

(* The messages of its call that a rank has sent, posted receives for, and *)
(* received                                                                *)
Data(r) == Payload(Calls[call[r]], Windows(r))
SentBy(r) ==
  IF pc[r] \in Outside THEN 0 ELSE IF r \in Senders THEN Data(r) ELSE Fins(r)
PostedBy(r) ==
  IF pc[r] \in Outside THEN 0 ELSE IF r \in Senders THEN Fins(r) ELSE Data(r)
Arrived(r) == IF pc[r] \in Outside THEN 0 ELSE recvd[r]

ReceivedAt(r) == Clean => Arrived(r) + posted[r] = PostedBy(r)
UnderWayAt(r) ==
  /\ r \notin Paired => net[r] = 0
  /\ r \in Paired /\ Clean =>
       Arrived(r) + net[r] =
         IF call[r] = call[target(r)] THEN SentBy(target(r)) ELSE Arrived(r)

PairInv == \A r \in Ranks : r \in Paired => ReceivedAt(r)
FlowInv == \A r \in Ranks : UnderWayAt(r)

IInv == StepInv /\ SideInv /\ PairInv /\ FlowInv

-----------------------------------------------------------------------------
LEMMA Tunables ==
  /\ NRanks \in Nat /\ NPairs \in Nat /\ NPairs > 0 /\ 2 * NPairs <= NRanks
  /\ Loop \in Nat /\ Skip \in Nat /\ Window \in Nat /\ IOV_CNT \in Nat /\ MaxFailures \in Nat
  /\ Loop > 0 /\ Skip > 0 /\ Window > 0 /\ IOV_CNT > 0
  BY JobAssumption, LoopAssumption

LEMMA Pairs ==
  /\ Paired \subseteq Ranks /\ Senders \subseteq Paired /\ Receivers \subseteq Paired
  /\ \A r \in Ranks : r \in Paired <=> r < 2 * NPairs
  /\ \A r \in Paired : r \in Senders <=> r \notin Receivers
  /\ \A r \in Paired : /\ target(r) \in Paired /\ target(target(r)) = r /\ target(r) # r
                       /\ target(r) \in Senders <=> r \notin Senders
  BY Tunables DEF Paired, Ranks, Senders, Receivers, target

LEMMA CallsNat == Len(Calls) \in Nat /\ Len(Calls) > 0
  BY CallsAssumption

(* The operations posted in a window are the completions waited for, on    *)
(* both sides, and no call has more than MaxWindow of them.                *)
LEMMA WindowOps ==
  ASSUME NEW k \in 1 .. Len(Calls)
  PROVE  /\ SendOps(Calls[k]) \in Nat /\ SendOps(Calls[k]) >= 1
         /\ SendOps(Calls[k]) <= MaxWindow
         /\ RecvOps(Calls[k]) = SendOps(Calls[k])
         /\ CompsPerWindow(Calls[k]) = SendOps(Calls[k])
<1>1. Calls[k].iov_cnt \in 1 .. IOV_CNT
  <2> DEFINE S == [type : {"SEND_RECV", "SENDV_RECVV", "SEND_RECVV", "SENDV_RECV"},
                   iov_cnt : 1 .. IOV_CNT]
  <2>1. \A c \in S : c.iov_cnt \in 1 .. IOV_CNT
    OBVIOUS
  <2>2. Calls \in Seq(S)
    BY CallsAssumption
  <2> HIDE DEF S
  <2>3. Calls[k] \in S
    BY <2>2
  <2> QED
    BY <2>1, <2>3
<1>2. \A w, a, b \in Nat : w >= 1 /\ 1 <= a /\ a <= b => w * a \in Nat /\ w * a >= 1 /\ w * a <= w * b
  OBVIOUS
<1>3. /\ Window * Calls[k].iov_cnt \in Nat /\ Window * Calls[k].iov_cnt >= 1
      /\ Window * Calls[k].iov_cnt <= MaxWindow
  BY <1>1, <1>2, Tunables, SMTT(30) DEF MaxWindow
<1>4. Window >= 1 /\ Window <= MaxWindow
  BY <1>2, Tunables DEF MaxWindow
<1> QED
  BY <1>3, <1>4, Tunables DEF SendOps, RecvOps, CompsPerWindow

LEMMA WindowMax == MaxWindow \in Nat /\ MaxWindow >= 1
  BY Tunables DEF MaxWindow

LEMMA Payloads ==
  ASSUME NEW k \in 1 .. Len(Calls)
  PROVE  /\ \A n \in Nat : /\ Payload(Calls[k], n) \in Nat
                           /\ Payload(Calls[k], n + 1) = Payload(Calls[k], n) + SendOps(Calls[k])
         /\ Payload(Calls[k], 0) = 0
         /\ \A m, n \in Nat : m <= n => Payload(Calls[k], m) <= Payload(Calls[k], n)
<1> DEFINE d == SendOps(Calls[k])
<1>1. d \in Nat
  BY WindowOps
<1> HIDE DEF d
<1>2. /\ \A n \in Nat : n * d \in Nat /\ (n + 1) * d = n * d + d
      /\ 0 * d = 0
      /\ \A m, n \in Nat : m <= n => m * d <= n * d
  BY <1>1
<1> QED
  BY <1>2 DEF d, Payload

LEMMA Slacks ==
  /\ Slack(0) = 0
  /\ \A n \in Int : Slack(n) \in Int /\ Slack(n + 1) = Slack(n) + MaxWindow - 1
  /\ \A m, n \in Int : m <= n => Slack(m) <= Slack(n)
<1> DEFINE d == MaxWindow - 1
<1>1. d \in Nat
  BY WindowMax
<1> HIDE DEF d
<1>2. /\ 0 * d = 0
      /\ \A n \in Int : n * d \in Int /\ (n + 1) * d = n * d + d
      /\ \A m, n \in Int : m <= n => m * d <= n * d
  BY <1>1
<1>3. \A n \in Int : Slack(n) = n * d
  BY DEF Slack, d
<1>4. \A n \in Int : n * d + d = n * d + MaxWindow - 1
  BY <1>2, WindowMax DEF d
<1> QED
  BY <1>2, <1>3, <1>4

LEMMA Losses ==
  /\ Loss(0) = 0
  /\ \A n \in Nat : Loss(n) \in Nat /\ Loss(n + 1) = Loss(n) + MaxWindow
  /\ \A m, n \in Nat : m <= n => Loss(m) <= Loss(n)
<1> DEFINE d == MaxWindow
<1>1. d \in Nat
  BY WindowMax
<1> HIDE DEF d
<1>2. /\ 0 * d = 0
      /\ \A n \in Nat : n * d \in Nat /\ (n + 1) * d = n * d + d
      /\ \A m, n \in Nat : m <= n => m * d <= n * d
  BY <1>1
<1> QED
  BY <1>2 DEF Loss, d

LEMMA InitInv == Init => IInv
<1> SUFFICES ASSUME Init PROVE IInv
  OBVIOUS
<1> USE Tunables, CallsNat
<1>1. \A r \in Ranks : /\ pc[r] = "bar0" /\ call[r] = 1 /\ colls[r] = 1 /\ i[r] = 0
                       /\ need[r] = 0 /\ sends[r] = 0 /\ scomp[r] = 0 /\ net[r] = 0
                       /\ posted[r] = 0 /\ rcomp[r] = 0 /\ rerr[r] = 0 /\ recvd[r] = 0
  BY DEF Init
<1>2. Types
  <2>1. PICK mode \in Modes : test_type = mode[1] /\ wait_type = mode[2]
    BY DEF Init
  <2>2. mode \in {"CQ", "CNTR"} \X {"NONE", "UNSPEC", "SET"}
    BY ModesAssumption
  <2>3. mode = <<test_type, wait_type>> /\ test_type \in {"CQ", "CNTR"}
    BY <2>1, <2>2
  <2>4. /\ pc \in [Ranks -> Looping \cup Entered \cup {"closed"}] /\ call \in [Ranks -> 1 .. Len(Calls) + 1]
        /\ i \in [Ranks -> 0 .. Loop + Skip] /\ colls \in [Ranks -> Nat]
        /\ i \in [Ranks -> Nat]
    BY DEF Init, Entered, Looping
  <2>5. /\ need = i /\ sends = i /\ scomp = i /\ net = i /\ posted = i /\ rcomp = i
        /\ rerr = i /\ recvd = i /\ errors = 0 /\ giveups = 0
    BY DEF Init
  <2> QED
    BY <2>1, <2>3, <2>4, <2>5 DEF Types
<1>3. Places
  BY <1>1 DEF Places, PlaceAt, PlaceOk, StageOf, Looping
<1>4. Passed
  BY <1>1 DEF Passed, Left, Entered
<1>5. SideInv
  <2> SUFFICES ASSUME NEW r \in Ranks PROVE NeedAt(r) /\ SidesAt(r) /\ SurplusAt(r)
    BY DEF SideInv
  <2>1. RecvWait(r) = 0 /\ SendWait(r) = 0 /\ NeedAt(r) /\ errors = 0 /\ giveups = 0
    BY <1>1 DEF RecvWait, SendWait, NeedAt, Waiting, Init
  <2>2. errors - rerr[r] = 0 /\ posted[r] + rcomp[r] + rerr[r] = 0 /\ sends[r] + scomp[r] = 0
    BY <1>1, <2>1
  <2>3. RecvWait(r) + Slack(0) + Loss(0) = 0 /\ SendWait(r) + Loss(0) = 0
    <3>1. Slack(0) = 0 /\ Loss(0) = 0
      BY Slacks, Losses, Zenon
    <3> QED
      BY <2>1, <3>1
  <2>4. SidesAt(r)
    BY <1>1, <2>1 DEF SidesAt
  <2>5. SurplusAt(r)
    BY <1>1, <2>1, <2>2, <2>3 DEF SurplusAt
  <2> QED
    BY <2>1, <2>4, <2>5
<1>6. PairInv /\ FlowInv
  BY <1>1, Pairs DEF PairInv, FlowInv, ReceivedAt, UnderWayAt, Arrived, PostedBy, SentBy, Outside
<1> QED
  BY <1>2, <1>3, <1>4, <1>5, <1>6 DEF IInv, StepInv

-----------------------------------------------------------------------------
(* What the places of a rank become in a step of rank r                    *)
PlaceTypes ==
  /\ pc \in [Ranks -> Looping \cup Entered \cup {"closed"}]
  /\ call \in [Ranks -> 1 .. Len(Calls) + 1]
  /\ i \in [Ranks -> 0 .. Loop + Skip] /\ colls \in [Ranks -> Nat]
CountTypes ==
  /\ need \in [Ranks -> Nat] /\ sends \in [Ranks -> Nat] /\ scomp \in [Ranks -> Nat]
  /\ net \in [Ranks -> Nat] /\ posted \in [Ranks -> Nat] /\ rcomp \in [Ranks -> Nat]
  /\ rerr \in [Ranks -> Nat] /\ recvd \in [Ranks -> Nat]
OptTypes ==
  /\ <<test_type, wait_type>> \in Modes /\ test_type \in {"CQ", "CNTR"}
  /\ errors \in Nat /\ giveups \in Nat /\ errors + giveups <= MaxFailures

LEMMA PlacesOf ==
  ASSUME PlaceTypes, NEW r \in Ranks
  PROVE  /\ call[r] \in Nat /\ call[r] <= Len(Calls) + 1 /\ i[r] \in Nat /\ colls[r] \in Nat
<1>1. call[r] \in 1 .. Len(Calls) + 1 /\ i[r] \in 0 .. Loop + Skip /\ colls[r] \in Nat
  BY DEF PlaceTypes
<1> QED
  BY <1>1, CallsNat, Tunables

LEMMA TypesSplit == Types <=> PlaceTypes /\ CountTypes /\ OptTypes
  BY DEF Types, PlaceTypes, CountTypes, OptTypes
LEMMA TypesSplitNext == Types' <=> PlaceTypes' /\ CountTypes' /\ OptTypes'
  BY DEF Types, PlaceTypes, CountTypes, OptTypes

KeepsPlace(q) == pc'[q] = pc[q] /\ call'[q] = call[q] /\ i'[q] = i[q] /\ colls'[q] = colls[q]
AloneMoves(r) == \A q \in Ranks : q # r => KeepsPlace(q)
Goes(r, label, c, k, n) ==
  pc'[r] = label /\ call'[r] = c /\ i'[r] = k /\ colls'[r] = n

IteratesTo(r, k) ==
  \/ k = Loop + Skip /\ Goes(r, "gather", call[r], k, colls[r] + 1)
  \/ k # Loop + Skip /\ k = Skip /\ Goes(r, "bar1", call[r], k, colls[r] + 1)
  \/ k # Loop + Skip /\ k # Skip /\ Goes(r, "post", call[r], k, colls[r])

LEMMA IterateMoves ==
  ASSUME PlaceTypes, NEW r \in Ranks, NEW k \in 0 .. Loop + Skip, Iterate(r, k), call' = call
  PROVE  PlaceTypes' /\ AloneMoves(r) /\ IteratesTo(r, k)
<1>1. i' \in [Ranks -> 0 .. Loop + Skip] /\ i' = [i EXCEPT ![r] = k] /\ call'[r] = call[r]
  BY DEF PlaceTypes, Iterate, Set
<1>2. CASE k = Loop + Skip
  <2>1. pc' = [pc EXCEPT ![r] = "gather"] /\ colls' = [colls EXCEPT ![r] = colls[r] + 1]
    BY <1>2, Tunables DEF Iterate, EnterColl, Set, Add
  <2> QED
    BY <1>1, <1>2, <2>1 DEF PlaceTypes, AloneMoves, KeepsPlace, IteratesTo, Goes, Entered
<1>3. CASE k # Loop + Skip /\ k = Skip
  <2>1. pc' = [pc EXCEPT ![r] = "bar1"] /\ colls' = [colls EXCEPT ![r] = colls[r] + 1]
    BY <1>3, Tunables DEF Iterate, EnterColl, Set, Add
  <2> QED
    BY <1>1, <1>3, <2>1 DEF PlaceTypes, AloneMoves, KeepsPlace, IteratesTo, Goes, Entered
<1>4. CASE k # Loop + Skip /\ k # Skip
  <2>1. pc' = [pc EXCEPT ![r] = "post"] /\ colls' = colls
    BY <1>4, Tunables DEF Iterate, Set
  <2> QED
    BY <1>1, <1>4, <2>1 DEF PlaceTypes, AloneMoves, KeepsPlace, IteratesTo, Goes, Looping
<1> QED
  BY <1>2, <1>3, <1>4

(* A wait that ends                                                        *)
ResumesTo(r) ==
  \/ pc[r] = "waitw" /\ Goes(r, "fin", call[r], i[r], colls[r])
  \/ pc[r] = "waitf" /\ IteratesTo(r, i[r] + 1)

LEMMA ResumeMoves ==
  ASSUME PlaceTypes, Places, NEW r \in Ranks, pc[r] \in Waiting, Resume(r), call' = call
  PROVE  PlaceTypes' /\ AloneMoves(r) /\ ResumesTo(r)
<1>1. CASE pc[r] = "waitw"
  <2>1. pc' = [pc EXCEPT ![r] = "fin"] /\ i' = i /\ colls' = colls
    BY <1>1 DEF Resume, Set
  <2> QED
    BY <1>1, <2>1 DEF PlaceTypes, AloneMoves, KeepsPlace, ResumesTo, Goes, Looping
<1>2. CASE pc[r] = "waitf"
  <2>1. i[r] + 1 \in 0 .. Loop + Skip
    BY <1>2, Tunables DEF Places, PlaceAt, PlaceOk, PlaceTypes, Looping
  <2>2. Iterate(r, i[r] + 1)
    BY <1>2 DEF Resume
  <2> QED
    BY <1>2, <2>1, <2>2, IterateMoves DEF ResumesTo
<1> QED
  BY <1>1, <1>2 DEF Waiting

(* What each action does to the place of its rank                          *)
PlaceStep(r) ==
  \/ pc[r] = "bar0" /\ AllEntered(r) /\ r \in Paired /\ IteratesTo(r, 0)
  \/ pc[r] = "bar0" /\ AllEntered(r) /\ r \notin Paired
     /\ Goes(r, "bar1", call[r], i[r], colls[r] + 1)
  \/ pc[r] = "bar1" /\ AllEntered(r) /\ r \in Paired
     /\ Goes(r, "post", call[r], i[r], colls[r])
  \/ pc[r] = "bar1" /\ AllEntered(r) /\ r \notin Paired
     /\ Goes(r, "gather", call[r], i[r], colls[r] + 1)
  \/ pc[r] = "post" /\ Goes(r, "waitw", call[r], i[r], colls[r])
  \/ pc[r] = "fin" /\ Goes(r, "waitf", call[r], i[r], colls[r])
  \/ pc[r] \in Waiting /\ (ResumesTo(r) \/ Goes(r, pc[r], call[r], i[r], colls[r]))
  \/ pc[r] = "gather" /\ AllEntered(r) /\ call[r] < Len(Calls)
     /\ Goes(r, "bar0", call[r] + 1, i[r], colls[r] + 1)
  \/ pc[r] = "gather" /\ AllEntered(r) /\ call[r] = Len(Calls)
     /\ Goes(r, "fini", call[r] + 1, i[r], colls[r] + 1)
  \/ pc[r] = "fini" /\ AllEntered(r) /\ Goes(r, "closed", call[r], i[r], colls[r])
  \/ Goes(r, pc[r], call[r], i[r], colls[r])
MovesWell(r) == PlaceTypes' /\ AloneMoves(r) /\ PlaceStep(r)

(* A step of rank r, or of libfabric for it                                *)
StepOf(r) == RankStep(r) \/ GiveUp(r) \/ FabricStep(r)

LEMMA Moves ==
  ASSUME PlaceTypes, Places, NEW r \in Ranks, StepOf(r)
  PROVE  MovesWell(r)
<1> USE DEF MovesWell
<1>1. CASE LeaveBar0(r)
  <2>1. CASE r < 2 * NPairs
    <3>1. Iterate(r, 0) /\ call' = call /\ pc[r] = "bar0" /\ AllEntered(r)
      BY <1>1, <2>1 DEF LeaveBar0
    <3>2. PlaceTypes' /\ AloneMoves(r) /\ IteratesTo(r, 0)
      BY <3>1, IterateMoves, Tunables
    <3>3. r \in Paired
      BY <2>1, Pairs
    <3> QED
      BY <3>1, <3>2, <3>3 DEF PlaceStep
  <2>2. CASE ~(r < 2 * NPairs)
    <3>1. /\ pc' = [pc EXCEPT ![r] = "bar1"] /\ colls' = [colls EXCEPT ![r] = colls[r] + 1]
          /\ i' = i /\ call' = call /\ pc[r] = "bar0" /\ AllEntered(r)
      BY <1>1, <2>2 DEF LeaveBar0, EnterColl, Set, Add
    <3>2. r \notin Paired
      BY <2>2, Pairs
    <3> QED
      BY <3>1, <3>2 DEF PlaceTypes, AloneMoves, KeepsPlace, PlaceStep, Goes, Entered
  <2> QED
    BY <2>1, <2>2
<1>2. CASE LeaveBar1(r)
  <2>1. CASE r < 2 * NPairs
    <3>1. /\ pc' = [pc EXCEPT ![r] = "post"] /\ colls' = colls
          /\ i' = i /\ call' = call /\ pc[r] = "bar1" /\ AllEntered(r)
      BY <1>2, <2>1 DEF LeaveBar1, Set
    <3>2. r \in Paired
      BY <2>1, Pairs
    <3> QED
      BY <3>1, <3>2 DEF PlaceTypes, AloneMoves, KeepsPlace, PlaceStep, Goes, Looping
  <2>2. CASE ~(r < 2 * NPairs)
    <3>1. /\ pc' = [pc EXCEPT ![r] = "gather"] /\ colls' = [colls EXCEPT ![r] = colls[r] + 1]
          /\ i' = i /\ call' = call /\ pc[r] = "bar1" /\ AllEntered(r)
      BY <1>2, <2>2 DEF LeaveBar1, EnterColl, Set, Add
    <3>2. r \notin Paired
      BY <2>2, Pairs
    <3> QED
      BY <3>1, <3>2 DEF PlaceTypes, AloneMoves, KeepsPlace, PlaceStep, Goes, Entered
  <2> QED
    BY <2>1, <2>2
<1>3. CASE PostWindow(r)
  <2>1. /\ pc' = [pc EXCEPT ![r] = "waitw"] /\ colls' = colls
        /\ i' = i /\ call' = call /\ pc[r] = "post"
    BY <1>3 DEF PostWindow, Set
  <2> QED
    BY <2>1 DEF PlaceTypes, AloneMoves, KeepsPlace, PlaceStep, Goes, Looping
<1>4. CASE PostFin(r)
  <2>1. /\ pc' = [pc EXCEPT ![r] = "waitf"] /\ colls' = colls
        /\ i' = i /\ call' = call /\ pc[r] = "fin"
    BY <1>4 DEF PostFin, Set
  <2> QED
    BY <2>1 DEF PlaceTypes, AloneMoves, KeepsPlace, PlaceStep, Goes, Looping
<1>5. CASE WaitCq(r) \/ WaitCntr(r) \/ GiveUp(r)
  <2>1. pc[r] \in Waiting /\ call' = call /\ (Resume(r) \/ UNCHANGED <<pc, i, colls>>)
    BY <1>5 DEF WaitCq, WaitCntr, GiveUp, Waiting
  <2>2. CASE Resume(r)
    BY <2>1, <2>2, ResumeMoves DEF PlaceStep
  <2>3. CASE UNCHANGED <<pc, i, colls>>
    BY <2>1, <2>3 DEF PlaceTypes, AloneMoves, KeepsPlace, PlaceStep, Goes
  <2> QED
    BY <2>1, <2>2, <2>3
<1>6. CASE LeaveGather(r)
  <2>1. /\ call' = [call EXCEPT ![r] = call[r] + 1]
        /\ colls' = [colls EXCEPT ![r] = colls[r] + 1]
        /\ pc' = [pc EXCEPT ![r] = IF call[r] < Len(Calls) THEN "bar0" ELSE "fini"]
        /\ i' = i /\ pc[r] = "gather" /\ AllEntered(r)
    BY <1>6 DEF LeaveGather, EnterColl, Set, Add
  <2>2. call[r] \in 1 .. Len(Calls)
    BY <2>1, CallsNat DEF PlaceTypes, Places, PlaceAt, PlaceOk
  <2>3. PlaceTypes' /\ AloneMoves(r)
    BY <2>1, <2>2, CallsNat DEF PlaceTypes, AloneMoves, KeepsPlace, Entered
  <2>4. /\ call'[r] = call[r] + 1 /\ colls'[r] = colls[r] + 1 /\ i'[r] = i[r]
        /\ pc'[r] = IF call[r] < Len(Calls) THEN "bar0" ELSE "fini"
    BY <2>1 DEF PlaceTypes
  <2>5. call[r] < Len(Calls) \/ call[r] = Len(Calls)
    BY <2>2, CallsNat
  <2> QED
    BY <2>1, <2>3, <2>4, <2>5 DEF PlaceStep, Goes
<1>7. CASE Close(r)
  <2>1. /\ pc' = [pc EXCEPT ![r] = "closed"] /\ colls' = colls
        /\ i' = i /\ call' = call /\ pc[r] = "fini" /\ AllEntered(r)
    BY <1>7 DEF Close, Set
  <2> QED
    BY <2>1 DEF PlaceTypes, AloneMoves, KeepsPlace, PlaceStep, Goes
<1>8. CASE FabricStep(r)
  <2>1. UNCHANGED <<pc, call, i, colls>>
    BY <1>8 DEF FabricStep, SendDone, RecvDone, procVars
  <2> QED
    BY <2>1 DEF PlaceTypes, AloneMoves, KeepsPlace, PlaceStep, Goes
<1> QED
  BY <1>1, <1>2, <1>3, <1>4, <1>5, <1>6, <1>7, <1>8 DEF StepOf, RankStep

-----------------------------------------------------------------------------
(* The places stay consistent                                              *)
LEMMA PlaceMoves ==
  ASSUME NEW r \in Ranks, NEW c \in 1 .. Len(Calls) + 1, NEW k \in 0 .. Loop + Skip, NEW n \in Nat
  PROVE  /\ PlaceOk(r, "bar0", c, k, n) /\ r \in Paired => PlaceOk(r, "post", c, 0, n)
         /\ PlaceOk(r, "bar0", c, k, n) /\ r \notin Paired => PlaceOk(r, "bar1", c, k, n + 1)
         /\ PlaceOk(r, "bar1", c, k, n) /\ r \in Paired => PlaceOk(r, "post", c, k, n)
         /\ PlaceOk(r, "bar1", c, k, n) /\ r \notin Paired => PlaceOk(r, "gather", c, k, n + 1)
         /\ PlaceOk(r, "post", c, k, n) => PlaceOk(r, "waitw", c, k, n)
         /\ PlaceOk(r, "waitw", c, k, n) => PlaceOk(r, "fin", c, k, n)
         /\ PlaceOk(r, "fin", c, k, n) => PlaceOk(r, "waitf", c, k, n)
         /\ PlaceOk(r, "waitf", c, k, n) /\ k + 1 = Loop + Skip =>
              PlaceOk(r, "gather", c, k + 1, n + 1)
         /\ PlaceOk(r, "waitf", c, k, n) /\ k + 1 = Skip => PlaceOk(r, "bar1", c, k + 1, n + 1)
         /\ PlaceOk(r, "waitf", c, k, n) /\ k + 1 # Loop + Skip /\ k + 1 # Skip =>
              PlaceOk(r, "post", c, k + 1, n)
         /\ PlaceOk(r, "gather", c, k, n) /\ c < Len(Calls) => PlaceOk(r, "bar0", c + 1, k, n + 1)
         /\ PlaceOk(r, "gather", c, k, n) /\ c = Len(Calls) => PlaceOk(r, "fini", c + 1, k, n + 1)
         /\ PlaceOk(r, "fini", c, k, n) => PlaceOk(r, "closed", c, k, n)
  BY Tunables, CallsNat DEF PlaceOk, StageOf, Looping

LEMMA PlacesStep ==
  ASSUME PlaceTypes, Places, NEW r \in Ranks, MovesWell(r)
  PROVE  Places'
<1> SUFFICES ASSUME NEW q \in Ranks PROVE PlaceAt(q)'
  BY DEF Places
<1>1. CASE q # r
  <2>1. KeepsPlace(q)
    BY <1>1 DEF MovesWell, AloneMoves
  <2> QED
    BY <2>1 DEF KeepsPlace, Places, PlaceAt
<1>2. CASE q = r
  <2> SUFFICES PlaceAt(r)'
    BY <1>2
  <2> DEFINE c == call[r]
             k == i[r]
             n == colls[r]
  <2>1. PlaceOk(r, pc[r], c, k, n) /\ c \in 1 .. Len(Calls) + 1 /\ k \in 0 .. Loop + Skip /\ n \in Nat
    BY DEF Places, PlaceAt, PlaceTypes
  <2>2. \A l, cc, kk, nn : Goes(r, l, cc, kk, nn) /\ PlaceOk(r, l, cc, kk, nn) => PlaceAt(r)'
    BY DEF Goes, PlaceAt
  <2>3. /\ 0 # Skip /\ 0 # Loop + Skip
        /\ k + 1 = Skip => k + 1 # Loop + Skip
    BY Tunables
  <2>4. PlaceStep(r)
    BY DEF MovesWell
  <2>5. IteratesTo(r, 0) => Goes(r, "post", c, 0, n)
    BY <2>3 DEF IteratesTo
  <2>6. IteratesTo(r, k + 1) =>
          \/ k + 1 = Loop + Skip /\ Goes(r, "gather", c, k + 1, n + 1)
          \/ k + 1 = Skip /\ Goes(r, "bar1", c, k + 1, n + 1)
          \/ k + 1 # Loop + Skip /\ k + 1 # Skip /\ Goes(r, "post", c, k + 1, n)
    BY DEF IteratesTo
  <2>7. CASE pc[r] \in Waiting /\ ResumesTo(r)
    BY <2>1, <2>2, <2>6, <2>7, PlaceMoves DEF ResumesTo
  <2>8. CASE Goes(r, pc[r], c, k, n)
    BY <2>1, <2>2, <2>8
  <2>9. CASE ~(pc[r] \in Waiting /\ ResumesTo(r)) /\ ~Goes(r, pc[r], c, k, n)
    <3> HIDE DEF c, k, n
    <3> QED
      BY <2>1, <2>2, <2>4, <2>5, <2>9, PlaceMoves DEF PlaceStep, c, k, n
  <2> QED
    BY <2>7, <2>8, <2>9
<1> QED
  BY <1>1, <1>2

(* No rank's count of collectives goes down, and it has left none that the *)
(* others have not entered.                                                *)
LEMMA LeftStep ==
  ASSUME PlaceTypes, NEW r \in Ranks, MovesWell(r)
  PROVE  /\ colls'[r] >= colls[r]
         /\ Left(r)' <= Left(r) \/ (AllEntered(r) /\ Left(r)' <= colls[r])
<1> colls[r] \in Nat
  BY DEF PlaceTypes
<1> USE DEF Left, Goes, Entered
<1>1. CASE pc[r] = "waitf" /\ IteratesTo(r, i[r] + 1)
  BY <1>1 DEF IteratesTo
<1>2. CASE pc[r] = "bar0" /\ AllEntered(r) /\ IteratesTo(r, 0)
  BY <1>2 DEF IteratesTo
<1>3. CASE ~(pc[r] = "waitf" /\ IteratesTo(r, i[r] + 1)) /\ ~(pc[r] = "bar0" /\ AllEntered(r) /\ IteratesTo(r, 0))
  BY <1>3 DEF MovesWell, PlaceStep, ResumesTo, Waiting
<1> QED
  BY <1>1, <1>2, <1>3

LEMMA PassedStep ==
  ASSUME PlaceTypes, Passed, NEW r \in Ranks, MovesWell(r)
  PROVE  Passed'
<1> SUFFICES ASSUME NEW p \in Ranks, NEW q \in Ranks PROVE colls'[q] >= Left(p)'
  BY DEF Passed
<1>1. /\ colls[q] \in Nat /\ colls[p] \in Nat /\ colls[r] \in Nat
      /\ colls'[q] \in Nat /\ colls'[p] \in Nat
  BY DEF PlaceTypes, MovesWell
<1>2. Left(p) \in Int /\ Left(p)' \in Int /\ colls[q] >= Left(p)
  BY <1>1 DEF Left, Passed
<1>3. colls'[q] >= colls[q]
  <2>1. CASE q = r
    BY <2>1, LeftStep
  <2>2. CASE q # r
    BY <2>2, <1>1 DEF MovesWell, AloneMoves, KeepsPlace
  <2> QED
    BY <2>1, <2>2
<1>4. CASE p # r
  <2>1. Left(p)' = Left(p)
    BY <1>4 DEF MovesWell, AloneMoves, KeepsPlace, Left
  <2> QED
    BY <1>1, <1>2, <1>3, <2>1
<1>5. CASE p = r /\ Left(r)' <= Left(r)
  BY <1>1, <1>2, <1>3, <1>5
<1>6. CASE p = r /\ AllEntered(r) /\ Left(r)' <= colls[r]
  <2>1. colls[q] >= colls[r]
    BY <1>6 DEF AllEntered
  <2> QED
    BY <1>1, <1>2, <1>3, <1>6, <2>1
<1> QED
  BY <1>4, <1>5, <1>6, LeftStep

-----------------------------------------------------------------------------
(* What the collectives say of two ranks                                   *)
LEMMA SameCount ==
  ASSUME PlaceTypes, Places, NEW r \in Ranks, NEW q \in Ranks
  PROVE  /\ Stage(r) \in 1 .. 3
         /\ colls[r] = colls[q] <=> call[r] = call[q] /\ Stage(r) = Stage(q)
         /\ colls[r] <= 3 * call[r] /\ colls[r] >= 3 * call[r] - 2
         /\ colls[r] = 3 * call[r] <=> pc[r] = "gather"
<1>1. \A p \in Ranks : /\ Stage(p) \in 1 .. 3 /\ call[p] \in Nat
                       /\ colls[p] = 3 * (call[p] - 1) + Stage(p)
                       /\ Stage(p) = 3 <=> pc[p] = "gather"
  BY CallsNat DEF PlaceTypes, Places, PlaceAt, PlaceOk, Stage, StageOf
<1> DEFINE a == call[r]
           b == call[q]
           s == Stage(r)
           t == Stage(q)
           m == colls[r]
           n == colls[q]
<1>2. /\ a \in Nat /\ b \in Nat /\ s \in 1 .. 3 /\ t \in 1 .. 3
      /\ m = 3 * (a - 1) + s /\ n = 3 * (b - 1) + t
  BY <1>1
<1> HIDE DEF a, b, s, t, m, n
<1>3. /\ m = n <=> a = b /\ s = t
      /\ m <= 3 * a /\ m >= 3 * a - 2
      /\ m = 3 * a <=> s = 3
  BY <1>2
<1> QED
  BY <1>1, <1>2, <1>3 DEF a, b, s, t, m, n

(* While a rank is in the loop of a call, all ranks are in that call.      *)
LEMMA SameCall ==
  ASSUME PlaceTypes, Places, Passed, NEW r \in Ranks, NEW q \in Ranks, pc[r] \in Looping
  PROVE  call[q] = call[r]
<1>1. call[r] \in Nat /\ call[q] \in Nat /\ colls[r] \in Nat /\ colls[q] \in Nat
  BY CallsNat DEF PlaceTypes
<1>2. colls[q] >= colls[r] /\ colls[r] < 3 * call[r]
  BY <1>1, SameCount DEF Passed, Left, Looping, Entered
<1>3. call[q] >= call[r]
  BY <1>1, <1>2, SameCount
<1>4. CASE call[q] > call[r]
  <2>1. colls[q] >= 3 * call[r] + 1
    BY <1>1, <1>4, SameCount
  <2>2. colls[r] >= colls[q] - 1
    BY <1>1 DEF Passed, Left
  <2> QED
    BY <1>1, <1>2, <2>1, <2>2
<1> QED
  BY <1>1, <1>3, <1>4

(* Who leaves a gather leaves the others in it, or at the next barrier.    *)
LEMMA GatherMates ==
  ASSUME PlaceTypes, Places, Passed, NEW r \in Ranks, NEW q \in Ranks,
         pc[r] = "gather", AllEntered(r)
  PROVE  \/ call[q] = call[r] /\ pc[q] = "gather"
         \/ call[q] = call[r] + 1 /\ pc[q] \in Outside
<1>1. call[r] \in Nat /\ call[q] \in Nat /\ colls[r] \in Nat /\ colls[q] \in Nat
  BY CallsNat DEF PlaceTypes
<1>2. colls[q] >= colls[r] /\ colls[r] = 3 * call[r]
  BY SameCount DEF AllEntered
<1>3. colls[r] >= Left(q) /\ Left(q) >= colls[q] - 1 /\ Left(q) \in Int
  BY <1>1 DEF Passed, Left
<1>4. colls[q] \in {3 * call[r], 3 * call[r] + 1}
  BY <1>1, <1>2, <1>3
<1>5. CASE colls[q] = 3 * call[r]
  BY <1>1, <1>5, SameCount
<1>6. CASE colls[q] = 3 * call[r] + 1
  <2>1. call[q] = call[r] + 1
    BY <1>1, <1>6, SameCount
  <2>2. pc[q] \in Entered
    BY <1>1, <1>2, <1>3, <1>6 DEF Left
  <2>3. pc[q] # "gather" /\ pc[q] # "bar1"
    <3>1. colls[q] = 3 * (call[q] - 1) + Stage(q) /\ Stage(q) \in 1 .. 3
      BY SameCount DEF Places, PlaceAt, PlaceOk, Stage
    <3>2. Stage(q) = 1
      BY <1>1, <1>6, <2>1, <3>1
    <3> QED
      BY <3>2 DEF Stage, StageOf
  <2> QED
    BY <2>1, <2>2, <2>3 DEF Entered, Outside
<1> QED
  BY <1>4, <1>5, <1>6

-----------------------------------------------------------------------------
(* Completions.  Apart from messages put on their way to another rank, a   *)
(* step of a rank changes only the rank's own counts.                      *)
Alone(r) ==
  /\ OptTypes' /\ CountTypes' /\ UNCHANGED optVars
  /\ errors' >= errors /\ giveups' >= giveups
  /\ \A q \in Ranks : q # r =>
       /\ need'[q] = need[q] /\ sends'[q] = sends[q] /\ scomp'[q] = scomp[q]
       /\ posted'[q] = posted[q] /\ rcomp'[q] = rcomp[q] /\ rerr'[q] = rerr[q]
       /\ recvd'[q] = recvd[q]

LEMMA WaitingNeeds ==
  ASSUME Types, Places, NEW r \in Ranks, NeedAt(r), pc[r] \in Looping
  PROVE  /\ r \in Paired /\ call[r] \in 1 .. Len(Calls)
         /\ pc[r] \in Waiting => need[r] \in Nat /\ need[r] >= 1 /\ need[r] <= MaxWindow
<1>1. call[r] \in 1 .. Len(Calls) + 1 /\ need[r] \in Nat
  BY DEF Types
<1>2. r \in Paired /\ call[r] # Len(Calls) + 1
  BY DEF Places, PlaceAt, PlaceOk, Looping
<1>3. call[r] \in 1 .. Len(Calls)
  BY <1>1, <1>2, CallsNat
<1> QED
  BY <1>1, <1>2, <1>3, WindowOps, WindowMax DEF NeedAt, Waiting

LEMMA CountStep ==
  ASSUME Types, Places, SideInv, NEW r \in Ranks, StepOf(r)
  PROVE  Alone(r)
<1> NeedAt(r) /\ OptTypes
  BY DEF SideInv, Types, OptTypes
<1> CountTypes
  BY DEF Types, CountTypes
<1> errors \in Nat /\ giveups \in Nat /\ MaxFailures \in Nat
  BY Tunables DEF OptTypes
<1>1. CASE LeaveBar0(r)
  BY <1>1 DEF LeaveBar0, Alone, OptTypes, CountTypes, optVars, Set
<1>2. CASE LeaveBar1(r) \/ LeaveGather(r) \/ Close(r)
  <2>1. UNCHANGED <<optVars, need, epVars>>
    BY <1>2 DEF LeaveBar1, LeaveGather, Close
  <2> QED
    BY <2>1 DEF Alone, OptTypes, CountTypes, optVars, epVars
<1>3. CASE PostWindow(r)
  <2> DEFINE d == SendOps(Calls[call[r]])
  <2>1. pc[r] = "post" /\ r \in Paired /\ call[r] \in 1 .. Len(Calls)
    BY <1>3, WaitingNeeds DEF PostWindow, Looping
  <2>2. d \in Nat /\ RecvOps(Calls[call[r]]) = d /\ CompsPerWindow(Calls[call[r]]) = d
    BY <2>1, WindowOps
  <2> HIDE DEF d
  <2>3. /\ UNCHANGED <<optVars, scomp, rcomp, rerr, errors, giveups, recvd>>
        /\ need' = [need EXCEPT ![r] = d]
        /\ \/ sends' = [sends EXCEPT ![r] = sends[r] + d]
              /\ net' = [net EXCEPT ![target(r)] = net[target(r)] + d] /\ UNCHANGED posted
           \/ posted' = [posted EXCEPT ![r] = posted[r] + d] /\ UNCHANGED <<sends, net>>
    BY <1>3, <2>2 DEF PostWindow, Set, Add, d
  <2>4. target(r) \in Ranks
    BY <2>1, Pairs
  <2>5. /\ need' \in [Ranks -> Nat] /\ sends' \in [Ranks -> Nat]
        /\ net' \in [Ranks -> Nat] /\ posted' \in [Ranks -> Nat]
    BY <2>2, <2>3, <2>4 DEF CountTypes
  <2> QED
    BY <2>3, <2>5 DEF Alone, OptTypes, CountTypes, optVars
<1>4. CASE PostFin(r)
  <2>1. pc[r] = "fin" /\ r \in Paired
    BY <1>4, WaitingNeeds DEF PostFin, Looping
  <2>2. /\ UNCHANGED <<optVars, scomp, rcomp, rerr, errors, giveups, recvd>>
        /\ need' = [need EXCEPT ![r] = 1]
        /\ \/ sends' = [sends EXCEPT ![r] = sends[r] + 1]
              /\ net' = [net EXCEPT ![target(r)] = net[target(r)] + 1] /\ UNCHANGED posted
           \/ posted' = [posted EXCEPT ![r] = posted[r] + 1] /\ UNCHANGED <<sends, net>>
    BY <1>4 DEF PostFin, Set, Add
  <2>3. target(r) \in Ranks
    BY <2>1, Pairs
  <2> QED
    BY <2>2, <2>3 DEF Alone, OptTypes, CountTypes, optVars
<1>5. CASE WaitCq(r)
  <2>1. need[r] \in Nat /\ need[r] >= 1
    BY <1>5, WaitingNeeds DEF WaitCq, Waiting, Looping
  <2>2. /\ UNCHANGED <<optVars, sends, net, posted, errors, giveups, recvd>>
        /\ \/ rcomp' = [rcomp EXCEPT ![r] = rcomp[r] - 1] /\ rcomp[r] > 0
              /\ need' = [need EXCEPT ![r] = need[r] - 1] /\ UNCHANGED <<scomp, rerr>>
           \/ rerr' = [rerr EXCEPT ![r] = rerr[r] - 1] /\ rerr[r] > 0
              /\ need' = [need EXCEPT ![r] = 0] /\ UNCHANGED <<scomp, rcomp>>
           \/ scomp' = [scomp EXCEPT ![r] = scomp[r] - 1] /\ scomp[r] > 0
              /\ need' = [need EXCEPT ![r] = need[r] - 1] /\ UNCHANGED <<rcomp, rerr>>
    BY <1>5 DEF WaitCq, Set, Add
  <2>3. need[r] - 1 \in Nat
    BY <2>1
  <2>4. CountTypes'
    BY <2>2, <2>3 DEF CountTypes
  <2> QED
    BY <2>2, <2>4 DEF Alone, OptTypes, CountTypes, optVars
<1>6. CASE WaitCntr(r) \/ GiveUp(r)
  <2>1. /\ UNCHANGED <<optVars, sends, net, posted, rerr, errors, recvd>>
        /\ need' = [need EXCEPT ![r] = 0]
        /\ \/ rcomp' = [rcomp EXCEPT ![r] = 0] /\ UNCHANGED scomp
           \/ scomp' = [scomp EXCEPT ![r] = 0] /\ UNCHANGED rcomp
           \/ UNCHANGED <<scomp, rcomp>>
    BY <1>6 DEF WaitCntr, GiveUp, ResetCntr, Set
  <2>2. \/ giveups' = giveups
        \/ giveups' = giveups + 1 /\ errors + giveups < MaxFailures
    BY <1>6 DEF WaitCntr, GiveUp, MayFail
  <2>3. OptTypes' /\ giveups' >= giveups
    BY <2>1, <2>2 DEF OptTypes, optVars
  <2>4. CountTypes'
    BY <2>1 DEF CountTypes
  <2>5. \A q \in Ranks : q # r =>
          /\ need'[q] = need[q] /\ sends'[q] = sends[q] /\ scomp'[q] = scomp[q]
          /\ posted'[q] = posted[q] /\ rcomp'[q] = rcomp[q] /\ rerr'[q] = rerr[q]
          /\ recvd'[q] = recvd[q]
    BY <2>1 DEF CountTypes
  <2>6. errors' >= errors
    BY <2>1
  <2> QED
    BY <2>1, <2>3, <2>4, <2>5, <2>6 DEF Alone
<1>7. CASE SendDone(r)
  BY <1>7 DEF SendDone, Alone, OptTypes, CountTypes, optVars, procVars, Add
<1>8. CASE RecvDone(r)
  <2>1. /\ UNCHANGED <<optVars, need, sends, scomp, giveups>>
        /\ net' = [net EXCEPT ![r] = net[r] - 1] /\ net[r] > 0
        /\ posted' = [posted EXCEPT ![r] = posted[r] - 1] /\ posted[r] > 0
    BY <1>8 DEF RecvDone, Add
  <2>2. \/ rcomp' = [rcomp EXCEPT ![r] = rcomp[r] + 1]
           /\ recvd' = [recvd EXCEPT ![r] = recvd[r] + 1] /\ UNCHANGED <<rerr, errors>>
        \/ errors' = errors + 1 /\ errors + giveups < MaxFailures /\ UNCHANGED <<rcomp, recvd>>
           /\ \/ rerr' = [rerr EXCEPT ![r] = rerr[r] + 1]
              \/ UNCHANGED rerr
    BY <1>8 DEF RecvDone, MayFail, Add
  <2>3. OptTypes' /\ errors' >= errors
    BY <2>1, <2>2 DEF OptTypes, optVars
  <2>4. CountTypes'
    BY <2>1, <2>2 DEF CountTypes
  <2>5. \A q \in Ranks : q # r =>
          /\ need'[q] = need[q] /\ sends'[q] = sends[q] /\ scomp'[q] = scomp[q]
          /\ posted'[q] = posted[q] /\ rcomp'[q] = rcomp[q] /\ rerr'[q] = rerr[q]
          /\ recvd'[q] = recvd[q]
    BY <2>1, <2>2 DEF CountTypes
  <2>6. giveups' >= giveups
    BY <2>1
  <2> QED
    BY <2>1, <2>3, <2>4, <2>5, <2>6 DEF Alone
<1> QED
  BY <1>1, <1>2, <1>3, <1>4, <1>5, <1>6, <1>7, <1>8 DEF StepOf, RankStep, FabricStep

LEMMA SurplusNext ==
  ASSUME NEW r \in Ranks,
         test_type' = "CNTR" => rerr'[r] = 0,
         posted'[r] + rcomp'[r] + rerr'[r] <=
           RecvWait(r)' + Slack(errors' - rerr'[r]) + Loss(giveups'),
         sends'[r] + scomp'[r] <= SendWait(r)' + Loss(giveups')
  PROVE  SurplusAt(r)'
<1>1. Slack(errors - rerr[r])' = Slack(errors' - rerr'[r]) /\ Loss(giveups)' = Loss(giveups')
  BY DEF Slack, Loss
<1> QED
  BY <1>1 DEF SurplusAt

LEMMA CountsOf ==
  ASSUME Types, NEW r \in Ranks
  PROVE  /\ need[r] \in Nat /\ sends[r] \in Nat /\ scomp[r] \in Nat /\ posted[r] \in Nat
         /\ rcomp[r] \in Nat /\ rerr[r] \in Nat /\ recvd[r] \in Nat /\ net[r] \in Nat
         /\ errors \in Nat /\ giveups \in Nat /\ RecvWait(r) \in Nat /\ SendWait(r) \in Nat
<1>1. need[r] \in Nat /\ errors \in Nat /\ giveups \in Nat
  BY DEF Types
<1> QED
  BY <1>1 DEF Types, RecvWait, SendWait

(* The bounds of a rank's surplus, as numbers                              *)
LEMMA SurplusOf ==
  ASSUME Types, NEW r \in Ranks, SurplusAt(r)
  PROVE  \E e, n, g \in Int :
           /\ e = errors - rerr[r] /\ n = Slack(e) /\ g = Loss(giveups) /\ e <= errors
           /\ Slack(e + 1) = n + MaxWindow - 1 /\ n <= Slack(e + 1)
           /\ Loss(giveups + 1) = g + MaxWindow /\ Loss(giveups + 1) \in Int
           /\ posted[r] + rcomp[r] + rerr[r] <= RecvWait(r) + n + g
           /\ sends[r] + scomp[r] <= SendWait(r) + g
<1> DEFINE e == errors - rerr[r]
           n == Slack(e)
           g == Loss(giveups)
<1>1. e \in Int /\ e + 1 \in Int /\ e <= e + 1 /\ e <= errors /\ giveups \in Nat
  BY CountsOf
<1>2. /\ posted[r] + rcomp[r] + rerr[r] <= RecvWait(r) + n + g
      /\ sends[r] + scomp[r] <= SendWait(r) + g
  BY DEF SurplusAt
<1>3. /\ g \in Int /\ Loss(giveups + 1) = g + MaxWindow /\ Loss(giveups + 1) \in Int
  BY <1>1, Losses
<1> HIDE DEF g
<1>4. n \in Int /\ Slack(e + 1) = n + MaxWindow - 1 /\ n <= Slack(e + 1)
  <2> HIDE DEF e
  <2> QED
    BY <1>1, Slacks
<1>5. e = errors - rerr[r] /\ n = Slack(e) /\ g = Loss(giveups)
  BY DEF g
<1> HIDE DEF e, n
<1> QED
  BY <1>1, <1>2, <1>3, <1>4, <1>5

LEMMA SidesElsewhere ==
  ASSUME Types, SideInv, NEW r \in Ranks, NEW q \in Ranks, q # r, AloneMoves(r), Alone(r)
  PROVE  NeedAt(q)' /\ SidesAt(q)' /\ SurplusAt(q)'
<1>1. KeepsPlace(q) /\ NeedAt(q) /\ SidesAt(q) /\ SurplusAt(q)
  BY DEF AloneMoves, SideInv
<1>2. /\ need'[q] = need[q] /\ sends'[q] = sends[q] /\ scomp'[q] = scomp[q]
      /\ posted'[q] = posted[q] /\ rcomp'[q] = rcomp[q] /\ rerr'[q] = rerr[q]
      /\ test_type' = test_type
  BY DEF Alone, optVars
<1>3. /\ errors' >= errors /\ errors \in Nat /\ errors' \in Nat
      /\ giveups' >= giveups /\ giveups \in Nat /\ giveups' \in Nat
  BY DEF Alone, OptTypes, Types
<1>4. RecvWait(q)' = RecvWait(q) /\ SendWait(q)' = SendWait(q)
  BY <1>1, <1>2 DEF KeepsPlace, RecvWait, SendWait, OnRecvSide
<1>5. NeedAt(q)'
  BY <1>1, <1>2 DEF KeepsPlace, NeedAt
<1>6. (errors' = 0 => errors = 0) /\ (giveups' = 0 => giveups = 0)
  BY <1>3
<1>7. SidesAt(q)'
  BY <1>1, <1>2, <1>4, <1>6 DEF SidesAt
<1>8. SurplusAt(q)'
  <2> DEFINE old == errors - rerr[q]
             new == errors' - rerr[q]
  <2>0. old \in Int /\ new \in Int /\ old <= new
    BY <1>3, CountsOf
  <2>1. Slack(new) >= Slack(old) /\ Slack(new) \in Int /\ Slack(old) \in Int
    <3> HIDE DEF old, new
    <3> QED
      BY <2>0, Slacks
  <2>2. Loss(giveups) <= Loss(giveups') /\ Loss(giveups) \in Nat /\ Loss(giveups') \in Nat
    BY <1>3, Losses
  <2>3. /\ test_type = "CNTR" => rerr[q] = 0
        /\ posted[q] + rcomp[q] + rerr[q] <= RecvWait(q) + Slack(old) + Loss(giveups)
        /\ sends[q] + scomp[q] <= SendWait(q) + Loss(giveups)
    BY <1>1 DEF SurplusAt
  <2>4. errors' - rerr'[q] = new
    BY <1>2
  <2> HIDE DEF old, new
  <2> QED
    BY <1>2, <1>4, <2>0, <2>1, <2>2, <2>3, <2>4, SurplusNext, CountsOf
<1> QED
  BY <1>5, <1>7, <1>8

(* The wait of a rank goes on until nothing is left to read.               *)
LEMMA WaitMoves ==
  ASSUME Types, Places, NEW r \in Ranks, NeedAt(r), pc[r] \in Waiting, call' = call,
         need'[r] \in Nat, need'[r] <= need[r],
         IF need'[r] = 0 THEN Resume(r) ELSE UNCHANGED <<pc, i, colls>>
  PROVE  /\ NeedAt(r)'
         /\ RecvWait(r)' = IF OnRecvSide(r) THEN need'[r] ELSE 0
         /\ SendWait(r)' = IF OnRecvSide(r) THEN 0 ELSE need'[r]
<1>1. CASE need'[r] = 0
  <2>1. ResumesTo(r)
    BY <1>1, ResumeMoves, TypesSplit
  <2>2. pc'[r] \notin Waiting
    BY <2>1 DEF ResumesTo, IteratesTo, Goes, Waiting
  <2> QED
    BY <1>1, <2>2 DEF NeedAt, RecvWait, SendWait, Waiting
<1>2. CASE need'[r] # 0
  <2>1. pc' = pc
    BY <1>2
  <2>2. need[r] \in Nat
    BY DEF Types
  <2>3. pc[r] = "waitw" => SendOps(Calls[call[r]]) \in Nat
    BY WaitingNeeds, WindowOps DEF Looping
  <2>4. NeedAt(r)'
    BY <1>2, <2>1, <2>2, <2>3 DEF NeedAt
  <2> QED
    BY <2>1, <2>4 DEF RecvWait, SendWait, OnRecvSide
<1> QED
  BY <1>1, <1>2

(* A step that reads nothing and posts nothing                             *)
LEMMA SidesKept ==
  ASSUME Types, NEW r \in Ranks, SidesAt(r), SurplusAt(r),
         RecvWait(r)' = RecvWait(r), SendWait(r)' = SendWait(r),
         UNCHANGED <<optVars, sends, scomp, posted, rcomp, rerr, errors, giveups>>
  PROVE  SidesAt(r)' /\ SurplusAt(r)'
<1>1. /\ sends'[r] = sends[r] /\ scomp'[r] = scomp[r] /\ posted'[r] = posted[r]
      /\ rcomp'[r] = rcomp[r] /\ rerr'[r] = rerr[r] /\ errors' = errors /\ giveups' = giveups
      /\ test_type' = test_type
  BY DEF optVars
<1>2. SidesAt(r)'
  BY <1>1 DEF SidesAt
<1>3. /\ Slack(errors - rerr[r])' = Slack(errors - rerr[r])
      /\ Loss(giveups)' = Loss(giveups)
  BY <1>1 DEF Slack, Loss
<1> QED
  BY <1>1, <1>2, <1>3 DEF SurplusAt

LEMMA SidesOfLeaving ==
  ASSUME Types, Places, SideInv, NEW r \in Ranks,
         LeaveBar0(r) \/ LeaveBar1(r) \/ LeaveGather(r) \/ Close(r)
  PROVE  NeedAt(r)' /\ SidesAt(r)' /\ SurplusAt(r)'
<1>1. /\ pc[r] \in Entered
      /\ UNCHANGED <<optVars, sends, scomp, posted, rcomp, rerr, errors, giveups>>
  BY DEF LeaveBar0, LeaveBar1, LeaveGather, Close, epVars, Entered
<1>2. PlaceStep(r)
  BY Moves, TypesSplit DEF MovesWell, StepOf, RankStep
<1>3. pc'[r] \notin Waiting
  BY <1>1, <1>2 DEF PlaceStep, IteratesTo, Goes, Entered, Waiting
<1>4. NeedAt(r)' /\ RecvWait(r)' = RecvWait(r) /\ SendWait(r)' = SendWait(r)
  BY <1>1, <1>3 DEF NeedAt, RecvWait, SendWait, Waiting, Entered
<1>5. SidesAt(r) /\ SurplusAt(r)
  BY DEF SideInv
<1> QED
  BY <1>1, <1>4, <1>5, SidesKept

(* Posting n operations on one side, to wait for all of them               *)
LEMMA SidesPosted ==
  ASSUME Types, NEW r \in Ranks, SidesAt(r), SurplusAt(r), NEW d \in Nat,
         pc[r] \notin Waiting,
         UNCHANGED <<optVars, scomp, rcomp, rerr, errors, giveups>>,
         \/ /\ RecvWait(r)' = 0 /\ SendWait(r)' = d
            /\ sends'[r] = sends[r] + d /\ posted'[r] = posted[r]
         \/ /\ RecvWait(r)' = d /\ SendWait(r)' = 0
            /\ posted'[r] = posted[r] + d /\ sends'[r] = sends[r]
  PROVE  SidesAt(r)' /\ SurplusAt(r)'
<1>1. /\ scomp'[r] = scomp[r] /\ rcomp'[r] = rcomp[r] /\ rerr'[r] = rerr[r] /\ errors' = errors
      /\ giveups' = giveups /\ test_type' = test_type
  BY DEF optVars
<1>2. RecvWait(r) = 0 /\ SendWait(r) = 0
  BY DEF RecvWait, SendWait
<1> USE CountsOf
<1>3. RecvWait(r)' \in Int /\ SendWait(r)' \in Int /\ posted'[r] \in Int /\ sends'[r] \in Int
  OBVIOUS
<1>4. /\ sends[r] + scomp[r] = 0 => sends'[r] + scomp[r] = SendWait(r)'
      /\ posted[r] + rcomp[r] = 0 => posted'[r] + rcomp[r] = RecvWait(r)'
      /\ posted[r] + rcomp[r] <= 0 => posted'[r] + rcomp[r] <= RecvWait(r)'
  OBVIOUS
<1>5. SidesAt(r)'
  BY <1>1, <1>2, <1>4 DEF SidesAt
<1>6. SurplusAt(r)'
  <2>1. PICK e, n, g \in Int :
          /\ e = errors - rerr[r] /\ n = Slack(e) /\ g = Loss(giveups)
          /\ posted[r] + rcomp[r] + rerr[r] <= RecvWait(r) + n + g
          /\ sends[r] + scomp[r] <= SendWait(r) + g
    BY SurplusOf
  <2>2. /\ posted'[r] + rcomp[r] + rerr[r] <= RecvWait(r)' + n + g
        /\ sends'[r] + scomp[r] <= SendWait(r)' + g
    BY <1>2, <1>3, <2>1
  <2>3. test_type = "CNTR" => rerr[r] = 0
    BY DEF SurplusAt
  <2> QED
    BY <1>1, <1>3, <2>1, <2>2, <2>3, SurplusNext
<1> QED
  BY <1>5, <1>6

LEMMA SidesOfPosting ==
  ASSUME Types, Places, SideInv, NEW r \in Ranks, PostWindow(r) \/ PostFin(r)
  PROVE  NeedAt(r)' /\ SidesAt(r)' /\ SurplusAt(r)'
<1>1. NeedAt(r) /\ SidesAt(r) /\ SurplusAt(r)
  BY DEF SideInv
<1>2. pc[r] \in {"post", "fin"}
  BY DEF PostWindow, PostFin
<1>3. r \in Paired /\ call[r] \in 1 .. Len(Calls)
  BY <1>1, <1>2, WaitingNeeds DEF Looping
<1>4. r \in Senders <=> r \notin Receivers
  BY <1>3, Pairs
<1> DEFINE d == SendOps(Calls[call[r]])
<1>5. /\ d \in Nat /\ d >= 1 /\ RecvOps(Calls[call[r]]) = d /\ CompsPerWindow(Calls[call[r]]) = d
  BY <1>3, WindowOps
<1>6. CASE PostWindow(r)
  <2>1. /\ pc'[r] = "waitw" /\ need'[r] = d /\ call' = call
        /\ UNCHANGED <<optVars, scomp, rcomp, rerr, errors, giveups>>
        /\ r \in Senders => sends'[r] = sends[r] + d /\ posted'[r] = posted[r]
        /\ r \notin Senders => posted'[r] = posted[r] + d /\ sends'[r] = sends[r]
    BY <1>5, <1>6 DEF PostWindow, Set, Add, Types
  <2>2. NeedAt(r)'
    BY <1>5, <2>1 DEF NeedAt
  <2>3. /\ r \in Senders => RecvWait(r)' = 0 /\ SendWait(r)' = d
        /\ r \notin Senders => RecvWait(r)' = d /\ SendWait(r)' = 0
    BY <1>4, <2>1 DEF RecvWait, SendWait, OnRecvSide, Waiting
  <2> HIDE DEF d
  <2> QED
    BY <1>1, <1>2, <1>5, <2>1, <2>2, <2>3, SidesPosted DEF Waiting
<1>7. CASE PostFin(r)
  <2>1. /\ pc'[r] = "waitf" /\ need'[r] = 1
        /\ UNCHANGED <<optVars, scomp, rcomp, rerr, errors, giveups>>
        /\ r \in Receivers => sends'[r] = sends[r] + 1 /\ posted'[r] = posted[r]
        /\ r \notin Receivers => posted'[r] = posted[r] + 1 /\ sends'[r] = sends[r]
    BY <1>7 DEF PostFin, Set, Add, Types
  <2>2. NeedAt(r)'
    BY <2>1 DEF NeedAt
  <2>3. /\ r \in Receivers => RecvWait(r)' = 0 /\ SendWait(r)' = 1
        /\ r \notin Receivers => RecvWait(r)' = 1 /\ SendWait(r)' = 0
    BY <2>1 DEF RecvWait, SendWait, OnRecvSide, Waiting
  <2> QED
    BY <1>1, <1>2, <2>1, <2>2, <2>3, SidesPosted DEF Waiting
<1> QED
  BY <1>6, <1>7

(* The operations that a waiting rank is not waiting for                    *)
LEMMA WaitingSides ==
  ASSUME Types, Places, SideInv, NEW r \in Ranks, pc[r] \in Waiting
  PROVE  /\ NeedAt(r) /\ SidesAt(r) /\ SurplusAt(r)
         /\ need[r] \in Nat /\ need[r] >= 1 /\ need[r] <= MaxWindow /\ MaxWindow \in Nat
         /\ RecvWait(r) = IF OnRecvSide(r) THEN need[r] ELSE 0
         /\ SendWait(r) = IF OnRecvSide(r) THEN 0 ELSE need[r]
<1>1. NeedAt(r) /\ SidesAt(r) /\ SurplusAt(r)
  BY DEF SideInv
<1> QED
  BY <1>1, WaitingNeeds, WindowMax DEF Waiting, Looping, RecvWait, SendWait

LEMMA SidesOfReading ==
  ASSUME Types, Places, SideInv, NEW r \in Ranks, WaitCq(r)
  PROVE  NeedAt(r)' /\ SidesAt(r)' /\ SurplusAt(r)'
<1>1. /\ NeedAt(r) /\ SidesAt(r) /\ SurplusAt(r) /\ pc[r] \in Waiting
      /\ test_type = "CQ" /\ test_type' = test_type /\ call' = call
      /\ sends'[r] = sends[r] /\ posted'[r] = posted[r]
      /\ errors' = errors /\ giveups' = giveups
      /\ IF need'[r] = 0 THEN Resume(r) ELSE UNCHANGED <<pc, i, colls>>
  BY DEF SideInv, WaitCq, Waiting, optVars
<1> USE CountsOf
<1>2. PICK e, n, g \in Int :
        /\ e = errors - rerr[r] /\ n = Slack(e) /\ g = Loss(giveups)
        /\ Slack(e + 1) = n + MaxWindow - 1 /\ n <= Slack(e + 1)
        /\ Loss(giveups + 1) = g + MaxWindow /\ Loss(giveups + 1) \in Int
        /\ posted[r] + rcomp[r] + rerr[r] <= RecvWait(r) + n + g
        /\ sends[r] + scomp[r] <= SendWait(r) + g
  BY <1>1, SurplusOf
<1>3. /\ need[r] >= 1 /\ need[r] <= MaxWindow /\ MaxWindow \in Nat
      /\ RecvWait(r) = IF OnRecvSide(r) THEN need[r] ELSE 0
      /\ SendWait(r) = IF OnRecvSide(r) THEN 0 ELSE need[r]
  BY <1>1, WaitingSides
<1>4. CASE /\ OnRecvSide(r) /\ rcomp[r] > 0 /\ rcomp' = Add(rcomp, r, -1)
           /\ need' = Add(need, r, -1) /\ UNCHANGED <<scomp, rerr>>
  <2>1. rcomp'[r] = rcomp[r] - 1 /\ need'[r] = need[r] - 1 /\ scomp'[r] = scomp[r] /\ rerr'[r] = rerr[r]
    BY <1>4 DEF Add, Types
  <2>2. NeedAt(r)' /\ RecvWait(r)' = need[r] - 1 /\ SendWait(r)' = 0
    BY <1>1, <1>3, <1>4, <2>1, WaitMoves
  <2>3. /\ giveups = 0 => sends[r] + scomp[r] = 0
        /\ giveups = 0 /\ (r \notin Receivers \/ errors = 0) =>
             posted[r] + (rcomp[r] - 1) = need[r] - 1 /\ rerr[r] = 0
    BY <1>1, <1>3, <1>4 DEF SidesAt
  <2>4. SidesAt(r)'
    BY <1>1, <2>1, <2>2, <2>3 DEF SidesAt
  <2>5. /\ posted'[r] + rcomp'[r] + rerr'[r] <= (need[r] - 1) + n + g
        /\ sends'[r] + scomp'[r] <= 0 + g /\ errors' - rerr'[r] = e
    BY <1>1, <1>2, <1>3, <1>4, <2>1
  <2>6. SurplusAt(r)'
    BY <1>1, <1>2, <2>1, <2>2, <2>5, SurplusNext
  <2> QED
    BY <2>2, <2>4, <2>6
<1>5. CASE /\ OnRecvSide(r) /\ rerr[r] > 0 /\ rerr' = Add(rerr, r, -1)
           /\ need' = Set(need, r, 0) /\ UNCHANGED <<scomp, rcomp>>
  <2>1. rerr'[r] = rerr[r] - 1 /\ need'[r] = 0 /\ scomp'[r] = scomp[r] /\ rcomp'[r] = rcomp[r]
    BY <1>5 DEF Add, Set, Types
  <2>2. NeedAt(r)' /\ RecvWait(r)' = 0 /\ SendWait(r)' = 0
    BY <1>1, <1>3, <1>5, <2>1, WaitMoves
  <2>3. /\ giveups = 0 => sends[r] + scomp[r] = 0
        /\ ~(giveups = 0 /\ (r \notin Receivers \/ errors = 0))
    BY <1>1, <1>3, <1>5 DEF SidesAt
  <2>4. SidesAt(r)'
    BY <1>1, <2>1, <2>2, <2>3 DEF SidesAt
  <2>5. /\ posted'[r] + rcomp'[r] + rerr'[r] <= 0 + (n + MaxWindow - 1) + g
        /\ sends'[r] + scomp'[r] <= 0 + g /\ errors' - rerr'[r] = e + 1
    BY <1>1, <1>2, <1>3, <1>5, <2>1
  <2>6. SurplusAt(r)'
    BY <1>1, <1>2, <1>3, <2>1, <2>2, <2>5, SurplusNext
  <2> QED
    BY <2>2, <2>4, <2>6
<1>6. CASE /\ ~OnRecvSide(r) /\ scomp[r] > 0 /\ scomp' = Add(scomp, r, -1)
           /\ need' = Add(need, r, -1) /\ UNCHANGED <<rcomp, rerr>>
  <2>1. scomp'[r] = scomp[r] - 1 /\ need'[r] = need[r] - 1 /\ rcomp'[r] = rcomp[r] /\ rerr'[r] = rerr[r]
    BY <1>6 DEF Add, Types
  <2>2. NeedAt(r)' /\ RecvWait(r)' = 0 /\ SendWait(r)' = need[r] - 1
    BY <1>1, <1>3, <1>6, <2>1, WaitMoves
  <2>3. /\ giveups = 0 => sends[r] + (scomp[r] - 1) = need[r] - 1
        /\ giveups = 0 /\ (r \notin Receivers \/ errors = 0) =>
             posted[r] + rcomp[r] = 0 /\ rerr[r] = 0
    BY <1>1, <1>3, <1>6 DEF SidesAt
  <2>4. SidesAt(r)'
    BY <1>1, <2>1, <2>2, <2>3 DEF SidesAt
  <2>5. /\ posted'[r] + rcomp'[r] + rerr'[r] <= 0 + n + g
        /\ sends'[r] + scomp'[r] <= (need[r] - 1) + g /\ errors' - rerr'[r] = e
    BY <1>1, <1>2, <1>3, <1>6, <2>1
  <2>6. SurplusAt(r)'
    BY <1>1, <1>2, <2>1, <2>2, <2>5, SurplusNext
  <2> QED
    BY <2>2, <2>4, <2>6
<1> QED
  BY <1>4, <1>5, <1>6 DEF WaitCq

LEMMA SidesOfCounters ==
  ASSUME Types, Places, SideInv, NEW r \in Ranks, WaitCntr(r)
  PROVE  NeedAt(r)' /\ SidesAt(r)' /\ SurplusAt(r)'
<1>1. /\ NeedAt(r) /\ SidesAt(r) /\ SurplusAt(r) /\ pc[r] \in Waiting
      /\ test_type = "CNTR" /\ test_type' = test_type /\ call' = call
      /\ sends'[r] = sends[r] /\ posted'[r] = posted[r] /\ rerr'[r] = rerr[r]
      /\ errors' = errors /\ giveups' = giveups /\ Resume(r) /\ need'[r] = 0
  BY DEF SideInv, WaitCntr, Waiting, optVars, Set, Types
<1> USE CountsOf
<1>2. PICK e, n, g \in Int :
        /\ e = errors - rerr[r] /\ n = Slack(e) /\ g = Loss(giveups)
        /\ Slack(e + 1) = n + MaxWindow - 1 /\ n <= Slack(e + 1)
        /\ Loss(giveups + 1) = g + MaxWindow /\ Loss(giveups + 1) \in Int
        /\ posted[r] + rcomp[r] + rerr[r] <= RecvWait(r) + n + g
        /\ sends[r] + scomp[r] <= SendWait(r) + g
  BY <1>1, SurplusOf
<1>3. /\ need[r] >= 1
      /\ RecvWait(r) = IF OnRecvSide(r) THEN need[r] ELSE 0
      /\ SendWait(r) = IF OnRecvSide(r) THEN 0 ELSE need[r]
  BY <1>1, WaitingSides
<1>4. NeedAt(r)' /\ RecvWait(r)' = 0 /\ SendWait(r)' = 0
  BY <1>1, WaitMoves
<1>5. rerr[r] = 0
  BY <1>1 DEF SurplusAt
<1>6. CASE OnRecvSide(r)
  <2>1. rcomp'[r] = 0 /\ scomp'[r] = scomp[r] /\ rcomp[r] >= need[r]
    BY <1>6 DEF WaitCntr, ResetCntr, Set, Types
  <2>2. /\ giveups = 0 => sends[r] + scomp[r] = 0
        /\ giveups = 0 /\ (r \notin Receivers \/ errors = 0) => posted[r] + 0 = 0
        /\ giveups = 0 => posted[r] + 0 <= 0
    BY <1>1, <1>3, <1>6, <2>1 DEF SidesAt
  <2>3. SidesAt(r)'
    BY <1>1, <1>4, <1>5, <2>1, <2>2 DEF SidesAt
  <2>4. /\ posted'[r] + rcomp'[r] + rerr'[r] <= 0 + n + g
        /\ sends'[r] + scomp'[r] <= 0 + g /\ errors' - rerr'[r] = e
    BY <1>1, <1>2, <1>3, <1>6, <2>1
  <2>5. SurplusAt(r)'
    BY <1>1, <1>2, <1>4, <1>5, <2>1, <2>4, SurplusNext
  <2> QED
    BY <1>4, <2>3, <2>5
<1>7. CASE ~OnRecvSide(r)
  <2>1. scomp'[r] = 0 /\ rcomp'[r] = rcomp[r] /\ scomp[r] >= need[r]
    BY <1>7 DEF WaitCntr, ResetCntr, Set, Types
  <2>2. /\ giveups = 0 => sends[r] + 0 = 0
        /\ giveups = 0 /\ (r \notin Receivers \/ errors = 0) => posted[r] + rcomp[r] = 0
        /\ giveups = 0 => posted[r] + rcomp[r] <= 0
    BY <1>1, <1>3, <1>7, <2>1 DEF SidesAt
  <2>3. SidesAt(r)'
    BY <1>1, <1>4, <1>5, <2>1, <2>2 DEF SidesAt
  <2>4. /\ posted'[r] + rcomp'[r] + rerr'[r] <= 0 + n + g
        /\ sends'[r] + scomp'[r] <= 0 + g /\ errors' - rerr'[r] = e
    BY <1>1, <1>2, <1>3, <1>7, <2>1
  <2>5. SurplusAt(r)'
    BY <1>1, <1>2, <1>4, <1>5, <2>1, <2>4, SurplusNext
  <2> QED
    BY <1>4, <2>3, <2>5
<1> QED
  BY <1>6, <1>7

(* A wait that gives up leaves at most what it was for.                    *)
LEMMA SidesOfGivingUp ==
  ASSUME Types, Places, SideInv, NEW r \in Ranks, GiveUp(r)
  PROVE  NeedAt(r)' /\ SidesAt(r)' /\ SurplusAt(r)'
<1>1. /\ NeedAt(r) /\ SidesAt(r) /\ SurplusAt(r) /\ pc[r] \in Waiting
      /\ test_type' = test_type /\ call' = call
      /\ sends'[r] = sends[r] /\ posted'[r] = posted[r] /\ rerr'[r] = rerr[r]
      /\ errors' = errors /\ giveups' = giveups + 1 /\ Resume(r) /\ need'[r] = 0
  BY DEF SideInv, GiveUp, Waiting, optVars, Set, Types
<1> USE CountsOf
<1>2. PICK e, n, g \in Int :
        /\ e = errors - rerr[r] /\ n = Slack(e) /\ g = Loss(giveups)
        /\ Slack(e + 1) = n + MaxWindow - 1 /\ n <= Slack(e + 1)
        /\ Loss(giveups + 1) = g + MaxWindow /\ Loss(giveups + 1) \in Int
        /\ posted[r] + rcomp[r] + rerr[r] <= RecvWait(r) + n + g
        /\ sends[r] + scomp[r] <= SendWait(r) + g
  BY <1>1, SurplusOf
<1>3. /\ need[r] <= MaxWindow /\ MaxWindow \in Nat
      /\ RecvWait(r) = IF OnRecvSide(r) THEN need[r] ELSE 0
      /\ SendWait(r) = IF OnRecvSide(r) THEN 0 ELSE need[r]
  BY <1>1, WaitingSides
<1>4. NeedAt(r)' /\ RecvWait(r)' = 0 /\ SendWait(r)' = 0
  BY <1>1, WaitMoves
<1>5. /\ rcomp'[r] = 0 \/ rcomp'[r] = rcomp[r]
      /\ scomp'[r] = 0 \/ scomp'[r] = scomp[r]
  BY DEF GiveUp, ResetCntr, Set, Types
<1>6. SidesAt(r)'
  BY <1>1 DEF SidesAt
<1>7. /\ posted'[r] + rcomp'[r] + rerr'[r] \in Int /\ sends'[r] + scomp'[r] \in Int
      /\ posted'[r] + rcomp'[r] + rerr'[r] <= posted[r] + rcomp[r] + rerr[r]
      /\ sends'[r] + scomp'[r] <= sends[r] + scomp[r]
  BY <1>1, <1>5
<1>8. RecvWait(r) <= MaxWindow /\ SendWait(r) <= MaxWindow
  BY <1>3
<1>9. /\ posted'[r] + rcomp'[r] + rerr'[r] <= 0 + n + (g + MaxWindow)
      /\ sends'[r] + scomp'[r] <= 0 + (g + MaxWindow) /\ errors' - rerr'[r] = e
  BY <1>1, <1>2, <1>3, <1>7, <1>8
<1>10. test_type' = "CNTR" => rerr'[r] = 0
  BY <1>1 DEF SurplusAt
<1>11. SurplusAt(r)'
  BY <1>1, <1>2, <1>3, <1>4, <1>7, <1>9, <1>10, SurplusNext
<1> QED
  BY <1>4, <1>6, <1>11

LEMMA SidesOfFabric ==
  ASSUME Types, Places, SideInv, NEW r \in Ranks, FabricStep(r)
  PROVE  NeedAt(r)' /\ SidesAt(r)' /\ SurplusAt(r)'
<1>1. /\ NeedAt(r) /\ SidesAt(r) /\ SurplusAt(r)
      /\ test_type' = test_type /\ giveups' = giveups /\ UNCHANGED <<pc, call, i, colls, need>>
  BY DEF SideInv, FabricStep, SendDone, RecvDone, optVars, procVars
<1> USE CountsOf
<1>2. PICK e, n, g \in Int :
        /\ e = errors - rerr[r] /\ n = Slack(e) /\ g = Loss(giveups)
        /\ Slack(e + 1) = n + MaxWindow - 1 /\ n <= Slack(e + 1)
        /\ Loss(giveups + 1) = g + MaxWindow /\ Loss(giveups + 1) \in Int
        /\ posted[r] + rcomp[r] + rerr[r] <= RecvWait(r) + n + g
        /\ sends[r] + scomp[r] <= SendWait(r) + g
  BY <1>1, SurplusOf
<1>3. NeedAt(r)' /\ RecvWait(r)' = RecvWait(r) /\ SendWait(r)' = SendWait(r)
  BY <1>1 DEF NeedAt, RecvWait, SendWait, OnRecvSide
<1>4. test_type = "CNTR" => rerr[r] = 0
  BY <1>1 DEF SurplusAt
<1>5. CASE SendDone(r)
  <2>1. /\ sends'[r] = sends[r] - 1 /\ scomp'[r] = scomp[r] + 1 /\ posted'[r] = posted[r]
        /\ rcomp'[r] = rcomp[r] /\ rerr'[r] = rerr[r] /\ errors' = errors
    BY <1>5 DEF SendDone, Add, Types
  <2>2. sends'[r] + scomp'[r] = sends[r] + scomp[r]
    BY <2>1
  <2>3. SidesAt(r)'
    BY <1>1, <1>3, <2>1, <2>2 DEF SidesAt
  <2>4. errors' - rerr'[r] = e
    BY <1>2, <2>1
  <2>5. SurplusAt(r)'
    BY <1>1, <1>2, <1>3, <1>4, <2>1, <2>2, <2>4, SurplusNext
  <2> QED
    BY <1>3, <2>3, <2>5
<1>6. CASE RecvDone(r)
  <2>1. /\ posted'[r] = posted[r] - 1 /\ posted[r] > 0
        /\ sends'[r] = sends[r] /\ scomp'[r] = scomp[r]
    BY <1>6 DEF RecvDone, Add, Types
  <2>2. CASE rcomp' = Add(rcomp, r, 1) /\ UNCHANGED <<rerr, errors>>
    <3>1. rcomp'[r] = rcomp[r] + 1 /\ rerr'[r] = rerr[r] /\ errors' = errors
      BY <2>2 DEF Add, Types
    <3>2. posted'[r] + rcomp'[r] = posted[r] + rcomp[r]
      BY <2>1, <3>1
    <3>3. SidesAt(r)'
      BY <1>1, <1>3, <2>1, <3>1, <3>2 DEF SidesAt
    <3>4. errors' - rerr'[r] = e /\ posted'[r] + rcomp'[r] + rerr'[r] = posted[r] + rcomp[r] + rerr[r]
      BY <1>2, <2>1, <3>1
    <3>5. SurplusAt(r)'
      BY <1>1, <1>2, <1>3, <1>4, <2>1, <3>1, <3>4, SurplusNext
    <3> QED
      BY <1>3, <3>3, <3>5
  <2>3. CASE /\ r \in Receivers /\ errors' = errors + 1 /\ UNCHANGED rcomp
             /\ rerr' = IF test_type = "CQ" THEN Add(rerr, r, 1) ELSE rerr
    <3>1. rcomp'[r] = rcomp[r] /\ errors' = errors + 1 /\ errors' # 0
      BY <2>3
    <3>2. \/ test_type = "CQ" /\ rerr'[r] = rerr[r] + 1
          \/ test_type # "CQ" /\ rerr'[r] = rerr[r]
      BY <2>3 DEF Add, Types
    <3>3. SidesAt(r)'
      <4>1. giveups = 0 /\ test_type = "CNTR" => posted'[r] + rcomp'[r] <= RecvWait(r)
        BY <1>1, <2>1, <3>1 DEF SidesAt
      <4> QED
        BY <1>1, <1>3, <2>1, <2>3, <3>1, <4>1 DEF SidesAt
    <3>4. CASE test_type = "CQ" /\ rerr'[r] = rerr[r] + 1
      <4>1. errors' - rerr'[r] = e /\ posted'[r] + rcomp'[r] + rerr'[r] = posted[r] + rcomp[r] + rerr[r]
        BY <1>2, <2>1, <3>1, <3>4
      <4>2. SurplusAt(r)'
        BY <1>1, <1>2, <1>3, <2>1, <3>4, <4>1, SurplusNext
      <4> QED
        BY <1>3, <3>3, <4>2
    <3>5. CASE rerr'[r] = rerr[r]
      <4>1. errors' - rerr'[r] = e + 1
        BY <1>2, <3>1, <3>5
      <4>2. posted'[r] + rcomp'[r] + rerr'[r] = posted[r] + rcomp[r] + rerr[r] - 1
        BY <2>1, <3>1, <3>5
      <4>3. /\ posted'[r] + rcomp'[r] + rerr'[r] <= RecvWait(r) + Slack(e + 1) + g
            /\ sends[r] + scomp[r] <= SendWait(r) + g
        BY <1>2, <4>2, WindowMax
      <4>4. SurplusAt(r)'
        BY <1>1, <1>2, <1>3, <1>4, <2>1, <3>5, <4>1, <4>3, SurplusNext
      <4> QED
        BY <1>3, <3>3, <4>4
    <3> QED
      BY <3>2, <3>4, <3>5
  <2> QED
    BY <1>6, <2>2, <2>3 DEF RecvDone
<1> QED
  BY <1>5, <1>6 DEF FabricStep

(* No step of a rank or of the fabric disturbs any rank's counts.          *)
LEMMA SideStep ==
  ASSUME Types, Places, SideInv, NEW r \in Ranks, StepOf(r)
  PROVE  SideInv'
<1>1. NeedAt(r)' /\ SidesAt(r)' /\ SurplusAt(r)'
  BY SidesOfLeaving, SidesOfPosting, SidesOfReading, SidesOfCounters, SidesOfGivingUp, SidesOfFabric
     DEF StepOf, RankStep
<1>2. Alone(r) /\ AloneMoves(r)
  BY CountStep, Moves, TypesSplit DEF MovesWell
<1>3. \A q \in Ranks : q # r => NeedAt(q)' /\ SidesAt(q)' /\ SurplusAt(q)'
  BY <1>2, SidesElsewhere
<1> QED
  BY <1>1, <1>3 DEF SideInv

-----------------------------------------------------------------------------
(* Messages of a pair.  What a rank has sent, posted and received in its   *)
(* call, after a step                                                      *)
KeepsProgress(q) ==
  /\ call'[q] = call[q] /\ SentBy(q)' = SentBy(q) /\ PostedBy(q)' = PostedBy(q)
  /\ Arrived(q)' = Arrived(q)

LEMMA InCall ==
  ASSUME Types, Places, NEW r \in Ranks, pc[r] \notin {"fini", "closed"}
  PROVE  call[r] \in 1 .. Len(Calls)
<1>1. call[r] \in 1 .. Len(Calls) + 1
  BY DEF Types
<1>2. call[r] # Len(Calls) + 1
  BY DEF Places, PlaceAt, PlaceOk
<1> QED
  BY <1>1, <1>2, CallsNat

LEMMA ProgressTypes ==
  ASSUME Types, Places, NEW r \in Ranks
  PROVE  SentBy(r) \in Nat /\ PostedBy(r) \in Nat /\ Arrived(r) \in Nat
<1>1. i[r] \in Nat /\ recvd[r] \in Nat /\ Windows(r) \in Nat /\ Fins(r) \in Nat
  BY Tunables DEF Types, Windows, Fins
<1>2. CASE pc[r] \in Outside
  BY <1>1, <1>2 DEF SentBy, PostedBy, Arrived
<1>3. CASE pc[r] \notin Outside
  <2>1. call[r] \in 1 .. Len(Calls)
    BY <1>3, InCall DEF Outside
  <2>2. Data(r) \in Nat
    BY <1>1, <2>1, Payloads DEF Data
  <2> QED
    BY <1>1, <1>3, <2>2 DEF SentBy, PostedBy, Arrived
<1> QED
  BY <1>2, <1>3

LEMMA ProgressElsewhere ==
  ASSUME NEW r \in Ranks, NEW q \in Ranks, q # r, AloneMoves(r), Alone(r)
  PROVE  KeepsProgress(q) /\ posted'[q] = posted[q]
<1>1. KeepsPlace(q) /\ recvd'[q] = recvd[q] /\ posted'[q] = posted[q]
  BY DEF AloneMoves, Alone
<1>2. Windows(q)' = Windows(q) /\ Fins(q)' = Fins(q)
  BY <1>1 DEF KeepsPlace, Windows, Fins
<1>3. Data(q)' = Data(q)
  BY <1>1, <1>2 DEF KeepsPlace, Data
<1> QED
  BY <1>1, <1>2, <1>3 DEF KeepsPlace, KeepsProgress, SentBy, PostedBy, Arrived

(* What has failed stays so.                                               *)
LEMMA CleanBefore ==
  ASSUME Types, NEW r \in Ranks, Alone(r), Clean'
  PROVE  Clean
  BY DEF Clean, Alone, Types

(* The steps that do not post, receive or begin another call               *)
LEMMA ProgressKept ==
  ASSUME Types, Places, NEW r \in Ranks, r \in Paired,
         \/ LeaveBar0(r) \/ LeaveBar1(r) \/ WaitCq(r) \/ WaitCntr(r) \/ GiveUp(r)
         \/ Close(r) \/ SendDone(r)
  PROVE  KeepsProgress(r)
<1> i[r] \in Nat
  BY Tunables DEF Types
<1>1. CASE LeaveBar0(r)
  <2>1. pc[r] = "bar0" /\ recvd'[r] = 0 /\ call' = call /\ Iterate(r, 0)
    BY <1>1, Pairs DEF LeaveBar0, Set, Types
  <2>2. pc'[r] = "post" /\ i'[r] = 0
    BY <2>1, IterateMoves, TypesSplit, Tunables DEF IteratesTo, Goes
  <2>3. call[r] \in 1 .. Len(Calls)
    BY <2>1, InCall
  <2>4. Data(r)' = 0 /\ Fins(r)' = 0
    BY <2>1, <2>2, <2>3, Payloads DEF Data, Windows, Fins
  <2> QED
    BY <2>1, <2>2, <2>4 DEF KeepsProgress, SentBy, PostedBy, Arrived, Outside
<1>2. CASE LeaveBar1(r)
  <2>1. /\ pc[r] = "bar1" /\ pc'[r] = "post" /\ call' = call /\ i' = i /\ recvd' = recvd
    BY <1>2, Pairs DEF LeaveBar1, Set, Types, epVars
  <2>2. Windows(r)' = Windows(r) /\ Fins(r)' = Fins(r)
    BY <2>1 DEF Windows, Fins
  <2>3. Data(r)' = Data(r)
    BY <2>1, <2>2 DEF Data
  <2> QED
    BY <2>1, <2>2, <2>3 DEF KeepsProgress, SentBy, PostedBy, Arrived, Outside
<1>3. CASE WaitCq(r) \/ WaitCntr(r) \/ GiveUp(r)
  <2>1. /\ pc[r] \in Waiting /\ call' = call /\ recvd' = recvd
        /\ Resume(r) \/ UNCHANGED <<pc, i, colls>>
    BY <1>3 DEF WaitCq, WaitCntr, GiveUp, Waiting
  <2>2. /\ pc'[r] \notin Outside /\ Windows(r)' = Windows(r) /\ Fins(r)' = Fins(r)
    <3>1. CASE UNCHANGED <<pc, i, colls>>
      BY <2>1, <3>1 DEF Windows, Fins, Waiting, Outside
    <3>2. CASE Resume(r)
      <4>1. ResumesTo(r)
        BY <2>1, <3>2, ResumeMoves, TypesSplit
      <4>2. CASE pc[r] = "waitw" /\ Goes(r, "fin", call[r], i[r], colls[r])
        BY <4>2 DEF Goes, Windows, Fins, Outside
      <4>3. CASE pc[r] = "waitf" /\ IteratesTo(r, i[r] + 1)
        BY <4>3 DEF IteratesTo, Goes, Windows, Fins, Outside
      <4> QED
        BY <4>1, <4>2, <4>3 DEF ResumesTo
    <3> QED
      BY <2>1, <3>1, <3>2
  <2>3. Data(r)' = Data(r)
    BY <2>1, <2>2 DEF Data
  <2> QED
    BY <2>1, <2>2, <2>3 DEF KeepsProgress, SentBy, PostedBy, Arrived, Outside, Waiting
<1>4. CASE Close(r)
  BY <1>4 DEF Close, Set, Types, KeepsProgress, SentBy, PostedBy, Arrived, Outside
<1>5. CASE SendDone(r)
  <2>1. UNCHANGED <<pc, call, i, recvd>>
    BY <1>5 DEF SendDone, procVars
  <2> QED
    BY <2>1 DEF KeepsProgress, SentBy, PostedBy, Arrived, Data, Windows, Fins
<1> QED
  BY <1>1, <1>2, <1>3, <1>4, <1>5

(* Where no rank's progress changes, the pairs stay as they are.           *)
LEMMA FlowKept ==
  ASSUME PairInv, FlowInv, \A q \in Paired : KeepsProgress(q),
         UNCHANGED <<posted, net>>, Clean' => Clean
  PROVE  PairInv' /\ FlowInv'
<1>1. PairInv'
  BY DEF PairInv, ReceivedAt, KeepsProgress
<1>2. ASSUME NEW q \in Ranks PROVE UnderWayAt(q)'
  <2>1. CASE q \notin Paired
    BY <2>1 DEF FlowInv, UnderWayAt
  <2>2. CASE q \in Paired
    <3>1. KeepsProgress(q) /\ KeepsProgress(target(q)) /\ UnderWayAt(q)
      BY <2>2, Pairs DEF FlowInv
    <3> QED
      BY <2>2, <3>1 DEF UnderWayAt, KeepsProgress
  <2> QED
    BY <2>1, <2>2
<1> QED
  BY <1>1, <1>2 DEF FlowInv

LEMMA FlowOfOthers ==
  ASSUME Types, Places, SideInv, PairInv, FlowInv, NEW r \in Ranks,
         \/ LeaveBar0(r) \/ LeaveBar1(r) \/ WaitCq(r) \/ WaitCntr(r) \/ GiveUp(r)
         \/ Close(r) \/ SendDone(r)
  PROVE  PairInv' /\ FlowInv'
<1>1. AloneMoves(r) /\ Alone(r)
  BY CountStep, Moves, TypesSplit DEF MovesWell, StepOf, RankStep, FabricStep
<1>2. \A q \in Paired : KeepsProgress(q)
  BY <1>1, ProgressElsewhere, ProgressKept, Pairs
<1>3. UNCHANGED <<posted, net>>
  BY DEF LeaveBar0, LeaveBar1, WaitCq, WaitCntr, GiveUp, Close, SendDone, epVars
<1>4. Clean' => Clean
  BY <1>1, CleanBefore
<1> QED
  BY <1>2, <1>3, <1>4, FlowKept

(* Posting n operations on one side                                        *)
LEMMA PostingProgress ==
  ASSUME Types, Places, NEW r \in Ranks, PostWindow(r) \/ PostFin(r)
  PROVE  /\ r \in Paired /\ pc[r] \in Looping /\ call'[r] = call[r] /\ Arrived(r)' = Arrived(r)
         /\ Clean' = Clean
         /\ \E n \in Nat :
              \/ /\ SentBy(r)' = SentBy(r) + n /\ PostedBy(r)' = PostedBy(r)
                 /\ net' = [net EXCEPT ![target(r)] = net[target(r)] + n] /\ posted' = posted
              \/ /\ SentBy(r)' = SentBy(r) /\ PostedBy(r)' = PostedBy(r) + n
                 /\ posted' = [posted EXCEPT ![r] = posted[r] + n] /\ net' = net
<1>1. pc[r] \in {"post", "fin"}
  BY DEF PostWindow, PostFin
<1>2. r \in Paired /\ pc[r] \in Looping
  BY <1>1 DEF Places, PlaceAt, PlaceOk, Looping
<1>3. call[r] \in 1 .. Len(Calls) /\ i[r] \in Nat
  <2>1. i[r] \in Nat
    BY Tunables DEF Types
  <2> QED
    BY <1>1, <2>1, InCall
<1>4. r \in Senders <=> r \notin Receivers
  BY <1>2, Pairs
<1>5. CASE PostWindow(r)
  <2> DEFINE d == SendOps(Calls[call[r]])
  <2>1. /\ pc[r] = "post" /\ pc'[r] = "waitw" /\ i' = i /\ call' = call /\ recvd' = recvd
        /\ Clean' = Clean
    BY <1>5 DEF PostWindow, Set, Types, Clean
  <2>2. Windows(r)' = Windows(r) + 1 /\ Windows(r) \in Nat /\ Fins(r)' = Fins(r)
    BY <1>3, <2>1 DEF Windows, Fins
  <2>3. Data(r)' = Data(r) + d /\ d \in Nat
    BY <1>3, <2>1, <2>2, Payloads, WindowOps DEF Data
  <2>4. /\ Arrived(r)' = Arrived(r)
        /\ r \in Senders => SentBy(r)' = SentBy(r) + d /\ PostedBy(r)' = PostedBy(r)
        /\ r \notin Senders => SentBy(r)' = SentBy(r) /\ PostedBy(r)' = PostedBy(r) + d
    BY <2>1, <2>2, <2>3 DEF Arrived, SentBy, PostedBy, Outside
  <2>5. /\ r \in Senders =>
             net' = [net EXCEPT ![target(r)] = net[target(r)] + d] /\ posted' = posted
        /\ r \notin Senders =>
             posted' = [posted EXCEPT ![r] = posted[r] + d] /\ net' = net
    BY <1>3, <1>5, WindowOps DEF PostWindow, Add
  <2> QED
    BY <1>2, <2>1, <2>3, <2>4, <2>5
<1>6. CASE PostFin(r)
  <2>1. /\ pc[r] = "fin" /\ pc'[r] = "waitf" /\ i' = i /\ call' = call /\ recvd' = recvd
        /\ Clean' = Clean
    BY <1>6 DEF PostFin, Set, Types, Clean
  <2>2. Windows(r)' = Windows(r) /\ Fins(r)' = Fins(r) + 1
    BY <1>3, <2>1 DEF Windows, Fins
  <2>3. Data(r)' = Data(r)
    BY <2>1, <2>2 DEF Data
  <2>4. /\ Arrived(r)' = Arrived(r)
        /\ r \notin Senders => SentBy(r)' = SentBy(r) + 1 /\ PostedBy(r)' = PostedBy(r)
        /\ r \in Senders => SentBy(r)' = SentBy(r) /\ PostedBy(r)' = PostedBy(r) + 1
    BY <2>1, <2>2, <2>3 DEF Arrived, SentBy, PostedBy, Outside
  <2>5. /\ r \notin Senders =>
             net' = [net EXCEPT ![target(r)] = net[target(r)] + 1] /\ posted' = posted
        /\ r \in Senders => posted' = [posted EXCEPT ![r] = posted[r] + 1] /\ net' = net
    BY <1>4, <1>6 DEF PostFin, Add
  <2> QED
    BY <1>2, <2>1, <2>4, <2>5
<1> QED
  BY <1>5, <1>6

LEMMA FlowOfPosting ==
  ASSUME StepInv, SideInv, PairInv, FlowInv, NEW r \in Ranks, PostWindow(r) \/ PostFin(r)
  PROVE  PairInv' /\ FlowInv'
<1> Types /\ Places /\ Passed /\ PlaceTypes
  BY TypesSplit DEF StepInv
<1>1. AloneMoves(r) /\ Alone(r)
  BY CountStep, Moves DEF MovesWell, StepOf, RankStep
<1>2. /\ r \in Paired /\ pc[r] \in Looping /\ call'[r] = call[r] /\ Arrived(r)' = Arrived(r)
      /\ Clean' = Clean
  BY PostingProgress
<1>3. \A q \in Ranks : q # r => KeepsProgress(q) /\ posted'[q] = posted[q]
  BY <1>1, ProgressElsewhere
<1>4. target(r) \in Ranks /\ target(r) # r /\ target(target(r)) = r /\ target(r) \in Paired
  BY <1>2, Pairs
<1>5. call[target(r)] = call[r]
  BY <1>2, <1>4, SameCall
<1>6. /\ \A q \in Ranks : SentBy(q) \in Nat /\ PostedBy(q) \in Nat /\ Arrived(q) \in Nat
      /\ net \in [Ranks -> Nat] /\ posted \in [Ranks -> Nat]
  BY ProgressTypes DEF Types
<1>7. PICK n \in Nat :
        \/ /\ SentBy(r)' = SentBy(r) + n /\ PostedBy(r)' = PostedBy(r)
           /\ net' = [net EXCEPT ![target(r)] = net[target(r)] + n] /\ posted' = posted
        \/ /\ SentBy(r)' = SentBy(r) /\ PostedBy(r)' = PostedBy(r) + n
           /\ posted' = [posted EXCEPT ![r] = posted[r] + n] /\ net' = net
  BY PostingProgress
<1>8. PairInv'
  <2> SUFFICES ASSUME NEW q \in Ranks, q \in Paired, Clean
               PROVE  Arrived(q)' + posted'[q] = PostedBy(q)'
    BY <1>2 DEF PairInv, ReceivedAt
  <2>1. Arrived(q) + posted[q] = PostedBy(q)
    BY DEF PairInv, ReceivedAt
  <2>2. CASE q # r
    BY <1>3, <2>1, <2>2 DEF KeepsProgress
  <2>3. CASE q = r
    <3>1. \/ PostedBy(r)' = PostedBy(r) /\ posted'[r] = posted[r]
          \/ PostedBy(r)' = PostedBy(r) + n /\ posted'[r] = posted[r] + n
      BY <1>6, <1>7
    <3> QED
      BY <1>2, <1>6, <2>1, <2>3, <3>1
  <2> QED
    BY <2>2, <2>3
<1>9. FlowInv'
  <2> SUFFICES ASSUME NEW q \in Ranks PROVE UnderWayAt(q)'
    BY DEF FlowInv
  <2>1. UnderWayAt(q)
    BY DEF FlowInv
  <2>2. CASE q \notin Paired
    <3>1. net'[q] = net[q]
      BY <1>4, <1>6, <1>7, <2>2
    <3> QED
      BY <2>1, <2>2, <3>1 DEF UnderWayAt
  <2>3. CASE q = target(r)
    <3>1. Clean => Arrived(q) + net[q] = SentBy(r)
      BY <1>4, <1>5, <2>1, <2>3 DEF UnderWayAt
    <3>2. \/ SentBy(r)' = SentBy(r) + n /\ net'[q] = net[q] + n
          \/ SentBy(r)' = SentBy(r) /\ net'[q] = net[q]
      BY <1>6, <1>7, <2>3
    <3>3. Arrived(q)' = Arrived(q) /\ call'[q] = call'[r]
      BY <1>2, <1>3, <1>4, <1>5, <2>3 DEF KeepsProgress
    <3>4. Clean => Arrived(q)' + net'[q] = SentBy(r)'
      BY <1>6, <3>1, <3>2, <3>3
    <3> QED
      BY <1>2, <1>4, <2>3, <3>3, <3>4 DEF UnderWayAt
  <2>4. CASE q \in Paired /\ q # target(r)
    <3>1. target(q) # r /\ target(q) \in Ranks
      BY <2>4, Pairs
    <3>2. net'[q] = net[q] /\ Arrived(q)' = Arrived(q) /\ call'[q] = call[q]
      BY <1>2, <1>3, <1>6, <1>7, <2>4 DEF KeepsProgress
    <3>3. KeepsProgress(target(q))
      BY <1>3, <3>1
    <3> QED
      BY <1>2, <2>1, <2>4, <3>2, <3>3 DEF UnderWayAt, KeepsProgress
  <2> QED
    BY <2>2, <2>3, <2>4
<1> QED
  BY <1>8, <1>9

(* A message that arrives                                                  *)
LEMMA FlowOfArrival ==
  ASSUME StepInv, SideInv, PairInv, FlowInv, NEW r \in Ranks, RecvDone(r)
  PROVE  PairInv' /\ FlowInv'
<1> Types /\ Places /\ PlaceTypes
  BY TypesSplit DEF StepInv
<1>1. AloneMoves(r) /\ Alone(r)
  BY CountStep, Moves DEF MovesWell, StepOf, FabricStep
<1>2. \A q \in Ranks : q # r => KeepsProgress(q) /\ posted'[q] = posted[q]
  BY <1>1, ProgressElsewhere
<1>3. /\ net' = [net EXCEPT ![r] = net[r] - 1] /\ net[r] > 0
      /\ posted'[r] = posted[r] - 1 /\ posted[r] > 0
      /\ UNCHANGED <<pc, call, i>>
  BY DEF RecvDone, Add, Types, procVars
<1>4. /\ \A q \in Ranks : SentBy(q) \in Nat /\ PostedBy(q) \in Nat /\ Arrived(q) \in Nat
      /\ net \in [Ranks -> Nat] /\ posted \in [Ranks -> Nat] /\ recvd \in [Ranks -> Nat]
  BY ProgressTypes, CountsOf DEF Types
<1>5. r \in Paired
  BY <1>3 DEF FlowInv, UnderWayAt
<1>6. ASSUME NEW q \in Ranks, q \notin Paired PROVE net'[q] = 0
  BY <1>3, <1>4, <1>5, <1>6 DEF FlowInv, UnderWayAt
<1>7. CASE ~Clean'
  BY <1>6, <1>7 DEF PairInv, FlowInv, ReceivedAt, UnderWayAt
<1>8. CASE Clean'
  <2>1. Clean /\ recvd'[r] = recvd[r] + 1
    <3>1. Clean /\ errors' = 0 /\ errors = 0
      BY <1>1, <1>8, CleanBefore DEF Clean
    <3> QED
      BY <1>4, <3>1 DEF RecvDone, Add
  <2>2. pc[r] \in Waiting
    <3>1. posted[r] + rcomp[r] = RecvWait(r) /\ rcomp[r] \in Nat
      BY <2>1, CountsOf DEF SideInv, SidesAt, Clean
    <3> QED
      BY <1>3, <1>4, <3>1 DEF RecvWait
  <2>3. /\ SentBy(r)' = SentBy(r) /\ PostedBy(r)' = PostedBy(r) /\ Arrived(r)' = Arrived(r) + 1
    BY <1>3, <2>1, <2>2 DEF SentBy, PostedBy, Arrived, Data, Windows, Fins, Waiting, Outside
  <2>4. ASSUME NEW q \in Paired PROVE ReceivedAt(q)'
    <3>1. q \in Ranks /\ Arrived(q) + posted[q] = PostedBy(q)
      BY <2>1, Pairs DEF PairInv, ReceivedAt
    <3>2. CASE q # r
      BY <1>2, <3>1, <3>2 DEF ReceivedAt, KeepsProgress
    <3>3. CASE q = r
      <4>1. Arrived(r)' + posted'[r] = PostedBy(r)'
        BY <1>3, <1>4, <2>3, <3>1, <3>3
      <4> QED
        BY <3>3, <4>1 DEF ReceivedAt
    <3> QED
      BY <3>2, <3>3
  <2>5. ASSUME NEW q \in Paired PROVE UnderWayAt(q)'
    <3>1. q \in Ranks /\ target(q) \in Ranks /\ target(q) # q
      BY Pairs
    <3>2. Arrived(q) + net[q] =
            IF call[q] = call[target(q)] THEN SentBy(target(q)) ELSE Arrived(q)
      BY <2>1, <3>1 DEF FlowInv, UnderWayAt
    <3>3. SentBy(target(q))' = SentBy(target(q)) /\ call' = call
      BY <1>2, <1>3, <2>3, <3>1 DEF KeepsProgress
    <3>4. CASE q # r
      <4>1. net'[q] = net[q] /\ Arrived(q)' = Arrived(q)
        BY <1>2, <1>3, <1>4, <3>1, <3>4 DEF KeepsProgress
      <4> QED
        BY <3>1, <3>2, <3>3, <4>1 DEF UnderWayAt
    <3>5. CASE q = r
      <4>1. net'[r] = net[r] - 1
        BY <1>3, <1>4
      <4>2. call[r] = call[target(r)]
        BY <1>3, <1>4, <3>2, <3>5
      <4>3. Arrived(r)' + net'[r] = SentBy(target(r))
        BY <1>3, <1>4, <2>3, <3>1, <3>2, <3>5, <4>1, <4>2
      <4> QED
        BY <3>3, <3>5, <4>2, <4>3 DEF UnderWayAt
    <3> QED
      BY <3>4, <3>5
  <2> QED
    BY <1>6, <2>4, <2>5 DEF PairInv, FlowInv, UnderWayAt
<1> QED
  BY <1>7, <1>8

(* Ranks in the same gather have sent all that their partners receive.     *)
LEMMA GatheredAll ==
  ASSUME Types, Places, SideInv, PairInv, Clean, NEW r \in Ranks, r \in Paired,
         pc[r] = "gather"
  PROVE  /\ posted[r] = 0 /\ Arrived(r) = PostedBy(r)
         /\ pc[target(r)] = "gather" /\ call[target(r)] = call[r] => SentBy(target(r)) = Arrived(r)
<1>1. posted[r] = 0 /\ Arrived(r) = PostedBy(r)
  <2>1. posted[r] + rcomp[r] = 0
    BY DEF SideInv, SidesAt, RecvWait, Waiting, Clean
  <2>2. posted[r] = 0
    BY <2>1, CountsOf
  <2>3. Arrived(r) + posted[r] = PostedBy(r)
    BY DEF PairInv, ReceivedAt
  <2> QED
    BY <2>2, <2>3, ProgressTypes
<1>2. ASSUME pc[target(r)] = "gather", call[target(r)] = call[r]
      PROVE  SentBy(target(r)) = PostedBy(r)
  <2>1. target(r) \in Paired /\ target(r) \in Ranks /\ (target(r) \in Senders <=> r \notin Senders)
    BY Pairs
  <2>2. i[r] = i[target(r)]
    BY <1>2, <2>1 DEF Places, PlaceAt, PlaceOk
  <2>3. Data(r) = Data(target(r)) /\ Fins(r) = Fins(target(r))
    BY <1>2, <2>2 DEF Data, Windows, Fins
  <2> QED
    BY <1>2, <2>1, <2>3 DEF SentBy, PostedBy, Outside
<1> QED
  BY <1>1, <1>2

LEMMA FlowOfGather ==
  ASSUME StepInv, SideInv, PairInv, FlowInv, NEW r \in Ranks, LeaveGather(r)
  PROVE  PairInv' /\ FlowInv'
<1> Types /\ Places /\ Passed /\ PlaceTypes
  BY TypesSplit DEF StepInv
<1>1. AloneMoves(r) /\ Alone(r)
  BY CountStep, Moves DEF MovesWell, StepOf, RankStep
<1>2. \A q \in Ranks : q # r => KeepsProgress(q) /\ posted'[q] = posted[q]
  BY <1>1, ProgressElsewhere
<1>3. /\ pc[r] = "gather" /\ AllEntered(r) /\ UNCHANGED <<posted, net>>
      /\ call'[r] = call[r] + 1 /\ pc'[r] \in Outside
  BY DEF LeaveGather, EnterColl, Set, Add, Types, epVars, Outside
<1>4. SentBy(r)' = 0 /\ PostedBy(r)' = 0 /\ Arrived(r)' = 0
  BY <1>3 DEF SentBy, PostedBy, Arrived
<1>5. \A q \in Ranks : net[q] \in Nat /\ call[q] \in Nat /\ Arrived(q) \in Nat
  <2>1. \A q \in Ranks : net[q] \in Nat /\ call[q] \in Nat
    BY CountsOf, PlacesOf
  <2> QED
    BY <2>1, ProgressTypes
<1>6. ASSUME NEW q \in Ranks, q \notin Paired PROVE net'[q] = 0
  BY <1>3, <1>6 DEF FlowInv, UnderWayAt
<1>7. CASE ~Clean'
  BY <1>6, <1>7 DEF PairInv, FlowInv, ReceivedAt, UnderWayAt
<1>8. CASE Clean'
  <2> Clean
    BY <1>1, <1>8, CleanBefore
  <2>1. ASSUME NEW q \in Paired PROVE ReceivedAt(q)'
    <3>1. CASE q # r
      BY <1>2, <3>1, Pairs DEF ReceivedAt, KeepsProgress, PairInv
    <3>2. CASE q = r
      <4>1. posted[r] = 0
        BY <1>3, <3>2, GatheredAll
      <4> QED
        BY <1>3, <1>4, <3>2, <4>1 DEF ReceivedAt
    <3> QED
      BY <3>1, <3>2
  <2>2. ASSUME NEW q \in Paired, q = r \/ target(q) = r PROVE UnderWayAt(q)'
    <3> DEFINE t == target(q)
    <3>1. q \in Ranks /\ t \in Ranks /\ t \in Paired /\ target(t) = q /\ t # q
      BY Pairs
    <3>2. Arrived(q) + net[q] = IF call[q] = call[t] THEN SentBy(t) ELSE Arrived(q)
      BY <3>1 DEF FlowInv, UnderWayAt
    <3>3. \/ pc[q] = "gather" /\ pc[t] = "gather" /\ call[q] = call[t]
          \/ q = r /\ call[t] = call[r] + 1 /\ pc[t] \in Outside
          \/ t = r /\ call[q] = call[r] + 1 /\ pc[q] \in Outside
      BY <1>3, <2>2, <3>1, GatherMates
    <3>4. net[q] = 0
      <4>1. CASE pc[q] = "gather" /\ pc[t] = "gather" /\ call[q] = call[t]
        <5>1. SentBy(t) = Arrived(q)
          BY <3>1, <4>1, GatheredAll
        <5> QED
          BY <1>5, <3>1, <3>2, <4>1, <5>1
      <4>2. CASE call[q] # call[t]
        BY <1>5, <3>1, <3>2, <4>2
      <4> QED
        BY <1>5, <3>1, <3>3, <4>1, <4>2
    <3>5. call'[q] = call'[t] => SentBy(t)' = 0 /\ Arrived(q)' = 0
      <4>1. CASE q = r
        <5>1. KeepsProgress(t)
          BY <1>2, <3>1, <4>1
        <5>2. call'[q] = call'[t] => pc[t] \in Outside
          BY <1>3, <1>5, <3>1, <3>3, <4>1, <5>1 DEF KeepsProgress
        <5>3. pc[t] \in Outside => SentBy(t) = 0
          BY DEF SentBy
        <5> QED
          BY <1>4, <4>1, <5>1, <5>2, <5>3 DEF KeepsProgress
      <4>2. CASE t = r
        <5>1. KeepsProgress(q)
          BY <1>2, <3>1, <4>2
        <5>2. call'[q] = call'[t] => pc[q] \in Outside
          BY <1>3, <1>5, <3>1, <3>3, <4>2, <5>1 DEF KeepsProgress
        <5>3. pc[q] \in Outside => Arrived(q) = 0
          BY DEF Arrived
        <5> QED
          BY <1>4, <4>2, <5>1, <5>2, <5>3 DEF KeepsProgress
      <4> QED
        BY <2>2, <4>1, <4>2
    <3>6. net'[q] = 0 /\ Arrived(q)' \in Nat
      <4>1. q # r => Arrived(q)' = Arrived(q)
        BY <1>2, <3>1 DEF KeepsProgress
      <4> QED
        BY <1>3, <1>4, <1>5, <3>1, <3>4, <4>1
    <3> QED
      BY <3>5, <3>6 DEF UnderWayAt
  <2>3. ASSUME NEW q \in Paired, q # r, target(q) # r PROVE UnderWayAt(q)'
    <3>1. q \in Ranks /\ target(q) \in Ranks
      BY Pairs
    <3>2. KeepsProgress(q) /\ KeepsProgress(target(q)) /\ UnderWayAt(q)
      BY <1>2, <2>3, <3>1 DEF FlowInv
    <3> QED
      BY <1>3, <3>2 DEF UnderWayAt, KeepsProgress
  <2> QED
    BY <1>6, <2>1, <2>2, <2>3 DEF PairInv, FlowInv, UnderWayAt
<1> QED
  BY <1>7, <1>8

-----------------------------------------------------------------------------
LEMMA InvStep == IInv /\ [Next]_vars => IInv'
<1> SUFFICES ASSUME IInv, [Next]_vars PROVE IInv'
  OBVIOUS
<1> Types /\ Places /\ Passed /\ SideInv /\ PairInv /\ FlowInv /\ StepInv
  BY DEF IInv, StepInv
<1> PlaceTypes
  BY TypesSplit
<1>1. ASSUME NEW r \in Ranks, StepOf(r) PROVE IInv'
  <2>1. MovesWell(r) /\ Alone(r)
    BY <1>1, Moves, CountStep
  <2>2. Types'
    BY <2>1, TypesSplitNext DEF MovesWell, Alone
  <2>3. Places' /\ Passed'
    BY <2>1, PlacesStep, PassedStep
  <2>4. SideInv'
    BY <1>1, SideStep
  <2>5. PairInv' /\ FlowInv'
    BY <1>1, FlowOfOthers, FlowOfPosting, FlowOfArrival, FlowOfGather
       DEF StepOf, RankStep, FabricStep
  <2> QED
    BY <2>2, <2>3, <2>4, <2>5 DEF IInv, StepInv
<1>2. CASE UNCHANGED vars
  <2>1. /\ test_type' = test_type /\ wait_type' = wait_type /\ pc' = pc /\ call' = call
        /\ i' = i /\ colls' = colls /\ need' = need /\ sends' = sends /\ scomp' = scomp
        /\ net' = net /\ posted' = posted /\ rcomp' = rcomp /\ rerr' = rerr
        /\ errors' = errors /\ giveups' = giveups /\ recvd' = recvd
    BY <1>2 DEF vars, optVars, procVars, epVars
  <2>2. Types'
    BY <2>1 DEF Types
  <2>3. Places' /\ Passed'
    BY <2>1 DEF Places, PlaceAt, Passed, Left
  <2>4. SideInv'
    <3>1. \A q \in Ranks : NeedAt(q)' /\ RecvWait(q)' = RecvWait(q) /\ SendWait(q)' = SendWait(q)
      BY <2>1 DEF SideInv, NeedAt, RecvWait, SendWait, OnRecvSide
    <3> QED
      BY <2>1, <3>1, SidesKept DEF SideInv, optVars
  <2>5. PairInv' /\ FlowInv'
    <3>1. \A q \in Paired : KeepsProgress(q)
      BY <2>1 DEF KeepsProgress, SentBy, PostedBy, Arrived, Data, Windows, Fins
    <3> QED
      BY <2>1, <3>1, FlowKept DEF Clean
  <2> QED
    BY <2>2, <2>3, <2>4, <2>5 DEF IInv, StepInv
<1> QED
  BY <1>1, <1>2 DEF Next, StepOf

THEOREM InvHolds == Spec => []IInv
  BY InitInv, InvStep, PTL DEF Spec

-----------------------------------------------------------------------------
LEMMA TypesOk == IInv => TypeOK
<1> SUFFICES ASSUME IInv PROVE TypeOK
  OBVIOUS
<1> Types /\ Places /\ PlaceTypes
  BY TypesSplit DEF IInv, StepInv
<1>1. ASSUME NEW r \in Ranks PROVE colls[r] \in 0 .. 3 * Len(Calls) + 1
  <2>1. /\ colls[r] \in Nat /\ call[r] \in Nat /\ Len(Calls) \in Nat /\ call[r] <= Len(Calls) + 1
    BY CallsNat DEF Types
  <2>2. CASE call[r] = Len(Calls) + 1
    <3>1. Stage(r) = 1 /\ colls[r] = 3 * (call[r] - 1) + Stage(r)
      BY <2>2 DEF Places, PlaceAt, PlaceOk, Stage, StageOf, Looping
    <3> QED
      BY <2>1, <2>2, <3>1
  <2>3. CASE call[r] # Len(Calls) + 1
    <3>1. colls[r] <= 3 * call[r]
      BY SameCount
    <3> QED
      BY <2>1, <2>3, <3>1
  <2> QED
    BY <2>2, <2>3
<1>2. colls \in [Ranks -> 0 .. 3 * Len(Calls) + 1]
  BY <1>1 DEF Types
<1>3. pc \in [Ranks -> {"bar0", "bar1", "post", "waitw", "fin", "waitf", "gather", "fini", "closed"}]
  BY DEF Types, Looping, Entered
<1>4. \A r \in Ranks : {need[r], sends[r], scomp[r], net[r], posted[r], rcomp[r],
                        rerr[r], recvd[r]} \subseteq Nat
  BY CountsOf
<1> QED
  BY <1>2, <1>3, <1>4 DEF Types, TypeOK

LEMMA Matching == IInv => CollectivesMatch
<1> SUFFICES ASSUME IInv, NEW r \in Ranks, NEW q \in Ranks,
                    pc[r] \in {"bar0", "bar1", "gather", "fini"},
                    pc[q] \in {"bar0", "bar1", "gather", "fini"}, colls[r] = colls[q]
             PROVE  pc[r] = pc[q] /\ call[r] = call[q]
  BY DEF CollectivesMatch
<1> Types /\ Places /\ PlaceTypes
  BY TypesSplit DEF IInv, StepInv
<1>1. call[r] = call[q] /\ Stage(r) = Stage(q)
  BY SameCount
<1>2. pc[r] = "fini" <=> pc[q] = "fini"
  BY <1>1 DEF Places, PlaceAt, PlaceOk
<1> QED
  BY <1>1, <1>2 DEF Stage, StageOf, Looping

LEMMA AtRest == IInv => ClosedAtRest
<1> SUFFICES ASSUME IInv, Clean, NEW r \in Ranks, pc[r] = "closed", NEW q \in Ranks
             PROVE  sends[q] = 0 /\ net[q] = 0 /\ posted[q] = 0
  BY DEF ClosedAtRest
<1> errors = 0 /\ giveups = 0
  BY DEF Clean
<1> Types /\ Places /\ Passed /\ PlaceTypes /\ SideInv /\ FlowInv
  BY TypesSplit DEF IInv, StepInv
<1>1. \A p \in Ranks : pc[p] \in {"fini", "closed"}
  <2> SUFFICES ASSUME NEW p \in Ranks PROVE pc[p] \in {"fini", "closed"}
    OBVIOUS
  <2>1. call[r] = Len(Calls) + 1 /\ colls[p] >= colls[r]
    BY DEF Places, PlaceAt, PlaceOk, Passed, Left, Entered
  <2>2. colls[r] >= 3 * call[r] - 2 /\ colls[p] <= 3 * call[p]
    BY SameCount
  <2>3. /\ call[p] \in Nat /\ Len(Calls) \in Nat /\ colls[p] \in Nat /\ colls[r] \in Nat
        /\ call[p] <= Len(Calls) + 1
    BY CallsNat, PlacesOf
  <2>4. call[p] = Len(Calls) + 1
    BY <2>1, <2>2, <2>3
  <2> QED
    BY <2>4 DEF Places, PlaceAt, PlaceOk
<1>2. sends[q] = 0 /\ posted[q] = 0
  <2>1. sends[q] + scomp[q] = 0 /\ posted[q] + rcomp[q] = 0
    BY <1>1 DEF SideInv, SidesAt, RecvWait, SendWait, Waiting
  <2> QED
    BY <2>1, CountsOf
<1>3. net[q] = 0
  <2>1. CASE q \notin Paired
    BY <2>1 DEF FlowInv, UnderWayAt
  <2>2. CASE q \in Paired
    <3>1. target(q) \in Ranks
      BY <2>2, Pairs
    <3>2. SentBy(target(q)) = 0 /\ Arrived(q) = 0
      BY <1>1, <3>1 DEF SentBy, Arrived, Outside
    <3>3. Arrived(q) + net[q] = 0
      BY <2>2, <3>2 DEF FlowInv, UnderWayAt
    <3> QED
      BY <3>2, <3>3, CountsOf
  <2> QED
    BY <2>1, <2>2
<1> QED
  BY <1>2, <1>3

(* Ranks that are in the same collective are in it at the same place of    *)
(* calc_bw: rdm_mbw_mr.c has no other way to keep pairs and surplus ranks  *)
(* together.  Where nothing failed, nothing is under way to an endpoint    *)
(* that is closed.                                                         *)
THEOREM RanksInStepHolds == Spec => []RanksInStep
<1>1. IInv => RanksInStep
  BY TypesOk, Matching, AtRest DEF RanksInStep
<1> QED
  BY <1>1, InvHolds, PTL

(* While a sender's clock runs, no pair has a message of the warm-up of    *)
(* that call of calc_bw still to receive (where nothing failed).       *)
THEOREM NoWarmupTimedHolds == Spec => []NoWarmupTimed
<1>1. IInv => NoWarmupTimed
  <2> SUFFICES ASSUME IInv, Clean, NEW s \in Senders, Timed(s), NEW q \in Receivers,
                      call[q] = call[s]
               PROVE  recvd[q] >= Payload(Calls[call[s]], Skip)
    BY DEF NoWarmupTimed
  <2> Types /\ Places /\ Passed /\ PlaceTypes /\ SideInv /\ PairInv
    BY TypesSplit DEF IInv, StepInv
  <2>1. s \in Ranks /\ q \in Ranks /\ q \in Paired /\ q \notin Senders
    BY Pairs
  <2>2. pc[s] \in Looping /\ Stage(s) = 2 /\ colls[s] = 3 * (call[s] - 1) + 2
    BY <2>1 DEF Timed, Looping, Places, PlaceAt, PlaceOk, Stage, StageOf
  <2>3. colls[q] >= colls[s] /\ colls[q] = 3 * (call[q] - 1) + Stage(q)
    BY <2>1, <2>2 DEF Passed, Left, Looping, Entered, Places, PlaceAt, PlaceOk, Stage
  <2>4. /\ Stage(q) \in Nat /\ call[q] \in Nat /\ colls[q] \in Nat /\ colls[s] \in Nat
        /\ i[q] \in Nat
    <3>1. /\ call[q] \in Nat /\ colls[q] \in Nat /\ colls[s] \in Nat /\ i[q] \in Nat
      BY <2>1, PlacesOf
    <3> QED
      BY <3>1, <2>1, SameCount
  <2>5. Stage(q) >= 2
    BY <2>2, <2>3, <2>4
  <2>6. i[q] >= Skip /\ pc[q] \notin Outside
    BY <2>1, <2>4, <2>5, Tunables, SMTT(30) DEF Stage, StageOf, Places, PlaceAt, PlaceOk, Outside, Looping
  <2>7. call[q] \in 1 .. Len(Calls)
    BY <2>1, <2>6, InCall DEF Outside
  <2> DEFINE c == Calls[call[q]]
  <2>8. /\ Payload(c, i[q]) \in Nat /\ Payload(c, Skip) \in Nat
        /\ Payload(c, i[q] + 1) = Payload(c, i[q]) + SendOps(c)
        /\ Payload(c, Skip) <= Payload(c, i[q]) /\ SendOps(c) \in Nat
    BY <2>4, <2>6, <2>7, Payloads, WindowOps, Tunables
  <2>9. recvd[q] + posted[q] = Payload(c, Windows(q))
    BY <2>1, <2>6 DEF PairInv, ReceivedAt, Arrived, PostedBy, Data
  <2>10. posted[q] + rcomp[q] = RecvWait(q) /\ NeedAt(q)
    BY <2>1 DEF SideInv, SidesAt, Clean
  <2> HIDE DEF c
  <2>11. CASE pc[q] = "waitw"
    <3>1. Windows(q) = i[q] + 1 /\ RecvWait(q) <= SendOps(c)
      BY <2>1, <2>10, <2>11, <2>8 DEF Windows, RecvWait, NeedAt, c
    <3> QED
      BY <2>1, <2>8, <2>9, <2>10, <3>1, CountsOf DEF c
  <2>12. CASE pc[q] # "waitw"
    <3>1. RecvWait(q) = 0
      BY <2>1, <2>12 DEF RecvWait, OnRecvSide, Waiting
    <3>2. posted[q] = 0
      BY <2>1, <2>10, <3>1, CountsOf
    <3>3. Windows(q) = i[q] \/ Windows(q) = i[q] + 1
      BY DEF Windows
    <3> QED
      BY <2>1, <2>8, <2>9, <3>2, <3>3, CountsOf DEF c
  <2> QED
    BY <2>11, <2>12
<1> QED
  BY <1>1, InvHolds, PTL

(* Once all ranks have entered the gather of the times, each receiver has  *)
(* received exactly the messages that the bandwidth counts.                *)
THEOREM AllReceivedHolds == Spec => []AllReceived
<1>1. IInv => AllReceived
  <2> SUFFICES ASSUME IInv, Clean, NEW r \in Ranks, pc[r] = "gather", AllEntered(r),
                      NEW q \in Receivers, call[q] = call[r]
               PROVE  recvd[q] = Payload(Calls[call[r]], Loop + Skip)
    BY DEF AllReceived
  <2> Types /\ Places /\ Passed /\ PlaceTypes /\ SideInv /\ PairInv
    BY TypesSplit DEF IInv, StepInv
  <2>1. q \in Ranks /\ q \in Paired /\ q \notin Senders
    BY Pairs
  <2>2. call[r] \in Nat
    BY CallsNat DEF Types
  <2>3. pc[q] = "gather"
    BY <2>1, <2>2, GatherMates
  <2>4. Arrived(q) = PostedBy(q) /\ i[q] = Loop + Skip
    BY <2>1, <2>3, GatheredAll DEF Places, PlaceAt, PlaceOk
  <2> QED
    BY <2>1, <2>3, <2>4 DEF Arrived, PostedBy, Data, Windows, Outside
<1> QED
  BY <1>1, InvHolds, PTL

(* Setting a counter back to 0 after a wait loses no completion, also when *)
(* receives have failed, unless a wait has given up.                       *)
THEOREM ResetLosesNothingHolds == Spec => []ResetLosesNothing
<1>1. IInv => ResetLosesNothing
  <2> SUFFICES ASSUME IInv, test_type = "CNTR", giveups = 0,
                      NEW r \in Ranks, pc[r] \in {"waitw", "waitf"}
               PROVE  IF OnRecvSide(r) THEN rcomp[r] + posted[r] <= need[r]
                                       ELSE scomp[r] + sends[r] <= need[r]
    BY DEF ResetLosesNothing
  <2> Types /\ SidesAt(r)
    BY DEF IInv, StepInv, SideInv
  <2>1. CASE OnRecvSide(r)
    <3>1. RecvWait(r) = need[r]
      BY <2>1 DEF RecvWait, Waiting
    <3>2. posted[r] + rcomp[r] <= need[r]
      BY <3>1 DEF SidesAt
    <3> QED
      BY <2>1, <3>2, CountsOf
  <2>2. CASE ~OnRecvSide(r)
    <3>1. sends[r] + scomp[r] = need[r]
      BY <2>2 DEF SidesAt, SendWait, Waiting
    <3> QED
      BY <2>2, <3>1, CountsOf
  <2> QED
    BY <2>1, <2>2
<1> QED
  BY <1>1, InvHolds, PTL

(* Each failed receive leaves fewer operations behind than one window has, *)
(* each wait that gives up at most a window: what a completion queue must  *)
(* hold is bounded by the largest window and the number of failures.       *)
THEOREM SurplusBoundedHolds == Spec => []SurplusBounded
<1>1. IInv => SurplusBounded
  <2> SUFFICES ASSUME IInv, NEW r \in Ranks
               PROVE  /\ posted[r] + rcomp[r] + rerr[r] <=
                           MaxWindow + errors * (MaxWindow - 1) + giveups * MaxWindow
                      /\ sends[r] + scomp[r] <= MaxWindow + giveups * MaxWindow
    BY DEF SurplusBounded
  <2> Types /\ Places /\ SurplusAt(r) /\ NeedAt(r)
    BY DEF IInv, StepInv, SideInv
  <2>1. PICK e, n, g \in Int :
          /\ e = errors - rerr[r] /\ n = Slack(e) /\ g = Loss(giveups) /\ e <= errors
          /\ posted[r] + rcomp[r] + rerr[r] <= RecvWait(r) + n + g
          /\ sends[r] + scomp[r] <= SendWait(r) + g
    BY SurplusOf
  <2>2. n <= Slack(errors) /\ Slack(errors) \in Int
    <3>1. errors \in Int
      BY CountsOf
    <3> QED
      BY <2>1, <3>1, Slacks, Zenon
  <2>3. RecvWait(r) <= MaxWindow /\ SendWait(r) <= MaxWindow
    <3>1. pc[r] \in Waiting => need[r] <= MaxWindow
      BY WaitingNeeds DEF Waiting, Looping
    <3> QED
      BY <3>1, WindowMax DEF RecvWait, SendWait
  <2>4. /\ posted[r] + rcomp[r] + rerr[r] <= MaxWindow + Slack(errors) + Loss(giveups)
        /\ sends[r] + scomp[r] <= MaxWindow + Loss(giveups)
    BY <2>1, <2>2, <2>3, CountsOf, WindowMax
  <2>5. Slack(errors) = errors * (MaxWindow - 1) /\ Loss(giveups) = giveups * MaxWindow
    BY DEF Slack, Loss
  <2> QED
    BY <2>4, <2>5
<1> QED
  BY <1>1, InvHolds, PTL
=============================================================================
