-------------------------- MODULE OneSided_proofs --------------------------
(***************************************************************************)
(* The bandwidth test of rdm_one_sided.c is right for any number of        *)
(* workers and message sizes, any loop counts and windows, and any number  *)
(* of failing writes and calls of pthread_create: ranks and workers change *)
(* sizes together, without errors at rest; a wait that gives up leaves     *)
(* little behind; without errors the answer means that the data is there;  *)
(* and what is printed counts the timed messages.                          *)
(*                                                                         *)
(* The invariant comes in parts.  ControlInv: the numbers of barrier calls *)
(* of main and of the workers tell where they are, so that nobody is at    *)
(* another size while a worker runs.  MessageInv: every message is under   *)
(* way, delivered, or consumed.  WindowInv: what a worker has outstanding, *)
(* and how far its loop and its byte count are.                            *)
(***************************************************************************)
EXTENDS OneSided, FiniteSetTheorems, TLAPS

MainPlaces == {"touch", "enter", "create", "join", "leave", "report", "done", "gone"}
WorkerPlaces == {"none", "start", "bar1", "write", "waitw", "send", "waits",
                 "recv", "waitr", "bar2", "ret"}
Entries == {"ok", "err"}

MainTypes ==
  /\ mpc \in [Ranks -> MainPlaces]
  /\ size \in [Ranks -> 1 .. Sizes + 1]
  /\ calls \in [Ranks -> Nat]
WorkTypes ==
  /\ pc \in [Workers -> WorkerPlaces]
  /\ need \in [Workers -> 0 .. Window]
  /\ {i, tcalls, bytes} \subseteq [Workers -> Nat]
EpTypes ==
  /\ {writes, sends, net, posted, rcq} \subseteq [Workers -> Nat]
  /\ scq \in [Workers -> Seq(Entries)]
  /\ errors \in 0 .. MaxErrors
Types == MainTypes /\ WorkTypes /\ EpTypes

Flag(b) == IF b THEN 1 ELSE 0

(* The barriers main has entered and left                                  *)
MainEntered(r) ==
  2 * (size[r] - 1) + CASE mpc[r] \in {"touch", "done"} -> 0
                        [] mpc[r] \in {"enter", "create", "join", "gone"} -> 1
                        [] mpc[r] \in {"leave", "report"} -> 2
MainLeft(r) ==
  2 * (size[r] - 1) + CASE mpc[r] \in {"touch", "enter", "done"} -> 0
                        [] mpc[r] \in {"create", "join", "gone", "leave"} -> 1
                        [] mpc[r] = "report" -> 2

(* Main has workers, has joined those of its size, or has none yet.        *)
Working(r) == mpc[r] \in {"create", "join", "gone"}
Joined(r) == mpc[r] \in {"leave", "report"}

MainAt(r) ==
  /\ calls[r] = MainEntered(r)
  /\ mpc[r] = "done" <=> size[r] = Sizes + 1
  /\ \A q \in Ranks : calls[q] >= MainLeft(r)

(* The calls of ct_tbarrier a worker has made at its size                  *)
TeamCalls(w) ==
  CASE Joined(w[1]) \/ pc[w] \in {"bar2", "ret"} -> 2
    [] pc[w] \in {"bar1", "write", "waitw", "send", "waits", "recv", "waitr"} -> 1
    [] OTHER -> 0

WorkerAt(w) ==
  /\ tcalls[w] = 2 * (size[w[1]] - 1) + TeamCalls(w)
  /\ pc[w] # "none" => Working(w[1])
  /\ mpc[w[1]] = "join" => pc[w] # "none"
  /\ pc[w] \notin {"none", "start", "bar1"} => \A v \in Team(w[1]) : tcalls[v] >= 2 * size[w[1]] - 1
  /\ pc[w] = "ret" => \A v \in Team(w[1]) : tcalls[v] >= 2 * size[w[1]]

Uncreated(r) == mpc[r] \in {"create", "gone"} => \E w \in Team(r) : pc[w] = "none"

ControlInv ==
  /\ \A r \in Ranks : MainAt(r) /\ Uncreated(r)
  /\ \A w \in Workers : WorkerAt(w)

(* What a worker has done at its size                                      *)
HasSent(w) ==
  Joined(w[1]) \/ pc[w] \in {"waits", "bar2", "ret"} \/ (w[1] = 0 /\ pc[w] \in {"recv", "waitr"})
HasReceived(w) ==
  Joined(w[1]) \/ pc[w] \in {"bar2", "ret"} \/ (w[1] = 1 /\ pc[w] \in {"send", "waits"})
HasWritten(w) ==
  w[1] = 0 /\ (Joined(0) \/ pc[w] \in {"send", "waits", "recv", "waitr", "bar2", "ret"})
Before(w) == size[w[1]] - 1

(* Messages are conserved: those consumed, delivered and under way are     *)
(* those that the peer has sent.                                           *)
Conserved(w) ==
  Before(w) + Flag(HasReceived(w)) + rcq[w] + net[w] = Before(Peer(w)) + Flag(HasSent(Peer(w)))
OneReceive(w) == posted[w] + rcq[w] = Flag(pc[w] = "waitr")

MessageInv == \A w \in Workers : Conserved(w) /\ OneReceive(w)

Outstanding(w) == writes[w] + sends[w] + Len(scq[w])
Errs(s) == Cardinality({k \in 1 .. Len(s) : s[k] = "err"})
Need(w) == IF pc[w] \in {"waitw", "waits"} THEN need[w] ELSE 0

Waiting(w) ==
  /\ pc[w] = "waitw" => need[w] > 0
  /\ pc[w] = "waits" => need[w] = 1

(* Errors a worker has met made it leave completions behind.               *)
Surplus(w) ==
  /\ Errs(scq[w]) <= errors
  /\ Outstanding(w) <= Need(w) + (errors - Errs(scq[w])) * (Window - 1)

Exact(w) ==
  errors = 0 => /\ Outstanding(w) = Need(w)
                /\ pc[w] # "waitw" => writes[w] = 0

LastAt(n) == LoopAt(n) + SkipAt(n)

(* How far the loop of rank 0 is, and the bytes that it has counted        *)
Progress(w) ==
  LET n == size[w[1]]
  IN  /\ pc[w] \in {"write", "waitw"} => i[w] < LastAt(n)
      /\ pc[w] = "write" /\ i[w] > SkipAt(n) => bytes[w] = (i[w] - SkipAt(n)) * Window
      /\ pc[w] = "waitw" /\ i[w] >= SkipAt(n) => bytes[w] = (i[w] + 1 - SkipAt(n)) * Window
      /\ HasWritten(w) => i[w] = LastAt(n) /\ bytes[w] = LoopAt(n) * Window

OneSide(w) == pc[w] \in {"write", "waitw"} => w[1] = 0

WindowInv ==
  \A w \in Workers : Waiting(w) /\ Surplus(w) /\ Exact(w) /\ Progress(w) /\ OneSide(w)

IInv == Types /\ ControlInv /\ MessageInv /\ WindowInv

-----------------------------------------------------------------------------
(* The constants, the pairs of workers, and the teams                      *)

(* What TunablesAssumption says of the counts the code derives from it.    *)
LEMMA Tunables ==
  /\ Sizes \in Nat \ {0} /\ SmallSizes \in Nat /\ MaxErrors \in Nat
  /\ Window \in Nat \ {0}
  /\ \A n : LoopAt(n) \in Nat \ {0} /\ SkipAt(n) \in Nat \ {0}
  BY TunablesAssumption DEF LoopAt, SkipAt

(* A worker belongs to the team of its rank; peers are of opposite ranks.  *)
LEMMA Pairs ==
  /\ \A w \in Workers :
       /\ w[1] \in Ranks /\ w \in Team(w[1])
       /\ Peer(w) \in Workers /\ Peer(w)[1] = 1 - w[1] /\ Peer(Peer(w)) = w
  /\ \A r \in Ranks : \A w \in Team(r) : w \in Workers /\ w[1] = r
  <1>1. ASSUME NEW w \in Workers
        PROVE  /\ w[1] \in Ranks /\ w \in Team(w[1])
               /\ Peer(w) \in Workers /\ Peer(w)[1] = 1 - w[1] /\ Peer(Peer(w)) = w
    <2>1. PICK r \in Ranks, t \in Threads : w = <<r, t>>
      BY DEF Workers
    <2>2. w[1] = r /\ w[2] = t
      BY <2>1
    <2>3. Peer(w) = <<1 - r, t>> /\ 1 - r \in Ranks /\ 1 - (1 - r) = r
      BY <2>2 DEF Peer, Ranks
    <2>4. Peer(Peer(w)) = <<1 - (1 - r), t>>
      BY <2>3 DEF Peer
    <2>5. w \in {r} \X Threads /\ Peer(w) \in Ranks \X Threads
      BY <2>1, <2>3
    <2> QED
      BY <2>1, <2>2, <2>3, <2>4, <2>5 DEF Workers, Team
  <1>2. ASSUME NEW r \in Ranks, NEW w \in Team(r) PROVE w \in Workers /\ w[1] = r
    BY DEF Team, Workers
  <1> QED
    BY <1>1, <1>2

(* Every rank has a worker.                                                *)
LEMMA Members ==
  ASSUME NEW r \in Ranks
  PROVE  \E w \in Workers : w \in Team(r) /\ w[1] = r
  <1>1. PICK t \in Threads : TRUE
    BY ThreadsAssumption
  <1>2. <<r, t>> \in Team(r)
    BY DEF Team
  <1> QED
    BY <1>2, Pairs

-----------------------------------------------------------------------------
(* The places of main and of the workers                                   *)

(* Before the size loop everyone is at its place.                          *)
LEMMA ControlInit == Init => Types /\ ControlInv
  <1> SUFFICES ASSUME Init PROVE Types /\ ControlInv
    OBVIOUS
  <1>1. MainTypes
    BY Tunables DEF Init, MainTypes, MainPlaces
  <1>2. WorkTypes
    BY Tunables DEF Init, WorkTypes, WorkerPlaces
  <1>3. EpTypes
    <2>1. scq \in [Workers -> Seq(Entries)]
      BY DEF Init
    <2> QED
      BY <2>1, Tunables DEF Init, EpTypes
  <1>4. \A r \in Ranks : MainAt(r) /\ Uncreated(r)
    <2> SUFFICES ASSUME NEW r \in Ranks PROVE MainAt(r) /\ Uncreated(r)
      OBVIOUS
    <2>1. \A q \in Ranks : mpc[q] = "touch" /\ size[q] = 1 /\ calls[q] = 0
      BY DEF Init
    <2> QED
      BY <2>1, Tunables DEF MainAt, Uncreated, MainEntered, MainLeft
  <1>5. ASSUME NEW w \in Workers PROVE WorkerAt(w)
    <2>1. mpc[w[1]] = "touch" /\ size[w[1]] = 1 /\ pc[w] = "none" /\ tcalls[w] = 0
      BY Pairs DEF Init
    <2> QED
      BY <2>1 DEF WorkerAt, TeamCalls, Joined
  <1> QED
    BY <1>1, <1>2, <1>3, <1>4, <1>5 DEF Types, ControlInv

(* What the numbers of barriers say of the other rank                      *)
LEMMA Abreast ==
  ASSUME Types, ControlInv, NEW r \in Ranks, NEW q \in Ranks
  PROVE  MainLeft(r) <= MainEntered(q)
  BY DEF ControlInv, MainAt

(* A worker's way through thread_fn, as the barriers see it                *)
Inner == {"write", "waitw", "send", "waits", "recv", "waitr"}
Advance(w) ==
  \/ /\ pc[w] = "start" /\ pc'[w] = "bar1"
     /\ EnterTbarrier(w)
  \/ /\ pc[w] = "bar1" /\ TeamCalled(w) /\ pc'[w] \in Inner
     /\ UNCHANGED tcalls
  \/ /\ pc[w] \in Inner /\ pc'[w] \in Inner
     /\ UNCHANGED tcalls
  \/ /\ pc[w] \in Inner /\ pc'[w] = "bar2"
     /\ EnterTbarrier(w)
  \/ /\ pc[w] = "bar2" /\ TeamCalled(w) /\ pc'[w] = "ret"
     /\ UNCHANGED tcalls

(* A worker that has read all it waits for goes on, past the barriers      *)
(* too.                                                                    *)
LEMMA ResumeAdvances ==
  ASSUME Types, NEW w \in Workers, Resume(w), pc[w] \in {"waitw", "waits", "waitr"}
  PROVE  Advance(w) /\ pc' = [pc EXCEPT ![w] = pc'[w]]
  BY DEF Resume, Goto, Advance, Inner, Types, WorkTypes

(* A step of a worker moves that worker alone.                             *)
LEMMA WorkerAdvances ==
  ASSUME Types, NEW w \in Workers, WorkerStep(w)
  PROVE  /\ UNCHANGED mainVars
         /\ pc' = [pc EXCEPT ![w] = pc'[w]]
         /\ Advance(w)
  <1> USE DEF Types, WorkTypes
  <1>1. CASE Start(w) \/ Started(w) \/ WriteWindow(w) \/ Send(w) \/ Recv(w) \/ Return(w)
    <2>1. CASE Start(w)
      BY <2>1 DEF Start, Goto, Advance
    <2>2. CASE Started(w)
      BY <2>2 DEF Started, Goto, Advance, Inner
    <2>3. CASE WriteWindow(w)
      BY <2>3 DEF WriteWindow, Goto, Advance, Inner
    <2>4. CASE Send(w)
      BY <2>4 DEF Send, Goto, Advance, Inner
    <2>5. CASE Recv(w)
      BY <2>5 DEF Recv, Goto, Advance, Inner
    <2>6. CASE Return(w)
      BY <2>6 DEF Return, Goto, Advance
    <2> QED
      BY <1>1, <2>1, <2>2, <2>3, <2>4, <2>5, <2>6
  <1>2. CASE ReadSend(w)
    <2>1. CASE need'[w] = 0
      BY <1>2, <2>1, ResumeAdvances DEF ReadSend
    <2>2. CASE need'[w] # 0
      BY <1>2, <2>2 DEF ReadSend, Advance, Inner
    <2> QED
      BY <2>1, <2>2
  <1>3. CASE ReadRecv(w)
    BY <1>3, ResumeAdvances DEF ReadRecv
  <1> QED
    BY <1>1, <1>2, <1>3 DEF WorkerStep

(* Main's part does not depend on the workers, except for the one that is  *)
(* not created yet.                                                        *)
LEMMA MainStill ==
  ASSUME NEW r \in Ranks, MainAt(r), UNCHANGED mainVars
  PROVE  MainAt(r)'
  BY DEF MainAt, MainEntered, MainLeft, mainVars

(* A step of a worker leaves every barrier count telling its place.        *)
LEMMA WorkerControl ==
  ASSUME Types, ControlInv, NEW w \in Workers, WorkerStep(w)
  PROVE  ControlInv'
  <1>1. /\ UNCHANGED mainVars /\ pc' = [pc EXCEPT ![w] = pc'[w]] /\ Advance(w)
    BY WorkerAdvances
  <1>2. UNCHANGED <<mpc, size, calls>>
    BY <1>1 DEF mainVars
  <1>3. \A v \in Workers : v # w => pc'[v] = pc[v] /\ tcalls'[v] = tcalls[v]
    BY <1>1 DEF Advance, EnterTbarrier, Types, WorkTypes
  <1>4. \A v \in Workers : tcalls'[v] >= tcalls[v] /\ {tcalls[v], tcalls'[v]} \subseteq Nat
    BY <1>1 DEF Advance, EnterTbarrier, Types, WorkTypes
  <1>5. pc[w] # "none" /\ pc'[w] # "none"
    BY <1>1 DEF Advance, Inner
  <1>6. ASSUME NEW r \in Ranks PROVE MainAt(r)' /\ Uncreated(r)'
    <2>1. MainAt(r)'
      BY <1>1, MainStill DEF ControlInv
    <2>2. Uncreated(r)'
      <3> SUFFICES ASSUME mpc[r] \in {"create", "gone"} PROVE \E v \in Team(r) : pc'[v] = "none"
        BY <1>2 DEF Uncreated
      <3>1. PICK v \in Team(r) : pc[v] = "none"
        BY DEF ControlInv, Uncreated
      <3>2. v \in Workers /\ v # w
        BY <3>1, <1>5, Pairs
      <3> QED
        BY <3>1, <3>2, <1>3
    <2> QED
      BY <2>1, <2>2
  <1>7. ASSUME NEW v \in Workers PROVE WorkerAt(v)'
    <2>1. WorkerAt(v) /\ v[1] \in Ranks /\ size[v[1]] \in Nat
      BY Pairs DEF ControlInv, Types, MainTypes
    <2>2. \A x \in Team(v[1]) : x \in Workers /\ x[1] = v[1]
      BY Pairs
    <2>3. \A n \in Nat : (\A x \in Team(v[1]) : tcalls[x] >= n) => \A x \in Team(v[1]) : tcalls'[x] >= n
      BY <2>2, <1>4
    <2>4. CASE v # w
      <3>1. pc'[v] = pc[v] /\ tcalls'[v] = tcalls[v]
        BY <1>3, <2>4
      <3>2. 2 * size[v[1]] - 1 \in Nat /\ 2 * size[v[1]] \in Nat
        BY <2>1 DEF Types, MainTypes
      <3>3. TeamCalls(v)' = TeamCalls(v)
        BY <3>1, <1>2 DEF TeamCalls, Joined
      <3> HIDE DEF TeamCalls
      <3> QED
        BY <2>1, <2>3, <3>1, <3>2, <3>3, <1>2 DEF WorkerAt, Working
    <2>5. CASE v = w
      <3>1. Working(w[1]) /\ ~Joined(w[1]) /\ Working(w[1])' /\ ~Joined(w[1])'
        BY <2>1, <2>5, <1>2, <1>5 DEF WorkerAt, Working, Joined
      <3>2. tcalls'[w] = 2 * (size[w[1]] - 1) + TeamCalls(w)'
        BY <2>1, <2>5, <1>1, <3>1 DEF WorkerAt, Advance, EnterTbarrier, TeamCalls, Inner, Types, WorkTypes
      <3>3. pc'[w] \notin {"none", "start", "bar1"}
              => \A x \in Team(w[1]) : tcalls'[x] >= 2 * size[w[1]] - 1
        <4> SUFFICES ASSUME pc'[w] \notin {"none", "start", "bar1"}
                     PROVE  \A x \in Team(w[1]) : tcalls[x] >= 2 * size[w[1]] - 1
          <5>1. 2 * size[w[1]] - 1 \in Nat
            BY <2>1, <2>5 DEF Types, MainTypes
          <5> QED
            BY <5>1, <2>3, <2>5
        <4>1. CASE pc[w] = "bar1"
          <5>1. TeamCalled(w) /\ tcalls[w] = 2 * (size[w[1]] - 1) + 1
            BY <2>1, <2>5, <3>1, <4>1, <1>1 DEF Advance, Inner, WorkerAt, TeamCalls
          <5> QED
            BY <5>1, <2>1, <2>5 DEF TeamCalled
        <4>2. CASE pc[w] # "bar1"
          <5>1. pc[w] \notin {"none", "start", "bar1"}
            BY <4>2, <1>1 DEF Advance, Inner
          <5> QED
            BY <5>1, <2>1, <2>5 DEF WorkerAt
        <4> QED
          BY <4>1, <4>2
      <3>4. pc'[w] = "ret" => \A x \in Team(w[1]) : tcalls'[x] >= 2 * size[w[1]]
        <4> SUFFICES ASSUME pc'[w] = "ret" PROVE \A x \in Team(w[1]) : tcalls[x] >= 2 * size[w[1]]
          BY <2>1, <2>3, <2>5
        <4>1. TeamCalled(w) /\ pc[w] = "bar2"
          BY <1>1 DEF Advance, Inner
        <4>2. tcalls[w] = 2 * (size[w[1]] - 1) + 2
          BY <2>1, <2>5, <4>1 DEF WorkerAt, TeamCalls
        <4> QED
          BY <4>1, <4>2, <2>1, <2>5 DEF TeamCalled
      <3> HIDE DEF TeamCalls
      <3> QED
        BY <3>1, <3>2, <3>3, <3>4, <2>5, <1>2, <1>5 DEF WorkerAt
    <2> QED
      BY <2>4, <2>5
  <1> QED
    BY <1>6, <1>7 DEF ControlInv

(* A step of main leaves the other rank and its workers where they are,    *)
(* and no rank takes back a call of the barrier.                           *)
LEMMA OtherRank ==
  ASSUME Types, ControlInv, NEW r \in Ranks, NEW q \in Ranks, q # r,
         mpc'[q] = mpc[q], size'[q] = size[q], calls'[q] = calls[q],
         calls'[r] \in Nat, calls'[r] >= calls[r],
         UNCHANGED tcalls, \A w \in Team(q) : pc'[w] = pc[w]
  PROVE  MainAt(q)' /\ Uncreated(q)' /\ \A w \in Team(q) : WorkerAt(w)'
  <1>1. MainAt(q) /\ Uncreated(q) /\ \A w \in Team(q) : WorkerAt(w) /\ w[1] = q
    BY Pairs DEF ControlInv
  <1>2. MainEntered(q)' = MainEntered(q) /\ MainLeft(q)' = MainLeft(q) /\ MainLeft(q) \in Int
    BY DEF MainEntered, MainLeft, Types, MainTypes, MainPlaces
  <1>3. MainAt(q)'
    <2>1. \A p \in Ranks : calls'[p] >= calls[p] /\ calls[p] \in Int /\ calls'[p] \in Int
      BY DEF Ranks, Types, MainTypes
    <2> HIDE DEF MainEntered, MainLeft
    <2> QED
      BY <1>1, <1>2, <2>1 DEF MainAt
  <1>4. Uncreated(q)'
    BY <1>1 DEF Uncreated
  <1>5. ASSUME NEW w \in Team(q) PROVE WorkerAt(w)'
    <2>1. WorkerAt(w) /\ w[1] = q /\ pc'[w] = pc[w] /\ tcalls'[w] = tcalls[w]
      BY <1>1
    <2>2. TeamCalls(w)' = TeamCalls(w)
      BY <2>1 DEF TeamCalls, Joined
    <2> HIDE DEF TeamCalls
    <2> QED
      BY <2>1, <2>2 DEF WorkerAt, Working
  <1> QED
    BY <1>3, <1>4, <1>5

(* The rank that makes the step                                            *)
LEMMA MainControl ==
  ASSUME Types, ControlInv, NEW r \in Ranks,
         mpc' = [mpc EXCEPT ![r] = mpc'[r]],
         size' = [size EXCEPT ![r] = size'[r]],
         calls' = [calls EXCEPT ![r] = calls'[r]], calls'[r] \in Nat, calls'[r] >= calls[r],
         UNCHANGED tcalls, \A w \in Workers : w \notin Team(r) => pc'[w] = pc[w],
         MainAt(r)', Uncreated(r)', \A w \in Team(r) : WorkerAt(w)'
  PROVE  ControlInv'
  <1>1. ASSUME NEW q \in Ranks, q # r
        PROVE  MainAt(q)' /\ Uncreated(q)' /\ \A w \in Team(q) : WorkerAt(w)'
    <2>1. mpc'[q] = mpc[q] /\ size'[q] = size[q] /\ calls'[q] = calls[q]
      BY <1>1 DEF Types, MainTypes
    <2>2. \A w \in Team(q) : pc'[w] = pc[w]
      BY <1>1, Pairs
    <2> QED
      BY <1>1, <2>1, <2>2, OtherRank
  <1> QED
    BY <1>1, Pairs DEF ControlInv

(* Without workers, a rank's worker has made all calls of its size or none *)
LEMMA Idle ==
  ASSUME Types, ControlInv, NEW r \in Ranks, NEW w \in Team(r), ~Working(r)
  PROVE  /\ pc[w] = "none" /\ w \in Workers /\ w[1] = r
         /\ tcalls[w] = 2 * (size[r] - 1) + (IF Joined(r) THEN 2 ELSE 0)
  <1>1. WorkerAt(w) /\ w \in Workers /\ w[1] = r
    BY Pairs DEF ControlInv
  <1> QED
    BY <1>1 DEF WorkerAt, TeamCalls

(* The first touch of the buffers of a size.                               *)
LEMMA TouchControl ==
  ASSUME Types, ControlInv, NEW r \in Ranks, Touch(r)
  PROVE  ControlInv'
  <1>1. /\ mpc[r] = "touch" /\ mpc' = [mpc EXCEPT ![r] = "enter"] /\ mpc'[r] = "enter"
        /\ calls' = [calls EXCEPT ![r] = calls[r] + 1] /\ calls'[r] = calls[r] + 1 /\ calls[r] \in Nat
        /\ UNCHANGED <<size, pc, tcalls>> /\ size[r] \in Nat
    BY DEF Touch, MGoto, workVars, Types, MainTypes
  <1>2. MainAt(r)'
    <2>1. MainAt(r) /\ \A q \in Ranks : calls'[q] >= calls[q] /\ {calls[q], calls'[q]} \subseteq Nat
      BY <1>1 DEF ControlInv, Types, MainTypes
    <2> QED
      BY <1>1, <2>1 DEF MainAt, MainEntered, MainLeft
  <1>3. Uncreated(r)'
    BY <1>1 DEF Uncreated
  <1>4. ASSUME NEW w \in Team(r) PROVE WorkerAt(w)'
    BY <1>1, Idle DEF Working, Joined, WorkerAt, TeamCalls
  <1>5. /\ size' = [size EXCEPT ![r] = size'[r]] /\ mpc' = [mpc EXCEPT ![r] = mpc'[r]]
        /\ calls' = [calls EXCEPT ![r] = calls'[r]] /\ calls'[r] \in Nat /\ calls'[r] >= calls[r]
        /\ UNCHANGED tcalls /\ \A w \in Workers : w \notin Team(r) => pc'[w] = pc[w]
    BY <1>1 DEF Types, MainTypes
  <1> QED
    BY <1>2, <1>3, <1>4, <1>5, MainControl

(* Leaving a barrier: all have called it.                                  *)
LEMMA LeaveControl ==
  ASSUME Types, ControlInv, NEW r \in Ranks, LeaveFirst(r) \/ LeaveSecond(r)
  PROVE  ControlInv'
  <1>1. /\ \/ mpc[r] = "enter" /\ mpc'[r] = "create"
           \/ mpc[r] = "leave" /\ mpc'[r] = "report"
        /\ mpc' = [mpc EXCEPT ![r] = mpc'[r]]
        /\ UNCHANGED <<size, calls, pc, tcalls>> /\ size[r] \in Nat /\ AllCalled(r)
    BY DEF LeaveFirst, LeaveSecond, MGoto, workVars, Types, MainTypes
  <1>2. MainAt(r)'
    BY <1>1 DEF ControlInv, MainAt, MainEntered, MainLeft, AllCalled
  <1>3. ASSUME NEW w \in Team(r)
        PROVE  pc[w] = "none" /\ WorkerAt(w)'
    BY <1>1, Idle DEF Working, Joined, WorkerAt, TeamCalls
  <1>4. Uncreated(r)'
    <2>1. PICK w \in Team(r) : TRUE
      BY Members
    <2> QED
      BY <1>1, <1>3 DEF Uncreated
  <1>5. size' = [size EXCEPT ![r] = size'[r]] /\ calls' = [calls EXCEPT ![r] = calls'[r]]
        /\ calls'[r] = calls[r] /\ calls[r] \in Nat
    BY <1>1 DEF Types, MainTypes
  <1> QED
    BY <1>1, <1>2, <1>3, <1>4, <1>5, MainControl

(* Threads are created with their counts at the start of the size.         *)
LEMMA CreateControl ==
  ASSUME Types, ControlInv, NEW r \in Ranks, Create(r) \/ CreateFails(r)
  PROVE  ControlInv'
  <1>1. /\ mpc[r] = "create" /\ mpc'[r] \in {"create", "join", "gone"}
        /\ mpc' = [mpc EXCEPT ![r] = mpc'[r]]
        /\ UNCHANGED <<size, calls, tcalls>>
    BY DEF Create, CreateFails, MGoto, workVars, Types, MainTypes
  <1>2. MainAt(r)'
    BY <1>1 DEF ControlInv, MainAt, MainEntered, MainLeft
  <1>3. size' = [size EXCEPT ![r] = size'[r]] /\ calls' = [calls EXCEPT ![r] = calls'[r]]
        /\ calls'[r] = calls[r] /\ calls[r] \in Nat
    BY <1>1 DEF Types, MainTypes
  <1>4. \A w \in Team(r) : WorkerAt(w) /\ w \in Workers /\ w[1] = r
    BY Pairs DEF ControlInv
  <1>5. CASE CreateFails(r)
    <2>1. mpc'[r] = "gone" /\ pc' = pc
      BY <1>5 DEF CreateFails, MGoto, workVars, Types, MainTypes
    <2>2. Uncreated(r)'
      BY <1>1, <2>1 DEF ControlInv, Uncreated
    <2>3. ASSUME NEW w \in Team(r) PROVE WorkerAt(w)'
      <3>1. TeamCalls(w)' = TeamCalls(w)
        BY <1>1, <1>4, <2>1 DEF TeamCalls, Joined
      <3> HIDE DEF TeamCalls
      <3> QED
        BY <1>1, <1>4, <2>1, <3>1 DEF WorkerAt, Working
    <2> QED
      BY <1>1, <1>2, <1>3, <2>1, <2>2, <2>3, MainControl
  <1>6. CASE Create(r)
    <2>1. PICK w \in Team(r) :
            /\ pc[w] = "none" /\ pc' = [pc EXCEPT ![w] = "start"]
            /\ mpc'[r] = IF \A v \in Team(r) \ {w} : pc[v] # "none" THEN "join" ELSE "create"
      BY <1>6 DEF Create, MGoto, Types, MainTypes
    <2>2. w \in Workers /\ pc'[w] = "start" /\ \A v \in Workers : v # w => pc'[v] = pc[v]
      BY <2>1, <1>4 DEF Types, WorkTypes
    <2>3. Uncreated(r)'
      <3> SUFFICES ASSUME mpc'[r] # "join" PROVE \E v \in Team(r) : pc'[v] = "none"
        BY <2>1 DEF Uncreated
      <3>1. PICK v \in Team(r) \ {w} : pc[v] = "none"
        BY <2>1
      <3> QED
        BY <3>1, <2>2, <1>4
    <2>4. ASSUME NEW v \in Team(r) PROVE WorkerAt(v)'
      <3>1. TeamCalls(v)' = TeamCalls(v)
        BY <1>1, <1>4, <2>1, <2>2 DEF TeamCalls, Joined
      <3>2. mpc'[r] = "join" => pc'[v] # "none"
        BY <2>1, <2>2, <1>4
      <3> HIDE DEF TeamCalls
      <3>3. Working(r)' /\ v \in Workers /\ v[1] = r
        BY <1>1, <1>4 DEF Working
      <3>4. CASE v = w
        BY <1>1, <1>4, <2>1, <2>2, <3>1, <3>2, <3>3, <3>4 DEF WorkerAt
      <3>5. CASE v # w
        BY <1>1, <1>4, <2>1, <2>2, <3>1, <3>2, <3>3, <3>5 DEF WorkerAt
      <3> QED
        BY <3>4, <3>5
    <2>5. \A v \in Workers : v \notin Team(r) => pc'[v] = pc[v]
      BY <2>1, <2>2
    <2> QED
      BY <1>1, <1>2, <1>3, <2>3, <2>4, <2>5, MainControl
  <1> QED
    BY <1>5, <1>6

(* A rank joins threads that have returned, all of them.                   *)
LEMMA JoinControl ==
  ASSUME Types, ControlInv, NEW r \in Ranks, Join(r)
  PROVE  ControlInv'
  <1>1. /\ mpc[r] = "join" /\ mpc' = [mpc EXCEPT ![r] = "leave"] /\ mpc'[r] = "leave"
        /\ calls' = [calls EXCEPT ![r] = calls[r] + 1] /\ calls'[r] = calls[r] + 1 /\ calls[r] \in Nat
        /\ UNCHANGED <<size, tcalls>> /\ size[r] \in Nat
        /\ \A w \in Team(r) : pc[w] = "ret"
        /\ pc' = [w \in Workers |-> IF w \in Team(r) THEN "none" ELSE pc[w]]
    BY DEF Join, MGoto, workVars, Types, MainTypes
  <1>2. MainAt(r)'
    <2>1. MainAt(r) /\ \A q \in Ranks : calls'[q] >= calls[q] /\ {calls[q], calls'[q]} \subseteq Nat
      BY <1>1 DEF ControlInv, Types, MainTypes
    <2> QED
      BY <1>1, <2>1 DEF MainAt, MainEntered, MainLeft
  <1>3. Uncreated(r)'
    BY <1>1 DEF Uncreated
  <1>4. ASSUME NEW w \in Team(r) PROVE WorkerAt(w)'
    <2>1. WorkerAt(w) /\ w \in Workers /\ w[1] = r /\ pc[w] = "ret" /\ pc'[w] = "none"
      BY <1>1, Pairs DEF ControlInv
    <2>2. TeamCalls(w) = 2 /\ TeamCalls(w)' = 2
      BY <1>1, <2>1 DEF TeamCalls, Joined
    <2> HIDE DEF TeamCalls
    <2> QED
      BY <1>1, <2>1, <2>2 DEF WorkerAt
  <1>5. /\ size' = [size EXCEPT ![r] = size'[r]] /\ mpc' = [mpc EXCEPT ![r] = mpc'[r]]
        /\ calls' = [calls EXCEPT ![r] = calls'[r]] /\ calls'[r] \in Nat /\ calls'[r] >= calls[r]
        /\ UNCHANGED tcalls /\ \A w \in Workers : w \notin Team(r) => pc'[w] = pc[w]
    BY <1>1 DEF Types, MainTypes
  <1> QED
    BY <1>2, <1>3, <1>4, <1>5, MainControl

(* The next size starts where this one ended.                              *)
LEMMA ReportControl ==
  ASSUME Types, ControlInv, NEW r \in Ranks, Report(r)
  PROVE  ControlInv'
  <1>1. /\ mpc[r] = "report" /\ size'[r] = size[r] + 1 /\ size[r] \in 1 .. Sizes + 1
        /\ mpc'[r] = IF size[r] < Sizes THEN "touch" ELSE "done"
        /\ mpc' = [mpc EXCEPT ![r] = mpc'[r]] /\ size' = [size EXCEPT ![r] = size'[r]]
        /\ UNCHANGED <<calls, pc, tcalls>>
    BY DEF Report, MGoto, workVars, Types, MainTypes
  <1>2. MainAt(r)'
    BY <1>1, Tunables DEF ControlInv, MainAt, MainEntered, MainLeft
  <1>3. Uncreated(r)'
    BY <1>1 DEF Uncreated
  <1>4. ASSUME NEW w \in Team(r) PROVE WorkerAt(w)'
    BY <1>1, Idle DEF Working, Joined, WorkerAt, TeamCalls
  <1>5. calls' = [calls EXCEPT ![r] = calls'[r]] /\ calls'[r] = calls[r] /\ calls[r] \in Nat
    BY <1>1 DEF Types, MainTypes
  <1> QED
    BY <1>1, <1>2, <1>3, <1>4, <1>5, MainControl

(* libfabric knows nothing of places.                                      *)
LEMMA FabricControl ==
  ASSUME ControlInv, UNCHANGED <<mainVars, workVars>>
  PROVE  ControlInv'
  <1>1. ASSUME NEW r \in Ranks PROVE MainAt(r)' /\ Uncreated(r)'
    BY DEF ControlInv, MainAt, MainEntered, MainLeft, Uncreated, mainVars, workVars
  <1>2. ASSUME NEW w \in Workers PROVE WorkerAt(w)'
    BY DEF ControlInv, WorkerAt, TeamCalls, Working, Joined, mainVars, workVars
  <1> QED
    BY <1>1, <1>2 DEF ControlInv

-----------------------------------------------------------------------------
(* The entries of a send completion queue                                  *)

(* The errors of a queue are finitely many.                                *)
LEMMA ErrsType ==
  ASSUME NEW s \in Seq(Entries)
  PROVE  /\ Errs(s) \in Nat
         /\ IsFiniteSet({k \in 1 .. Len(s) : s[k] = "err"})
  <1>1. IsFiniteSet(1 .. Len(s))
    BY FS_Interval
  <1>2. IsFiniteSet({k \in 1 .. Len(s) : s[k] = "err"})
    BY <1>1, FS_Subset
  <1> QED
    BY <1>2, FS_CardinalityType DEF Errs

(* An entry put last counts once, as an error when it is one.              *)
LEMMA ErrsAppend ==
  ASSUME NEW s \in Seq(Entries), NEW e \in Entries
  PROVE  /\ Append(s, e) \in Seq(Entries) /\ Len(Append(s, e)) = Len(s) + 1
         /\ Errs(Append(s, e)) = Errs(s) + Flag(e = "err")
  <1> DEFINE Old == {k \in 1 .. Len(s) : s[k] = "err"}
             New == {k \in 1 .. Len(Append(s, e)) : Append(s, e)[k] = "err"}
  <1>1. Append(s, e) \in Seq(Entries) /\ Len(Append(s, e)) = Len(s) + 1 /\ Len(s) \in Nat
    OBVIOUS
  <1>2. \A k \in 1 .. Len(s) + 1 : Append(s, e)[k] = IF k = Len(s) + 1 THEN e ELSE s[k]
    OBVIOUS
  <1>3. New = IF e = "err" THEN Old \cup {Len(s) + 1} ELSE Old
    BY <1>1, <1>2
  <1>4. Len(s) + 1 \notin Old
    BY <1>1
  <1>5. IsFiniteSet(Old) /\ Errs(s) \in Nat
    BY ErrsType
  <1>6. Cardinality(Old \cup {Len(s) + 1}) = Cardinality(Old) + 1
    <2> HIDE DEF Old
    <2> QED
      BY <1>4, <1>5, FS_AddElement
  <1>7. Errs(Append(s, e)) = Cardinality(New) /\ Errs(s) = Cardinality(Old)
    BY DEF Errs
  <1> HIDE DEF Old, New
  <1> QED
    BY <1>1, <1>3, <1>5, <1>6, <1>7 DEF Flag

(* So does an entry taken from the front.                                  *)
LEMMA ErrsTail ==
  ASSUME NEW s \in Seq(Entries), s # <<>>
  PROVE  /\ Head(s) \in Entries /\ Tail(s) \in Seq(Entries) /\ Len(Tail(s)) = Len(s) - 1
         /\ Len(s) \in Nat \ {0}
         /\ Errs(s) = Errs(Tail(s)) + Flag(Head(s) = "err")
  <1> DEFINE Old == {k \in 1 .. Len(s) : s[k] = "err"}
             Later == {k \in 2 .. Len(s) : s[k] = "err"}
             New == {k \in 1 .. Len(Tail(s)) : Tail(s)[k] = "err"}
             shift == [k \in New |-> k + 1]
  <1>1. /\ Head(s) \in Entries /\ Tail(s) \in Seq(Entries) /\ Len(Tail(s)) = Len(s) - 1
        /\ Len(s) \in Nat \ {0} /\ Head(s) = s[1]
    OBVIOUS
  <1>2. \A k \in 1 .. Len(s) - 1 : Tail(s)[k] = s[k + 1]
    OBVIOUS
  <1>3. Old = IF Head(s) = "err" THEN Later \cup {1} ELSE Later
    BY <1>1
  <1>4. 1 \notin Later
    OBVIOUS
  <1>5. shift \in Bijection(New, Later)
    <2>1. \A k \in New : k \in Nat /\ k + 1 \in Later
      BY <1>1, <1>2
    <2>2. \A m \in Later : m - 1 \in New /\ m = (m - 1) + 1
      BY <1>1, <1>2
    <2>3. \A j, k \in New : j + 1 = k + 1 => j = k
      BY <2>1
    <2> HIDE DEF New, Later
    <2>4. shift \in [New -> Later]
      BY <2>1
    <2>5. \A j, k \in New : shift[j] = shift[k] => j = k
      BY <2>3
    <2>6. \A m \in Later : \E k \in New : shift[k] = m
      BY <2>2
    <2>7. shift \in Injection(New, Later)
      BY <2>4, <2>5 DEF Injection, IsInjective
    <2>8. shift \in Surjection(New, Later)
      BY <2>4, <2>6 DEF Surjection
    <2> QED
      BY <2>7, <2>8 DEF Bijection
  <1>6. IsFiniteSet(New) /\ Errs(Tail(s)) \in Nat
    BY <1>1, ErrsType
  <1>7. Errs(Tail(s)) = Cardinality(New) /\ Errs(s) = Cardinality(Old)
    BY DEF Errs
  <1> HIDE DEF Old, New, Later, shift
  <1>8. ExistsBijection(New, Later)
    BY <1>5 DEF ExistsBijection
  <1>9. IsFiniteSet(Later) /\ Cardinality(Later) = Cardinality(New)
    BY <1>6, <1>8, FS_Bijection
  <1>10. Cardinality(Later \cup {1}) = Cardinality(Later) + 1
    BY <1>4, <1>9, FS_AddElement
  <1> QED
    BY <1>1, <1>3, <1>6, <1>7, <1>9, <1>10 DEF Flag

-----------------------------------------------------------------------------
(* What a worker has outstanding, and how far it is                        *)

(* The products the provers have to know of.                               *)
LEMMA Product ==
  ASSUME NEW k \in Nat
  PROVE  /\ k * (Window - 1) \in Nat
         /\ (k + 1) * (Window - 1) = k * (Window - 1) + (Window - 1)
         /\ k * Window \in Nat
         /\ (k + 1) * Window = k * Window + Window
         /\ 1 * Window = Window
         /\ 0 * (Window - 1) = 0
  BY Tunables

WindowAt(w) == Waiting(w) /\ Surplus(w) /\ Exact(w) /\ Progress(w) /\ OneSide(w)

(* The window invariant, one worker at a time.                             *)
LEMMA WindowParts == WindowInv <=> \A w \in Workers : WindowAt(w)
  BY DEF WindowInv, WindowAt

(* The types at one worker                                                 *)
LEMMA AtWorker ==
  ASSUME Types, NEW w \in Workers
  PROVE  /\ pc[w] \in WorkerPlaces /\ need[w] \in 0 .. Window
         /\ {i[w], tcalls[w], bytes[w], writes[w], sends[w], net[w], posted[w], rcq[w]} \subseteq Nat
         /\ scq[w] \in Seq(Entries) /\ Len(scq[w]) \in Nat /\ Errs(scq[w]) \in Nat
         /\ errors \in Nat /\ mpc[w[1]] \in MainPlaces
         /\ size[w[1]] \in Nat /\ w[1] \in Ranks
  <1>1. scq[w] \in Seq(Entries)
    BY DEF Types, EpTypes
  <1>2. Len(scq[w]) \in Nat
    BY <1>1
  <1>3. errors \in Nat
    BY DEF Types, EpTypes
  <1>4. {writes[w], sends[w], net[w], posted[w], rcq[w]} \subseteq Nat
    BY DEF Types, EpTypes
  <1>5. {i[w], tcalls[w], bytes[w]} \subseteq Nat /\ pc[w] \in WorkerPlaces /\ need[w] \in 0 .. Window
    BY DEF Types, WorkTypes
  <1>6. w[1] \in Ranks /\ mpc[w[1]] \in MainPlaces /\ size[w[1]] \in Nat
    BY Pairs DEF Types, MainTypes
  <1>7. Errs(scq[w]) \in Nat
    BY <1>1, ErrsType
  <1> QED
    BY <1>1, <1>2, <1>3, <1>4, <1>5, <1>6, <1>7

(* Nothing is outstanding before the size loop.                            *)
LEMMA WindowInit == Init => WindowInv
  <1> SUFFICES ASSUME Init, NEW w \in Workers PROVE WindowAt(w)
    BY WindowParts
  <1>1. /\ pc[w] = "none" /\ scq[w] = <<>> /\ writes[w] = 0 /\ sends[w] = 0 /\ errors = 0
        /\ ~Joined(0)
    BY DEF Init, Joined, Ranks
  <1>2. Errs(scq[w]) = 0
    <2>1. {k \in 1 .. Len(scq[w]) : scq[w][k] = "err"} = {}
      BY <1>1
    <2> QED
      BY <2>1, FS_EmptySet DEF Errs
  <1> QED
    BY <1>1, <1>2, Product DEF WindowAt, Waiting, Surplus, Exact, Progress, OneSide, Need,
                               Outstanding, HasWritten

(* What is said of a worker, once it stands where it stood.                *)
LEMMA WindowSame ==
  ASSUME Types, NEW w \in Workers, WindowAt(w), UNCHANGED mainVars, errors' \in {errors, errors + 1},
         pc'[w] = pc[w], i'[w] = i[w], need'[w] = need[w], bytes'[w] = bytes[w],
         writes'[w] = writes[w], sends'[w] = sends[w], scq'[w] = scq[w]
  PROVE  WindowAt(w)'
  <1>1. UNCHANGED <<mpc, size>> /\ Errs(scq[w])' = Errs(scq[w]) /\ Need(w)' = Need(w)
        /\ Outstanding(w)' = Outstanding(w)
    BY DEF mainVars, Errs, Need, Outstanding
  <1>2. /\ errors \in Nat /\ Errs(scq[w]) \in Nat /\ Outstanding(w) \in Nat /\ Need(w) \in Nat
    BY AtWorker, Tunables DEF Outstanding, Need
  <1>3. Surplus(w)'
    <2>1. errors - Errs(scq[w]) \in Nat
      BY <1>2 DEF WindowAt, Surplus
    <2>2. (errors + 1) - Errs(scq[w]) = (errors - Errs(scq[w])) + 1
      BY <1>2
    <2> HIDE DEF Errs, Outstanding, Need
    <2> QED
      BY <1>1, <1>2, <2>1, <2>2, Product, Tunables DEF WindowAt, Surplus
  <1>4. Exact(w)' /\ Waiting(w)' /\ OneSide(w)'
    <2> HIDE DEF Errs, Outstanding, Need
    <2> QED
      BY <1>1, <1>2 DEF WindowAt, Exact, Waiting, OneSide
  <1>5. Progress(w)'
    BY <1>1 DEF WindowAt, Progress, HasWritten, Joined, LastAt, LoopAt, SkipAt
  <1> QED
    BY <1>3, <1>4, <1>5 DEF WindowAt

(* A step of main: its workers are outside their loop before and after.    *)
LEMMA WindowMain ==
  ASSUME Types, ControlInv, WindowInv, UNCHANGED <<i, need, bytes, epVars>>,
         \A w \in Workers :
           /\ pc'[w] = pc[w] \/ {pc[w], pc'[w]} \subseteq {"none", "start", "ret"}
           /\ HasWritten(w)' => HasWritten(w)
           /\ HasWritten(w)' \/ pc[w] \in {"write", "waitw"} => size'[w[1]] = size[w[1]]
  PROVE  WindowInv'
  <1> SUFFICES ASSUME NEW w \in Workers PROVE WindowAt(w)'
    BY DEF WindowInv, WindowAt
  <1>1. WindowAt(w)
    BY WindowParts
  <1>2. UNCHANGED <<writes, sends, scq, errors>>
    BY DEF epVars
  <1>3. Errs(scq[w])' = Errs(scq[w]) /\ Need(w)' = Need(w) /\ Outstanding(w)' = Outstanding(w)
    BY <1>2 DEF Errs, Need, Outstanding
  <1>4. pc'[w] \in {"write", "waitw", "waits"} \/ pc[w] \in {"write", "waitw", "waits"} => pc'[w] = pc[w]
    OBVIOUS
  <1>5. Waiting(w)' /\ OneSide(w)'
    BY <1>1, <1>4 DEF WindowAt, Waiting, OneSide
  <1>6. Surplus(w)' /\ Exact(w)'
    <2> HIDE DEF Errs, Need, Outstanding
    <2> QED
      BY <1>1, <1>2, <1>3, <1>4 DEF WindowAt, Surplus, Exact
  <1>7. Progress(w)'
    <2> HIDE DEF HasWritten
    <2> QED
      BY <1>1, <1>4 DEF WindowAt, Progress, LastAt, LoopAt, SkipAt
  <1> QED
    BY <1>5, <1>6, <1>7 DEF WindowAt

(* A worker touches nothing of another one but the messages to its peer.   *)
LEMMA WorkerFrame ==
  ASSUME Types, NEW w \in Workers, WorkerStep(w), NEW v \in Workers, v # w
  PROVE  /\ pc'[v] = pc[v] /\ i'[v] = i[v] /\ need'[v] = need[v] /\ bytes'[v] = bytes[v]
         /\ writes'[v] = writes[v] /\ sends'[v] = sends[v] /\ scq'[v] = scq[v]
         /\ posted'[v] = posted[v] /\ rcq'[v] = rcq[v]
         /\ errors' = errors
  <1> USE DEF Types, WorkTypes, EpTypes
  <1>1. CASE Start(w) \/ Started(w) \/ Return(w)
    BY <1>1 DEF Start, Started, Return, Goto, epVars
  <1>2. CASE WriteWindow(w)
    BY <1>2 DEF WriteWindow, Goto
  <1>3. CASE Send(w)
    BY <1>3 DEF Send, Goto
  <1>4. CASE Recv(w)
    BY <1>4 DEF Recv, Goto
  <1>5. CASE ReadSend(w)
    <2>1. pc'[v] = pc[v] /\ i'[v] = i[v]
      BY <1>5 DEF ReadSend, Resume, Goto
    <2> QED
      BY <1>5, <2>1 DEF ReadSend
  <1>6. CASE ReadRecv(w)
    <2>1. pc'[v] = pc[v] /\ i'[v] = i[v]
      BY <1>6 DEF ReadRecv, Resume, Goto
    <2> QED
      BY <1>6, <2>1 DEF ReadRecv
  <1> QED
    BY <1>1, <1>2, <1>3, <1>4, <1>5, <1>6 DEF WorkerStep

(* A step of a worker keeps every variable in its set.                     *)
LEMMA WorkerTypes ==
  ASSUME Types, WindowInv, NEW w \in Workers, WorkerStep(w)
  PROVE  Types'
  <1>1. pc[w] \in WorkerPlaces /\ need[w] \in 0 .. Window
    BY DEF Types, WorkTypes
  <1>2. MainTypes'
    BY WorkerAdvances DEF mainVars, Types, MainTypes
  <1>3. WorkTypes'
    <2> USE DEF Types, WorkTypes
    <2>1. pc' \in [Workers -> WorkerPlaces] /\ tcalls' \in [Workers -> Nat]
      BY WorkerAdvances DEF Advance, EnterTbarrier, Inner, WorkerPlaces
    <2>2. need' \in [Workers -> 0 .. Window]
      <3>1. CASE WriteWindow(w) \/ Send(w) \/ Recv(w) \/ ReadRecv(w)
        BY <3>1, Tunables DEF WriteWindow, Send, Recv, ReadRecv, WindowComps
      <3>2. CASE ReadSend(w)
        <4>1. need[w] > 0
          BY <3>2 DEF ReadSend, WindowInv, Waiting
        <4>2. (IF Head(scq[w]) = "err" THEN 0 ELSE need[w] - 1) \in 0 .. Window
          BY <1>1, <4>1, Tunables
        <4> QED
          BY <3>2, <4>2 DEF ReadSend
      <3>3. CASE Start(w) \/ Started(w) \/ Return(w)
        BY <3>3 DEF Start, Started, Return
      <3> QED
        BY <3>1, <3>2, <3>3 DEF WorkerStep
    <2>3. i' \in [Workers -> Nat]
      <3>1. CASE ReadSend(w) \/ ReadRecv(w)
        <4>1. i' = i \/ i' = [i EXCEPT ![w] = i[w] + 1]
          BY <3>1 DEF ReadSend, ReadRecv, Resume
        <4>2. i \in [Workers -> Nat] /\ i[w] + 1 \in Nat
          OBVIOUS
        <4> QED
          BY <4>1, <4>2
      <3>2. CASE ~(ReadSend(w) \/ ReadRecv(w))
        BY <3>2 DEF WorkerStep, Start, Started, Return, WriteWindow, Send, Recv
      <3> QED
        BY <3>1, <3>2
    <2>4. bytes' \in [Workers -> Nat]
      <3>1. BytesSent(w) \in Nat
        BY Tunables DEF BytesSent
      <3> QED
        BY <3>1 DEF WorkerStep, Start, Started, Return, WriteWindow, Send, Recv, ReadSend, ReadRecv
    <2> QED
      BY <2>1, <2>2, <2>3, <2>4
  <1>4. EpTypes'
    <2> USE DEF Types, EpTypes
    <2>1. CASE Start(w) \/ Started(w) \/ Return(w)
      BY <2>1 DEF Start, Started, Return, epVars
    <2>2. CASE WriteWindow(w)
      BY <2>2, Tunables DEF WriteWindow
    <2>3. CASE Send(w)
      <3> HIDE DEF Types, EpTypes
      <3>1. Peer(w) \in Workers
        BY Pairs
      <3>2. net[Peer(w)] \in Nat /\ sends[w] \in Nat
        BY <3>1 DEF Types, EpTypes
      <3>3. net' = [net EXCEPT ![Peer(w)] = @ + 1] /\ sends' = [sends EXCEPT ![w] = @ + 1]
        BY <2>3 DEF Send
      <3>4. net' \in [Workers -> Nat] /\ sends' \in [Workers -> Nat]
        <4>1. net \in [Workers -> Nat] /\ sends \in [Workers -> Nat]
          BY DEF Types, EpTypes
        <4>2. net[Peer(w)] + 1 \in Nat /\ sends[w] + 1 \in Nat
          BY <3>2
        <4> QED
          BY <3>3, <4>1, <4>2
      <3> QED
        <4>1. UNCHANGED <<writes, scq, posted, rcq, errors>>
          BY <2>3 DEF Send
        <4> QED
          BY <3>4, <4>1 DEF Types, EpTypes
    <2>4. CASE Recv(w)
      BY <2>4 DEF Recv
    <2>5. CASE ReadSend(w)
      <3>1. Tail(scq[w]) \in Seq(Entries)
        <4>1. scq[w] \in Seq(Entries) /\ scq[w] # <<>>
          BY <2>5 DEF ReadSend
        <4> QED
          BY <4>1, ErrsTail
      <3> QED
        BY <2>5, <3>1 DEF ReadSend
    <2>6. CASE ReadRecv(w)
      <3>1. rcq[w] - 1 \in Nat
        BY <2>6 DEF ReadRecv
      <3> QED
        BY <2>6, <3>1 DEF ReadRecv
    <2> QED
      BY <2>1, <2>2, <2>3, <2>4, <2>5, <2>6 DEF WorkerStep
  <1> QED
    BY <1>2, <1>3, <1>4 DEF Types

(* A worker that works keeps main from having joined it.                   *)
LEMMA NotJoined ==
  ASSUME Types, ControlInv, NEW w \in Workers, WorkerStep(w)
  PROVE  /\ ~Joined(w[1]) /\ ~Joined(w[1])'
         /\ pc'[w] \in WorkerPlaces
         /\ size'[w[1]] = size[w[1]] /\ LastAt(size[w[1]]) \in Nat
  <1>1. pc[w] # "none" /\ UNCHANGED <<mpc, size>> /\ pc'[w] \in WorkerPlaces
    BY WorkerAdvances DEF Advance, Inner, WorkerPlaces, mainVars
  <1>2. Working(w[1])
    BY <1>1 DEF ControlInv, WorkerAt
  <1> QED
    BY <1>1, <1>2, Tunables DEF Working, Joined, LastAt

(* Entering, starting and leaving the loop: nothing is outstanding.        *)
LEMMA StartWindow ==
  ASSUME Types, ControlInv, WindowInv, NEW w \in Workers, Start(w) \/ Started(w) \/ Return(w)
  PROVE  WindowAt(w)'
  <1>1. /\ pc[w] \in {"start", "bar1", "bar2"} /\ pc'[w] \in {"bar1", "write", "recv", "ret"}
        /\ pc'[w] = "write" => w[1] = 0 /\ i'[w] = 0
        /\ w[1] = 0 /\ pc'[w] \in {"recv", "ret"} => pc[w] = "bar2" /\ UNCHANGED <<i, bytes>>
        /\ UNCHANGED <<epVars, need>>
    <2>1. w[1] \in Ranks
      BY Pairs
    <2> QED
      BY <2>1 DEF Start, Started, Return, Goto, Types, WorkTypes, Ranks
  <1>2. UNCHANGED <<writes, sends, scq, errors>>
    BY <1>1 DEF epVars
  <1>3. WindowAt(w)
    BY WindowParts
  <1>4. ~Joined(w[1]) /\ ~Joined(w[1])' /\ size'[w[1]] = size[w[1]]
        /\ LastAt(size[w[1]]) \in Nat /\ SkipAt(size[w[1]]) \in Nat /\ LastAt(size[w[1]]) > 0
    BY NotJoined, Tunables DEF WorkerStep, LastAt
  <1>5. Errs(scq[w])' = Errs(scq[w]) /\ Outstanding(w)' = Outstanding(w) /\ Need(w) = 0 /\ Need(w)' = 0
    BY <1>1, <1>2 DEF Errs, Need, Outstanding
  <1>6. Surplus(w)' /\ Exact(w)'
    <2> HIDE DEF Errs, Need, Outstanding
    <2> QED
      BY <1>1, <1>2, <1>3, <1>5 DEF WindowAt, Surplus, Exact
  <1>7. Progress(w)'
    BY <1>1, <1>3, <1>4 DEF WindowAt, Progress, HasWritten
  <1>8. Waiting(w)' /\ OneSide(w)'
    BY <1>1 DEF Waiting, OneSide
  <1> QED
    BY <1>6, <1>7, <1>8 DEF WindowAt

(* A window of writes: Window operations to wait for, Window to be waited  *)
(* for.                                                                    *)
LEMMA WriteWindowWindow ==
  ASSUME Types, ControlInv, WindowInv, NEW w \in Workers, WriteWindow(w)
  PROVE  WindowAt(w)'
  <1> DEFINE n == size[w[1]]
  <1>1. /\ pc[w] = "write" /\ pc'[w] = "waitw" /\ need'[w] = Window /\ i'[w] = i[w]
        /\ bytes'[w] = BytesSent(w) /\ writes'[w] = writes[w] + Window
        /\ UNCHANGED <<sends, scq, errors>>
    BY DEF WriteWindow, Goto, WindowComps, Types, WorkTypes, EpTypes
  <1>2. WindowAt(w)
    BY WindowParts
  <1>3. /\ ~Joined(w[1]) /\ ~Joined(w[1])' /\ size'[w[1]] = size[w[1]] /\ LastAt(n) \in Nat
        /\ SkipAt(n) \in Nat /\ i[w] \in Nat /\ bytes[w] \in Nat /\ Window \in Nat \ {0}
    BY NotJoined, AtWorker, Tunables DEF WorkerStep
  <1>4. /\ Errs(scq[w])' = Errs(scq[w]) /\ Need(w) = 0 /\ Need(w)' = Window
        /\ Outstanding(w)' = Outstanding(w) + Window
        /\ Outstanding(w) \in Nat /\ Errs(scq[w]) \in Nat /\ errors \in Nat
    <2>1. Errs(scq[w])' = Errs(scq[w])
      BY <1>1 DEF Errs
    <2>2. /\ writes[w] \in Nat /\ sends[w] \in Nat /\ Len(scq[w]) \in Nat
          /\ Errs(scq[w]) \in Nat /\ errors \in Nat
      BY AtWorker
    <2>3. Outstanding(w)' = Outstanding(w) + Window /\ Outstanding(w) \in Nat
      <3>1. writes'[w] = writes[w] + Window /\ sends'[w] = sends[w] /\ Len(scq'[w]) = Len(scq[w])
        BY <1>1
      <3> QED
        <4>1. /\ (writes[w] + Window) + sends[w] + Len(scq[w])
                   = writes[w] + sends[w] + Len(scq[w]) + Window
              /\ writes[w] + sends[w] + Len(scq[w]) \in Nat
          <5> DEFINE a == writes[w]
                     b == sends[w]
                     c == Len(scq[w])
          <5>1. a \in Nat /\ b \in Nat /\ c \in Nat /\ Window \in Nat
            BY <1>3, <2>2
          <5> HIDE DEF a, b, c
          <5>2. (a + Window) + b + c = a + b + c + Window /\ a + b + c \in Nat
            BY ONLY <5>1
          <5> QED
            BY <5>2 DEF a, b, c
        <4>2. /\ Outstanding(w) = writes[w] + sends[w] + Len(scq[w])
              /\ Outstanding(w)' = writes'[w] + sends'[w] + Len(scq'[w])
          BY Zenon DEF Outstanding
        <4> QED
          BY ONLY <3>1, <4>1, <4>2
    <2> QED
      BY <1>1, <2>1, <2>2, <2>3 DEF Need
  <1>5. Surplus(w)' /\ Exact(w)'
    <2>1. Surplus(w) /\ Exact(w)
      BY <1>2 DEF WindowAt
    <2>2. errors - Errs(scq[w]) \in Nat
      BY <1>4, <2>1 DEF Surplus
    <2>3. (errors - Errs(scq[w])) * (Window - 1) \in Nat
      BY <2>2, Product
    <2> HIDE DEF Errs, Need, Outstanding
    <2> QED
      BY <1>1, <1>3, <1>4, <2>1, <2>3 DEF Surplus, Exact
  <1>6. Progress(w)'
    <2>1. i[w] < LastAt(n) /\ (i[w] > SkipAt(n) => bytes[w] = (i[w] - SkipAt(n)) * Window)
      BY <1>1, <1>2 DEF WindowAt, Progress
    <2>2. i[w] >= SkipAt(n) => bytes'[w] = (i[w] + 1 - SkipAt(n)) * Window
      <3>1. CASE i[w] = SkipAt(n)
        BY <1>1, <1>3, <3>1, Product DEF BytesSent
      <3>2. CASE i[w] > SkipAt(n)
        <4>1. i[w] - SkipAt(n) \in Nat /\ i[w] + 1 - SkipAt(n) = (i[w] - SkipAt(n)) + 1
          BY <1>3, <3>2
        <4> QED
          BY <1>1, <1>3, <2>1, <3>2, <4>1, Product DEF BytesSent
      <3> QED
        BY <1>3, <3>1, <3>2
    <2> QED
      BY <1>1, <1>3, <2>1, <2>2 DEF Progress, HasWritten, LastAt, LoopAt, SkipAt
  <1>7. Waiting(w)' /\ OneSide(w)'
    BY <1>1, <1>2, <1>3 DEF Waiting, OneSide, WindowAt
  <1> QED
    BY <1>5, <1>6, <1>7 DEF WindowAt

(* Messages: one operation, or none that counts here.                      *)
LEMMA SendRecvWindow ==
  ASSUME Types, ControlInv, WindowInv, NEW w \in Workers, Send(w) \/ Recv(w)
  PROVE  WindowAt(w)'
  <1> DEFINE k == Flag(pc[w] = "send")
  <1>1. /\ \/ Send(w) /\ pc[w] = "send" /\ pc'[w] = "waits" /\ k = 1 /\ Need(w)' = 1
           \/ Recv(w) /\ pc[w] = "recv" /\ pc'[w] = "waitr" /\ k = 0 /\ Need(w)' = 0
        /\ need'[w] = 1 /\ Need(w) = 0 /\ k \in {0, 1}
        /\ sends'[w] = sends[w] + k /\ UNCHANGED <<i, bytes, writes, scq, errors>>
    <2>1. CASE Send(w)
      BY <2>1 DEF Send, Goto, Need, Flag, Types, WorkTypes, EpTypes
    <2>2. CASE Recv(w)
      <3>1. sends[w] \in Nat /\ sends' = sends
        BY <2>2, AtWorker DEF Recv
      <3> QED
        BY <2>2, <3>1 DEF Recv, Goto, Need, Flag, Types, WorkTypes, EpTypes
    <2> QED
      BY <2>1, <2>2
  <1> HIDE DEF k
  <1>2. WindowAt(w)
    BY WindowParts
  <1>3. ~Joined(w[1]) /\ ~Joined(w[1])' /\ size'[w[1]] = size[w[1]] /\ w[1] \in Ranks
    BY NotJoined, AtWorker DEF WorkerStep
  <1>4. /\ Errs(scq[w])' = Errs(scq[w]) /\ Outstanding(w)' = Outstanding(w) + k
        /\ Outstanding(w) \in Nat /\ Errs(scq[w]) \in Nat /\ errors \in Nat
    <2>1. Errs(scq[w])' = Errs(scq[w])
      BY <1>1 DEF Errs
    <2>2. /\ writes[w] \in Nat /\ sends[w] \in Nat /\ Len(scq[w]) \in Nat
          /\ Errs(scq[w]) \in Nat /\ errors \in Nat
      BY AtWorker
    <2>3. Outstanding(w)' = Outstanding(w) + k /\ Outstanding(w) \in Nat
      <3>1. writes'[w] = writes[w] /\ sends'[w] = sends[w] + k /\ Len(scq'[w]) = Len(scq[w])
            /\ k \in Nat
        BY <1>1
      <3>2. /\ writes[w] + (sends[w] + k) + Len(scq[w]) = writes[w] + sends[w] + Len(scq[w]) + k
            /\ writes[w] + sends[w] + Len(scq[w]) \in Nat
        <4> DEFINE a == writes[w]
                   b == sends[w]
                   c == Len(scq[w])
        <4>1. a \in Nat /\ b \in Nat /\ c \in Nat
          BY <2>2
        <4> HIDE DEF a, b, c
        <4>2. a + (b + k) + c = a + b + c + k /\ a + b + c \in Nat
          BY ONLY <3>1, <4>1
        <4> QED
          BY <4>2 DEF a, b, c
      <3>3. /\ Outstanding(w) = writes[w] + sends[w] + Len(scq[w])
            /\ Outstanding(w)' = writes'[w] + sends'[w] + Len(scq'[w])
        BY Zenon DEF Outstanding
      <3> QED
        BY ONLY <3>1, <3>2, <3>3
    <2> QED
      BY <2>1, <2>2, <2>3
  <1>5. Surplus(w)' /\ Exact(w)'
    <2>1. Surplus(w) /\ Exact(w)
      BY <1>2 DEF WindowAt
    <2>2. errors - Errs(scq[w]) \in Nat
      BY <1>4, <2>1 DEF Surplus
    <2>3. (errors - Errs(scq[w])) * (Window - 1) \in Nat
      BY <2>2, Product
    <2> HIDE DEF Errs, Need, Outstanding
    <2> QED
      BY <1>1, <1>3, <1>4, <2>1, <2>3 DEF Surplus, Exact
  <1>6. Progress(w)'
    BY <1>1, <1>2, <1>3 DEF WindowAt, Progress, HasWritten
  <1>7. Waiting(w)' /\ OneSide(w)'
    BY <1>1 DEF Waiting, OneSide
  <1> QED
    BY <1>5, <1>6, <1>7 DEF WindowAt

(* How thread_fn goes on after a wait                                      *)
LEMMA ResumePlaces ==
  ASSUME Types, NEW w \in Workers, Resume(w), pc[w] \in {"waitw", "waits", "waitr"}
  PROVE  /\ pc[w] = "waitw" =>
              /\ i'[w] = i[w] + 1
              /\ pc'[w] = IF i[w] + 1 < LastAt(size[w[1]]) THEN "write" ELSE "send"
         /\ pc[w] = "waits" => pc'[w] = IF w[1] = 0 THEN "recv" ELSE "bar2"
         /\ pc[w] = "waitr" => pc'[w] = IF w[1] = 1 THEN "send" ELSE "bar2"
         /\ pc[w] # "waitw" => i'[w] = i[w]
  BY DEF Resume, Goto, LastAt, Types, WorkTypes

(* Bytes and index after a window                                          *)
LEMMA WindowEnds ==
  ASSUME Types, NEW w \in Workers, Progress(w), pc[w] = "waitw",
         i'[w] = i[w] + 1, UNCHANGED bytes, ~Joined(w[1])', size'[w[1]] = size[w[1]],
         pc'[w] = IF i[w] + 1 < LastAt(size[w[1]]) THEN "write" ELSE "send"
  PROVE  Progress(w)'
  <1> DEFINE n == size[w[1]]
  <1>1. /\ LoopAt(n) \in Nat \ {0} /\ SkipAt(n) \in Nat \ {0} /\ LastAt(n) = LoopAt(n) + SkipAt(n)
        /\ i[w] \in Nat
    BY Tunables, AtWorker DEF LastAt
  <1>2. i[w] < LastAt(n) /\ (i[w] >= SkipAt(n) => bytes[w] = (i[w] + 1 - SkipAt(n)) * Window)
    BY DEF Progress
  <1>3. CASE i[w] + 1 < LastAt(n)
    <2>1. pc'[w] = "write"
      BY <1>3
    <2>2. i'[w] > SkipAt(n) => bytes'[w] = (i'[w] - SkipAt(n)) * Window
      <3> SUFFICES ASSUME i'[w] > SkipAt(n) PROVE bytes'[w] = (i'[w] - SkipAt(n)) * Window
        OBVIOUS
      <3>1. i[w] >= SkipAt(n) /\ i'[w] = i[w] + 1
        BY <1>1
      <3>2. bytes'[w] = (i[w] + 1 - SkipAt(n)) * Window
        BY <1>2, <3>1
      <3>3. i'[w] - SkipAt(n) = i[w] + 1 - SkipAt(n)
        <4>1. i[w] \in Nat /\ SkipAt(n) \in Nat
          BY <1>1
        <4> HIDE DEF n
        <4> QED
          BY <3>1, <4>1
      <3> HIDE DEF n
      <3> QED
        BY <3>2, <3>3
    <2>3. i'[w] < LastAt(n)
      BY <1>3
    <2> HIDE DEF n
    <2>4. size'[w[1]] = n /\ LastAt(n)' = LastAt(n) /\ SkipAt(n)' = SkipAt(n)
      BY DEF n, LastAt, LoopAt, SkipAt
    <2> QED
      BY <2>1, <2>2, <2>3 DEF n, Progress, HasWritten, LastAt, LoopAt, SkipAt
  <1>4. CASE ~(i[w] + 1 < LastAt(n))
    <2>1. pc'[w] = "send" /\ i'[w] = LastAt(n)
      BY <1>1, <1>2, <1>4
    <2>2. i[w] >= SkipAt(n) /\ i[w] + 1 - SkipAt(n) = LoopAt(n)
      BY <1>1, <1>2, <1>4
    <2>3. bytes'[w] = LoopAt(n) * Window
      BY <1>2, <2>2
    <2> QED
      BY <2>1, <2>3 DEF Progress, HasWritten, LastAt, LoopAt, SkipAt
  <1> QED
    BY <1>3, <1>4

(* One entry is read: an error leaves at most all but one of a window.     *)
LEMMA ReadSendWindow ==
  ASSUME Types, ControlInv, WindowInv, NEW w \in Workers, ReadSend(w)
  PROVE  WindowAt(w)'
  <1> DEFINE n == size[w[1]]
             e == Flag(Head(scq[w]) = "err")
  <1>1. /\ pc[w] \in {"waitw", "waits"} /\ scq[w] # <<>> /\ scq'[w] = Tail(scq[w])
        /\ need'[w] = IF Head(scq[w]) = "err" THEN 0 ELSE need[w] - 1
        /\ IF need'[w] = 0 THEN Resume(w) ELSE UNCHANGED <<pc, i, tcalls>>
        /\ UNCHANGED <<mainVars, bytes, writes, sends, errors>>
    BY DEF ReadSend, Types, WorkTypes, EpTypes
  <1>2. Waiting(w) /\ Surplus(w) /\ Exact(w) /\ Progress(w) /\ OneSide(w)
    BY WindowParts DEF WindowAt
  <1>3. /\ ~Joined(w[1]) /\ ~Joined(w[1])' /\ size'[w[1]] = size[w[1]] /\ w[1] \in Ranks
    BY NotJoined, AtWorker DEF WorkerStep
  <1>4. /\ need[w] \in 1 .. Window /\ (pc[w] = "waits" => need[w] = 1)
        /\ Need(w) = need[w]
    <2>1. need[w] \in 0 .. Window
      BY AtWorker
    <2> QED
      BY <1>1, <1>2, <2>1 DEF Waiting, Need
  <1>5. /\ Len(scq'[w]) = Len(scq[w]) - 1 /\ Len(scq[w]) \in Nat \ {0}
        /\ Errs(scq[w]) = Errs(scq[w])' + e
        /\ Errs(scq[w])' \in Nat /\ Errs(scq[w]) \in Nat /\ errors \in Nat
        /\ e \in {0, 1} /\ (e = 1 <=> Head(scq[w]) = "err")
    <2>1. scq[w] \in Seq(Entries) /\ errors \in Nat
      BY AtWorker
    <2>2. Errs(scq[w])' = Errs(Tail(scq[w]))
      BY <1>1 DEF Errs
    <2>3. e \in {0, 1} /\ (e = 1 <=> Head(scq[w]) = "err")
      BY DEF Flag
    <2>4. /\ Tail(scq[w]) \in Seq(Entries) /\ Len(Tail(scq[w])) = Len(scq[w]) - 1
          /\ Len(scq[w]) \in Nat \ {0} /\ Errs(scq[w]) = Errs(Tail(scq[w])) + e
      BY <1>1, <2>1, ErrsTail
    <2>5. Errs(Tail(scq[w])) \in Nat /\ Errs(scq[w]) \in Nat
      BY <2>1, <2>4, ErrsType
    <2> HIDE DEF e
    <2> QED
      BY <1>1, <2>1, <2>2, <2>3, <2>4, <2>5
  <1> HIDE DEF e
  <1>6. Outstanding(w)' = Outstanding(w) - 1 /\ Outstanding(w) \in Nat /\ writes'[w] = writes[w]
        /\ writes[w] \in Nat /\ Outstanding(w)' >= writes[w]
    <2>1. writes[w] \in Nat /\ sends[w] \in Nat
      BY AtWorker
    <2>2. writes'[w] = writes[w] /\ sends'[w] = sends[w]
      BY <1>1
    <2>3. Len(scq'[w]) = Len(scq[w]) - 1 /\ Len(scq[w]) \in Nat \ {0}
      BY <1>5
    <2> QED
      BY <2>1, <2>2, <2>3 DEF Outstanding
  <1>7. /\ need'[w] = 0 => Need(w)' = 0 /\ pc'[w] \notin {"waitw", "waits"}
        /\ need'[w] # 0 => Need(w)' = need'[w] /\ pc'[w] = pc[w] /\ pc[w] = "waitw" /\ i'[w] = i[w]
    <2>1. CASE need'[w] = 0
      <3>1. pc'[w] \notin {"waitw", "waits"}
        BY <1>1, <2>1, ResumePlaces
      <3> QED
        BY <2>1, <3>1 DEF Need
    <2>2. CASE need'[w] # 0
      BY <1>1, <1>4, <2>2 DEF Need
    <2> QED
      BY <2>1, <2>2
  <1>8. errors - Errs(scq[w]) \in Nat
    BY <1>2, <1>5 DEF Surplus
  <1>9. Surplus(w)'
    <2> DEFINE k == errors - Errs(scq[w])
    <2>1. /\ errors' - Errs(scq[w])' = k + e /\ k \in Nat /\ Errs(scq[w])' <= errors'
      BY <1>1, <1>5, <1>8
    <2>2. Outstanding(w) <= need[w] + k * (Window - 1)
      BY <1>2, <1>4 DEF Surplus
    <2>3. /\ k * (Window - 1) \in Nat /\ Window \in Nat
          /\ (k + 1) * (Window - 1) = k * (Window - 1) + (Window - 1)
      BY <2>1, Product, Tunables
    <2> HIDE DEF k, Outstanding, Need, Errs
    <2>4. CASE e = 1
      <3>1. Need(w)' = 0 /\ errors' - Errs(scq[w])' = k + 1
        BY <1>1, <1>5, <1>7, <2>1, <2>4
      <3> QED
        BY <1>4, <1>6, <2>1, <2>2, <2>3, <3>1 DEF Surplus
    <2>5. CASE e = 0
      <3>1. Need(w)' = need[w] - 1 /\ errors' - Errs(scq[w])' = k
        BY <1>1, <1>4, <1>5, <1>7, <2>1, <2>5
      <3> QED
        BY <1>4, <1>6, <2>1, <2>2, <2>3, <3>1 DEF Surplus
    <2> QED
      BY <1>5, <2>4, <2>5
  <1>10. Exact(w)'
    <2> SUFFICES ASSUME errors' = 0
                 PROVE  Outstanding(w)' = Need(w)' /\ (pc'[w] # "waitw" => writes'[w] = 0)
      BY DEF Exact
    <2>1. errors = 0 /\ e = 0
      BY <1>1, <1>5, <1>8
    <2>2. Outstanding(w) = need[w] /\ (pc[w] # "waitw" => writes[w] = 0)
      BY <1>2, <1>4, <2>1 DEF Exact
    <2>3. Need(w)' = need[w] - 1 /\ need'[w] = need[w] - 1
      BY <1>1, <1>4, <1>5, <1>7, <2>1
    <2>4. pc'[w] # "waitw" => need'[w] = 0
      BY <1>7
    <2> HIDE DEF Outstanding, Need
    <2> QED
      BY <1>4, <1>6, <2>2, <2>3, <2>4
  <1>11. Progress(w)'
    <2>1. CASE need'[w] # 0
      BY <1>1, <1>2, <1>3, <1>7, <2>1 DEF Progress, HasWritten, LastAt, LoopAt, SkipAt
    <2>2. CASE need'[w] = 0 /\ pc[w] = "waitw"
      BY <1>1, <1>2, <1>3, <2>2, ResumePlaces, WindowEnds
    <2>3. CASE need'[w] = 0 /\ pc[w] = "waits"
      <3>1. pc'[w] = (IF w[1] = 0 THEN "recv" ELSE "bar2") /\ i'[w] = i[w]
        BY <1>1, <2>3, ResumePlaces
      <3> QED
        BY <1>1, <1>2, <1>3, <2>3, <3>1 DEF Progress, HasWritten, LastAt, LoopAt, SkipAt
    <2> QED
      BY <1>1, <2>1, <2>2, <2>3
  <1>12. Waiting(w)' /\ OneSide(w)'
    <2>1. pc'[w] \in {"write", "waitw"} => pc[w] = "waitw"
      BY <1>1, <1>7, ResumePlaces
    <2>2. need'[w] # 0 => need'[w] > 0
      BY <1>1, <1>4
    <2> QED
      BY <1>2, <1>7, <2>1, <2>2 DEF Waiting, OneSide
  <1> QED
    BY <1>9, <1>10, <1>11, <1>12 DEF WindowAt

(* The receive queue is no part of the window.                             *)
LEMMA ReadRecvWindow ==
  ASSUME Types, ControlInv, WindowInv, NEW w \in Workers, ReadRecv(w)
  PROVE  WindowAt(w)'
  <1>1. /\ pc[w] = "waitr" /\ Resume(w) /\ UNCHANGED <<bytes, writes, sends, scq, errors>>
    BY DEF ReadRecv
  <1>2. pc'[w] = (IF w[1] = 1 THEN "send" ELSE "bar2") /\ i'[w] = i[w]
    BY <1>1, ResumePlaces
  <1>3. ~Joined(w[1]) /\ ~Joined(w[1])' /\ size'[w[1]] = size[w[1]] /\ w[1] \in Ranks
    BY NotJoined, AtWorker DEF WorkerStep
  <1>4. WindowAt(w)
    BY WindowParts
  <1>5. Errs(scq[w])' = Errs(scq[w]) /\ Outstanding(w)' = Outstanding(w) /\ Need(w) = 0 /\ Need(w)' = 0
    BY <1>1, <1>2 DEF Errs, Need, Outstanding
  <1>6. Surplus(w)' /\ Exact(w)'
    <2> HIDE DEF Errs, Need, Outstanding
    <2> QED
      BY <1>1, <1>2, <1>4, <1>5 DEF WindowAt, Surplus, Exact
  <1>7. Progress(w)'
    BY <1>1, <1>2, <1>3, <1>4 DEF WindowAt, Progress, HasWritten, Ranks, LastAt, LoopAt, SkipAt
  <1>8. Waiting(w)' /\ OneSide(w)'
    BY <1>2 DEF Waiting, OneSide
  <1> QED
    BY <1>6, <1>7, <1>8 DEF WindowAt

(* A step of a worker keeps the window invariant, whatever its kind.       *)
LEMMA WorkerWindow ==
  ASSUME Types, ControlInv, WindowInv, NEW w \in Workers, WorkerStep(w)
  PROVE  WindowInv'
  <1> SUFFICES ASSUME NEW v \in Workers PROVE WindowAt(v)'
    BY DEF WindowInv, WindowAt
  <1>1. CASE v = w
    BY <1>1, StartWindow, WriteWindowWindow, SendRecvWindow, ReadSendWindow, ReadRecvWindow DEF WorkerStep
  <1>2. CASE v # w
    BY <1>2, WorkerFrame, WorkerAdvances, WindowParts, WindowSame
  <1> QED
    BY <1>1, <1>2

(* A step of libfabric keeps every variable in its set.                    *)
LEMMA FabricTypes ==
  ASSUME Types, NEW w \in Workers, FabricStep(w)
  PROVE  Types'
  <1>1. MainTypes' /\ WorkTypes'
    BY DEF FabricStep, WriteDone, SendDone, Arrive, mainVars, workVars, Types, MainTypes, WorkTypes
  <1>2. \A e \in Entries : Append(scq[w], e) \in Seq(Entries)
    BY AtWorker, ErrsAppend
  <1>3. EpTypes'
    <2> USE DEF Types, EpTypes
    <2>1. CASE WriteDone(w)
      <3>1. writes[w] - 1 \in Nat
        BY <2>1 DEF WriteDone
      <3>2. scq' \in [Workers -> Seq(Entries)]
        BY <2>1, <1>2 DEF WriteDone, Entries
      <3>3. errors' \in 0 .. MaxErrors
        BY <2>1, Tunables DEF WriteDone
      <3> QED
        BY <2>1, <3>1, <3>2, <3>3 DEF WriteDone
    <2>2. CASE SendDone(w)
      <3>1. sends[w] - 1 \in Nat
        BY <2>2 DEF SendDone
      <3>2. scq' \in [Workers -> Seq(Entries)]
        BY <2>2, <1>2 DEF SendDone, Entries
      <3> QED
        BY <2>2, <3>1, <3>2 DEF SendDone
    <2>3. CASE Arrive(w)
      <3>1. net[w] - 1 \in Nat /\ posted[w] - 1 \in Nat /\ rcq[w] + 1 \in Nat
        BY <2>3 DEF Arrive
      <3>2. net' \in [Workers -> Nat] /\ posted' \in [Workers -> Nat] /\ rcq' \in [Workers -> Nat]
        BY <2>3, <3>1 DEF Arrive
      <3>3. UNCHANGED <<writes, sends, scq, errors>>
        BY <2>3 DEF Arrive
      <3> QED
        BY <3>2, <3>3
    <2> QED
      BY <2>1, <2>2, <2>3 DEF FabricStep
  <1> QED
    BY <1>1, <1>3 DEF Types

(* A completion moves from the operations to the queue; an error is        *)
(* counted when it gets there.                                             *)
LEMMA FabricWindow ==
  ASSUME Types, WindowInv, NEW w \in Workers, FabricStep(w)
  PROVE  WindowInv'
  <1> SUFFICES ASSUME NEW v \in Workers PROVE WindowAt(v)'
    BY DEF WindowInv, WindowAt
  <1>1. UNCHANGED <<mainVars, pc, i, need, bytes>> /\ errors' \in {errors, errors + 1}
    BY DEF FabricStep, WriteDone, SendDone, Arrive, workVars
  <1>2. WindowAt(v)
    BY WindowParts
  <1>3. CASE v # w \/ Arrive(w)
    <2>1. writes'[v] = writes[v] /\ sends'[v] = sends[v] /\ scq'[v] = scq[v]
      BY <1>3 DEF FabricStep, WriteDone, SendDone, Arrive, Types, EpTypes
    <2> QED
      BY <1>1, <1>2, <2>1, WindowSame
  <1>4. CASE v = w /\ (WriteDone(w) \/ SendDone(w))
    <2>1. PICK e \in Entries :
            /\ scq'[w] = Append(scq[w], e) /\ errors' = errors + Flag(e = "err")
            /\ \/ writes[w] > 0 /\ writes'[w] = writes[w] - 1 /\ sends'[w] = sends[w]
               \/ sends[w] > 0 /\ sends'[w] = sends[w] - 1 /\ writes'[w] = writes[w]
      <3>1. errors + 0 = errors /\ {writes[w], sends[w]} \subseteq Nat
        BY AtWorker
      <3>2. CASE WriteDone(w)
        BY <3>1, <3>2 DEF WriteDone, Types, EpTypes, Entries, Flag
      <3>3. CASE SendDone(w)
        BY <3>1, <3>3 DEF SendDone, Types, EpTypes, Entries, Flag
      <3> QED
        BY <1>4, <3>2, <3>3
    <2> DEFINE f == Flag(e = "err")
    <2>2. f \in {0, 1} /\ errors' = errors + f /\ errors \in Nat
      BY <2>1, AtWorker DEF Flag
    <2>3. /\ Len(scq'[w]) = Len(scq[w]) + 1 /\ Len(scq[w]) \in Nat
          /\ Errs(scq[w])' = Errs(scq[w]) + f /\ Errs(scq[w]) \in Nat
      <3>1. scq[w] \in Seq(Entries) /\ Len(scq[w]) \in Nat /\ Errs(scq[w]) \in Nat
        BY AtWorker
      <3>2. Errs(scq[w])' = Errs(Append(scq[w], e))
        BY <2>1 DEF Errs
      <3>3. Len(Append(scq[w], e)) = Len(scq[w]) + 1 /\ Errs(Append(scq[w], e)) = Errs(scq[w]) + f
        BY <3>1, ErrsAppend
      <3> HIDE DEF f
      <3> QED
        BY <2>1, <3>1, <3>2, <3>3
    <2> HIDE DEF f
    <2>4. /\ Outstanding(w)' = Outstanding(w)
          /\ writes'[w] <= writes[w] /\ {writes[w], writes'[w]} \subseteq Nat
      <3>1. Len(scq'[w]) = Len(scq[w]) + 1 /\ Len(scq[w]) \in Nat /\ writes[w] \in Nat /\ sends[w] \in Nat
        BY <2>3, AtWorker
      <3>2. CASE writes[w] > 0 /\ writes'[w] = writes[w] - 1 /\ sends'[w] = sends[w]
        <4>1. writes[w] > 0 /\ writes'[w] = writes[w] - 1 /\ sends'[w] = sends[w]
          BY <3>2
        <4>2. sends'[w] \in Nat /\ writes'[w] \in Nat
          BY <3>1, <4>1
        <4>3. writes'[w] + sends'[w] + Len(scq'[w]) = writes[w] + sends[w] + Len(scq[w])
          BY <3>1, <4>1
        <4>4. Outstanding(w)' = Outstanding(w)
          BY <4>3 DEF Outstanding
        <4> QED
          BY <3>1, <4>1, <4>2, <4>4
      <3>3. CASE sends[w] > 0 /\ sends'[w] = sends[w] - 1 /\ writes'[w] = writes[w]
        <4>1. sends[w] > 0 /\ sends'[w] = sends[w] - 1 /\ writes'[w] = writes[w]
          BY <3>3
        <4>2. sends'[w] \in Nat /\ writes'[w] \in Nat
          BY <3>1, <4>1
        <4>3. writes'[w] + sends'[w] + Len(scq'[w]) = writes[w] + sends[w] + Len(scq[w])
          BY <3>1, <4>1
        <4>4. Outstanding(w)' = Outstanding(w)
          BY <4>3 DEF Outstanding
        <4> QED
          BY <3>1, <4>1, <4>2, <4>4
      <3> QED
        BY <2>1, <3>2, <3>3
    <2>5. Need(w)' = Need(w) /\ Surplus(w) /\ Exact(w)
      BY <1>1, <1>2, <1>4 DEF Need, WindowAt
    <2>6. Surplus(w)'
      <3>1. errors' - Errs(scq[w])' = errors - Errs(scq[w])
        BY <2>2, <2>3
      <3>2. Errs(scq[w])' <= errors'
        BY <2>2, <2>3, <2>5 DEF Surplus
      <3> HIDE DEF Outstanding, Need, Errs
      <3> QED
        BY <2>4, <2>5, <3>1, <3>2 DEF Surplus
    <2>7. Exact(w)'
      <3> SUFFICES ASSUME errors' = 0
                   PROVE  Outstanding(w)' = Need(w)' /\ (pc'[w] # "waitw" => writes'[w] = 0)
        BY DEF Exact
      <3>1. errors = 0
        BY <2>2
      <3>2. Outstanding(w) = Need(w) /\ (pc[w] # "waitw" => writes[w] = 0)
        BY <2>5, <3>1 DEF Exact
      <3>3. pc'[w] # "waitw" => writes'[w] = 0
        <4>1. writes'[w] <= writes[w] /\ writes'[w] \in Nat /\ pc' = pc
          BY <1>1, <2>4
        <4> QED
          BY <3>2, <4>1
      <3> QED
        BY <2>4, <2>5, <3>2, <3>3
    <2>8. Waiting(w)' /\ OneSide(w)' /\ Progress(w)'
      BY <1>1, <1>2, <1>4 DEF WindowAt, Waiting, OneSide, Progress, HasWritten, Joined, mainVars,
                              LastAt, LoopAt, SkipAt
    <2> QED
      BY <1>4, <2>6, <2>7, <2>8 DEF WindowAt
  <1> QED
    BY <1>3, <1>4 DEF FabricStep

(* Steps of main                                                           *)
LEMMA MainTypesKept ==
  ASSUME Types, ControlInv, NEW r \in Ranks, MainStep(r) \/ CreateFails(r)
  PROVE  Types'
  <1>1. EpTypes'
    <2>1. UNCHANGED epVars
      BY DEF MainStep, Touch, LeaveFirst, Create, CreateFails, Join, LeaveSecond, Report
    <2> QED
      BY <2>1 DEF epVars, Types, EpTypes
  <1>2. WorkTypes'
    <2>1. pc' \in [Workers -> WorkerPlaces]
      BY DEF MainStep, Touch, LeaveFirst, Create, CreateFails, Join, LeaveSecond, Report, workVars,
             Types, WorkTypes, WorkerPlaces
    <2>2. UNCHANGED <<i, need, tcalls, bytes>>
      BY DEF MainStep, Touch, LeaveFirst, Create, CreateFails, Join, LeaveSecond, Report, workVars
    <2> QED
      BY <2>1, <2>2 DEF Types, WorkTypes
  <1>3. MainTypes'
    <2> USE DEF Types, MainTypes
    <2>1. mpc' \in [Ranks -> MainPlaces]
      BY DEF MainStep, Touch, LeaveFirst, Create, CreateFails, Join, LeaveSecond, Report, MGoto, MainPlaces
    <2>2. calls' \in [Ranks -> Nat]
      BY DEF MainStep, Touch, LeaveFirst, Create, CreateFails, Join, LeaveSecond, Report
    <2>3. size' \in [Ranks -> 1 .. Sizes + 1]
      <3>1. CASE Report(r)
        <4>1. size[r] \in 1 .. Sizes + 1 /\ size[r] # Sizes + 1
          BY <3>1 DEF Report, ControlInv, MainAt
        <4>2. size[r] + 1 \in 1 .. Sizes + 1
          BY <4>1, Tunables
        <4> QED
          BY <3>1, <4>2 DEF Report
      <3>2. CASE ~Report(r)
        BY <3>2 DEF MainStep, Touch, LeaveFirst, Create, CreateFails, Join, LeaveSecond
      <3> QED
        BY <3>1, <3>2
    <2> QED
      BY <2>1, <2>2, <2>3
  <1> QED
    BY <1>1, <1>2, <1>3 DEF Types

(* A step of a main thread keeps the control invariant.                    *)
LEMMA MainStepControl ==
  ASSUME Types, ControlInv, NEW r \in Ranks, MainStep(r) \/ CreateFails(r)
  PROVE  ControlInv'
  BY TouchControl, LeaveControl, CreateControl, JoinControl, ReportControl DEF MainStep

(* A step of main moves its workers from one place outside thread_fn to    *)
(* another; they have done in the one what they have done in the other.    *)
LEMMA MainEffect ==
  ASSUME Types, ControlInv, NEW r \in Ranks, MainStep(r) \/ CreateFails(r), NEW w \in Workers
  PROVE  /\ pc'[w] = pc[w] \/ {pc[w], pc'[w]} \subseteq {"none", "start", "ret"}
         /\ HasWritten(w)' => HasWritten(w)
         /\ HasWritten(w)' \/ pc[w] # "none" => size'[w[1]] = size[w[1]]
         /\ Before(w)' + Flag(HasSent(w))' = Before(w) + Flag(HasSent(w))
         /\ Before(w)' + Flag(HasReceived(w))' = Before(w) + Flag(HasReceived(w))
  <1>1. /\ WorkerAt(w) /\ w[1] \in Ranks /\ size[w[1]] \in Nat
        /\ pc[w] \in WorkerPlaces
    BY AtWorker DEF ControlInv
  <1>2. CASE w[1] # r
    <2>1. pc'[w] = pc[w] /\ size'[w[1]] = size[w[1]] /\ mpc'[w[1]] = mpc[w[1]]
      <3>1. w \notin Team(r)
        BY <1>2, Pairs
      <3> QED
        BY <1>1, <1>2, <3>1 DEF MainStep, Touch, LeaveFirst, Create, CreateFails, Join, LeaveSecond, Report,
               MGoto, workVars, Types, MainTypes, WorkTypes
    <2> QED
      BY <1>1, <2>1 DEF HasWritten, HasSent, HasReceived, Joined, Before
  <1>3. CASE w[1] = r
    <2>1. w \in Team(r)
      BY <1>3, Pairs
    <2>2. CASE Touch(r) \/ LeaveFirst(r) \/ LeaveSecond(r) \/ CreateFails(r)
      <3>1. /\ pc' = pc /\ size' = size /\ (Joined(r)' <=> Joined(r))
        BY <2>2 DEF Touch, LeaveFirst, LeaveSecond, CreateFails, MGoto, workVars, Joined, Types, MainTypes
      <3> QED
        BY <1>1, <1>3, <3>1 DEF HasWritten, HasSent, HasReceived, Joined, Before
    <2>3. CASE Create(r)
      <3>1. size' = size /\ ~Joined(r) /\ ~Joined(r)'
        BY <2>3 DEF Create, MGoto, Joined, Types, MainTypes
      <3>2. pc'[w] = pc[w] \/ (pc[w] = "none" /\ pc'[w] = "start")
        BY <2>3 DEF Create, Types, WorkTypes
      <3> QED
        BY <1>1, <1>3, <3>1, <3>2 DEF HasWritten, HasSent, HasReceived, Joined, Before
    <2>4. CASE Join(r)
      <3>1. size' = size /\ Joined(r)' /\ pc[w] = "ret" /\ pc'[w] = "none"
        BY <2>1, <2>4 DEF Join, MGoto, Joined, Types, MainTypes
      <3> QED
        BY <1>1, <1>3, <3>1 DEF HasWritten, HasSent, HasReceived, Joined, Before
    <2>5. CASE Report(r)
      <3>1. /\ size'[r] = size[r] + 1 /\ Joined(r) /\ ~Joined(r)' /\ pc' = pc
            /\ mpc[r] = "report"
        BY <2>5 DEF Report, MGoto, Joined, workVars, Types, MainTypes
      <3>2. pc[w] = "none"
        BY <2>1, <3>1, Idle DEF Working
      <3> QED
        BY <1>1, <1>3, <3>1, <3>2 DEF HasWritten, HasSent, HasReceived, Joined, Before, Flag
    <2> QED
      BY <2>2, <2>3, <2>4, <2>5 DEF MainStep
  <1> QED
    BY <1>2, <1>3

(* A main thread touches a window only at rest, when it is empty.          *)
LEMMA MainWindow ==
  ASSUME Types, ControlInv, WindowInv, NEW r \in Ranks, MainStep(r) \/ CreateFails(r)
  PROVE  WindowInv'
  <1>1. UNCHANGED <<i, need, bytes, epVars>>
    BY DEF MainStep, Touch, LeaveFirst, Create, CreateFails, Join, LeaveSecond, Report, workVars
  <1> QED
    BY <1>1, MainEffect, WindowMain

-----------------------------------------------------------------------------
(* Messages and receives                                                   *)

Got(w) == Before(w) + Flag(HasReceived(w)) + rcq[w]
Gave(w) == Before(w) + Flag(HasSent(w))

(* Conservation is an equation of natural numbers.                         *)
LEMMA Counts ==
  ASSUME Types, NEW w \in Workers
  PROVE  /\ Got(w) \in Nat /\ Gave(w) \in Nat /\ net[w] \in Nat /\ Gave(Peer(w)) \in Nat
         /\ Conserved(w) <=> Got(w) + net[w] = Gave(Peer(w))
  <1>1. \A v \in Workers : /\ size[v[1]] - 1 \in Nat /\ rcq[v] \in Nat /\ net[v] \in Nat
    <2>1. ASSUME NEW v \in Workers PROVE size[v[1]] - 1 \in Nat
      <3>1. size[v[1]] \in 1 .. Sizes + 1
        BY Pairs DEF Types, MainTypes
      <3> QED
        BY <3>1, Tunables
    <2> QED
      BY <2>1 DEF Types, EpTypes
  <1>2. Flag(HasReceived(w)) \in {0, 1} /\ \A v : Flag(HasSent(v)) \in {0, 1}
    BY DEF Flag
  <1>3. Before(w) \in Nat /\ Before(Peer(w)) \in Nat /\ rcq[w] \in Nat /\ net[w] \in Nat
    BY <1>1, Pairs DEF Before
  <1> HIDE DEF Before, Flag, HasReceived, HasSent
  <1> QED
    BY <1>2, <1>3 DEF Got, Gave, Conserved

(* And so it is after a step.                                              *)
LEMMA CountsNext ==
  ASSUME NEW w \in Workers, Types'
  PROVE  /\ Got(w)' \in Nat /\ Gave(w)' \in Nat /\ net'[w] \in Nat /\ Gave(Peer(w))' \in Nat
         /\ Conserved(w)' <=> Got(w)' + net'[w] = Gave(Peer(w))'
  <1>1. \A v \in Workers : /\ size'[v[1]] - 1 \in Nat /\ rcq'[v] \in Nat /\ net'[v] \in Nat
    <2>1. ASSUME NEW v \in Workers PROVE size'[v[1]] - 1 \in Nat
      <3>1. size'[v[1]] \in 1 .. Sizes + 1
        BY Pairs DEF Types, MainTypes
      <3> QED
        BY <3>1, Tunables
    <2> QED
      BY <2>1 DEF Types, EpTypes
  <1>2. Flag(HasReceived(w))' \in {0, 1} /\ \A v : Flag(HasSent(v))' \in {0, 1}
    BY DEF Flag
  <1>3. Before(w)' \in Nat /\ Before(Peer(w))' \in Nat /\ rcq'[w] \in Nat /\ net'[w] \in Nat
    BY <1>1, Pairs DEF Before
  <1> HIDE DEF Before, Flag, HasReceived, HasSent
  <1> QED
    BY <1>2, <1>3 DEF Got, Gave, Conserved

(* No message has been sent before the size loop.                          *)
LEMMA MessageInit == Init => MessageInv
  <1> SUFFICES ASSUME Init, NEW w \in Workers PROVE Conserved(w) /\ OneReceive(w)
    BY DEF MessageInv
  <1>1. ASSUME NEW v \in Workers
        PROVE  /\ pc[v] = "none" /\ size[v[1]] = 1 /\ ~Joined(v[1])
               /\ net[v] = 0 /\ rcq[v] = 0 /\ posted[v] = 0
    BY Pairs DEF Init, Joined
  <1>2. ASSUME NEW v \in Workers PROVE Before(v) = 0 /\ Flag(HasSent(v)) = 0 /\ Flag(HasReceived(v)) = 0
    BY <1>1 DEF Before, Flag, HasSent, HasReceived
  <1>3. Conserved(w)
    BY <1>1, <1>2, Pairs DEF Conserved
  <1>4. OneReceive(w)
    BY <1>1 DEF OneReceive, Flag
  <1> QED
    BY <1>3, <1>4

(* A message that a worker sends is under way to its peer; one that it     *)
(* reads counts as received.                                               *)
LEMMA WorkerMessages ==
  ASSUME Types, ControlInv, MessageInv, WindowInv, NEW w \in Workers, WorkerStep(w)
  PROVE  /\ Gave(w)' + net[Peer(w)] = Gave(w) + net'[Peer(w)]
         /\ \A v \in Workers : v # Peer(w) => net'[v] = net[v]
         /\ Got(w)' = Got(w)
         /\ OneReceive(w)'
  <1>1. /\ ~Joined(w[1]) /\ ~Joined(w[1])' /\ size'[w[1]] = size[w[1]] /\ w[1] \in Ranks
        /\ size[w[1]] \in Nat
    BY NotJoined, AtWorker
  <1>2. Before(w)' = Before(w) /\ Before(w) \in Int
    BY <1>1 DEF Before
  <1>3. OneSide(w) /\ OneReceive(w) /\ Peer(w) \in Workers
    BY Pairs DEF WindowInv, MessageInv
  <1>4. {net[Peer(w)], rcq[w], posted[w]} \subseteq Nat
    BY <1>3 DEF Types, EpTypes
  <1>5. CASE Send(w)
    <2>1. /\ pc[w] = "send" /\ pc'[w] = "waits" /\ net'[Peer(w)] = net[Peer(w)] + 1
          /\ rcq'[w] = rcq[w] /\ posted'[w] = posted[w]
          /\ \A v \in Workers : v # Peer(w) => net'[v] = net[v]
      BY <1>3, <1>5 DEF Send, Goto, Types, WorkTypes, EpTypes
    <2>2. /\ Flag(HasSent(w)) = 0 /\ Flag(HasSent(w))' = 1
          /\ Flag(HasReceived(w)) = Flag(HasReceived(w))'
      BY <1>1, <2>1 DEF Flag, HasSent, HasReceived
    <2>3. Gave(w)' = Gave(w) + 1 /\ Gave(w) \in Int
      BY <1>2, <2>2 DEF Gave
    <2>4. Got(w)' = Got(w)
      BY <1>2, <2>1, <2>2 DEF Got
    <2>5. OneReceive(w)'
      BY <1>3, <2>1 DEF OneReceive, Flag
    <2> QED
      BY <1>4, <2>1, <2>3, <2>4, <2>5
  <1>6. CASE Recv(w)
    <2>1. /\ pc[w] = "recv" /\ pc'[w] = "waitr" /\ net' = net
          /\ rcq'[w] = rcq[w] /\ posted'[w] = posted[w] + 1
      BY <1>6 DEF Recv, Goto, Types, WorkTypes, EpTypes
    <2>2. /\ Flag(HasSent(w))' = Flag(HasSent(w))
          /\ Flag(HasReceived(w))' = Flag(HasReceived(w))
      BY <1>1, <2>1 DEF Flag, HasSent, HasReceived
    <2>3. Gave(w)' = Gave(w) /\ Got(w)' = Got(w)
      BY <1>2, <2>1, <2>2 DEF Gave, Got
    <2>4. OneReceive(w)'
      BY <1>3, <1>4, <2>1 DEF OneReceive, Flag
    <2> QED
      BY <2>1, <2>3, <2>4
  <1>7. CASE ReadRecv(w)
    <2>1. /\ pc[w] = "waitr" /\ net' = net /\ rcq'[w] = rcq[w] - 1 /\ posted'[w] = posted[w]
          /\ pc'[w] = (IF w[1] = 1 THEN "send" ELSE "bar2")
      BY <1>7, ResumePlaces DEF ReadRecv, Types, EpTypes
    <2>2. Flag(HasSent(w))' = Flag(HasSent(w))
      BY <1>1, <2>1 DEF Flag, HasSent, Ranks
    <2>3. Flag(HasReceived(w)) = 0 /\ Flag(HasReceived(w))' = 1
      BY <1>1, <2>1 DEF Flag, HasReceived, Ranks
    <2>4. Gave(w)' = Gave(w)
      BY <1>2, <2>2 DEF Gave
    <2>5. Got(w)' = Got(w)
      BY <1>2, <1>4, <2>1, <2>3 DEF Got
    <2>6. OneReceive(w)'
      BY <1>3, <1>4, <2>1 DEF OneReceive, Flag
    <2> QED
      BY <2>1, <2>4, <2>5, <2>6
  <1>8. CASE Start(w) \/ Started(w) \/ WriteWindow(w) \/ ReadSend(w) \/ Return(w)
    <2>1. net' = net /\ rcq' = rcq /\ posted' = posted
      BY <1>8 DEF Start, Started, WriteWindow, ReadSend, Return, epVars
    <2>2. /\ pc[w] # "waitr" /\ pc'[w] # "waitr"
          /\ HasSent(w)' <=> HasSent(w)
          /\ HasReceived(w)' <=> HasReceived(w)
      <3>1. CASE Start(w) \/ Started(w) \/ WriteWindow(w) \/ Return(w)
        BY <1>1, <3>1 DEF Start, Started, WriteWindow, Return, Goto, HasSent, HasReceived, Ranks,
                          Types, WorkTypes
      <3>2. CASE ReadSend(w)
        <4>1. /\ pc[w] \in {"waitw", "waits"}
              /\ \/ pc'[w] = pc[w]
                 \/ pc[w] = "waitw" /\ pc'[w] \in {"write", "send"}
                 \/ pc[w] = "waits" /\ pc'[w] = IF w[1] = 0 THEN "recv" ELSE "bar2"
          BY <3>2, ResumePlaces DEF ReadSend
        <4> QED
          BY <1>1, <1>3, <4>1 DEF HasSent, HasReceived, Ranks, OneSide
      <3> QED
        BY <1>8, <3>1, <3>2
    <2>3. Flag(HasSent(w))' = Flag(HasSent(w)) /\ Flag(HasReceived(w))' = Flag(HasReceived(w))
      BY <2>2 DEF Flag
    <2>4. Gave(w)' = Gave(w) /\ Got(w)' = Got(w)
      BY <1>2, <2>1, <2>3 DEF Gave, Got
    <2>5. OneReceive(w)'
      BY <1>3, <2>1, <2>2 DEF OneReceive, Flag
    <2> QED
      BY <2>1, <2>4, <2>5
  <1> QED
    BY <1>5, <1>6, <1>7, <1>8 DEF WorkerStep

(* A step of a worker conserves messages: a send gives one, a receive      *)
(* gets one.                                                               *)
LEMMA WorkerMessage ==
  ASSUME Types, ControlInv, MessageInv, WindowInv, NEW w \in Workers, WorkerStep(w)
  PROVE  MessageInv'
  <1> SUFFICES ASSUME NEW v \in Workers PROVE Conserved(v)' /\ OneReceive(v)'
    BY DEF MessageInv
  <1>1. Types'
    BY WorkerTypes
  <1>2. ASSUME NEW x \in Workers, x # w
        PROVE  Got(x)' = Got(x) /\ Gave(x)' = Gave(x)
    <2>1. pc'[x] = pc[x] /\ rcq'[x] = rcq[x] /\ UNCHANGED <<mpc, size>>
      BY <1>2, WorkerFrame, WorkerAdvances DEF mainVars
    <2> QED
      BY <2>1 DEF Got, Gave, Before, HasReceived, HasSent, Joined, Flag
  <1>3. Peer(v) \in Workers /\ Peer(w) \in Workers /\ (Peer(v) = w <=> v = Peer(w))
    BY Pairs
  <1>4. Got(v)' = Got(v)
    BY <1>2, WorkerMessages
  <1>5. Gave(Peer(v))' + net[v] = Gave(Peer(v)) + net'[v]
    <2>1. CASE v = Peer(w)
      BY <1>3, <2>1, WorkerMessages
    <2>2. CASE v # Peer(w)
      <3>1. Gave(Peer(v))' = Gave(Peer(v)) /\ net'[v] = net[v]
        BY <1>2, <1>3, <2>2, WorkerMessages
      <3> QED
        BY <3>1
    <2> QED
      BY <2>1, <2>2
  <1>6. Conserved(v)'
    <2>1. Got(v) + net[v] = Gave(Peer(v))
      BY Counts DEF MessageInv
    <2>2. /\ {Got(v), Got(v)', net[v], net'[v], Gave(Peer(v)), Gave(Peer(v))'} \subseteq Nat
          /\ Conserved(v)' <=> Got(v)' + net'[v] = Gave(Peer(v))'
      <3>1. Got(v) \in Nat /\ net[v] \in Nat /\ Gave(Peer(v)) \in Nat
        BY Counts
      <3>2. /\ Got(v)' \in Nat /\ net'[v] \in Nat /\ Gave(Peer(v))' \in Nat
            /\ Conserved(v)' <=> Got(v)' + net'[v] = Gave(Peer(v))'
        BY <1>1, CountsNext
      <3> QED
        BY <3>1, <3>2
    <2> HIDE DEF Got, Gave
    <2> QED
      BY <1>4, <1>5, <2>1, <2>2
  <1>7. OneReceive(v)'
    <2>1. CASE v = w
      BY <2>1, WorkerMessages
    <2>2. CASE v # w
      BY <2>2, WorkerFrame DEF MessageInv, OneReceive
    <2> QED
      BY <2>1, <2>2
  <1> QED
    BY <1>6, <1>7

(* A message arrives: no longer under way, but delivered.                  *)
LEMMA FabricMessage ==
  ASSUME Types, MessageInv, NEW w \in Workers, FabricStep(w)
  PROVE  MessageInv'
  <1> SUFFICES ASSUME NEW v \in Workers PROVE Conserved(v)' /\ OneReceive(v)'
    BY DEF MessageInv
  <1>1. \A x \in Workers : Gave(x)' = Gave(x)
    BY DEF FabricStep, WriteDone, SendDone, Arrive, mainVars, workVars,
           Gave, Before, HasSent, Joined, Flag
  <1>2. /\ Before(v)' = Before(v) /\ Flag(HasReceived(v))' = Flag(HasReceived(v)) /\ pc' = pc
    BY DEF FabricStep, WriteDone, SendDone, Arrive, mainVars, workVars, Before, HasReceived, Joined, Flag
  <1>3. /\ net[v] \in Nat /\ posted[v] \in Nat /\ rcq[v] \in Nat
    BY DEF Types, EpTypes
  <1>4. \/ net'[v] = net[v] /\ rcq'[v] = rcq[v] /\ posted'[v] = posted[v]
        \/ net'[v] = net[v] - 1 /\ rcq'[v] = rcq[v] + 1 /\ posted'[v] = posted[v] - 1
    BY <1>3 DEF FabricStep, WriteDone, SendDone, Arrive, Types, EpTypes
  <1>5. rcq'[v] + net'[v] = rcq[v] + net[v] /\ posted'[v] + rcq'[v] = posted[v] + rcq[v]
        /\ {rcq'[v], net'[v]} \subseteq Int
    BY <1>3, <1>4
  <1>6. OneReceive(v)'
    BY <1>2, <1>5 DEF MessageInv, OneReceive, Flag
  <1>7. Conserved(v)'
    <2>1. Got(v) + net[v] = Gave(Peer(v))
      BY Counts DEF MessageInv
    <2>2. Gave(Peer(v))' = Gave(Peer(v))
      BY <1>1, Pairs
    <2>3. Got(v)' + net'[v] = Got(v) + net[v]
      <3>1. Before(v) \in Nat /\ Flag(HasReceived(v)) \in {0, 1}
        <4>1. size[v[1]] \in 1 .. Sizes + 1
          BY Pairs DEF Types, MainTypes
        <4> QED
          BY <4>1, Tunables DEF Before, Flag
      <3> HIDE DEF Before, Flag, HasReceived
      <3> QED
        BY <1>2, <1>3, <1>5, <3>1 DEF Got
    <2> HIDE DEF Got, Gave
    <2> QED
      BY <2>1, <2>2, <2>3, FabricTypes, CountsNext
  <1> QED
    BY <1>6, <1>7

(* So does a step of a main thread, between the sizes.                     *)
LEMMA MainMessage ==
  ASSUME Types, ControlInv, MessageInv, NEW r \in Ranks, MainStep(r) \/ CreateFails(r)
  PROVE  MessageInv'
  <1> SUFFICES ASSUME NEW v \in Workers PROVE Conserved(v)' /\ OneReceive(v)'
    BY DEF MessageInv
  <1>1. net' = net /\ rcq' = rcq /\ posted' = posted
    BY DEF MainStep, Touch, LeaveFirst, Create, CreateFails, Join, LeaveSecond, Report, epVars
  <1>2. \A x \in Workers : Gave(x)' = Gave(x)
    BY MainEffect DEF Gave
  <1>3. Got(v)' = Got(v)
    <2>1. Before(v)' + Flag(HasReceived(v))' = Before(v) + Flag(HasReceived(v))
      BY MainEffect
    <2> HIDE DEF Before, Flag, HasReceived
    <2> QED
      BY <1>1, <2>1 DEF Got
  <1>4. Conserved(v)'
    <2>1. Got(v) + net[v] = Gave(Peer(v))
      BY Counts DEF MessageInv
    <2> HIDE DEF Got, Gave
    <2> QED
      BY <1>1, <1>2, <1>3, <2>1, Pairs, MainTypesKept, CountsNext
  <1>5. OneReceive(v)'
    <2>1. pc'[v] = "waitr" <=> pc[v] = "waitr"
      BY MainEffect
    <2> QED
      BY <1>1, <2>1 DEF MessageInv, OneReceive, Flag
  <1> QED
    BY <1>4, <1>5

-----------------------------------------------------------------------------
(* The inductive invariant of the test: ranks and workers are abreast,     *)
(* messages are conserved, and every worker has outstanding what its place *)
(* and the errors so far say.                                              *)
THEOREM Invariance == Spec => []IInv
  <1>1. Init => IInv
    BY ControlInit, MessageInit, WindowInit DEF IInv
  <1>2. IInv /\ [Next]_vars => IInv'
    <2> SUFFICES ASSUME IInv, [Next]_vars PROVE IInv'
      OBVIOUS
    <2>1. Types /\ ControlInv /\ MessageInv /\ WindowInv
      BY DEF IInv
    <2>2. ASSUME NEW r \in Ranks, MainStep(r) \/ CreateFails(r) PROVE IInv'
      BY <2>1, <2>2, MainTypesKept, MainStepControl, MainMessage, MainWindow DEF IInv
    <2>3. ASSUME NEW w \in Workers, WorkerStep(w) PROVE IInv'
      BY <2>1, <2>3, WorkerTypes, WorkerControl, WorkerMessage, WorkerWindow DEF IInv
    <2>4. ASSUME NEW w \in Workers, FabricStep(w) PROVE IInv'
      <3>1. UNCHANGED <<mainVars, workVars>>
        BY <2>4 DEF FabricStep, WriteDone, SendDone, Arrive
      <3> QED
        BY <2>1, <2>4, <3>1, FabricTypes, FabricControl, FabricMessage, FabricWindow DEF IInv
    <2>5. CASE UNCHANGED vars
      <3>1. UNCHANGED <<mainVars, workVars, epVars>>
        BY <2>5 DEF vars
      <3>2. UNCHANGED <<mpc, size, calls, pc, i, need, tcalls, bytes, writes, sends, scq,
                        net, posted, rcq, errors>>
        BY <3>1 DEF mainVars, workVars, epVars
      <3>3. Types'
        BY <2>1, <3>2 DEF Types, MainTypes, WorkTypes, EpTypes
      <3>4. ControlInv'
        BY <2>1, <3>1, FabricControl
      <3>5. MessageInv'
        BY <2>1, <3>2 DEF MessageInv, Conserved, OneReceive, Before, HasReceived, HasSent, Joined, Flag
      <3>6. WindowInv'
        <4> SUFFICES ASSUME NEW w \in Workers PROVE WindowAt(w)'
          BY DEF WindowInv, WindowAt
        <4> QED
          BY <2>1, <3>1, <3>2, WindowParts, WindowSame
      <3> QED
        BY <3>3, <3>4, <3>5, <3>6 DEF IInv
    <2> QED
      BY <2>2, <2>3, <2>4, <2>5 DEF Next
  <1> QED
    BY <1>1, <1>2, PTL DEF Spec

-----------------------------------------------------------------------------
(* What follows from the invariant                                         *)

(* The invariant bounds what TypeOK bounds.                                *)
LEMMA TypesBounded == IInv => TypeOK
  <1> SUFFICES ASSUME Types, ControlInv PROVE TypeOK
    BY DEF IInv
  <1>1. ASSUME NEW r \in Ranks
        PROVE  calls[r] \in 0 .. 2 * Sizes /\ size[r] \in 1 .. Sizes + 1
               /\ (mpc[r] # "done" => size[r] <= Sizes)
    <2>1. size[r] \in 1 .. Sizes + 1 /\ mpc[r] \in MainPlaces
      BY DEF Types, MainTypes
    <2>2. mpc[r] # "done" => size[r] <= Sizes
      BY <2>1, Tunables DEF ControlInv, MainAt
    <2>3. calls[r] = MainEntered(r)
      BY DEF ControlInv, MainAt
    <2> QED
      BY <2>1, <2>2, <2>3, Tunables DEF MainEntered, MainPlaces
  <1>2. ASSUME NEW w \in Workers
        PROVE  tcalls[w] \in 0 .. 2 * Sizes
    <2>1. w[1] \in Ranks /\ WorkerAt(w)
      BY Pairs DEF ControlInv
    <2>2. /\ TeamCalls(w) \in {0, 1, 2}
          /\ TeamCalls(w) # 0 => mpc[w[1]] # "done"
      BY <2>1 DEF TeamCalls, WorkerAt, Working, Joined
    <2> HIDE DEF TeamCalls
    <2>3. tcalls[w] = 2 * (size[w[1]] - 1) + TeamCalls(w)
      BY <2>1 DEF WorkerAt
    <2> QED
      BY <1>1, <2>1, <2>2, <2>3, Tunables
  <1>3. calls \in [Ranks -> 0 .. 2 * Sizes]
    <2>1. calls = [r \in Ranks |-> calls[r]]
      BY DEF Types, MainTypes
    <2> QED
      BY <1>1, <2>1
  <1>4. tcalls \in [Workers -> 0 .. 2 * Sizes]
    <2>1. tcalls = [w \in Workers |-> tcalls[w]]
      BY DEF Types, WorkTypes
    <2> QED
      BY <1>2, <2>1
  <1>5. \A w \in Workers :
          {writes[w], sends[w], net[w], posted[w], rcq[w], i[w], bytes[w]} \subseteq Nat
    BY DEF Types, WorkTypes, EpTypes
  <1> QED
    BY <1>3, <1>4, <1>5 DEF TypeOK, Types, MainTypes, WorkTypes, EpTypes, MainPlaces, WorkerPlaces, Entries

(* While one rank touches its buffers, the other one is about to do so for *)
(* the same size or is done with the size before: nobody works.            *)
LEMMA OneTouches ==
  ASSUME Types, ControlInv, NEW r \in Ranks, mpc[r] = "touch", NEW q \in Ranks
  PROVE  /\ ~Working(q)
         /\ (size[q] - 1) + Flag(Joined(q)) = size[r] - 1
  <1>1. size[r] \in Nat /\ size[q] \in Nat /\ mpc[q] \in MainPlaces
    BY Tunables DEF Types, MainTypes
  <1>2. MainLeft(r) <= MainEntered(q) /\ MainLeft(q) <= MainEntered(r)
    BY Abreast
  <1>3. MainLeft(r) = 2 * (size[r] - 1) /\ MainEntered(r) = 2 * (size[r] - 1)
    BY <1>1 DEF MainLeft, MainEntered
  <1>4. CASE mpc[q] \in {"touch", "enter", "done"}
    BY <1>1, <1>2, <1>3, <1>4 DEF MainLeft, MainEntered, Working, Joined, Flag
  <1>5. CASE mpc[q] \in {"leave", "report"}
    <2>1. MainEntered(q) = 2 * (size[q] - 1) + 2
      BY <1>5 DEF MainEntered
    <2>2. MainLeft(q) = 2 * (size[q] - 1) + 1 \/ MainLeft(q) = 2 * (size[q] - 1) + 2
      BY <1>5 DEF MainLeft
    <2>3. size[q] = size[r] - 1
      BY <1>1, <1>2, <1>3, <2>1, <2>2
    <2>4. ~Working(q) /\ Flag(Joined(q)) = 1
      BY <1>5 DEF Working, Joined, Flag
    <2> QED
      BY <1>1, <2>3, <2>4
  <1>6. CASE mpc[q] \in {"create", "join", "gone"}
    BY <1>1, <1>2, <1>3, <1>6 DEF MainLeft, MainEntered
  <1> QED
    BY <1>1, <1>4, <1>5, <1>6 DEF MainPlaces

(* Buffers are touched while no worker of the rank runs.                   *)
LEMMA AtRest == IInv => TouchedAtRest
  <1> SUFFICES ASSUME IInv, errors = 0, NEW r \in Ranks, mpc[r] = "touch", NEW w \in Workers
               PROVE  /\ writes[w] = 0 /\ net[w] = 0 /\ posted[w] = 0
                      /\ sends[w] = 0 /\ scq[w] = <<>>
    BY DEF TouchedAtRest
  <1>1. Types /\ ControlInv /\ MessageInv /\ WindowInv
    BY DEF IInv
  <1>2. ASSUME NEW v \in Workers
        PROVE  /\ pc[v] = "none"
               /\ Before(v) + Flag(HasReceived(v)) = size[r] - 1
               /\ Before(v) + Flag(HasSent(v)) = size[r] - 1
    <2>1. v[1] \in Ranks /\ WorkerAt(v)
      BY <1>1, Pairs DEF ControlInv
    <2>2. ~Working(v[1]) /\ (size[v[1]] - 1) + Flag(Joined(v[1])) = size[r] - 1
      BY <1>1, <2>1, OneTouches
    <2>3. pc[v] = "none"
      BY <2>1, <2>2 DEF WorkerAt
    <2>4. (HasReceived(v) <=> Joined(v[1])) /\ (HasSent(v) <=> Joined(v[1]))
      BY <2>3 DEF HasReceived, HasSent
    <2> QED
      BY <2>2, <2>3, <2>4 DEF Before, Flag
  <1>3. writes[w] \in Nat /\ sends[w] \in Nat /\ Len(scq[w]) \in Nat /\ scq[w] \in Seq(Entries)
        /\ net[w] \in Nat /\ posted[w] \in Nat /\ rcq[w] \in Nat
    BY <1>1, AtWorker
  <1>4. Outstanding(w) = 0
    <2>1. Exact(w) /\ Need(w) = 0
      BY <1>1, <1>2 DEF WindowInv, Need
    <2> QED
      BY <2>1 DEF Exact
  <1>5. writes[w] = 0 /\ sends[w] = 0 /\ Len(scq[w]) = 0
    BY <1>3, <1>4 DEF Outstanding
  <1>6. posted[w] = 0 /\ rcq[w] = 0
    BY <1>1, <1>2, <1>3 DEF MessageInv, OneReceive, Flag
  <1>7. net[w] = 0
    <2>1. size[r] - 1 \in Int
      BY <1>1 DEF Types, MainTypes
    <2>2. Before(w) + Flag(HasReceived(w)) + rcq[w] + net[w] = Before(Peer(w)) + Flag(HasSent(Peer(w)))
      BY <1>1 DEF MessageInv, Conserved
    <2>3. Before(w) + Flag(HasReceived(w)) = size[r] - 1
          /\ Before(Peer(w)) + Flag(HasSent(Peer(w))) = size[r] - 1
      BY <1>2, Pairs
    <2> HIDE DEF Before, Flag, HasReceived, HasSent
    <2> QED
      BY <1>3, <1>6, <2>1, <2>2, <2>3
  <1> QED
    BY <1>3, <1>5, <1>6, <1>7

(* Two ranks with workers are between the barriers of one size.            *)
LEMMA SameSize ==
  ASSUME Types, ControlInv, Working(0), Working(1)
  PROVE  size[0] = size[1]
  <1>1. size[0] \in Nat /\ size[1] \in Nat
    BY Tunables DEF Types, MainTypes, Ranks
  <1>2. MainLeft(0) <= MainEntered(1) /\ MainLeft(1) <= MainEntered(0)
    BY Abreast DEF Ranks
  <1> QED
    BY <1>1, <1>2 DEF MainLeft, MainEntered, Working

(* Two peers that work are at the same size.                               *)
LEMMA PeersTogether == IInv => PeersAtSameSize
  <1> SUFFICES ASSUME IInv, NEW w \in Workers, pc[w] # "none", pc[Peer(w)] # "none"
               PROVE  size[0] = size[1]
    BY DEF PeersAtSameSize
  <1>1. Types /\ ControlInv /\ w[1] \in Ranks /\ Peer(w) \in Workers /\ Peer(w)[1] = 1 - w[1]
    BY Pairs DEF IInv
  <1>2. Working(w[1]) /\ Working(1 - w[1])
    BY <1>1 DEF ControlInv, WorkerAt
  <1> QED
    BY <1>1, <1>2, SameSize DEF Ranks

(* Each error leaves less than a window of operations unread.              *)
LEMMA LittleLeft == IInv => SurplusBounded
  <1> SUFFICES ASSUME IInv, NEW w \in Workers
               PROVE  writes[w] + sends[w] + Len(scq[w]) <= Window + errors * (Window - 1) + 1
    BY DEF SurplusBounded
  <1> DEFINE E == Errs(scq[w])
             k == errors - E
  <1>1. Types /\ Surplus(w)
    BY DEF IInv, WindowInv
  <1>2. /\ E \in Nat /\ errors \in Nat /\ need[w] \in 0 .. Window
        /\ writes[w] \in Nat /\ sends[w] \in Nat /\ Len(scq[w]) \in Nat
    BY <1>1, AtWorker
  <1>3. Outstanding(w) <= Need(w) + k * (Window - 1) /\ E <= errors
    BY <1>1 DEF Surplus
  <1>4. Need(w) \in 0 .. Window
    BY <1>2, Tunables DEF Need
  <1> HIDE DEF E
  <1>5. k \in Nat /\ errors = k + E
    BY <1>2, <1>3
  <1> HIDE DEF k
  <1>6. errors * (Window - 1) = k * (Window - 1) + E * (Window - 1)
    BY <1>2, <1>5, Tunables
  <1>7. k * (Window - 1) \in Nat /\ E * (Window - 1) \in Nat
    BY <1>2, <1>5, Product
  <1>8. Outstanding(w) = writes[w] + sends[w] + Len(scq[w]) /\ Outstanding(w) \in Nat
    BY <1>2 DEF Outstanding
  <1> DEFINE S == errors * (Window - 1)
             K == k * (Window - 1)
             T == E * (Window - 1)
  <1>9. S = K + T /\ K \in Nat /\ T \in Nat /\ Outstanding(w) <= Need(w) + K
    BY <1>3, <1>6, <1>7
  <1> HIDE DEF S, K, T
  <1>10. Outstanding(w) <= Window + S + 1
    BY <1>4, <1>8, <1>9, Tunables
  <1> QED
    BY <1>8, <1>10 DEF S

(* A worker of rank 1 that has received is at the size of its peer, which  *)
(* has sent, and so has written before.                                    *)
LEMMA Answered == IInv => AnswerAfterWrites
  <1> SUFFICES ASSUME IInv, NEW w \in Team(1), errors = 0, pc[w] \in {"send", "waits", "bar2"}
               PROVE  writes[Peer(w)] = 0 /\ i[Peer(w)] = LoopAt(size[1]) + SkipAt(size[1])
    BY DEF AnswerAfterWrites
  <1> DEFINE p == Peer(w)
  <1>1. Types /\ ControlInv /\ MessageInv /\ WindowInv
    BY DEF IInv
  <1>2. w \in Workers /\ w[1] = 1 /\ p \in Workers /\ p[1] = 0
    <2>1. w \in Workers /\ w[1] = 1
      BY Pairs DEF Ranks
    <2> QED
      BY <2>1, Pairs
  <1> HIDE DEF p
  <1>3. size[0] \in Nat /\ size[1] \in Nat /\ rcq[w] \in Nat /\ net[w] \in Nat /\ mpc[0] \in MainPlaces
    <2>1. size[0] \in Nat /\ size[1] \in Nat /\ mpc[0] \in MainPlaces
      BY <1>1, Tunables DEF Types, MainTypes, Ranks
    <2>2. rcq[w] \in Nat /\ net[w] \in Nat
      BY <1>1, <1>2 DEF Types, EpTypes
    <2> QED
      BY <2>1, <2>2
  <1>4. Working(1) /\ HasReceived(w)
    BY <1>1, <1>2 DEF ControlInv, WorkerAt, HasReceived
  <1>5. size[0] <= size[1]
    <2>1. MainLeft(0) <= MainEntered(1)
      BY <1>1, Abreast DEF Ranks
    <2>2. MainEntered(1) = 2 * (size[1] - 1) + 1
      BY <1>4 DEF MainEntered, Working
    <2>3. MainLeft(0) \in Int /\ MainLeft(0) >= 2 * (size[0] - 1)
      BY <1>3 DEF MainLeft, MainPlaces
    <2> HIDE DEF MainLeft, MainEntered
    <2> QED
      BY <1>3, <2>1, <2>2, <2>3
  <1>6. HasSent(p) /\ size[0] = size[1]
    <2>1. (size[1] - 1) + 1 + rcq[w] + net[w] = (size[0] - 1) + Flag(HasSent(p))
      <3>1. Conserved(w) /\ Before(w) = size[1] - 1 /\ Before(p) = size[0] - 1 /\ Flag(HasReceived(w)) = 1
        BY <1>1, <1>2, <1>4 DEF MessageInv, Before, Flag
      <3> HIDE DEF Before, HasSent, HasReceived
      <3> QED
        BY <3>1 DEF Conserved, p
    <2>2. HasSent(p)
      <3> SUFFICES ASSUME ~HasSent(p) PROVE FALSE
        OBVIOUS
      <3>1. Flag(HasSent(p)) = 0
        BY DEF Flag
      <3> QED
        BY <1>3, <1>5, <2>1, <3>1
    <2>3. Flag(HasSent(p)) = 1
      BY <2>2 DEF Flag
    <2>4. size[0] = size[1]
      BY <1>3, <1>5, <2>1, <2>3
    <2> QED
      BY <2>2, <2>4
  <1>7. HasWritten(p) /\ pc[p] # "waitw"
    <2>1. WorkerAt(p)
      BY <1>1, <1>2 DEF ControlInv
    <2>2. Joined(0) => pc[p] = "none"
      BY <1>2, <2>1 DEF WorkerAt, Working, Joined
    <2> QED
      BY <1>2, <1>6, <2>2 DEF HasSent, HasWritten
  <1>8. Exact(p) /\ Progress(p)
    BY <1>1, <1>2 DEF WindowInv
  <1>9. writes[p] = 0
    BY <1>7, <1>8 DEF Exact
  <1>10. i[p] = LoopAt(size[1]) + SkipAt(size[1])
    BY <1>2, <1>6, <1>7, <1>8 DEF Progress, LastAt
  <1> QED
    BY <1>9, <1>10 DEF p

-----------------------------------------------------------------------------
(* The sum of equal counts.  The fold of the library is a recursive        *)
(* function over the subsets of the set; products satisfy its equation,    *)
(* and no other function does.                                             *)

(* The sum of equal terms is a product, by induction on the subsets of S.  *)
LEMMA EqualTerms ==
  ASSUME NEW S, IsFiniteSet(S), NEW c \in Nat, NEW f, \A x \in S : f[x] = c
  PROVE  SumFunctionOnSet(f, S) = Cardinality(S) * c
  <1> DEFINE Def(g) == [s \in SUBSET S |->
                          IF s = {} THEN 0
                          ELSE f[CHOOSE x \in s : TRUE] + g[s \ {CHOOSE x \in s : TRUE}]]
             sum == CHOOSE g : g = Def(g)
             F == [s \in SUBSET S |-> Cardinality(s) * c]
  <1>1. SumFunctionOnSet(f, S) = sum[S]
    BY DEF SumFunctionOnSet, FoldFunctionOnSet, MapThenFoldSet
  <1>2. ASSUME NEW s \in SUBSET S
        PROVE  /\ IsFiniteSet(s) /\ Cardinality(s) \in Nat
    BY FS_Subset, FS_CardinalityType
  <1>3. ASSUME NEW s \in SUBSET S, NEW x \in s
        PROVE  s \ {x} \in SUBSET S /\ F[s] = f[x] + F[s \ {x}]
    <2>1. Cardinality(s \ {x}) = Cardinality(s) - 1
      BY <1>2, FS_RemoveElement
    <2>2. Cardinality(s) \in Nat /\ Cardinality(s \ {x}) \in Nat /\ f[x] = c
      BY <1>2
    <2>3. Cardinality(s) * c = c + Cardinality(s \ {x}) * c
      <3>1. \A m, n \in Nat : n = m - 1 => m * c = c + n * c
        OBVIOUS
      <3> QED
        BY <2>1, <2>2, <3>1
    <2> QED
      BY <2>2, <2>3
  <1>4. F[{}] = 0
    BY FS_EmptySet
  <1>5. F = Def(F)
    <2>1. ASSUME NEW s \in SUBSET S PROVE F[s] = Def(F)[s]
      <3>1. CASE s = {}
        BY <1>4, <3>1
      <3>2. CASE s # {}
        <4> DEFINE x == CHOOSE y \in s : TRUE
        <4>1. x \in s
          BY <3>2
        <4>2. F[s] = f[x] + F[s \ {x}]
          BY <1>3, <4>1
        <4> HIDE DEF F
        <4> QED
          BY <3>2, <4>2
      <3> QED
        BY <3>1, <3>2
    <2> QED
      BY <2>1
  <1>6. sum = Def(sum)
    <2> HIDE DEF F, Def
    <2> QED
      BY <1>5
  <1> HIDE DEF sum, F
  <1> DEFINE Bad == {s \in SUBSET S : sum[s] # F[s]}
  <1>7. Bad = {}
    <2> SUFFICES ASSUME Bad # {} PROVE FALSE
      OBVIOUS
    <2>1. Bad \subseteq FiniteSubsetsOf(S)
      BY <1>2 DEF FiniteSubsetsOf
    <2> HIDE DEF Bad
    <2>2. PICK U \in Bad : \A V \in Bad : ~(<<V, U>> \in StrictSubsetOrdering(S))
      <3>1. IsWellFoundedOn(StrictSubsetOrdering(S), FiniteSubsetsOf(S))
        BY FS_StrictSubsetOrderingWellFounded
      <3> QED
        BY <2>1, <3>1, WFMin
    <2>3. U \in SUBSET S /\ sum[U] # F[U]
      BY DEF Bad
    <2>4. U # {}
      BY <1>4, <1>6, <2>3
    <2> DEFINE x == CHOOSE y \in U : TRUE
    <2>5. x \in U
      BY <2>4
    <2>6. sum[U] = f[x] + sum[U \ {x}]
      BY <1>6, <2>3, <2>4
    <2> HIDE DEF x
    <2>7. U \ {x} \in SUBSET S /\ U \ {x} \notin Bad
      <3>1. <<U \ {x}, U>> \in StrictSubsetOrdering(S)
        BY <2>3, <2>5 DEF StrictSubsetOrdering
      <3> QED
        BY <2>2, <2>3, <3>1
    <2>8. sum[U \ {x}] = F[U \ {x}]
      BY <2>7 DEF Bad
    <2> QED
      BY <1>3, <2>3, <2>5, <2>6, <2>8
  <1> QED
    BY <1>1, <1>7 DEF F

(* A rank has as many workers as there are threads.                        *)
LEMMA TeamSize ==
  ASSUME NEW r \in Ranks
  PROVE  /\ IsFiniteSet(Team(r)) /\ Cardinality(Threads) \in Nat
         /\ Cardinality(Team(r)) = Cardinality(Threads)
  <1> DEFINE b == [t \in Threads |-> <<r, t>>]
  <1>1. b \in Bijection(Threads, Team(r))
    <2>1. b \in [Threads -> Team(r)] /\ \A w \in Team(r) : \E t \in Threads : b[t] = w
      BY DEF Team
    <2>2. \A s, t \in Threads : b[s] = b[t] => s = t
      OBVIOUS
    <2> HIDE DEF b
    <2> QED
      BY <2>1, <2>2 DEF Bijection, Injection, Surjection, IsInjective
  <1>2. ExistsBijection(Threads, Team(r))
    BY <1>1 DEF ExistsBijection
  <1>3. IsFiniteSet(Threads)
    BY ThreadsAssumption
  <1> QED
    BY <1>2, <1>3, FS_Bijection, FS_CardinalityType

(* Each worker has counted the bytes of the timed iterations, so all       *)
(* together have.                                                          *)
LEMMA TimedBytes == IInv => BytesExact
  <1> SUFFICES ASSUME IInv, mpc[0] = "report"
               PROVE  SumFunctionOnSet(bytes, Team(0)) = Cardinality(Threads) * LoopAt(size[0]) * Window
    BY DEF BytesExact
  <1> DEFINE n == LoopAt(size[0]) * Window
  <1>1. LoopAt(size[0]) \in Nat /\ Window \in Nat
    BY Tunables
  <1>2. n \in Nat
    <2>1. \A a, b \in Nat : a * b \in Nat
      OBVIOUS
    <2> QED
      BY <1>1, <2>1
  <1>3. ASSUME NEW w \in Team(0) PROVE bytes[w] = n
    <2>1. w \in Workers /\ w[1] = 0
      BY Pairs DEF Ranks
    <2>2. Progress(w) /\ HasWritten(w)
      BY <2>1 DEF IInv, WindowInv, HasWritten, Joined
    <2> QED
      BY <2>1, <2>2 DEF Progress
  <1> HIDE DEF n
  <1>4. 0 \in Ranks
    BY DEF Ranks
  <1>5. SumFunctionOnSet(bytes, Team(0)) = Cardinality(Threads) * n
    BY <1>2, <1>3, <1>4, TeamSize, EqualTerms
  <1>6. \A a, b, c \in Nat : a * (b * c) = a * b * c
    OBVIOUS
  <1> QED
    BY <1>1, <1>4, <1>5, <1>6, TeamSize DEF n

-----------------------------------------------------------------------------
(* The theorems                                                            *)

(* Ranks and workers change from one message size to the next together:    *)
(* no worker takes a message of one size for the handshake of another, and *)
(* without errors main touches the buffers only once nothing is under way. *)
THEOREM SizesTogether == Spec => []SizesChangeAtRest
  <1>1. IInv => SizesChangeAtRest
    BY TypesBounded, AtRest, PeersTogether DEF SizesChangeAtRest
  <1> QED
    BY <1>1, Invariance, PTL

(* Each write that fails makes a wait_for_comp give up less than a window  *)
(* of completions, so that a worker never has more outstanding than a      *)
(* window, a message and what the errors so far have left.                 *)
THEOREM SurplusStaysBounded == Spec => []SurplusBounded
  <1> QED
    BY LittleLeft, Invariance, PTL

(* Without errors, a worker of rank 1 answers only once every write of its *)
(* peer for this size has completed, so that the time measured is complete.*)
THEOREM AnswersAfterWrites == Spec => []AnswerAfterWrites
  <1> QED
    BY Answered, Invariance, PTL

(* What rank 0 prints counts each timed message of each of its workers     *)
(* once and no warm-up message, whether or not writes fail.                *)
THEOREM BytesAreExact == Spec => []BytesExact
  <1> QED
    BY TimedBytes, Invariance, PTL
=============================================================================
