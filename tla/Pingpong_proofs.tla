-------------------------- MODULE Pingpong_proofs --------------------------
(***************************************************************************)
(* The ping-pong of rdm_pingpong.c stays in step, for any number of        *)
(* workers and of sizes, in both builds, whatever receives fail, messages  *)
(* are lost and threads cannot be created.  The two ranks never compare    *)
(* the sizes they are at: each counts its own barriers, and the counts of  *)
(* main and of worker Zero together determine the size.                    *)
(***************************************************************************)
EXTENDS Pingpong, TLAPS

AtWork == {"create", "join", "gone"}
Looping == {"send", "waits", "recv", "waitr"}
Syncing == {"sync", "ctpm", "barr"}

MainTypes ==
  /\ mpc \in [Ranks -> AtWork \cup {"enter", "leave", "final", "fini", "done"}]
  /\ size \in [Ranks -> 1 .. Sizes + 1]
  /\ calls \in [Ranks -> Nat]
WorkTypes ==
  /\ thread_sync \in BOOLEAN /\ thread_sync \in Builds
  /\ pc \in [Workers -> Looping \cup Syncing \cup {"none", "ret"}]
  /\ i \in [Workers -> Nat] /\ waits \in [Workers -> Nat]
EpTypes ==
  /\ sends \in [Workers -> Nat] /\ scq \in [Workers -> Nat]
  /\ net \in [Workers -> Nat] /\ posted \in [Workers -> Nat] /\ rcq \in [Workers -> Nat]
  /\ rounds \in [Workers -> Nat] /\ arrived \in [Workers -> Nat]
  /\ errors \in 0 .. MaxErrors /\ lost \in 0 .. MaxLost

(* Where a worker can be, and how far it has come                          *)
Places ==
  /\ \A r \in Ranks : size[r] = Sizes + 1 <=> mpc[r] \in {"final", "fini", "done"}
  /\ \A w \in Workers :
       /\ pc[w] # "none" => mpc[w[1]] \in AtWork
       /\ pc[w] \in Syncing => thread_sync /\ i[w] \in {0, LastAt(size[w[1]])}
       /\ pc[w] \in Looping => i[w] < LastAt(size[w[1]])
       /\ i[w] <= LastAt(size[w[1]])

(* The calls of pthread_barrier_wait that a worker has made at its size    *)
WaitsAtSize(w) ==
  CASE pc[w] = "none" -> IF mpc[w[1]] = "leave" THEN 2 ELSE 0
    [] pc[w] \in {"sync", "ctpm"} -> IF i[w] = 0 THEN 0 ELSE 1
    [] pc[w] = "barr" -> IF i[w] = 0 THEN 1 ELSE 2
    [] pc[w] \in Looping -> 1
    [] pc[w] = "ret" -> 2
WaitsCounted ==
  \A w \in Workers :
    waits[w] = IF thread_sync THEN 2 * (size[w[1]] - 1) + WaitsAtSize(w) ELSE 0

(* The calls of ctpm_Barrier: those of the sizes before, one of main, and  *)
(* those that main or worker Zero has made since                           *)
Before(r) == IF thread_sync THEN 4 * (size[r] - 1) ELSE 2 * (size[r] - 1)
CallsOfZero(w) ==
  CASE pc[w] = "none" -> 0
    [] pc[w] = "sync" -> IF i[w] = 0 THEN 0 ELSE 1
    [] pc[w] \in {"ctpm", "barr"} -> IF i[w] = 0 THEN 1 ELSE 2
    [] pc[w] \in Looping -> 1
    [] pc[w] = "ret" -> 2
CallsSince(r) ==
  CASE mpc[r] \in {"enter", "final"} -> 0
    [] mpc[r] \in AtWork -> IF thread_sync THEN CallsOfZero(<<r, Zero>>) ELSE 0
    [] mpc[r] = "leave" -> IF thread_sync THEN 3 ELSE 1
    [] mpc[r] \in {"fini", "done"} -> 1
CallsCounted == \A r \in Ranks : calls[r] = Before(r) + 1 + CallsSince(r)

(* Who has left a barrier of main has seen all ranks enter it.             *)
Passed ==
  \A r, q \in Ranks :
    mpc[r] \in AtWork \cup {"leave", "fini", "done"} => calls[q] >= Before(r) + 1

MainInv == MainTypes /\ WorkTypes /\ Places /\ WaitsCounted /\ CallsCounted /\ Passed

(* The messages that a worker has sent: rank 0 sends before it receives,   *)
(* rank 1 after.                                                           *)
SentAhead(w) ==
  CASE w[1] = 0 /\ pc[w] \in {"waits", "recv", "waitr"} -> 1
    [] w[1] = 1 /\ pc[w] = "send" -> -1
    [] OTHER -> 0
(* No message is received that was not sent, and none is missing but those *)
(* that were lost.                                                         *)
Conserved ==
  \A w \in Workers :
    /\ rounds[w] + rcq[w] = arrived[w]
    /\ arrived[w] + net[w] <= rounds[Peer(w)] + SentAhead(Peer(w))
    /\ lost = 0 => arrived[w] + net[w] = rounds[Peer(w)] + SentAhead(Peer(w))

EpInv == EpTypes /\ OneOutstanding /\ Conserved

IInv == MainInv /\ EpInv

LEMMA Tunables ==
  /\ Sizes \in Nat \ {0} /\ MaxErrors \in Nat /\ MaxLost \in Nat
  /\ \A n \in Nat : LastAt(n) \in Nat /\ LastAt(n) >= 2
  BY TunablesAssumption DEF LastAt

LEMMA Pairs ==
  /\ \A w \in Workers : w[1] \in Ranks /\ w[2] \in Threads /\ Peer(w) \in Workers
                        /\ Peer(Peer(w)) = w /\ Peer(w)[1] = 1 - w[1] /\ Peer(w) # w
  /\ \A r \in Ranks : <<r, Zero>> \in Workers /\ <<r, Zero>>[1] = r
  BY ThreadsAssumption DEF Workers, Peer, Ranks

LEMMA Teams ==
  \A w \in Workers, r \in Ranks :
    /\ w \in Team(r) <=> w[1] = r
    /\ w = <<r, Zero>> <=> w[1] = r /\ w[2] = Zero
  BY ThreadsAssumption DEF Workers, Ranks, Team

LEMMA InitInv == Init => IInv
  <1> SUFFICES ASSUME Init PROVE IInv
    OBVIOUS
  <1>1. MainTypes /\ EpTypes
    BY Tunables DEF Init, MainTypes, EpTypes, AtWork
  <1>2. WorkTypes
    <2>1. thread_sync \in BOOLEAN
      BY ThreadsAssumption, Zenon DEF Init
    <2> QED
      BY <2>1 DEF Init, WorkTypes
  <1>3. Places
    BY Tunables, Pairs DEF Init, Places, Syncing, Looping
  <1>4. WaitsCounted
    <2>1. \A w \in Workers : pc[w] = "none" /\ mpc[w[1]] = "enter" /\ waits[w] = 0 /\ size[w[1]] = 1
      BY Pairs DEF Init
    <2>2. \A w \in Workers : WaitsAtSize(w) = 0
      BY <2>1 DEF WaitsAtSize, Looping
    <2> QED
      BY <2>1, <2>2 DEF WaitsCounted
  <1>5. CallsCounted /\ Passed
    BY DEF Init, CallsCounted, CallsSince, Before, Passed, AtWork
  <1>6. OneOutstanding
    BY DEF Init, OneOutstanding
  <1>7. Conserved
    BY Pairs DEF Init, Conserved, SentAhead
  <1> QED
    BY <1>1, <1>2, <1>3, <1>4, <1>5, <1>6, <1>7 DEF IInv, MainInv, EpInv

-----------------------------------------------------------------------------
(* The messages                                                            *)

(* At these places a worker has answered what it has received, and waits   *)
(* for nothing.                                                            *)
Quiet(w, label) ==
  label \notin {"waits", "waitr"} /\ label # IF w[1] = 0 THEN "recv" ELSE "send"

LEMMA QuietSteps ==
  ASSUME EpInv, UNCHANGED epVars,
         \A w \in Workers : pc'[w] = pc[w] \/ (Quiet(w, pc[w]) /\ Quiet(w, pc'[w]))
  PROVE  EpInv'
  <1>1. EpTypes'
    BY DEF EpInv, EpTypes, epVars
  <1>2. OneOutstanding'
    BY DEF EpInv, OneOutstanding, epVars, Quiet
  <1>3. \A w \in Workers : SentAhead(w)' = SentAhead(w)
    BY Pairs DEF SentAhead, Quiet, Ranks
  <1>4. Conserved'
    BY <1>3, Pairs DEF EpInv, Conserved, epVars
  <1> QED
    BY <1>1, <1>2, <1>4 DEF EpInv

LEMMA SendEp ==
  ASSUME IInv, NEW w \in Workers, Send(w)
  PROVE  EpInv'
  <1> USE DEF IInv, MainInv, EpInv, Add, Goto
  <1>1. EpTypes'
    BY Pairs DEF Send, EpTypes
  <1>2. OneOutstanding'
    BY Pairs DEF Send, EpTypes, WorkTypes, OneOutstanding
  <1>3. Conserved'
    BY Pairs DEF Send, EpTypes, WorkTypes, Conserved, SentAhead, Ranks
  <1> QED
    BY <1>1, <1>2, <1>3

LEMMA RecvEp ==
  ASSUME IInv, NEW w \in Workers, Recv(w)
  PROVE  EpInv'
  <1> USE DEF IInv, MainInv, EpInv, Add, Goto
  <1>1. EpTypes'
    BY Pairs DEF Recv, EpTypes
  <1>2. OneOutstanding'
    BY Pairs DEF Recv, EpTypes, WorkTypes, OneOutstanding
  <1>3. Conserved'
    BY Pairs DEF Recv, EpTypes, WorkTypes, Conserved, SentAhead, Ranks
  <1> QED
    BY <1>1, <1>2, <1>3

LEMMA WaitSendEp ==
  ASSUME IInv, NEW w \in Workers, WaitSend(w)
  PROVE  EpInv'
  <1> USE DEF IInv, MainInv, EpInv, Add, Goto, NextRound
  <1>1. EpTypes'
    BY Pairs DEF WaitSend, EpTypes
  <1>2. OneOutstanding'
    BY Pairs DEF WaitSend, EpTypes, WorkTypes, OneOutstanding
  <1>3. Conserved'
    BY Pairs DEF WaitSend, EpTypes, WorkTypes, Conserved, SentAhead, Ranks
  <1> QED
    BY <1>1, <1>2, <1>3

LEMMA WaitRecvEp ==
  ASSUME IInv, NEW w \in Workers, WaitRecv(w)
  PROVE  EpInv'
  <1> USE DEF IInv, MainInv, EpInv, Add, Goto, NextRound
  <1>1. EpTypes'
    BY Pairs DEF WaitRecv, EpTypes
  <1>2. OneOutstanding'
    BY Pairs DEF WaitRecv, EpTypes, WorkTypes, OneOutstanding
  <1>3. Conserved'
    BY Pairs, SMTT(30) DEF WaitRecv, EpTypes, WorkTypes, Conserved, SentAhead, Ranks
  <1> QED
    BY <1>1, <1>2, <1>3

LEMMA FabricEp ==
  ASSUME IInv, NEW w \in Workers, FabricStep(w) \/ Lose(w)
  PROVE  EpInv'
  <1> USE DEF IInv, EpInv, Add, workVars
  <1>1. CASE SendDone(w)
    <2>1. EpTypes'
      BY <1>1 DEF SendDone, EpTypes
    <2>2. OneOutstanding'
      BY <1>1 DEF SendDone, EpTypes, OneOutstanding
    <2>3. Conserved'
      BY <1>1 DEF SendDone, Conserved, SentAhead
    <2> QED
      BY <2>1, <2>2, <2>3
  <1>2. CASE RecvDone(w)
    <2>1. EpTypes'
      BY <1>2, Tunables DEF RecvDone, EpTypes
    <2>2. OneOutstanding'
      BY <1>2 DEF RecvDone, EpTypes, OneOutstanding
    <2>3. Conserved'
      BY <1>2, Pairs DEF RecvDone, EpTypes, Conserved, SentAhead
    <2> QED
      BY <2>1, <2>2, <2>3
  <1>3. CASE Lose(w)
    <2>1. EpTypes'
      BY <1>3, Tunables DEF Lose, EpTypes
    <2>2. OneOutstanding'
      BY <1>3 DEF Lose, OneOutstanding
    <2>3. Conserved'
      BY <1>3, Pairs DEF Lose, EpTypes, Conserved, SentAhead
    <2> QED
      BY <2>1, <2>2, <2>3
  <1> QED
    BY <1>1, <1>2, <1>3 DEF FabricStep

-----------------------------------------------------------------------------
(* The places and the counts of main and of the workers                    *)

LEMMA LeaveFirstMain ==
  ASSUME MainInv, NEW r \in Ranks, LeaveFirst(r)
  PROVE  MainInv'
  <1> USE DEF MainInv, MGoto, Goto, Add
  <1>1. MainTypes'
    BY Tunables, Pairs DEF LeaveFirst, AllCalled, workVars, epVars, MainTypes, AtWork
  <1>2. WorkTypes'
    BY Tunables, Pairs DEF LeaveFirst, AllCalled, workVars, epVars, WorkTypes, Looping, Syncing
  <1>3. Places'
    BY Tunables, Pairs DEF LeaveFirst, AllCalled, workVars, epVars, MainTypes, WorkTypes, Places, AtWork, Looping, Syncing
  <1>4. WaitsCounted'
    BY Tunables, Pairs DEF LeaveFirst, AllCalled, workVars, epVars, MainTypes, WorkTypes, Places, WaitsCounted, WaitsAtSize, AtWork, Looping, Syncing
  <1>5. CallsCounted'
    BY Tunables, Pairs DEF LeaveFirst, AllCalled, workVars, epVars, MainTypes, WorkTypes, Places, CallsCounted, CallsSince, CallsOfZero, Before, AtWork, Looping, Syncing
  <1>6. Passed'
    <2>1. calls[r] = Before(r) + 1
      <3>1. mpc[r] = "enter"
        BY DEF LeaveFirst
      <3>2. CallsSince(r) = 0
        BY <3>1 DEF CallsSince, AtWork
      <3> QED
        BY <3>2 DEF CallsCounted, MainTypes, Before
    <2>2. \A q \in Ranks : Before(q)' = Before(q)
      BY DEF LeaveFirst, workVars, Before
    <2>3. \A q \in Ranks : calls[q] >= Before(r) + 1 /\ calls'[q] >= calls[q]
      BY <2>1 DEF LeaveFirst, AllCalled, MainTypes
    <2>4. \A q \in Ranks : q # r => mpc'[q] = mpc[q]
      BY DEF LeaveFirst, MainTypes
    <2>5. \A q \in Ranks : Before(q) \in Int /\ calls[q] \in Int /\ calls'[q] \in Int
      BY DEF LeaveFirst, MainTypes, Before
    <2> QED
      BY <2>2, <2>3, <2>4, <2>5 DEF Passed
  <1> QED
    BY <1>1, <1>2, <1>3, <1>4, <1>5, <1>6

LEMMA CreateMain ==
  ASSUME MainInv, NEW r \in Ranks, Create(r)
  PROVE  MainInv'
  <1> USE DEF MainInv, MGoto, Goto, Add
  <1>1. MainTypes'
    BY Tunables, Pairs DEF Create, Begin, Team, MainTypes, AtWork
  <1>2. WorkTypes'
    <2>1. PICK w \in Workers :
            /\ pc' = [pc EXCEPT ![w] = IF thread_sync THEN "sync" ELSE Begin(w)]
            /\ i' = [i EXCEPT ![w] = 0]
      BY DEF Create, Team, Workers
    <2>2. Begin(w) \in Looping
      BY DEF Begin, Looping
    <2>3. thread_sync' = thread_sync /\ waits' = waits
      BY DEF Create
    <2> QED
      BY <2>1, <2>2, <2>3 DEF WorkTypes, Looping, Syncing
  <1>3. Places'
    BY Tunables, Pairs DEF Create, Begin, Team, MainTypes, WorkTypes, Places, AtWork, Looping, Syncing
  <1>4. WaitsCounted'
    BY Tunables, Pairs DEF Create, Begin, Team, MainTypes, WorkTypes, Places, WaitsCounted, WaitsAtSize, AtWork, Looping, Syncing
  <1>5. CallsCounted'
    BY Tunables, Pairs DEF Create, Begin, Team, MainTypes, WorkTypes, Places, CallsCounted, CallsSince, CallsOfZero, Before, AtWork, Looping, Syncing
  <1>6. Passed'
    BY Tunables, Pairs DEF Create, Begin, Team, MainTypes, Passed, Before, AtWork
  <1> QED
    BY <1>1, <1>2, <1>3, <1>4, <1>5, <1>6

LEMMA CreateFailsMain ==
  ASSUME MainInv, NEW r \in Ranks, CreateFails(r)
  PROVE  MainInv'
  <1> USE DEF MainInv, MGoto, Goto, Add
  <1>1. MainTypes'
    BY Tunables, Pairs DEF CreateFails, workVars, MainTypes, AtWork
  <1>2. WorkTypes'
    BY Tunables, Pairs DEF CreateFails, workVars, WorkTypes, Looping, Syncing
  <1>3. Places'
    BY Tunables, Pairs DEF CreateFails, workVars, MainTypes, WorkTypes, Places, AtWork, Looping, Syncing
  <1>4. WaitsCounted'
    BY Tunables, Pairs DEF CreateFails, workVars, MainTypes, WorkTypes, Places, WaitsCounted, WaitsAtSize, AtWork, Looping, Syncing
  <1>5. CallsCounted'
    BY Tunables, Pairs DEF CreateFails, workVars, MainTypes, WorkTypes, Places, CallsCounted, CallsSince, CallsOfZero, Before, AtWork, Looping, Syncing
  <1>6. Passed'
    BY Tunables, Pairs DEF CreateFails, workVars, MainTypes, Passed, Before, AtWork
  <1> QED
    BY <1>1, <1>2, <1>3, <1>4, <1>5, <1>6

LEMMA JoinMain ==
  ASSUME MainInv, NEW r \in Ranks, Join(r)
  PROVE  MainInv'
  <1> USE DEF MainInv, MGoto, Goto, Add
  <1>1. MainTypes'
    BY Tunables, Pairs, Teams DEF Join, MainTypes, AtWork
  <1>2. WorkTypes'
    BY Tunables, Pairs, Teams DEF Join, WorkTypes, Looping, Syncing
  <1>3. Places'
    BY Tunables, Pairs, Teams DEF Join, MainTypes, WorkTypes, Places, AtWork, Looping, Syncing
  <1>4. WaitsCounted'
    BY Tunables, Pairs, Teams DEF Join, MainTypes, WorkTypes, Places, WaitsCounted, WaitsAtSize, AtWork, Looping, Syncing
  <1>5. CallsCounted'
    BY Tunables, Pairs, Teams DEF Join, MainTypes, WorkTypes, Places, CallsCounted, CallsSince, CallsOfZero, Before, AtWork, Looping, Syncing
  <1>6. Passed'
    BY Tunables, Pairs, Teams DEF Join, MainTypes, Passed, Before, AtWork
  <1> QED
    BY <1>1, <1>2, <1>3, <1>4, <1>5, <1>6

LEMMA LeaveSecondMain ==
  ASSUME MainInv, NEW r \in Ranks, LeaveSecond(r)
  PROVE  MainInv'
  <1> USE DEF MainInv, MGoto, Goto, Add
  <1>1. MainTypes'
    BY Tunables DEF LeaveSecond, MainTypes, Places, AtWork
  <1>2. WorkTypes'
    BY Tunables, Pairs, Teams DEF LeaveSecond, AllCalled, WorkTypes, Looping, Syncing
  <1>3. Places'
    <2>1. \A q \in Ranks : size'[q] = Sizes + 1 <=> mpc'[q] \in {"final", "fini", "done"}
      BY Tunables DEF LeaveSecond, MainTypes, Places, AtWork
    <2>2. mpc[r] = "leave" /\ pc' = pc /\ thread_sync' = thread_sync
      BY DEF LeaveSecond
    <2>3. ASSUME NEW w \in Workers, w[1] = r
          PROVE  pc'[w] = "none" /\ i'[w] = 0
      BY <2>2, <2>3, Teams, Pairs DEF LeaveSecond, WorkTypes, Places, AtWork
    <2>4. ASSUME NEW w \in Workers, w[1] # r
          PROVE  /\ pc'[w] = pc[w] /\ i'[w] = i[w]
                 /\ mpc'[w[1]] = mpc[w[1]] /\ size'[w[1]] = size[w[1]]
      BY <2>2, <2>4, Teams, Pairs DEF LeaveSecond, MainTypes, WorkTypes
    <2>5. \A w \in Workers : LastAt(size[w[1]]) \in Nat /\ LastAt(size'[w[1]]) \in Nat
      BY <1>1, Tunables, Pairs DEF MainTypes
    <2>6. ASSUME NEW w \in Workers
          PROVE  /\ pc'[w] # "none" => mpc'[w[1]] \in AtWork
                 /\ pc'[w] \in Syncing => thread_sync' /\ i'[w] \in {0, LastAt(size'[w[1]])}
                 /\ pc'[w] \in Looping => i'[w] < LastAt(size'[w[1]])
                 /\ i'[w] <= LastAt(size'[w[1]])
      <3>1. CASE w[1] = r
        BY <3>1, <2>3, <2>5 DEF Syncing, Looping
      <3>2. CASE w[1] # r
        BY <3>2, <2>2, <2>4 DEF Places
      <3> QED
        BY <3>1, <3>2
    <2> QED
      BY <2>1, <2>6 DEF Places
  <1>4. WaitsCounted'
    BY Tunables, Pairs, Teams DEF LeaveSecond, AllCalled, MainTypes, WorkTypes, Places, WaitsCounted, WaitsAtSize, AtWork, Looping, Syncing
  <1>5. CallsCounted'
    BY Tunables, Pairs, Teams DEF LeaveSecond, AllCalled, MainTypes, WorkTypes, Places, CallsCounted, CallsSince, CallsOfZero, Before, AtWork, Looping, Syncing
  <1>6. Passed'
    BY Tunables, Pairs, Teams DEF LeaveSecond, AllCalled, MainTypes, Passed, Before, AtWork
  <1> QED
    BY <1>1, <1>2, <1>3, <1>4, <1>5, <1>6

LEMMA FiniMain ==
  ASSUME MainInv, NEW r \in Ranks, Fini(r)
  PROVE  MainInv'
  <1> USE DEF MainInv, MGoto, Goto, Add
  <1>1. MainTypes'
    BY Tunables, Pairs DEF Fini, AllCalled, workVars, MainTypes, AtWork
  <1>2. WorkTypes'
    BY Tunables, Pairs DEF Fini, AllCalled, workVars, WorkTypes, Looping, Syncing
  <1>3. Places'
    BY Tunables, Pairs DEF Fini, AllCalled, workVars, MainTypes, WorkTypes, Places, AtWork, Looping, Syncing
  <1>4. WaitsCounted'
    BY Tunables, Pairs DEF Fini, AllCalled, workVars, MainTypes, WorkTypes, Places, WaitsCounted, WaitsAtSize, AtWork, Looping, Syncing
  <1>5. CallsCounted'
    BY Tunables, Pairs DEF Fini, AllCalled, workVars, MainTypes, WorkTypes, Places, CallsCounted, CallsSince, CallsOfZero, Before, AtWork, Looping, Syncing
  <1>6. Passed'
    <2>1. calls[r] = Before(r) + 1
      <3>1. mpc[r] = "final"
        BY DEF Fini
      <3>2. CallsSince(r) = 0
        BY <3>1 DEF CallsSince, AtWork
      <3> QED
        BY <3>2 DEF CallsCounted, MainTypes, Before
    <2>2. \A q \in Ranks : Before(q)' = Before(q)
      BY DEF Fini, workVars, Before
    <2>3. \A q \in Ranks : calls[q] >= Before(r) + 1 /\ calls'[q] >= calls[q]
      BY <2>1 DEF Fini, AllCalled, MainTypes
    <2>4. \A q \in Ranks : q # r => mpc'[q] = mpc[q]
      BY DEF Fini, MainTypes
    <2>5. \A q \in Ranks : Before(q) \in Int /\ calls[q] \in Int /\ calls'[q] \in Int
      BY DEF Fini, MainTypes, Before
    <2> QED
      BY <2>2, <2>3, <2>4, <2>5 DEF Passed
  <1> QED
    BY <1>1, <1>2, <1>3, <1>4, <1>5, <1>6

LEMMA ExitMain ==
  ASSUME MainInv, NEW r \in Ranks, Exit(r)
  PROVE  MainInv'
  <1> USE DEF MainInv, MGoto, Goto, Add
  <1>1. MainTypes'
    BY Tunables, Pairs DEF Exit, AllCalled, workVars, MainTypes, AtWork
  <1>2. WorkTypes'
    BY Tunables, Pairs DEF Exit, AllCalled, workVars, WorkTypes, Looping, Syncing
  <1>3. Places'
    BY Tunables, Pairs DEF Exit, AllCalled, workVars, MainTypes, WorkTypes, Places, AtWork, Looping, Syncing
  <1>4. WaitsCounted'
    BY Tunables, Pairs DEF Exit, AllCalled, workVars, MainTypes, WorkTypes, Places, WaitsCounted, WaitsAtSize, AtWork, Looping, Syncing
  <1>5. CallsCounted'
    BY Tunables, Pairs DEF Exit, AllCalled, workVars, MainTypes, WorkTypes, Places, CallsCounted, CallsSince, CallsOfZero, Before, AtWork, Looping, Syncing
  <1>6. Passed'
    BY Tunables, Pairs DEF Exit, AllCalled, workVars, MainTypes, Passed, Before, AtWork
  <1> QED
    BY <1>1, <1>2, <1>3, <1>4, <1>5, <1>6

LEMMA EnterSyncMain ==
  ASSUME MainInv, NEW w \in Workers, EnterSync(w)
  PROVE  MainInv'
  <1> USE DEF MainInv, MGoto, Goto, Add
  <1>1. MainTypes'
    BY Tunables, Pairs DEF EnterSync, MainTypes, AtWork
  <1>2. WorkTypes'
    BY Tunables, Pairs DEF EnterSync, WorkTypes, Looping, Syncing
  <1>3. Places'
    BY Tunables, Pairs DEF EnterSync, MainTypes, WorkTypes, Places, AtWork, Looping, Syncing
  <1>4. WaitsCounted'
    BY Tunables, Pairs DEF EnterSync, MainTypes, WorkTypes, Places, WaitsCounted, WaitsAtSize, AtWork, Looping, Syncing
  <1>5. CallsCounted'
    BY Tunables, Pairs, Teams DEF EnterSync, MainTypes, WorkTypes, Places, CallsCounted, CallsSince, CallsOfZero, Before, AtWork, Looping, Syncing
  <1>6. Passed'
    BY Tunables, Pairs DEF EnterSync, MainTypes, Passed, Before, AtWork
  <1> QED
    BY <1>1, <1>2, <1>3, <1>4, <1>5, <1>6

LEMMA LeaveCtpmMain ==
  ASSUME MainInv, NEW w \in Workers, LeaveCtpm(w)
  PROVE  MainInv'
  <1> USE DEF MainInv, MGoto, Goto, Add
  <1>1. MainTypes'
    BY Tunables, Pairs DEF LeaveCtpm, mainVars, MainTypes, AtWork
  <1>2. WorkTypes'
    BY Tunables, Pairs DEF LeaveCtpm, mainVars, WorkTypes, Looping, Syncing
  <1>3. Places'
    BY Tunables, Pairs DEF LeaveCtpm, mainVars, MainTypes, WorkTypes, Places, AtWork, Looping, Syncing
  <1>4. WaitsCounted'
    BY Tunables, Pairs DEF LeaveCtpm, mainVars, MainTypes, WorkTypes, Places, WaitsCounted, WaitsAtSize, AtWork, Looping, Syncing
  <1>5. CallsCounted'
    BY Tunables, Pairs DEF LeaveCtpm, mainVars, MainTypes, WorkTypes, Places, CallsCounted, CallsSince, CallsOfZero, Before, AtWork, Looping, Syncing
  <1>6. Passed'
    BY Tunables, Pairs DEF LeaveCtpm, mainVars, MainTypes, Passed, Before, AtWork
  <1> QED
    BY <1>1, <1>2, <1>3, <1>4, <1>5, <1>6

LEMMA LeaveSyncMain ==
  ASSUME MainInv, NEW w \in Workers, LeaveSync(w)
  PROVE  MainInv'
  <1> USE DEF MainInv, MGoto, Goto, Add
  <1>1. MainTypes'
    BY Tunables, Pairs DEF LeaveSync, Begin, mainVars, MainTypes, AtWork
  <1>2. WorkTypes'
    BY Tunables, Pairs DEF LeaveSync, Begin, mainVars, WorkTypes, Looping, Syncing
  <1>3. Places'
    BY Tunables, Pairs DEF LeaveSync, Begin, mainVars, MainTypes, WorkTypes, Places, AtWork, Looping, Syncing
  <1>4. WaitsCounted'
    BY Tunables, Pairs DEF LeaveSync, Begin, mainVars, MainTypes, WorkTypes, Places, WaitsCounted, WaitsAtSize, AtWork, Looping, Syncing
  <1>5. CallsCounted'
    BY Tunables, Pairs DEF LeaveSync, Begin, mainVars, MainTypes, WorkTypes, Places, CallsCounted, CallsSince, CallsOfZero, Before, AtWork, Looping, Syncing
  <1>6. Passed'
    BY Tunables, Pairs DEF LeaveSync, Begin, mainVars, MainTypes, Passed, Before, AtWork
  <1> QED
    BY <1>1, <1>2, <1>3, <1>4, <1>5, <1>6

LEMMA SendMain ==
  ASSUME MainInv, NEW w \in Workers, Send(w) \/ Recv(w)
  PROVE  MainInv'
  <1> USE DEF MainInv, MGoto, Goto, Add
  <1>1. MainTypes'
    BY Tunables, Pairs DEF Send, Recv, mainVars, MainTypes, AtWork
  <1>2. WorkTypes'
    BY Tunables, Pairs DEF Send, Recv, mainVars, WorkTypes, Looping, Syncing
  <1>3. Places'
    BY Tunables, Pairs DEF Send, Recv, mainVars, MainTypes, WorkTypes, Places, AtWork, Looping, Syncing
  <1>4. WaitsCounted'
    BY Tunables, Pairs DEF Send, Recv, mainVars, MainTypes, WorkTypes, Places, WaitsCounted, WaitsAtSize, AtWork, Looping, Syncing
  <1>5. CallsCounted'
    BY Tunables, Pairs DEF Send, Recv, mainVars, MainTypes, WorkTypes, Places, CallsCounted, CallsSince, CallsOfZero, Before, AtWork, Looping, Syncing
  <1>6. Passed'
    BY Tunables, Pairs DEF Send, Recv, mainVars, MainTypes, Passed, Before, AtWork
  <1> QED
    BY <1>1, <1>2, <1>3, <1>4, <1>5, <1>6

LEMMA WaitMain ==
  ASSUME MainInv, NEW w \in Workers, WaitSend(w) \/ WaitRecv(w)
  PROVE  MainInv'
  <1> USE DEF MainInv, MGoto, Goto, Add
  <1>1. MainTypes'
    BY Tunables, Pairs DEF WaitSend, WaitRecv, NextRound, mainVars, MainTypes, AtWork
  <1>2. WorkTypes'
    BY Tunables, Pairs DEF WaitSend, WaitRecv, NextRound, mainVars, WorkTypes, Looping, Syncing
  <1>3. Places'
    BY Tunables, Pairs DEF WaitSend, WaitRecv, NextRound, mainVars, MainTypes, WorkTypes, Places, AtWork, Looping, Syncing
  <1>4. WaitsCounted'
    BY Tunables, Pairs DEF WaitSend, WaitRecv, NextRound, mainVars, MainTypes, WorkTypes, Places, WaitsCounted, WaitsAtSize, AtWork, Looping, Syncing
  <1>5. CallsCounted'
    BY Tunables, Pairs DEF WaitSend, WaitRecv, NextRound, mainVars, MainTypes, WorkTypes, Places, CallsCounted, CallsSince, CallsOfZero, Before, AtWork, Looping, Syncing
  <1>6. Passed'
    BY Tunables, Pairs DEF WaitSend, WaitRecv, NextRound, mainVars, MainTypes, Passed, Before, AtWork
  <1> QED
    BY <1>1, <1>2, <1>3, <1>4, <1>5, <1>6

-----------------------------------------------------------------------------
(* The inductive invariant: the counts of the barriers tell the sizes, and *)
(* the counts of the messages tell what is under way.                      *)
THEOREM Invariance == Spec => []IInv
  <1>1. ASSUME IInv, NEW r \in Ranks, MainStep(r) \/ CreateFails(r)
        PROVE  IInv'
    <2>1. MainInv'
      BY <1>1, LeaveFirstMain, CreateMain, CreateFailsMain, JoinMain, LeaveSecondMain, FiniMain, ExitMain
         DEF MainStep, IInv
    <2>2. UNCHANGED epVars
      BY <1>1 DEF MainStep, LeaveFirst, Create, CreateFails, Join, LeaveSecond, Fini, Exit
    <2>3. \A w \in Workers : pc'[w] = pc[w] \/ (Quiet(w, pc[w]) /\ Quiet(w, pc'[w]))
      <3>1. CASE Create(r)
        BY <3>1, <1>1, Pairs DEF Create, Goto, Begin, Quiet, IInv, MainInv, WorkTypes, Team, Ranks, Workers
      <3>2. CASE Join(r)
        BY <3>2, <1>1, Pairs DEF Join, Quiet, IInv, MainInv, WorkTypes
      <3>3. CASE UNCHANGED pc
        BY <3>3
      <3> QED
        BY <1>1, <3>1, <3>2, <3>3 DEF MainStep, LeaveFirst, CreateFails, LeaveSecond, Fini, Exit, workVars
    <2> QED
      BY <1>1, <2>1, <2>2, <2>3, QuietSteps DEF IInv
  <1>2. ASSUME IInv, NEW w \in Workers, EnterSync(w) \/ LeaveCtpm(w) \/ LeaveSync(w)
        PROVE  IInv'
    <2>1. MainInv'
      BY <1>2, EnterSyncMain, LeaveCtpmMain, LeaveSyncMain DEF IInv
    <2>2. UNCHANGED epVars
      BY <1>2 DEF EnterSync, LeaveCtpm, LeaveSync
    <2>3. \A v \in Workers : pc'[v] = pc[v] \/ (Quiet(v, pc[v]) /\ Quiet(v, pc'[v]))
      BY <1>2, Pairs DEF EnterSync, LeaveCtpm, LeaveSync, Goto, Begin, Quiet, IInv, MainInv, WorkTypes, Ranks
    <2> QED
      BY <1>2, <2>1, <2>2, <2>3, QuietSteps DEF IInv
  <1>3. ASSUME IInv, NEW w \in Workers, Send(w) \/ Recv(w) \/ WaitSend(w) \/ WaitRecv(w)
        PROVE  IInv'
    BY <1>3, SendMain, WaitMain, SendEp, RecvEp, WaitSendEp, WaitRecvEp DEF IInv
  <1>4. ASSUME MainInv, UNCHANGED <<mainVars, workVars>>
        PROVE  MainInv'
    <2> USE <1>4 DEF MainInv, mainVars, workVars
    <2>1. MainTypes' /\ WorkTypes' /\ Places'
      BY DEF MainTypes, WorkTypes, Places
    <2>2. WaitsCounted'
      BY DEF WaitsCounted, WaitsAtSize
    <2>3. \A r \in Ranks : CallsSince(r)' = CallsSince(r) /\ Before(r)' = Before(r)
      BY DEF CallsSince, CallsOfZero, Before
    <2>4. CallsCounted' /\ Passed'
      BY <2>3 DEF CallsCounted, Passed
    <2> QED
      BY <2>1, <2>2, <2>4
  <1>5. ASSUME IInv, NEW w \in Workers, FabricStep(w) \/ Lose(w)
        PROVE  IInv'
    <2>1. UNCHANGED <<mainVars, workVars>>
      BY <1>5 DEF FabricStep, SendDone, RecvDone, Lose
    <2> QED
      BY <1>4, <1>5, <2>1, FabricEp DEF IInv
  <1>6. ASSUME IInv, UNCHANGED vars
        PROVE  IInv'
    <2>1. EpInv'
      BY <1>6, QuietSteps DEF vars, workVars, IInv
    <2> QED
      BY <1>4, <1>6, <2>1 DEF vars, IInv
  <1>7. IInv /\ [Next]_vars => IInv'
    BY <1>1, <1>2, <1>3, <1>5, <1>6 DEF Next, WorkerStep
  <1> QED
    BY <1>7, InitInv, PTL DEF Spec

(* No round ends, and nothing is answered, before the message waited for   *)
(* has come, whatever receives fail: see RoundTripsReal.                   *)
THEOREM RoundTrips == Spec => []RoundTripsReal
  <1>1. IInv => RoundTripsReal
    <2> SUFFICES ASSUME IInv, NEW w \in Workers
                 PROVE  rounds[w] <= arrived[w] /\ rounds[w] <= rounds[Peer(w)] + w[1]
      BY DEF RoundTripsReal
    <2>1. SentAhead(Peer(w)) <= w[1] /\ SentAhead(Peer(w)) \in Int /\ w[1] \in Int
      BY Pairs DEF SentAhead, Ranks
    <2>2. /\ rounds[w] \in Nat /\ rcq[w] \in Nat /\ arrived[w] \in Nat /\ net[w] \in Nat
          /\ rounds[Peer(w)] \in Nat
      BY Pairs DEF IInv, EpInv, EpTypes
    <2>3. /\ rounds[w] + rcq[w] = arrived[w]
          /\ arrived[w] + net[w] <= rounds[Peer(w)] + SentAhead(Peer(w))
      BY DEF IInv, EpInv, Conserved
    <2> QED
      BY <2>1, <2>2, <2>3
  <1> QED
    BY <1>1, Invariance, PTL

(* A rank that has left a barrier of main is not behind the other.         *)
LEMMA NotBehind ==
  ASSUME MainInv, NEW r \in Ranks, NEW q \in Ranks,
         mpc[r] \in AtWork \cup {"leave", "fini", "done"}
  PROVE  size[r] <= size[q]
  <1>1. calls[q] >= Before(r) + 1
    BY DEF MainInv, Passed
  <1>2. calls[q] = Before(q) + 1 + CallsSince(q)
    BY DEF MainInv, CallsCounted
  <1>3. CallsSince(q) \in 0 .. (IF thread_sync THEN 3 ELSE 1)
    <2>1. CallsOfZero(<<q, Zero>>) \in 0 .. 2
      BY Pairs DEF CallsOfZero, MainInv, WorkTypes, Looping, Syncing
    <2> QED
      BY <2>1 DEF CallsSince, MainInv, MainTypes, WorkTypes, AtWork
  <1>4. size[r] \in Int /\ size[q] \in Int /\ thread_sync \in BOOLEAN
    BY DEF MainInv, MainTypes, WorkTypes
  <1> QED
    BY <1>1, <1>2, <1>3, <1>4 DEF Before

(* Each wait consumes its own completion, workers that talk to each other  *)
(* are at the same size, and the endpoints are closed when nothing is      *)
(* under way: see WorkersInStep.                                           *)
THEOREM InStep == Spec => []WorkersInStep
  <1>1. IInv => TypeOK
    <2> SUFFICES ASSUME IInv PROVE TypeOK
      OBVIOUS
    <2> USE DEF IInv, MainInv, EpInv
    <2>1. ASSUME NEW r \in Ranks PROVE calls[r] <= 4 * Sizes + 2
      <3>1. CallsOfZero(<<r, Zero>>) \in 0 .. 2
        BY Pairs DEF CallsOfZero, WorkTypes, Looping, Syncing
      <3>2. CallsSince(r) \in 0 .. 3 /\ (size[r] = Sizes + 1 => CallsSince(r) <= 1)
        BY <3>1 DEF CallsSince, MainTypes, WorkTypes, Places, AtWork
      <3>3. size[r] \in 1 .. Sizes + 1 /\ thread_sync \in BOOLEAN /\ Sizes \in Nat
        BY Tunables DEF MainTypes, WorkTypes
      <3>4. Before(r) <= 4 * (size[r] - 1) /\ Before(r) \in Int
        BY <3>3 DEF Before
      <3>5. calls[r] = Before(r) + 1 + CallsSince(r)
        BY DEF CallsCounted
      <3> QED
        BY <3>2, <3>3, <3>4, <3>5
    <2>2. ASSUME NEW w \in Workers PROVE waits[w] <= 2 * Sizes
      <3>1. WaitsAtSize(w) \in 0 .. 2 /\ (size[w[1]] = Sizes + 1 => WaitsAtSize(w) = 0)
        BY Pairs DEF WaitsAtSize, WorkTypes, Places, AtWork, Looping, Syncing
      <3>2. size[w[1]] \in 1 .. Sizes + 1 /\ Sizes \in Nat
        BY Tunables, Pairs DEF MainTypes
      <3> QED
        BY <3>1, <3>2 DEF WaitsCounted
    <2>3. calls \in [Ranks -> 1 .. 4 * Sizes + 2]
      <3>1. ASSUME NEW r \in Ranks PROVE calls[r] >= 1
        <4>1. CallsOfZero(<<r, Zero>>) \in Nat
          BY Pairs DEF CallsOfZero, WorkTypes, Looping, Syncing
        <4>2. CallsSince(r) \in Nat
          BY <4>1 DEF CallsSince, MainTypes, AtWork
        <4>3. Before(r) \in Nat
          BY DEF Before, MainTypes
        <4> QED
          BY <4>2, <4>3 DEF CallsCounted
      <3> QED
        BY <2>1, <3>1 DEF MainTypes
    <2>4. waits \in [Workers -> 0 .. 2 * Sizes]
      BY <2>2, Tunables DEF WorkTypes
    <2>5. \A w \in Workers : i[w] \in 0 .. LastAt(size[w[1]])
      BY Tunables, Pairs DEF MainTypes, WorkTypes, Places
    <2> QED
      BY <2>3, <2>4, <2>5 DEF TypeOK, MainTypes, WorkTypes, EpTypes, AtWork, Looping, Syncing
  <1>2. IInv => PeersAtSameSize
    <2> SUFFICES ASSUME IInv, NEW w \in Workers, pc[w] # "none", pc[Peer(w)] # "none"
                 PROVE  size[0] = size[1]
      BY DEF PeersAtSameSize
    <2>1. \A r \in Ranks : mpc[r] \in AtWork
      BY Pairs DEF IInv, MainInv, Places, Ranks
    <2>2. size[0] <= size[1] /\ size[1] <= size[0]
      BY <2>1, NotBehind DEF IInv, Ranks
    <2> QED
      BY <2>2 DEF IInv, MainInv, MainTypes, Ranks
  <1>3. IInv => ClosedAtRest
    <2> SUFFICES ASSUME IInv, lost = 0, NEW r \in Ranks, mpc[r] \in {"fini", "done"},
                        NEW w \in Workers
                 PROVE  pc[w] = "none" /\ sends[w] = 0 /\ net[w] = 0 /\ posted[w] = 0
      BY DEF ClosedAtRest
    <2> USE DEF IInv, MainInv, EpInv
    <2>1. \A q \in Ranks : size[q] = Sizes + 1
      BY NotBehind, Tunables DEF MainTypes, Places
    <2>2. \A v \in Workers : pc[v] = "none"
      BY <2>1, Pairs DEF Places, AtWork
    <2>3. \A v \in Workers : SentAhead(v) = 0
      BY <2>2 DEF SentAhead
    <2>4. \A v \in Workers : sends[v] = 0 /\ posted[v] = 0 /\ rcq[v] = 0
      <3>1. ASSUME NEW v \in Workers PROVE sends[v] + scq[v] = 0 /\ posted[v] + rcq[v] = 0
        <4>1. pc[v] # "waits" /\ pc[v] # "waitr"
          BY <2>2
        <4> QED
          BY <4>1 DEF OneOutstanding
      <3> QED
        BY <3>1 DEF EpTypes
    <2>5. \A v \in Workers : rounds[v] + net[v] = rounds[Peer(v)]
      BY <2>3, <2>4, Pairs DEF Conserved, EpTypes
    <2>6. rounds[w] + net[w] = rounds[Peer(w)] /\ rounds[Peer(w)] + net[Peer(w)] = rounds[w]
      BY <2>5, Pairs
    <2>7. net[w] = 0
      BY <2>6, Pairs DEF EpTypes
    <2> QED
      BY <2>2, <2>4, <2>7
  <1>4. IInv => WorkersInStep
    BY <1>1, <1>2, <1>3 DEF WorkersInStep, IInv, EpInv
  <1> QED
    BY <1>4, Invariance, PTL
=============================================================================
