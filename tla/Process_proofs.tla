-------------------------- MODULE Process_proofs --------------------------
(***************************************************************************)
(* What works within one process, or one host: the parts of the tests that *)
(* do not communicate.                                                     *)
(*                                                                         *)
(* The threads of a process share the thread barrier of                    *)
(* include/ct_tbarrier.h and the clock of include/ct_utils.h, as           *)
(* lock_tests.c uses it.  Both are right for any number of threads, any    *)
(* number of calls of the barrier and any number of tests.                 *)
(*                                                                         *)
(* The barrier: the provers have no induction on call numbers to do; IInv  *)
(* of TBarrier speaks of the current call only, through released, and      *)
(* cardinalities matter in one place, the Join that finds the counter one  *)
(* short of njoiners.                                                      *)
(*                                                                         *)
(* The clock: it does its job although the flag that guards the            *)
(* initialisation of its lock is not guarded itself.  The proof shows why: *)
(* the lock plays no part in it.  What keeps the clock right is that       *)
(* clock_started is only set after start, and only cleared in              *)
(* ct_stop_clock, when every thread of the test has been joined.           *)
(*                                                                         *)
(* The buffered output of common/ct_print_utils.c loses no byte and writes *)
(* none twice, whatever the limits of the buffers and the writes that      *)
(* fail, as long as the counter of the table buffer is right.  It is if    *)
(* all lines have one length of which the size is a multiple; the counter  *)
(* of the csv buffer always stays within its size.                         *)
(*                                                                         *)
(* scripts/run_cray_tests.py reports exactly what its processes have done, *)
(* for any number of tests, any max_jobs, any timeouts and any amount of   *)
(* output, with and without a launcher.                                    *)
(***************************************************************************)
EXTENDS TBarrier, LockTests, PrintUtils, Runner, FiniteSetTheorems, SequenceTheorems, TLAPS

-----------------------------------------------------------------------------
(* The thread barrier                                                      *)

(* Slots alternate: the slot after Current is the other one.               *)
LEMMA Parity ==
  ASSUME NEW n \in Nat
  PROVE  /\ n % 2 \in Slots
         /\ (n + 1) % 2 = 1 - (n % 2)
  BY DEF Slots

(* The counters and njoiners are natural numbers.                          *)
LEMMA NJoiners == njoiners \in Nat \ {0}
  <1>1. Cardinality(Threads) \in Nat
    BY ThreadsAssumption, FS_CardinalityType
  <1>2. Cardinality(Threads) # 0
    BY ThreadsAssumption, FS_EmptySet
  <1> QED
    BY <1>1, <1>2 DEF njoiners

(* The joiners of the current call are a finite set, counted by a natural  *)
(* number that reaches njoiners only when everyone has joined.             *)
LEMMA JoinedFinite ==
  /\ IsFiniteSet(Joined)
  /\ Cardinality(Joined) \in 0..njoiners
  /\ Cardinality(Joined) = njoiners => Joined = Threads
  BY ThreadsAssumption, FS_Subset, FS_CardinalityType DEF Joined, njoiners

(* ct_tbarrier_init establishes the invariant.                             *)
LEMMA InitInv == Init => IInv
  <1> SUFFICES ASSUME Init PROVE IInv
    OBVIOUS
  <1>1. TypeOK
    BY NJoiners, MaxCallsAssumption DEF Init, TypeOK, Slots
  <1>2. \A t \in Threads : ThreadInSync(t)
    BY DEF Init, ThreadInSync, Current, Slots
  <1>3. LastIsAlone
    BY DEF Init, LastIsAlone
  <1>4. CountersExact
    <2>1. Joined = {}
      BY DEF Init, Joined
    <2>2. Cardinality(Joined) = 0
      BY <2>1, FS_EmptySet
    <2> QED
      BY <2>2 DEF Init, CountersExact, Current, Slots
  <1> QED
    BY <1>1, <1>2, <1>3, <1>4 DEF IInv

(* A thread that joins is counted once; if the count reaches njoiners it   *)
(* is the only one to be told to reset and toggle.                         *)
LEMMA JoinInv ==
  ASSUME IInv, NEW t \in Threads, Join(t)
  PROVE  IInv'
  <1> USE DEF IInv
  <1>1. /\ left[t] = released /\ slot[t] = Current /\ entered[t] = released
        /\ Current \in Slots /\ Current' = Current
    BY Parity DEF Join, ThreadInSync, Current, TypeOK
  <1>2. \A u \in Threads : pc[u] \notin {"reset", "toggle"}
    BY <1>1 DEF LastIsAlone, Joined, Join, TypeOK
  <1>3. counter[Current] = Cardinality(Joined)
    BY <1>2 DEF CountersExact
  <1>4. t \notin Joined /\ Joined' = Joined \cup {t}
    BY <1>1 DEF Joined, Join, TypeOK
  <1>5. IsFiniteSet(Joined') /\ Cardinality(Joined') = Cardinality(Joined) + 1
    BY <1>4, JoinedFinite, FS_AddElement
  <1>6. Cardinality(Joined') <= njoiners
    BY <1>5, ThreadsAssumption, FS_Subset DEF Joined, njoiners
  <1>7. Cardinality(Joined') = njoiners => Joined' = Threads
    BY <1>5, ThreadsAssumption, FS_Subset DEF Joined, njoiners
  <1>8. TypeOK'
    BY <1>1, <1>3, <1>5, <1>6, NJoiners, JoinedFinite, MaxCallsAssumption
      DEF TypeOK, Join, Slots
  <1>9. ASSUME NEW u \in Threads PROVE ThreadInSync(u)'
    BY <1>1 DEF ThreadInSync, Join, TypeOK, Current
  <1>10. LastIsAlone'
    <2> SUFFICES ASSUME NEW v \in Threads, pc'[v] \in {"reset", "toggle"}
                 PROVE  Joined' = Threads /\ \A u \in Threads \ {v} : pc'[u] = "spin"
      BY DEF LastIsAlone
    <2>1. v = t /\ LastJoiner(counter[Current])
      BY <1>1, <1>2 DEF Join, TypeOK
    <2>2. Joined' = Threads
      BY <2>1, <1>3, <1>5, <1>7, JoinedFinite DEF LastJoiner
    <2>3. ASSUME NEW u \in Threads \ {t} PROVE pc[u] = "spin"
      BY <2>2, <1>2, <1>4 DEF ThreadInSync, Joined, TypeOK
    <2> QED
      BY <2>1, <2>2, <2>3 DEF Join, TypeOK
  <1>11. CountersExact'
    <2>1. \A u \in Threads : pc'[u] # "toggle"
      BY <1>2 DEF Join, TypeOK
    <2>2. counter'[Current] = Cardinality(Joined)+ 1
      BY <1>1, <1>3 DEF Join, TypeOK
    <2>3. counter'[1 - Current] = 0
      BY <1>1 DEF Join, TypeOK, CountersExact, Slots
    <2> QED
      BY <1>1, <1>5, <2>1, <2>2, <2>3 DEF CountersExact
  <1> QED
    BY <1>8, <1>9, <1>10, <1>11

(* The last joiner's reset disturbs nobody: the others only spin.          *)
LEMMA ResetInv ==
  ASSUME IInv, NEW t \in Threads, Reset(t)
  PROVE  IInv'
  <1> USE DEF IInv
  <1>1. slot[t] = Current /\ Current \in Slots /\ Current' = Current /\ Joined' = Joined
    BY Parity DEF Reset, ThreadInSync, Current, TypeOK, Joined
  <1>2. TypeOK'
    BY NJoiners DEF TypeOK, Reset
  <1>3. ASSUME NEW u \in Threads PROVE ThreadInSync(u)'
    BY <1>1 DEF ThreadInSync, Reset, TypeOK, Current
  <1>4. LastIsAlone'
    BY <1>1 DEF LastIsAlone, Reset, TypeOK
  <1>5. CountersExact'
    BY <1>1 DEF CountersExact, Reset, TypeOK, Slots
  <1> QED
    BY <1>2, <1>3, <1>4, <1>5

(* Flipping phase and slot keeps them bits.                                *)
LEMMA ReturnType ==
  ASSUME TypeOK, NEW t \in Threads, Return(t)
  PROVE  phase' \in [Threads -> [Slots -> {0, 1}]] /\ slot' \in [Threads -> Slots]
  <1>1. slot[t] \in Slots /\ 1 - slot[t] \in Slots
    BY DEF TypeOK, Slots
  <1>2. phase[t] \in [Slots -> {0, 1}]
    BY DEF TypeOK
  <1>3. [phase[t] EXCEPT ![slot[t]] = 1 - @] \in [Slots -> {0, 1}]
    BY <1>1, <1>2
  <1>4. phase' = [phase EXCEPT ![t] = [phase[t] EXCEPT ![slot[t]] = 1 - @]]
    BY DEF Return, TypeOK
  <1>5. phase' \in [Threads -> [Slots -> {0, 1}]]
    BY <1>3, <1>4 DEF TypeOK
  <1> QED
    BY <1>1, <1>5 DEF TypeOK, Return

(* The toggle ends the current call: every other thread is a spinner that  *)
(* is now one call behind, and the other slot is ready for use.            *)
LEMMA ToggleInv ==
  ASSUME IInv, NEW t \in Threads, Toggle(t)
  PROVE  IInv'
  <1> USE DEF IInv
  <1>1. /\ Current \in Slots /\ Current' = 1 - Current
        /\ released \in Nat /\ released' = released + 1
    <2>1. released \in Nat /\ released' = released + 1
      BY DEF Toggle, TypeOK
    <2> QED
      BY <2>1, Parity DEF Current
  <1>2. \A u \in Threads : entered[u] = released + 1
    BY DEF LastIsAlone, Joined, Toggle
  <1>3. \A u \in Threads : left[u] = released /\ slot[u] = Current /\ phase[u] = signal
    BY <1>1, <1>2 DEF ThreadInSync, TypeOK
  <1>4. \A u \in Threads \ {t} : pc[u] = "spin"
    BY DEF LastIsAlone, Toggle
  <1>5. TypeOK'
    <2>1. phase' \in [Threads -> [Slots -> {0, 1}]] /\ slot' \in [Threads -> Slots]
      BY ReturnType DEF IInv, Toggle
    <2>2. signal' \in [Slots -> {0, 1}]
      BY DEF TypeOK, Toggle, Slots
    <2>3. left' \in [Threads -> 0..MaxCalls] /\ released' \in 0..MaxCalls
      BY <1>1, <1>2, <1>3, MaxCallsAssumption DEF TypeOK, Toggle, Return
    <2> QED
      BY <2>1, <2>2, <2>3 DEF TypeOK, Toggle, Return
  <1>6. ASSUME NEW u \in Threads PROVE ThreadInSync(u)'
    <2>1. CASE u = t
      BY <2>1, <1>1, <1>2, <1>3 DEF ThreadInSync, Toggle, Return, TypeOK, Slots
    <2>2. CASE u # t
      BY <2>2, <1>1, <1>2, <1>3, <1>4 DEF ThreadInSync, Toggle, Return, TypeOK, Slots
    <2> QED
      BY <2>1, <2>2
  <1>7. \A u \in Threads : pc'[u] \in {"out", "spin"}
    BY <1>4 DEF Toggle, Return, TypeOK
  <1>8. LastIsAlone'
    BY <1>7 DEF LastIsAlone
  <1>9. CountersExact'
    <2>1. Joined' = {}
      BY <1>1, <1>2 DEF Joined, Toggle, Return, TypeOK
    <2>2. Cardinality(Joined') = 0
      BY <2>1, FS_EmptySet
    <2>3. counter[Current] = 0 /\ counter[1 - Current] = 0 /\ counter' = counter
      BY DEF CountersExact, Toggle
    <2> QED
      BY <1>1, <1>7, <2>2, <2>3 DEF CountersExact, Slots
  <1> QED
    BY <1>5, <1>6, <1>8, <1>9

(* A thread whose spin ends was one call behind and catches up.            *)
LEMMA SpinBehind ==
  ASSUME IInv, NEW t \in Threads, Spin(t)
  PROVE  /\ left[t] + 1 = released /\ slot[t] = 1 - Current /\ entered[t] = released
         /\ phase[t][Current] = signal[Current]
         /\ phase[t][1 - Current] = 1 - signal[1 - Current]
  BY DEF IInv, ThreadInSync, Spin, TypeOK

(* A thread that finds itself released changes only what is its own.         *)
LEMMA SpinInv ==
  ASSUME IInv, NEW t \in Threads, Spin(t)
  PROVE  IInv'
  <1> USE DEF IInv
  <1>1. Current \in Slots /\ Current' = Current /\ Joined' = Joined /\ released \in Nat
    BY Parity DEF Spin, Current, TypeOK, Joined
  <1>2. TypeOK'
    <2>1. phase' \in [Threads -> [Slots -> {0, 1}]] /\ slot' \in [Threads -> Slots]
      BY ReturnType DEF IInv, Spin
    <2>2. left' \in [Threads -> 0..MaxCalls]
      BY SpinBehind, MaxCallsAssumption DEF TypeOK, Spin, Return
    <2> QED
      BY <2>1, <2>2 DEF TypeOK, Spin, Return
  <1>3. ASSUME NEW u \in Threads PROVE ThreadInSync(u)'
    <2>1. CASE u = t
      <3>1. phase'[t] = [phase[t] EXCEPT ![1 - Current] = 1 - @]
        BY SpinBehind DEF Spin, Return, TypeOK
      <3>2. \A s \in Slots : s = Current \/ s = 1 - Current
        BY <1>1 DEF Slots
      <3>3. \A s \in Slots : phase'[t][s] = signal[s]
        BY <3>1, <3>2, SpinBehind, <1>1 DEF TypeOK, Slots
      <3>4. phase'[t] = signal
        BY <1>2, <3>3 DEF TypeOK, Spin
      <3> QED
        BY <2>1, <3>4, SpinBehind, <1>1 DEF ThreadInSync, Spin, Return, TypeOK, Slots
    <2>2. CASE u # t
      BY <2>2, <1>1 DEF ThreadInSync, Spin, Return, TypeOK
    <2> QED
      BY <2>1, <2>2
  <1>4. t \notin Joined
    BY SpinBehind, <1>1 DEF Joined, TypeOK
  <1>5. LastIsAlone'
    BY <1>1, <1>4 DEF LastIsAlone, Spin, Return, TypeOK
  <1>6. CountersExact'
    <2>1. (\E u \in Threads : pc'[u] = "toggle") <=> (\E u \in Threads : pc[u] = "toggle")
      BY DEF Spin, Return, TypeOK
    <2> QED
      BY <1>1, <2>1 DEF CountersExact, Spin
  <1> QED
    BY <1>2, <1>3, <1>5, <1>6

(* Nor does doing nothing.                                                 *)
LEMMA StutterInv ==
  ASSUME IInv, UNCHANGED vars
  PROVE  IInv'
  BY DEF IInv, vars, TypeOK, ThreadInSync, LastIsAlone, CountersExact, Joined, Current

(* Type correctness and the private/shared agreement of ct_tbarrier.h      *)
(* hold in every reachable state, for every number of threads.             *)
THEOREM Invariance == Safe => []IInv
  <1>1. IInv /\ [Next]_vars => IInv'
    <2> SUFFICES ASSUME IInv, [Next]_vars PROVE IInv'
      OBVIOUS
    <2>1. ASSUME NEW t \in Threads, Join(t) \/ Reset(t) \/ Toggle(t) \/ Spin(t)
          PROVE  IInv'
      BY <2>1, JoinInv, ResetInv, ToggleInv, SpinInv
    <2> QED
      BY <2>1, StutterInv DEF Next
  <1> QED
    BY InitInv, <1>1, PTL DEF Safe

(* Who has left a call was released from it, and so everyone had entered.  *)
LEMMA InvImpliesNoEarlyReturn == IInv => NoEarlyReturn
  BY DEF IInv, TypeOK, ThreadInSync, NoEarlyReturn

(* No thread returns from a call of ct_tbarrier that some thread has not   *)
(* begun.                                                                  *)
THEOREM BarrierSafety == Safe => []NoEarlyReturn
  BY Invariance, InvImpliesNoEarlyReturn, PTL

(* Every step of the spin barrier is a step of the abstract barrier or     *)
(* invisible to it: ct_tbarrier implements Barrier (its safety part; the   *)
(* liveness part is model-checked as ImplementsBarrier).                   *)
THEOREM Refinement == Safe => Abstract!Safe
  <1>1. Init => Abstract!Init
    BY DEF Init, Abstract!Init
  <1>2. IInv /\ [Next]_vars => [Abstract!Next]_(Abstract!vars)
    <2> SUFFICES ASSUME IInv, [Next]_vars
                 PROVE  Abstract!Next \/ UNCHANGED <<entered, left>>
      BY DEF Abstract!vars
    <2>1. ASSUME NEW t \in Threads, Join(t)
          PROVE  Abstract!Enter(t)
      BY <2>1 DEF Join, IInv, ThreadInSync, Abstract!Enter
    <2>2. ASSUME NEW t \in Threads, Toggle(t)
          PROVE  Abstract!Leave(t)
      <3>1. \A u \in Threads : entered[u] = released + 1
        BY <2>2 DEF IInv, LastIsAlone, Joined, Toggle
      <3>2. left[t] = released
        BY <2>2, <3>1 DEF IInv, ThreadInSync, Toggle, TypeOK
      <3> QED
        BY <2>2, <3>1, <3>2 DEF Toggle, Return, Abstract!Leave, IInv, TypeOK
    <2>3. ASSUME NEW t \in Threads, Spin(t)
          PROVE  Abstract!Leave(t)
      <3>1. left[t] + 1 = released /\ entered[t] = released
        BY <2>3, SpinBehind
      <3>2. \A u \in Threads : entered[t] <= entered[u]
        BY <3>1 DEF IInv, ThreadInSync, TypeOK
      <3> QED
        BY <2>3, <3>1, <3>2 DEF Spin, Return, Abstract!Leave, IInv, TypeOK
    <2>4. ASSUME NEW t \in Threads, Reset(t)
          PROVE  UNCHANGED <<entered, left>>
      BY <2>4 DEF Reset
    <2> QED
      BY <2>1, <2>2, <2>3, <2>4 DEF Next, vars, Abstract!Next
  <1> QED
    BY <1>1, <1>2, Invariance, PTL DEF Safe, Abstract!Safe

-----------------------------------------------------------------------------
(* The clock                                                               *)

(* A running clock runs for the test main is at                            *)
StartIsOfTest == clock_started => start = test

(* Who has been through ct_start_clock leaves the clock running.           *)
ClockLeftRunning ==
  \A t \in Threads : pc[t] \in {"unlock", "work", "ret"} /\ mpc # "done" => clock_started

NobodyLeft == mpc = "done" => \A t \in Threads : pc[t] = "ret"

ClockInv == TestsTypeOK /\ StartIsOfTest /\ ClockLeftRunning /\ NobodyLeft /\ TimesOfTest

(* The clock has not been started before the first test.                   *)
LEMMA ClockInitInv ==
  ASSUME TestsInit
  PROVE  ClockInv
  <1>1. test \in 1 .. Tests /\ start \in 0 .. Tests /\ end \in 0 .. Tests
    BY TestsAssumption DEF TestsInit
  <1>2. {is_clock_lock_init, held, clock_started, late} \subseteq BOOLEAN
    BY Zenon DEF TestsInit
  <1>3. TestsTypeOK
    BY <1>1, <1>2, Zenon DEF TestsInit, TestsTypeOK
  <1>4. StartIsOfTest /\ ClockLeftRunning /\ NobodyLeft
    BY DEF TestsInit, StartIsOfTest, ClockLeftRunning, NobodyLeft
  <1>5. TimesOfTest
    BY DEF TestsInit, TimesOfTest
  <1> QED
    BY <1>3, <1>4, <1>5 DEF ClockInv

(* Creating a thread: it has not been near the clock.                      *)
LEMMA ClockSpawnInv ==
  ASSUME ClockInv, Spawn
  PROVE  ClockInv'
  <1> USE DEF ClockInv
  <1>1. PICK t \in Threads :
          /\ pc[t] = "none" /\ pc' = [pc EXCEPT ![t] = "enter"]
          /\ mpc' \in {"join", "spawn"}
    BY DEF Spawn, Goto
  <1>2. UNCHANGED <<test, waiting, clockVars, late>>
    BY DEF Spawn
  <1>3. TestsTypeOK'
    BY <1>1, <1>2 DEF TestsTypeOK, clockVars
  <1>4. pc'[t] = "enter"
    BY <1>1 DEF TestsTypeOK
  <1>5. StartIsOfTest' /\ ClockLeftRunning' /\ NobodyLeft'
    BY <1>1, <1>2 DEF TestsTypeOK, StartIsOfTest, ClockLeftRunning, NobodyLeft,
                      clockVars, Spawn
  <1>6. TimesOfTest'
    BY <1>1, <1>4 DEF TimesOfTest
  <1> QED
    BY <1>3, <1>5, <1>6

(* A thread that is anywhere but in its last place keeps main from being   *)
(* done, and keeps doing so.                                               *)
LEMMA ClockThreadInv ==
  ASSUME ClockInv, NEW t \in Threads, ThreadStep(t)
  PROVE  ClockInv'
  <1> USE DEF ClockInv
  <1>1. /\ pc[t] \notin {"none", "ret"} /\ pc'[t] # "none"
        /\ pc' = [pc EXCEPT ![t] = pc'[t]]
        /\ UNCHANGED <<mpc, test, end>>
    BY DEF TestsTypeOK, ThreadStep, Goto, EnterBarrier, LeaveBarrier,
           CheckInit, InitLock, SetFlag, Lock, TestStarted,
           SetStart, Unlock, Work, clockVars
  <1>2. mpc # "done"
    BY <1>1 DEF NobodyLeft
  <1>3. TestsTypeOK'
    <2>1. pc' \in [Threads -> {"none", "enter", "barrier", "check", "init", "flag", "lock",
                               "test", "set", "unlock", "work", "ret"}]
      BY DEF TestsTypeOK, ThreadStep, Goto, EnterBarrier, LeaveBarrier,
             CheckInit, InitLock, SetFlag, Lock, TestStarted,
             SetStart, Unlock, Work, clockVars
    <2>2. waiting' \subseteq Threads /\ start' \in 0 .. Tests
      BY DEF TestsTypeOK, ThreadStep, EnterBarrier, LeaveBarrier,
             CheckInit, InitLock, SetFlag, Lock, TestStarted,
             SetStart, Unlock, Work, clockVars
    <2>3. {is_clock_lock_init, held, clock_started, late}' \subseteq BOOLEAN
      BY Zenon DEF TestsTypeOK, ThreadStep, EnterBarrier, LeaveBarrier,
                   CheckInit, InitLock, SetFlag, Lock,
                   TestStarted, SetStart, Unlock, Work, clockVars
    <2> QED
      BY <1>1, <2>1, <2>2, <2>3 DEF TestsTypeOK
  <1>4. StartIsOfTest' /\ ClockLeftRunning'
    <2>1. CASE SetStart(t)
      BY <2>1 DEF SetStart, StartIsOfTest, ClockLeftRunning
    <2>2. CASE TestStarted(t)
      BY <2>2 DEF TestStarted, Goto, TestsTypeOK, StartIsOfTest, ClockLeftRunning,
                  clockVars
    <2>3. CASE EnterBarrier(t) \/ LeaveBarrier(t) \/ CheckInit(t)
               \/ InitLock(t) \/ SetFlag(t) \/ Lock(t) \/ Unlock(t) \/ Work(t)
      <3>1. /\ UNCHANGED <<clock_started, start>>
            /\ pc'[t] \in {"unlock", "work", "ret"} => pc[t] \in {"unlock", "work", "ret"}
        BY <2>3 DEF TestsTypeOK, Goto, EnterBarrier, LeaveBarrier,
                    CheckInit, InitLock, SetFlag, Lock, Unlock,
                    Work, clockVars
      <3> QED
        BY <1>1, <3>1 DEF StartIsOfTest, ClockLeftRunning, TestsTypeOK
    <2> QED
      BY <2>1, <2>2, <2>3 DEF ThreadStep
  <1>5. NobodyLeft' /\ TimesOfTest'
    BY <1>1, <1>2 DEF NobodyLeft, TimesOfTest
  <1> QED
    BY <1>3, <1>4, <1>5

(* ct_stop_clock, after the last thread: the clock ran, for this test.     *)
LEMMA ClockJoinInv ==
  ASSUME ClockInv, JoinThreads
  PROVE  ClockInv'
  <1> USE DEF ClockInv
  <1>1. clock_started /\ start = test
    BY ThreadsAssumption DEF JoinThreads, ClockLeftRunning, StartIsOfTest
  <1>2. TestsTypeOK'
    <2>1. {is_clock_lock_init, held, clock_started, late}' \subseteq BOOLEAN
      <3>1. held' = held /\ late' = late /\ clock_started' = FALSE /\ is_clock_lock_init' = FALSE
        BY DEF JoinThreads
      <3> QED
        BY <3>1, Zenon DEF TestsTypeOK
    <2>2. /\ mpc' \in {"spawn", "join", "done"} /\ test' \in 1 .. Tests
          /\ waiting' \subseteq Threads /\ start' \in 0 .. Tests /\ end' \in 0 .. Tests
      BY <1>1, TestsAssumption DEF JoinThreads, TestsTypeOK
    <2>3. pc' \in [Threads -> {"none", "enter", "barrier", "check", "init", "flag", "lock",
                               "test", "set", "unlock", "work", "ret"}]
      BY DEF JoinThreads, TestsTypeOK
    <2> QED
      BY <2>1, <2>2, <2>3 DEF TestsTypeOK
  <1>3. StartIsOfTest' /\ ClockLeftRunning' /\ NobodyLeft'
    BY DEF JoinThreads, StartIsOfTest, ClockLeftRunning, NobodyLeft
  <1>4. TimesOfTest'
    BY <1>1, TestsAssumption DEF JoinThreads, TestsTypeOK, TimesOfTest
  <1> QED
    BY <1>2, <1>3, <1>4

(* The inductive invariant holds: the clock's flag, its times, its lock and *)
(* the places of main and of the threads agree.                             *)
THEOREM ClockInvariance == TestsSpec => []ClockInv
  <1>1. ClockInv /\ [TestsNext]_testVars => ClockInv'
    <2> SUFFICES ASSUME ClockInv, [TestsNext]_testVars PROVE ClockInv'
      OBVIOUS
    <2>1. CASE Spawn
      BY <2>1, ClockSpawnInv
    <2>2. CASE JoinThreads
      BY <2>2, ClockJoinInv
    <2>3. ASSUME NEW t \in Threads, ThreadStep(t) PROVE ClockInv'
      BY <2>3, ClockThreadInv
    <2>4. CASE UNCHANGED testVars
      BY <2>4 DEF testVars, clockVars, ClockInv, TestsTypeOK, StartIsOfTest,
                  ClockLeftRunning, NobodyLeft, TimesOfTest
    <2> QED
      BY <2>1, <2>2, <2>3, <2>4 DEF TestsNext
  <1> QED
    BY ClockInitInv, <1>1, PTL DEF TestsSpec

(* No thread of any test works while the clock stands, or while it runs    *)
(* for another test.                                                       *)
THEOREM ClockSafety == TestsSpec => []ClockRunsAtWork
  <1>1. ClockInv => ClockRunsAtWork
    BY DEF ClockInv, ClockRunsAtWork, StartIsOfTest, ClockLeftRunning
  <1> QED
    BY <1>1, ClockInvariance, PTL

(* What main prints after each test is the time of that test.              *)
THEOREM TimesCorrect == TestsSpec => []TimesOfTest
  <1>1. ClockInv => TimesOfTest
    BY DEF ClockInv
  <1> QED
    BY <1>1, ClockInvariance, PTL

-----------------------------------------------------------------------------
(* Buffered output                                                         *)

Ended == {"done", "abort", "undefined", "null"}

Numbers ==
  /\ tbuf_sz \in Nat /\ tbuf_cnt \in Nat /\ cbuf_sz \in Nat /\ cbuf_cnt \in Nat
  /\ rest \in Nat /\ added \in Nat /\ csv_added \in Nat /\ stdout \in Nat /\ csv_out \in Nat
  /\ printed \in Nat /\ csv_printed \in Nat
  /\ calls \in 0 .. CallLimit /\ fails \in 0 .. MaxFails

Labels ==
  /\ call \in {"idle", "format", "convert", "fini", "fini_csv"} \cup Ended
  /\ ending \in {"done", "abort"}
  /\ csv_path \in Paths /\ csv_fd \in {-1, 0, 3}
  /\ tbuf \in {"live", "freed"} /\ cbuf \in {"live", "freed"}
  /\ line \in Lines \cup {NoLine}
  /\ call \in {"format", "convert"} => line \in Lines

(* The buffers have been allocated, unless ct_init_info did not get to it. *)
Allocated == {tbuf_sz, cbuf_sz} \subseteq InitLen .. MaxLen
Unallocated ==
  /\ tbuf_sz = 0 /\ cbuf_sz = 0 /\ tbuf_cnt = 0 /\ cbuf_cnt = 0
  /\ call = "null" \/ (call \in {"fini", "fini_csv", "abort"} /\ ending = "abort")
Sizes == Allocated \/ Unallocated

(* A buffer is freed by ct_fini_info, which writes it first; bytes of a    *)
(* line wait outside the csv buffer only while it is converted.            *)
Frees ==
  /\ call \notin {"fini_csv"} \cup Ended => tbuf = "live"
  /\ call \notin Ended => cbuf = "live"
  /\ call \in {"fini_csv", "done", "abort"} => Pending(tbuf, tbuf_cnt) = 0
  /\ call \in {"idle", "format"} => rest = 0

(* What the buffers hold counts only as long as the counter of the table   *)
(* buffer is right; nothing happens once it is not.                        *)
Bytes ==
  IF TbufValid
    THEN EachByteOnce
    ELSE call \in {"idle", "undefined"}

InfoInv == Numbers /\ Labels /\ Sizes /\ CbufValid /\ Frees /\ Bytes

LEMMA InvTypes == InfoInv => InfoTypeOK
  BY BufferAssumption DEF InfoInv, InfoTypeOK, Numbers, Labels, Sizes, Allocated, Unallocated, Ended

LEMMA InfoInitInv == InfoInit => InfoInv
  BY BufferAssumption
    DEF InfoInit, InfoInv, Numbers, Labels, Sizes, Allocated, Unallocated, CbufValid, Frees,
        Bytes, TbufValid, TbufBytes, EachByteOnce, Pending, Ended

(* What the lengths of a line are                                          *)
LEMMA LineLengths ==
  ASSUME InfoInv, call \in {"format", "convert"}
  PROVE  line \in Lines /\ line.n \in Nat \ {0} /\ line.m \in 1 .. line.n
  BY LinesAssumption DEF InfoInv, Labels

LEMMA AddInv ==
  ASSUME InfoInv, AddLine \/ AddStep
  PROVE  InfoInv'
  <1> USE BufferAssumption DEF InfoInv, Numbers, Labels, Sizes, Allocated, Unallocated, CbufValid, Frees,
          Bytes, TbufValid, TbufBytes, EachByteOnce, Pending, Ended, tVars, cVars, prVars, outVars, endVars
  <1>1. CASE AddLine
    BY <1>1 DEF AddLine
  <1>2. CASE GrowTbuf
    BY <1>2 DEF GrowTbuf, Grow
  <1>3. CASE FlushTbuf
    BY <1>3 DEF FlushTbuf
  <1>4. CASE FlushTbufFails
    BY <1>4 DEF FlushTbufFails, WriteFails, CallFini
  <1>5. CASE TooLarge
    BY <1>5 DEF TooLarge, CallFini
  <1>6. CASE Formatted
    BY <1>6, LineLengths DEF Formatted
  <1>7. CASE Converted
    BY <1>7 DEF Converted, Fits
  <1>8. CASE GrowCbuf
    BY <1>8 DEF GrowCbuf, Grow, Fits
  <1>9. CASE FlushCbuf
    BY <1>9 DEF FlushCbuf, Fits
  <1>10. CASE FlushCbufFails
    BY <1>10 DEF FlushCbufFails, WriteFails, CallFini, Fits
  <1> QED
    BY <1>1, <1>2, <1>3, <1>4, <1>5, <1>6, <1>7, <1>8, <1>9, <1>10 DEF AddStep

LEMMA OutInv ==
  ASSUME InfoInv, PrintData \/ Fini \/ FiniStep
  PROVE  InfoInv'
  <1> USE BufferAssumption DEF InfoInv, Numbers, Labels, Sizes, Allocated, Unallocated, CbufValid, Frees,
          Bytes, TbufValid, TbufBytes, EachByteOnce, Pending, Ended, tVars, cVars, prVars, outVars, endVars
  <1>1. CASE PrintData
    BY <1>1 DEF PrintData, Output, CsvCnt, WriteFails, CallFini
  <1>2. CASE Fini
    BY <1>2 DEF Fini, CallFini
  <1>3. CASE FiniTable
    BY <1>3 DEF FiniTable
  <1>4. CASE FiniCsv
    BY <1>4 DEF FiniCsv
  <1>5. CASE FiniFails
    BY <1>5 DEF FiniFails, WriteFails, CallFini
  <1> QED
    BY <1>1, <1>2, <1>3, <1>4, <1>5 DEF FiniStep

LEMMA InfoNextInv == InfoInv /\ [InfoNext]_infoVars => InfoInv'
  <1>1. InfoInv /\ UNCHANGED infoVars => InfoInv'
    BY DEF infoVars, InfoInv, Numbers, Labels, Sizes, Allocated, Unallocated, CbufValid, Frees,
           Bytes, TbufValid, TbufBytes, EachByteOnce, Pending, Ended, tVars, cVars, prVars, outVars, endVars
  <1> QED
    BY <1>1, AddInv, OutInv DEF InfoNext

(* The inductive invariant holds: what is pending is what the buffers hold, *)
(* and it is empty after an orderly end.                                    *)
THEOREM InfoInvariance == InfoSpec => []InfoInv
  BY InfoInitInv, InfoNextInv, PTL DEF InfoSpec

-----------------------------------------------------------------------------
(* Lines of n bytes each: the table buffer has room for b of them and      *)
(* holds a, always fewer than b, as the one that would fill it exactly is  *)
(* noticed.                                                                *)
WholeLines(n) ==
  \E a, b \in Nat : /\ tbuf_cnt = a * n /\ tbuf_sz = b * n
                    /\ a < b \/ (a = 0 /\ b = 0 /\ Unallocated)

LEMMA WholeLinesInv ==
  ASSUME NEW n \in Nat \ {0}, \A l \in Lines : l.n = n,
         InfoInv, [InfoNext]_infoVars, WholeLines(n)
  PROVE  WholeLines(n)'
  <1>1. PICK a \in Nat, b \in Nat :
          /\ tbuf_cnt = a * n /\ tbuf_sz = b * n
          /\ a < b \/ (a = 0 /\ b = 0 /\ Unallocated)
    BY DEF WholeLines
  <1>2. CASE GrowTbuf
    <2>1. a < b
      BY <1>1, <1>2, BufferAssumption DEF GrowTbuf, Unallocated
    <2>2. tbuf_cnt' = a * n /\ tbuf_sz' = (2 * b) * n /\ a < 2 * b /\ 2 * b \in Nat
      BY <1>1, <1>2, <2>1 DEF GrowTbuf, Grow
    <2> QED
      BY <2>2 DEF WholeLines
  <1>3. CASE FlushTbuf
    <2>1. tbuf_cnt' = 0 * n /\ tbuf_sz' = b * n /\ 0 < b
      BY <1>1, <1>3 DEF FlushTbuf, Unallocated
    <2> QED
      BY <2>1 DEF WholeLines
  <1>4. CASE Formatted
    <2>1. line.n = n /\ a < b
      BY <1>1, <1>4, LineLengths DEF Formatted, Unallocated
    <2>2. tbuf_cnt' = a * n + n /\ tbuf_sz' = b * n /\ b * n - a * n - n # 0
      BY <1>1, <1>4, <2>1 DEF Formatted, Exhausted
    <2>3. tbuf_cnt' = (a + 1) * n
      BY <2>2
    <2>4. a + 1 # b
      BY <2>2
    <2>5. a + 1 < b /\ a + 1 \in Nat
      BY <2>1, <2>4
    <2> QED
      BY <2>2, <2>3, <2>5 DEF WholeLines
  <1>5. CASE UNCHANGED <<tbuf_cnt, tbuf_sz>>
    <2>1. Unallocated => Unallocated'
      BY <1>5, InfoNextInv, BufferAssumption DEF Unallocated, Allocated, InfoInv, Sizes
    <2> QED
      BY <1>1, <1>5, <2>1 DEF WholeLines
  <1>6. GrowTbuf \/ FlushTbuf \/ Formatted \/ UNCHANGED <<tbuf_cnt, tbuf_sz>>
    BY DEF InfoNext, infoVars, tVars, AddStep, FiniStep, AddLine, FlushTbufFails, TooLarge, Converted,
           GrowCbuf, FlushCbuf, FlushCbufFails, PrintData, Fini, FiniTable, FiniCsv, FiniFails
  <1> QED
    BY <1>2, <1>3, <1>4, <1>5, <1>6

(* If all lines have one length, of which INIT_BUF_LEN is a multiple, both *)
(* counters stay within the sizes of their buffers, however these grow.    *)
THEOREM CountersWithinBuffers ==
  ASSUME NEW n \in Nat \ {0}, NEW m \in Nat, InitLen = m * n, \A l \in Lines : l.n = n
  PROVE  InfoSpec => []BuffersValid
  <1>1. InfoInit => WholeLines(n)
    <2> SUFFICES ASSUME InfoInit PROVE WholeLines(n)
      OBVIOUS
    <2>1. CASE call = "idle"
      <3>1. tbuf_cnt = 0 * n /\ tbuf_sz = m * n /\ 0 < m
        BY <2>1, BufferAssumption DEF InfoInit
      <3> QED
        BY <3>1 DEF WholeLines
    <2>2. CASE call # "idle"
      <3>1. tbuf_cnt = 0 * n /\ tbuf_sz = 0 * n /\ Unallocated
        BY <2>2 DEF InfoInit, Unallocated
      <3> QED
        BY <3>1 DEF WholeLines
    <2> QED
      BY <2>1, <2>2
  <1>2. InfoInv /\ [InfoNext]_infoVars /\ WholeLines(n) => WholeLines(n)'
    BY WholeLinesInv
  <1>3. InfoInv /\ WholeLines(n) => BuffersValid
    <2> SUFFICES ASSUME InfoInv, WholeLines(n) PROVE TbufValid
      BY InvTypes DEF InfoInv, BuffersValid
    <2>1. PICK a \in Nat, b \in Nat :
            /\ tbuf_cnt = a * n /\ tbuf_sz = b * n
            /\ a < b \/ (a = 0 /\ b = 0 /\ Unallocated)
      BY DEF WholeLines
    <2>2. a <= b
      BY <2>1
    <2>3. a * n <= b * n
      BY <2>2
    <2> QED
      BY <2>1, <2>3 DEF TbufValid
  <1> QED
    BY InfoInvariance, <1>1, <1>2, <1>3, PTL DEF InfoSpec

(* As long as no line has been too long for the table buffer, every byte   *)
(* of every accepted line is written once, or is still pending, and        *)
(* nothing is pending when the program ends in an orderly way.             *)
THEOREM NoByteLostSoFar == InfoSpec => [](TbufValid => EachByteOnce)
  <1>1. InfoInv => (TbufValid => EachByteOnce)
    BY DEF InfoInv, Bytes
  <1> QED
    BY <1>1, InfoInvariance, PTL

(* If all lines have one length, of which INIT_BUF_LEN is a multiple, no   *)
(* byte is ever lost.                                                      *)
THEOREM NoByteLost ==
  ASSUME NEW n \in Nat \ {0}, NEW m \in Nat, InitLen = m * n, \A l \in Lines : l.n = n
  PROVE  InfoSpec => []EachByteOnce
  <1>1. BuffersValid => TbufValid
    BY DEF BuffersValid
  <1>2. InfoSpec => []BuffersValid
    BY CountersWithinBuffers
  <1> QED
    BY <1>1, <1>2, NoByteLostSoFar, PTL
-----------------------------------------------------------------------------
(* The script                                                              *)


Statuses == {-1, 0, 1, 9}

Types ==
  /\ launcher \in {"None", "aprun"} /\ next \in 1 .. NumTests + 1
  /\ stage \in {"start", "now", "select", "scan", "communicate", "report", "end", "crash"}
  /\ plist \in Seq(TestNumbers) /\ k \in 1 .. Len(plist) + 1
  /\ state \in [TestNumbers -> {"none", "failed", "running", "exited"}]
  /\ remaining \in [TestNumbers -> Nat] /\ code \in [TestNumbers -> Statuses]
  /\ written \in [TestNumbers -> 0 .. MaxOutput] /\ pipe \in [TestNumbers -> 0 .. PipeSize]
  /\ done \in [TestNumbers -> BOOLEAN] /\ retvals \in [TestNumbers -> {-SIGALRM, 0, 1, 9}]
  /\ buffers \in [TestNumbers -> 0 .. MaxOutput]
  /\ closed \subseteq Started
  /\ overdue \subseteq TestNumbers /\ ready \subseteq TestNumbers /\ failed_tests \subseteq TestNumbers
  /\ reports \in Seq(TestNumbers \X Int \X Nat)

(* Output is read once, and a process that has exited has a status.        *)
Pipes ==
  \A t \in TestNumbers :
    /\ buffers[t] + pipe[t] = written[t]
    /\ state[t] = "exited" => code[t] # -1

(* The tests are taken in the order of the list: those that were started   *)
(* are reported or in the batch, the former before the latter.             *)
InOrder ==
  /\ \A t \in TestNumbers : state[t] = "none" <=> t >= next
  /\ \A i, j \in DOMAIN plist : i < j => plist[i] < plist[j]
  /\ \A i, j \in DOMAIN reports : i < j => reports[i][1] < reports[j][1]
  /\ \A i \in DOMAIN reports, j \in DOMAIN plist : reports[i][1] < plist[j]
  /\ Started = Reported \cup Batch

(* A process that has ended, has been read to the end and has been asked   *)
(* for its status: nothing will change of it.                              *)
Awaited(t) == state[t] = "exited" /\ pipe[t] = 0 /\ retvals[t] = code[t]

(* The two ways of awaiting a batch: done tells which processes have been  *)
(* read to their end, or k how many.                                       *)
Polled == launcher = "None" => \A t \in Batch : done[t] => Awaited(t)
InTurn ==
  /\ stage = "communicate" /\ launcher = "None" => \A t \in Batch : Awaited(t)
  /\ stage = "communicate" /\ launcher # "None" => \A j \in 1 .. k - 1 : Awaited(plist[j])
  /\ stage = "report" => \A t \in Batch : Awaited(t)

(* A batch that is being filled has room, and is left alone only when the  *)
(* last test of the list did not start.                                    *)
Filling ==
  /\ Len(plist) <= max_jobs
  /\ stage \in {"start", "end"} =>
       /\ Len(plist) < max_jobs
       /\ next > NumTests /\ plist # <<>> => state[NumTests] = "failed"
  /\ stage = "end" => next > NumTests

(* What has been printed                                                   *)
Printed ==
  /\ \A j \in DOMAIN reports :
       LET t == reports[j][1]
       IN  state[t] = "exited" /\ pipe[t] = 0 /\ reports[j][2] = code[t] /\ reports[j][3] = written[t]
  /\ failed_tests = {t \in Reported : code[t] # 0}

ScriptInv == Types /\ Pipes /\ InOrder /\ Polled /\ InTurn /\ Filling /\ Printed

LEMMA ScriptInitInv == ScriptInit => ScriptInv
  <1> SUFFICES ASSUME ScriptInit PROVE ScriptInv
    OBVIOUS
  <1>1. plist = <<>> /\ reports = <<>> /\ DOMAIN plist = {} /\ DOMAIN reports = {}
    BY DEF ScriptInit
  <1>2. Batch = {} /\ Reported = {} /\ Started = {}
    BY <1>1 DEF ScriptInit, Batch, ToSet, Reported, Started
  <1>3. Types
    BY <1>1, <1>2, RunnerAssumption DEF ScriptInit, Types, TestNumbers, Statuses
  <1>4. Pipes
    BY RunnerAssumption DEF ScriptInit, Pipes
  <1>5. InOrder
    BY <1>1, <1>2 DEF ScriptInit, InOrder, TestNumbers
  <1>6. Polled /\ InTurn
    BY <1>2 DEF ScriptInit, Polled, InTurn
  <1>7. Filling
    BY <1>1, RunnerAssumption DEF ScriptInit, Filling
  <1>8. Printed
    BY <1>1, <1>2 DEF ScriptInit, Printed
  <1> QED
    BY <1>3, <1>4, <1>5, <1>6, <1>7, <1>8 DEF ScriptInv

-----------------------------------------------------------------------------
(* The processes: what the script has read to the end, or printed, is of   *)
(* processes that have exited, and those do nothing any more.              *)

LEMMA ProcessInv ==
  ASSUME ScriptInv, NEW t \in TestNumbers, ProcessStep(t)
  PROVE  ScriptInv'
  <1> USE RunnerAssumption
  <1>1. /\ state[t] = "running"
        /\ UNCHANGED <<launcher, stage, next, plist, remaining, done, retvals, buffers, overdue, ready, k, reports, failed_tests>>
        /\ \/ /\ UNCHANGED <<state, code>> /\ written[t] < MaxOutput /\ pipe[t] < PipeSize
              /\ written' = [written EXCEPT ![t] = @ + 1] /\ pipe' = [pipe EXCEPT ![t] = @ + 1]
           \/ UNCHANGED <<state, code, written, pipe>>
           \/ /\ UNCHANGED <<written, pipe>>
              /\ state' = [state EXCEPT ![t] = "exited"]
              /\ \E status \in {0, 1, 9} : code' = [code EXCEPT ![t] = status]
    BY DEF ProcessStep, Write, CloseOutput, Exit, LauncherKills, script, procs, results, polling, outcome
  <1>2. /\ written' \in [TestNumbers -> 0 .. MaxOutput] /\ pipe' \in [TestNumbers -> 0 .. PipeSize]
        /\ state' \in [TestNumbers -> {"none", "failed", "running", "exited"}] /\ code' \in [TestNumbers -> Statuses]
        /\ \A u \in TestNumbers :
             /\ buffers[u] + pipe'[u] = written'[u] /\ pipe'[u] >= pipe[u]
             /\ state'[u] = "exited" => code'[u] # -1
             /\ state'[u] = state[u] \/ (state[u] = "running" /\ state'[u] = "exited")
             /\ state[u] # "running" => written'[u] = written[u] /\ pipe'[u] = pipe[u] /\ code'[u] = code[u]
    <2>1. CASE /\ UNCHANGED <<state, code>> /\ written[t] < MaxOutput /\ pipe[t] < PipeSize
               /\ written' = [written EXCEPT ![t] = @ + 1] /\ pipe' = [pipe EXCEPT ![t] = @ + 1]
      <3>1. written[t] + 1 \in 0 .. MaxOutput /\ pipe[t] + 1 \in 0 .. PipeSize
        BY <2>1 DEF ScriptInv, Types
      <3>2. written' \in [TestNumbers -> 0 .. MaxOutput] /\ pipe' \in [TestNumbers -> 0 .. PipeSize]
        BY <2>1, <3>1 DEF ScriptInv, Types
      <3>3. ASSUME NEW u \in TestNumbers
            PROVE  /\ buffers[u] + pipe'[u] = written'[u] /\ pipe'[u] >= pipe[u]
                   /\ state[u] # "running" => written'[u] = written[u] /\ pipe'[u] = pipe[u]
        <4>1. buffers[u] + pipe[u] = written[u] /\ {buffers[u], pipe[u], written[u]} \subseteq Int
          BY DEF ScriptInv, Types, Pipes
        <4>2. CASE u = t
          BY <1>1, <2>1, <4>1, <4>2 DEF ScriptInv, Types
        <4>3. CASE u # t
          BY <1>1, <2>1, <4>1, <4>3 DEF ScriptInv, Types
        <4> QED
          BY <4>2, <4>3
      <3> QED
        BY <2>1, <3>2, <3>3 DEF ScriptInv, Types, Pipes
    <2>2. CASE /\ UNCHANGED <<written, pipe>>
               /\ state' = [state EXCEPT ![t] = "exited"]
               /\ \E status \in {0, 1, 9} : code' = [code EXCEPT ![t] = status]
      <3>1. PICK status \in {0, 1, 9} : code' = [code EXCEPT ![t] = status]
        BY <2>2
      <3>2. \A u \in TestNumbers : buffers[u] + pipe'[u] = written'[u] /\ pipe'[u] >= pipe[u]
        BY <2>2 DEF ScriptInv, Types, Pipes
      <3>3. state' \in [TestNumbers -> {"none", "failed", "running", "exited"}] /\ code' \in [TestNumbers -> Statuses]
        BY <2>2, <3>1 DEF ScriptInv, Types, Statuses
      <3>4. ASSUME NEW u \in TestNumbers
            PROVE  /\ state'[u] = "exited" => code'[u] # -1
                   /\ state'[u] = state[u] \/ (state[u] = "running" /\ state'[u] = "exited")
                   /\ state[u] # "running" => code'[u] = code[u]
        <4>1. CASE u = t
          <5>1. state'[t] = "exited" /\ code'[t] = status
            BY <2>2, <3>1 DEF ScriptInv, Types
          <5>2. status # -1
            OBVIOUS
          <5> QED
            BY <1>1, <4>1, <5>1, <5>2
        <4>2. CASE u # t
          <5>1. state'[u] = state[u] /\ code'[u] = code[u]
            BY <2>2, <3>1, <4>2 DEF ScriptInv, Types
          <5> QED
            BY <5>1 DEF ScriptInv, Pipes
        <4> QED
          BY <4>1, <4>2
      <3> QED
        BY <2>2, <3>2, <3>3, <3>4 DEF ScriptInv, Types
    <2>3. CASE UNCHANGED <<state, code, written, pipe>>
      BY <2>3 DEF ScriptInv, Types, Pipes
    <2> QED
      BY <1>1, <2>1, <2>2, <2>3
  <1>3. Batch' = Batch /\ Reported' = Reported /\ Started' = Started
    BY <1>1, <1>2 DEF Batch, Reported, Started
  <1>4. Types' /\ Pipes'
    <2>1. t \in Started /\ (closed' = closed \/ closed' = closed \cup {t})
      BY <1>1 DEF Started, ProcessStep, Write, CloseOutput, Exit, LauncherKills
    <2>2. closed' \subseteq Started'
      BY <1>3, <2>1 DEF ScriptInv, Types
    <2> QED
      BY <1>1, <1>2, <2>2 DEF ScriptInv, Types, Pipes
  <1>5. InOrder'
    BY <1>1, <1>2, <1>3 DEF ScriptInv, InOrder
  <1>6. \A u \in TestNumbers : Awaited(u) => Awaited(u)'
    BY <1>1, <1>2 DEF Awaited
  <1>7. Polled'
    BY <1>1, <1>3, <1>6 DEF ScriptInv, Types, Polled, Started, InOrder
  <1>8. InTurn'
    <2>1. \A j \in DOMAIN plist : plist[j] \in TestNumbers
      BY DEF ScriptInv, Types
    <2>2. \A u \in Batch : u \in TestNumbers
      BY DEF ScriptInv, InOrder, Started
    <2>3. 1 .. Len(plist) = DOMAIN plist /\ k \in 1 .. Len(plist) + 1 /\ Len(plist) \in Nat
      BY DEF ScriptInv, Types
    <2>4. \A j \in 1 .. k - 1 : plist[j] \in TestNumbers
      BY <2>1, <2>3
    <2>5. (stage = "communicate" /\ launcher = "None") \/ stage = "report" => \A u \in Batch : Awaited(u)'
      BY <1>6, <2>2 DEF ScriptInv, InTurn
    <2>6. stage = "communicate" /\ launcher # "None" => \A j \in 1 .. k - 1 : Awaited(plist[j])'
      BY <1>1, <1>6, <2>4 DEF ScriptInv, InTurn, Awaited
    <2> QED
      BY <1>1, <1>3, <2>5, <2>6 DEF InTurn
  <1>9. Filling'
    <2>1. NumTests \in TestNumbers /\ (state[NumTests] = "failed" => state'[NumTests] = "failed")
      BY <1>2 DEF TestNumbers
    <2> QED
      BY <1>1, <2>1 DEF ScriptInv, Filling
  <1>10. Printed'
    <2>1. \A u \in TestNumbers : state[u] = "exited" =>
            state'[u] = state[u] /\ pipe'[u] = pipe[u] /\ code'[u] = code[u] /\ written'[u] = written[u]
      BY <1>2
    <2>2. \A j \in DOMAIN reports : reports[j][1] \in TestNumbers
      BY DEF ScriptInv, Types
    <2>3. \A u \in Reported : u \in TestNumbers /\ state[u] = "exited"
      BY <2>2 DEF ScriptInv, Printed, Reported
    <2>4. failed_tests' = {u \in Reported' : code'[u] # 0}
      BY <1>1, <1>3, <2>1, <2>3 DEF ScriptInv, Printed
    <2> QED
      BY <1>1, <2>1, <2>2, <2>4 DEF ScriptInv, Printed
  <1> QED
    BY <1>4, <1>5, <1>7, <1>8, <1>9, <1>10 DEF ScriptInv

LEMMA TickInv ==
  ASSUME ScriptInv, Tick
  PROVE  ScriptInv'
  <1>1. UNCHANGED <<launcher, stage, next, plist, state, code, written, pipe, closed, done, retvals, buffers, overdue, ready, k, reports, failed_tests>>
    BY DEF Tick, script, results, polling, outcome
  <1>2. remaining' \in [TestNumbers -> Nat]
    BY DEF Tick, ScriptInv, Types
  <1>3. Types'
    BY <1>1, <1>2 DEF ScriptInv, Types, Started
  <1>4. Batch' = Batch /\ Reported' = Reported /\ Started' = Started
    BY <1>1 DEF Batch, Reported, Started
  <1>5. Pipes' /\ InOrder'
    BY <1>1, <1>4 DEF ScriptInv, Pipes, InOrder
  <1>6. Polled' /\ InTurn'
    BY <1>1, <1>4 DEF ScriptInv, Polled, InTurn, Awaited
  <1>7. Filling' /\ Printed'
    BY <1>1, <1>4 DEF ScriptInv, Filling, Printed
  <1> QED
    BY <1>3, <1>5, <1>6, <1>7 DEF ScriptInv

-----------------------------------------------------------------------------
(* What the batch is made of                                               *)
LEMMA BatchFacts ==
  ASSUME ScriptInv
  PROVE  /\ DOMAIN plist = 1 .. Len(plist) /\ Len(plist) \in Nat
         /\ \A j \in DOMAIN plist : plist[j] \in TestNumbers /\ plist[j] \in Batch
         /\ \A t \in Batch : t \in TestNumbers /\ \E j \in 1 .. Len(plist) : t = plist[j]
  BY DEF ScriptInv, Types, Batch, ToSet

(* Steps that only move the script on                                      *)
LEMMA StillInv ==
  ASSUME ScriptInv, UNCHANGED <<launcher, plist, procs, results, outcome>>, UNCHANGED next
  PROVE  /\ Pipes' /\ InOrder' /\ Polled' /\ Printed'
         /\ Batch' = Batch /\ (\A t \in TestNumbers : Awaited(t)' = Awaited(t))
  <1>1. /\ UNCHANGED <<launcher, plist, state, remaining, code, written, pipe, closed>>
        /\ UNCHANGED <<done, retvals, buffers, reports, failed_tests>>
    BY DEF procs, results, outcome
  <1>2. Batch' = Batch /\ Reported' = Reported /\ Started' = Started
    BY <1>1 DEF Batch, Reported, Started
  <1> QED
    BY <1>1, <1>2 DEF ScriptInv, Pipes, InOrder, Polled, Printed, Awaited

LEMMA NowInv ==
  ASSUME ScriptInv, Now
  PROVE  ScriptInv'
  <1>1. UNCHANGED <<launcher, plist, procs, results, outcome>> /\ UNCHANGED next
    BY DEF Now
  <1>2. Types'
    <2>1. overdue' \subseteq TestNumbers
      BY BatchFacts DEF Now, ScriptInv, Types
    <2>2. k' \in 1 .. Len(plist) + 1
      BY BatchFacts DEF Now
    <2> QED
      BY <1>1, <2>1, <2>2 DEF Now, ScriptInv, Types, Started, procs, results, outcome
  <1>3. InTurn'
    <2>1. CASE launcher = "None"
      <3>1. stage' = "communicate" => \A t \in Batch : Awaited(t)
        BY <2>1 DEF Now, ScriptInv, Polled
      <3> QED
        BY <1>1, <2>1, <3>1, StillInv, BatchFacts DEF Now, InTurn
    <2>2. CASE launcher # "None"
      BY <1>1, <2>2 DEF Now, InTurn
    <2> QED
      BY <2>1, <2>2
  <1>4. Filling'
    BY <1>1 DEF Now, ScriptInv, Filling
  <1> QED
    BY <1>1, <1>2, <1>3, <1>4, StillInv DEF ScriptInv

LEMMA SelectInv ==
  ASSUME ScriptInv, Select
  PROVE  ScriptInv'
  <1>1. UNCHANGED <<launcher, plist, procs, results, outcome>> /\ UNCHANGED next
    BY DEF Select
  <1>2. Types'
    <2>1. ready' \subseteq TestNumbers
      BY BatchFacts DEF Select, Readable
    <2> QED
      BY <1>1, <2>1 DEF Select, ScriptInv, Types, Started, procs, results, outcome
  <1>3. InTurn'
    BY <1>1 DEF Select, InTurn
  <1>4. Filling'
    BY <1>1 DEF Select, ScriptInv, Filling
  <1> QED
    BY <1>1, <1>2, <1>3, <1>4, StillInv DEF ScriptInv

LEMMA ScanEndsInv ==
  ASSUME ScriptInv, ScanEnds
  PROVE  ScriptInv'
  <1>1. UNCHANGED <<launcher, plist, procs, results, outcome>> /\ UNCHANGED next
    BY DEF ScanEnds
  <1>2. Types'
    <2>1. k' \in 1 .. Len(plist) + 1
      BY BatchFacts DEF ScanEnds
    <2> QED
      BY <1>1, <2>1 DEF ScanEnds, ScriptInv, Types, Started, procs, results, outcome
  <1>3. InTurn' /\ Filling'
    BY <1>1 DEF ScanEnds, ScriptInv, InTurn, Filling
  <1> QED
    BY <1>1, <1>2, <1>3, StillInv DEF ScriptInv

(* Either way of waiting has been through the whole batch.                 *)
LEMMA WaitallEndsInv ==
  ASSUME ScriptInv, WaitallEnds
  PROVE  ScriptInv'
  <1>1. UNCHANGED <<launcher, plist, procs, results, outcome>> /\ UNCHANGED next
    BY DEF WaitallEnds
  <1>2. Types'
    <2>1. k' \in 1 .. Len(plist) + 1
      BY BatchFacts DEF WaitallEnds
    <2> QED
      BY <1>1, <2>1 DEF WaitallEnds, ScriptInv, Types, Started, procs, results, outcome
  <1>3. \A t \in Batch : Awaited(t)
    <2>1. CASE launcher = "None"
      BY <2>1 DEF WaitallEnds, ScriptInv, InTurn
    <2>2. CASE launcher # "None"
      <3>1. k = Len(plist) + 1 /\ k - 1 = Len(plist)
        BY <2>2, BatchFacts DEF WaitallEnds, ScriptInv, Types
      <3> QED
        BY <2>2, <3>1, BatchFacts DEF WaitallEnds, ScriptInv, InTurn
    <2> QED
      BY <2>1, <2>2
  <1>4. InTurn'
    BY <1>1, <1>3, StillInv, BatchFacts DEF WaitallEnds, InTurn
  <1>5. Filling'
    BY <1>1 DEF WaitallEnds, ScriptInv, Filling
  <1> QED
    BY <1>1, <1>2, <1>4, <1>5, StillInv DEF ScriptInv

LEMMA EndInv ==
  ASSUME ScriptInv, End
  PROVE  ScriptInv'
  <1>1. UNCHANGED <<launcher, plist, procs, results, outcome>> /\ UNCHANGED next
    BY DEF End
  <1>2. Types'
    BY <1>1 DEF End, ScriptInv, Types, Started, procs, results, outcome, polling
  <1>3. InTurn' /\ Filling'
    BY <1>1 DEF End, ScriptInv, InTurn, Filling, procs
  <1> QED
    BY <1>1, <1>2, <1>3, StillInv DEF ScriptInv

-----------------------------------------------------------------------------
(* Starting                                                                *)

LEMMA StartFailsInv ==
  ASSUME ScriptInv, StartFails
  PROVE  ScriptInv'
  <1> USE RunnerAssumption
  <1>1. /\ stage = "start" /\ next \in TestNumbers /\ next' = next + 1 /\ state[next] = "none"
        /\ state' = [state EXCEPT ![next] = "failed"]
        /\ UNCHANGED <<launcher, stage, plist, remaining, code, written, pipe, closed>>
        /\ UNCHANGED <<done, retvals, buffers, overdue, ready, k, reports, failed_tests>>
    BY DEF StartFails, ScriptInv, Types, InOrder, TestNumbers, results, polling, outcome
  <1>2. /\ \A t \in TestNumbers \ {next} : state'[t] = state[t]
        /\ state'[next] = "failed"
    BY <1>1 DEF ScriptInv, Types
  <1>3. Batch' = Batch /\ Reported' = Reported /\ Started' = Started
    BY <1>1, <1>2 DEF Batch, Reported, Started
  <1>4. Types'
    <2>1. state' \in [TestNumbers -> {"none", "failed", "running", "exited"}]
      BY <1>1 DEF ScriptInv, Types
    <2>2. next' \in 1 .. NumTests + 1
      BY <1>1 DEF TestNumbers
    <2> QED
      BY <1>1, <1>3, <2>1, <2>2 DEF ScriptInv, Types
  <1>5. Pipes'
    BY <1>1, <1>2 DEF ScriptInv, Pipes
  <1>6. InOrder'
    <2>1. \A t \in TestNumbers : state'[t] = "none" <=> t >= next + 1
      BY <1>1, <1>2 DEF ScriptInv, InOrder, TestNumbers
    <2> QED
      BY <1>1, <1>3, <2>1 DEF ScriptInv, InOrder
  <1>7. Polled'
    <2>1. \A t \in Batch : t \in TestNumbers \ {next}
      BY <1>1 DEF ScriptInv, InOrder, Started
    <2> QED
      BY <1>1, <1>2, <1>3, <2>1 DEF ScriptInv, Polled, Awaited
  <1>8. InTurn'
    BY <1>1 DEF InTurn
  <1>9. Filling'
    BY <1>1, <1>2 DEF ScriptInv, Types, Filling, TestNumbers
  <1>10. Printed'
    <2>1. \A j \in DOMAIN reports : reports[j][1] \in TestNumbers \ {next}
      <3>1. \A j \in DOMAIN reports : reports[j][1] \in TestNumbers
        BY DEF ScriptInv, Types
      <3>2. \A j \in DOMAIN reports : state[reports[j][1]] = "exited"
        BY DEF ScriptInv, Printed
      <3> QED
        BY <1>1, <3>1, <3>2
    <2> QED
      BY <1>1, <1>2, <1>3, <2>1 DEF ScriptInv, Printed
  <1> QED
    BY <1>4, <1>5, <1>6, <1>7, <1>8, <1>9, <1>10 DEF ScriptInv

LEMMA StartInv ==
  ASSUME ScriptInv, NEW timeout \in Timeouts, Start(timeout)
  PROVE  ScriptInv'
  <1> USE RunnerAssumption
  <1>1. /\ stage = "start" /\ next \in TestNumbers /\ next' = next + 1 /\ state[next] = "none"
        /\ state' = [state EXCEPT ![next] = "running"]
        /\ remaining' = [remaining EXCEPT ![next] = timeout]
        /\ plist' = Append(plist, next) /\ k' = 1
        /\ done' = [done EXCEPT ![next] = launcher # "None"]
        /\ stage' = IF Len(plist') = max_jobs \/ next = NumTests THEN "now" ELSE "start"
        /\ UNCHANGED <<launcher, code, written, pipe, closed, retvals, buffers, overdue, ready, reports, failed_tests>>
    BY DEF Start, BatchIsComplete, ScriptInv, Types, InOrder, TestNumbers, outcome
  <1>2. /\ plist' \in Seq(TestNumbers) /\ Len(plist') = Len(plist) + 1 /\ DOMAIN plist' = 1 .. Len(plist) + 1
        /\ \A j \in DOMAIN plist : j \in DOMAIN plist' /\ plist'[j] = plist[j]
        /\ plist'[Len(plist) + 1] = next
        /\ \A j \in DOMAIN plist' : j \in DOMAIN plist \/ j = Len(plist) + 1
    BY <1>1 DEF ScriptInv, Types
  <1>3. /\ \A t \in TestNumbers \ {next} : state'[t] = state[t] /\ done'[t] = done[t]
        /\ state'[next] = "running" /\ done'[next] = (launcher # "None")
    BY <1>1 DEF ScriptInv, Types
  <1>4. Reported' = Reported /\ Started' = Started \cup {next}
    BY <1>1, <1>3 DEF Reported, Started
  <1>5. Types'
    <2>1. remaining' \in [TestNumbers -> Nat]
      BY <1>1 DEF ScriptInv, Types
    <2>2. state' \in [TestNumbers -> {"none", "failed", "running", "exited"}]
      BY <1>1 DEF ScriptInv, Types
    <2>3. done' \in [TestNumbers -> BOOLEAN]
      BY <1>1 DEF ScriptInv, Types
    <2>4. next' \in 1 .. NumTests + 1 /\ k' \in 1 .. Len(plist') + 1
      BY <1>1, <1>2, BatchFacts DEF TestNumbers
    <2>5. stage' \in {"now", "start"}
      BY <1>1
    <2> QED
      BY <1>1, <1>2, <1>4, <2>1, <2>2, <2>3, <2>4, <2>5 DEF ScriptInv, Types
  <1>6. Batch' = Batch \cup {next}
    BY <1>2 DEF Batch, ToSet
  <1>7. Pipes'
    BY <1>1, <1>3 DEF ScriptInv, Pipes
  <1>8. \A t \in Started : t < next /\ t \in TestNumbers \ {next}
    BY <1>1 DEF ScriptInv, InOrder, Started, TestNumbers
  <1>9. \A j \in DOMAIN reports : reports[j][1] \in Reported
    BY DEF Reported
  <1>10. InOrder'
    <2>1. \A t \in TestNumbers : state'[t] = "none" <=> t >= next + 1
      BY <1>1, <1>3 DEF ScriptInv, InOrder, TestNumbers
    <2>2. \A j \in DOMAIN plist : plist[j] < next
      BY <1>8, BatchFacts DEF ScriptInv, InOrder
    <2>3. \A i, j \in DOMAIN plist' : i < j => plist'[i] < plist'[j]
      <3> SUFFICES ASSUME NEW i \in DOMAIN plist', NEW j \in DOMAIN plist', i < j
                   PROVE  plist'[i] < plist'[j]
        OBVIOUS
      <3>1. i \in DOMAIN plist
        BY <1>2, BatchFacts
      <3> QED
        BY <1>2, <2>2, <3>1 DEF ScriptInv, InOrder
    <2>4. \A i \in DOMAIN reports, j \in DOMAIN plist' : reports[i][1] < plist'[j]
      BY <1>2, <1>8, <1>9 DEF ScriptInv, InOrder
    <2> QED
      BY <1>1, <1>4, <1>6, <2>1, <2>3, <2>4 DEF ScriptInv, InOrder
  <1>11. Polled'
    <2> SUFFICES ASSUME launcher = "None", NEW t \in Batch', done'[t]
                 PROVE  Awaited(t)'
      BY <1>1 DEF Polled
    <2>1. t \in Batch /\ t \in TestNumbers \ {next}
      BY <1>3, <1>6, <1>8 DEF ScriptInv, InOrder
    <2> QED
      BY <1>1, <1>3, <2>1 DEF ScriptInv, Polled, Awaited
  <1>12. InTurn'
    BY <1>1 DEF InTurn
  <1>13. Filling'
    <2>1. Len(plist) \in Nat /\ Len(plist) < max_jobs
      BY <1>1, BatchFacts DEF ScriptInv, Filling
    <2>2. Len(plist') <= max_jobs
      BY <1>2, <2>1
    <2>3. stage' # "end"
      BY <1>1
    <2>4. stage' = "start" => Len(plist') < max_jobs /\ next' <= NumTests
      BY <1>1, <1>2, <2>1 DEF TestNumbers
    <2>5. next' \in Int
      BY <1>1 DEF TestNumbers
    <2> QED
      BY <2>2, <2>3, <2>4, <2>5 DEF Filling
  <1>14. Printed'
    BY <1>1, <1>3, <1>4, <1>8, <1>9 DEF ScriptInv, InOrder, Printed
  <1> QED
    BY <1>5, <1>7, <1>10, <1>11, <1>12, <1>13, <1>14 DEF ScriptInv

-----------------------------------------------------------------------------
(* Reading                                                                 *)

(* What either way of reading does to the process t it looks at            *)
Reads(t) ==
  \/ /\ state[t] = "exited" /\ pipe[t] = 0 /\ retvals' = [retvals EXCEPT ![t] = code[t]]
     /\ UNCHANGED <<buffers, pipe>>
  \/ /\ buffers' = [buffers EXCEPT ![t] = @ + pipe[t]] /\ pipe' = [pipe EXCEPT ![t] = 0]
     /\ UNCHANGED retvals
  \/ UNCHANGED <<buffers, pipe, retvals>>

LEMMA ReadsInv ==
  ASSUME ScriptInv, NEW t \in TestNumbers, Reads(t), t \notin Reported,
         UNCHANGED <<launcher, next, plist, state, code, written, closed, reports, failed_tests>>
  PROVE  /\ retvals' \in [TestNumbers -> {-SIGALRM, 0, 1, 9}]
         /\ buffers' \in [TestNumbers -> 0 .. MaxOutput] /\ pipe' \in [TestNumbers -> 0 .. PipeSize]
         /\ closed' \subseteq Started'
         /\ Pipes' /\ InOrder' /\ Printed' /\ Batch' = Batch
         /\ \A u \in TestNumbers : Awaited(u) => Awaited(u)'
  <1> USE RunnerAssumption
  <1>1. Batch' = Batch /\ Reported' = Reported /\ Started' = Started
    BY DEF Batch, Reported, Started
  <1>2. InOrder'
    BY <1>1 DEF ScriptInv, InOrder
  <1>3. \A u \in Reported : u \in TestNumbers
    <2>1. reports \in Seq(TestNumbers \X Int \X Nat)
      BY DEF ScriptInv, Types
    <2>2. \A j \in DOMAIN reports : reports[j] \in TestNumbers \X Int \X Nat
      BY <2>1
    <2>3. \A j \in DOMAIN reports : reports[j][1] \in TestNumbers
      BY <2>2
    <2> QED
      BY <2>3 DEF Reported
  <1>4. /\ retvals' \in [TestNumbers -> {-SIGALRM, 0, 1, 9}]
        /\ buffers' \in [TestNumbers -> 0 .. MaxOutput] /\ pipe' \in [TestNumbers -> 0 .. PipeSize]
        /\ \A u \in TestNumbers : buffers'[u] + pipe'[u] = written[u]
        /\ \A u \in TestNumbers : Awaited(u) => Awaited(u)'
        /\ \A u \in TestNumbers \ {t} : pipe'[u] = pipe[u]
    <2>1. CASE /\ state[t] = "exited" /\ pipe[t] = 0 /\ retvals' = [retvals EXCEPT ![t] = code[t]]
               /\ UNCHANGED <<buffers, pipe>>
      <3>1. code[t] \in {0, 1, 9}
        BY <2>1 DEF ScriptInv, Types, Pipes, Statuses
      <3>2. retvals' \in [TestNumbers -> {-SIGALRM, 0, 1, 9}]
        BY <2>1, <3>1 DEF ScriptInv, Types
      <3> QED
        BY <2>1, <3>2 DEF ScriptInv, Types, Pipes, Awaited
    <2>2. CASE /\ buffers' = [buffers EXCEPT ![t] = @ + pipe[t]] /\ pipe' = [pipe EXCEPT ![t] = 0]
               /\ UNCHANGED retvals
      <3>1. /\ \A u \in TestNumbers : buffers[u] + pipe[u] = written[u]
            /\ buffers[t] + pipe[t] \in 0 .. MaxOutput /\ 0 \in 0 .. PipeSize
        BY DEF ScriptInv, Types, Pipes
      <3>2. buffers' \in [TestNumbers -> 0 .. MaxOutput] /\ pipe' \in [TestNumbers -> 0 .. PipeSize]
        BY <2>2, <3>1 DEF ScriptInv, Types
      <3>3. \A u \in TestNumbers \ {t} : pipe'[u] = pipe[u] /\ buffers'[u] = buffers[u]
        BY <2>2 DEF ScriptInv, Types
      <3>4. pipe'[t] = 0 /\ buffers'[t] = buffers[t] + pipe[t]
        BY <2>2 DEF ScriptInv, Types
      <3>5. buffers'[t] + pipe'[t] = written[t]
        BY <3>1, <3>4 DEF ScriptInv, Types
      <3>6. \A u \in TestNumbers : buffers'[u] + pipe'[u] = written[u]
        BY <3>1, <3>3, <3>5
      <3>7. \A u \in TestNumbers : Awaited(u) => Awaited(u)'
        BY <2>2, <3>3, <3>4 DEF Awaited
      <3> QED
        BY <2>2, <3>2, <3>3, <3>6, <3>7 DEF ScriptInv, Types
    <2>3. CASE UNCHANGED <<buffers, pipe, retvals>>
      BY <2>3 DEF ScriptInv, Types, Pipes, Awaited
    <2> QED
      BY <2>1, <2>2, <2>3 DEF Reads
  <1>5. Pipes'
    BY <1>4 DEF ScriptInv, Pipes
  <1>6. Printed'
    <2>1. \A j \in DOMAIN reports : reports[j][1] \in Reported
      BY DEF Reported
    <2> QED
      BY <1>1, <1>3, <1>4, <2>1 DEF ScriptInv, Printed
  <1>7. closed' \subseteq Started'
    BY <1>1 DEF ScriptInv, Types
  <1> QED
    BY <1>1, <1>2, <1>4, <1>5, <1>6, <1>7

(* Nothing in the batch has been reported yet, and no test is in it twice. *)
LEMMA BatchIsNew ==
  ASSUME ScriptInv, NEW j \in DOMAIN plist
  PROVE  plist[j] \notin Reported /\ \A i \in DOMAIN plist : i # j => plist[i] # plist[j]
  <1>1. \A i \in DOMAIN reports : reports[i][1] \in Int /\ reports[i][1] < plist[j]
    BY SMTT(30) DEF ScriptInv, Types, InOrder, TestNumbers
  <1>2. \A i \in DOMAIN plist : plist[i] \in Int /\ i \in Int
    BY BatchFacts, RunnerAssumption DEF TestNumbers
  <1> QED
    BY <1>1, <1>2 DEF ScriptInv, InOrder, Reported

LEMMA ScanInv ==
  ASSUME ScriptInv, Scan
  PROVE  ScriptInv'
  <1> DEFINE t == plist[k]
             eof == t \in ready /\ pipe[t] = 0
  <1>1. /\ stage = "scan" /\ k \in DOMAIN plist /\ t \in TestNumbers /\ k' = k + 1
        /\ stage' \in {"scan", "crash"}
        /\ UNCHANGED <<launcher, next, plist, state, remaining, code, written, closed, overdue, ready, reports, failed_tests>>
    BY BatchFacts, SMTT(30) DEF Scan, ScriptInv, Types, outcome
  <1>2. \/ /\ eof /\ done' = [done EXCEPT ![t] = TRUE] /\ retvals' = [retvals EXCEPT ![t] = code[t]]
           /\ UNCHANGED <<buffers, pipe>>
        \/ /\ buffers' = [buffers EXCEPT ![t] = @ + pipe[t]] /\ pipe' = [pipe EXCEPT ![t] = 0]
           /\ UNCHANGED <<done, retvals>>
        \/ UNCHANGED <<buffers, pipe, done, retvals>>
    BY DEF Scan, results
  <1>3. eof => state[t] = "exited"
    BY DEF Scan
  <1>4. Reads(t)
    BY <1>2, <1>3 DEF Reads
  <1>5. t \notin Reported
    BY <1>1, BatchIsNew
  <1> HIDE DEF t, eof
  <1>6. /\ retvals' \in [TestNumbers -> {-SIGALRM, 0, 1, 9}]
        /\ buffers' \in [TestNumbers -> 0 .. MaxOutput] /\ pipe' \in [TestNumbers -> 0 .. PipeSize]
        /\ closed' \subseteq Started'
        /\ Pipes' /\ InOrder' /\ Printed' /\ Batch' = Batch
        /\ \A u \in TestNumbers : Awaited(u) => Awaited(u)'
    BY <1>1, <1>4, <1>5, ReadsInv
  <1>7. Types'
    <2>1. done' \in [TestNumbers -> BOOLEAN]
      BY <1>1, <1>2 DEF ScriptInv, Types
    <2>2. k' \in 1 .. Len(plist) + 1
      BY <1>1, BatchFacts
    <2> QED
      BY <1>1, <1>6, <2>1, <2>2 DEF ScriptInv, Types
  <1>8. Polled'
    <2> SUFFICES ASSUME launcher = "None", NEW u \in Batch, done'[u]
                 PROVE  Awaited(u)'
      BY <1>1, <1>6 DEF Polled
    <2>1. u \in TestNumbers
      BY BatchFacts
    <2>2. CASE done[u]
      BY <1>6, <2>1, <2>2 DEF ScriptInv, Polled
    <2>3. CASE ~done[u]
      <3>1. eof /\ u = t /\ retvals' = [retvals EXCEPT ![t] = code[t]] /\ UNCHANGED <<buffers, pipe>>
        BY <1>1, <1>2, <2>1, <2>3 DEF ScriptInv, Types
      <3> QED
        BY <1>1, <1>3, <3>1 DEF ScriptInv, Types, Awaited, eof
    <2> QED
      BY <2>2, <2>3
  <1>9. InTurn'
    BY <1>1 DEF InTurn
  <1>10. Filling'
    BY <1>1 DEF ScriptInv, Filling
  <1> QED
    BY <1>6, <1>7, <1>8, <1>9, <1>10 DEF ScriptInv

LEMMA CommunicateInv ==
  ASSUME ScriptInv, Communicate
  PROVE  ScriptInv'
  <1> DEFINE t == plist[k]
  <1>1. /\ stage = "communicate" /\ launcher # "None" /\ k \in DOMAIN plist /\ t \in TestNumbers
        /\ UNCHANGED <<launcher, stage, next, plist, state, remaining, code, written, closed, done, overdue, ready, reports, failed_tests>>
    BY BatchFacts, SMTT(30) DEF Communicate, ScriptInv, Types, script, outcome
  <1>2. \/ /\ buffers' = [buffers EXCEPT ![t] = @ + pipe[t]] /\ pipe' = [pipe EXCEPT ![t] = 0]
           /\ UNCHANGED <<retvals, k>>
        \/ /\ ~(pipe[t] > 0) /\ state[t] = "exited"
           /\ retvals' = [retvals EXCEPT ![t] = code[t]] /\ k' = k + 1
           /\ UNCHANGED <<buffers, pipe>>
    BY DEF Communicate
  <1>3. pipe[t] \in Nat
    BY <1>1 DEF ScriptInv, Types
  <1>4. Reads(t)
    BY <1>2, <1>3 DEF Reads
  <1>5. t \notin Reported
    BY <1>1, BatchIsNew
  <1> HIDE DEF t
  <1>6. /\ retvals' \in [TestNumbers -> {-SIGALRM, 0, 1, 9}]
        /\ buffers' \in [TestNumbers -> 0 .. MaxOutput] /\ pipe' \in [TestNumbers -> 0 .. PipeSize]
        /\ closed' \subseteq Started'
        /\ Pipes' /\ InOrder' /\ Printed' /\ Batch' = Batch
        /\ \A u \in TestNumbers : Awaited(u) => Awaited(u)'
    BY <1>1, <1>4, <1>5, ReadsInv
  <1>7. Types'
    <2>1. k' \in 1 .. Len(plist) + 1
      BY <1>1, <1>2, BatchFacts
    <2> QED
      BY <1>1, <1>6, <2>1 DEF ScriptInv, Types
  <1>8. Polled'
    BY <1>1 DEF Polled
  <1>9. InTurn'
    <2>1. \A j \in 1 .. k - 1 : plist[j] \in TestNumbers /\ Awaited(plist[j])
      BY <1>1, BatchFacts DEF ScriptInv, InTurn
    <2>2. k' = k + 1 => state[t] = "exited" /\ pipe'[t] = 0 /\ retvals'[t] = code[t]
      <3>1. k \in Int
        BY <1>1, BatchFacts
      <3>2. k' = k + 1 => /\ ~(pipe[t] > 0) /\ state[t] = "exited"
                          /\ retvals' = [retvals EXCEPT ![t] = code[t]] /\ UNCHANGED pipe
        BY <1>2, <3>1
      <3>3. t \in DOMAIN retvals
        BY <1>1 DEF ScriptInv, Types
      <3> QED
        BY <1>3, <3>2, <3>3
    <2>3. \A j \in 1 .. k' - 1 : Awaited(plist[j])'
      <3>1. CASE k' = k
        BY <1>1, <1>6, <2>1, <3>1 DEF Awaited
      <3>2. CASE k' = k + 1
        <4>1. \A j \in 1 .. k' - 1 : j \in 1 .. k - 1 \/ j = k
          BY <1>1, <3>2, BatchFacts
        <4>2. \A j \in 1 .. k - 1 : Awaited(plist[j])'
          BY <1>1, <1>6, <2>1 DEF Awaited
        <4>3. state'[plist'[k]] = "exited" /\ pipe'[plist'[k]] = 0 /\ retvals'[plist'[k]] = code'[plist'[k]]
          BY <1>1, <2>2, <3>2 DEF t
        <4> QED
          BY <4>1, <4>2, <4>3 DEF Awaited
      <3> QED
        BY <1>2, <3>1, <3>2
    <2> QED
      BY <1>1, <2>3 DEF InTurn, Awaited
  <1>10. Filling'
    BY <1>1 DEF ScriptInv, Filling
  <1> QED
    BY <1>6, <1>7, <1>8, <1>9, <1>10 DEF ScriptInv

-----------------------------------------------------------------------------
(* Printing a batch                                                        *)

LEMMA ReportInv ==
  ASSUME ScriptInv, Report
  PROVE  ScriptInv'
  <1> DEFINE news == [j \in DOMAIN plist |-> <<plist[j], retvals[plist[j]], buffers[plist[j]]>>]
  <1>1. /\ stage = "report" /\ reports' = reports \o news
        /\ failed_tests' = failed_tests \cup {t \in Batch : retvals[t] # 0}
        /\ plist' = <<>> /\ stage' = "start" /\ k' = 1 /\ overdue' = {} /\ ready' = {}
        /\ UNCHANGED <<launcher, next, state, remaining, code, written, pipe, closed, done, retvals, buffers>>
    BY DEF Report, procs, results
  <1>2. \A t \in Batch : Awaited(t) /\ t \in TestNumbers /\ buffers[t] = written[t] /\ written[t] \in Nat
    <2>1. \A t \in Batch : Awaited(t) /\ t \in TestNumbers
      BY <1>1, BatchFacts DEF ScriptInv, InTurn
    <2>2. \A t \in TestNumbers : buffers[t] + pipe[t] = written[t] /\ buffers[t] \in Nat /\ written[t] \in Nat
      BY RunnerAssumption DEF ScriptInv, Types, Pipes
    <2> QED
      BY <2>1, <2>2 DEF Awaited
  <1>3. /\ news \in Seq(TestNumbers \X Int \X Nat) /\ Len(news) = Len(plist)
        /\ \A j \in DOMAIN plist : news[j] = <<plist[j], code[plist[j]], written[plist[j]]>>
    <2>1. \A j \in 1 .. Len(plist) : /\ news[j] = <<plist[j], code[plist[j]], written[plist[j]]>>
                                     /\ news[j] \in TestNumbers \X Int \X Nat
      <3> SUFFICES ASSUME NEW j \in 1 .. Len(plist)
                   PROVE  /\ news[j] = <<plist[j], code[plist[j]], written[plist[j]]>>
                          /\ news[j] \in TestNumbers \X Int \X Nat
        OBVIOUS
      <3>1. plist[j] \in Batch /\ plist[j] \in TestNumbers /\ j \in DOMAIN plist
        BY BatchFacts
      <3>2. code[plist[j]] \in Int
        <4>1. Statuses \subseteq Int
          BY DEF Statuses
        <4> QED
          BY <3>1, <4>1 DEF ScriptInv, Types
      <3> QED
        BY <1>2, <3>1, <3>2 DEF Awaited
    <2>2. news = [j \in 1 .. Len(plist) |-> news[j]]
      BY BatchFacts
    <2> HIDE DEF news
    <2> QED
      BY <2>1, <2>2, BatchFacts, IsASeq
  <1> HIDE DEF news
  <1>4. /\ reports \in Seq(TestNumbers \X Int \X Nat) /\ reports' \in Seq(TestNumbers \X Int \X Nat)
        /\ Len(reports) \in Nat /\ Len(plist) \in Nat
        /\ DOMAIN reports = 1 .. Len(reports) /\ DOMAIN plist = 1 .. Len(plist)
        /\ DOMAIN reports' = 1 .. Len(reports) + Len(plist)
        /\ \A j \in 1 .. Len(reports) : reports'[j] = reports[j]
        /\ \A j \in 1 .. Len(plist) :
             reports'[Len(reports) + j] = <<plist[j], code[plist[j]], written[plist[j]]>>
    <2>1. /\ reports \in Seq(TestNumbers \X Int \X Nat) /\ Len(reports) \in Nat
          /\ DOMAIN reports = 1 .. Len(reports)
      BY DEF ScriptInv, Types
    <2>2. /\ reports \o news \in Seq(TestNumbers \X Int \X Nat)
          /\ Len(reports \o news) = Len(reports) + Len(news)
          /\ \A i \in 1 .. Len(reports) + Len(news) :
               (reports \o news)[i] = IF i <= Len(reports) THEN reports[i] ELSE news[i - Len(reports)]
      BY <1>3, <2>1, ConcatProperties
    <2>3. /\ reports' \in Seq(TestNumbers \X Int \X Nat) /\ Len(reports') = Len(reports) + Len(plist)
          /\ \A i \in 1 .. Len(reports) + Len(plist) :
               reports'[i] = IF i <= Len(reports) THEN reports[i] ELSE news[i - Len(reports)]
      BY <1>1, <1>3, <2>2
    <2>4. DOMAIN reports' = 1 .. Len(reports) + Len(plist)
      BY <2>3
    <2>5. \A j \in 1 .. Len(reports) : reports'[j] = reports[j]
      BY <2>1, <2>3, BatchFacts
    <2>6. ASSUME NEW j \in 1 .. Len(plist)
          PROVE  reports'[Len(reports) + j] = <<plist[j], code[plist[j]], written[plist[j]]>>
      <3>1. /\ Len(reports) + j \in 1 .. Len(reports) + Len(plist) /\ ~(Len(reports) + j <= Len(reports))
            /\ Len(reports) + j - Len(reports) = j /\ j \in DOMAIN plist
        <4>1. Len(reports) \in Nat /\ Len(plist) \in Nat /\ j \in 1 .. Len(plist) /\ j \in DOMAIN plist
          BY <2>1, BatchFacts
        <4>2. \A m, n \in Nat : \A i \in 1 .. n : m + i \in 1 .. m + n /\ ~(m + i <= m) /\ m + i - m = i
          OBVIOUS
        <4> QED
          BY <4>1, <4>2
      <3>2. reports'[Len(reports) + j] = news[j]
        <4>1. PICK i \in 1 .. Len(reports) + Len(plist) :
                i = Len(reports) + j /\ ~(i <= Len(reports)) /\ i - Len(reports) = j
          BY <3>1
        <4>2. reports'[i] = news[i - Len(reports)]
          BY <2>3, <4>1
        <4> QED
          BY <4>1, <4>2
      <3> QED
        BY <1>3, <3>1, <3>2
    <2> QED
      BY <2>1, <2>3, <2>4, <2>5, <2>6, BatchFacts
  <1>5. ASSUME NEW j \in DOMAIN reports'
        PROVE  \/ j \in DOMAIN reports /\ reports'[j] = reports[j]
               \/ \E i \in DOMAIN plist :
                    j = Len(reports) + i /\ reports'[j] = <<plist[i], code[plist[i]], written[plist[i]]>>
    <2>1. CASE j <= Len(reports)
      BY <1>4, <2>1
    <2>2. CASE j > Len(reports)
      <3>1. j - Len(reports) \in DOMAIN plist /\ j = Len(reports) + (j - Len(reports))
        BY <1>4, <2>2, SMTT(30)
      <3> QED
        BY <1>4, <3>1
    <2>3. j \in Int /\ Len(reports) \in Int
      BY <1>4
    <2> QED
      BY <2>1, <2>2, <2>3
  <1>6. Reported' = Reported \cup Batch
    <2>1. ASSUME NEW j \in DOMAIN reports' PROVE reports'[j][1] \in Reported \cup Batch
      BY <1>5, BatchFacts DEF Reported
    <2>2. \A j \in DOMAIN reports : j \in DOMAIN reports' /\ reports'[j][1] = reports[j][1]
      BY <1>4
    <2>3. \A t \in Batch : \E j \in DOMAIN reports' : reports'[j][1] = t
      <3> SUFFICES ASSUME NEW t \in Batch PROVE \E j \in DOMAIN reports' : reports'[j][1] = t
        OBVIOUS
      <3>1. PICK i \in 1 .. Len(plist) : t = plist[i]
        BY BatchFacts
      <3>2. Len(reports) + i \in DOMAIN reports' /\ reports'[Len(reports) + i][1] = t
        BY <1>4, <3>1
      <3> QED
        BY <3>2
    <2> QED
      BY <2>1, <2>2, <2>3 DEF Reported
  <1>7. Batch' = {} /\ Started' = Started /\ DOMAIN plist' = {} /\ Len(plist') = 0
    BY <1>1 DEF Batch, ToSet, Started
  <1>8. Types'
    <2>1. plist' \in Seq(TestNumbers) /\ k' \in 1 .. Len(plist') + 1
      BY <1>1
    <2>2. failed_tests' \subseteq TestNumbers
      BY <1>1, BatchFacts DEF ScriptInv, Types
    <2> QED
      BY <1>1, <1>4, <1>7, <2>1, <2>2 DEF ScriptInv, Types
  <1>9. Pipes'
    BY <1>1 DEF ScriptInv, Pipes
  <1>10. InOrder'
    <2>1. \A i, j \in DOMAIN reports' : i < j => reports'[i][1] < reports'[j][1]
      <3> SUFFICES ASSUME NEW i \in DOMAIN reports', NEW j \in DOMAIN reports', i < j
                   PROVE  reports'[i][1] < reports'[j][1]
        OBVIOUS
      <3>1. i \in Int /\ j \in Int
        BY <1>4
      <3>2. CASE j \in DOMAIN reports
        <4>1. i \in DOMAIN reports
          BY <1>4, <3>1, <3>2
        <4> QED
          BY <1>4, <3>2, <4>1 DEF ScriptInv, InOrder
      <3>3. CASE j \notin DOMAIN reports
        <4>1. PICK n \in DOMAIN plist :
                j = Len(reports) + n /\ reports'[j] = <<plist[n], code[plist[n]], written[plist[n]]>>
          BY <1>5, <3>3
        <4>2. CASE i \in DOMAIN reports
          BY <1>4, <4>1, <4>2 DEF ScriptInv, InOrder
        <4>3. CASE i \notin DOMAIN reports
          <5>1. PICK m \in DOMAIN plist :
                  i = Len(reports) + m /\ reports'[i] = <<plist[m], code[plist[m]], written[plist[m]]>>
            BY <1>5, <4>3
          <5>2. m < n
            BY <1>4, <4>1, <5>1
          <5> QED
            BY <4>1, <5>1, <5>2 DEF ScriptInv, InOrder
        <4> QED
          BY <4>2, <4>3
      <3> QED
        BY <3>2, <3>3
    <2> QED
      BY <1>1, <1>6, <1>7, <2>1 DEF ScriptInv, InOrder
  <1>11. Polled' /\ InTurn'
    BY <1>1, <1>7 DEF Polled, InTurn
  <1>12. Filling'
    BY <1>1, <1>7, RunnerAssumption DEF Filling
  <1>13. Printed'
    <2>1. ASSUME NEW j \in DOMAIN reports'
          PROVE  LET t == reports'[j][1]
                 IN  state'[t] = "exited" /\ pipe'[t] = 0 /\ reports'[j][2] = code'[t] /\ reports'[j][3] = written'[t]
      <3>1. CASE j \in DOMAIN reports /\ reports'[j] = reports[j]
        BY <1>1, <3>1 DEF ScriptInv, Printed
      <3>2. CASE \E i \in DOMAIN plist :
                   j = Len(reports) + i /\ reports'[j] = <<plist[i], code[plist[i]], written[plist[i]]>>
        BY <1>1, <1>2, <3>2, BatchFacts DEF Awaited
      <3> QED
        BY <1>5, <3>1, <3>2
    <2>2. failed_tests' = {t \in Reported' : code'[t] # 0}
      BY <1>1, <1>2, <1>6 DEF ScriptInv, Printed, Awaited
    <2> QED
      BY <2>1, <2>2 DEF Printed
  <1> QED
    BY <1>8, <1>9, <1>10, <1>11, <1>12, <1>13 DEF ScriptInv

-----------------------------------------------------------------------------
(* The inductive invariant: what has been read, polled, put in the batch   *)
(* and printed agrees with the processes and with one another.             *)
THEOREM ScriptInvariance == ScriptSpec => []ScriptInv
  <1>1. ScriptInv /\ UNCHANGED scriptVars => ScriptInv'
    <2> SUFFICES ASSUME ScriptInv, UNCHANGED scriptVars PROVE ScriptInv'
      OBVIOUS
    <2>1. /\ UNCHANGED <<launcher, plist, procs, results, outcome>> /\ UNCHANGED next
          /\ UNCHANGED <<stage, k, overdue, ready>>
      BY DEF scriptVars, script, polling
    <2>2. Types' /\ Filling'
      BY <2>1 DEF ScriptInv, Types, Started, Filling, procs, results, outcome
    <2>3. InTurn'
      BY <2>1, StillInv DEF ScriptInv, InTurn, Awaited, procs, results
    <2> QED
      BY <2>1, <2>2, <2>3, StillInv DEF ScriptInv
  <1>2. ScriptInv /\ [ScriptNext]_scriptVars => ScriptInv'
    <2> SUFFICES ASSUME ScriptInv, ScriptNext PROVE ScriptInv'
      BY <1>1
    <2>1. CASE ScriptStep
      BY <2>1, StartFailsInv, StartInv, NowInv, SelectInv, ScanInv, ScanEndsInv, CommunicateInv,
         WaitallEndsInv, ReportInv, EndInv DEF ScriptStep
    <2>2. CASE \E t \in TestNumbers : ProcessStep(t)
      BY <2>2, ProcessInv
    <2>3. CASE Tick
      BY <2>3, TickInv
    <2> QED
      BY <2>1, <2>2, <2>3 DEF ScriptNext
  <1> QED
    BY ScriptInitInv, <1>2, PTL DEF ScriptSpec

(* A batch holds at most as many tests as it has places.                   *)
LEMMA BatchSize ==
  ASSUME ScriptInv
  PROVE  IsFiniteSet(Batch) /\ Cardinality(Batch) <= Len(plist)
  <1>1. plist \in Surjection(1 .. Len(plist), Batch)
    <2>1. plist \in [1 .. Len(plist) -> TestNumbers]
      BY DEF ScriptInv, Types
    <2>2. \A j \in 1 .. Len(plist) : plist[j] \in Batch
      BY BatchFacts
    <2>3. plist \in [1 .. Len(plist) -> Batch]
      BY <2>1, <2>2
    <2> QED
      BY <2>3, BatchFacts DEF Surjection
  <1>2. IsFiniteSet(1 .. Len(plist)) /\ Cardinality(1 .. Len(plist)) = Len(plist)
    <2>1. \A n \in Nat : IsFiniteSet(1 .. n) /\ Cardinality(1 .. n) = n
      BY FS_Interval
    <2> QED
      BY <2>1, BatchFacts
  <1> QED
    BY <1>1, <1>2, FS_Surjection

(* What the script prints is what happened, however the reads, exits and   *)
(* deadlines interleave: see ReportsExact.                                 *)
THEOREM ReportsCorrect == ScriptSpec => []ReportsExact
  <1>1. ScriptInv => ReportsExact
    <2> SUFFICES ASSUME ScriptInv PROVE ReportsExact
      OBVIOUS
    <2>1. Batch \subseteq Started
      BY DEF ScriptInv, InOrder
    <2>2. ScriptTypeOK
      <3>1. plist \in Seq(Started)
        <4>1. plist = [j \in 1 .. Len(plist) |-> plist[j]]
          BY DEF ScriptInv, Types
        <4>2. Len(plist) \in Nat /\ \A j \in 1 .. Len(plist) : plist[j] \in Started
          BY <2>1, BatchFacts
        <4> QED
          BY <4>1, <4>2, IsASeq
      <3> QED
        BY <3>1 DEF ScriptInv, Types, ScriptTypeOK, Statuses
    <2>3. \A t \in Batch : t \notin Reported
      BY BatchFacts, BatchIsNew
    <2>4. Started \ Reported = Batch
      BY <2>3 DEF ScriptInv, InOrder
    <2>5. Cardinality(Batch) <= Len(plist) /\ Cardinality(Batch) \in Nat
      BY BatchSize, FS_CardinalityType
    <2>6. Cardinality(Started \ Reported) <= max_jobs
      <3>1. Len(plist) \in Nat /\ Len(plist) <= max_jobs
        BY BatchFacts DEF ScriptInv, Filling
      <3>2. Cardinality(Batch) <= max_jobs
        BY <2>5, <3>1, RunnerAssumption
      <3> QED
        BY <2>4, <3>2, Zenon
    <2>7. ASSUME stage = "end"
          PROVE  /\ Started = Reported \cup Forgotten
                 /\ Cardinality(Forgotten) < max_jobs
                 /\ failed_tests = {t \in Reported : code[t] # 0}
      <3>1. Batch # {} => state[NumTests] = "failed"
        <4>1. next > NumTests
          BY <2>7 DEF ScriptInv, Filling
        <4>2. Batch # {} => plist # <<>>
          BY BatchFacts
        <4> QED
          BY <2>7, <4>1, <4>2 DEF ScriptInv, Filling
      <3>2. Forgotten = Batch
        BY <2>3, <2>4, <3>1 DEF Forgotten
      <3>3. Cardinality(Batch) < max_jobs
        <4>1. Len(plist) \in Nat /\ Len(plist) < max_jobs
          BY <2>7, BatchFacts DEF ScriptInv, Filling
        <4> QED
          BY <2>5, <4>1, RunnerAssumption
      <3> QED
        BY <3>2, <3>3 DEF ScriptInv, InOrder, Printed
    <2> QED
      BY <2>2, <2>6, <2>7 DEF ReportsExact, ScriptInv, InOrder, Printed
  <1> QED
    BY <1>1, ScriptInvariance, PTL
=============================================================================
