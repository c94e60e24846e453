----------------------------- MODULE LockTests -----------------------------
(***************************************************************************)
(* lock_tests.c with the clock of include/ct_utils.h: main runs one test   *)
(* after the other, each with new reader and writer threads that meet in a *)
(* pthread barrier, start the clock, each for itself, and work under a     *)
(* lock; main joins them and stops the clock.                              *)
(*                                                                         *)
(* is_clock_lock_init is a plain variable, read and written without any    *)
(* synchronisation, so every interleaving of its accesses is possible.     *)
(* Initialising clock_lock while a thread holds it leaves it free.         *)
(***************************************************************************)
EXTENDS ProcessThreads

CONSTANT Tests      \* bound: how many tests main runs

ASSUME TestsAssumption == Tests \in Nat \ {0}

VARIABLES
  mpc, test,                  \* main: "spawn", "join", "done"; the test it is at
  waiting,                    \* arrivals at the barrier of readers and writers
  is_clock_lock_init, held,   \* the clock's lock: its flag; locked or not
  clock_started, start, end,  \* start and end: the test they were taken in
  late                        \* history: the clock was started after some work

clockVars == <<is_clock_lock_init, held, clock_started, start, end>>
testVars == <<mpc, test, pc, waiting, clockVars, late>>

TestsTypeOK ==
  /\ mpc \in {"spawn", "join", "done"}
  /\ test \in 1 .. Tests
  /\ pc \in [Threads -> {"none", "enter", "barrier", "check", "init", "flag", "lock",
                         "test", "set", "unlock", "work", "ret"}]
  /\ waiting \subseteq Threads
  /\ {is_clock_lock_init, held, clock_started, late} \subseteq BOOLEAN
  /\ start \in 0 .. Tests /\ end \in 0 .. Tests

TestsInit ==
  /\ mpc = "spawn" /\ test = 1
  /\ pc = [t \in Threads |-> "none"]
  /\ waiting = {}
  /\ is_clock_lock_init = FALSE /\ held = FALSE
  /\ clock_started = FALSE /\ start = 0 /\ end = 0
  /\ late = FALSE

Goto(t, label) == pc' = [pc EXCEPT ![t] = label]

(* pthread_create of one thread                                            *)
Spawn ==
  /\ mpc = "spawn"
  /\ \E t \in Threads :
       /\ pc[t] = "none"
       /\ Goto(t, "enter")
       /\ mpc' = IF \A u \in Threads \ {t} : pc[u] # "none" THEN "join" ELSE "spawn"
  /\ UNCHANGED <<test, waiting, clockVars, late>>

(* pthread_barrier_wait                                                    *)
EnterBarrier(t) ==
  /\ pc[t] = "enter"
  /\ waiting' = waiting \cup {t}
  /\ Goto(t, "barrier")
  /\ UNCHANGED <<mpc, test, clockVars, late>>

LeaveBarrier(t) ==
  /\ pc[t] = "barrier" /\ waiting = Threads
  /\ Goto(t, "check")
  /\ UNCHANGED <<mpc, test, waiting, clockVars, late>>

-----------------------------------------------------------------------------
(* ct_start_clock                                                          *)

CheckInit(t) ==
  /\ pc[t] = "check"
  /\ Goto(t, IF is_clock_lock_init THEN "lock" ELSE "init")
  /\ UNCHANGED <<mpc, test, waiting, clockVars, late>>

InitLock(t) ==
  /\ pc[t] = "init"
  /\ held' = FALSE
  /\ Goto(t, "flag")
  /\ UNCHANGED <<mpc, test, waiting, is_clock_lock_init, clock_started, start, end, late>>

SetFlag(t) ==
  /\ pc[t] = "flag"
  /\ is_clock_lock_init' = TRUE
  /\ Goto(t, "lock")
  /\ UNCHANGED <<mpc, test, waiting, held, clock_started, start, end, late>>

Lock(t) ==
  /\ pc[t] = "lock" /\ ~held
  /\ held' = TRUE
  /\ Goto(t, "test")
  /\ UNCHANGED <<mpc, test, waiting, is_clock_lock_init, clock_started, start, end, late>>

TestStarted(t) ==
  /\ pc[t] = "test"
  /\ Goto(t, IF clock_started THEN "unlock" ELSE "set")
  /\ UNCHANGED <<mpc, test, waiting, clockVars, late>>

(* Faulty variant: the flag is not set                                     *)
SetStartOnly(t) ==
  /\ pc[t] = "set"
  /\ start' = test
  /\ late' = (late \/ \E u \in Threads : pc[u] \in {"work", "ret"})
  /\ Goto(t, "unlock")
  /\ UNCHANGED <<mpc, test, waiting, is_clock_lock_init, held, clock_started, end>>

SetStart(t) ==
  /\ pc[t] = "set"
  /\ start' = test
  /\ clock_started' = TRUE
  /\ late' = (late \/ \E u \in Threads : pc[u] \in {"work", "ret"})
  /\ Goto(t, "unlock")
  /\ UNCHANGED <<mpc, test, waiting, is_clock_lock_init, held, end>>

Unlock(t) ==
  /\ pc[t] = "unlock"
  /\ held' = FALSE
  /\ Goto(t, "work")
  /\ UNCHANGED <<mpc, test, waiting, is_clock_lock_init, clock_started, start, end, late>>

(* The loop under the tested lock, as a whole                              *)
Work(t) ==
  /\ pc[t] = "work"
  /\ Goto(t, "ret")
  /\ UNCHANGED <<mpc, test, waiting, clockVars, late>>

-----------------------------------------------------------------------------
(* Faulty variant: the clock stays started                                 *)
JoinNoStop ==
  /\ mpc = "join" /\ \A t \in Threads : pc[t] = "ret"
  /\ end' = IF clock_started THEN test ELSE end
  /\ is_clock_lock_init' = FALSE
  /\ IF test < Tests
       THEN /\ test' = test + 1 /\ mpc' = "spawn"
            /\ pc' = [t \in Threads |-> "none"] /\ waiting' = {}
       ELSE mpc' = "done" /\ UNCHANGED <<test, pc, waiting>>
  /\ UNCHANGED <<held, clock_started, start, late>>

(* pthread_join of all threads, ct_stop_clock, and the next rwlock_test.   *)
(* No other thread runs any more.                                          *)
JoinThreads ==
  /\ mpc = "join" /\ \A t \in Threads : pc[t] = "ret"
  /\ end' = IF clock_started THEN test ELSE end
  /\ clock_started' = FALSE
  /\ is_clock_lock_init' = FALSE
  /\ IF test < Tests
       THEN /\ test' = test + 1 /\ mpc' = "spawn"
            /\ pc' = [t \in Threads |-> "none"] /\ waiting' = {}
       ELSE mpc' = "done" /\ UNCHANGED <<test, pc, waiting>>
  /\ UNCHANGED <<held, start, late>>

ThreadStep(t) ==
  \/ EnterBarrier(t) \/ LeaveBarrier(t) \/ CheckInit(t) \/ InitLock(t) \/ SetFlag(t)
  \/ Lock(t) \/ TestStarted(t) \/ SetStart(t) \/ Unlock(t) \/ Work(t)

TestsNext == Spawn \/ JoinThreads \/ \E t \in Threads : ThreadStep(t)

TestsSpec == TestsInit /\ [][TestsNext]_testVars

-----------------------------------------------------------------------------
(* No thread works while the clock stands, whatever the race for the       *)
(* clock's lock does, and the time that is running is that of this test:   *)
(* ct_stop_clock re-arms the clock for the threads of the next.            *)
ClockRunsAtWork ==
  /\ TestsTypeOK
  /\ \A t \in Threads : pc[t] \in {"work", "ret"} /\ mpc # "done" => clock_started /\ start = test

(* What main prints after a test is the time of that test.                 *)
TimesOfTest ==
  /\ mpc = "spawn" /\ test > 1 /\ (\A t \in Threads : pc[t] = "none")
       => start = test - 1 /\ end = test - 1
  /\ mpc = "done" => start = Tests /\ end = Tests

(* "thread safe clock start and clock stop": the clock is not started      *)
(* again when some thread is already at work.                              *)
StartedBeforeWork == ~late
=============================================================================
