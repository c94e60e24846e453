------------------------------ MODULE TBarrier ------------------------------
(***************************************************************************)
(* The thread barrier of include/ct_tbarrier.h: a sense-reversing spin     *)
(* barrier with two slots.  The counters and signals are C11 atomics       *)
(* shared by the threads; phase and slot live in each thread's own         *)
(* fabtests_tbar_t.  One action is one atomic access together with the     *)
(* thread-local statements that follow it.                                 *)
(*                                                                         *)
(* A thread may call the barrier whenever it is outside, MaxCalls times.   *)
(***************************************************************************)
EXTENDS ProcessThreads

CONSTANT MaxCalls   \* bound: calls of ct_tbarrier per thread

ASSUME MaxCallsAssumption == MaxCalls \in Nat

VARIABLES
  counter,    \* counter[s]: joiners of slot s so far (tbar_counter)
  signal,     \* signal[s]: the sense of slot s (tbar_signal)
  phase,      \* phase[t][s]: the sense t last saw in slot s (tbar->phase)
  slot,       \* slot[t]: the slot of t's next or current call (tbar->slot)
  entered,    \* history: calls t has begun
  left,       \* history: calls t has returned from
  released    \* history: how often a last joiner has toggled a signal

vars == <<counter, signal, phase, slot, pc, entered, left, released>>

Slots == {0, 1}

(* tbar->njoiners: ct_tbarrier_init gets tunables.threads, the number of   *)
(* threads that will share the barrier.                                    *)
njoiners == Cardinality(Threads)

TypeOK ==
  /\ counter \in [Slots -> 0..njoiners]
  /\ signal \in [Slots -> {0, 1}]
  /\ phase \in [Threads -> [Slots -> {0, 1}]]
  /\ slot \in [Threads -> Slots]
  /\ pc \in [Threads -> {"out", "reset", "toggle", "spin"}]
  /\ entered \in [Threads -> 0..MaxCalls]
  /\ left \in [Threads -> 0..MaxCalls]
  /\ released \in 0..MaxCalls

(* ct_tbarrier_init on every thread's tbar; the shared atomics are zeroed  *)
(* statics.                                                                *)
Init ==
  /\ counter = [s \in Slots |-> 0]
  /\ signal = [s \in Slots |-> 0]
  /\ phase = [t \in Threads |-> [s \in Slots |-> 0]]
  /\ slot = [t \in Threads |-> 0]
  /\ pc = [t \in Threads |-> "out"]
  /\ entered = [t \in Threads |-> 0]
  /\ left = [t \in Threads |-> 0]
  /\ released = 0

(* Faulty variant of the last-joiner test: one too early                   *)
LastJoinerEarly(n) == n + 2 >= njoiners

(* "if I'm the last one to join": n is what atomic_fetch_add returned      *)
LastJoiner(n) == n + 1 = njoiners

(* atomic_fetch_add on the current slot's counter                          *)
Join(t) ==
  /\ pc[t] = "out"
  /\ entered[t] < MaxCalls
  /\ counter' = [counter EXCEPT ![slot[t]] = @ + 1]
  /\ pc' = [pc EXCEPT ![t] = IF LastJoiner(counter[slot[t]]) THEN "reset" ELSE "spin"]
  /\ entered' = [entered EXCEPT ![t] = @ + 1]
  /\ UNCHANGED <<signal, phase, slot, left, released>>

(* Faulty variant: the last joiner leaves the counter as it is             *)
ResetNothing(t) ==
  /\ pc[t] = "reset"
  /\ pc' = [pc EXCEPT ![t] = "toggle"]
  /\ UNCHANGED <<counter, signal, phase, slot, entered, left, released>>

(* The last joiner stores 0 in the counter before it wakes the others      *)
Reset(t) ==
  /\ pc[t] = "reset"
  /\ counter' = [counter EXCEPT ![slot[t]] = 0]
  /\ pc' = [pc EXCEPT ![t] = "toggle"]
  /\ UNCHANGED <<signal, phase, slot, entered, left, released>>

(* Faulty variant: the thread forgets to flip its phase                    *)
ReturnSamePhase(t) ==
  /\ slot' = [slot EXCEPT ![t] = 1 - @]
  /\ UNCHANGED phase
  /\ pc' = [pc EXCEPT ![t] = "out"]
  /\ left' = [left EXCEPT ![t] = @ + 1]

(* The common tail of ct_tbarrier: flip phase and slot, return             *)
Return(t) ==
  /\ phase' = [phase EXCEPT ![t][slot[t]] = 1 - @]
  /\ slot' = [slot EXCEPT ![t] = 1 - @]
  /\ pc' = [pc EXCEPT ![t] = "out"]
  /\ left' = [left EXCEPT ![t] = @ + 1]

(* The last joiner toggles the slot's signal and returns                   *)
Toggle(t) ==
  /\ pc[t] = "toggle"
  /\ signal' = [signal EXCEPT ![slot[t]] = 1 - phase[t][slot[t]]]
  /\ released' = released + 1
  /\ Return(t)
  /\ UNCHANGED <<counter, entered>>

(* An atomic_load that sees the toggled signal ends the spin; a load that  *)
(* sees the old sense changes nothing.                                     *)
Spin(t) ==
  /\ pc[t] = "spin"
  /\ signal[slot[t]] # phase[t][slot[t]]
  /\ Return(t)
  /\ UNCHANGED <<counter, signal, entered, released>>

Next == \E t \in Threads : Join(t) \/ Reset(t) \/ Toggle(t) \/ Spin(t)

(* A thread inside ct_tbarrier is scheduled again and again; whether it    *)
(* calls the barrier at all is up to its client.                           *)
Fairness == \A t \in Threads : WF_vars(Reset(t) \/ Toggle(t) \/ Spin(t))

Safe == Init /\ [][Next]_vars

Spec == Safe /\ Fairness

-----------------------------------------------------------------------------
(* No thread returns from its n-th call before every thread has begun its  *)
(* n-th call, however fast or slow the threads run: the only thing         *)
(* thread_fn of rdm_one_sided.c relies on to start and stop the timing.    *)
NoEarlyReturn == \A t, u \in Threads : left[t] <= entered[u]

(* The threads inside the current call, counted by the current slot        *)
Joined == {t \in Threads : entered[t] = released + 1}

(* The slot of the call that is gathering joiners, and the other one       *)
Current == released % 2

(* Every thread's private copy of the barrier's state agrees with the      *)
(* shared one, up to the one call it may still have to notice.             *)
ThreadInSync(t) ==
  \/ /\ left[t] = released
     /\ slot[t] = Current
     /\ phase[t] = signal
     /\ \/ pc[t] = "out" /\ entered[t] = released
        \/ pc[t] # "out" /\ entered[t] = released + 1
  \/ /\ left[t] + 1 = released
     /\ slot[t] = 1 - Current
     /\ phase[t][Current] = signal[Current]
     /\ phase[t][1 - Current] = 1 - signal[1 - Current]
     /\ pc[t] = "spin"
     /\ entered[t] = released

(* Only a thread that joined last resets and toggles, and then all the     *)
(* others wait for it in the current slot.                                 *)
LastIsAlone ==
  \A t \in Threads : pc[t] \in {"reset", "toggle"} =>
    /\ Joined = Threads
    /\ \A u \in Threads \ {t} : pc[u] = "spin"

(* The counter of the current slot counts the joiners until the last       *)
(* joiner resets it; the counter of the slot used next is zero by then.    *)
CountersExact ==
  /\ counter[1 - Current] = 0
  /\ counter[Current] = IF \E t \in Threads : pc[t] = "toggle" THEN 0
                                                  ELSE Cardinality(Joined)

(* The inductive invariant: with these parts NoEarlyReturn follows, since  *)
(* left[t] <= released <= entered[u].                                      *)
IInv ==
  /\ TypeOK
  /\ \A t \in Threads : ThreadInSync(t)
  /\ LastIsAlone
  /\ CountersExact

(* The barrier of ct_tbarrier.h is a barrier, and all return from it once  *)
(* all have begun: no wakeup is lost even though a slot may be reused      *)
(* before a slow spinner has looked at it.                                 *)
Abstract == INSTANCE Barrier WITH Parties <- Threads
ImplementsBarrier == Abstract!Spec
=============================================================================
