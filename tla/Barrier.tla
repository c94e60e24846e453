------------------------------ MODULE Barrier ------------------------------
(***************************************************************************)
(* What a reusable N-party barrier promises, independently of how it is    *)
(* built.  A participant enters its next call whenever it is outside; it   *)
(* may leave a call only once every participant has entered that call.     *)
(*                                                                         *)
(* The module has two uses.  It is the specification that the thread       *)
(* barrier of include/ct_tbarrier.h (module TBarrier) and every collective *)
(* of common/ct_utils.c (module PmiColl) are shown to implement, and it is *)
(* the model of the external PMI_Barrier on which those collectives rest.  *)
(***************************************************************************)
EXTENDS Naturals

CONSTANTS
  Parties,    \* the participants
  MaxCalls    \* bound: how often each participant calls the barrier

VARIABLES
  entered,    \* entered[p]: barrier calls p has begun
  left        \* left[p]: barrier calls p has returned from

vars == <<entered, left>>

TypeOK ==
  /\ entered \in [Parties -> 0..MaxCalls]
  /\ left \in [Parties -> 0..MaxCalls]

Init ==
  /\ entered = [p \in Parties |-> 0]
  /\ left = [p \in Parties |-> 0]

Enter(p) ==
  /\ entered[p] = left[p]
  /\ entered[p] < MaxCalls
  /\ entered' = [entered EXCEPT ![p] = @ + 1]
  /\ UNCHANGED left

Leave(p) ==
  /\ left[p] < entered[p]
  /\ \A q \in Parties : entered[p] <= entered[q]
  /\ left' = [left EXCEPT ![p] = @ + 1]
  /\ UNCHANGED entered

Next == \E p \in Parties : Enter(p) \/ Leave(p)

(* Leaving is the barrier's own duty, entering is its client's choice.     *)
Fairness == \A p \in Parties : WF_vars(Leave(p))

Safe == Init /\ [][Next]_vars

Spec == Safe /\ Fairness
=============================================================================
