-------------------------- MODULE DeliveryPromise --------------------------
(***************************************************************************)
(* What a queue with claims promises of each event: it is accepted once,   *)
(* handled by one handler at a time, handed back only with one more        *)
(* failure on its record, and never handled again once it is delivered.    *)
(***************************************************************************)
EXTENDS Naturals

CONSTANT Events

VARIABLES
  phase, \* [Events -> {"none", "waiting", "running", "delivered"}]
  tries  \* [Events -> Nat], failures on record

Init == phase = [e \in Events |-> "none"] /\ tries = [e \in Events |-> 0]

Step(e, from, to, failed) ==
  /\ phase[e] = from
  /\ phase' = [phase EXCEPT ![e] = to]
  /\ tries' = [tries EXCEPT ![e] = @ + failed]

Next == \E e \in Events :
  \/ Step(e, "none", "waiting", 0)
  \/ Step(e, "waiting", "running", 0)
  \/ Step(e, "running", "delivered", 0)
  \/ Step(e, "running", "waiting", 1)

Spec == Init /\ [][Next]_<<phase, tries>>
=============================================================================
