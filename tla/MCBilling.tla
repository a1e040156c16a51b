------------------------------ MODULE MCBilling ------------------------------
(***************************************************************************)
(* An instance of Billing that spends its states where they matter.  A     *)
(* behaviour is about one payment, with everything that can happen to it,  *)
(* or about two that are simply captured, with everything the customer can *)
(* do to the period meanwhile, or a crash.                                 *)
(***************************************************************************)
EXTENDS Billing

VARIABLE focus   \* the payments the behaviour is about

OnePayment == Cardinality(focus) = 1

MCPlanOf == [p \in Payments |-> IF p = 4 THEN "business" ELSE "pro"]

MCInit == focus \in {{1}, {2}, {2, 3}, {2, 4}} /\ Init

MCNext ==
  /\ focus' = focus
  /\ Next
  /\ \/ opened' = opened \/ opened' <= 2 \/ focus = {1}
     \/ \E s \in Slots : task'[s].pc = "reactivate" /\ task[s].pc = "idle"
  /\ \A s \in Slots :
       /\ task'[s].p \in focus \cup {0}
       /\ OnePayment => task'[s].pc \notin {"free", "trial", "reactivate"}
       /\ ~OnePayment => task'[s].pc # "ask"
  /\ \A p \in Payments \ focus : remote'[p] = Unpaid
  /\ ~OnePayment =>
       /\ crashes' > 0 => sub'.cancelAt = 0 /\ ~sub'.trialUsed /\ \A s \in Slots :
            task'[s].pc \notin {"cancel", "save", "reactivate", "trial", "free"}
       /\ \A p \in {3, 4} : remote'[p].captured => remote'[2].captured
       /\ \A p \in Payments : ~remote'[p].failed /\ ~remote'[p].odd /\ remote'[p].refunds = Unpaid.refunds

MCSpec == MCInit /\ [][MCNext]_<<focus, vars>> /\ Fairness
=============================================================================
