-------------------------- MODULE SettlementPromise --------------------------
(***************************************************************************)
(* What settling promises about money, whoever runs it: with transactions  *)
(* or without, one request or many.  Two views of the same rupees:         *)
(*   - an invoice has a capacity, its total, of which some is taken, and   *)
(*     nothing more is taken once it is closed;                            *)
(*   - a receipt's money is allocated, unapplied or refundable, never two  *)
(*     of them and never none, and what is owed back as cash stays so.     *)
(* The first promise is off for an invoice once it is excused; which ones  *)
(* those are is for the implementation to say.                             *)
(***************************************************************************)
EXTENDS Integers

CONSTANTS Invoices, Receipts, Total, NoReceipt

VARIABLES
  open,    \* [Invoices -> BOOLEAN] settlements are still accepted
  taken,   \* [Invoices -> Nat]     settled or reserved
  purse,   \* [Receipts -> receipt or NoReceipt]
  excused \* invoices whose capacity is promised no longer

vars == <<open, taken, purse, excused>>

Whole(m) == m.allocated + m.unapplied + m.refundable = m.amount

Init ==
  /\ open = [i \in Invoices |-> TRUE]
  /\ taken \in [Invoices -> Nat]
  /\ \A i \in Invoices : taken[i] <= Total[i]
  /\ \A r \in Receipts : purse[r] = NoReceipt \/ Whole(purse[r])
  /\ excused = {}

\* Capacity is taken from an open invoice, up to its total ...
Take(i) == open[i] /\ open'[i] /\ taken'[i] <= Total[i]
\* ... and given back at any time; closing and reopening take nothing.
Give(i) == taken'[i] <= taken[i]

Receive(r) == purse[r] = NoReceipt /\ Whole(purse'[r]) /\ purse'[r].refundable = 0
Move(r) ==
  /\ purse[r] # NoReceipt /\ purse'[r] # NoReceipt
  /\ Whole(purse'[r])
  /\ purse'[r].amount = purse[r].amount
  /\ purse'[r].inv = purse[r].inv
  /\ purse'[r].refundable >= purse[r].refundable

Next ==
  /\ excused \subseteq excused'
  /\ \A i \in Invoices \ excused' : Take(i) \/ Give(i)
  /\ \A r \in Receipts : purse'[r] = purse[r] \/ Receive(r) \/ Move(r)

Spec == Init /\ [][Next]_vars

=============================================================================
