--------------------------- MODULE SettlementBook ---------------------------
(***************************************************************************)
(* The documents that settling invoices reads and writes, and the          *)
(* single-document updates on them (payments/repository.js).  One          *)
(* customer of one business; every counter update below is one             *)
(* findOneAndUpdate of the code, so each is atomic with or without a       *)
(* transaction.  Settlement interleaves them step by step (the fallback    *)
(* without transactions); SettlementTx runs them inside transactions.      *)
(***************************************************************************)
EXTENDS MoneySum, Integers, Sequences

CONSTANTS
  Invoices,    \* invoices of the customer
  Notes,       \* credit notes of the customer, issued or to be issued
  Requests,    \* API requests; a request that records a receipt names it
  OldReceipts, \* receipts recorded before the run starts
  OldRows,     \* allocation rows <<writer, invoice, source>> written before
  Total,       \* [Invoices -> Nat]   immutable once issued
  NoteTotal,   \* [Notes -> Nat]
  NoteInvoice, \* [Notes -> Invoices] the invoice a note credits
  OldNotes,    \* notes already issued
  OldPay,      \* [OldReceipts -> receipt]
  OldAmount,   \* [OldRows -> Nat]
  Legacy,      \* invoices written before the field settledAmount existed
  Age          \* [Sources -> Nat] FIFO order of credit: (sourceDate, _id)

Receipts == OldReceipts \cup Requests
Sources == Notes \cup Receipts
RowIds == OldRows \cup (Requests \X Invoices \X Sources)

Writer(a) == a[1]
InvoiceOf(a) == a[2]
SourceOf(a) == a[3]

Missing == -1   \* a field the document does not carry

Receipt == [inv: Invoices \cup {"none"}, amount: Nat, allocated: Nat, unapplied: Nat,
            refundable: Nat, refund: {"none", "pending", "processed"}]
NewReceipt(i, amount, allocated) ==
  [inv |-> i, amount |-> amount, allocated |-> allocated,
   unapplied |-> amount - allocated, refundable |-> 0, refund |-> "none"]
NoReceipt == NewReceipt("none", 0, 0)
\* A receipt's money is allocated, unapplied or refundable, never lost or counted twice.
Whole(m) == m.allocated + m.unapplied + m.refundable = m.amount
Row == [amount: Nat, state: {"absent", "live", "reversed"}, stamped: BOOLEAN]

VARIABLES
  status,     \* Invoice.documentStatus
  settled,    \* Invoice.settledAmount, the capacity counter
  credited,   \* Invoice.creditedAmount, the credit-note room counter
  noteStatus, \* Invoice.documentStatus of a credit note
  applied,    \* Invoice.appliedAmount of a credit note
  pay,        \* Payment
  alloc       \* SettlementAllocation, and whether its ledger pair is written

invoiceVars == <<status, settled, credited>>
noteVars == <<noteStatus, applied>>
book == <<status, settled, credited, noteStatus, applied, pay, alloc>>

Made(r) == pay[r].inv # "none"

(***************************************************************************)
(* Live totals, always derived from the rows.                              *)
(***************************************************************************)
LiveRows(i) == [a \in RowIds |->
  IF alloc[a].state = "live" /\ InvoiceOf(a) = i THEN alloc[a].amount ELSE 0]
Live(i) == Sum(LiveRows(i))

SpentRows(s) == [a \in RowIds |->
  IF alloc[a].state = "live" /\ SourceOf(a) = s THEN alloc[a].amount ELSE 0]
Spent(s) == Sum(SpentRows(s))

\* creditSourcesForCustomer: what each source still offers.
Remaining(s) ==
  IF s \in Notes
  THEN IF noteStatus[s] = "issued" THEN NoteTotal[s] - applied[s] ELSE 0
  ELSE IF Made(s) THEN pay[s].unapplied ELSE 0

\* plan draws amount from the sources, oldest first.
IsGreedyPlan(plan, amount) ==
  /\ Sum(plan) = amount
  /\ \A s \in Sources : plan[s] <= Remaining(s)
  /\ \A s, t \in Sources : Age[s] < Age[t] /\ plan[t] > 0 => plan[s] = Remaining(s)

LiveNotes(i) == {n \in Notes : NoteInvoice[n] = i /\ noteStatus[n] = "issued"}

(***************************************************************************)
(* Single-document updates.  CanX is the filter of the findOneAndUpdate,   *)
(* X the update it makes when the filter matches.                          *)
(***************************************************************************)
\* Mutant: the filter without its ceiling.
CanClaimUncapped(i, x) == status[i] # "cancelled" /\ settled[i] # Missing
CanClaimSettlement(i, x) ==
  /\ status[i] # "cancelled"
  /\ settled[i] # Missing
  /\ settled[i] <= Total[i] - x
ClaimSettlement(i, x) == settled' = [settled EXCEPT ![i] = @ + x]

\* A failed filter leaves the document alone; the caller does not look.
ReleaseSettlement(i, x) ==
  settled' = [settled EXCEPT ![i] = IF @ # Missing /\ @ >= x THEN @ - x ELSE @]

\* Mutant: a note may still be raised against a cancelled invoice.
CanClaimWhenCancelled(i, x) == credited[i] <= Total[i] - x
CanClaimCredit(i, x) == status[i] = "issued" /\ credited[i] <= Total[i] - x
ClaimCredit(i, x) == credited' = [credited EXCEPT ![i] = @ + x]
ReleaseCredit(i, x) ==
  credited' = [credited EXCEPT ![i] = IF @ >= x THEN @ - x ELSE @]

\* Mutant: a note's own ceiling without its status.
CanDrawCancelled(s, x) ==
  IF s \in Notes THEN applied[s] <= NoteTotal[s] - x
                 ELSE Made(s) /\ pay[s].unapplied >= x
CanDraw(s, x) ==
  IF s \in Notes
  THEN noteStatus[s] = "issued" /\ applied[s] <= NoteTotal[s] - x
  ELSE Made(s) /\ pay[s].unapplied >= x
Draw(s, x) ==
  IF s \in Notes
  THEN applied' = [applied EXCEPT ![s] = @ + x] /\ UNCHANGED pay
  ELSE /\ pay' = [pay EXCEPT ![s].unapplied = @ - x, ![s].allocated = @ + x]
       /\ UNCHANGED applied

\* Mutant: the giving-back update without its floor.
CanGiveBackUnfloored(s, x) == TRUE
CanGiveBack(s, x) ==
  IF s \in Notes THEN applied[s] >= x ELSE Made(s) /\ pay[s].allocated >= x
GiveBack(s, x) ==
  IF s \in Notes
  THEN applied' = [applied EXCEPT ![s] = @ - x] /\ UNCHANGED pay
  ELSE /\ pay' = [pay EXCEPT ![s].allocated = @ - x, ![s].unapplied = @ + x]
       /\ UNCHANGED applied

CanRefund(r, x) == Made(r) /\ pay[r].allocated >= x
\* Mutant: the refund leaves the amount allocated.
RefundKeepsAllocated(r, x) ==
  pay' = [pay EXCEPT ![r].refundable = @ + x, ![r].refund = "pending"]
Refund(r, x) ==
  pay' = [pay EXCEPT ![r].allocated = @ - x, ![r].refundable = @ + x,
                     ![r].refund = "pending"]

\* withdrawUnappliedCreditForInvoice: the receipts it selects.
HoldingReceipts(i) ==
  {r \in Receipts : Made(r) /\ pay[r].inv = i /\ pay[r].refund # "pending"
                            /\ pay[r].unapplied > 0}
Withdraw(r, x) ==
  pay' = [pay EXCEPT ![r].unapplied = @ - x, ![r].refundable = @ + x]

\* markInvoicePaymentsRefundPending
FlagPending(p, i) ==
  [r \in Receipts |-> IF p[r].inv = i THEN [p[r] EXCEPT !.refund = "pending"]
                                          ELSE p[r]]

LiveRow(x, st) == [amount |-> x, state |-> "live", stamped |-> st]
Stamped(r) == [amount |-> r.amount, state |-> r.state, stamped |-> TRUE]
NoRow == [amount |-> 0, state |-> "absent", stamped |-> FALSE]

(***************************************************************************)
(* The book at the start.  An old row is a credit application, whose       *)
(* ledger pair is stamped with it, exactly when its source is a note or a  *)
(* receipt that did not write it.                                          *)
(***************************************************************************)
OldStamped(a) == Writer(a) # SourceOf(a)

OldOn(i) == [a \in OldRows |-> IF InvoiceOf(a) = i THEN OldAmount[a] ELSE 0]
OldFrom(s) == [a \in OldRows |-> IF SourceOf(a) = s THEN OldAmount[a] ELSE 0]
OldRoom(i) == [n \in OldNotes |-> IF NoteInvoice[n] = i THEN NoteTotal[n] ELSE 0]

ASSUME BookShape ==
  /\ IsFiniteSet(Invoices) /\ IsFiniteSet(Notes) /\ IsFiniteSet(Requests)
  /\ IsFiniteSet(OldReceipts) /\ IsFiniteSet(OldRows)
  /\ OldReceipts \cap Requests = {} /\ Notes \cap Receipts = {}
  /\ "none" \notin Invoices
  /\ Total \in [Invoices -> Nat] /\ NoteTotal \in [Notes -> Nat]
  /\ NoteInvoice \in [Notes -> Invoices] /\ OldNotes \subseteq Notes
  /\ Legacy \subseteq Invoices /\ Age \in [Sources -> Nat]
  /\ OldAmount \in [OldRows -> Nat \ {0}] /\ OldPay \in [OldReceipts -> Receipt]
  /\ \A a \in OldRows : /\ a = <<Writer(a), InvoiceOf(a), SourceOf(a)>>
                        /\ Writer(a) \notin Requests \cup Notes /\ InvoiceOf(a) \in Invoices
                        /\ SourceOf(a) \in OldNotes \cup OldReceipts

\* The book was consistent before the run: nothing over-settled, over-applied
\* or over-credited, and each receipt's money is in one place.  Nothing is
\* cancelled yet, so no refund was processed, and what is owed back is flagged.
ASSUME BookSound ==
  /\ \A i \in Invoices : Sum(OldOn(i)) <= Total[i]
  /\ \A n \in Notes : Sum(OldFrom(n)) <= NoteTotal[n]
  /\ \A i \in Invoices : Sum(OldRoom(i)) <= Total[i]
  /\ \A r \in OldReceipts : LET m == OldPay[r] IN
       /\ m.inv \in Invoices /\ m.allocated = Sum(OldFrom(r))
       /\ Whole(m)
       /\ m.refund # "processed" /\ (m.refundable > 0 => m.refund = "pending")

BookInit ==
  /\ status = [i \in Invoices |-> "issued"]
  /\ noteStatus = [n \in Notes |-> IF n \in OldNotes THEN "issued" ELSE "absent"]
  /\ pay = [r \in Receipts |-> IF r \in OldReceipts THEN OldPay[r] ELSE NoReceipt]
  /\ alloc = [a \in RowIds |-> IF a \in OldRows
                               THEN LiveRow(OldAmount[a], OldStamped(a)) ELSE NoRow]
  /\ settled = [i \in Invoices |-> IF i \in Legacy THEN Missing
                                                    ELSE Sum(OldOn(i))]
  /\ applied = [n \in Notes |-> Sum(OldFrom(n))]
  /\ credited = [i \in Invoices |-> Sum(OldRoom(i))]

BookTypeOK ==
  /\ status \in [Invoices -> {"issued", "cancelled"}]
  /\ settled \in [Invoices -> Nat \cup {Missing}]
  /\ credited \in [Invoices -> Nat]
  /\ noteStatus \in [Notes -> {"absent", "issued", "cancelled"}]
  /\ applied \in [Notes -> Nat]
  /\ pay \in [Receipts -> Receipt]
  /\ alloc \in [RowIds -> Row]

=============================================================================
