---------------------------- MODULE SettlementTx ----------------------------
(***************************************************************************)
(* The settlement workflows as they run when deployed: each inside         *)
(* withTransaction, a snapshot transaction that rewrites documents every   *)
(* other workflow of the same customer rewrites too (the invoice and the   *)
(* CustomerBalance), so two of them never commit from overlapping          *)
(* snapshots: the loser is retried from the start.  Each workflow is one   *)
(* action, and a workflow that throws leaves no trace, so only the         *)
(* committing path of each is an action.                                   *)
(*                                                                         *)
(* A request that writes rows takes the next unused name of Requests.      *)
(***************************************************************************)
EXTENDS SettlementBook

CONSTANTS TargetLists, Amounts \* as in Settlement

ASSUME WorkflowShape ==
  /\ TargetLists \subseteq Seq(Invoices) /\ \A T \in TargetLists : T # <<>>
  /\ Amounts \subseteq Nat \ {0}

VARIABLE used \* requests that have committed
vars == <<book, used>>

Init == BookInit /\ used = {}

Take(p) ==
  /\ p \in Requests \ used
  /\ \A q \in Requests \ used : Age[p] <= Age[q]
  /\ used' = used \cup {p}

Balance(i) == Total[i] - Live(i)

(***************************************************************************)
(* rehydrateSettlementBaseline and the claim, in one transaction: nobody   *)
(* moves the counter in between.                                           *)
(***************************************************************************)
Baseline(i) == IF settled[i] = Missing \/ settled[i] < Live(i) THEN Live(i) ELSE settled[i]
Reserve(x) == \* x : [Invoices -> Nat]
  /\ \A i \in Invoices : x[i] > 0 => Baseline(i) + x[i] <= Total[i]
  /\ settled' = [i \in Invoices |-> IF x[i] > 0 THEN Baseline(i) + x[i] ELSE settled[i]]

\* recordInvoicePaymentWorkflow, recordCustomerPaymentWorkflow
\* share fills the invoices of T in their order, each up to its balance.
IsGreedyFill(share, T, amount) ==
  /\ Sum(share) <= amount
  /\ \A i \in Invoices : /\ share[i] <= Balance(i)
                         /\ share[i] > 0 => \E k \in DOMAIN T : T[k] = i
  /\ \A k \in DOMAIN T : share[T[k]] < Balance(T[k]) =>
       Sum(share) = amount /\ \A l \in DOMAIN T : k < l => share[T[l]] = 0

RecordPayment(p, T, amount, allowCredit) ==
  \E share \in [Invoices -> 0..amount] :
    /\ Take(p)
    /\ \A k \in DOMAIN T : status[T[k]] # "cancelled"
    /\ IsGreedyFill(share, T, amount)
    /\ Sum(share) < amount => allowCredit
    /\ Reserve(share)
    /\ pay' = [pay EXCEPT ![p] = NewReceipt(T[Len(T)], amount, Sum(share))]
    /\ alloc' = [a \in RowIds |->
         IF Writer(a) = p /\ SourceOf(a) = p /\ share[InvoiceOf(a)] > 0
         THEN LiveRow(share[InvoiceOf(a)], FALSE) ELSE alloc[a]]
    /\ UNCHANGED <<status, credited, noteVars>>

\* applyCreditWorkflow
ApplyCredit(p, i, amount) ==
  /\ Take(p)
  /\ status[i] # "cancelled"
  /\ amount <= Balance(i)
  /\ Reserve([j \in Invoices |-> IF j = i THEN amount ELSE 0])
  /\ \E drawn \in [{s \in Sources : Remaining(s) > 0} -> 0..amount] :
       LET plan == [s \in Sources |-> IF s \in DOMAIN drawn THEN drawn[s] ELSE 0] IN
       /\ IsGreedyPlan(plan, amount)
       /\ applied' = [n \in Notes |-> applied[n] + plan[n]]
       /\ pay' = [r \in Receipts |->
            [pay[r] EXCEPT !.unapplied = @ - plan[r], !.allocated = @ + plan[r]]]
       /\ alloc' = [a \in RowIds |->
            IF Writer(a) = p /\ InvoiceOf(a) = i /\ plan[SourceOf(a)] > 0
            THEN LiveRow(plan[SourceOf(a)], TRUE) ELSE alloc[a]]
  /\ UNCHANGED <<status, credited, noteStatus>>

Reversed(A) ==
  [a \in RowIds |-> IF a \in A THEN [alloc[a] EXCEPT !.state = "reversed"] ELSE alloc[a]]

\* What the rows of A took from source s, from invoice i.
\* Mutant: only notes get back what they gave.
TakenFromNotes(A, s) ==
  Sum([a \in A |-> IF SourceOf(a) = s /\ s \in Notes THEN alloc[a].amount ELSE 0])
TakenFrom(A, s) == Sum([a \in A |-> IF SourceOf(a) = s THEN alloc[a].amount ELSE 0])
\* Mutant: the sweep forgets the reservations of what it reverses.
SettledOnNothing(A, i) == 0
SettledOn(A, i) == Sum([a \in A |-> IF InvoiceOf(a) = i THEN alloc[a].amount ELSE 0])

\* reverseCreditApplicationWorkflow
ReverseCredit(a) ==
  /\ alloc[a].state = "live" /\ alloc[a].stamped
  /\ status[InvoiceOf(a)] # "cancelled"
  /\ CanGiveBack(SourceOf(a), alloc[a].amount)
  /\ GiveBack(SourceOf(a), alloc[a].amount)
  /\ alloc' = Reversed({a})
  /\ ReleaseSettlement(InvoiceOf(a), alloc[a].amount)
  /\ UNCHANGED <<status, credited, noteStatus, used>>

(***************************************************************************)
(* cancelInvoiceWorkflow: the credit applied to the invoice goes back to   *)
(* its sources, cash from receipts booked elsewhere becomes refundable,    *)
(* the credit its own receipts hold is withdrawn, and they are flagged.    *)
(***************************************************************************)
CreditRows(i) == {a \in RowIds :
  alloc[a].state = "live" /\ InvoiceOf(a) = i /\ alloc[a].stamped}
\* Mutant: cash from receipts booked elsewhere stays on the cancelled invoice.
CrossRowsIgnored(i) == {}
CrossRows(i) == {a \in RowIds :
  /\ alloc[a].state = "live" /\ InvoiceOf(a) = i /\ ~alloc[a].stamped
  /\ SourceOf(a) \in Receipts /\ pay[SourceOf(a)].inv # i}

\* Mutant: withdraw without recording what is owed.
WithdrawUnrecorded(m) == [m EXCEPT !.unapplied = 0, !.refund = "pending"]
\* withdrawUnappliedCreditForInvoice and markInvoicePaymentsRefundPending
WithdrawAndFlag(m) ==
  LET pool == IF m.refund = "pending" THEN 0 ELSE m.unapplied
  IN  [m EXCEPT !.unapplied = @ - pool, !.refundable = @ + pool, !.refund = "pending"]

CancelledReceipt(i, r) ==
  LET back  == TakenFrom(CreditRows(i), r)
      cross == TakenFrom(CrossRows(i), r)
      swept == [pay[r] EXCEPT !.allocated = @ - (back + cross), !.unapplied = @ + back,
                  !.refundable = @ + cross, !.refund = IF cross > 0 THEN "pending" ELSE @]
  IN  IF swept.inv = i THEN WithdrawAndFlag(swept) ELSE swept

CancelInvoice(i) ==
  LET gone == CreditRows(i) \cup CrossRows(i) IN
  /\ status[i] # "cancelled"
  /\ LiveNotes(i) = {}
  /\ \A s \in {SourceOf(a) : a \in gone} : CanGiveBack(s, TakenFrom(gone, s))
  /\ status' = [status EXCEPT ![i] = "cancelled"]
  /\ alloc' = Reversed(gone)
  /\ ReleaseSettlement(i, SettledOn(gone, i))
  /\ applied' = [n \in Notes |-> applied[n] - TakenFrom(gone, n)]
  /\ pay' = [r \in Receipts |-> CancelledReceipt(i, r)]
  /\ UNCHANGED <<credited, noteStatus, used>>

\* markInvoiceRefundProcessedWorkflow
MarkRefundProcessed(i) ==
  LET due == {r \in Receipts : pay[r].inv = i /\ pay[r].refund = "pending"} IN
  /\ status[i] = "cancelled"
  /\ due # {}
  /\ pay' = [r \in Receipts |-> IF r \in due THEN [pay[r] EXCEPT !.refund = "processed"]
                                             ELSE pay[r]]
  /\ UNCHANGED <<invoiceVars, noteVars, alloc, used>>

\* createDocumentWorkflow, cancelDocumentWorkflow of a credit note
IssueNote(n) ==
  /\ noteStatus[n] = "absent"
  /\ CanClaimCredit(NoteInvoice[n], NoteTotal[n])
  /\ ClaimCredit(NoteInvoice[n], NoteTotal[n])
  /\ noteStatus' = [noteStatus EXCEPT ![n] = "issued"]
  /\ UNCHANGED <<status, settled, applied, pay, alloc, used>>

CancelNote(n) ==
  /\ noteStatus[n] = "issued" /\ applied[n] = 0
  /\ \A a \in RowIds : ~(alloc[a].state = "live" /\ SourceOf(a) = n)
  /\ noteStatus' = [noteStatus EXCEPT ![n] = "cancelled"]
  /\ ReleaseCredit(NoteInvoice[n], NoteTotal[n])
  /\ UNCHANGED <<status, settled, applied, pay, alloc, used>>

Next ==
  \/ \E p \in Requests, T \in TargetLists, x \in Amounts, allow \in BOOLEAN :
       RecordPayment(p, T, x, allow)
  \/ \E p \in Requests, i \in Invoices, x \in Amounts : ApplyCredit(p, i, x)
  \/ \E a \in RowIds : ReverseCredit(a)
  \/ \E i \in Invoices : CancelInvoice(i) \/ MarkRefundProcessed(i)
  \/ \E n \in Notes : IssueNote(n) \/ CancelNote(n)

Spec == Init /\ [][Next]_vars

-----------------------------------------------------------------------------
TypeOK == BookTypeOK /\ used \subseteq Requests

\* A request that has not committed has left nothing behind, and a receipt that was
\* not recorded holds no money.
Untouched ==
  /\ \A p \in Requests \ used : ~Made(p) /\ \A a \in RowIds : Writer(a) = p => alloc[a] = NoRow
  /\ \A r \in Receipts : ~Made(r) => pay[r] = NoReceipt

\* The capacity counter is exactly what settles the invoice, or has never been
\* written (an invoice older than the field): no capacity leaks or is counted
\* twice over any sequence of workflows.
CapacityExact ==
  \A i \in Invoices : /\ settled[i] \in {Live(i), Missing}
                      /\ Live(i) <= Total[i]
CapacityKept == TypeOK /\ Untouched /\ CapacityExact

\* Every source is short of exactly what it settles, so credit is neither lost
\* nor minted by applying, reversing and cancelling in any order.
SourcesExact ==
  /\ \A n \in Notes : applied[n] = Spent(n) /\ Spent(n) <= NoteTotal[n]
  /\ \A r \in Receipts : Made(r) => pay[r].allocated = Spent(r)
\* What settles is a recorded receipt or a note, and a note only with a ledger pair.
RowsFunded ==
  \A a \in RowIds : alloc[a].state = "live" =>
    \/ SourceOf(a) \in Receipts /\ Made(SourceOf(a))
    \/ SourceOf(a) \in Notes /\ alloc[a].stamped
SourcesKept == SourcesExact /\ RowsFunded

\* Issued notes stand on issued invoices and fit in them; the room counter is
\* exactly theirs.
NotesBacked ==
  \A i \in Invoices : /\ LiveNotes(i) # {} => status[i] = "issued"
                      /\ credited[i] = Sum([n \in LiveNotes(i) |-> NoteTotal[n]])
                      /\ credited[i] <= Total[i]

\* A cancelled invoice keeps only the cash of its own receipts, which stay on it
\* for the audit trail and are flagged for refund; all else went back.
CancelledKeepsOwnCash ==
  \A a \in RowIds : alloc[a].state = "live" /\ status[InvoiceOf(a)] = "cancelled" =>
    /\ ~alloc[a].stamped
    /\ pay[SourceOf(a)].inv = InvoiceOf(a)
    /\ pay[SourceOf(a)].refund \in {"pending", "processed"}

\* Money owed back is flagged, and marked processed only once its own invoice
\* was cancelled.
RefundsFlagged ==
  \A r \in Receipts : /\ pay[r].refundable > 0 => pay[r].refund # "none"
                      /\ pay[r].refund = "processed" => status[pay[r].inv] = "cancelled"
OwnCashKept == CancelledKeepsOwnCash /\ RefundsFlagged

\* "Credit this invoice's own receipts still hold stops being spendable and
\* becomes cash owed back, so the same money is never both applicable credit
\* and a pending refund" (cancelInvoiceWorkflow).  It does not hold for a
\* receipt that an earlier cancellation already flagged.
CancelWithdrawsCredit ==
  [][\A i \in Invoices : status[i] = "issued" /\ status'[i] = "cancelled" =>
       \A r \in Receipts : pay[r].inv = i => pay'[r].unapplied = 0]_vars

\* The transactions keep the promise of SettlementPromise, for every invoice.
Promise == INSTANCE SettlementPromise WITH
  open <- [i \in Invoices |-> status[i] = "issued"],
  taken <- [i \in Invoices |-> Live(i)],
  purse <- pay,
  excused <- {}
PromiseKept == Promise!Spec

=============================================================================
