------------------------------- MODULE Ledger -------------------------------
(***************************************************************************)
(* What the settlement workflows post to the ledger, and the balance of    *)
(* the customer they leave behind.  LedgerEntry rows are never changed or  *)
(* deleted: undoing posts their mirror.  An account is kept here as its    *)
(* net amount per document, which is all a mirror depends on, because the  *)
(* rows a document posted are functions of what it carries for ever: a     *)
(* receipt its amount, an allocation row its amount, a note its total.     *)
(*                                                                         *)
(* Issuing an invoice posts nothing, so the receivable is only ever        *)
(* credited.                                                               *)
(***************************************************************************)
EXTENDS SettlementTx

VARIABLES
  cash,       \* [Receipts -> Int] cash and bank, debited less credited
  receivable, \* [Invoices -> Int] accounts_receivable, credited less debited
  credits,    \* [Sources -> Int]  customer_credits, credited less debited
  sales,      \* [Notes -> Int]    sales, debited less credited
  balance     \* CustomerBalance, copied to the Customer
ledger == <<cash, receivable, credits, sales>>
ledgerVars == <<vars, ledger, balance>>

\* customerBalanceTotals
Totals ==
  LET open(i)  == status[i] # "cancelled"
      live     == {a \in RowIds : alloc[a].state = "live" /\ open(InvoiceOf(a))}
      invoiced == Sum([i \in {j \in Invoices : open(j)} |-> Total[i]])
      paid     == Sum([a \in live |-> alloc[a].amount])
  IN  [dues |-> IF paid < invoiced THEN invoiced - paid ELSE 0,
       credit |-> Sum([s \in Sources |-> Remaining(s)])]

LedgerInit ==
  /\ Init
  /\ cash = [r \in Receipts |-> pay[r].amount - pay[r].refundable]
  /\ receivable = [i \in Invoices |-> Live(i)]
  /\ credits = [s \in Sources |-> Remaining(s)]
  /\ sales = [n \in Notes |-> IF noteStatus[n] = "issued" THEN NoteTotal[n] ELSE 0]
  /\ balance = Totals

Refreshed == balance' = Totals'

(***************************************************************************)
(* The rows a receipt posted: one debit of all its cash, a credit per      *)
(* invoice it settled, and one of what it left over; the first and the     *)
(* last hang off the invoice it is booked against.                         *)
(***************************************************************************)
OwnRows == {a \in RowIds : Writer(a) = SourceOf(a)}
SettledCash(i) == Sum([a \in {b \in OwnRows : InvoiceOf(b) = i} |-> alloc[a].amount])
Overpaid(r) ==
  pay[r].amount - Sum([a \in {b \in OwnRows : SourceOf(b) = r} |-> alloc[a].amount])

PostReceipt(p, amount) ==
  /\ cash' = [cash EXCEPT ![p] = @ + amount]
  /\ receivable' = [i \in Invoices |-> receivable[i] + alloc'[<<p, i, p>>].amount]
  /\ credits' = [credits EXCEPT ![p] = @ + pay'[p].unapplied]
  /\ UNCHANGED sales /\ Refreshed

\* creditApplicationEntries, of each row the application wrote
PostApplication(p, i) ==
  LET drawn(s) == alloc'[<<p, i, s>>].amount IN
  /\ credits' = [s \in Sources |-> credits[s] - drawn(s)]
  /\ receivable' = [receivable EXCEPT ![i] = @ + Sum([s \in Sources |-> drawn(s)])]
  /\ UNCHANGED <<cash, sales>> /\ Refreshed

\* reverseLedgerEntries of the pair the application posted
PostReversal(a) ==
  /\ credits' = [credits EXCEPT ![SourceOf(a)] = @ + alloc[a].amount]
  /\ receivable' = [receivable EXCEPT ![InvoiceOf(a)] = @ - alloc[a].amount]
  /\ UNCHANGED <<cash, sales>> /\ Refreshed

(***************************************************************************)
(* reverseLedgerForInvoice.  The receivable rows are mirrored in full; two *)
(* rows belong to the whole receipt, and are mirrored only for the credit  *)
(* that was withdrawn and for the cash that leaves with this invoice.      *)
(***************************************************************************)
Withdrawn(i, r) ==
  IF pay[r].inv = i THEN CancelledReceipt(i, r).refundable - pay[r].refundable ELSE 0
\* Mutant: the row is mirrored in full, spent credit included.
CreditMirroredWhole(i, r) == IF pay[r].inv = i THEN Overpaid(r) ELSE 0
CreditMirrored(i, r) == Least(Overpaid(r), Withdrawn(i, r))
CashMirrored(i, r) ==
  LET kept == {a \in RowIds \ CreditRows(i) :
                 alloc[a].state = "live" /\ InvoiceOf(a) = i /\ SourceOf(a) = r}
  IN  IF pay[r].inv = i
      THEN Least(pay[r].amount, Withdrawn(i, r) + Sum([a \in kept |-> alloc[a].amount]))
      ELSE 0

PostCancellation(i) ==
  LET back == CreditRows(i) IN
  /\ cash' = [r \in Receipts |->
       cash[r] - Least(pay[r].amount, TakenFrom(CrossRows(i), r)) - CashMirrored(i, r)]
  /\ receivable' = [receivable EXCEPT ![i] = @ - SettledOn(back, i) - SettledCash(i)]
  /\ credits' = [s \in Sources |->
       credits[s] + TakenFrom(back, s) - IF s \in Receipts THEN CreditMirrored(i, s) ELSE 0]
  /\ UNCHANGED sales /\ Refreshed

\* postCreditNoteLedger, and its mirror
PostNote(n) ==
  /\ sales' = [sales EXCEPT ![n] = @ + NoteTotal[n]]
  /\ credits' = [credits EXCEPT ![n] = @ + NoteTotal[n]]
  /\ UNCHANGED <<cash, receivable>> /\ Refreshed

PostNoteCancellation(n) ==
  /\ sales' = [sales EXCEPT ![n] = @ - NoteTotal[n]]
  /\ credits' = [credits EXCEPT ![n] = @ - NoteTotal[n]]
  /\ UNCHANGED <<cash, receivable>> /\ Refreshed

\* Each workflow posts in its own transaction; marking a refund processed posts nothing.
LedgerNext ==
  \/ \E p \in Requests, T \in TargetLists, x \in Amounts, allow \in BOOLEAN :
       RecordPayment(p, T, x, allow) /\ PostReceipt(p, x)
  \/ \E p \in Requests, i \in Invoices, x \in Amounts :
       ApplyCredit(p, i, x) /\ PostApplication(p, i)
  \/ \E a \in RowIds : ReverseCredit(a) /\ PostReversal(a)
  \/ \E i \in Invoices : CancelInvoice(i) /\ PostCancellation(i)
  \/ \E i \in Invoices : MarkRefundProcessed(i) /\ UNCHANGED <<ledger, balance>>
  \/ \E n \in Notes : IssueNote(n) /\ PostNote(n)
  \/ \E n \in Notes : CancelNote(n) /\ PostNoteCancellation(n)

LedgerSpec == LedgerInit /\ [][LedgerNext]_ledgerVars

-----------------------------------------------------------------------------
\* Own cash a receipt keeps on cancelled invoices, for the audit trail.
Stranded(r) == Sum([a \in {b \in OwnRows : SourceOf(b) = r} |->
  IF alloc[a].state = "live" /\ status[InvoiceOf(a)] = "cancelled" THEN alloc[a].amount ELSE 0])

\* The liability booked for every source is the credit it still offers, whatever was
\* applied, reversed, withdrawn and cancelled in between (the comment at 192-196 names the
\* double compensation this excludes).
CreditsBacked == \A s \in Sources : credits[s] = Remaining(s)

\* Cash is what came in less what is owed back: an amount that moved to another invoice, or
\* that settles one still standing, has not gone out.
CashBacked ==
  \A r \in Receipts : cash[r] = pay[r].amount - pay[r].refundable - Stranded(r)

\* An open invoice has its settlements posted to it, a cancelled one nothing.
ReceivableBacked ==
  \A i \in Invoices : receivable[i] = IF status[i] = "cancelled" THEN 0 ELSE Live(i)

\* The customer's stored balance and the ledger tell the same story, and debits are credits.
BalanceAgrees ==
  LET open == {i \in Invoices : status[i] # "cancelled"} IN
  /\ balance.credit = Sum(credits)
  /\ balance.dues = Sum([i \in open |-> Total[i] - receivable[i]])
  /\ Sum(cash) + Sum(sales) = Sum(receivable) + Sum(credits)

LedgerExact == CreditsBacked /\ CashBacked /\ ReceivableBacked /\ BalanceAgrees

-----------------------------------------------------------------------------
\* What LedgerExact rests on.  A row is empty until it is written, once, and carries a
\* ledger pair exactly when its source is not the receipt that wrote it; the cash of such a
\* receipt leaves an invoice only with the invoice, and is owed back from then on.
RowsPlain == \A a \in RowIds :
  /\ alloc[a].state = "absent" => alloc[a] = NoRow
  /\ alloc[a].state # "absent" =>
       alloc[a].amount > 0 /\ (alloc[a].stamped <=> a \notin OwnRows)
  /\ alloc[a].state = "reversed" /\ a \in OwnRows =>
       status[InvoiceOf(a)] = "cancelled" /\ pay[SourceOf(a)].refund # "none"

\* A receipt never settled more than it brought, its money is in one place, and a note
\* that does not stand settles nothing.
SourcesPlain ==
  /\ \A r \in Receipts : Overpaid(r) >= 0 /\ Whole(pay[r])
  /\ \A n \in Notes : noteStatus[n] # "issued" => applied[n] = 0

\* Sales are reduced by the notes that stand, and the balance is never left unrefreshed.
SalesBacked ==
  \A n \in Notes : sales[n] = IF noteStatus[n] = "issued" THEN NoteTotal[n] ELSE 0
LedgerTypeOK ==
  /\ cash \in [Receipts -> Int] /\ receivable \in [Invoices -> Int]
  /\ credits \in [Sources -> Int] /\ sales \in [Notes -> Int]
  /\ balance = Totals

Booked == LedgerTypeOK /\ RowsPlain /\ SourcesPlain /\ SalesBacked

=============================================================================
