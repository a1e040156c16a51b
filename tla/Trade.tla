------------------------------- MODULE Trade -------------------------------
(***************************************************************************)
(* The papers of a trade (orders, quotations, challans, invoices, credit   *)
(* notes, purchase bills) and the stock of the product on them, one unit   *)
(* each.  A workflow is one step: it runs in a transaction and writes what *)
(* it decides on (the product, the paper it starts from, the number        *)
(* series, the vendor), so overlapping ones conflict and are run again.    *)
(* cancelOrder alone reads and saves outside one.                          *)
(***************************************************************************)
EXTENDS MoneySum, Integers

CONSTANTS
  Papers,      \* 1..n, in the order they are written (bound)
  Stocks,      \* quantities a user enters (bound)
  BillTotal,   \* total of a purchase bill
  MaxEdits     \* bound: edits of the product, payments on account

TradeShape ==
  /\ Papers \subseteq Nat \ {0} /\ IsFiniteSet(Papers) /\ Stocks \subseteq Nat
  /\ BillTotal \in Nat /\ MaxEdits \in Nat

VARIABLES
  stock, tracked,     \* Product: stockQuantity, and trackStock or "gone" once deleted
  recorded,           \* sum of quantityChange over the StockMovements
  paper,              \* the documents
  cancelling,         \* orders that cancelOrder requests have found without an invoice
  onAccount, payable, \* paid to the vendor without a bill; Vendor.outstandingPayable
  edits,
  unrecorded,         \* ghost: a quantity was entered without a movement
  switched,           \* ghost: papers during whose life tracking was switched
  forced, raced       \* ghosts: stock taken without a guard; order invoiced while cancelled

vars == <<stock, tracked, recorded, paper, cancelling, onAccount, payable, edits,
          unrecorded, switched, forced, raced>>

NoPaper == [kind |-> "order", state |-> "none", src |-> 0, moved |-> 0, paid |-> 0]

\* createProduct.
Init ==
  /\ tracked \in {"yes", "no"} /\ stock \in Stocks
  /\ recorded = IF tracked = "yes" THEN stock ELSE 0
  /\ unrecorded = (tracked = "no" /\ stock # 0)
  /\ paper = [d \in Papers |-> NoPaper] /\ cancelling = {}
  /\ onAccount = 0 /\ payable = 0 /\ edits = 0
  /\ switched = {} /\ forced = FALSE /\ raced = FALSE

TypeOK ==
  /\ stock \in Int /\ tracked \in {"yes", "no", "gone"} /\ recorded \in Int
  /\ paper \in [Papers -> [
        kind : {"order", "quotation", "challan", "invoice", "note", "bill"},
        state : {"none", "draft", "confirmed", "issued", "void", "cancelled", "deleted"},
        src : Papers \cup {0}, moved : -1..1, paid : 0..BillTotal]]
  /\ cancelling \subseteq Papers
  /\ onAccount \in Nat /\ payable \in Nat /\ edits \in 0..MaxEdits
  /\ unrecorded \in BOOLEAN /\ switched \subseteq Papers
  /\ forced \in BOOLEAN /\ raced \in BOOLEAN

Is(d, kind, state) == paper[d].kind = kind /\ paper[d].state = state
Unused(d) == paper[d].state = "none" /\ \A e \in Papers : paper[e].state = "none" => d <= e
Alive == {d \in Papers : paper[d].state \notin {"none", "cancelled", "deleted"}}
InvoicesOf(d) ==
  {e \in Papers : paper[e].kind = "invoice" /\ paper[e].src = d /\ paper[e].state # "deleted"}
HasLiveInvoice(d) == \E e \in InvoicesOf(d) : paper[e].state # "cancelled"
Invoiced(d) == InvoicesOf(d) # {}
Credited(d) == \E e \in Papers : Is(e, "note", "issued") /\ paper[e].src = d
New(kind, state, src, n) == [kind |-> kind, state |-> state, src |-> src, moved |-> n, paid |-> 0]
product == <<tracked, edits, unrecorded, switched>>
vendor == <<onAccount, payable>>
orders == <<cancelling, raced>>

-----------------------------------------------------------------------------
\* stockAdjustmentsForInvoice and stockMovementsForPurchase: an $inc with its movement,
\* nothing for a product that is not tracked or gone.
Moves(n) == IF tracked = "yes" THEN n ELSE 0
Adjust(n, guarded) ==
  /\ guarded /\ Moves(n) < 0 => stock >= 1
  /\ stock' = stock + Moves(n) /\ recorded' = recorded + Moves(n)
  /\ forced' = (forced \/ (~guarded /\ Moves(n) < 0))

\* normalizeItems: the product is there and, whatever the paper does to the stock, in stock.
Available(oversell) == tracked # "gone" /\ (tracked = "yes" => oversell \/ stock >= 1)

\* createOrderWorkflow.
CreateOrder(d) ==
  /\ Unused(d) /\ Available(TRUE)
  /\ paper' = [paper EXCEPT ![d] = New("order", "draft", 0, 0)] /\ Adjust(0, TRUE)
  /\ UNCHANGED <<product, vendor, orders>>

\* A paper is issued and moves the stock by its stockDirection.
Direction(kind) == CASE kind = "quotation" -> 0 [] kind = "note" -> 1 [] OTHER -> -1
Issue(d, kind, src, oversell) ==
  /\ Unused(d) /\ Available(oversell)
  /\ LET n == Moves(Direction(kind)) IN
     paper' = [paper EXCEPT ![d] = New(kind, "issued", src, n)] /\ Adjust(n, ~oversell)
  /\ UNCHANGED <<product, vendor, orders>>

\* createInvoiceWorkflow, duplicateInvoiceWorkflow (which never oversells).
CreateInvoice(d, oversell) == Issue(d, "invoice", 0, oversell)

\* createDocumentWorkflow: one note takes all the credit room of its invoice.
CreateDocument(d, kind, oversell) == Issue(d, kind, 0, oversell)
CreateNote(d, src, oversell) ==
  /\ Is(src, "invoice", "issued") /\ ~Credited(src)
  /\ Issue(d, "note", src, oversell)

\* generateInvoiceForOrderWorkflow: once, and not for a cancelled order.
Invoiceable(o) == Is(o, "order", "draft") \/ Is(o, "order", "confirmed")
GenerateInvoice(o, d, oversell) ==
  /\ Invoiceable(o) /\ ~Invoiced(o) /\ Unused(d) /\ Available(oversell)
  /\ paper' = [paper EXCEPT ![o].state = "confirmed", ![d] = New("invoice", "issued", o, Moves(-1))]
  /\ Adjust(-1, ~oversell)
  /\ raced' = (raced \/ o \in cancelling)
  /\ UNCHANGED <<product, vendor, cancelling>>

\* convertDocumentWorkflow: a challan has moved the stock already.
Convert(q, d, oversell) ==
  /\ Is(q, "quotation", "issued") \/ Is(q, "challan", "issued")
  /\ ~Invoiced(q) /\ Unused(d) /\ Available(oversell)
  /\ LET n == IF paper[q].kind = "challan" THEN 0 ELSE Moves(-1) IN
     /\ paper' = [paper EXCEPT ![q].state = "void", ![d] = New("invoice", "issued", q, n)]
     /\ Adjust(n, ~oversell)
  /\ UNCHANGED <<product, vendor, orders>>

\* cancelInvoiceWorkflow and cancelDocumentWorkflow put back what the kind of paper moves.
PutBack(d) ==
  /\ LET n == Moves(-Direction(paper[d].kind)) IN
     paper' = [paper EXCEPT ![d].state = "cancelled", ![d].moved = @ + n] /\ Adjust(n, TRUE)
  /\ UNCHANGED <<product, vendor, orders>>
CancelInvoice(d) == Is(d, "invoice", "issued") /\ ~Credited(d) /\ PutBack(d)
CancelDocument(d) ==
  /\ paper[d].kind \in {"quotation", "challan", "note"} /\ paper[d].state = "issued"
  /\ PutBack(d)

\* deleteInvoiceWorkflow: refused once the invoice has movements or notes of its own, so
\* nothing is put back.
DeletableIfUncredited(d) == ~Credited(d)
Deletable(d) == paper[d].moved = 0 /\ ~Credited(d)
DeleteInvoice(d) ==
  /\ Is(d, "invoice", "issued") /\ Deletable(d)
  /\ paper' = [paper EXCEPT ![d].state = "deleted"] /\ Adjust(0, TRUE)
  /\ UNCHANGED <<product, vendor, orders>>

\* cancelOrderWorkflow: read, look for an invoice, save the order that was read.
FindOrder(o) ==
  /\ Invoiceable(o) /\ ~Invoiced(o)
  /\ cancelling' = cancelling \cup {o}
  /\ UNCHANGED <<stock, recorded, forced, product, vendor, paper, raced>>
SaveOrder(o) ==
  /\ o \in cancelling /\ cancelling' = cancelling \ {o}
  /\ paper' = [paper EXCEPT ![o].state = "cancelled"]
  /\ UNCHANGED <<stock, recorded, forced, product, vendor, raced>>

-----------------------------------------------------------------------------
\* vendorPayableTotals: what is billed less what is paid, recomputed after every step.
BillsOf(p) == {d \in Papers : p[d].kind = "bill" /\ p[d].state = "issued"}
Payable(p, extra) ==
  LET paid == Sum([d \in Papers |-> p[d].paid]) + extra
      due == BillTotal * Cardinality(BillsOf(p)) - paid
  IN IF due > 0 THEN due ELSE 0
Books(p, extra) == paper' = p /\ onAccount' = extra /\ payable' = Payable(p, extra)

\* createPurchaseWorkflow, cancelPurchaseWorkflow: goods received or sent back are not guarded.
Receive(d) ==
  /\ Unused(d) /\ Books([paper EXCEPT ![d] = New("bill", "issued", 0, Moves(1))], onAccount)
  /\ Adjust(1, FALSE)
  /\ UNCHANGED <<product, orders>>
MayCancelPaidBill(d) == Is(d, "bill", "issued")
MayCancelBill(d) == Is(d, "bill", "issued") /\ paper[d].paid = 0
CancelBill(d) ==
  /\ MayCancelBill(d)
  /\ Books([paper EXCEPT ![d].state = "cancelled", ![d].moved = @ + Moves(-1)], onAccount)
  /\ Adjust(-1, FALSE)
  /\ UNCHANGED <<product, orders>>

\* recordVendorPaymentWorkflow, against a bill or on account.
PayBill(d, n) ==
  /\ Is(d, "bill", "issued") /\ n <= BillTotal - paper[d].paid
  /\ Books([paper EXCEPT ![d].paid = @ + n], onAccount)
  /\ UNCHANGED <<stock, recorded, forced, product, orders>>
PayOnAccount(n) ==
  /\ onAccount + n <= MaxEdits
  /\ Books(paper, onAccount + n)
  /\ UNCHANGED <<stock, recorded, forced, product, orders>>

-----------------------------------------------------------------------------
\* updateProduct saves the quantity of the form; the movement is the difference, and there
\* is none while stock is not tracked.
EditProduct(n, t) ==
  /\ tracked # "gone" /\ edits < MaxEdits /\ edits' = edits + 1
  /\ stock' = n /\ tracked' = t
  /\ recorded' = IF t = "yes" THEN recorded + n - stock ELSE recorded
  /\ unrecorded' = (unrecorded \/ (t = "no" /\ n # stock))
  /\ switched' = IF t = tracked THEN switched ELSE switched \cup Alive
  /\ UNCHANGED <<paper, forced, vendor, orders>>
DeleteProduct ==
  /\ tracked # "gone" /\ tracked' = "gone" /\ switched' = switched \cup Alive
  /\ UNCHANGED <<stock, recorded, forced, paper, edits, unrecorded, vendor, orders>>

Next ==
  \/ \E d \in Papers :
       \/ CreateOrder(d) \/ CancelInvoice(d) \/ CancelDocument(d)
       \/ DeleteInvoice(d) \/ FindOrder(d) \/ SaveOrder(d)
       \/ Receive(d) \/ CancelBill(d)
       \/ \E n \in 1..BillTotal : PayBill(d, n)
       \/ \E oversell \in BOOLEAN :
            \/ CreateInvoice(d, oversell)
            \/ \E kind \in {"quotation", "challan"} : CreateDocument(d, kind, oversell)
            \/ \E o \in Papers : \/ CreateNote(d, o, oversell) \/ GenerateInvoice(o, d, oversell)
                                 \/ Convert(o, d, oversell)
  \/ \E n \in 1..BillTotal : PayOnAccount(n)
  \/ \E n \in Stocks, t \in {"yes", "no"} : EditProduct(n, t)
  \/ DeleteProduct

Spec == Init /\ [][Next]_vars

-----------------------------------------------------------------------------
\* The goods a paper has moved, with those of the challan it was made from.
FromChallan(d) == paper[d].src # 0 /\ paper[paper[d].src].kind = "challan"
Net(d) == paper[d].moved + IF FromChallan(d) THEN paper[paper[d].src].moved ELSE 0

\* The stock is the sum of its movements, unless a quantity was entered while it was not
\* tracked; it is below zero only where a paper was allowed to oversell or a purchase was
\* sent back; and a paper that was undone has left nothing moved, unless tracking was
\* switched meanwhile (stockAdjustmentsForInvoice looks at the product of today) or the
\* invoice of a challan was deleted, which leaves the challan's goods out for good.
StockExact ==
  /\ unrecorded \/ stock = recorded
  /\ stock < 0 => forced
  /\ \A d \in Papers :
       paper[d].state \in {"cancelled", "deleted"} =>
         \/ Net(d) = 0 \/ {d, paper[d].src} \cap switched # {}
         \/ paper[d].state = "deleted" /\ FromChallan(d)

\* An order, a quotation or a challan becomes one invoice at most, and none once it is
\* cancelled, unless cancelOrder was under way when the invoice was generated.
InvoicedOnce ==
  \A d \in Papers : paper[d].kind \in {"order", "quotation", "challan"} =>
    /\ Cardinality(InvoicesOf(d)) <= 1
    /\ paper[d].state = "cancelled" => InvoicesOf(d) = {} \/ raced

\* What the vendor is owed is what the open bills still ask, less what was paid on account:
\* no payment is left on a bill that is gone.
PayableExact ==
  LET open == BillsOf(paper)
      due == Sum([d \in open |-> BillTotal - paper[d].paid]) - onAccount
  IN payable = IF due > 0 THEN due ELSE 0
=============================================================================
