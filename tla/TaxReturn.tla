------------------------------ MODULE TaxReturn ------------------------------
(***************************************************************************)
(* From the lines of an invoice to the monthly GST return: the discount    *)
(* split over the lines, tax per line, the tax summary kept on the         *)
(* document, and the sections of GSTR-1 and the figures of GSTR-3B built   *)
(* from the documents of a month.  Amounts are paise and rates percent; a  *)
(* product over a quotient is computed in doubles, which may fall just     *)
(* under the whole number, or the half, that it is.                        *)
(***************************************************************************)
EXTENDS Integers, Sequences, FiniteSets, Functions

CONSTANTS
  Docs,        \* documents, in the order they are made: 1..n
  States,      \* state codes
  Months,      \* return periods
  Carts,       \* lines of a document: [gross, rate (or Inherit), hsn]
  Discounts,   \* [type, value]
  Customers,   \* [registered, at: a state code or NoState]
  DefaultRate, \* the rate of a document, for lines without one
  Change, Threshold, LegacyThreshold, \* B2CL: total above which a sale is listed
  Under        \* <<a, b, c>>: what a * b / c, a whole number or a half, falls under in doubles

TaxShape == \A u \in Under : u[1] * u[2] > 0 /\ (2 * u[1] * u[2]) % u[3] = 0

VARIABLES
  settings,  \* the business: its state and whether prices include tax
  doc,       \* SalesDocument: invoices and credit notes
  takenBack  \* ghost: [Docs -> the note that took all of the invoice's lines, or 0]

vars == <<settings, doc, takenBack>>

Inherit == -1
NoState == "unknown"
NoDoc == [state |-> "none"]
Sum(f) == FoldFunction(LAMBDA a, b : a + b, 0, f)
Heads == {"taxable", "cgst", "sgst", "igst", "tax"}

-----------------------------------------------------------------------------
\* calculateInvoiceTotals
IsWhole(a, b, c) == (a * b) % c = 0
Slip(a, b, c) == IF <<a, b, c>> \in Under THEN 1 ELSE 0
Floored(a, b, c) == (a * b) \div c - (IF IsWhole(a, b, c) THEN Slip(a, b, c) ELSE 0)
Rounded(a, b, c) ==
  (2 * a * b + c) \div (2 * c) - (IF IsWhole(a, b, c) THEN 0 ELSE Slip(a, b, c))
Smaller(a, b) == IF a < b THEN a ELSE b
Larger(a, b) == IF a < b THEN b ELSE a

\* allocateProportionally: parts rounded down, and the paise left over go to the largest.
PartsFloored(amount, weight) ==
  [i \in DOMAIN weight |-> IF Sum(weight) = 0 THEN 0
                           ELSE Floored(weight[i], amount, Sum(weight))]
Parts(amount, weight) ==
  LET floors == PartsFloored(amount, weight)
      left == amount - Sum(floors)
      Before(i) == {j \in DOMAIN weight : \/ weight[j] > weight[i]
                                          \/ weight[j] = weight[i] /\ j < i}
  IN [i \in DOMAIN weight |->
        floors[i] + (IF weight[i] > 0 /\ Cardinality(Before(i)) < left THEN 1 ELSE 0)]

RateOf(line) == IF line.rate = Inherit THEN DefaultRate ELSE line.rate
NetOf(line, inclusive) ==
  IF inclusive THEN Rounded(line.gross, 100, 100 + RateOf(line)) ELSE line.gross

\* A line with its tax; half of it is CGST and the rest SGST, or all of it IGST.
Taxed(line, taxable, inter) ==
  LET tax == Rounded(taxable, RateOf(line), 100)
      cgst == IF inter THEN 0 ELSE Rounded(tax, 1, 2)
  IN [hsn |-> line.hsn, rate |-> RateOf(line), taxable |-> taxable, tax |-> tax,
      cgst |-> cgst, sgst |-> IF inter THEN 0 ELSE tax - cgst,
      igst |-> IF inter THEN tax ELSE 0]

Added(rows, head) == Sum([i \in DOMAIN rows |-> rows[i][head]])
Figures(rows) == [h \in Heads |-> Added(rows, h)]

Totals(cart, discount, inter, inclusive) ==
  LET net == [i \in DOMAIN cart |-> NetOf(cart[i], inclusive)]
      subtotal == Sum(net)
      asked == IF discount.type = "percentage" THEN Rounded(subtotal, discount.value, 100)
               ELSE discount.value
      off == Smaller(asked, subtotal)
      share == Parts(off, net)
      rows == [i \in DOMAIN cart |-> Taxed(cart[i], Larger(net[i] - share[i], 0), inter)]
  IN [subtotal |-> subtotal, off |-> off, share |-> share, net |-> net, rows |-> rows,
      total |-> Added(rows, "taxable") + Added(rows, "tax")]

\* taxSummary: one row for every HSN and rate.
KeyOf(row) == <<row.hsn, row.rate>>
Summary(rows) ==
  [k \in {KeyOf(rows[i]) : i \in DOMAIN rows} |->
     Figures([i \in {j \in DOMAIN rows : KeyOf(rows[j]) = k} |-> rows[i]])]

-----------------------------------------------------------------------------
\* resolveDocumentSupply: an explicit place, the customer's own, the supplier's.
PlaceOf(explicit, party) ==
  IF explicit # NoState THEN explicit
  ELSE IF party.at # NoState THEN party.at ELSE settings.home
IsInter(place) == settings.home # NoState /\ place # NoState /\ place # settings.home

Made(kind, source, month, cart, discount, party, explicit) ==
  LET place == PlaceOf(explicit, party)
      t == Totals(cart, discount, IsInter(place), settings.inclusive)
  IN [state |-> "issued", kind |-> kind, source |-> source, month |-> month,
      cart |-> cart, discount |-> discount,
      party |-> party, place |-> place, inter |-> IsInter(place), under |-> settings,
      total |-> t.total, figures |-> t, summary |-> Summary(t.rows)]

Init ==
  /\ settings \in [home : States \cup {NoState}, inclusive : BOOLEAN]
  /\ doc = [d \in Docs |-> NoDoc]
  /\ takenBack = [d \in Docs |-> 0]

TypeOK ==
  /\ settings \in [home : States \cup {NoState}, inclusive : BOOLEAN]
  /\ DOMAIN doc = Docs
  /\ \A d \in Docs :
       doc[d] = NoDoc \/ /\ doc[d].state \in {"issued", "cancelled"}
                         /\ doc[d].kind \in {"invoice", "credit_note"}
                         /\ doc[d].total \in Nat
  /\ takenBack \in [Docs -> Docs \cup {0}]

IsNext(d) == doc[d] = NoDoc /\ \A c \in Docs : doc[c] = NoDoc => d <= c
Issued(kind) == {d \in Docs : doc[d] # NoDoc /\ doc[d].state = "issued" /\ doc[d].kind = kind}
NotesOn(d) == {n \in Issued("credit_note") : doc[n].source = d}

\* createInvoiceWorkflow; the date is that of the form.
Issue(d, month, cart, discount, party) ==
  /\ IsNext(d)
  /\ doc' = [doc EXCEPT ![d] = Made("invoice", 0, month, cart, discount, party, NoState)]
  /\ UNCHANGED <<settings, takenBack>>

\* createDocumentWorkflow for a credit note: it inherits the place of supply, and its total
\* must find room on the invoice.  It may take all lines back, or other ones.
Room(d) == doc[d].total - Sum([n \in NotesOn(d) |-> doc[n].total])
Credit(n, d, month, cart, discount) ==
  /\ IsNext(n) /\ d \in Issued("invoice")
  /\ LET note == Made("credit_note", d, month, cart, discount, doc[d].party, doc[d].place)
     IN /\ note.total <= Room(d)
        /\ doc' = [doc EXCEPT ![n] = note]
        /\ takenBack' = IF cart = doc[d].cart /\ discount = doc[d].discount
                        THEN [takenBack EXCEPT ![d] = n] ELSE takenBack
  /\ UNCHANGED settings

\* An invoice with a credit note cannot be cancelled.
Cancel(d) ==
  /\ d \in Issued("invoice") \cup Issued("credit_note") /\ NotesOn(d) = {}
  /\ doc' = [doc EXCEPT ![d].state = "cancelled"]
  /\ takenBack' = [i \in Docs |-> IF takenBack[i] = d THEN 0 ELSE takenBack[i]]
  /\ UNCHANGED settings

\* The owner moves the business, or changes how prices are quoted.
Resettle(s) == settings' = s /\ s # settings /\ UNCHANGED <<doc, takenBack>>

-----------------------------------------------------------------------------
\* buildGstr1
ThresholdFor(month) == IF month >= Change THEN Threshold ELSE LegacyThreshold
Of(kind, month) == {d \in Issued(kind) : doc[d].month = month}
B2B(month) == {d \in Of("invoice", month) : doc[d].party.registered}
B2CL(month) ==
  {d \in Of("invoice", month) \ B2B(month) :
     doc[d].inter /\ doc[d].total > ThresholdFor(month)}

\* The rest is added up by place of supply, rate and kind of supply; HSN spans all.
RowsOf(ds) == {<<d, k>> : d \in ds, k \in UNION {DOMAIN doc[e].summary : e \in ds}}
Summed(ds) == {r \in RowsOf(ds) : r[2] \in DOMAIN doc[r[1]].summary}
RowAt(r) == doc[r[1]].summary[r[2]]
Together(rows) == Figures([r \in rows |-> RowAt(r)])
Buckets(key) ==
  [k \in Range(key) |-> Together({r \in DOMAIN key : key[r] = k})]

SmallSalesAll(month) == Of("invoice", month) \ B2B(month)
SmallSales(month) == Of("invoice", month) \ (B2B(month) \cup B2CL(month))
PlaceKey(r) == <<doc[r[1]].place, r[2][2], doc[r[1]].inter>>
B2CS(month) == Buckets([r \in Summed(SmallSales(month)) |-> PlaceKey(r)])
Hsn(month) == Buckets([r \in Summed(Of("invoice", month)) |-> r[2]])
Cdnr(month) == Of("credit_note", month)

\* buildGstr3b: what the month's supplies owe, less its credit notes.
ReturnTotals(month) == [h \in Heads |-> Added(Hsn(month), h)]
NetOfMonth(month) ==
  [h \in Heads |-> ReturnTotals(month)[h] - Together(Summed(Cdnr(month)))[h]]

Next ==
  \/ \E d \in Docs, m \in Months, cart \in Carts, off \in Discounts :
       \/ \E p \in Customers : Issue(d, m, cart, off, p)
       \/ \E i \in Docs : Credit(d, i, m, cart, off)
  \/ \E d \in Docs : Cancel(d)
  \/ \E s \in [home : States \cup {NoState}, inclusive : BOOLEAN] : Resettle(s)

Spec == Init /\ [][Next]_vars

-----------------------------------------------------------------------------
\* Every document adds up (calculateInvoiceTotals): the shares of the discount are the
\* discount, and none strays by more than a paisa from the exact one; what is taxed and the
\* discount are the subtotal, and the heads are the tax.  Only when the discount takes
\* everything may a share exceed its line, a paisa of another line's being left to be taxed.
AddsUp ==
  \A d \in Docs : doc[d] # NoDoc =>
    LET f == doc[d].figures
        excess == Sum([i \in DOMAIN f.share |-> Larger(f.share[i] - f.net[i], 0)])
    IN
    /\ Sum(f.share) = f.off /\ \A i \in DOMAIN f.share : f.share[i] >= 0
    /\ f.subtotal > 0 => \A i \in DOMAIN f.share :
         LET exact == f.net[i] * f.off IN
         f.share[i] * f.subtotal \in (exact - f.subtotal)..(exact + f.subtotal)
    /\ excess > 0 => f.off = f.subtotal /\ excess < Len(f.share)
    /\ Added(f.rows, "taxable") + f.off = f.subtotal + excess
    /\ Added(f.rows, "cgst") + Added(f.rows, "sgst") + Added(f.rows, "igst") = Added(f.rows, "tax")

\* The sections of a return hold every supply once (buildGstr1): what is listed and what is
\* added up give, head by head, the figures of the documents themselves.
SectionsExact ==
  \A m \in Months : \A h \in Heads :
    LET listed == Together(Summed(B2B(m) \cup B2CL(m)))[h]
        gathered == Added(B2CS(m), h)
    IN /\ listed + gathered = ReturnTotals(m)[h]
       /\ ReturnTotals(m)[h] =
            Sum([d \in Of("invoice", m) |-> Added(doc[d].figures.rows, h)])

\* A credit note that takes every line of its invoice back takes its tax back, head by
\* head, over the returns of the two months (createDocumentWorkflow), unless the business
\* moved or changed how it quotes prices in between.
TaxTakenBack ==
  \A d \in Docs :
    /\ takenBack[d] # 0 /\ doc[takenBack[d]].under = doc[d].under
    /\ doc[d].place # NoState
    /\ \A e \in Docs : e \in {d, takenBack[d]} \/ doc[e] = NoDoc
    => \A h \in Heads : Sum([m \in Months |-> NetOfMonth(m)[h]]) = 0

ReturnExact == AddsUp /\ SectionsExact /\ TaxTakenBack
=============================================================================
