----------------------------- MODULE BookProofs -----------------------------
(***************************************************************************)
(* What the proofs about settlements have in common: the rows of the       *)
(* documents of SettlementBook, the book at the start, the moves of a      *)
(* receipt's money, and what rows weigh.                                   *)
(***************************************************************************)
EXTENDS SettlementBook, MoneySumProofs

\* A row names its writer, its invoice and its source.
LEMMA RowIdParts ==
  ASSUME NEW a \in RowIds
  PROVE  InvoiceOf(a) \in Invoices /\ SourceOf(a) \in Sources
BY BookShape DEF RowIds, InvoiceOf, SourceOf, Writer, Sources, Receipts

\* Totals range over finitely many rows, sources and receipts.
LEMMA Finite == IsFiniteSet(RowIds) /\ IsFiniteSet(Sources) /\ IsFiniteSet(Receipts)
<1>1. IsFiniteSet(Receipts)
  BY BookShape, FS_Union DEF Receipts
<1>2. IsFiniteSet(Sources)
  BY <1>1, BookShape, FS_Union DEF Sources
<1>3. IsFiniteSet(Invoices \X Sources)
  BY <1>2, BookShape, FS_Product
<1>4. IsFiniteSet(Requests \X (Invoices \X Sources))
  BY <1>3, BookShape, FS_Product
<1> DEFINE P == Requests \X Invoices \X Sources
           g == [c \in Requests \X (Invoices \X Sources) |-> <<c[1], c[2][1], c[2][2]>>]
<1>5. g \in Surjection(Requests \X (Invoices \X Sources), P)
  <2>1. g \in [Requests \X (Invoices \X Sources) -> P]
    OBVIOUS
  <2>2. \A c \in P : \E d \in Requests \X (Invoices \X Sources) : g[d] = c
    <3>1. ASSUME NEW c \in P PROVE g[<<c[1], <<c[2], c[3]>>>>] = c
      OBVIOUS
    <3> QED BY <3>1
  <2> QED BY <2>1, <2>2 DEF Surjection
<1>6. IsFiniteSet(P)
  BY <1>4, <1>5, FS_Surjection
<1>7. IsFiniteSet(RowIds)
  BY <1>6, BookShape, FS_Union DEF RowIds
<1> QED BY <1>1, <1>2, <1>7

\* A newly written row is a row.
LEMMA LiveRowType ==
  ASSUME NEW x \in Nat, NEW st \in BOOLEAN
  PROVE  LiveRow(x, st) \in Row
BY DEF LiveRow, Row

\* The totals of the rows written before the run are natural numbers.
LEMMA OldSums ==
  /\ \A i \in Invoices : OldOn(i) \in [OldRows -> Nat] /\ Sum(OldOn(i)) \in Nat
  /\ \A s \in Sources : Sum(OldFrom(s)) \in Nat
<1>1. IsFiniteSet(OldRows) /\ \A a \in OldRows : OldAmount[a] \in Nat
  BY BookShape
<1>2. ASSUME NEW i PROVE OldOn(i) \in [OldRows -> Nat] /\ OldFrom(i) \in [OldRows -> Nat]
  BY <1>1 DEF OldOn, OldFrom
<1> QED BY <1>1, <1>2, SumNat

\* The book at the start is well typed.
LEMMA BookInitTyped == BookInit => BookTypeOK
<1> SUFFICES ASSUME BookInit PROVE BookTypeOK
  OBVIOUS
<1>1. pay \in [Receipts -> Receipt]
  <2>1. NoReceipt \in Receipt
    BY DEF NoReceipt, NewReceipt, Receipt
  <2> QED BY <2>1, BookShape DEF BookInit, Receipts
<1>2. alloc \in [RowIds -> Row]
  <2>1. NoRow \in Row
    BY DEF NoRow, Row
  <2>2. \A a \in OldRows : OldStamped(a) \in BOOLEAN /\ OldAmount[a] \in Nat
    BY BookShape DEF OldStamped
  <2>3. \A a \in OldRows : LiveRow(OldAmount[a], OldStamped(a)) \in Row
    BY <2>2, LiveRowType
  <2> QED BY <2>1, <2>3 DEF BookInit, RowIds
<1>3. settled \in [Invoices -> Nat \cup {Missing}]
  BY OldSums DEF BookInit
<1>4. applied \in [Notes -> Nat]
  BY OldSums DEF BookInit, Sources
<1>5. credited \in [Invoices -> Nat]
  <2>1. IsFiniteSet(OldNotes) /\ \A n \in OldNotes : NoteTotal[n] \in Nat
    BY BookShape, FS_Subset
  <2> DEFINE f(i) == [n \in OldNotes |-> IF NoteInvoice[n] = i THEN NoteTotal[n] ELSE 0]
  <2>2. ASSUME NEW i \in Invoices PROVE f(i) \in [OldNotes -> Nat]
    BY <2>1
  <2>3. \A i \in Invoices : Sum(f(i)) \in Nat
    BY <2>1, <2>2, SumNat
  <2>4. credited = [i \in Invoices |-> Sum(f(i))]
    BY DEF BookInit, OldRoom
  <2> HIDE DEF f
  <2> QED BY <2>3, <2>4
<1>6. status \in [Invoices -> {"issued", "cancelled"}]
  BY DEF BookInit
<1>7. noteStatus \in [Notes -> {"absent", "issued", "cancelled"}]
  BY DEF BookInit
<1> QED BY <1>1, <1>2, <1>3, <1>4, <1>5, <1>6, <1>7 DEF BookTypeOK

\* The rows of an invoice at the start are the old ones.
LEMMA LiveInit ==
  ASSUME BookInit, NEW i \in Invoices
  PROVE  Live(i) = Sum(OldOn(i)) /\ Live(i) \in Nat /\ Live(i) <= Total[i]
<1> DEFINE f == LiveRows(i)
           g == OldOn(i)
<1>1. /\ \A a \in OldRows : g[a] = f[a] /\ OldRows \subseteq RowIds
      /\ \A a \in RowIds \ OldRows : f[a] = 0
  BY DEF BookInit, LiveRow, NoRow, RowIds, LiveRows, OldOn
<1>2. f \in [RowIds -> Nat] /\ g \in [OldRows -> Nat] /\ OldRows \in SUBSET RowIds
  <2>1. alloc \in [RowIds -> Row]
    BY BookInitTyped DEF BookTypeOK
  <2> QED BY <2>1, OldSums DEF LiveRows, RowIds, Row
<1> HIDE DEF f, g
<1>3. Sum(f) = Sum(g)
  BY <1>1, <1>2, SumWithin
<1> QED BY <1>3, OldSums, BookSound DEF Live, f, g

\* The rows of a source at the start are the old ones.
LEMMA SpentInit ==
  ASSUME BookInit, NEW n \in Sources
  PROVE  Spent(n) = Sum(OldFrom(n)) /\ Spent(n) \in Nat
<1> DEFINE f == SpentRows(n)
           g == OldFrom(n)
<1>1. /\ \A a \in OldRows : g[a] = f[a] /\ OldRows \subseteq RowIds
      /\ \A a \in RowIds \ OldRows : f[a] = 0
  BY DEF BookInit, LiveRow, NoRow, RowIds, SpentRows, OldFrom
<1>2. f \in [RowIds -> Nat] /\ g \in [OldRows -> Nat] /\ OldRows \in SUBSET RowIds
  <2>1. alloc \in [RowIds -> Row]
    BY BookInitTyped DEF BookTypeOK
  <2> QED BY <2>1, BookShape DEF SpentRows, OldFrom, RowIds, Row
<1> HIDE DEF f, g
<1>3. Sum(f) = Sum(g)
  BY <1>1, <1>2, SumWithin
<1>4. Sum(f) \in Nat
  BY <1>2, Finite, SumNat
<1> QED BY <1>3, <1>4 DEF Spent, f, g

\* At the start the room of an invoice is taken by the notes issued before.
LEMMA RoomInit ==
  ASSUME BookInit, NEW i \in Invoices
  PROVE  /\ credited[i] = Sum([n \in LiveNotes(i) |-> NoteTotal[n]])
         /\ credited[i] <= Total[i]
<1> DEFINE f == OldRoom(i)
           g == [n \in LiveNotes(i) |-> NoteTotal[n]]
<1>1. LiveNotes(i) \in SUBSET OldNotes /\ LiveNotes(i) \subseteq Notes
      /\ \A n \in OldNotes : n \in LiveNotes(i) <=> NoteInvoice[n] = i
  BY BookShape DEF BookInit, LiveNotes
<1>2. f \in [OldNotes -> Nat] /\ g \in [LiveNotes(i) -> Nat]
  BY <1>1, BookShape DEF OldRoom
<1>3. (\A n \in LiveNotes(i) : g[n] = f[n]) /\ \A n \in OldNotes \ LiveNotes(i) : f[n] = 0
  BY <1>1 DEF OldRoom
<1>4. credited[i] = Sum(f) /\ Sum(f) <= Total[i]
  BY BookSound DEF BookInit
<1> HIDE DEF f, g
<1>5. Sum(f) = Sum(g)
  BY <1>1, <1>2, <1>3, SumWithin
<1> QED BY <1>4, <1>5 DEF g

-----------------------------------------------------------------------------
(***************************************************************************)
(* The money of a receipt.                                                 *)
(***************************************************************************)
LEMMA ReceiptTyped ==
  ASSUME NEW m \in Receipt
  PROVE  /\ m.inv \in Invoices \cup {"none"}
         /\ m.amount \in Nat /\ m.allocated \in Nat /\ m.unapplied \in Nat /\ m.refundable \in Nat
         /\ m.refund \in {"none", "pending", "processed"}
BY DEF Receipt

\* What a step of SettlementPromise allows a receipt.
MoneyMoves(m, n) ==
  \/ n = m
  \/ m = NoReceipt /\ Whole(n) /\ n.refundable = 0
  \/ /\ m # NoReceipt /\ n # NoReceipt /\ Whole(n)
     /\ n.amount = m.amount /\ n.inv = m.inv /\ n.refundable >= m.refundable

\* m became n and no money left the receipt.
SameMoney(m, n) ==
  /\ m \in Receipt /\ n \in Receipt
  /\ n.inv = m.inv /\ n.amount = m.amount /\ n.refundable >= m.refundable
  /\ n.allocated + n.unapplied + n.refundable = m.allocated + m.unapplied + m.refundable

\* A receipt written with new numbers of the same total.
LEMMA Rewritten ==
  ASSUME NEW m \in Receipt, NEW x \in Nat, NEW y \in Nat, NEW z \in Nat,
         NEW f \in {"none", "pending", "processed"}, z >= m.refundable,
         x + y + z = m.allocated + m.unapplied + m.refundable
  PROVE  SameMoney(m, [m EXCEPT !.allocated = x, !.unapplied = y, !.refundable = z, !.refund = f])
<1> DEFINE n == [m EXCEPT !.allocated = x, !.unapplied = y, !.refundable = z, !.refund = f]
<1>1. /\ n \in Receipt /\ n.inv = m.inv /\ n.amount = m.amount
      /\ n.allocated = x /\ n.unapplied = y /\ n.refundable = z
  BY DEF Receipt
<1> QED BY <1>1 DEF SameMoney

\* Money that stays whole moves as the promise allows.
LEMMA SameMoneyMoves ==
  ASSUME NEW m, NEW n, Whole(m), SameMoney(m, n), m.inv # "none" \/ n = m
  PROVE  MoneyMoves(m, n) /\ Whole(n)
<1>1. Whole(n)
  <2>1. /\ m.allocated \in Nat /\ m.unapplied \in Nat /\ m.refundable \in Nat /\ m.amount \in Nat
        /\ n.allocated \in Nat /\ n.unapplied \in Nat /\ n.refundable \in Nat
    BY ReceiptTyped DEF SameMoney
  <2> QED BY <2>1 DEF SameMoney, Whole
<1>2. NoReceipt.inv = "none"
  BY DEF NoReceipt, NewReceipt
<1>3. m.inv # "none" => m # NoReceipt /\ n # NoReceipt
  BY <1>2 DEF SameMoney
<1> QED BY <1>1, <1>3 DEF MoneyMoves, SameMoney

\* Every receipt is whole at the start.
LEMMA WholeInit ==
  ASSUME BookInit, NEW r \in Receipts
  PROVE  Whole(pay[r])
<1>1. pay[r] = IF r \in OldReceipts THEN OldPay[r] ELSE NoReceipt
  BY DEF BookInit
<1>2. Whole(NoReceipt)
  BY DEF Whole, NoReceipt, NewReceipt
<1> QED BY <1>1, <1>2, BookSound

-----------------------------------------------------------------------------
(***************************************************************************)
(* Weighing rows.  Worth(w, C) is what the rows of C weigh together: what  *)
(* an invoice is settled by and what a source spent are two ways of        *)
(* slicing the same weights.                                               *)
(***************************************************************************)
\* What a row settles.
Weight(r) == IF r.state = "live" THEN r.amount ELSE 0
Weights == [a \in RowIds |-> Weight(alloc[a])]

\* What the rows of C weigh together.
Worth(w, C) == Sum([a \in RowIds |-> IF a \in C THEN w[a] ELSE 0])

RowsOn(i) == {a \in RowIds : InvoiceOf(a) = i}
RowsFrom(s) == {a \in RowIds : SourceOf(a) = s}

\* The weight of any rows is an amount.
LEMMA WorthNat ==
  ASSUME NEW w \in [RowIds -> Nat], NEW C
  PROVE  Worth(w, C) \in Nat
<1> DEFINE f == [a \in RowIds |-> IF a \in C THEN w[a] ELSE 0]
<1>1. f \in [RowIds -> Nat]
  OBVIOUS
<1> HIDE DEF f
<1>2. Sum(f) \in Nat
  BY <1>1, Finite, SumNat
<1> QED BY <1>2 DEF Worth, f

\* Weights put on different rows add up.
LEMMA WorthAdds ==
  ASSUME NEW w \in [RowIds -> Nat], NEW u \in [RowIds -> Nat], NEW v \in [RowIds -> Nat],
         \A a \in RowIds : (u[a] = 0 /\ w[a] = v[a]) \/ (v[a] = 0 /\ w[a] = u[a]),
         NEW C
  PROVE  Worth(w, C) = Worth(u, C) + Worth(v, C)
<1> DEFINE h == [a \in RowIds |-> IF a \in C THEN w[a] ELSE 0]
           f == [a \in RowIds |-> IF a \in C THEN u[a] ELSE 0]
           g == [a \in RowIds |-> IF a \in C THEN v[a] ELSE 0]
<1>1. h \in [RowIds -> Nat] /\ f \in [RowIds -> Nat] /\ g \in [RowIds -> Nat]
  OBVIOUS
<1>2. \A a \in RowIds : (f[a] = 0 /\ h[a] = g[a]) \/ (g[a] = 0 /\ h[a] = f[a])
  OBVIOUS
<1> HIDE DEF f, g, h
<1>3. Sum(h) = Sum(f) + Sum(g)
  BY <1>1, <1>2, Finite, SumDisjoint
<1> QED BY <1>3 DEF Worth, f, g, h

\* Rows without weight weigh nothing.
LEMMA WorthZero ==
  ASSUME NEW w \in [RowIds -> Nat], NEW C, \A a \in RowIds : a \in C => w[a] = 0
  PROVE  Worth(w, C) = 0
<1> DEFINE f == [a \in RowIds |-> IF a \in C THEN w[a] ELSE 0]
<1>1. f \in [RowIds -> Nat] /\ \A a \in RowIds : f[a] = 0
  OBVIOUS
<1> HIDE DEF f
<1>2. Sum(f) = 0
  BY <1>1, SumZero
<1> QED BY <1>2 DEF Worth, f

\* Rows of which one has a weight weigh what it does.
LEMMA WorthOnly ==
  ASSUME NEW w \in [RowIds -> Nat], NEW C, NEW b \in RowIds, b \in C,
         \A a \in RowIds : a \in C /\ a # b => w[a] = 0
  PROVE  Worth(w, C) = w[b]
<1> DEFINE f == [a \in RowIds |-> IF a \in C THEN w[a] ELSE 0]
<1>1. f \in [RowIds -> Nat] /\ (\A a \in RowIds : a # b => f[a] = 0) /\ f[b] = w[b]
  OBVIOUS
<1> HIDE DEF f
<1>2. Sum(f) = f[b]
  BY <1>1, Finite, SumOnly
<1> QED BY <1>1, <1>2 DEF Worth, f

\* No row of C outweighs C.
LEMMA WorthTerm ==
  ASSUME NEW w \in [RowIds -> Nat], NEW C, NEW b \in RowIds, b \in C
  PROVE  w[b] <= Worth(w, C)
<1> DEFINE f == [a \in RowIds |-> IF a \in C THEN w[a] ELSE 0]
<1>1. f \in [RowIds -> Nat] /\ f[b] = w[b]
  OBVIOUS
<1> HIDE DEF f
<1>2. f[b] <= Sum(f)
  BY <1>1, Finite, SumTerm
<1> QED BY <1>1, <1>2 DEF Worth, f

\* What an invoice is settled by, and what a source spent, before and after a step.
LEMMA LiveWorth ==
  ASSUME NEW i
  PROVE  Live(i) = Worth(Weights, RowsOn(i)) /\ Live(i)' = Worth(Weights', RowsOn(i))
<1>1. LiveRows(i) = [a \in RowIds |-> IF a \in RowsOn(i) THEN Weights[a] ELSE 0]
  BY Zenon DEF LiveRows, RowsOn, Weights, Weight
<1>2. LiveRows(i)' = [a \in RowIds |-> IF a \in RowsOn(i) THEN Weights'[a] ELSE 0]
  BY Zenon DEF LiveRows, RowsOn, Weights, Weight, InvoiceOf
<1> QED BY <1>1, <1>2 DEF Live, Worth

\* What a source spent, likewise.
LEMMA SpentWorth ==
  ASSUME NEW s
  PROVE  Spent(s) = Worth(Weights, RowsFrom(s)) /\ Spent(s)' = Worth(Weights', RowsFrom(s))
<1>1. SpentRows(s) = [a \in RowIds |-> IF a \in RowsFrom(s) THEN Weights[a] ELSE 0]
  BY Zenon DEF SpentRows, RowsFrom, Weights, Weight
<1>2. SpentRows(s)' = [a \in RowIds |-> IF a \in RowsFrom(s) THEN Weights'[a] ELSE 0]
  BY Zenon DEF SpentRows, RowsFrom, Weights, Weight, SourceOf
<1> QED BY <1>1, <1>2 DEF Spent, Worth

\* Weights are amounts.
LEMMA WeightsTyped ==
  /\ alloc \in [RowIds -> Row] => Weights \in [RowIds -> Nat]
  /\ alloc' \in [RowIds -> Row] => Weights' \in [RowIds -> Nat]
BY DEF Weights, Weight, Row

\* Rows weigh what their parts weigh.
LEMMA WorthUnion ==
  ASSUME NEW w \in [RowIds -> Nat], NEW C, NEW D, NEW E,
         \A a \in RowIds : a \in E <=> a \in C \/ a \in D,
         \A a \in RowIds : ~(a \in C /\ a \in D)
  PROVE  /\ Worth(w, E) = Worth(w, C) + Worth(w, D)
         /\ Worth(w, C) \in Nat /\ Worth(w, D) \in Nat
<1> DEFINE h == [a \in RowIds |-> IF a \in E THEN w[a] ELSE 0]
           f == [a \in RowIds |-> IF a \in C THEN w[a] ELSE 0]
           g == [a \in RowIds |-> IF a \in D THEN w[a] ELSE 0]
<1>1. h \in [RowIds -> Nat] /\ f \in [RowIds -> Nat] /\ g \in [RowIds -> Nat]
  OBVIOUS
<1>2. \A a \in RowIds : (f[a] = 0 /\ h[a] = g[a]) \/ (g[a] = 0 /\ h[a] = f[a])
  OBVIOUS
<1> HIDE DEF f, g, h
<1>3. Sum(h) = Sum(f) + Sum(g)
  BY <1>1, <1>2, Finite, SumDisjoint
<1>4. Sum(f) \in Nat /\ Sum(g) \in Nat
  BY <1>1, Finite, SumNat
<1> QED BY <1>3, <1>4 DEF Worth, f, g, h

\* Part of some rows weighs no more than all of them.
LEMMA WorthWithin ==
  ASSUME NEW w \in [RowIds -> Nat], NEW C, NEW E, \A a \in RowIds : a \in C => a \in E
  PROVE  Worth(w, C) <= Worth(w, E) /\ Worth(w, C) \in Nat /\ Worth(w, E) \in Nat
<1>1. PICK D : D = E \ C
  OBVIOUS
<1>2. \A a \in RowIds : /\ a \in E <=> a \in C \/ a \in D
                        /\ ~(a \in C /\ a \in D)
  BY <1>1
<1>3. Worth(w, E) = Worth(w, C) + Worth(w, D) /\ Worth(w, C) \in Nat /\ Worth(w, D) \in Nat
  BY <1>2, WorthUnion
<1> QED BY <1>3

\* Weights that agree on the rows that count weigh the same.
LEMMA WorthSame ==
  ASSUME NEW w, NEW u, NEW C, NEW D,
         \A a \in RowIds : (IF a \in C THEN w[a] ELSE 0) = (IF a \in D THEN u[a] ELSE 0)
  PROVE  Worth(w, C) = Worth(u, D)
<1>1. [a \in RowIds |-> IF a \in C THEN w[a] ELSE 0] = [a \in RowIds |-> IF a \in D THEN u[a] ELSE 0]
  OBVIOUS
<1> QED BY <1>1 DEF Worth

\* A total over some rows is what they weigh.
LEMMA WorthPart ==
  ASSUME NEW w \in [RowIds -> Nat], NEW C, NEW B \in SUBSET RowIds, NEW g \in [B -> Nat],
         \A a \in RowIds : (IF a \in C THEN w[a] ELSE 0) = (IF a \in B THEN g[a] ELSE 0)
  PROVE  Sum(g) = Worth(w, C)
<1> DEFINE f == [a \in RowIds |-> IF a \in C THEN w[a] ELSE 0]
<1>1. f \in [RowIds -> Nat] /\ (\A a \in B : g[a] = f[a]) /\ \A a \in RowIds \ B : f[a] = 0
  OBVIOUS
<1> HIDE DEF f
<1>2. Sum(f) = Sum(g)
  BY <1>1, SumWithin
<1> QED BY <1>2 DEF Worth, f

\* All rows together weigh what they weigh invoice by invoice ...
LEMMA WorthByInvoice ==
  ASSUME NEW w \in [RowIds -> Nat], NEW g \in [Invoices -> Nat],
         \A i \in Invoices : g[i] = Worth(w, RowsOn(i))
  PROVE  Worth(w, RowIds) = Sum(g)
<1> DEFINE k == [a \in RowIds |-> InvoiceOf(a)]
<1>1. k \in [RowIds -> Invoices]
  BY RowIdParts
<1>2. ASSUME NEW i \in Invoices
      PROVE  g[i] = Sum([a \in RowIds |-> IF k[a] = i THEN w[a] ELSE 0])
  <2>1. [a \in RowIds |-> IF k[a] = i THEN w[a] ELSE 0]
          = [a \in RowIds |-> IF a \in RowsOn(i) THEN w[a] ELSE 0]
    BY DEF RowsOn
  <2> QED BY <2>1 DEF Worth
<1> HIDE DEF k
<1>3. Sum(w) = Sum(g)
  <2>1. IsFiniteSet(RowIds) /\ IsFiniteSet(Invoices)
    BY Finite, BookShape
  <2> QED BY <1>1, <1>2, <2>1, SumGrouped
<1>4. w = [a \in RowIds |-> IF a \in RowIds THEN w[a] ELSE 0]
  OBVIOUS
<1> QED BY <1>3, <1>4 DEF Worth

\* ... and source by source.
LEMMA WorthBySource ==
  ASSUME NEW w \in [RowIds -> Nat], NEW g \in [Sources -> Nat],
         \A s \in Sources : g[s] = Worth(w, RowsFrom(s))
  PROVE  Worth(w, RowIds) = Sum(g)
<1> DEFINE k == [a \in RowIds |-> SourceOf(a)]
<1>1. k \in [RowIds -> Sources]
  BY RowIdParts
<1>2. ASSUME NEW s \in Sources
      PROVE  g[s] = Sum([a \in RowIds |-> IF k[a] = s THEN w[a] ELSE 0])
  <2>1. [a \in RowIds |-> IF k[a] = s THEN w[a] ELSE 0]
          = [a \in RowIds |-> IF a \in RowsFrom(s) THEN w[a] ELSE 0]
    BY DEF RowsFrom
  <2> QED BY <2>1 DEF Worth
<1> HIDE DEF k
<1>3. Sum(w) = Sum(g)
  BY <1>1, <1>2, Finite, SumGrouped
<1>4. w = [a \in RowIds |-> IF a \in RowIds THEN w[a] ELSE 0]
  OBVIOUS
<1> QED BY <1>3, <1>4 DEF Worth

\* New rows add their weight.
LEMMA Writing ==
  ASSUME alloc \in [RowIds -> Row], alloc' \in [RowIds -> Row], NEW u \in [RowIds -> Nat],
         \A a \in RowIds : \/ u[a] = 0 /\ Weight(alloc'[a]) = Weight(alloc[a])
                           \/ Weight(alloc[a]) = 0 /\ Weight(alloc'[a]) = u[a],
         NEW C
  PROVE  /\ Worth(Weights', C) = Worth(Weights, C) + Worth(u, C)
         /\ Worth(Weights, C) \in Nat /\ Worth(u, C) \in Nat
<1>1. Weights \in [RowIds -> Nat] /\ Weights' \in [RowIds -> Nat]
  BY WeightsTyped
<1>2. \A a \in RowIds : Weights[a] = Weight(alloc[a]) /\ Weights'[a] = Weight(alloc'[a])
  BY DEF Weights, Weight
<1>3. Worth(Weights', C) = Worth(u, C) + Worth(Weights, C)
  BY <1>1, <1>2, WorthAdds
<1>4. Worth(Weights, C) \in Nat /\ Worth(u, C) \in Nat
  BY <1>1, WorthNat
<1> QED BY <1>3, <1>4

\* The row a request writes for an invoice and a source.
LEMMA RowOf ==
  ASSUME NEW p \in Requests, NEW i \in Invoices, NEW s \in Sources
  PROVE  /\ <<p, i, s>> \in RowIds
         /\ Writer(<<p, i, s>>) = p /\ InvoiceOf(<<p, i, s>>) = i /\ SourceOf(<<p, i, s>>) = s
BY DEF RowIds, Writer, InvoiceOf, SourceOf

\* A request has one row for an invoice and a source.
LEMMA OneRow ==
  ASSUME NEW p \in Requests, NEW a \in RowIds, Writer(a) = p
  PROVE  a = <<p, InvoiceOf(a), SourceOf(a)>>
BY BookShape DEF RowIds, Writer, InvoiceOf, SourceOf

=============================================================================
