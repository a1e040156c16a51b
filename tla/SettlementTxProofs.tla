------------------------- MODULE SettlementTxProofs -------------------------
(***************************************************************************)
(* The books hold together for every set of invoices, notes and requests   *)
(* when the workflows run in transactions: the invariants of SettlementTx  *)
(* that the runs check on three invoices, as theorems.                     *)
(*                                                                         *)
(* A workflow writes rows or reverses rows, and it moves the counters of   *)
(* invoices and sources by the totals of those rows.  So the proofs weigh  *)
(* the rows, as BookProofs does for both settlement specifications.  The   *)
(* last part is the ledger the workflows post to, whose accounts are       *)
(* totals of the same rows.                                                *)
(***************************************************************************)
EXTENDS Ledger, BookProofs

-----------------------------------------------------------------------------
(***************************************************************************)
(* Writing rows and reversing rows.                                        *)
(***************************************************************************)
\* What the rows of A took from a source is the weight of those of its rows.
LEMMA TakenWorth ==
  ASSUME alloc \in [RowIds -> Row], NEW A, A \subseteq RowIds, NEW s
  PROVE  TakenFrom(A, s)
           = Worth([a \in RowIds |-> IF a \in A THEN alloc[a].amount ELSE 0], RowsFrom(s))
<1> DEFINE u == [a \in RowIds |-> IF a \in A THEN alloc[a].amount ELSE 0]
           h == [a \in RowIds |-> IF a \in RowsFrom(s) THEN u[a] ELSE 0]
           g == [a \in A |-> IF SourceOf(a) = s THEN alloc[a].amount ELSE 0]
<1>1. h \in [RowIds -> Nat] /\ g \in [A -> Nat]
  BY DEF Row
<1>2. (\A a \in A : g[a] = h[a]) /\ \A a \in RowIds \ A : h[a] = 0
  BY DEF RowsFrom
<1> HIDE DEF h, g
<1>3. Sum(h) = Sum(g)
  BY <1>1, <1>2, SumWithin
<1> QED BY <1>3 DEF TakenFrom, Worth, h, g

\* Reversed rows take their weight with them.
LEMMA Reversing ==
  ASSUME alloc \in [RowIds -> Row], NEW A, A \subseteq RowIds,
         \A a \in A : alloc[a].state = "live", alloc' = Reversed(A)
  PROVE  /\ alloc' \in [RowIds -> Row]
         /\ \A a \in RowIds \ A : alloc'[a] = alloc[a]
         /\ \A a \in A : alloc'[a] = [alloc[a] EXCEPT !.state = "reversed"]
         /\ \A i \in Invoices : /\ Live(i) = Live(i)' + SettledOn(A, i)
                                /\ SettledOn(A, i) \in Nat /\ Live(i)' \in Nat
         /\ \A s \in Sources : /\ Spent(s) = Spent(s)' + TakenFrom(A, s)
                               /\ TakenFrom(A, s) \in Nat /\ Spent(s)' \in Nat
<1> DEFINE u == [a \in RowIds |-> IF a \in A THEN alloc[a].amount ELSE 0]
<1>1. \A a \in RowIds : alloc'[a] = IF a \in A THEN [alloc[a] EXCEPT !.state = "reversed"] ELSE alloc[a]
  BY DEF Reversed
<1>2. alloc' \in [RowIds -> Row]
  <2>1. \A a \in RowIds : [alloc[a] EXCEPT !.state = "reversed"] \in Row
    BY DEF Row
  <2> QED BY <2>1 DEF Reversed
<1>3. u \in [RowIds -> Nat]
  BY DEF Row
<1>4. Weights \in [RowIds -> Nat] /\ Weights' \in [RowIds -> Nat]
  BY <1>2, WeightsTyped
<1>5. \A a \in RowIds : (u[a] = 0 /\ Weights[a] = Weights'[a]) \/ (Weights'[a] = 0 /\ Weights[a] = u[a])
  <2> SUFFICES ASSUME NEW a \in RowIds
               PROVE  (u[a] = 0 /\ Weights[a] = Weights'[a]) \/ (Weights'[a] = 0 /\ Weights[a] = u[a])
    OBVIOUS
  <2>1. Weights[a] = Weight(alloc[a]) /\ Weights'[a] = Weight(alloc'[a])
    BY DEF Weights, Weight
  <2>2. CASE a \in A
    <3>1. alloc[a].state = "live" /\ alloc'[a].state = "reversed"
      BY <1>1, <2>2 DEF Row
    <3> QED BY <2>1, <2>2, <3>1 DEF Weight
  <2>3. CASE a \notin A
    BY <1>1, <2>1, <2>3
  <2> QED BY <2>2, <2>3
<1>6. \A i \in Invoices : SettledOn(A, i) = Worth(u, RowsOn(i))
  <2> TAKE i \in Invoices
  <2> DEFINE h == [a \in RowIds |-> IF a \in RowsOn(i) THEN u[a] ELSE 0]
             g == [a \in A |-> IF InvoiceOf(a) = i THEN alloc[a].amount ELSE 0]
  <2>1. h \in [RowIds -> Nat] /\ g \in [A -> Nat]
    BY <1>3 DEF Row
  <2>2. (\A a \in A : g[a] = h[a]) /\ \A a \in RowIds \ A : h[a] = 0
    BY DEF RowsOn
  <2> HIDE DEF h, g
  <2>3. Sum(h) = Sum(g)
    BY <2>1, <2>2, SumWithin
  <2> QED BY <2>3 DEF SettledOn, Worth, h, g
<1>7. \A s \in Sources : TakenFrom(A, s) = Worth(u, RowsFrom(s))
  BY TakenWorth
<1> HIDE DEF u
<1>8. ASSUME NEW C
      PROVE  /\ Worth(Weights, C) = Worth(Weights', C) + Worth(u, C)
             /\ Worth(u, C) \in Nat /\ Worth(Weights', C) \in Nat
  <2>1. Worth(Weights, C) = Worth(u, C) + Worth(Weights', C)
    BY <1>3, <1>4, <1>5, WorthAdds
  <2>2. Worth(u, C) \in Nat /\ Worth(Weights', C) \in Nat
    BY <1>3, <1>4, WorthNat
  <2> QED BY <2>1, <2>2
<1>9. ASSUME NEW i \in Invoices
      PROVE  /\ Live(i) = Live(i)' + SettledOn(A, i)
             /\ SettledOn(A, i) \in Nat /\ Live(i)' \in Nat
  BY <1>6, <1>8, LiveWorth
<1>10. ASSUME NEW s \in Sources
       PROVE  /\ Spent(s) = Spent(s)' + TakenFrom(A, s)
              /\ TakenFrom(A, s) \in Nat /\ Spent(s)' \in Nat
  BY <1>7, <1>8, SpentWorth
<1> QED BY <1>1, <1>2, <1>9, <1>10

\* A request's rows from its own receipt weigh what it shares out.
LEMMA ReceiptWeight ==
  ASSUME NEW p \in Requests, NEW share \in [Invoices -> Nat]
  PROVE  Worth([a \in RowIds |-> IF Writer(a) = p /\ SourceOf(a) = p
                                 THEN share[InvoiceOf(a)] ELSE 0], RowsFrom(p)) = Sum(share)
<1> DEFINE u == [a \in RowIds |-> IF Writer(a) = p /\ SourceOf(a) = p
                                  THEN share[InvoiceOf(a)] ELSE 0]
           b == [i \in Invoices |-> <<p, i, p>>]
           g == [a \in RowIds |-> IF a \in RowsFrom(p) THEN u[a] ELSE 0]
<1>1. u \in [RowIds -> Nat] /\ p \in Sources
  BY RowIdParts DEF Sources, Receipts
<1>2. b \in [Invoices -> RowIds] /\ g \in [RowIds -> Nat] /\ IsFiniteSet(Invoices)
  BY <1>1, RowOf, BookShape
<1>3. \A i, j \in Invoices : b[i] = b[j] => i = j
  OBVIOUS
<1>4. \A i \in Invoices : g[b[i]] = share[i]
  BY <1>1, RowOf DEF RowsFrom
<1>5. ASSUME NEW a \in RowIds PROVE g[a] = 0 \/ \E i \in Invoices : a = b[i]
  <2>1. CASE Writer(a) = p /\ SourceOf(a) = p
    <3>1. a = <<p, InvoiceOf(a), p>> /\ InvoiceOf(a) \in Invoices
      BY <2>1, OneRow, RowIdParts
    <3> QED BY <3>1
  <2>2. CASE ~(Writer(a) = p /\ SourceOf(a) = p)
    BY <2>2
  <2> QED BY <2>1, <2>2
<1>6. \A a \in RowIds : g[a] = 0 \/ \E i \in Invoices : a = b[i]
  BY <1>5
<1> HIDE DEF b, g
<1>7. Sum(share) = Sum(g)
  BY <1>2, <1>3, <1>4, <1>6, SumRenamed, Z3
<1> QED BY <1>7 DEF Worth, g

\* A request's rows on one invoice weigh what its plan draws.
LEMMA CreditWeight ==
  ASSUME NEW p \in Requests, NEW i \in Invoices, NEW plan \in [Sources -> Nat]
  PROVE  Worth([a \in RowIds |-> IF Writer(a) = p /\ InvoiceOf(a) = i
                                 THEN plan[SourceOf(a)] ELSE 0], RowsOn(i)) = Sum(plan)
<1> DEFINE u == [a \in RowIds |-> IF Writer(a) = p /\ InvoiceOf(a) = i
                                  THEN plan[SourceOf(a)] ELSE 0]
           b == [s \in Sources |-> <<p, i, s>>]
           g == [a \in RowIds |-> IF a \in RowsOn(i) THEN u[a] ELSE 0]
<1>1. u \in [RowIds -> Nat]
  BY RowIdParts
<1>2. b \in [Sources -> RowIds] /\ g \in [RowIds -> Nat] /\ IsFiniteSet(Sources)
  BY <1>1, RowOf, Finite
<1>3. \A s, t \in Sources : b[s] = b[t] => s = t
  OBVIOUS
<1>4. \A s \in Sources : g[b[s]] = plan[s]
  BY <1>1, RowOf DEF RowsOn
<1>5. ASSUME NEW a \in RowIds PROVE g[a] = 0 \/ \E s \in Sources : a = b[s]
  <2>1. CASE Writer(a) = p /\ InvoiceOf(a) = i
    <3>1. a = <<p, i, SourceOf(a)>> /\ SourceOf(a) \in Sources
      BY <2>1, OneRow, RowIdParts
    <3> QED BY <3>1
  <2>2. CASE ~(Writer(a) = p /\ InvoiceOf(a) = i)
    BY <2>2
  <2> QED BY <2>1, <2>2
<1>6. \A a \in RowIds : g[a] = 0 \/ \E s \in Sources : a = b[s]
  BY <1>5
<1> HIDE DEF b, g
<1>7. Sum(plan) = Sum(g)
  BY <1>2, <1>3, <1>4, <1>6, SumRenamed
<1> QED BY <1>7 DEF Worth, g

\* A receipt settles what it shares out, and spends their total.
LEMMA ReceiptRows ==
  ASSUME alloc \in [RowIds -> Row], NEW p \in Requests, NEW share \in [Invoices -> Nat],
         \A a \in RowIds : Writer(a) = p => alloc[a] = NoRow,
         alloc' = [a \in RowIds |->
           IF Writer(a) = p /\ SourceOf(a) = p /\ share[InvoiceOf(a)] > 0
           THEN LiveRow(share[InvoiceOf(a)], FALSE) ELSE alloc[a]]
  PROVE  /\ alloc' \in [RowIds -> Row]
         /\ \A i \in Invoices : Live(i)' = Live(i) + share[i] /\ Live(i) \in Nat
         /\ \A s \in Sources : /\ s # p => Spent(s)' = Spent(s)
                               /\ s = p => Spent(s)' = Spent(s) + Sum(share)
                               /\ Spent(s) \in Nat
<1> DEFINE u == [a \in RowIds |-> IF Writer(a) = p /\ SourceOf(a) = p THEN share[InvoiceOf(a)] ELSE 0]
<1>1. \A a \in RowIds : InvoiceOf(a) \in Invoices /\ share[InvoiceOf(a)] \in Nat
  BY RowIdParts
<1>2. u \in [RowIds -> Nat] /\ p \in Sources
  BY <1>1 DEF Sources, Receipts
<1>3. alloc' \in [RowIds -> Row]
  BY <1>1 DEF LiveRow, Row
<1>4. \A a \in RowIds : \/ u[a] = 0 /\ Weight(alloc'[a]) = Weight(alloc[a])
                        \/ Weight(alloc[a]) = 0 /\ Weight(alloc'[a]) = u[a]
  BY <1>1 DEF LiveRow, NoRow, Weight
<1>5. ASSUME NEW i \in Invoices PROVE Worth(u, RowsOn(i)) = share[i]
  <2> DEFINE b == <<p, i, p>>
  <2>1. b \in RowIds /\ b \in RowsOn(i) /\ u[b] = share[i]
    BY <1>2, RowOf DEF RowsOn
  <2>2. \A a \in RowIds : a \in RowsOn(i) /\ a # b => u[a] = 0
    BY OneRow DEF RowsOn
  <2> HIDE DEF b, u
  <2> QED BY <1>2, <2>1, <2>2, WorthOnly
<1>6. ASSUME NEW s \in Sources, s # p PROVE Worth(u, RowsFrom(s)) = 0
  <2>1. \A a \in RowIds : a \in RowsFrom(s) => u[a] = 0
    BY <1>6 DEF RowsFrom
  <2> HIDE DEF u
  <2> QED BY <1>2, <2>1, WorthZero
<1>7. Worth(u, RowsFrom(p)) = Sum(share)
  BY ReceiptWeight
<1> HIDE DEF u
<1>8. ASSUME NEW C
      PROVE  /\ Worth(Weights', C) = Worth(Weights, C) + Worth(u, C)
             /\ Worth(Weights, C) \in Nat /\ Worth(u, C) \in Nat
  BY <1>2, <1>3, <1>4, Writing
<1>9. ASSUME NEW i \in Invoices PROVE Live(i)' = Live(i) + share[i] /\ Live(i) \in Nat
  BY <1>5, <1>8, LiveWorth
<1>10. ASSUME NEW s \in Sources
       PROVE  /\ s # p => Spent(s)' = Spent(s)
              /\ s = p => Spent(s)' = Spent(s) + Sum(share)
              /\ Spent(s) \in Nat
  <2>1. s # p => Worth(u, RowsFrom(s)) = 0
    BY <1>6
  <2>2. s = p => Worth(u, RowsFrom(s)) = Sum(share)
    BY <1>7
  <2> QED BY <1>8, <2>1, <2>2, SpentWorth
<1> QED BY <1>3, <1>9, <1>10

\* Applied credit settles the invoice by what the plan draws, and each source spends
\* its part of it.
LEMMA CreditRowsWritten ==
  ASSUME alloc \in [RowIds -> Row], NEW p \in Requests, NEW i \in Invoices,
         NEW plan \in [Sources -> Nat],
         \A a \in RowIds : Writer(a) = p => alloc[a] = NoRow,
         alloc' = [a \in RowIds |->
           IF Writer(a) = p /\ InvoiceOf(a) = i /\ plan[SourceOf(a)] > 0
           THEN LiveRow(plan[SourceOf(a)], TRUE) ELSE alloc[a]]
  PROVE  /\ alloc' \in [RowIds -> Row]
         /\ \A j \in Invoices : /\ j # i => Live(j)' = Live(j)
                                /\ j = i => Live(j)' = Live(j) + Sum(plan)
                                /\ Live(j) \in Nat
         /\ \A s \in Sources : Spent(s)' = Spent(s) + plan[s] /\ Spent(s) \in Nat
<1> DEFINE u == [a \in RowIds |-> IF Writer(a) = p /\ InvoiceOf(a) = i THEN plan[SourceOf(a)] ELSE 0]
<1>1. \A a \in RowIds : SourceOf(a) \in Sources /\ plan[SourceOf(a)] \in Nat
  BY RowIdParts
<1>2. u \in [RowIds -> Nat]
  BY <1>1
<1>3. alloc' \in [RowIds -> Row]
  BY <1>1 DEF LiveRow, Row
<1>4. \A a \in RowIds : \/ u[a] = 0 /\ Weight(alloc'[a]) = Weight(alloc[a])
                        \/ Weight(alloc[a]) = 0 /\ Weight(alloc'[a]) = u[a]
  BY <1>1 DEF LiveRow, NoRow, Weight
<1>5. ASSUME NEW s \in Sources PROVE Worth(u, RowsFrom(s)) = plan[s]
  <2> DEFINE b == <<p, i, s>>
  <2>1. b \in RowIds /\ b \in RowsFrom(s) /\ u[b] = plan[s]
    BY RowOf DEF RowsFrom
  <2>2. \A a \in RowIds : a \in RowsFrom(s) /\ a # b => u[a] = 0
    BY OneRow DEF RowsFrom
  <2> HIDE DEF b, u
  <2> QED BY <1>2, <2>1, <2>2, WorthOnly
<1>6. ASSUME NEW j \in Invoices, j # i PROVE Worth(u, RowsOn(j)) = 0
  <2>1. \A a \in RowIds : a \in RowsOn(j) => u[a] = 0
    BY <1>6 DEF RowsOn
  <2> HIDE DEF u
  <2> QED BY <1>2, <2>1, WorthZero
<1>7. Worth(u, RowsOn(i)) = Sum(plan)
  BY CreditWeight
<1> HIDE DEF u
<1>8. ASSUME NEW C
      PROVE  /\ Worth(Weights', C) = Worth(Weights, C) + Worth(u, C)
             /\ Worth(Weights, C) \in Nat /\ Worth(u, C) \in Nat
  BY <1>2, <1>3, <1>4, Writing
<1>9. ASSUME NEW s \in Sources PROVE Spent(s)' = Spent(s) + plan[s] /\ Spent(s) \in Nat
  BY <1>5, <1>8, SpentWorth
<1>10. ASSUME NEW j \in Invoices
       PROVE  /\ j # i => Live(j)' = Live(j)
              /\ j = i => Live(j)' = Live(j) + Sum(plan)
              /\ Live(j) \in Nat
  <2>1. j # i => Worth(u, RowsOn(j)) = 0
    BY <1>6
  <2>2. j = i => Worth(u, RowsOn(j)) = Sum(plan)
    BY <1>7
  <2> QED BY <1>8, <2>1, <2>2, LiveWorth
<1> QED BY <1>3, <1>9, <1>10

-----------------------------------------------------------------------------
(***************************************************************************)
(* The four invariants together are inductive: a workflow reads counters   *)
(* to decide what it writes, so none of them is kept without the others.   *)
(***************************************************************************)
Safe == CapacityKept /\ SourcesKept /\ NotesBacked /\ OwnCashKept

\* The fields of the book have their types.
LEMMA Typed ==
  ASSUME TypeOK
  PROVE  /\ status \in [Invoices -> {"issued", "cancelled"}]
         /\ settled \in [Invoices -> Nat \cup {Missing}]
         /\ credited \in [Invoices -> Nat]
         /\ noteStatus \in [Notes -> {"absent", "issued", "cancelled"}]
         /\ applied \in [Notes -> Nat]
         /\ pay \in [Receipts -> Receipt]
         /\ alloc \in [RowIds -> Row]
         /\ used \subseteq Requests
BY DEF TypeOK, BookTypeOK

\* The total of an invoice is an amount.
LEMMA TotalTyped == \A i \in Invoices : Total[i] \in Nat
BY BookShape

\* What the rows weigh is an amount.
LEMMA LiveSpentTyped ==
  ASSUME TypeOK
  PROVE  (\A i \in Invoices : Live(i) \in Nat) /\ \A s \in Sources : Spent(s) \in Nat
<1>1. Weights \in [RowIds -> Nat]
  BY Typed, WeightsTyped
<1> QED BY <1>1, WorthNat, LiveWorth, SpentWorth

\* A workflow that reserves what it then settles keeps the counter exact.
LEMMA ReserveExact ==
  ASSUME TypeOK, CapacityExact, NEW x \in [Invoices -> Nat], Reserve(x),
         \A i \in Invoices : Live(i)' = Live(i) + x[i]
  PROVE  settled' \in [Invoices -> Nat \cup {Missing}] /\ CapacityExact'
<1>1. \A i \in Invoices : /\ settled[i] \in {Live(i), Missing} /\ Live(i) \in Nat
                          /\ Live(i) <= Total[i] /\ Total[i] \in Nat /\ x[i] \in Nat
  BY LiveSpentTyped, TotalTyped DEF CapacityExact
<1>2. \A i \in Invoices : Baseline(i) = Live(i)
  BY <1>1 DEF Baseline, Missing
<1>3. settled' = [i \in Invoices |-> IF x[i] > 0 THEN Live(i) + x[i] ELSE settled[i]]
      /\ \A i \in Invoices : x[i] > 0 => Live(i) + x[i] <= Total[i]
  BY <1>2 DEF Reserve
<1>4. ASSUME NEW i \in Invoices
      PROVE  /\ settled'[i] \in {Live(i)', Missing}
             /\ Live(i)' <= Total[i] /\ Live(i)' \in Nat
  BY <1>1, <1>3
<1>5. settled' \in [Invoices -> Nat \cup {Missing}]
  BY <1>1, <1>3 DEF Missing
<1> QED BY <1>4, <1>5 DEF CapacityExact, Missing

\* A workflow that releases what it reverses keeps the counter exact.
LEMMA ReleaseExact ==
  ASSUME TypeOK, CapacityExact, NEW i \in Invoices, NEW x \in Nat, ReleaseSettlement(i, x),
         \A j \in Invoices : Live(j)' \in Nat /\ (j # i => Live(j)' = Live(j)),
         Live(i) = Live(i)' + x
  PROVE  settled' \in [Invoices -> Nat \cup {Missing}] /\ CapacityExact'
<1>1. \A j \in Invoices : /\ settled[j] \in {Live(j), Missing} /\ Live(j) \in Nat
                          /\ Live(j) <= Total[j] /\ Total[j] \in Nat
  BY LiveSpentTyped, TotalTyped DEF CapacityExact
<1>2. settled \in [Invoices -> Nat \cup {Missing}]
  BY Typed
<1>3. settled' = [settled EXCEPT ![i] = IF @ # Missing /\ @ >= x THEN @ - x ELSE @]
  BY DEF ReleaseSettlement
<1>4. ASSUME NEW j \in Invoices, j # i
      PROVE  settled'[j] \in {Live(j)', Missing} /\ Live(j)' <= Total[j]
  BY <1>1, <1>2, <1>3, <1>4
<1>5. settled'[i] \in {Live(i)', Missing} /\ Live(i)' <= Total[i]
  <2>1. settled'[i] = IF settled[i] # Missing /\ settled[i] >= x THEN settled[i] - x ELSE settled[i]
    BY <1>2, <1>3
  <2>2. CASE settled[i] = Missing
    BY <1>1, <2>1, <2>2
  <2>3. CASE settled[i] = Live(i) /\ settled[i] # Missing
    <3>1. Live(i) >= x /\ Live(i) - x = Live(i)'
      BY <1>1
    <3> QED BY <1>1, <2>1, <2>3, <3>1
  <2> QED BY <1>1, <2>2, <2>3
<1>6. \A j \in Invoices : settled'[j] \in {Live(j)', Missing} /\ Live(j)' <= Total[j]
  BY <1>4, <1>5
<1>7. settled' \in [Invoices -> Nat \cup {Missing}]
  BY <1>2, <1>3, <1>6
<1> QED BY <1>6, <1>7 DEF CapacityExact, Missing

\* Notes stand as they did when neither they nor their invoices changed against them.
LEMMA NotesStand ==
  ASSUME NotesBacked, UNCHANGED <<noteStatus, credited>>,
         \A i \in Invoices : LiveNotes(i) # {} => status'[i] = status[i]
  PROVE  NotesBacked'
<1>1. ASSUME NEW i \in Invoices
      PROVE  /\ LiveNotes(i)' # {} => status'[i] = "issued"
             /\ credited'[i] = Sum([n \in LiveNotes(i)' |-> NoteTotal[n]])
             /\ credited'[i] <= Total[i]
  <2>1. LiveNotes(i)' = LiveNotes(i)
    BY DEF LiveNotes
  <2> QED BY <2>1 DEF NotesBacked
<1> QED BY <1>1 DEF NotesBacked

\* Where no row is live, nothing was spent.
LEMMA NothingSpent ==
  ASSUME TypeOK, NEW s \in Sources, \A a \in RowIds : SourceOf(a) = s => alloc[a].state # "live"
  PROVE  Spent(s) = 0
<1>1. Weights \in [RowIds -> Nat]
  BY Typed, WeightsTyped
<1>2. \A a \in RowIds : a \in RowsFrom(s) => Weights[a] = 0
  BY DEF RowsFrom, Weights, Weight
<1> QED BY <1>1, <1>2, WorthZero, SpentWorth

-----------------------------------------------------------------------------
(***************************************************************************)
(* Recording a payment.                                                    *)
(***************************************************************************)
LEMMA RecordKeeps ==
  ASSUME Safe, NEW p \in Requests, NEW T \in TargetLists, NEW amount \in Amounts,
         NEW allow \in BOOLEAN, RecordPayment(p, T, amount, allow)
  PROVE  Safe'
<1>1. PICK share \in [Invoices -> 0..amount] :
        /\ Take(p)
        /\ \A k \in DOMAIN T : status[T[k]] # "cancelled"
        /\ IsGreedyFill(share, T, amount)
        /\ Reserve(share)
        /\ pay' = [pay EXCEPT ![p] = NewReceipt(T[Len(T)], amount, Sum(share))]
        /\ alloc' = [a \in RowIds |->
             IF Writer(a) = p /\ SourceOf(a) = p /\ share[InvoiceOf(a)] > 0
             THEN LiveRow(share[InvoiceOf(a)], FALSE) ELSE alloc[a]]
        /\ UNCHANGED <<status, credited, noteVars>>
  BY Zenon DEF RecordPayment
<1>2. p \in Requests \ used /\ used' = used \cup {p}
  BY <1>1 DEF Take
<1>3. amount \in Nat /\ amount > 0 /\ T \in Seq(Invoices) /\ T # <<>>
  BY WorkflowShape
<1>4. share \in [Invoices -> Nat] /\ Sum(share) \in Nat /\ Sum(share) <= amount
  <2>1. share \in [Invoices -> Nat] /\ IsFiniteSet(Invoices)
    BY <1>3, BookShape
  <2> QED BY <1>1, <2>1, SumNat DEF IsGreedyFill
<1>5. \A i \in Invoices : share[i] > 0 => status[i] # "cancelled"
  BY <1>1 DEF IsGreedyFill
<1>6. TypeOK /\ Untouched /\ CapacityExact /\ SourcesExact /\ RowsFunded
      /\ CancelledKeepsOwnCash /\ RefundsFlagged /\ NotesBacked
  BY DEF Safe, CapacityKept, SourcesKept, OwnCashKept
<1>7. ~Made(p) /\ \A a \in RowIds : Writer(a) = p => alloc[a] = NoRow
  BY <1>2, <1>6 DEF Untouched
<1>8. p \in Receipts /\ p \in Sources /\ p \notin Notes
  BY BookShape DEF Receipts, Sources
<1>9. UNCHANGED <<status, credited, noteStatus, applied>>
  BY <1>1 DEF noteVars
<1>10. /\ alloc' \in [RowIds -> Row]
       /\ \A i \in Invoices : Live(i)' = Live(i) + share[i] /\ Live(i) \in Nat
       /\ \A s \in Sources : /\ s # p => Spent(s)' = Spent(s)
                             /\ s = p => Spent(s)' = Spent(s) + Sum(share)
                             /\ Spent(s) \in Nat
  BY <1>1, <1>4, <1>6, <1>7, Typed, ReceiptRows
<1> DEFINE m == NewReceipt(T[Len(T)], amount, Sum(share))
<1>11. /\ m \in Receipt /\ m.inv \in Invoices /\ m.allocated = Sum(share)
       /\ m.refundable = 0 /\ m.refund = "none"
  <2>1. T[Len(T)] \in Invoices
    BY <1>3
  <2>2. amount - Sum(share) \in Nat
    BY <1>3, <1>4
  <2> QED BY <1>3, <1>4, <2>1, <2>2 DEF NewReceipt, Receipt
<1>12. pay' = [pay EXCEPT ![p] = m]
  BY <1>1
<1> HIDE DEF m
<1>13. /\ pay'[p] = m /\ \A r \in Receipts : r # p => pay'[r] = pay[r]
       /\ pay' \in [Receipts -> Receipt]
  BY <1>6, <1>8, <1>11, <1>12, Typed
<1>14. settled' \in [Invoices -> Nat \cup {Missing}] /\ CapacityExact'
  BY <1>1, <1>4, <1>6, <1>10, ReserveExact
<1>15. TypeOK'
  BY <1>2, <1>6, <1>9, <1>10, <1>13, <1>14, Typed DEF TypeOK, BookTypeOK
<1>16. \A a \in RowIds : Writer(a) # p => alloc'[a] = alloc[a]
  BY <1>1
<1>17. \A a \in RowIds :
         \/ alloc'[a] = alloc[a]
         \/ /\ SourceOf(a) = p /\ status[InvoiceOf(a)] # "cancelled" /\ InvoiceOf(a) \in Invoices
  BY <1>1, <1>5, RowIdParts
<1>18. \A a \in RowIds : alloc[a].state = "live" => SourceOf(a) # p
  BY <1>6, <1>7, <1>8 DEF RowsFunded
<1>19. Untouched'
  <2>1. \A q \in Requests \ used' : ~Made(q)' /\ \A a \in RowIds : Writer(a) = q => alloc'[a] = NoRow
    BY <1>2, <1>6, <1>13, <1>16 DEF Untouched, Made, Receipts
  <2>2. \A r \in Receipts : ~Made(r)' => pay'[r] = NoReceipt
    BY <1>6, <1>11, <1>13, BookShape DEF Untouched, Made
  <2> QED BY <2>1, <2>2 DEF Untouched, Writer
<1>20. SourcesExact'
  <2>1. Spent(p) = 0
    BY <1>6, <1>8, <1>18, NothingSpent
  <2>2. \A n \in Notes : applied'[n] = Spent(n)' /\ Spent(n)' <= NoteTotal[n]
    BY <1>6, <1>8, <1>9, <1>10 DEF SourcesExact, Sources
  <2>3. \A r \in Receipts : Made(r)' => pay'[r].allocated = Spent(r)'
    <3>1. pay'[p].allocated = Spent(p)'
      BY <1>4, <1>8, <1>10, <1>11, <1>13, <2>1
    <3>2. \A r \in Receipts : r # p /\ Made(r)' => pay'[r].allocated = Spent(r)'
      BY <1>6, <1>10, <1>13 DEF SourcesExact, Sources, Made
    <3> QED BY <3>1, <3>2
  <2> QED BY <2>2, <2>3 DEF SourcesExact
<1>21. RowsFunded'
  <2>1. Made(p)'
    BY <1>11, <1>13, BookShape DEF Made
  <2>2. ASSUME NEW a \in RowIds, alloc'[a].state = "live"
        PROVE  \/ SourceOf(a) \in Receipts /\ Made(SourceOf(a))'
               \/ SourceOf(a) \in Notes /\ alloc'[a].stamped
    <3>1. CASE SourceOf(a) = p
      BY <1>8, <2>1, <3>1
    <3>2. CASE SourceOf(a) # p
      BY <1>6, <1>13, <1>17, <2>2, <3>2 DEF RowsFunded, Made
    <3> QED BY <3>1, <3>2
  <2> QED BY <2>2 DEF RowsFunded, SourceOf, Made
<1>22. NotesBacked'
  BY <1>6, <1>9, NotesStand
<1>23. CancelledKeepsOwnCash'
  <2>1. ASSUME NEW a \in RowIds, alloc'[a].state = "live", status'[InvoiceOf(a)] = "cancelled"
        PROVE  /\ ~alloc'[a].stamped
               /\ pay'[SourceOf(a)].inv = InvoiceOf(a)
               /\ pay'[SourceOf(a)].refund \in {"pending", "processed"}
    <3>1. alloc'[a] = alloc[a] /\ status[InvoiceOf(a)] = "cancelled"
      BY <1>9, <1>17, <2>1
    <3>2. SourceOf(a) # p /\ ~alloc[a].stamped /\ pay[SourceOf(a)].inv = InvoiceOf(a)
          /\ pay[SourceOf(a)].refund \in {"pending", "processed"} /\ SourceOf(a) \in Receipts
      BY <1>6, <1>18, <2>1, <3>1 DEF CancelledKeepsOwnCash, RowsFunded
    <3> QED BY <1>13, <3>1, <3>2
  <2> QED BY <2>1 DEF CancelledKeepsOwnCash, InvoiceOf, SourceOf
<1>24. RefundsFlagged'
  BY <1>6, <1>9, <1>11, <1>13 DEF RefundsFlagged
<1> QED BY <1>14, <1>15, <1>19, <1>20, <1>21, <1>22, <1>23, <1>24
        DEF Safe, CapacityKept, SourcesKept, OwnCashKept

-----------------------------------------------------------------------------
(***************************************************************************)
(* Applying credit and taking it back.                                     *)
(***************************************************************************)
\* A source offers no more than it has, and only a recorded one offers anything.
LEMMA Offered ==
  ASSUME TypeOK, SourcesExact, NEW s \in Sources
  PROVE  /\ Remaining(s) \in Nat
         /\ s \in Notes => Remaining(s) <= NoteTotal[s] - applied[s]
         /\ s \in Receipts => Remaining(s) <= pay[s].unapplied
         /\ Remaining(s) > 0 /\ s \in Receipts => Made(s)
<1>1. CASE s \in Notes
  <2>1. applied[s] \in Nat /\ NoteTotal[s] \in Nat /\ applied[s] <= NoteTotal[s] /\ s \notin Receipts
    BY <1>1, Typed, BookShape DEF SourcesExact
  <2> QED BY <1>1, <2>1 DEF Remaining
<1>2. CASE s \notin Notes
  <2>1. s \in Receipts
    BY <1>2 DEF Sources
  <2>2. pay[s].unapplied \in Nat
    BY <2>1, Typed, ReceiptTyped
  <2> QED BY <1>2, <2>2 DEF Remaining
<1> QED BY <1>1, <1>2

\* Applying credit keeps the books safe.
LEMMA ApplyKeeps ==
  ASSUME Safe, NEW p \in Requests, NEW i \in Invoices, NEW amount \in Amounts,
         ApplyCredit(p, i, amount)
  PROVE  Safe'
<1>1. PICK drawn \in [{s \in Sources : Remaining(s) > 0} -> 0..amount] :
        LET plan == [s \in Sources |-> IF s \in DOMAIN drawn THEN drawn[s] ELSE 0] IN
        /\ IsGreedyPlan(plan, amount)
        /\ applied' = [n \in Notes |-> applied[n] + plan[n]]
        /\ pay' = [r \in Receipts |->
             [pay[r] EXCEPT !.unapplied = @ - plan[r], !.allocated = @ + plan[r]]]
        /\ alloc' = [a \in RowIds |->
             IF Writer(a) = p /\ InvoiceOf(a) = i /\ plan[SourceOf(a)] > 0
             THEN LiveRow(plan[SourceOf(a)], TRUE) ELSE alloc[a]]
  BY Zenon DEF ApplyCredit
<1> DEFINE plan == [s \in Sources |-> IF s \in DOMAIN drawn THEN drawn[s] ELSE 0]
<1>2. /\ IsGreedyPlan(plan, amount)
      /\ applied' = [n \in Notes |-> applied[n] + plan[n]]
      /\ pay' = [r \in Receipts |->
           [pay[r] EXCEPT !.unapplied = @ - plan[r], !.allocated = @ + plan[r]]]
      /\ alloc' = [a \in RowIds |->
           IF Writer(a) = p /\ InvoiceOf(a) = i /\ plan[SourceOf(a)] > 0
           THEN LiveRow(plan[SourceOf(a)], TRUE) ELSE alloc[a]]
  BY <1>1, Zenon
<1>3. amount \in Nat /\ amount > 0
  BY WorkflowShape
<1>4. plan \in [Sources -> Nat]
  BY <1>3
<1> HIDE DEF plan
<1>5. /\ Take(p) /\ status[i] # "cancelled" /\ UNCHANGED <<status, credited, noteStatus>>
      /\ Reserve([j \in Invoices |-> IF j = i THEN amount ELSE 0])
  BY DEF ApplyCredit
<1>6. p \in Requests \ used /\ used' = used \cup {p}
  BY <1>5 DEF Take
<1>7. TypeOK /\ Untouched /\ CapacityExact /\ SourcesExact /\ RowsFunded
      /\ CancelledKeepsOwnCash /\ RefundsFlagged /\ NotesBacked
  BY DEF Safe, CapacityKept, SourcesKept, OwnCashKept
<1>8. ~Made(p) /\ \A a \in RowIds : Writer(a) = p => alloc[a] = NoRow
  BY <1>6, <1>7 DEF Untouched
<1>9. /\ alloc' \in [RowIds -> Row]
      /\ \A j \in Invoices : /\ j # i => Live(j)' = Live(j)
                             /\ j = i => Live(j)' = Live(j) + Sum(plan)
                             /\ Live(j) \in Nat
      /\ \A s \in Sources : Spent(s)' = Spent(s) + plan[s] /\ Spent(s) \in Nat
  BY <1>2, <1>4, <1>7, <1>8, Typed, CreditRowsWritten
<1>10. Sum(plan) = amount /\ \A s \in Sources : plan[s] <= Remaining(s)
  BY <1>2 DEF IsGreedyPlan
<1>11. settled' \in [Invoices -> Nat \cup {Missing}] /\ CapacityExact'
  <2> DEFINE x == [j \in Invoices |-> IF j = i THEN amount ELSE 0]
  <2>1. x \in [Invoices -> Nat] /\ Reserve(x) /\ \A j \in Invoices : Live(j)' = Live(j) + x[j]
    BY <1>3, <1>5, <1>9, <1>10
  <2> HIDE DEF x
  <2> QED BY <1>7, <2>1, ReserveExact
<1>12. \A n \in Notes : /\ n \in Sources /\ plan[n] \in Nat /\ applied[n] \in Nat
                        /\ NoteTotal[n] \in Nat
                        /\ plan[n] <= NoteTotal[n] - applied[n]
                        /\ applied'[n] = applied[n] + plan[n]
  <2> TAKE n \in Notes
  <2>1. n \in Sources /\ applied[n] \in Nat /\ NoteTotal[n] \in Nat
    BY <1>7, Typed, BookShape DEF Sources
  <2>2. plan[n] \in Nat /\ Remaining(n) \in Nat /\ Remaining(n) <= NoteTotal[n] - applied[n]
        /\ plan[n] <= Remaining(n)
    BY <1>4, <1>7, <1>10, <2>1, Offered
  <2>3. applied'[n] = applied[n] + plan[n]
    BY <1>2
  <2>4. plan[n] <= NoteTotal[n] - applied[n]
    BY <2>1, <2>2
  <2> QED BY <2>1, <2>2, <2>3, <2>4
<1>13. applied' \in [Notes -> Nat]
  <2>1. \A n \in Notes : applied[n] + plan[n] \in Nat
    BY <1>12
  <2> QED BY <1>2, <2>1
<1>14. ASSUME NEW r \in Receipts
       PROVE  /\ pay'[r] \in Receipt /\ pay[r] \in Receipt /\ r \in Sources /\ plan[r] \in Nat
              /\ pay'[r].inv = pay[r].inv /\ pay'[r].refund = pay[r].refund
              /\ pay'[r].refundable = pay[r].refundable
              /\ pay'[r].allocated = pay[r].allocated + plan[r]
              /\ plan[r] = 0 => pay'[r] = pay[r]
              /\ plan[r] > 0 => Made(r)
  <2>1. r \in Sources /\ pay[r] \in Receipt
    BY <1>7, Typed DEF Sources
  <2>2. plan[r] \in Nat /\ Remaining(r) \in Nat /\ Remaining(r) <= pay[r].unapplied
        /\ plan[r] <= Remaining(r) /\ (Remaining(r) > 0 => Made(r))
    BY <1>4, <1>7, <1>10, <2>1, Offered
  <2>3. pay[r].unapplied \in Nat /\ pay[r].allocated \in Nat
    BY <2>1, ReceiptTyped
  <2>4. pay'[r] = [pay[r] EXCEPT !.unapplied = @ - plan[r], !.allocated = @ + plan[r]]
    BY <1>2
  <2>5. pay[r].unapplied - plan[r] \in Nat /\ pay[r].allocated + plan[r] \in Nat
    BY <2>2, <2>3
  <2>6. plan[r] = 0 => pay[r].unapplied - plan[r] = pay[r].unapplied
                       /\ pay[r].allocated + plan[r] = pay[r].allocated
    BY <2>3
  <2>7. plan[r] = 0 => pay'[r] = pay[r]
    BY <2>1, <2>4, <2>6 DEF Receipt
  <2>8. /\ pay'[r] \in Receipt
        /\ pay'[r].inv = pay[r].inv /\ pay'[r].refund = pay[r].refund
        /\ pay'[r].refundable = pay[r].refundable
        /\ pay'[r].allocated = pay[r].allocated + plan[r]
    BY <2>1, <2>4, <2>5 DEF Receipt
  <2>9. plan[r] > 0 => Made(r)
    BY <2>2
  <2> QED BY <2>1, <2>2, <2>7, <2>8, <2>9
<1>15. pay' \in [Receipts -> Receipt]
  BY <1>2, <1>14
<1>16. TypeOK'
  BY <1>5, <1>6, <1>7, <1>9, <1>11, <1>13, <1>15, Typed DEF TypeOK, BookTypeOK
<1>17. \A a \in RowIds :
         \/ alloc'[a] = alloc[a]
         \/ /\ Writer(a) = p /\ InvoiceOf(a) = i /\ plan[SourceOf(a)] > 0
            /\ alloc'[a] = LiveRow(plan[SourceOf(a)], TRUE)
  BY <1>2
<1>18. Untouched'
  <2>1. \A q \in Requests \ used' : ~Made(q)' /\ \A a \in RowIds : Writer(a) = q => alloc'[a] = NoRow
    BY <1>6, <1>7, <1>14, <1>17 DEF Untouched, Made, Receipts
  <2>2. \A r \in Receipts : ~Made(r)' => pay'[r] = NoReceipt
    BY <1>7, <1>14 DEF Untouched, Made
  <2> QED BY <2>1, <2>2 DEF Untouched, Writer
<1>19. SourcesExact'
  <2>1. \A n \in Notes : applied'[n] = Spent(n)' /\ Spent(n)' <= NoteTotal[n]
    BY <1>7, <1>9, <1>12 DEF SourcesExact
  <2>2. \A r \in Receipts : Made(r)' => pay'[r].allocated = Spent(r)'
    BY <1>7, <1>9, <1>14 DEF SourcesExact, Made
  <2> QED BY <2>1, <2>2 DEF SourcesExact
<1>20. RowsFunded'
  <2>1. ASSUME NEW a \in RowIds, alloc'[a].state = "live"
        PROVE  \/ SourceOf(a) \in Receipts /\ Made(SourceOf(a))'
               \/ SourceOf(a) \in Notes /\ alloc'[a].stamped
    <3>1. CASE alloc'[a] = alloc[a]
      BY <1>7, <1>14, <2>1, <3>1 DEF RowsFunded, Made
    <3>2. CASE plan[SourceOf(a)] > 0 /\ alloc'[a] = LiveRow(plan[SourceOf(a)], TRUE)
      <4>1. SourceOf(a) \in Notes \/ SourceOf(a) \in Receipts
        BY RowIdParts DEF Sources
      <4>2. alloc'[a].stamped
        BY <3>2 DEF LiveRow
      <4> QED BY <1>14, <3>2, <4>1, <4>2 DEF Made
    <3> QED BY <1>17, <3>1, <3>2
  <2> QED BY <2>1 DEF RowsFunded, SourceOf, Made
<1>21. NotesBacked'
  BY <1>5, <1>7, NotesStand
<1>22. CancelledKeepsOwnCash'
  <2>1. ASSUME NEW a \in RowIds, alloc'[a].state = "live", status'[InvoiceOf(a)] = "cancelled"
        PROVE  /\ ~alloc'[a].stamped
               /\ pay'[SourceOf(a)].inv = InvoiceOf(a)
               /\ pay'[SourceOf(a)].refund \in {"pending", "processed"}
    <3>1. alloc'[a] = alloc[a] /\ status[InvoiceOf(a)] = "cancelled"
      BY <1>5, <1>17, <2>1
    <3>2. ~alloc[a].stamped /\ pay[SourceOf(a)].inv = InvoiceOf(a)
          /\ pay[SourceOf(a)].refund \in {"pending", "processed"} /\ SourceOf(a) \in Receipts
      BY <1>7, <2>1, <3>1 DEF CancelledKeepsOwnCash, RowsFunded
    <3> QED BY <1>14, <3>1, <3>2
  <2> QED BY <2>1 DEF CancelledKeepsOwnCash, InvoiceOf, SourceOf
<1>23. RefundsFlagged'
  BY <1>5, <1>7, <1>14 DEF RefundsFlagged
<1> QED BY <1>11, <1>16, <1>18, <1>19, <1>20, <1>21, <1>22, <1>23
        DEF Safe, CapacityKept, SourcesKept, OwnCashKept

\* The rows of A come to one row.
LEMMA OneReversed ==
  ASSUME alloc \in [RowIds -> Row], NEW b \in RowIds
  PROVE  /\ \A i \in Invoices : SettledOn({b}, i) = IF InvoiceOf(b) = i THEN alloc[b].amount ELSE 0
         /\ \A s \in Sources : TakenFrom({b}, s) = IF SourceOf(b) = s THEN alloc[b].amount ELSE 0
<1>1. IsFiniteSet({b}) /\ alloc[b].amount \in Nat
  BY FS_Singleton DEF Row
<1>2. ASSUME NEW i \in Invoices
      PROVE  SettledOn({b}, i) = IF InvoiceOf(b) = i THEN alloc[b].amount ELSE 0
  <2> DEFINE f == [a \in {b} |-> IF InvoiceOf(a) = i THEN alloc[a].amount ELSE 0]
  <2>1. f \in [{b} -> Nat] /\ b \in {b} /\ (\A a \in {b} : a # b => f[a] = 0)
        /\ f[b] = IF InvoiceOf(b) = i THEN alloc[b].amount ELSE 0
    BY <1>1
  <2> HIDE DEF f
  <2>2. Sum(f) = f[b]
    BY <1>1, <2>1, SumOnly
  <2> QED BY <2>1, <2>2 DEF SettledOn, f
<1>3. ASSUME NEW s \in Sources
      PROVE  TakenFrom({b}, s) = IF SourceOf(b) = s THEN alloc[b].amount ELSE 0
  <2> DEFINE f == [a \in {b} |-> IF SourceOf(a) = s THEN alloc[a].amount ELSE 0]
  <2>1. f \in [{b} -> Nat] /\ b \in {b} /\ (\A a \in {b} : a # b => f[a] = 0)
        /\ f[b] = IF SourceOf(b) = s THEN alloc[b].amount ELSE 0
    BY <1>1
  <2> HIDE DEF f
  <2>2. Sum(f) = f[b]
    BY <1>1, <2>1, SumOnly
  <2> QED BY <2>1, <2>2 DEF TakenFrom, f
<1> QED BY <1>2, <1>3

\* Reversing leaves behind no row that a request did not write, and none that is not funded.
LEMMA ReversedRows ==
  ASSUME alloc \in [RowIds -> Row], Untouched, NEW A, alloc' = Reversed(A),
         \A a \in A : alloc[a].state = "live"
  PROVE  /\ \A q \in Requests \ used : \A a \in RowIds : Writer(a) = q => alloc'[a] = NoRow
         /\ \A a \in RowIds : alloc'[a].state = "live" =>
              a \notin A /\ alloc'[a] = alloc[a]
<1>1. \A a \in RowIds : alloc'[a] = IF a \in A THEN [alloc[a] EXCEPT !.state = "reversed"] ELSE alloc[a]
  BY DEF Reversed
<1>2. \A q \in Requests \ used : \A a \in RowIds : Writer(a) = q => alloc[a] = NoRow
  BY DEF Untouched
<1>3. \A a \in RowIds : alloc[a] = NoRow => a \notin A
  BY DEF NoRow
<1>4. ASSUME NEW a \in RowIds, alloc'[a].state = "live"
      PROVE  a \notin A /\ alloc'[a] = alloc[a]
  BY <1>1, <1>4 DEF Row
<1>5. ASSUME NEW q \in Requests \ used, NEW a \in RowIds, Writer(a) = q
      PROVE  alloc'[a] = NoRow
  BY <1>1, <1>2, <1>3, <1>5
<1> QED BY <1>4, <1>5

\* Taking applied credit back keeps the books safe.
LEMMA ReverseKeeps ==
  ASSUME Safe, NEW b \in RowIds, ReverseCredit(b)
  PROVE  Safe'
<1>0. PICK i, s, x, A : /\ i = InvoiceOf(b) /\ s = SourceOf(b) /\ x = alloc[b].amount
                        /\ A = {b}
  OBVIOUS
<1>1. /\ alloc[b].state = "live" /\ CanGiveBack(s, x) /\ GiveBack(s, x)
      /\ alloc' = Reversed(A) /\ ReleaseSettlement(i, x)
      /\ UNCHANGED <<status, credited, noteStatus, used>>
  BY <1>0 DEF ReverseCredit
<1>2. TypeOK /\ Untouched /\ CapacityExact /\ SourcesExact /\ RowsFunded
      /\ CancelledKeepsOwnCash /\ RefundsFlagged /\ NotesBacked
  BY DEF Safe, CapacityKept, SourcesKept, OwnCashKept
<1>3. i \in Invoices /\ s \in Sources /\ x \in Nat
  BY <1>0, <1>2, Typed, RowIdParts DEF Row
<1>4. alloc \in [RowIds -> Row]
  BY <1>2, Typed
<1>5. /\ alloc' \in [RowIds -> Row]
      /\ \A j \in Invoices : Live(j) = Live(j)' + SettledOn(A, j) /\ Live(j)' \in Nat
      /\ \A t \in Sources : Spent(t) = Spent(t)' + TakenFrom(A, t) /\ Spent(t)' \in Nat
  <2>1. A \subseteq RowIds /\ \A a \in A : alloc[a].state = "live"
    BY <1>0, <1>1
  <2> QED BY <1>1, <1>4, <2>1, Reversing
<1>6. /\ \A j \in Invoices : SettledOn(A, j) = IF i = j THEN x ELSE 0
      /\ \A t \in Sources : TakenFrom(A, t) = IF s = t THEN x ELSE 0
  BY <1>0, <1>4, OneReversed
<1>7. /\ Live(i) = Live(i)' + x
      /\ \A j \in Invoices : Live(j)' \in Nat /\ (j # i => Live(j)' = Live(j))
  <2>1. i \in Invoices /\ SettledOn(A, i) = x /\ Live(i)' \in Nat
    BY <1>3, <1>5, <1>6
  <2>2. \A j \in Invoices : j # i => Live(j) = Live(j)' + 0 /\ Live(j)' \in Nat
    BY <1>5, <1>6
  <2> QED BY <1>5, <2>1, <2>2
<1>8. /\ Spent(s) = Spent(s)' + x
      /\ \A t \in Sources : Spent(t)' \in Nat /\ (t # s => Spent(t)' = Spent(t))
  <2>1. s \in Sources /\ TakenFrom(A, s) = x /\ Spent(s)' \in Nat
    BY <1>3, <1>5, <1>6
  <2>2. \A t \in Sources : t # s => Spent(t) = Spent(t)' + 0 /\ Spent(t)' \in Nat
    BY <1>5, <1>6
  <2> QED BY <1>5, <2>1, <2>2
<1>9. settled' \in [Invoices -> Nat \cup {Missing}] /\ CapacityExact'
  BY <1>1, <1>2, <1>3, <1>7, ReleaseExact
<1>10. /\ \A q \in Requests \ used : \A a \in RowIds : Writer(a) = q => alloc'[a] = NoRow
       /\ \A a \in RowIds : alloc'[a].state = "live" => a \notin A /\ alloc'[a] = alloc[a]
  <2>1. \A a \in A : alloc[a].state = "live"
    BY <1>0, <1>1
  <2> QED BY <1>1, <1>2, <1>4, <2>1, ReversedRows
<1>11. /\ applied' \in [Notes -> Nat]
       /\ \A n \in Notes : applied'[n] = IF n = s THEN applied[n] - x ELSE applied[n]
       /\ s \in Notes => applied[s] >= x
  <2>1. applied \in [Notes -> Nat] /\ Notes \cap Receipts = {}
    BY <1>2, Typed, BookShape
  <2>2. CASE s \in Notes
    <3>1. applied' = [applied EXCEPT ![s] = @ - x] /\ applied[s] >= x
      BY <1>1, <2>2 DEF GiveBack, CanGiveBack
    <3>2. applied[s] - x \in Nat
      BY <1>3, <2>1, <2>2, <3>1
    <3> QED BY <2>1, <3>1, <3>2
  <2>3. CASE s \notin Notes
    BY <1>1, <2>1, <2>3 DEF GiveBack
  <2> QED BY <2>2, <2>3
<1>12. ASSUME NEW r \in Receipts
       PROVE  /\ pay'[r] \in Receipt /\ pay[r] \in Receipt
              /\ pay'[r].inv = pay[r].inv /\ pay'[r].refund = pay[r].refund
              /\ pay'[r].refundable = pay[r].refundable
              /\ pay'[r].allocated = IF r = s THEN pay[r].allocated - x ELSE pay[r].allocated
              /\ r = s => Made(r) /\ pay[r].allocated >= x
              /\ r # s => pay'[r] = pay[r]
  <2>1. pay \in [Receipts -> Receipt] /\ r \notin Notes
    BY <1>2, Typed, BookShape
  <2>2. pay[r].unapplied \in Nat /\ pay[r].allocated \in Nat
    BY <2>1, ReceiptTyped
  <2>3. CASE r = s
    <3>1. /\ pay' = [pay EXCEPT ![s].allocated = @ - x, ![s].unapplied = @ + x]
          /\ Made(s) /\ pay[s].allocated >= x
      BY <1>1, <2>1, <2>3 DEF GiveBack, CanGiveBack
    <3>2. pay'[r] = [pay[r] EXCEPT !.allocated = @ - x, !.unapplied = @ + x]
      BY <2>1, <2>3, <3>1
    <3>3. pay[r].allocated - x \in Nat /\ pay[r].unapplied + x \in Nat
      BY <1>3, <2>2, <2>3, <3>1
    <3>4. PICK u \in Nat : u = pay[r].allocated - x
      BY <3>3
    <3>5. PICK v \in Nat : v = pay[r].unapplied + x
      BY <3>3
    <3>6. pay'[r] = [pay[r] EXCEPT !.allocated = u, !.unapplied = v] /\ pay[r] \in Receipt
      BY <2>1, <3>2, <3>4, <3>5, Zenon
    <3>7. /\ pay'[r] \in Receipt
          /\ pay'[r].inv = pay[r].inv /\ pay'[r].refund = pay[r].refund
          /\ pay'[r].refundable = pay[r].refundable
          /\ pay'[r].allocated = u
      BY <3>6 DEF Receipt
    <3> QED BY <2>1, <2>3, <3>1, <3>4, <3>7
  <2>4. CASE r # s
    <3>1. pay'[r] = pay[r]
      BY <1>1, <2>1, <2>4 DEF GiveBack
    <3> QED BY <2>1, <2>4, <3>1
  <2> QED BY <2>3, <2>4
<1>13. pay' \in [Receipts -> Receipt]
  <2>1. DOMAIN pay' = Receipts /\ pay' = [r \in Receipts |-> pay'[r]]
    BY <1>1, <1>2, Typed DEF GiveBack
  <2> QED BY <1>12, <2>1
<1>14. TypeOK'
  BY <1>1, <1>2, <1>5, <1>9, <1>11, <1>13, Typed DEF TypeOK, BookTypeOK
<1>15. Untouched'
  <2>1. \A q \in Requests \ used' : ~Made(q)' /\ \A a \in RowIds : Writer(a) = q => alloc'[a] = NoRow
    BY <1>1, <1>2, <1>10, <1>12 DEF Untouched, Made, Receipts
  <2>2. \A r \in Receipts : ~Made(r)' => pay'[r] = NoReceipt
    BY <1>2, <1>12 DEF Untouched, Made
  <2> QED BY <2>1, <2>2 DEF Untouched, Writer
<1>16. SourcesExact'
  <2>1. ASSUME NEW n \in Notes PROVE applied'[n] = Spent(n)' /\ Spent(n)' <= NoteTotal[n]
    <3>1. n \in Sources /\ applied[n] = Spent(n) /\ Spent(n) <= NoteTotal[n] /\ NoteTotal[n] \in Nat
      BY <1>2, BookShape DEF SourcesExact, Sources
    <3> QED BY <1>3, <1>8, <1>11, <3>1
  <2>2. ASSUME NEW r \in Receipts, Made(r)' PROVE pay'[r].allocated = Spent(r)'
    <3>1. r \in Sources /\ pay[r].allocated = Spent(r)
      BY <1>2, <1>12, <2>2 DEF SourcesExact, Sources, Made
    <3> QED BY <1>3, <1>8, <1>12, <3>1
  <2> QED BY <2>1, <2>2 DEF SourcesExact
<1>17. RowsFunded'
  <2>1. ASSUME NEW a \in RowIds, alloc'[a].state = "live"
        PROVE  \/ SourceOf(a) \in Receipts /\ Made(SourceOf(a))'
               \/ SourceOf(a) \in Notes /\ alloc'[a].stamped
    BY <1>2, <1>10, <1>12, <2>1 DEF RowsFunded, Made
  <2> QED BY <2>1 DEF RowsFunded, SourceOf, Made
<1>18. NotesBacked'
  BY <1>1, <1>2, NotesStand
<1>19. CancelledKeepsOwnCash'
  <2>1. ASSUME NEW a \in RowIds, alloc'[a].state = "live", status'[InvoiceOf(a)] = "cancelled"
        PROVE  /\ ~alloc'[a].stamped
               /\ pay'[SourceOf(a)].inv = InvoiceOf(a)
               /\ pay'[SourceOf(a)].refund \in {"pending", "processed"}
    <3>1. alloc'[a] = alloc[a] /\ status[InvoiceOf(a)] = "cancelled"
      BY <1>1, <1>10, <2>1
    <3>2. ~alloc[a].stamped /\ pay[SourceOf(a)].inv = InvoiceOf(a)
          /\ pay[SourceOf(a)].refund \in {"pending", "processed"} /\ SourceOf(a) \in Receipts
      BY <1>2, <2>1, <3>1 DEF CancelledKeepsOwnCash, RowsFunded
    <3> QED BY <1>12, <3>1, <3>2
  <2> QED BY <2>1 DEF CancelledKeepsOwnCash, InvoiceOf, SourceOf
<1>20. RefundsFlagged'
  BY <1>1, <1>2, <1>12 DEF RefundsFlagged
<1> QED BY <1>9, <1>14, <1>15, <1>16, <1>17, <1>18, <1>19, <1>20
        DEF Safe, CapacityKept, SourcesKept, OwnCashKept

-----------------------------------------------------------------------------
(***************************************************************************)
(* Cancelling an invoice.                                                  *)
(***************************************************************************)
\* What different rows took adds up.
LEMMA TakenAdds ==
  ASSUME alloc \in [RowIds -> Row], NEW A, A \subseteq RowIds, NEW B, B \subseteq RowIds,
         A \cap B = {}, NEW s
  PROVE  /\ TakenFrom(A \cup B, s) = TakenFrom(A, s) + TakenFrom(B, s)
         /\ TakenFrom(A, s) \in Nat /\ TakenFrom(B, s) \in Nat
<1> DEFINE w == [a \in RowIds |-> IF a \in A \cup B THEN alloc[a].amount ELSE 0]
           u == [a \in RowIds |-> IF a \in A THEN alloc[a].amount ELSE 0]
           v == [a \in RowIds |-> IF a \in B THEN alloc[a].amount ELSE 0]
<1>1. w \in [RowIds -> Nat] /\ u \in [RowIds -> Nat] /\ v \in [RowIds -> Nat]
  BY DEF Row
<1>2. \A a \in RowIds : (u[a] = 0 /\ w[a] = v[a]) \/ (v[a] = 0 /\ w[a] = u[a])
  OBVIOUS
<1>3. /\ TakenFrom(A, s) = Worth(u, RowsFrom(s)) /\ TakenFrom(B, s) = Worth(v, RowsFrom(s))
      /\ TakenFrom(A \cup B, s) = Worth(w, RowsFrom(s))
  <2>1. PICK D : D = A \cup B
    OBVIOUS
  <2>2. D \subseteq RowIds
    BY <2>1
  <2>3. TakenFrom(D, s) = Worth([a \in RowIds |-> IF a \in D THEN alloc[a].amount ELSE 0], RowsFrom(s))
    BY <2>2, TakenWorth
  <2> QED BY <2>1, <2>3, TakenWorth
<1> HIDE DEF u, v, w
<1>4. Worth(w, RowsFrom(s)) = Worth(u, RowsFrom(s)) + Worth(v, RowsFrom(s))
  BY <1>1, <1>2, WorthAdds
<1>5. Worth(u, RowsFrom(s)) \in Nat /\ Worth(v, RowsFrom(s)) \in Nat
  BY <1>1, WorthNat
<1> QED BY <1>3, <1>4, <1>5

\* The receipt m after the cancellation of i, which gives it back the credit and the cash
\* it had there.
Swept(m, back, cross) ==
  [m EXCEPT !.allocated = @ - (back + cross), !.unapplied = @ + back,
            !.refundable = @ + cross, !.refund = IF cross > 0 THEN "pending" ELSE @]
After(m, i, back, cross) ==
  IF Swept(m, back, cross).inv = i THEN WithdrawAndFlag(Swept(m, back, cross))
                                   ELSE Swept(m, back, cross)

\* What the sweep of a cancellation makes of a receipt.
LEMMA SweptReceipt ==
  ASSUME NEW m \in Receipt, NEW back \in Nat, NEW cross \in Nat, back + cross <= m.allocated
  PROVE  /\ Swept(m, back, cross) \in Receipt
         /\ Swept(m, back, cross).inv = m.inv
         /\ Swept(m, back, cross).allocated = m.allocated - (back + cross)
         /\ Swept(m, back, cross).refundable = m.refundable + cross
         /\ Swept(m, back, cross).refund = (IF cross > 0 THEN "pending" ELSE m.refund)
         /\ back + cross = 0 => Swept(m, back, cross) = m
<1>1. /\ m.allocated \in Nat /\ m.unapplied \in Nat /\ m.refundable \in Nat /\ m.amount \in Nat
      /\ m.inv \in Invoices \cup {"none"} /\ m.refund \in {"none", "pending", "processed"}
  BY ReceiptTyped
<1>2. PICK x, y, z, f : /\ x = m.allocated - (back + cross) /\ y = m.unapplied + back
                        /\ z = m.refundable + cross
                        /\ f = IF cross > 0 THEN "pending" ELSE m.refund
  OBVIOUS
<1>3. x \in Nat /\ y \in Nat /\ z \in Nat /\ f \in {"none", "pending", "processed"}
  BY <1>1, <1>2
<1>4. Swept(m, back, cross) =
        [m EXCEPT !.allocated = x, !.unapplied = y, !.refundable = z, !.refund = f]
  BY <1>2 DEF Swept
<1>5. /\ Swept(m, back, cross) \in Receipt
      /\ Swept(m, back, cross).inv = m.inv /\ Swept(m, back, cross).allocated = x
      /\ Swept(m, back, cross).refundable = z /\ Swept(m, back, cross).refund = f
  BY <1>3, <1>4 DEF Receipt
<1>6. ASSUME back + cross = 0 PROVE Swept(m, back, cross) = m
  <2>1. x = m.allocated /\ y = m.unapplied /\ z = m.refundable /\ f = m.refund
    BY <1>1, <1>2, <1>6
  <2> QED BY <1>4, <2>1 DEF Receipt
<1> QED BY <1>2, <1>5, <1>6

\* What withdrawing and flagging makes of it.
LEMMA WithdrawnReceipt ==
  ASSUME NEW m \in Receipt
  PROVE  /\ WithdrawAndFlag(m) \in Receipt
         /\ WithdrawAndFlag(m).inv = m.inv /\ WithdrawAndFlag(m).allocated = m.allocated
         /\ WithdrawAndFlag(m).refund = "pending"
<1>1. m.unapplied \in Nat /\ m.refundable \in Nat
  BY ReceiptTyped
<1>2. PICK pool : pool = IF m.refund = "pending" THEN 0 ELSE m.unapplied
  OBVIOUS
<1>3. m.unapplied - pool \in Nat /\ m.refundable + pool \in Nat
  BY <1>1, <1>2
<1>4. WithdrawAndFlag(m) =
        [m EXCEPT !.unapplied = @ - pool, !.refundable = @ + pool, !.refund = "pending"]
  BY <1>2 DEF WithdrawAndFlag
<1> QED BY <1>3, <1>4 DEF Receipt

\* What the whole cancellation makes of it.
LEMMA AfterReceipt ==
  ASSUME NEW m \in Receipt, NEW i, NEW back \in Nat, NEW cross \in Nat,
         back + cross <= m.allocated
  PROVE  /\ After(m, i, back, cross) \in Receipt
         /\ After(m, i, back, cross).inv = m.inv
         /\ After(m, i, back, cross).allocated = m.allocated - (back + cross)
         /\ m.inv = i => After(m, i, back, cross).refund = "pending"
         /\ m.inv # i => /\ After(m, i, back, cross).refund
                              = (IF cross > 0 THEN "pending" ELSE m.refund)
                         /\ After(m, i, back, cross).refundable = m.refundable + cross
                         /\ back + cross = 0 => After(m, i, back, cross) = m
BY SweptReceipt, WithdrawnReceipt DEF After

\* Cancelling an invoice keeps the books safe.
LEMMA CancelKeeps ==
  ASSUME Safe, NEW i \in Invoices, CancelInvoice(i)
  PROVE  Safe'
<1>1. PICK C, X, A : C = CreditRows(i) /\ X = CrossRows(i) /\ A = C \cup X
  OBVIOUS
<1>2. /\ status[i] # "cancelled" /\ LiveNotes(i) = {}
      /\ status' = [status EXCEPT ![i] = "cancelled"]
      /\ alloc' = Reversed(A) /\ ReleaseSettlement(i, SettledOn(A, i))
      /\ applied' = [n \in Notes |-> applied[n] - TakenFrom(A, n)]
      /\ pay' = [r \in Receipts |-> CancelledReceipt(i, r)]
      /\ UNCHANGED <<credited, noteStatus, used>>
  BY <1>1 DEF CancelInvoice
<1>3. TypeOK /\ Untouched /\ CapacityExact /\ SourcesExact /\ RowsFunded
      /\ CancelledKeepsOwnCash /\ RefundsFlagged /\ NotesBacked
  BY DEF Safe, CapacityKept, SourcesKept, OwnCashKept
<1>4. /\ alloc \in [RowIds -> Row] /\ status \in [Invoices -> {"issued", "cancelled"}]
      /\ pay \in [Receipts -> Receipt] /\ applied \in [Notes -> Nat]
  BY <1>3, Typed
<1>5. /\ C \subseteq RowIds /\ X \subseteq RowIds /\ A \subseteq RowIds /\ C \cap X = {}
      /\ \A a \in A : alloc[a].state = "live" /\ InvoiceOf(a) = i
  BY <1>1 DEF CreditRows, CrossRows
<1>6. \A a \in RowIds \ A : alloc[a].state = "live" /\ InvoiceOf(a) = i =>
        ~alloc[a].stamped /\ (SourceOf(a) \in Receipts => pay[SourceOf(a)].inv = i)
  BY <1>1 DEF CreditRows, CrossRows
<1>7. /\ alloc' \in [RowIds -> Row]
      /\ \A j \in Invoices : /\ Live(j) = Live(j)' + SettledOn(A, j)
                             /\ SettledOn(A, j) \in Nat /\ Live(j)' \in Nat
      /\ \A s \in Sources : /\ Spent(s) = Spent(s)' + TakenFrom(A, s)
                            /\ TakenFrom(A, s) \in Nat /\ Spent(s)' \in Nat
  BY <1>2, <1>4, <1>5, Reversing
<1>8. ASSUME NEW j \in Invoices, j # i PROVE SettledOn(A, j) = 0
  <2> DEFINE f == [a \in A |-> IF InvoiceOf(a) = j THEN alloc[a].amount ELSE 0]
  <2>1. f \in [A -> Nat] /\ \A a \in A : f[a] = 0
    BY <1>4, <1>5, <1>8 DEF Row
  <2> HIDE DEF f
  <2>2. Sum(f) = 0
    BY <2>1, SumZero
  <2> QED BY <2>2 DEF SettledOn, f
<1>9. settled' \in [Invoices -> Nat \cup {Missing}] /\ CapacityExact'
  <2>1. \A j \in Invoices : j # i => Live(j)' = Live(j) /\ Live(j)' \in Nat
    BY <1>7, <1>8
  <2>2. SettledOn(A, i) \in Nat /\ Live(i) = Live(i)' + SettledOn(A, i) /\ Live(i)' \in Nat
    BY <1>7
  <2> QED BY <1>2, <1>3, <2>1, <2>2, ReleaseExact
<1>10. \A s \in Sources : Spent(s)' = Spent(s) - TakenFrom(A, s) /\ Spent(s)' \in Nat
  BY <1>7
<1>11. /\ applied' \in [Notes -> Nat]
       /\ \A n \in Notes : applied'[n] = Spent(n)' /\ Spent(n)' <= NoteTotal[n]
  <2>1. ASSUME NEW n \in Notes
        PROVE  applied'[n] = Spent(n)' /\ Spent(n)' <= NoteTotal[n] /\ Spent(n)' \in Nat
    <3>1. n \in Sources /\ applied[n] = Spent(n) /\ Spent(n) <= NoteTotal[n] /\ NoteTotal[n] \in Nat
      BY <1>3, BookShape DEF SourcesExact, Sources
    <3>2. applied'[n] = applied[n] - TakenFrom(A, n)
      BY <1>2
    <3>3. /\ Spent(n) = Spent(n)' + TakenFrom(A, n)
          /\ TakenFrom(A, n) \in Nat /\ Spent(n)' \in Nat
      BY <1>7, <3>1
    <3> QED BY <3>1, <3>2, <3>3
  <2>2. applied' = [n \in Notes |-> applied'[n]]
    BY <1>2
  <2> QED BY <2>1, <2>2
<1>12. ASSUME NEW r \in Receipts
       PROVE  /\ pay'[r] \in Receipt /\ pay[r] \in Receipt
              /\ pay'[r].inv = pay[r].inv
              /\ Made(r) => pay'[r].allocated = Spent(r)'
              /\ ~Made(r) => pay'[r] = pay[r]
              /\ pay[r].inv = i => pay'[r].refund = "pending"
              /\ pay[r].inv # i =>
                   \/ pay'[r].refund = "pending"
                   \/ pay'[r].refund = pay[r].refund /\ pay'[r].refundable = pay[r].refundable
  <2>1. r \in Sources /\ pay[r] \in Receipt
    BY <1>4 DEF Sources
  <2>2. PICK back, cross : back = TakenFrom(C, r) /\ cross = TakenFrom(X, r)
    OBVIOUS
  <2>3. TakenFrom(A, r) = back + cross /\ back \in Nat /\ cross \in Nat
    <3>1. /\ TakenFrom(C \cup X, r) = TakenFrom(C, r) + TakenFrom(X, r)
          /\ TakenFrom(C, r) \in Nat /\ TakenFrom(X, r) \in Nat
      BY <1>4, <1>5, TakenAdds
    <3>2. A = C \cup X
      BY <1>1
    <3> QED BY <2>2, <3>1, <3>2
  <2>4. pay'[r] = After(pay[r], i, back, cross)
    BY <1>1, <1>2, <2>2 DEF CancelledReceipt, After, Swept
  <2>5. Spent(r) = Spent(r)' + (back + cross) /\ Spent(r)' \in Nat /\ Spent(r) \in Nat
    BY <1>7, <2>1, <2>3
  <2>6. Made(r) => pay[r].allocated = Spent(r)
    BY <1>3 DEF SourcesExact
  <2>7. ~Made(r) => pay[r] = NoReceipt /\ pay[r].inv # i /\ Spent(r) = 0
    <3>1. SUFFICES ASSUME ~Made(r) PROVE pay[r] = NoReceipt /\ pay[r].inv # i /\ Spent(r) = 0
      OBVIOUS
    <3>2. pay[r] = NoReceipt /\ pay[r].inv # i
      BY <1>3, <3>1, BookShape DEF Untouched, Made
    <3>3. \A a \in RowIds : SourceOf(a) = r => alloc[a].state # "live"
      BY <1>3, <3>1, BookShape DEF RowsFunded
    <3> QED BY <1>3, <2>1, <3>2, <3>3, NothingSpent
  <2>8. /\ pay[r].allocated \in Nat /\ pay[r].refundable \in Nat
        /\ back + cross <= pay[r].allocated
    <3>1. pay[r].allocated \in Nat /\ pay[r].refundable \in Nat
      BY <2>1, ReceiptTyped
    <3> QED BY <2>3, <2>5, <2>6, <2>7, <3>1
  <2>9. /\ pay'[r] \in Receipt /\ pay'[r].inv = pay[r].inv
        /\ pay'[r].allocated = pay[r].allocated - (back + cross)
        /\ pay[r].inv = i => pay'[r].refund = "pending"
        /\ pay[r].inv # i => /\ pay'[r].refund = (IF cross > 0 THEN "pending" ELSE pay[r].refund)
                             /\ pay'[r].refundable = pay[r].refundable + cross
                             /\ back + cross = 0 => pay'[r] = pay[r]
    BY <2>1, <2>3, <2>4, <2>8, AfterReceipt
  <2>10. Made(r) => pay'[r].allocated = Spent(r)'
    BY <2>3, <2>5, <2>6, <2>9
  <2>11. ~Made(r) => pay'[r] = pay[r]
    BY <2>3, <2>5, <2>7, <2>9
  <2>12. pay[r].inv # i =>
           \/ pay'[r].refund = "pending"
           \/ pay'[r].refund = pay[r].refund /\ pay'[r].refundable = pay[r].refundable
    BY <2>3, <2>8, <2>9
  <2> QED BY <2>1, <2>9, <2>10, <2>11, <2>12
<1>13. pay' \in [Receipts -> Receipt]
  <2>1. pay' = [r \in Receipts |-> pay'[r]]
    BY <1>2
  <2> QED BY <1>12, <2>1
<1>14. status' \in [Invoices -> {"issued", "cancelled"}] /\ status'[i] = "cancelled"
       /\ \A j : j # i => status'[j] = status[j]
  BY <1>2, <1>4
<1>15. TypeOK'
  BY <1>2, <1>3, <1>7, <1>9, <1>11, <1>13, <1>14, Typed DEF TypeOK, BookTypeOK
<1>16. /\ \A q \in Requests \ used : \A a \in RowIds : Writer(a) = q => alloc'[a] = NoRow
       /\ \A a \in RowIds : alloc'[a].state = "live" => a \notin A /\ alloc'[a] = alloc[a]
  BY <1>2, <1>3, <1>4, <1>5, ReversedRows
<1>17. Untouched'
  <2>1. \A q \in Requests \ used' : ~Made(q)' /\ \A a \in RowIds : Writer(a) = q => alloc'[a] = NoRow
    BY <1>2, <1>3, <1>12, <1>16 DEF Untouched, Made, Receipts
  <2>2. \A r \in Receipts : ~Made(r)' => pay'[r] = NoReceipt
    BY <1>3, <1>12 DEF Untouched, Made
  <2> QED BY <2>1, <2>2 DEF Untouched, Writer
<1>18. SourcesExact'
  <2>1. \A r \in Receipts : Made(r)' => pay'[r].allocated = Spent(r)'
    BY <1>12 DEF Made
  <2> QED BY <1>11, <2>1 DEF SourcesExact
<1>19. RowsFunded'
  <2>1. ASSUME NEW a \in RowIds, alloc'[a].state = "live"
        PROVE  \/ SourceOf(a) \in Receipts /\ Made(SourceOf(a))'
               \/ SourceOf(a) \in Notes /\ alloc'[a].stamped
    BY <1>3, <1>12, <1>16, <2>1 DEF RowsFunded, Made
  <2> QED BY <2>1 DEF RowsFunded, SourceOf, Made
<1>20. NotesBacked'
  BY <1>2, <1>3, <1>14, NotesStand
<1>21. CancelledKeepsOwnCash'
  <2>1. ASSUME NEW a \in RowIds, alloc'[a].state = "live", status'[InvoiceOf(a)] = "cancelled"
        PROVE  /\ ~alloc'[a].stamped
               /\ pay'[SourceOf(a)].inv = InvoiceOf(a)
               /\ pay'[SourceOf(a)].refund \in {"pending", "processed"}
    <3>1. a \in RowIds \ A /\ alloc'[a] = alloc[a] /\ alloc[a].state = "live"
      BY <1>16, <2>1
    <3>2. CASE InvoiceOf(a) = i
      <4>1. ~alloc[a].stamped
        BY <1>6, <3>1, <3>2
      <4>2. SourceOf(a) \in Receipts
        BY <1>3, <3>1, <4>1 DEF RowsFunded
      <4>3. pay[SourceOf(a)].inv = i
        BY <1>6, <3>1, <3>2, <4>2
      <4> QED BY <1>12, <3>1, <3>2, <4>1, <4>2, <4>3
    <3>3. CASE InvoiceOf(a) # i
      <4>1. status[InvoiceOf(a)] = "cancelled"
        BY <1>14, <2>1, <3>3
      <4>2. ~alloc[a].stamped /\ pay[SourceOf(a)].inv = InvoiceOf(a)
            /\ pay[SourceOf(a)].refund \in {"pending", "processed"} /\ SourceOf(a) \in Receipts
        BY <1>3, <3>1, <4>1 DEF CancelledKeepsOwnCash, RowsFunded
      <4> QED BY <1>12, <3>1, <3>3, <4>2
    <3> QED BY <3>2, <3>3
  <2> QED BY <2>1 DEF CancelledKeepsOwnCash, InvoiceOf, SourceOf
<1>22. RefundsFlagged'
  <2>1. ASSUME NEW r \in Receipts
        PROVE  /\ pay'[r].refundable > 0 => pay'[r].refund # "none"
               /\ pay'[r].refund = "processed" => status'[pay'[r].inv] = "cancelled"
    <3>1. /\ pay[r].refundable > 0 => pay[r].refund # "none"
          /\ pay[r].refund = "processed" => status[pay[r].inv] = "cancelled"
      BY <1>3 DEF RefundsFlagged
    <3> QED BY <1>12, <1>14, <3>1
  <2> QED BY <2>1 DEF RefundsFlagged
<1> QED BY <1>9, <1>15, <1>17, <1>18, <1>19, <1>20, <1>21, <1>22
        DEF Safe, CapacityKept, SourcesKept, OwnCashKept

-----------------------------------------------------------------------------
(***************************************************************************)
(* Refunds and credit notes.                                               *)
(***************************************************************************)
LEMMA RefundKeeps ==
  ASSUME Safe, NEW i \in Invoices, MarkRefundProcessed(i)
  PROVE  Safe'
<1>1. PICK due : due = {r \in Receipts : pay[r].inv = i /\ pay[r].refund = "pending"}
  OBVIOUS
<1>2. /\ status[i] = "cancelled"
      /\ pay' = [r \in Receipts |-> IF r \in due THEN [pay[r] EXCEPT !.refund = "processed"]
                                                 ELSE pay[r]]
      /\ UNCHANGED <<status, settled, credited, noteStatus, applied, alloc, used>>
  BY <1>1 DEF MarkRefundProcessed, invoiceVars, noteVars
<1>3. TypeOK /\ Untouched /\ CapacityExact /\ SourcesExact /\ RowsFunded
      /\ CancelledKeepsOwnCash /\ RefundsFlagged /\ NotesBacked
  BY DEF Safe, CapacityKept, SourcesKept, OwnCashKept
<1>4. ASSUME NEW r \in Receipts
      PROVE  /\ pay'[r] \in Receipt
             /\ pay'[r].inv = pay[r].inv /\ pay'[r].allocated = pay[r].allocated
             /\ ~Made(r) => pay'[r] = pay[r]
             /\ \/ pay'[r] = pay[r]
                \/ /\ pay'[r].refund = "processed" /\ pay[r].refund = "pending"
                   /\ pay'[r].refundable = pay[r].refundable /\ pay[r].inv = i
  <2>1. pay[r] \in Receipt
    BY <1>3, Typed
  <2>2. CASE r \in due
    <3>1. pay'[r] = [pay[r] EXCEPT !.refund = "processed"] /\ pay[r].inv = i
          /\ pay[r].refund = "pending"
      BY <1>1, <1>2, <2>2
    <3>2. Made(r)
      BY <3>1, BookShape DEF Made
    <3> QED BY <2>1, <3>1, <3>2 DEF Receipt
  <2>3. CASE r \notin due
    BY <1>2, <2>1, <2>3
  <2> QED BY <2>2, <2>3
<1>5. pay' \in [Receipts -> Receipt]
  BY <1>2, <1>4
<1>6. TypeOK'
  BY <1>2, <1>3, <1>5, Typed DEF TypeOK, BookTypeOK
<1>7. \A j \in Invoices : Live(j)' = Live(j)
  BY <1>2 DEF Live, LiveRows
<1>8. \A s \in Sources : Spent(s)' = Spent(s)
  BY <1>2 DEF Spent, SpentRows
<1>9. CapacityExact'
  BY <1>2, <1>3, <1>7 DEF CapacityExact, Missing
<1>10. Untouched'
  <2>1. \A q \in Requests \ used' : ~Made(q)' /\ \A a \in RowIds : Writer(a) = q => alloc'[a] = NoRow
    BY <1>2, <1>3, <1>4 DEF Untouched, Made, Receipts
  <2>2. \A r \in Receipts : ~Made(r)' => pay'[r] = NoReceipt
    BY <1>3, <1>4 DEF Untouched, Made
  <2> QED BY <2>1, <2>2 DEF Untouched, Writer
<1>11. SourcesExact'
  BY <1>2, <1>3, <1>4, <1>8 DEF SourcesExact, Sources, Made
<1>12. RowsFunded'
  BY <1>2, <1>3, <1>4 DEF RowsFunded, SourceOf, Made
<1>13. NotesBacked'
  BY <1>2, <1>3, NotesStand
<1>14. CancelledKeepsOwnCash'
  <2>1. ASSUME NEW a \in RowIds, alloc'[a].state = "live", status'[InvoiceOf(a)] = "cancelled"
        PROVE  /\ ~alloc'[a].stamped
               /\ pay'[SourceOf(a)].inv = InvoiceOf(a)
               /\ pay'[SourceOf(a)].refund \in {"pending", "processed"}
    <3>1. ~alloc[a].stamped /\ pay[SourceOf(a)].inv = InvoiceOf(a)
          /\ pay[SourceOf(a)].refund \in {"pending", "processed"} /\ SourceOf(a) \in Receipts
      BY <1>2, <1>3, <2>1 DEF CancelledKeepsOwnCash, RowsFunded
    <3> QED BY <1>2, <1>4, <3>1
  <2> QED BY <2>1 DEF CancelledKeepsOwnCash, InvoiceOf, SourceOf
<1>15. RefundsFlagged'
  <2>1. ASSUME NEW r \in Receipts
        PROVE  /\ pay'[r].refundable > 0 => pay'[r].refund # "none"
               /\ pay'[r].refund = "processed" => status'[pay'[r].inv] = "cancelled"
    BY <1>2, <1>3, <1>4 DEF RefundsFlagged
  <2> QED BY <2>1 DEF RefundsFlagged
<1> QED BY <1>6, <1>9, <1>10, <1>11, <1>12, <1>13, <1>14, <1>15
        DEF Safe, CapacityKept, SourcesKept, OwnCashKept

\* What follows when only notes and the room they take change.
LEMMA NoteKeeps ==
  ASSUME Safe, UNCHANGED <<status, settled, applied, pay, alloc, used>>,
         noteStatus' \in [Notes -> {"absent", "issued", "cancelled"}],
         credited' \in [Invoices -> Nat], NotesBacked'
  PROVE  Safe'
<1>1. TypeOK /\ Untouched /\ CapacityExact /\ SourcesExact /\ RowsFunded
      /\ CancelledKeepsOwnCash /\ RefundsFlagged
  BY DEF Safe, CapacityKept, SourcesKept, OwnCashKept
<1>2. TypeOK'
  BY <1>1 DEF TypeOK, BookTypeOK
<1>3. \A j \in Invoices : Live(j)' = Live(j)
  BY DEF Live, LiveRows
<1>4. \A s : Spent(s)' = Spent(s)
  BY DEF Spent, SpentRows
<1>5. CapacityExact'
  BY <1>1, <1>3 DEF CapacityExact, Missing
<1>6. Untouched'
  BY <1>1 DEF Untouched, Made
<1>7. SourcesExact'
  BY <1>1, <1>4 DEF SourcesExact, Made
<1>8. RowsFunded'
  BY <1>1 DEF RowsFunded, Made
<1>9. CancelledKeepsOwnCash' /\ RefundsFlagged'
  BY <1>1 DEF CancelledKeepsOwnCash, RefundsFlagged
<1> QED BY <1>2, <1>5, <1>6, <1>7, <1>8, <1>9
        DEF Safe, CapacityKept, SourcesKept, OwnCashKept

\* The room the notes of N take: with one more, its total more.
LEMMA OneMoreNote ==
  ASSUME NEW N \in SUBSET Notes, NEW n \in Notes, n \notin N
  PROVE  /\ Sum([m \in N \cup {n} |-> NoteTotal[m]]) = Sum([m \in N |-> NoteTotal[m]]) + NoteTotal[n]
         /\ Sum([m \in N |-> NoteTotal[m]]) \in Nat /\ NoteTotal[n] \in Nat
<1> DEFINE f == [m \in N |-> NoteTotal[m]]
           h == [m \in N \cup {n} |-> NoteTotal[m]]
           g == [m \in N \cup {n} |-> IF m = n THEN 0 ELSE NoteTotal[m]]
<1>1. f \in [N -> Nat] /\ h \in [N \cup {n} -> Nat] /\ g \in [N \cup {n} -> Nat]
      /\ NoteTotal[n] \in Nat
  BY BookShape
<1>2. IsFiniteSet(N \cup {n}) /\ IsFiniteSet(N)
  BY BookShape, FS_Subset
<1>3. /\ n \in N \cup {n} /\ \A m \in N \cup {n} : m # n => h[m] = g[m]
      /\ g[n] = 0 /\ h[n] = NoteTotal[n]
  OBVIOUS
<1>4. /\ N \in SUBSET (N \cup {n}) /\ (\A m \in N : f[m] = g[m])
      /\ \A m \in (N \cup {n}) \ N : g[m] = 0
  OBVIOUS
<1> HIDE DEF f, g, h
<1>5. Sum(h) + g[n] = Sum(g) + h[n]
  BY <1>1, <1>2, <1>3, SumChange
<1>6. Sum(g) = Sum(f)
  BY <1>1, <1>4, SumWithin
<1>7. Sum(f) \in Nat /\ Sum(h) \in Nat
  BY <1>1, <1>2, SumNat
<1>8. Sum(h) = Sum(f) + NoteTotal[n]
  BY <1>1, <1>3, <1>5, <1>6, <1>7
<1> QED BY <1>1, <1>7, <1>8 DEF f, h

\* Issuing a credit note keeps the books safe.
LEMMA IssueKeeps ==
  ASSUME Safe, NEW n \in Notes, IssueNote(n)
  PROVE  Safe'
<1>1. PICK i \in Invoices : i = NoteInvoice[n]
  BY BookShape
<1>2. /\ noteStatus[n] = "absent" /\ status[i] = "issued" /\ credited[i] <= Total[i] - NoteTotal[n]
      /\ credited' = [credited EXCEPT ![i] = @ + NoteTotal[n]]
      /\ noteStatus' = [noteStatus EXCEPT ![n] = "issued"]
      /\ UNCHANGED <<status, settled, applied, pay, alloc, used>>
  BY <1>1 DEF IssueNote, CanClaimCredit, ClaimCredit
<1>3. TypeOK /\ NotesBacked
  BY DEF Safe, CapacityKept
<1>4. /\ noteStatus \in [Notes -> {"absent", "issued", "cancelled"}]
      /\ credited \in [Invoices -> Nat] /\ NoteTotal[n] \in Nat
  BY <1>3, Typed, BookShape
<1>5. noteStatus' \in [Notes -> {"absent", "issued", "cancelled"}] /\ credited' \in [Invoices -> Nat]
  BY <1>2, <1>4
<1>6. PICK N : N = LiveNotes(i)
  OBVIOUS
<1>7. LiveNotes(i)' = N \cup {n} /\ N \in SUBSET Notes /\ n \notin N
  BY <1>1, <1>2, <1>4, <1>6 DEF LiveNotes
<1>8. \A j \in Invoices : j # i => LiveNotes(j)' = LiveNotes(j)
  BY <1>1, <1>2, <1>4 DEF LiveNotes
<1>9. ASSUME NEW j \in Invoices
      PROVE  /\ LiveNotes(j)' # {} => status'[j] = "issued"
             /\ credited'[j] = Sum([m \in LiveNotes(j)' |-> NoteTotal[m]])
             /\ credited'[j] <= Total[j]
  <2>1. CASE j = i
    <3>1. credited[i] = Sum([m \in N |-> NoteTotal[m]]) /\ credited[i] \in Nat
      BY <1>3, <1>4, <1>6 DEF NotesBacked
    <3>2. Sum([m \in N \cup {n} |-> NoteTotal[m]]) = Sum([m \in N |-> NoteTotal[m]]) + NoteTotal[n]
      BY <1>7, OneMoreNote
    <3>3. credited'[i] = credited[i] + NoteTotal[n]
      BY <1>2, <1>4
    <3>4. credited'[i] <= Total[i]
      BY <1>2, <1>4, <3>1, <3>3, TotalTyped
    <3> QED BY <1>2, <1>7, <2>1, <3>1, <3>2, <3>3, <3>4
  <2>2. CASE j # i
    BY <1>2, <1>3, <1>4, <1>8, <2>2 DEF NotesBacked
  <2> QED BY <2>1, <2>2
<1>10. NotesBacked'
  BY <1>9 DEF NotesBacked
<1> QED BY <1>2, <1>5, <1>10, NoteKeeps

\* Cancelling a credit note keeps the books safe.
LEMMA CancelNoteKeeps ==
  ASSUME Safe, NEW n \in Notes, CancelNote(n)
  PROVE  Safe'
<1>1. PICK i \in Invoices : i = NoteInvoice[n]
  BY BookShape
<1>2. /\ noteStatus[n] = "issued"
      /\ credited' = [credited EXCEPT ![i] = IF @ >= NoteTotal[n] THEN @ - NoteTotal[n] ELSE @]
      /\ noteStatus' = [noteStatus EXCEPT ![n] = "cancelled"]
      /\ UNCHANGED <<status, settled, applied, pay, alloc, used>>
  BY <1>1 DEF CancelNote, ReleaseCredit
<1>3. TypeOK /\ NotesBacked
  BY DEF Safe, CapacityKept
<1>4. /\ noteStatus \in [Notes -> {"absent", "issued", "cancelled"}]
      /\ credited \in [Invoices -> Nat] /\ NoteTotal[n] \in Nat
  BY <1>3, Typed, BookShape
<1>5. PICK N : N = LiveNotes(i) \ {n}
  OBVIOUS
<1>6. LiveNotes(i)' = N /\ LiveNotes(i) = N \cup {n} /\ N \in SUBSET Notes /\ n \notin N
  BY <1>1, <1>2, <1>4, <1>5 DEF LiveNotes
<1>7. \A j \in Invoices : j # i => LiveNotes(j)' = LiveNotes(j)
  BY <1>1, <1>2, <1>4 DEF LiveNotes
<1>8. /\ credited[i] = Sum([m \in N |-> NoteTotal[m]]) + NoteTotal[n]
      /\ Sum([m \in N |-> NoteTotal[m]]) \in Nat /\ NoteTotal[n] \in Nat
      /\ credited[i] <= Total[i] /\ status[i] = "issued"
  <2>1. credited[i] = Sum([m \in N \cup {n} |-> NoteTotal[m]])
    BY <1>3, <1>6 DEF NotesBacked
  <2>2. credited[i] <= Total[i] /\ status[i] = "issued"
    BY <1>3, <1>6 DEF NotesBacked
  <2> QED BY <1>6, <2>1, <2>2, OneMoreNote
<1>9. credited'[i] = Sum([m \in N |-> NoteTotal[m]]) /\ credited'[i] <= Total[i]
  <2>1. credited'[i] = IF credited[i] >= NoteTotal[n] THEN credited[i] - NoteTotal[n] ELSE credited[i]
    BY <1>2, <1>4
  <2> QED BY <1>8, <2>1, TotalTyped
<1>10. \A j \in Invoices : j # i => credited'[j] = credited[j]
  BY <1>2, <1>4
<1>11. noteStatus' \in [Notes -> {"absent", "issued", "cancelled"}] /\ credited' \in [Invoices -> Nat]
  <2>1. \A j \in Invoices : credited'[j] \in Nat
    BY <1>4, <1>8, <1>9, <1>10
  <2> QED BY <1>2, <1>4, <2>1
<1>12. ASSUME NEW j \in Invoices
       PROVE  /\ LiveNotes(j)' # {} => status'[j] = "issued"
              /\ credited'[j] = Sum([m \in LiveNotes(j)' |-> NoteTotal[m]])
              /\ credited'[j] <= Total[j]
  <2>1. CASE j = i
    BY <1>2, <1>6, <1>8, <1>9, <2>1
  <2>2. CASE j # i
    BY <1>2, <1>3, <1>7, <1>10, <2>2 DEF NotesBacked
  <2> QED BY <2>1, <2>2
<1>13. NotesBacked'
  BY <1>12 DEF NotesBacked
<1> QED BY <1>2, <1>11, <1>13, NoteKeeps

-----------------------------------------------------------------------------
(***************************************************************************)
(* The theorems.                                                           *)
(***************************************************************************)
LEMMA SafeInit == Init => Safe
<1> SUFFICES ASSUME Init PROVE Safe
  OBVIOUS
<1>1. BookInit /\ used = {}
  BY DEF Init
<1>2. TypeOK
  BY <1>1, BookInitTyped DEF TypeOK
<1>3. /\ \A i \in Invoices : status[i] = "issued"
      /\ \A r \in Receipts : pay[r] = IF r \in OldReceipts THEN OldPay[r] ELSE NoReceipt
      /\ \A a \in RowIds : alloc[a] = IF a \in OldRows
                                      THEN LiveRow(OldAmount[a], OldStamped(a)) ELSE NoRow
  BY <1>1 DEF BookInit
<1>4. \A r \in Receipts : Made(r) <=> r \in OldReceipts
  <2>1. \A r \in OldReceipts : OldPay[r].inv \in Invoices
    BY BookSound
  <2>2. NoReceipt.inv = "none" /\ "none" \notin Invoices
    BY BookShape DEF NoReceipt, NewReceipt
  <2> QED BY <1>3, <2>1, <2>2 DEF Made
<1>5. Untouched
  <2>1. \A p \in Requests : p \in Receipts /\ p \notin OldReceipts
    BY BookShape DEF Receipts
  <2>2. \A p \in Requests : \A a \in RowIds : Writer(a) = p => alloc[a] = NoRow
    BY <1>3, BookShape
  <2>3. \A r \in Receipts : ~Made(r) => pay[r] = NoReceipt
    BY <1>3, <1>4
  <2> QED BY <1>4, <2>1, <2>2, <2>3 DEF Untouched
<1>6. CapacityExact
  <2>1. \A i \in Invoices : settled[i] \in {Sum(OldOn(i)), Missing}
    BY <1>1 DEF BookInit
  <2> QED BY <1>1, <2>1, LiveInit DEF CapacityExact
<1>7. SourcesExact
  <2>1. ASSUME NEW n \in Notes PROVE applied[n] = Spent(n) /\ Spent(n) <= NoteTotal[n]
    <3>1. applied[n] = Sum(OldFrom(n)) /\ n \in Sources
      BY <1>1 DEF BookInit, Sources
    <3> QED BY <1>1, <3>1, SpentInit, BookSound
  <2>2. ASSUME NEW r \in Receipts, Made(r) PROVE pay[r].allocated = Spent(r)
    <3>1. r \in OldReceipts /\ r \in Sources /\ pay[r] = OldPay[r]
      BY <1>3, <1>4, <2>2 DEF Sources
    <3>2. OldPay[r].allocated = Sum(OldFrom(r))
      BY <3>1, BookSound
    <3> QED BY <1>1, <3>1, <3>2, SpentInit
  <2> QED BY <2>1, <2>2 DEF SourcesExact
<1>8. RowsFunded
  <2>1. ASSUME NEW a \in RowIds, alloc[a].state = "live"
        PROVE  \/ SourceOf(a) \in Receipts /\ Made(SourceOf(a))
               \/ SourceOf(a) \in Notes /\ alloc[a].stamped
    <3>1. a \in OldRows /\ alloc[a] = LiveRow(OldAmount[a], OldStamped(a))
      BY <1>3, <2>1 DEF NoRow
    <3>2. Writer(a) \notin Notes /\ SourceOf(a) \in OldNotes \cup OldReceipts /\ OldNotes \subseteq Notes
      BY <3>1, BookShape
    <3>3. CASE SourceOf(a) \in OldReceipts
      BY <1>4, <3>3 DEF Receipts
    <3>4. CASE SourceOf(a) \in OldNotes
      <4>1. SourceOf(a) \in Notes /\ Writer(a) # SourceOf(a)
        BY <3>2, <3>4
      <4>2. OldStamped(a) = TRUE
        BY <4>1 DEF OldStamped
      <4>3. alloc[a].stamped = TRUE
        BY <3>1, <4>2 DEF LiveRow
      <4> QED BY <4>1, <4>3
    <3> QED BY <3>2, <3>3, <3>4
  <2> QED BY <2>1 DEF RowsFunded
<1>9. NotesBacked
  BY <1>1, <1>3, RoomInit DEF NotesBacked
<1>10. CancelledKeepsOwnCash
  BY <1>3, RowIdParts DEF CancelledKeepsOwnCash
<1>11. RefundsFlagged
  <2>1. \A r \in OldReceipts : /\ OldPay[r].refund # "processed"
                               /\ OldPay[r].refundable > 0 => OldPay[r].refund = "pending"
    BY BookSound
  <2>2. NoReceipt.refundable = 0 /\ NoReceipt.refund = "none"
    BY DEF NoReceipt, NewReceipt
  <2> QED BY <1>3, <2>1, <2>2 DEF RefundsFlagged
<1> QED BY <1>2, <1>5, <1>6, <1>7, <1>8, <1>9, <1>10, <1>11
        DEF Safe, CapacityKept, SourcesKept, OwnCashKept

\* Every workflow keeps the books safe.
LEMMA SafeStep == Safe /\ [Next]_vars => Safe'
<1> SUFFICES ASSUME Safe, [Next]_vars PROVE Safe'
  OBVIOUS
<1>1. ASSUME NEW p \in Requests, NEW T \in TargetLists, NEW x \in Amounts, NEW allow \in BOOLEAN,
             RecordPayment(p, T, x, allow)
      PROVE  Safe'
  BY <1>1, RecordKeeps
<1>2. ASSUME NEW p \in Requests, NEW i \in Invoices, NEW x \in Amounts, ApplyCredit(p, i, x)
      PROVE  Safe'
  BY <1>2, ApplyKeeps
<1>3. ASSUME NEW a \in RowIds, ReverseCredit(a) PROVE Safe'
  BY <1>3, ReverseKeeps
<1>4. ASSUME NEW i \in Invoices, CancelInvoice(i) \/ MarkRefundProcessed(i) PROVE Safe'
  BY <1>4, CancelKeeps, RefundKeeps
<1>5. ASSUME NEW n \in Notes, IssueNote(n) \/ CancelNote(n) PROVE Safe'
  BY <1>5, IssueKeeps, CancelNoteKeeps
<1>6. CASE UNCHANGED vars
  <2>1. UNCHANGED <<status, settled, credited, noteStatus, applied, pay, alloc, used>>
    BY <1>6 DEF vars, book
  <2>2. NotesBacked /\ TypeOK
    BY DEF Safe, CapacityKept
  <2>3. NotesBacked'
    BY <2>1, <2>2, NotesStand
  <2> QED BY <2>1, <2>2, <2>3, Typed, NoteKeeps
<1> QED BY <1>1, <1>2, <1>3, <1>4, <1>5, <1>6 DEF Next

\* The four invariants hold together in every behaviour of the transactions, however
\* many invoices, notes and requests there are.
THEOREM BooksSafe == Spec => []Safe
BY SafeInit, SafeStep, PTL DEF Spec

\* No capacity leaks and none is counted twice: what an invoice has reserved is what its
\* rows settle (claimInvoiceSettlement, releaseInvoiceSettlement).
THEOREM CapacityKeptAlways == Spec => []CapacityKept
<1>1. Safe => CapacityKept
  BY DEF Safe
<1> QED BY <1>1, BooksSafe, PTL

\* Credit is neither lost nor minted: every note and receipt is short of exactly what its
\* live rows settle.
THEOREM SourcesKeptAlways == Spec => []SourcesKept
<1>1. Safe => SourcesKept
  BY DEF Safe
<1> QED BY <1>1, BooksSafe, PTL

\* Issued notes stand on issued invoices, and the room they take is theirs exactly.
THEOREM NotesBackedAlways == Spec => []NotesBacked
<1>1. Safe => NotesBacked
  BY DEF Safe
<1> QED BY <1>1, BooksSafe, PTL

\* A cancelled invoice keeps the cash of its own receipts and nothing else, and money owed
\* back is flagged.
THEOREM OwnCashKeptAlways == Spec => []OwnCashKept
<1>1. Safe => OwnCashKept
  BY DEF Safe
<1> QED BY <1>1, BooksSafe, PTL

-----------------------------------------------------------------------------
(***************************************************************************)
(* The transactions implement SettlementPromise: capacity is only taken    *)
(* from open invoices, up to their totals, and a receipt's money is always *)
(* in one place, what is owed back included.                               *)
(***************************************************************************)
AllWhole == \A r \in Receipts : Whole(pay[r])

\* What a step of the promise allows an invoice and a receipt.
CapacityMoves(i) ==
  \/ status[i] = "issued" /\ status'[i] = "issued" /\ Live(i)' <= Total[i]
  \/ Live(i)' <= Live(i)

\* Every workflow leaves an invoice within its total, and settles it only when issued.
LEMMA InvoiceSteps ==
  ASSUME Safe, Safe', Next, NEW i \in Invoices
  PROVE  CapacityMoves(i)
<1>1. /\ TypeOK /\ Untouched /\ alloc \in [RowIds -> Row]
      /\ status \in [Invoices -> {"issued", "cancelled"}] /\ Live(i) \in Nat
  BY Typed, LiveSpentTyped DEF Safe, CapacityKept
<1>2. Live(i)' <= Total[i]
  BY DEF Safe, CapacityKept, CapacityExact
<1>3. ASSUME NEW p \in Requests, NEW T \in TargetLists, NEW x \in Amounts, NEW allow \in BOOLEAN,
             RecordPayment(p, T, x, allow)
      PROVE  CapacityMoves(i)
  <2>1. x \in Nat
    BY WorkflowShape
  <2>2. PICK share \in [Invoices -> 0..x] :
          /\ Take(p) /\ IsGreedyFill(share, T, x) /\ \A k \in DOMAIN T : status[T[k]] # "cancelled"
          /\ alloc' = [a \in RowIds |->
               IF Writer(a) = p /\ SourceOf(a) = p /\ share[InvoiceOf(a)] > 0
               THEN LiveRow(share[InvoiceOf(a)], FALSE) ELSE alloc[a]]
          /\ UNCHANGED status
    BY <1>3, Zenon DEF RecordPayment
  <2>3. share \in [Invoices -> Nat]
    BY <2>1
  <2>4. \A a \in RowIds : Writer(a) = p => alloc[a] = NoRow
    BY <1>1, <2>2 DEF Untouched, Take
  <2>5. Live(i)' = Live(i) + share[i]
    BY <1>1, <2>2, <2>3, <2>4, ReceiptRows
  <2>6. share[i] > 0 => status[i] # "cancelled"
    BY <2>2 DEF IsGreedyFill
  <2> QED BY <1>1, <1>2, <2>2, <2>3, <2>5, <2>6 DEF CapacityMoves
<1>4. ASSUME NEW p \in Requests, NEW j \in Invoices, NEW x \in Amounts, ApplyCredit(p, j, x)
      PROVE  CapacityMoves(i)
  <2>1. x \in Nat /\ Take(p) /\ status[j] # "cancelled" /\ UNCHANGED status
    BY <1>4, WorkflowShape DEF ApplyCredit
  <2>2. PICK drawn \in [{s \in Sources : Remaining(s) > 0} -> 0..x] :
          alloc' = [a \in RowIds |->
            IF Writer(a) = p /\ InvoiceOf(a) = j
               /\ [s \in Sources |-> IF s \in DOMAIN drawn THEN drawn[s] ELSE 0][SourceOf(a)] > 0
            THEN LiveRow([s \in Sources |-> IF s \in DOMAIN drawn THEN drawn[s] ELSE 0][SourceOf(a)], TRUE)
            ELSE alloc[a]]
    BY <1>4, Zenon DEF ApplyCredit
  <2> DEFINE plan == [s \in Sources |-> IF s \in DOMAIN drawn THEN drawn[s] ELSE 0]
  <2>3. plan \in [Sources -> Nat]
    BY <2>1
  <2>4. alloc' = [a \in RowIds |->
          IF Writer(a) = p /\ InvoiceOf(a) = j /\ plan[SourceOf(a)] > 0
          THEN LiveRow(plan[SourceOf(a)], TRUE) ELSE alloc[a]]
    BY <2>2, Zenon
  <2> HIDE DEF plan
  <2>5. \A a \in RowIds : Writer(a) = p => alloc[a] = NoRow
    BY <1>1, <2>1 DEF Untouched, Take
  <2>6. j # i => Live(i)' = Live(i)
    BY <1>1, <2>3, <2>4, <2>5, CreditRowsWritten
  <2> QED BY <1>1, <1>2, <2>1, <2>6 DEF CapacityMoves
<1>5. ASSUME NEW A, A \subseteq RowIds, \A a \in A : alloc[a].state = "live", alloc' = Reversed(A)
      PROVE  CapacityMoves(i)
  <2>1. Live(i) = Live(i)' + SettledOn(A, i) /\ SettledOn(A, i) \in Nat /\ Live(i)' \in Nat
    BY <1>1, <1>5, Reversing
  <2> QED BY <2>1 DEF CapacityMoves
<1>6. ASSUME NEW b \in RowIds, ReverseCredit(b) PROVE CapacityMoves(i)
  <2>1. PICK A : A = {b}
    OBVIOUS
  <2>2. A \subseteq RowIds /\ (\A a \in A : alloc[a].state = "live") /\ alloc' = Reversed(A)
    BY <1>6, <2>1 DEF ReverseCredit
  <2> QED BY <1>5, <2>2
<1>7. ASSUME NEW j \in Invoices, CancelInvoice(j) PROVE CapacityMoves(i)
  <2>1. PICK A : A = CreditRows(j) \cup CrossRows(j)
    OBVIOUS
  <2>2. A \subseteq RowIds /\ (\A a \in A : alloc[a].state = "live") /\ alloc' = Reversed(A)
    BY <1>7, <2>1 DEF CancelInvoice, CreditRows, CrossRows
  <2> QED BY <1>5, <2>2
<1>8. ASSUME UNCHANGED alloc PROVE CapacityMoves(i)
  <2>1. Live(i)' = Live(i)
    BY <1>8 DEF Live, LiveRows
  <2> QED BY <1>1, <2>1 DEF CapacityMoves
<1>9. ASSUME NEW j \in Invoices, MarkRefundProcessed(j) PROVE CapacityMoves(i)
  BY <1>8, <1>9 DEF MarkRefundProcessed
<1>10. ASSUME NEW n \in Notes, IssueNote(n) \/ CancelNote(n) PROVE CapacityMoves(i)
  BY <1>8, <1>10 DEF IssueNote, CancelNote
<1> QED BY <1>3, <1>4, <1>6, <1>7, <1>9, <1>10 DEF Next

\* The sweep moves money within a receipt.
LEMMA SweptKeeps ==
  ASSUME NEW m \in Receipt, NEW back \in Nat, NEW cross \in Nat, back + cross <= m.allocated
  PROVE  SameMoney(m, Swept(m, back, cross))
<1>1. /\ m.allocated \in Nat /\ m.unapplied \in Nat /\ m.refundable \in Nat
      /\ m.refund \in {"none", "pending", "processed"}
  BY ReceiptTyped
<1>2. PICK x, y, z, f : /\ x = m.allocated - (back + cross) /\ y = m.unapplied + back
                        /\ z = m.refundable + cross
                        /\ f = IF cross > 0 THEN "pending" ELSE m.refund
  OBVIOUS
<1>3. /\ x \in Nat /\ y \in Nat /\ z \in Nat /\ f \in {"none", "pending", "processed"}
      /\ z >= m.refundable /\ x + y + z = m.allocated + m.unapplied + m.refundable
  BY <1>1, <1>2
<1>4. Swept(m, back, cross) =
        [m EXCEPT !.allocated = x, !.unapplied = y, !.refundable = z, !.refund = f]
  BY <1>2 DEF Swept
<1>5. SameMoney(m, [m EXCEPT !.allocated = x, !.unapplied = y, !.refundable = z, !.refund = f])
  BY <1>3, Rewritten, Zenon
<1> QED BY <1>4, <1>5

\* So do withdrawing and flagging.
LEMMA WithdrawnKeeps ==
  ASSUME NEW m \in Receipt
  PROVE  SameMoney(m, WithdrawAndFlag(m))
<1>1. m.allocated \in Nat /\ m.unapplied \in Nat /\ m.refundable \in Nat
  BY ReceiptTyped
<1>2. PICK pool : pool = IF m.refund = "pending" THEN 0 ELSE m.unapplied
  OBVIOUS
<1>3. PICK y : y = m.unapplied - pool
  OBVIOUS
<1>4. PICK z : z = m.refundable + pool
  OBVIOUS
<1>5. /\ y \in Nat /\ z \in Nat /\ z >= m.refundable
      /\ m.allocated + y + z = m.allocated + m.unapplied + m.refundable
  BY <1>1, <1>2, <1>3, <1>4
<1>6. WithdrawAndFlag(m) =
        [m EXCEPT !.unapplied = @ - pool, !.refundable = @ + pool, !.refund = "pending"]
  BY <1>2 DEF WithdrawAndFlag
<1>7. WithdrawAndFlag(m) = [m EXCEPT !.unapplied = y, !.refundable = z, !.refund = "pending"]
  BY <1>3, <1>4, <1>6
<1>8. PICK n : n = WithdrawAndFlag(m)
  OBVIOUS
<1>9. /\ n \in Receipt /\ n.inv = m.inv /\ n.amount = m.amount
      /\ n.allocated = m.allocated /\ n.unapplied = y /\ n.refundable = z
  BY <1>5, <1>7, <1>8 DEF Receipt
<1>10. SameMoney(m, n)
  BY <1>5, <1>9 DEF SameMoney
<1> QED BY <1>8, <1>10

\* So does the whole cancellation.
LEMMA AfterKeeps ==
  ASSUME NEW m \in Receipt, NEW i, NEW back \in Nat, NEW cross \in Nat,
         back + cross <= m.allocated
  PROVE  SameMoney(m, After(m, i, back, cross))
<1> DEFINE n == Swept(m, back, cross)
<1>1. SameMoney(m, n) /\ n \in Receipt
  BY SweptKeeps DEF SameMoney
<1>2. SameMoney(n, WithdrawAndFlag(n))
  BY <1>1, WithdrawnKeeps
<1>3. SameMoney(m, WithdrawAndFlag(n))
  <2>1. /\ m.refundable \in Nat /\ n.refundable \in Nat /\ WithdrawAndFlag(n).refundable \in Nat
    BY <1>1, <1>2, ReceiptTyped DEF SameMoney
  <2> HIDE DEF n
  <2> QED BY <1>1, <1>2, <2>1 DEF SameMoney
<1> QED BY <1>1, <1>3 DEF After

\* Recording a payment writes one receipt, whole, and touches no other.
LEMMA RecordMoves ==
  ASSUME Safe, AllWhole, NEW p \in Requests, NEW T \in TargetLists, NEW x \in Amounts,
         NEW allow \in BOOLEAN, RecordPayment(p, T, x, allow), NEW r \in Receipts
  PROVE  MoneyMoves(pay[r], pay'[r]) /\ Whole(pay'[r])
<1>1. PICK share \in [Invoices -> 0..x] :
        /\ Take(p) /\ IsGreedyFill(share, T, x)
        /\ pay' = [pay EXCEPT ![p] = NewReceipt(T[Len(T)], x, Sum(share))]
  BY Zenon DEF RecordPayment
<1>2. x \in Nat /\ pay \in [Receipts -> Receipt] /\ Untouched
  BY WorkflowShape, Typed DEF Safe, CapacityKept
<1>3. Sum(share) \in Nat
  <2>1. share \in [Invoices -> Nat] /\ IsFiniteSet(Invoices)
    BY <1>2, BookShape
  <2> QED BY <2>1, SumNat
<1>4. CASE r = p
  <2>1. pay[r] = NoReceipt
    BY <1>1, <1>2, <1>4 DEF Untouched, Take
  <2>2. pay'[r] = NewReceipt(T[Len(T)], x, Sum(share))
    BY <1>1, <1>2, <1>4
  <2>3. Whole(pay'[r]) /\ pay'[r].refundable = 0
    BY <1>2, <1>3, <2>2 DEF NewReceipt, Whole
  <2> QED BY <2>1, <2>3 DEF MoneyMoves
<1>5. CASE r # p
  <2>1. pay'[r] = pay[r]
    BY <1>1, <1>2, <1>5
  <2> QED BY <2>1 DEF MoneyMoves, AllWhole
<1> QED BY <1>4, <1>5

\* Applying credit moves what it draws from unapplied to allocated.
LEMMA ApplyMoves ==
  ASSUME Safe, AllWhole, NEW p \in Requests, NEW i \in Invoices, NEW x \in Amounts,
         ApplyCredit(p, i, x), NEW r \in Receipts
  PROVE  MoneyMoves(pay[r], pay'[r]) /\ Whole(pay'[r])
<1>1. PICK drawn \in [{s \in Sources : Remaining(s) > 0} -> 0..x] :
        LET plan == [s \in Sources |-> IF s \in DOMAIN drawn THEN drawn[s] ELSE 0] IN
        /\ IsGreedyPlan(plan, x)
        /\ pay' = [q \in Receipts |->
             [pay[q] EXCEPT !.unapplied = @ - plan[q], !.allocated = @ + plan[q]]]
  BY Zenon DEF ApplyCredit
<1> DEFINE plan == [s \in Sources |-> IF s \in DOMAIN drawn THEN drawn[s] ELSE 0]
<1>2. /\ IsGreedyPlan(plan, x)
      /\ pay' = [q \in Receipts |->
           [pay[q] EXCEPT !.unapplied = @ - plan[q], !.allocated = @ + plan[q]]]
  BY <1>1, Zenon
<1>3. plan \in [Sources -> Nat]
  BY WorkflowShape
<1> HIDE DEF plan
<1>4. TypeOK /\ SourcesExact /\ pay \in [Receipts -> Receipt]
  BY Typed DEF Safe, CapacityKept, SourcesKept
<1>5. r \in Sources /\ pay[r] \in Receipt /\ Whole(pay[r])
  BY <1>4 DEF Sources, AllWhole
<1>6. /\ plan[r] \in Nat /\ Remaining(r) \in Nat /\ Remaining(r) <= pay[r].unapplied
      /\ plan[r] <= Remaining(r) /\ (Remaining(r) > 0 => Made(r))
  <2>1. \A t \in Sources : plan[t] <= Remaining(t)
    BY <1>2, Zenon DEF IsGreedyPlan
  <2> QED BY <1>3, <1>4, <1>5, <2>1, Offered
<1>7. pay[r].unapplied \in Nat /\ pay[r].allocated \in Nat /\ pay[r].refundable \in Nat
  BY <1>5, ReceiptTyped
<1>8. PICK u : u = pay[r].unapplied - plan[r]
  OBVIOUS
<1>9. PICK v : v = pay[r].allocated + plan[r]
  OBVIOUS
<1>10. pay'[r] = [pay[r] EXCEPT !.unapplied = u, !.allocated = v]
  <2>1. pay'[r] = [pay[r] EXCEPT !.unapplied = @ - plan[r], !.allocated = @ + plan[r]]
    BY <1>2, Zenon
  <2> QED BY <1>8, <1>9, <2>1
<1>11. u \in Nat /\ v \in Nat /\ v + u + pay[r].refundable
                     = pay[r].allocated + pay[r].unapplied + pay[r].refundable
  BY <1>6, <1>7, <1>8, <1>9
<1>12. /\ pay'[r] \in Receipt /\ pay'[r].inv = pay[r].inv /\ pay'[r].amount = pay[r].amount
       /\ pay'[r].allocated = v /\ pay'[r].unapplied = u
       /\ pay'[r].refundable = pay[r].refundable
  BY <1>5, <1>10, <1>11 DEF Receipt
<1>13. SameMoney(pay[r], pay'[r])
  BY <1>5, <1>7, <1>11, <1>12 DEF SameMoney
<1>14. pay[r].inv # "none" \/ pay'[r] = pay[r]
  <2>1. CASE plan[r] = 0
    <3>1. u = pay[r].unapplied /\ v = pay[r].allocated
      BY <1>7, <1>8, <1>9, <2>1
    <3> QED BY <1>5, <1>10, <3>1 DEF Receipt
  <2>2. CASE plan[r] # 0
    BY <1>6, <2>2 DEF Made
  <2> QED BY <2>1, <2>2
<1> QED BY <1>5, <1>13, <1>14, SameMoneyMoves

\* Reversing an application moves its amount back.
LEMMA ReverseMoves ==
  ASSUME Safe, AllWhole, NEW b \in RowIds, ReverseCredit(b), NEW r \in Receipts
  PROVE  MoneyMoves(pay[r], pay'[r]) /\ Whole(pay'[r])
<1>1. PICK s, x : s = SourceOf(b) /\ x = alloc[b].amount
  OBVIOUS
<1>2. CanGiveBack(s, x) /\ GiveBack(s, x)
  BY <1>1 DEF ReverseCredit
<1>3. pay \in [Receipts -> Receipt] /\ x \in Nat /\ r \notin Notes
  BY <1>1, Typed, BookShape DEF Safe, CapacityKept, Row
<1>4. pay[r] \in Receipt /\ Whole(pay[r])
  BY <1>3 DEF AllWhole
<1>5. CASE r = s
  <2>1. /\ pay' = [pay EXCEPT ![s].allocated = @ - x, ![s].unapplied = @ + x]
        /\ Made(s) /\ pay[s].allocated >= x
    BY <1>2, <1>3, <1>5 DEF GiveBack, CanGiveBack
  <2>2. pay'[r] = [pay[r] EXCEPT !.allocated = @ - x, !.unapplied = @ + x]
    BY <1>3, <1>5, <2>1
  <2>3. pay[r].unapplied \in Nat /\ pay[r].allocated \in Nat /\ pay[r].refundable \in Nat
    BY <1>4, ReceiptTyped
  <2>4. PICK u : u = pay[r].unapplied + x
    OBVIOUS
  <2>5. PICK v : v = pay[r].allocated - x
    OBVIOUS
  <2>6. u \in Nat /\ v \in Nat /\ v + u + pay[r].refundable
                     = pay[r].allocated + pay[r].unapplied + pay[r].refundable
    BY <1>3, <1>5, <2>1, <2>3, <2>4, <2>5
  <2>7. pay'[r] = [pay[r] EXCEPT !.allocated = v, !.unapplied = u]
    BY <2>2, <2>4, <2>5
  <2>8. /\ pay'[r] \in Receipt /\ pay'[r].inv = pay[r].inv /\ pay'[r].amount = pay[r].amount
        /\ pay'[r].allocated = v /\ pay'[r].unapplied = u
        /\ pay'[r].refundable = pay[r].refundable
    BY <1>4, <2>6, <2>7 DEF Receipt
  <2>9. SameMoney(pay[r], pay'[r])
    BY <1>4, <2>3, <2>6, <2>8 DEF SameMoney
  <2> QED BY <1>4, <1>5, <2>1, <2>9, SameMoneyMoves DEF Made
<1>6. CASE r # s
  <2>1. pay'[r] = pay[r]
    BY <1>2, <1>3, <1>6 DEF GiveBack
  <2> QED BY <1>4, <2>1 DEF MoneyMoves
<1> QED BY <1>5, <1>6

\* What a cancellation takes from a receipt is allocated in it.
LEMMA CancelMoves ==
  ASSUME Safe, AllWhole, NEW i \in Invoices, CancelInvoice(i), NEW r \in Receipts
  PROVE  MoneyMoves(pay[r], pay'[r]) /\ Whole(pay'[r])
<1>1. PICK C, X, A : C = CreditRows(i) /\ X = CrossRows(i) /\ A = C \cup X
  OBVIOUS
<1>2. alloc' = Reversed(A) /\ pay' = [q \in Receipts |-> CancelledReceipt(i, q)]
  BY <1>1 DEF CancelInvoice
<1>3. TypeOK /\ Untouched /\ SourcesExact /\ RowsFunded
  BY DEF Safe, CapacityKept, SourcesKept
<1>4. alloc \in [RowIds -> Row] /\ pay \in [Receipts -> Receipt]
  BY <1>3, Typed
<1>5. /\ C \subseteq RowIds /\ X \subseteq RowIds /\ A \subseteq RowIds /\ C \cap X = {}
      /\ \A a \in A : alloc[a].state = "live"
  BY <1>1 DEF CreditRows, CrossRows
<1>6. r \in Sources /\ pay[r] \in Receipt /\ Whole(pay[r])
  BY <1>4 DEF Sources, AllWhole
<1>7. PICK back, cross : back = TakenFrom(C, r) /\ cross = TakenFrom(X, r)
  OBVIOUS
<1>8. TakenFrom(A, r) = back + cross /\ back \in Nat /\ cross \in Nat
  <2>1. /\ TakenFrom(C \cup X, r) = TakenFrom(C, r) + TakenFrom(X, r)
        /\ TakenFrom(C, r) \in Nat /\ TakenFrom(X, r) \in Nat
    BY <1>4, <1>5, TakenAdds
  <2>2. A = C \cup X
    BY <1>1
  <2> QED BY <1>7, <2>1, <2>2
<1>9. pay'[r] = After(pay[r], i, back, cross)
  <2>1. pay'[r] = CancelledReceipt(i, r)
    BY <1>2
  <2>2. CancelledReceipt(i, r) = After(pay[r], i, back, cross)
    BY <1>1, <1>7 DEF CancelledReceipt, After, Swept
  <2> QED BY <2>1, <2>2
<1>10. Spent(r) = Spent(r)' + (back + cross) /\ Spent(r)' \in Nat
  BY <1>2, <1>4, <1>5, <1>6, <1>8, Reversing
<1>11. pay[r].allocated \in Nat /\ (Made(r) => pay[r].allocated = Spent(r))
  BY <1>3, <1>6, ReceiptTyped DEF SourcesExact
<1>12. ~Made(r) => Spent(r) = 0 /\ pay[r].inv # i
  <2>1. SUFFICES ASSUME ~Made(r) PROVE Spent(r) = 0 /\ pay[r].inv # i
    OBVIOUS
  <2>2. \A a \in RowIds : SourceOf(a) = r => alloc[a].state # "live"
    BY <1>3, <2>1, BookShape DEF RowsFunded
  <2>3. Spent(r) = 0
    BY <1>3, <1>6, <2>2, NothingSpent
  <2> QED BY <2>1, <2>3, BookShape DEF Made
<1>13. back + cross <= pay[r].allocated /\ (~Made(r) => back + cross = 0)
  BY <1>8, <1>10, <1>11, <1>12
<1>14. SameMoney(pay[r], pay'[r])
  BY <1>6, <1>8, <1>9, <1>13, AfterKeeps
<1>15. pay[r].inv # "none" \/ pay'[r] = pay[r]
  BY <1>6, <1>8, <1>9, <1>12, <1>13, AfterReceipt DEF Made
<1> QED BY <1>6, <1>14, <1>15, SameMoneyMoves

\* Marking a refund processed moves no money.
LEMMA MarkMoves ==
  ASSUME Safe, AllWhole, NEW i \in Invoices, MarkRefundProcessed(i), NEW r \in Receipts
  PROVE  MoneyMoves(pay[r], pay'[r]) /\ Whole(pay'[r])
<1>1. PICK due : due = {q \in Receipts : pay[q].inv = i /\ pay[q].refund = "pending"}
  OBVIOUS
<1>2. pay' = [q \in Receipts |-> IF q \in due THEN [pay[q] EXCEPT !.refund = "processed"]
                                             ELSE pay[q]]
  BY <1>1 DEF MarkRefundProcessed
<1>3. pay[r] \in Receipt /\ Whole(pay[r])
  BY Typed DEF Safe, CapacityKept, AllWhole
<1>4. CASE r \in due
  <2>1. pay'[r] = [pay[r] EXCEPT !.refund = "processed"] /\ pay[r].inv = i
    BY <1>1, <1>2, <1>4
  <2>2. /\ pay'[r] \in Receipt /\ pay'[r].inv = pay[r].inv /\ pay'[r].amount = pay[r].amount
        /\ pay'[r].allocated = pay[r].allocated /\ pay'[r].unapplied = pay[r].unapplied
        /\ pay'[r].refundable = pay[r].refundable
    BY <1>3, <2>1 DEF Receipt
  <2>3. pay[r].refundable \in Nat
    BY <1>3, ReceiptTyped
  <2>4. SameMoney(pay[r], pay'[r]) /\ pay[r].inv # "none"
    BY <1>3, <2>1, <2>2, <2>3, BookShape DEF SameMoney
  <2> QED BY <1>3, <2>4, SameMoneyMoves
<1>5. CASE r \notin due
  BY <1>2, <1>3, <1>5 DEF MoneyMoves
<1> QED BY <1>4, <1>5

\* Every workflow keeps each receipt's money in one place.
LEMMA ReceiptSteps ==
  ASSUME Safe, AllWhole, Next, NEW r \in Receipts
  PROVE  MoneyMoves(pay[r], pay'[r]) /\ Whole(pay'[r])
<1>1. ASSUME UNCHANGED pay PROVE MoneyMoves(pay[r], pay'[r]) /\ Whole(pay'[r])
  BY <1>1 DEF MoneyMoves, AllWhole
<1>2. ASSUME NEW n \in Notes, IssueNote(n) \/ CancelNote(n)
      PROVE  MoneyMoves(pay[r], pay'[r]) /\ Whole(pay'[r])
  BY <1>1, <1>2 DEF IssueNote, CancelNote
<1> QED BY <1>2, RecordMoves, ApplyMoves, ReverseMoves, CancelMoves, MarkMoves DEF Next

-----------------------------------------------------------------------------
\* A behaviour of the transactions, seen through what it settles and what its receipts
\* hold, is a behaviour of SettlementPromise.
THEOREM PromiseKeptAlways == Spec => PromiseKept
<1> DEFINE Inv == Safe /\ AllWhole
<1>1. Init => Promise!Init
  <2> SUFFICES ASSUME Init PROVE Promise!Init
    OBVIOUS
  <2>1. [i \in Invoices |-> status[i] = "issued"] = [i \in Invoices |-> TRUE]
    BY DEF Init, BookInit
  <2>2. \A i \in Invoices : Live(i) \in Nat /\ Live(i) <= Total[i]
    BY LiveInit DEF Init
  <2>3. \A r \in Receipts : Whole(pay[r])
    BY WholeInit DEF Init
  <2> QED BY <2>1, <2>2, <2>3 DEF Promise!Init, Promise!Whole, Whole
<1>2. Inv /\ Safe' /\ [Next]_vars => [Promise!Next]_Promise!vars /\ AllWhole'
  <2> SUFFICES ASSUME Safe, AllWhole, Safe', [Next]_vars
               PROVE  [Promise!Next]_Promise!vars /\ AllWhole'
    OBVIOUS
  <2>1. CASE Next
    <3>1. \A i \in Invoices : CapacityMoves(i)
      BY <2>1, InvoiceSteps
    <3>2. \A r \in Receipts : MoneyMoves(pay[r], pay'[r]) /\ Whole(pay'[r])
      BY <2>1, ReceiptSteps
    <3>3. AllWhole'
      BY <3>2 DEF AllWhole, Whole
    <3>4. ASSUME NEW i \in Invoices PROVE Promise!Take(i) \/ Promise!Give(i)
      BY <3>1, <3>4 DEF CapacityMoves, Promise!Take, Promise!Give
    <3>5. ASSUME NEW r \in Receipts
          PROVE  pay'[r] = pay[r] \/ Promise!Receive(r) \/ Promise!Move(r)
      BY <3>2, <3>5 DEF MoneyMoves, Whole, Promise!Receive, Promise!Move, Promise!Whole,
                        NoReceipt
    <3>6. Promise!Next
      BY <3>4, <3>5 DEF Promise!Next
    <3> QED BY <3>3, <3>6
  <2>2. CASE UNCHANGED vars
    <3>1. UNCHANGED <<status, alloc, pay>>
      BY <2>2 DEF vars, book
    <3>2. \A i \in Invoices : Live(i)' = Live(i)
      BY <3>1 DEF Live, LiveRows
    <3>3. AllWhole'
      BY <3>1 DEF AllWhole, Whole
    <3> QED BY <3>1, <3>2, <3>3 DEF Promise!vars
  <2> QED BY <2>1, <2>2 DEF vars
<1>3. Init => Inv
  BY SafeInit, WholeInit DEF Init, AllWhole
<1> QED BY <1>1, <1>2, <1>3, BooksSafe, PTL DEF Spec, PromiseKept, Promise!Spec

-----------------------------------------------------------------------------
(***************************************************************************)
(* The ledger.  Its accounts are totals of rows too: what an invoice has   *)
(* been settled by, what a receipt settled itself, and what is stranded on *)
(* cancelled invoices are slices of the same weights.                      *)
(***************************************************************************)
Amts == [a \in RowIds |-> alloc[a].amount]
OwnFrom(r) == {a \in OwnRows : SourceOf(a) = r}
OwnOn(i) == {a \in OwnRows : InvoiceOf(a) = i}
Closed == {a \in RowIds : status[InvoiceOf(a)] = "cancelled"}

\* What rows were written for are amounts.
LEMMA AmtsTyped ==
  /\ alloc \in [RowIds -> Row] => Amts \in [RowIds -> Nat]
  /\ alloc' \in [RowIds -> Row] => Amts' \in [RowIds -> Nat]
BY DEF Amts, Row

\* Only a receipt writes rows of its own.
LEMMA OwnSource ==
  ASSUME NEW a \in OwnRows
  PROVE  a \in RowIds /\ SourceOf(a) \in Receipts /\ InvoiceOf(a) \in Invoices
<1>1. a \in RowIds /\ Writer(a) = SourceOf(a)
  BY DEF OwnRows
<1>2. Writer(a) \notin Notes
  BY <1>1, BookShape DEF RowIds, Writer, Receipts
<1> QED BY <1>1, <1>2, RowIdParts DEF Sources

\* The figures of the ledger as weights, before and after a step.
LEMMA SettledCashWorth ==
  ASSUME alloc \in [RowIds -> Row], NEW i
  PROVE  SettledCash(i) = Worth(Amts, OwnOn(i))
<1> DEFINE B == {b \in OwnRows : InvoiceOf(b) = i}
           g == [a \in B |-> alloc[a].amount]
<1>1. B \in SUBSET RowIds /\ g \in [B -> Nat] /\ Amts \in [RowIds -> Nat]
  BY AmtsTyped DEF OwnRows, Row
<1>2. \A a \in RowIds : (IF a \in OwnOn(i) THEN Amts[a] ELSE 0) = (IF a \in B THEN g[a] ELSE 0)
  BY DEF OwnOn, Amts
<1> HIDE DEF B, g
<1>3. Sum(g) = Worth(Amts, OwnOn(i))
  BY <1>1, <1>2, WorthPart
<1> QED BY <1>3 DEF SettledCash, B, g

\* A receipt is overpaid by what its own rows leave of it, ...
LEMMA OverpaidWorth ==
  ASSUME alloc \in [RowIds -> Row], NEW r
  PROVE  Overpaid(r) = pay[r].amount - Worth(Amts, OwnFrom(r))
<1> DEFINE B == {b \in OwnRows : SourceOf(b) = r}
           g == [a \in B |-> alloc[a].amount]
<1>1. B \in SUBSET RowIds /\ g \in [B -> Nat] /\ Amts \in [RowIds -> Nat]
  BY AmtsTyped DEF OwnRows, Row
<1>2. \A a \in RowIds : (IF a \in OwnFrom(r) THEN Amts[a] ELSE 0) = (IF a \in B THEN g[a] ELSE 0)
  BY DEF OwnFrom, Amts
<1> HIDE DEF B, g
<1>3. Sum(g) = Worth(Amts, OwnFrom(r))
  BY <1>1, <1>2, WorthPart
<1> QED BY <1>3 DEF Overpaid, B, g

\* ... after a step as before it.
LEMMA OverpaidWorthNext ==
  ASSUME alloc' \in [RowIds -> Row], NEW r
  PROVE  Overpaid(r)' = pay'[r].amount - Worth(Amts', OwnFrom(r))
<1> DEFINE B == {b \in OwnRows : SourceOf(b) = r}
           g == [a \in B |-> alloc'[a].amount]
<1>1. B \in SUBSET RowIds /\ g \in [B -> Nat] /\ Amts' \in [RowIds -> Nat]
  BY AmtsTyped DEF OwnRows, Row
<1>2. \A a \in RowIds : (IF a \in OwnFrom(r) THEN Amts'[a] ELSE 0) = (IF a \in B THEN g[a] ELSE 0)
  BY DEF OwnFrom, Amts
<1>3. Overpaid(r)' = pay'[r].amount - Sum(g)
  BY DEF Overpaid, OwnRows, Writer, SourceOf
<1> HIDE DEF B, g
<1>4. Sum(g) = Worth(Amts', OwnFrom(r))
  BY <1>1, <1>2, WorthPart
<1> QED BY <1>3, <1>4

\* What is stranded of a receipt is what its own rows on cancelled invoices weigh, ...
LEMMA StrandedWorth ==
  ASSUME alloc \in [RowIds -> Row], NEW r
  PROVE  Stranded(r) = Worth(Weights, OwnFrom(r) \cap Closed)
<1> DEFINE B == {b \in OwnRows : SourceOf(b) = r}
           g == [a \in B |-> IF alloc[a].state = "live" /\ status[InvoiceOf(a)] = "cancelled"
                             THEN alloc[a].amount ELSE 0]
<1>1. B \in SUBSET RowIds /\ g \in [B -> Nat] /\ Weights \in [RowIds -> Nat]
  BY WeightsTyped DEF OwnRows, Row
<1>2. \A a \in RowIds : (IF a \in OwnFrom(r) \cap Closed THEN Weights[a] ELSE 0)
                          = (IF a \in B THEN g[a] ELSE 0)
  BY DEF OwnFrom, Closed, Weights, Weight
<1> HIDE DEF B, g
<1>3. Sum(g) = Worth(Weights, OwnFrom(r) \cap Closed)
  BY <1>1, <1>2, WorthPart
<1> QED BY <1>3 DEF Stranded, B, g

\* ... after a step as before it.
LEMMA StrandedWorthNext ==
  ASSUME alloc' \in [RowIds -> Row], NEW r
  PROVE  Stranded(r)' = Worth(Weights', OwnFrom(r) \cap Closed')
<1> DEFINE B == {b \in OwnRows : SourceOf(b) = r}
           g == [a \in B |-> IF alloc'[a].state = "live" /\ status'[InvoiceOf(a)] = "cancelled"
                             THEN alloc'[a].amount ELSE 0]
<1>1. B \in SUBSET RowIds /\ g \in [B -> Nat] /\ Weights' \in [RowIds -> Nat]
  BY WeightsTyped DEF OwnRows, Row
<1>2. \A a \in RowIds : (IF a \in OwnFrom(r) \cap Closed' THEN Weights'[a] ELSE 0)
                          = (IF a \in B THEN g[a] ELSE 0)
  BY DEF OwnFrom, Closed, Weights, Weight, InvoiceOf
<1>3. Stranded(r)' = Sum(g)
  BY DEF Stranded, OwnRows, Writer, SourceOf, InvoiceOf
<1> HIDE DEF B, g
<1>4. Sum(g) = Worth(Weights', OwnFrom(r) \cap Closed')
  BY <1>1, <1>2, WorthPart
<1> QED BY <1>3, <1>4

-----------------------------------------------------------------------------
(***************************************************************************)
(* That debits are credits, and that the stored balance tells the same     *)
(* story, follows from the accounts being exact one by one: it is never    *)
(* looked at while a workflow runs.                                        *)
(***************************************************************************)
Backed == CreditsBacked /\ CashBacked /\ ReceivableBacked
LedgerInv == Safe /\ Booked /\ Backed

\* What a receipt offers is what is unapplied of it.
LEMMA ReceiptOffers ==
  ASSUME NEW r \in Receipts
  PROVE  /\ Untouched => Remaining(r) = pay[r].unapplied
         /\ Untouched' => Remaining(r)' = pay'[r].unapplied
<1>1. r \notin Notes /\ NoReceipt.unapplied = 0
  BY BookShape DEF NoReceipt, NewReceipt
<1> QED BY <1>1 DEF Remaining, Untouched, Made

\* No row is left from a receipt that was not recorded, or from a note that does not stand.
LEMMA SpentBacked ==
  ASSUME Safe, SourcesPlain, NEW s \in Sources
  PROVE  /\ s \in Receipts => Spent(s) = pay[s].allocated
         /\ s \in Notes => Spent(s) = applied[s]
         /\ Spent(s) \in Nat
<1>1. TypeOK /\ Untouched /\ SourcesExact /\ RowsFunded
  BY DEF Safe, CapacityKept, SourcesKept
<1>2. ASSUME s \in Receipts, ~Made(s) PROVE Spent(s) = pay[s].allocated
  <2>1. pay[s].allocated = 0
    BY <1>1, <1>2 DEF Untouched, NoReceipt, NewReceipt
  <2>2. \A a \in RowIds : SourceOf(a) = s => alloc[a].state # "live"
    BY <1>1, <1>2, BookShape DEF RowsFunded
  <2> QED BY <1>1, <2>1, <2>2, NothingSpent
<1> QED BY <1>1, <1>2, LiveSpentTyped DEF SourcesExact

\* Booking sources one by one leaves nothing over: what a source brought is spent or offered.
LEMMA DebitsAreCredits ==
  ASSUME LedgerInv
  PROVE  Sum(cash) + Sum(sales) = Sum(receivable) + Sum(credits)
<1>1. /\ TypeOK /\ Untouched /\ CancelledKeepsOwnCash /\ RowsFunded /\ alloc \in [RowIds -> Row]
      /\ pay \in [Receipts -> Receipt] /\ applied \in [Notes -> Nat]
      /\ status \in [Invoices -> {"issued", "cancelled"}]
  BY Typed DEF LedgerInv, Safe, CapacityKept, SourcesKept, OwnCashKept
<1>2. SourcesPlain /\ RowsPlain /\ SalesBacked /\ LedgerTypeOK /\ Safe
  BY DEF LedgerInv, Booked
<1>3. Weights \in [RowIds -> Nat] /\ IsFiniteSet(Sources)
  BY <1>1, WeightsTyped, Finite
<1> DEFINE in == [s \in Sources |-> IF s \in Receipts THEN cash[s] ELSE sales[s]]
           out == [s \in Sources |-> IF s \in Receipts THEN Stranded(s) ELSE 0]
           gone == [s \in Sources |-> Spent(s)]
           all == [s \in Sources |-> in[s] + out[s]]
           w == [a \in RowIds |-> IF a \in Closed THEN Weights[a] ELSE 0]
           v == [a \in RowIds |-> IF a \in Closed THEN 0 ELSE Weights[a]]
<1>4. w \in [RowIds -> Nat] /\ v \in [RowIds -> Nat]
  BY <1>3
<1>5. \A r \in Receipts : Stranded(r) = Worth(w, RowsFrom(r)) /\ Stranded(r) \in Nat
  <2> TAKE r \in Receipts
  <2>1. Stranded(r) = Worth(Weights, OwnFrom(r) \cap Closed)
    BY <1>1, StrandedWorth
  <2>2. ASSUME NEW a \in RowIds
        PROVE  (IF a \in OwnFrom(r) \cap Closed THEN Weights[a] ELSE 0)
                 = (IF a \in RowsFrom(r) THEN w[a] ELSE 0)
    <3>1. CASE a \in Closed /\ SourceOf(a) = r /\ alloc[a].state = "live"
      <4>1. ~alloc[a].stamped
        BY <1>1, <3>1 DEF CancelledKeepsOwnCash, Closed
      <4>2. a \in OwnRows
        BY <1>2, <3>1, <4>1 DEF RowsPlain
      <4> QED BY <3>1, <4>2 DEF OwnFrom, RowsFrom
    <3>2. CASE alloc[a].state # "live"
      BY <3>2 DEF Weights, Weight
    <3>3. CASE a \notin Closed \/ SourceOf(a) # r
      BY <3>3 DEF OwnFrom, RowsFrom
    <3> QED BY <3>1, <3>2, <3>3
  <2>3. Worth(Weights, OwnFrom(r) \cap Closed) = Worth(w, RowsFrom(r))
    <3> HIDE DEF w
    <3> QED BY <2>2, WorthSame
  <2> QED BY <1>4, <2>1, <2>3, WorthNat
<1>6. ASSUME NEW s \in Sources
      PROVE  /\ in[s] \in Nat /\ out[s] \in Nat /\ gone[s] \in Nat /\ credits[s] \in Nat
             /\ in[s] + out[s] = credits[s] + gone[s]
  <2>1. credits[s] = Remaining(s)
    BY DEF LedgerInv, Backed, CreditsBacked
  <2>2. gone[s] = Spent(s) /\ Spent(s) \in Nat
    BY <1>2, SpentBacked
  <2>3. CASE s \in Receipts
    <3>1. Remaining(s) = pay[s].unapplied /\ Spent(s) = pay[s].allocated
      BY <1>1, <1>2, <2>3, ReceiptOffers, SpentBacked
    <3>2. /\ pay[s].unapplied \in Nat /\ pay[s].allocated \in Nat /\ pay[s].refundable \in Nat
          /\ pay[s].amount \in Nat
          /\ pay[s].allocated + pay[s].unapplied + pay[s].refundable = pay[s].amount
      BY <1>1, <1>2, <2>3, ReceiptTyped DEF SourcesPlain, Whole
    <3>3. cash[s] = pay[s].amount - pay[s].refundable - Stranded(s)
      BY <2>3 DEF LedgerInv, Backed, CashBacked
    <3>4. Stranded(s) \in Nat /\ Stranded(s) <= Spent(s)
      <4>1. Stranded(s) = Worth(Weights, OwnFrom(s) \cap Closed)
        BY <1>1, StrandedWorth
      <4>2. /\ Worth(Weights, RowsFrom(s)) = Worth(Weights, OwnFrom(s) \cap Closed)
                 + Worth(Weights, RowsFrom(s) \ (OwnFrom(s) \cap Closed))
            /\ Worth(Weights, OwnFrom(s) \cap Closed) \in Nat
            /\ Worth(Weights, RowsFrom(s) \ (OwnFrom(s) \cap Closed)) \in Nat
        <5> DEFINE C == OwnFrom(s) \cap Closed
                   D == RowsFrom(s) \ C
        <5>1. \A a \in RowIds : /\ a \in RowsFrom(s) <=> a \in C \/ a \in D
                                /\ ~(a \in C /\ a \in D)
          BY DEF OwnFrom, RowsFrom
        <5> HIDE DEF C, D
        <5>2. /\ Worth(Weights, RowsFrom(s)) = Worth(Weights, C) + Worth(Weights, D)
              /\ Worth(Weights, C) \in Nat /\ Worth(Weights, D) \in Nat
          BY <1>3, <5>1, WorthUnion
        <5> QED BY <5>2 DEF C, D
      <4>3. Spent(s) = Worth(Weights, RowsFrom(s))
        BY SpentWorth
      <4> QED BY <4>1, <4>2, <4>3
    <3>5. in[s] = cash[s] /\ out[s] = Stranded(s)
      BY <2>3
    <3> HIDE DEF in, out, gone
    <3> QED BY <2>1, <2>2, <3>1, <3>2, <3>3, <3>4, <3>5
  <2>4. CASE s \notin Receipts
    <3>1. s \in Notes /\ Spent(s) = applied[s] /\ NoteTotal[s] \in Nat
      BY <1>2, <2>4, SpentBacked, BookShape DEF Sources
    <3>2. in[s] = sales[s] /\ out[s] = 0
      BY <2>4
    <3>3. CASE noteStatus[s] = "issued"
      <4>1. sales[s] = NoteTotal[s] /\ Remaining(s) = NoteTotal[s] - applied[s]
        BY <1>2, <3>1, <3>3 DEF SalesBacked, Remaining
      <4>2. applied[s] <= NoteTotal[s]
        BY <3>1 DEF LedgerInv, Safe, SourcesKept, SourcesExact
      <4> HIDE DEF in, out, gone
      <4> QED BY <2>1, <2>2, <3>1, <3>2, <4>1, <4>2
    <3>4. CASE noteStatus[s] # "issued"
      <4>1. sales[s] = 0 /\ Remaining(s) = 0 /\ applied[s] = 0
        BY <1>2, <3>1, <3>4 DEF SalesBacked, Remaining, SourcesPlain
      <4> HIDE DEF in, out, gone
      <4> QED BY <2>1, <2>2, <3>1, <3>2, <4>1
    <3> QED BY <3>3, <3>4
  <2> QED BY <2>3, <2>4
<1>7. Sum(in) + Sum(out) = Sum(credits) + Sum(gone)
  <2>1. /\ in \in [Sources -> Nat] /\ out \in [Sources -> Nat] /\ gone \in [Sources -> Nat]
        /\ credits \in [Sources -> Nat] /\ all \in [Sources -> Nat]
    <3>1. credits = [s \in Sources |-> credits[s]]
      BY <1>2 DEF LedgerTypeOK
    <3> QED BY <1>6, <3>1
  <2>2. \A s \in Sources : all[s] = in[s] + out[s] /\ all[s] = credits[s] + gone[s]
    BY <1>6
  <2> HIDE DEF in, out, gone, all
  <2>3. Sum(all) = Sum(in) + Sum(out)
    BY <1>3, <2>1, <2>2, SumPlus
  <2>4. Sum(all) = Sum(credits) + Sum(gone)
    BY <1>3, <2>1, <2>2, SumPlus
  <2> QED BY <2>3, <2>4
<1>8. Sum(in) = Sum(cash) + Sum(sales) /\ Sum(cash) \in Nat /\ Sum(sales) \in Nat
  <2> DEFINE f == [s \in Sources |-> IF s \in Receipts THEN cash[s] ELSE 0]
             g == [s \in Sources |-> IF s \in Receipts THEN 0 ELSE sales[s]]
  <2>1. Receipts \subseteq Sources /\ Notes \subseteq Sources /\ Notes \cap Receipts = {}
        /\ Sources = Notes \cup Receipts
    BY BookShape DEF Sources
  <2>2. cash \in [Receipts -> Nat] /\ sales \in [Notes -> Nat]
    <3>1. cash = [r \in Receipts |-> cash[r]] /\ sales = [n \in Notes |-> sales[n]]
      BY <1>2 DEF LedgerTypeOK
    <3>2. \A r \in Receipts : cash[r] \in Nat
      BY <1>6, <2>1
    <3>3. \A n \in Notes : sales[n] \in Nat
      BY <1>6, <2>1
    <3> QED BY <3>1, <3>2, <3>3
  <2>3. /\ f \in [Sources -> Nat] /\ g \in [Sources -> Nat] /\ in \in [Sources -> Nat]
    BY <2>1, <2>2
  <2>4. \A s \in Sources : (f[s] = 0 /\ in[s] = g[s]) \/ (g[s] = 0 /\ in[s] = f[s])
    OBVIOUS
  <2>5. /\ \A r \in Receipts : cash[r] = f[r]
        /\ \A s \in Sources \ Receipts : f[s] = 0
        /\ \A n \in Notes : sales[n] = g[n]
        /\ \A s \in Sources \ Notes : g[s] = 0
    BY <2>1
  <2> HIDE DEF f, g, in
  <2>6. Sum(in) = Sum(f) + Sum(g)
    BY <1>3, <2>3, <2>4, SumDisjoint
  <2>7. Sum(f) = Sum(cash)
    BY <2>1, <2>2, <2>3, <2>5, SumWithin
  <2>8. Sum(g) = Sum(sales)
    BY <2>1, <2>2, <2>3, <2>5, SumWithin
  <2>9. Sum(f) \in Nat /\ Sum(g) \in Nat
    BY <1>3, <2>3, SumNat
  <2> QED BY <2>6, <2>7, <2>8, <2>9
<1>9. Sum(gone) = Worth(Weights, RowIds)
  <2>1. gone \in [Sources -> Nat] /\ \A s \in Sources : gone[s] = Worth(Weights, RowsFrom(s))
    BY <1>6, SpentWorth
  <2> HIDE DEF gone
  <2> QED BY <1>3, <2>1, WorthBySource
<1>10. Sum(out) = Worth(w, RowIds)
  <2>1. ASSUME NEW s \in Sources PROVE out[s] = Worth(w, RowsFrom(s))
    <3>1. CASE s \in Receipts
      BY <1>5, <3>1
    <3>2. CASE s \notin Receipts
      <4>1. ASSUME NEW a \in RowIds, a \in RowsFrom(s) PROVE w[a] = 0
        <5>1. CASE a \in Closed /\ alloc[a].state = "live"
          <6>1. ~alloc[a].stamped
            BY <1>1, <5>1 DEF CancelledKeepsOwnCash, Closed
          <6> QED BY <1>1, <3>2, <4>1, <5>1, <6>1 DEF RowsFunded, RowsFrom
        <5>2. CASE a \notin Closed \/ alloc[a].state # "live"
          BY <5>2 DEF Weights, Weight
        <5> QED BY <5>1, <5>2
      <4> HIDE DEF w
      <4>2. Worth(w, RowsFrom(s)) = 0
        BY <1>4, <4>1, WorthZero
      <4> QED BY <3>2, <4>2
    <3> QED BY <3>1, <3>2
  <2>2. out \in [Sources -> Nat]
    BY <1>6
  <2> HIDE DEF out, w
  <2> QED BY <1>4, <2>1, <2>2, WorthBySource
<1>11. Sum(receivable) = Worth(v, RowIds)
  <2>1. ASSUME NEW i \in Invoices
        PROVE  receivable[i] = Worth(v, RowsOn(i)) /\ receivable[i] \in Nat
    <3>1. receivable[i] = IF status[i] = "cancelled" THEN 0 ELSE Live(i)
      BY DEF LedgerInv, Backed, ReceivableBacked
    <3>2. CASE status[i] = "cancelled"
      <4>1. \A a \in RowIds : a \in RowsOn(i) => v[a] = 0
        BY <3>2 DEF RowsOn, Closed
      <4> HIDE DEF v
      <4> QED BY <1>4, <3>1, <3>2, <4>1, WorthZero
    <3>3. CASE status[i] # "cancelled"
      <4>1. \A a \in RowIds : (IF a \in RowsOn(i) THEN Weights[a] ELSE 0)
                                = (IF a \in RowsOn(i) THEN v[a] ELSE 0)
        BY <3>3 DEF RowsOn, Closed
      <4> HIDE DEF v
      <4>2. Worth(Weights, RowsOn(i)) = Worth(v, RowsOn(i))
        BY <4>1, WorthSame
      <4> QED BY <1>1, <3>1, <3>3, <4>2, LiveWorth, LiveSpentTyped
    <3> QED BY <3>2, <3>3
  <2>2. receivable = [i \in Invoices |-> receivable[i]]
    BY <1>2 DEF LedgerTypeOK
  <2>3. receivable \in [Invoices -> Nat]
    BY <2>1, <2>2
  <2> HIDE DEF v
  <2> QED BY <1>4, <2>1, <2>3, WorthByInvoice
<1>12. Worth(Weights, RowIds) = Worth(w, RowIds) + Worth(v, RowIds)
  <2>1. \A a \in RowIds : (w[a] = 0 /\ Weights[a] = v[a]) \/ (v[a] = 0 /\ Weights[a] = w[a])
    OBVIOUS
  <2> HIDE DEF w, v
  <2> QED BY <1>3, <1>4, <2>1, WorthAdds
<1>13. Worth(w, RowIds) \in Nat /\ Worth(v, RowIds) \in Nat /\ Sum(credits) \in Nat
  <2>1. credits = [s \in Sources |-> credits[s]]
    BY <1>2 DEF LedgerTypeOK
  <2>2. credits \in [Sources -> Nat]
    BY <1>6, <2>1
  <2> HIDE DEF w, v
  <2> QED BY <1>3, <1>4, <2>2, WorthNat, SumNat
<1> HIDE DEF in, out, gone, w, v
<1> QED BY <1>7, <1>8, <1>9, <1>10, <1>11, <1>12, <1>13

\* The stored dues are the open invoices' totals less what is posted to them.
LEMMA DuesAgree ==
  ASSUME LedgerInv
  PROVE  Totals.dues = Sum([i \in {j \in Invoices : status[j] # "cancelled"} |->
                              Total[i] - receivable[i]])
<1>1. /\ TypeOK /\ alloc \in [RowIds -> Row] /\ CapacityExact
  BY Typed DEF LedgerInv, Safe, CapacityKept
<1>2. \A i \in Invoices : /\ Live(i) \in Nat /\ Total[i] \in Nat /\ Live(i) <= Total[i]
                          /\ status[i] # "cancelled" => receivable[i] = Live(i)
  BY <1>1, LiveSpentTyped, TotalTyped DEF CapacityExact, LedgerInv, Backed, ReceivableBacked
<1> DEFINE open == {j \in Invoices : status[j] # "cancelled"}
           live == {a \in RowIds : alloc[a].state = "live" /\ status[InvoiceOf(a)] # "cancelled"}
           inv == [i \in open |-> Total[i]]
           due == [i \in open |-> Total[i] - receivable[i]]
           paid == [i \in open |-> Live(i)]
           rows == [a \in live |-> alloc[a].amount]
           v == [a \in RowIds |-> IF status[InvoiceOf(a)] # "cancelled" THEN Weights[a] ELSE 0]
           g == [i \in Invoices |-> IF i \in open THEN Live(i) ELSE 0]
<1>3. Totals.dues = IF Sum(rows) < Sum(inv) THEN Sum(inv) - Sum(rows) ELSE 0
  BY DEF Totals
<1>4. Weights \in [RowIds -> Nat] /\ v \in [RowIds -> Nat]
  <2>1. Weights \in [RowIds -> Nat]
    BY <1>1, WeightsTyped
  <2> QED BY <2>1
<1>5. Sum(rows) = Worth(v, RowIds)
  <2>1. live \in SUBSET RowIds /\ rows \in [live -> Nat]
    BY <1>1 DEF Row
  <2>2. \A a \in RowIds : (IF a \in RowIds THEN v[a] ELSE 0) = (IF a \in live THEN rows[a] ELSE 0)
    BY DEF Weights, Weight
  <2> HIDE DEF rows, v, live
  <2> QED BY <1>4, <2>1, <2>2, WorthPart
<1>6. Worth(v, RowIds) = Sum(g)
  <2>1. g \in [Invoices -> Nat]
    BY <1>2
  <2>2. ASSUME NEW i \in Invoices PROVE g[i] = Worth(v, RowsOn(i))
    <3>1. CASE i \in open
      <4>1. \A a \in RowIds : (IF a \in RowsOn(i) THEN Weights[a] ELSE 0)
                                = (IF a \in RowsOn(i) THEN v[a] ELSE 0)
        BY <3>1 DEF RowsOn
      <4>2. g[i] = Live(i)
        BY <3>1
      <4> HIDE DEF v, g
      <4>3. Worth(Weights, RowsOn(i)) = Worth(v, RowsOn(i))
        BY <4>1, WorthSame
      <4> QED BY <4>2, <4>3, LiveWorth
    <3>2. CASE i \notin open
      <4>1. g[i] = 0 /\ \A a \in RowIds : a \in RowsOn(i) => v[a] = 0
        BY <3>2 DEF RowsOn
      <4> HIDE DEF v, g
      <4> QED BY <1>4, <4>1, WorthZero
    <3> QED BY <3>1, <3>2
  <2> HIDE DEF v, g
  <2> QED BY <1>4, <2>1, <2>2, WorthByInvoice
<1>7. Sum(g) = Sum(paid)
  <2>1. open \in SUBSET Invoices /\ g \in [Invoices -> Nat] /\ paid \in [open -> Nat]
        /\ (\A i \in open : paid[i] = g[i]) /\ \A i \in Invoices \ open : g[i] = 0
    BY <1>2
  <2> HIDE DEF g, paid, open
  <2> QED BY <2>1, SumWithin
<1>8. Sum(inv) = Sum(due) + Sum(paid) /\ Sum(due) \in Nat /\ Sum(paid) \in Nat
  <2>1. IsFiniteSet(open)
    BY BookShape, FS_Subset
  <2>2. \A i \in open : Total[i] - receivable[i] \in Nat /\ Live(i) \in Nat /\ Total[i] \in Nat
                        /\ Total[i] = (Total[i] - receivable[i]) + Live(i)
    BY <1>2
  <2>3. /\ inv \in [open -> Nat] /\ due \in [open -> Nat] /\ paid \in [open -> Nat]
        /\ \A i \in open : inv[i] = due[i] + paid[i]
    BY <2>2
  <2> HIDE DEF inv, due, paid, open
  <2>4. Sum(inv) = Sum(due) + Sum(paid)
    BY <2>1, <2>3, SumPlus
  <2> QED BY <2>1, <2>3, <2>4, SumNat
<1>9. Totals.dues = Sum(due)
  <2> HIDE DEF inv, due, paid, rows, v, g
  <2> QED BY <1>3, <1>5, <1>6, <1>7, <1>8
<1> QED BY <1>9

\* Exact accounts make the whole ledger exact.
LEMMA BalanceFollows == LedgerInv => BalanceAgrees
<1> SUFFICES ASSUME LedgerInv PROVE BalanceAgrees
  OBVIOUS
<1>1. LedgerTypeOK /\ CreditsBacked
  BY DEF LedgerInv, Booked, Backed
<1>2. credits = [s \in Sources |-> Remaining(s)]
  BY <1>1 DEF LedgerTypeOK, CreditsBacked
<1>3. Totals.credit = Sum([s \in Sources |-> Remaining(s)])
  BY DEF Totals
<1>4. balance.credit = Sum(credits)
  BY <1>1, <1>2, <1>3 DEF LedgerTypeOK
<1>5. balance.dues = Totals.dues
  BY <1>1 DEF LedgerTypeOK
<1> QED BY <1>4, <1>5, DuesAgree, DebitsAreCredits DEF BalanceAgrees

-----------------------------------------------------------------------------
(***************************************************************************)
(* What a workflow leaves of the ledger's figures.                         *)
(***************************************************************************)
LEMMA Opened ==
  ASSUME LedgerInv
  PROVE  /\ Safe /\ TypeOK /\ Untouched /\ CapacityExact /\ SourcesExact /\ RowsFunded
         /\ CancelledKeepsOwnCash /\ RefundsFlagged /\ NotesBacked /\ AllWhole
         /\ RowsPlain /\ SourcesPlain /\ SalesBacked /\ LedgerTypeOK
         /\ CreditsBacked /\ CashBacked /\ ReceivableBacked
BY DEF LedgerInv, Safe, CapacityKept, SourcesKept, OwnCashKept, Booked, Backed, SourcesPlain,
       AllWhole

\* A row is written once, as the workflow that writes it marks it, and reversed once; its
\* own cash leaves an invoice only when that invoice is cancelled.
Written(a) == \E x \in Nat \ {0}, st \in BOOLEAN :
  alloc'[a] = LiveRow(x, st) /\ (st <=> a \notin OwnRows)
Undone(a) ==
  /\ alloc[a].state = "live" /\ alloc'[a] = [alloc[a] EXCEPT !.state = "reversed"]
  /\ a \in OwnRows => status'[InvoiceOf(a)] = "cancelled" /\ pay'[SourceOf(a)].refund # "none"

\* Rows that are left alone, written or undone that way stay plain.
LEMMA RowsPlainKept ==
  ASSUME alloc \in [RowIds -> Row], RowsPlain,
         \A i \in Invoices : status[i] = "cancelled" => status'[i] = "cancelled",
         \A r \in Receipts : pay[r].refund # "none" => pay'[r].refund # "none",
         \A a \in RowIds : alloc'[a] = alloc[a] \/ Written(a) \/ Undone(a)
  PROVE  RowsPlain'
<1>1. ASSUME NEW a \in RowIds
      PROVE  /\ alloc'[a].state = "absent" => alloc'[a] = NoRow
             /\ alloc'[a].state # "absent" =>
                  alloc'[a].amount > 0 /\ (alloc'[a].stamped <=> a \notin OwnRows)
             /\ alloc'[a].state = "reversed" /\ a \in OwnRows =>
                  status'[InvoiceOf(a)] = "cancelled" /\ pay'[SourceOf(a)].refund # "none"
  <2>1. CASE alloc'[a] = alloc[a]
    <3>1. a \in OwnRows => SourceOf(a) \in Receipts /\ InvoiceOf(a) \in Invoices
      BY OwnSource
    <3>2. /\ alloc[a].state = "absent" => alloc[a] = NoRow
          /\ alloc[a].state # "absent" =>
               alloc[a].amount > 0 /\ (alloc[a].stamped <=> a \notin OwnRows)
          /\ alloc[a].state = "reversed" /\ a \in OwnRows =>
               status[InvoiceOf(a)] = "cancelled" /\ pay[SourceOf(a)].refund # "none"
      BY DEF RowsPlain
    <3> QED BY <2>1, <3>1, <3>2
  <2>2. CASE Written(a)
    <3>1. PICK x \in Nat \ {0}, st \in BOOLEAN :
            alloc'[a] = LiveRow(x, st) /\ (st <=> a \notin OwnRows)
      BY <2>2 DEF Written
    <3>2. alloc'[a].state = "live" /\ alloc'[a].amount = x /\ alloc'[a].stamped = st
      BY <3>1 DEF LiveRow
    <3> QED BY <3>1, <3>2
  <2>3. CASE Undone(a)
    <3>1. /\ alloc'[a].state = "reversed" /\ alloc'[a].amount = alloc[a].amount
          /\ alloc'[a].stamped = alloc[a].stamped
      BY <2>3 DEF Undone, Row
    <3>2. alloc[a].amount > 0 /\ (alloc[a].stamped <=> a \notin OwnRows)
      BY <2>3 DEF Undone, RowsPlain
    <3> QED BY <2>3, <3>1, <3>2 DEF Undone
  <2> QED BY <2>1, <2>2, <2>3
<1>2. OwnRows' = OwnRows
  BY DEF OwnRows, Writer, SourceOf
<1> QED BY <1>1, <1>2 DEF RowsPlain, InvoiceOf, SourceOf

\* A receipt is overpaid by what it was as long as its own rows keep their amounts ...
LEMMA OverpaidKept ==
  ASSUME alloc \in [RowIds -> Row], alloc' \in [RowIds -> Row], NEW r,
         pay'[r].amount = pay[r].amount,
         \A a \in OwnFrom(r) : alloc'[a].amount = alloc[a].amount
  PROVE  Overpaid(r)' = Overpaid(r)
<1>1. \A a \in RowIds : (IF a \in OwnFrom(r) THEN Amts'[a] ELSE 0)
                          = (IF a \in OwnFrom(r) THEN Amts[a] ELSE 0)
  BY DEF Amts
<1>2. Worth(Amts', OwnFrom(r)) = Worth(Amts, OwnFrom(r))
  BY <1>1, WorthSame
<1> QED BY <1>2, OverpaidWorth, OverpaidWorthNext

\* ... and nothing more of it is stranded as long as none of them changes on an invoice
\* that is cancelled, and no invoice is.
LEMMA StrandedKept ==
  ASSUME alloc \in [RowIds -> Row], alloc' \in [RowIds -> Row], NEW r,
         \A a \in OwnFrom(r) : \/ alloc'[a] = alloc[a]
                               \/ status[InvoiceOf(a)] # "cancelled",
         \A i \in Invoices : status'[i] = status[i]
  PROVE  Stranded(r)' = Stranded(r)
<1>1. \A a \in RowIds : (IF a \in OwnFrom(r) \cap Closed' THEN Weights'[a] ELSE 0)
                          = (IF a \in OwnFrom(r) \cap Closed THEN Weights[a] ELSE 0)
  <2> TAKE a \in RowIds
  <2>1. a \in Closed' <=> a \in Closed
    BY RowIdParts DEF Closed, InvoiceOf
  <2>2. a \in OwnFrom(r) /\ a \in Closed => alloc'[a] = alloc[a]
    BY DEF Closed
  <2> QED BY <2>1, <2>2 DEF Weights, Weight
<1>2. Worth(Weights', OwnFrom(r) \cap Closed') = Worth(Weights, OwnFrom(r) \cap Closed)
  BY <1>1, WorthSame
<1> QED BY <1>2, StrandedWorth, StrandedWorthNext

\* The figures are integers.
LEMMA Figures ==
  ASSUME LedgerInv
  PROVE  /\ \A s \in Sources : Remaining(s) \in Nat
         /\ \A r \in Receipts : Overpaid(r) \in Int /\ Stranded(r) \in Nat
         /\ \A i \in Invoices : Live(i) \in Nat
<1>1. alloc \in [RowIds -> Row] /\ TypeOK /\ SourcesExact /\ pay \in [Receipts -> Receipt]
  BY Opened, Typed
<1>2. Amts \in [RowIds -> Nat] /\ Weights \in [RowIds -> Nat]
  BY <1>1, AmtsTyped, WeightsTyped
<1>3. ASSUME NEW r \in Receipts PROVE Overpaid(r) \in Int /\ Stranded(r) \in Nat
  <2>1. Overpaid(r) = pay[r].amount - Worth(Amts, OwnFrom(r)) /\ pay[r].amount \in Nat
    BY <1>1, OverpaidWorth, ReceiptTyped
  <2>2. Worth(Amts, OwnFrom(r)) \in Nat /\ Worth(Weights, OwnFrom(r) \cap Closed) \in Nat
    BY <1>2, WorthNat
  <2> QED BY <1>1, <2>1, <2>2, StrandedWorth
<1> QED BY <1>1, <1>3, Offered, LiveSpentTyped

-----------------------------------------------------------------------------
(***************************************************************************)
(* Applying credit.                                                        *)
(***************************************************************************)
LEMMA ApplyBooks ==
  ASSUME LedgerInv, NEW p \in Requests, NEW i \in Invoices, NEW amount \in Amounts,
         ApplyCredit(p, i, amount), PostApplication(p, i)
  PROVE  Booked' /\ Backed'
<1>1. PICK drawn \in [{s \in Sources : Remaining(s) > 0} -> 0..amount] :
        LET plan == [s \in Sources |-> IF s \in DOMAIN drawn THEN drawn[s] ELSE 0] IN
        /\ IsGreedyPlan(plan, amount)
        /\ applied' = [n \in Notes |-> applied[n] + plan[n]]
        /\ pay' = [r \in Receipts |->
             [pay[r] EXCEPT !.unapplied = @ - plan[r], !.allocated = @ + plan[r]]]
        /\ alloc' = [a \in RowIds |->
             IF Writer(a) = p /\ InvoiceOf(a) = i /\ plan[SourceOf(a)] > 0
             THEN LiveRow(plan[SourceOf(a)], TRUE) ELSE alloc[a]]
  BY Zenon DEF ApplyCredit
<1> DEFINE plan == [s \in Sources |-> IF s \in DOMAIN drawn THEN drawn[s] ELSE 0]
<1>2. /\ IsGreedyPlan(plan, amount)
      /\ applied' = [n \in Notes |-> applied[n] + plan[n]]
      /\ pay' = [r \in Receipts |->
           [pay[r] EXCEPT !.unapplied = @ - plan[r], !.allocated = @ + plan[r]]]
      /\ alloc' = [a \in RowIds |->
           IF Writer(a) = p /\ InvoiceOf(a) = i /\ plan[SourceOf(a)] > 0
           THEN LiveRow(plan[SourceOf(a)], TRUE) ELSE alloc[a]]
  BY <1>1, Zenon
<1>3. plan \in [Sources -> Nat]
  BY WorkflowShape
<1> HIDE DEF plan
<1>4. /\ Take(p) /\ status[i] # "cancelled" /\ UNCHANGED <<status, noteStatus>>
      /\ \A s \in Sources : plan[s] <= Remaining(s)
  BY <1>2 DEF ApplyCredit, IsGreedyPlan
<1>5. /\ Safe /\ TypeOK /\ Untouched /\ SourcesExact /\ AllWhole /\ RowsPlain /\ SourcesPlain
      /\ SalesBacked /\ LedgerTypeOK /\ CreditsBacked /\ CashBacked /\ ReceivableBacked
      /\ alloc \in [RowIds -> Row] /\ pay \in [Receipts -> Receipt] /\ applied \in [Notes -> Nat]
  BY Opened, Typed
<1>6. ~Made(p) /\ p \in Receipts /\ p \in Sources
      /\ \A a \in RowIds : Writer(a) = p => alloc[a] = NoRow
  BY <1>4, <1>5 DEF Untouched, Take, Receipts, Sources
<1>7. plan[p] = 0 /\ \A s \in Sources : plan[s] \in Nat /\ Remaining(s) \in Nat
  <2>1. \A s \in Sources : plan[s] \in Nat /\ Remaining(s) \in Nat
    BY <1>3, Figures
  <2>2. Remaining(p) = 0
    BY <1>6, BookShape DEF Remaining
  <2> QED BY <1>4, <1>6, <2>1, <2>2
<1>8. /\ alloc' \in [RowIds -> Row]
      /\ \A j \in Invoices : /\ j # i => Live(j)' = Live(j)
                             /\ j = i => Live(j)' = Live(j) + Sum(plan)
                             /\ Live(j) \in Nat
  BY <1>2, <1>3, <1>5, <1>6, CreditRowsWritten
<1>9. ASSUME NEW a \in RowIds
      PROVE  alloc'[a] = alloc[a] \/ (Written(a) /\ a \notin OwnRows)
  <2>1. CASE Writer(a) = p /\ InvoiceOf(a) = i /\ plan[SourceOf(a)] > 0
    <3>1. a \notin OwnRows
      BY <1>7, <2>1 DEF OwnRows
    <3>2. alloc'[a] = LiveRow(plan[SourceOf(a)], TRUE)
      BY <1>2, <2>1
    <3>3. plan[SourceOf(a)] \in Nat \ {0}
      BY <1>7, <2>1, RowIdParts
    <3> QED BY <3>1, <3>2, <3>3 DEF Written
  <2>2. CASE ~(Writer(a) = p /\ InvoiceOf(a) = i /\ plan[SourceOf(a)] > 0)
    BY <1>2, <2>2
  <2> QED BY <2>1, <2>2
<1>10. ASSUME NEW r \in Receipts
       PROVE  /\ r \in Sources /\ pay'[r].unapplied = pay[r].unapplied - plan[r]
              /\ pay'[r].inv = pay[r].inv /\ pay'[r].amount = pay[r].amount
              /\ pay'[r].refund = pay[r].refund /\ pay'[r].refundable = pay[r].refundable
              /\ pay[r].amount \in Nat /\ pay[r].refundable \in Nat
  <2>1. pay'[r] = [pay[r] EXCEPT !.unapplied = @ - plan[r], !.allocated = @ + plan[r]]
    BY <1>2
  <2>2. pay[r] \in Receipt /\ r \in Sources
    BY <1>5 DEF Sources
  <2>3. PICK x, y : x = pay[r].unapplied - plan[r] /\ y = pay[r].allocated + plan[r]
    OBVIOUS
  <2>4. pay'[r] = [pay[r] EXCEPT !.unapplied = x, !.allocated = y]
    BY <2>1, <2>3
  <2> QED BY <2>2, <2>3, <2>4 DEF Receipt
<1>11. RowsPlain'
  BY <1>4, <1>5, <1>9, <1>10, RowsPlainKept
<1>12. ASSUME NEW r \in Receipts
       PROVE  Overpaid(r)' = Overpaid(r) /\ Stranded(r)' = Stranded(r)
  <2>1. \A a \in OwnFrom(r) : alloc'[a] = alloc[a]
    BY <1>9, OwnSource DEF OwnFrom
  <2>2. Overpaid(r)' = Overpaid(r)
    BY <1>5, <1>8, <1>10, <2>1, OverpaidKept
  <2> QED BY <1>4, <1>5, <1>8, <2>1, <2>2, StrandedKept
<1>13. SourcesPlain'
  <2>1. \A r \in Receipts : Whole(pay'[r])
    <3>1. Next
      BY DEF Next
    <3> QED BY <1>5, <3>1, ReceiptSteps
  <2>2. ASSUME NEW n \in Notes, noteStatus'[n] # "issued" PROVE applied'[n] = 0
    <3>1. n \in Sources /\ noteStatus[n] # "issued" /\ applied[n] = 0
      BY <1>4, <1>5, <2>2 DEF Sources, SourcesPlain
    <3>2. plan[n] = 0
      BY <1>4, <1>7, <2>2, <3>1 DEF Remaining
    <3>3. applied'[n] = applied[n] + plan[n]
      BY <1>2
    <3> QED BY <3>1, <3>2, <3>3
  <2>3. \A r \in Receipts : Overpaid(r)' >= 0
    BY <1>5, <1>12 DEF SourcesPlain
  <2> QED BY <2>1, <2>2, <2>3 DEF SourcesPlain, Whole
<1>14. /\ credits' = [s \in Sources |-> credits[s] - alloc'[<<p, i, s>>].amount]
       /\ receivable' = [receivable EXCEPT ![i] =
            @ + Sum([s \in Sources |-> alloc'[<<p, i, s>>].amount])]
       /\ UNCHANGED <<cash, sales>> /\ balance' = Totals'
  BY DEF PostApplication, Refreshed
<1>15. \A s \in Sources : alloc'[<<p, i, s>>].amount = plan[s]
  <2> TAKE s \in Sources
  <2>1. /\ <<p, i, s>> \in RowIds /\ Writer(<<p, i, s>>) = p /\ InvoiceOf(<<p, i, s>>) = i
        /\ SourceOf(<<p, i, s>>) = s
    BY RowOf
  <2>2. PICK b : b = <<p, i, s>>
    OBVIOUS
  <2>3. alloc[b] = NoRow
    BY <1>6, <2>1, <2>2
  <2>4. alloc'[b] = IF plan[s] > 0 THEN LiveRow(plan[s], TRUE) ELSE NoRow
    BY <1>2, <2>1, <2>2, <2>3
  <2> QED BY <1>7, <2>2, <2>4 DEF LiveRow, NoRow
<1>16. CreditsBacked'
  <2>1. ASSUME NEW s \in Sources PROVE credits'[s] = Remaining(s)'
    <3>1. credits'[s] = Remaining(s) - plan[s] /\ plan[s] <= Remaining(s)
      BY <1>4, <1>5, <1>14, <1>15 DEF CreditsBacked
    <3>2. CASE s \in Notes
      <4>1. applied'[s] = applied[s] + plan[s] /\ applied[s] \in Nat /\ NoteTotal[s] \in Nat
        BY <1>2, <1>5, <3>2, BookShape
      <4> QED BY <1>4, <1>7, <3>1, <3>2, <4>1 DEF Remaining
    <3>3. CASE s \notin Notes
      <4>1. s \in Receipts /\ pay[s].unapplied \in Nat
        BY <1>5, <3>3, ReceiptTyped DEF Sources
      <4>2. pay'[s].unapplied = pay[s].unapplied - plan[s] /\ (Made(s)' <=> Made(s))
        BY <1>10, <4>1 DEF Made
      <4> QED BY <1>7, <3>1, <3>3, <4>1, <4>2 DEF Remaining
    <3> QED BY <3>2, <3>3
  <2> QED BY <2>1 DEF CreditsBacked
<1>17. CashBacked'
  BY <1>5, <1>10, <1>12, <1>14 DEF CashBacked
<1>18. ReceivableBacked' /\ receivable' \in [Invoices -> Int]
  <2>1. [s \in Sources |-> alloc'[<<p, i, s>>].amount] = plan
    BY <1>3, <1>15
  <2>2. receivable' = [receivable EXCEPT ![i] = @ + Sum(plan)] /\ Sum(plan) \in Nat
    BY <1>3, <1>14, <2>1, Finite, SumNat
  <2>3. receivable \in [Invoices -> Int]
    BY <1>5 DEF LedgerTypeOK
  <2>4. receivable'[i] = receivable[i] + Sum(plan)
        /\ \A j \in Invoices : j # i => receivable'[j] = receivable[j]
    BY <2>2, <2>3
  <2>5. ASSUME NEW j \in Invoices
        PROVE  receivable'[j] = IF status'[j] = "cancelled" THEN 0 ELSE Live(j)'
    BY <1>4, <1>5, <1>8, <2>4 DEF ReceivableBacked
  <2> QED BY <2>2, <2>3, <2>5 DEF ReceivableBacked
<1>19. SalesBacked'
  BY <1>4, <1>5, <1>14 DEF SalesBacked
<1>20. LedgerTypeOK'
  <2>1. \A s \in Sources : credits'[s] \in Int
    <3>1. \A s \in Sources : credits'[s] = credits[s] - plan[s]
      BY <1>14, <1>15
    <3> QED BY <1>5, <1>7, <3>1 DEF LedgerTypeOK
  <2>2. credits' \in [Sources -> Int]
    BY <1>14, <2>1
  <2> QED BY <1>5, <1>14, <1>18, <2>2 DEF LedgerTypeOK
<1> QED BY <1>11, <1>13, <1>16, <1>17, <1>18, <1>19, <1>20 DEF Booked, Backed

-----------------------------------------------------------------------------
(***************************************************************************)
(* Recording a payment.                                                    *)
(***************************************************************************)
LEMMA RecordBooks ==
  ASSUME LedgerInv, NEW p \in Requests, NEW T \in TargetLists, NEW amount \in Amounts,
         NEW allow \in BOOLEAN, RecordPayment(p, T, amount, allow), PostReceipt(p, amount)
  PROVE  Booked' /\ Backed'
<1>1. PICK share \in [Invoices -> 0..amount] :
        /\ Take(p)
        /\ \A k \in DOMAIN T : status[T[k]] # "cancelled"
        /\ IsGreedyFill(share, T, amount)
        /\ pay' = [pay EXCEPT ![p] = NewReceipt(T[Len(T)], amount, Sum(share))]
        /\ alloc' = [a \in RowIds |->
             IF Writer(a) = p /\ SourceOf(a) = p /\ share[InvoiceOf(a)] > 0
             THEN LiveRow(share[InvoiceOf(a)], FALSE) ELSE alloc[a]]
        /\ UNCHANGED <<status, credited, noteVars>>
  BY Zenon DEF RecordPayment
<1>2. amount \in Nat /\ T \in Seq(Invoices) /\ T # <<>>
  BY WorkflowShape
<1>3. /\ share \in [Invoices -> Nat] /\ Sum(share) \in Nat /\ Sum(share) <= amount
      /\ UNCHANGED <<status, noteStatus, applied>>
      /\ \A i \in Invoices : share[i] > 0 => status[i] # "cancelled"
  <2>1. share \in [Invoices -> Nat] /\ IsFiniteSet(Invoices)
    BY <1>2, BookShape
  <2> QED BY <1>1, <2>1, SumNat DEF IsGreedyFill, noteVars
<1>4. /\ Safe /\ TypeOK /\ Untouched /\ SourcesExact /\ AllWhole /\ RowsPlain /\ SourcesPlain
      /\ SalesBacked /\ LedgerTypeOK /\ CreditsBacked /\ CashBacked /\ ReceivableBacked
      /\ alloc \in [RowIds -> Row] /\ pay \in [Receipts -> Receipt]
  BY Opened, Typed
<1>5. ~Made(p) /\ p \in Receipts /\ p \in Sources /\ p \notin Notes /\ pay[p] = NoReceipt
      /\ \A a \in RowIds : Writer(a) = p => alloc[a] = NoRow
  BY <1>1, <1>4, BookShape DEF Untouched, Take, Receipts, Sources
<1>6. /\ alloc' \in [RowIds -> Row]
      /\ \A i \in Invoices : Live(i)' = Live(i) + share[i] /\ Live(i) \in Nat
  BY <1>1, <1>3, <1>4, <1>5, ReceiptRows
<1> DEFINE m == NewReceipt(T[Len(T)], amount, Sum(share))
<1>7. /\ m.inv \in Invoices /\ m.amount = amount /\ m.unapplied = amount - Sum(share)
      /\ m.refundable = 0 /\ m.refund = "none"
  BY <1>2 DEF NewReceipt
<1>8. pay' = [pay EXCEPT ![p] = m]
  BY <1>1
<1> HIDE DEF m
<1>9. pay'[p] = m /\ \A r \in Receipts : r # p => pay'[r] = pay[r]
  BY <1>4, <1>5, <1>8
<1>10. Made(p)' /\ \A r \in Receipts : r # p => (Made(r)' <=> Made(r))
  BY <1>7, <1>9, BookShape DEF Made
<1>11. ASSUME NEW a \in RowIds
       PROVE  alloc'[a] = alloc[a]
              \/ (Written(a) /\ Writer(a) = p /\ SourceOf(a) = p /\ status[InvoiceOf(a)] # "cancelled")
  <2>1. CASE Writer(a) = p /\ SourceOf(a) = p /\ share[InvoiceOf(a)] > 0
    <3>1. a \in OwnRows
      BY <2>1 DEF OwnRows
    <3>2. alloc'[a] = LiveRow(share[InvoiceOf(a)], FALSE)
      BY <1>1, <2>1
    <3>3. share[InvoiceOf(a)] \in Nat \ {0} /\ status[InvoiceOf(a)] # "cancelled"
      BY <1>3, <2>1, RowIdParts
    <3> QED BY <2>1, <3>1, <3>2, <3>3 DEF Written
  <2>2. CASE ~(Writer(a) = p /\ SourceOf(a) = p /\ share[InvoiceOf(a)] > 0)
    BY <1>1, <2>2
  <2> QED BY <2>1, <2>2
<1>12. RowsPlain'
  <2>1. NoReceipt.refund = "none"
    BY DEF NoReceipt, NewReceipt
  <2>2. \A r \in Receipts : pay[r].refund # "none" => pay'[r].refund # "none"
    BY <1>5, <1>9, <2>1
  <2> QED BY <1>3, <1>4, <1>11, <2>2, RowsPlainKept
<1>13. ASSUME NEW r \in Receipts PROVE Stranded(r)' = Stranded(r)
  <2>1. \A a \in OwnFrom(r) : alloc'[a] = alloc[a] \/ status[InvoiceOf(a)] # "cancelled"
    BY <1>11, OwnSource DEF OwnFrom
  <2> QED BY <1>3, <1>4, <1>6, <2>1, StrandedKept
<1>14. ASSUME NEW r \in Receipts PROVE Overpaid(r)' >= 0
  <2>1. CASE r = p
    <3> DEFINE u == [a \in RowIds |-> IF Writer(a) = p /\ SourceOf(a) = p
                                      THEN share[InvoiceOf(a)] ELSE 0]
    <3>1. Overpaid(p)' = amount - Worth(Amts', OwnFrom(p))
      BY <1>6, <1>7, <1>9, OverpaidWorthNext
    <3>2. ASSUME NEW a \in RowIds
          PROVE  (IF a \in OwnFrom(p) THEN Amts'[a] ELSE 0)
                   = (IF a \in RowsFrom(p) THEN u[a] ELSE 0)
      <4>1. CASE Writer(a) = p /\ SourceOf(a) = p
        <5>1. a \in OwnFrom(p) /\ a \in RowsFrom(p) /\ u[a] = share[InvoiceOf(a)]
          BY <4>1 DEF OwnFrom, OwnRows, RowsFrom
        <5>2. alloc'[a] = IF share[InvoiceOf(a)] > 0 THEN LiveRow(share[InvoiceOf(a)], FALSE)
                                                     ELSE NoRow
          BY <1>1, <1>5, <4>1
        <5>3. share[InvoiceOf(a)] \in Nat
          BY <1>3, RowIdParts
        <5>4. alloc'[a].amount = share[InvoiceOf(a)]
          BY <5>2, <5>3 DEF LiveRow, NoRow
        <5>5. Amts'[a] = alloc'[a].amount
          BY DEF Amts
        <5> HIDE DEF u
        <5> QED BY <5>1, <5>4, <5>5
      <4>2. CASE ~(Writer(a) = p /\ SourceOf(a) = p)
        BY <4>2 DEF OwnFrom, OwnRows
      <4> QED BY <4>1, <4>2
    <3>3. Worth(u, RowsFrom(p)) = Sum(share)
      BY <1>3, ReceiptWeight
    <3> HIDE DEF u
    <3>4. Worth(Amts', OwnFrom(p)) = Worth(u, RowsFrom(p))
      BY <3>2, WorthSame
    <3> QED BY <1>2, <1>3, <2>1, <3>1, <3>3, <3>4
  <2>2. CASE r # p
    <3>1. \A a \in OwnFrom(r) : alloc'[a] = alloc[a]
      BY <1>11, <2>2, OwnSource DEF OwnFrom
    <3>2. Overpaid(r)' = Overpaid(r)
      BY <1>4, <1>6, <1>9, <2>2, <3>1, OverpaidKept
    <3> QED BY <1>4, <3>2 DEF SourcesPlain
  <2> QED BY <2>1, <2>2
<1>15. SourcesPlain'
  <2>1. \A r \in Receipts : Whole(pay'[r])
    <3>1. Next
      BY DEF Next
    <3> QED BY <1>4, <3>1, ReceiptSteps
  <2>2. \A n \in Notes : noteStatus'[n] # "issued" => applied'[n] = 0
    BY <1>3, <1>4 DEF SourcesPlain
  <2> QED BY <1>14, <2>1, <2>2 DEF SourcesPlain, Whole
<1>16. /\ cash' = [cash EXCEPT ![p] = @ + amount]
       /\ receivable' = [i \in Invoices |-> receivable[i] + alloc'[<<p, i, p>>].amount]
       /\ credits' = [credits EXCEPT ![p] = @ + pay'[p].unapplied]
       /\ UNCHANGED sales /\ balance' = Totals'
  BY DEF PostReceipt, Refreshed
<1>17. \A i \in Invoices : alloc'[<<p, i, p>>].amount = share[i]
  <2> TAKE i \in Invoices
  <2>1. /\ <<p, i, p>> \in RowIds /\ Writer(<<p, i, p>>) = p /\ InvoiceOf(<<p, i, p>>) = i
        /\ SourceOf(<<p, i, p>>) = p
    BY <1>5, RowOf
  <2>2. PICK b : b = <<p, i, p>>
    OBVIOUS
  <2>3. alloc[b] = NoRow
    BY <1>5, <2>1, <2>2
  <2>4. alloc'[b] = IF share[i] > 0 THEN LiveRow(share[i], FALSE) ELSE NoRow
    BY <1>1, <2>1, <2>2, <2>3
  <2> QED BY <1>3, <2>2, <2>4 DEF LiveRow, NoRow
<1>18. /\ cash \in [Receipts -> Int] /\ receivable \in [Invoices -> Int]
       /\ credits \in [Sources -> Int] /\ sales \in [Notes -> Int]
  BY <1>4 DEF LedgerTypeOK
<1>19. CreditsBacked'
  <2>1. ASSUME NEW s \in Sources PROVE credits'[s] = Remaining(s)'
    <3>1. credits[s] = Remaining(s)
      BY <1>4 DEF CreditsBacked
    <3>2. CASE s = p
      <4>1. credits'[p] = credits[p] + pay'[p].unapplied /\ credits[p] = 0
        BY <1>5, <1>16, <1>18, <3>1, <3>2 DEF Remaining
      <4>2. Remaining(p)' = pay'[p].unapplied
        BY <1>5, <1>10 DEF Remaining
      <4> QED BY <1>2, <1>3, <1>7, <1>9, <3>2, <4>1, <4>2
    <3>3. CASE s # p
      <4>1. credits'[s] = credits[s]
        BY <1>16, <1>18, <3>3
      <4>2. CASE s \in Notes
        BY <1>3, <3>1, <4>1, <4>2 DEF Remaining
      <4>3. CASE s \notin Notes
        <5>1. pay'[s] = pay[s] /\ (Made(s)' <=> Made(s))
          BY <1>9, <1>10, <3>3, <4>3 DEF Sources
        <5> QED BY <3>1, <4>1, <4>3, <5>1 DEF Remaining
      <4> QED BY <4>2, <4>3
    <3> QED BY <3>2, <3>3
  <2> QED BY <2>1 DEF CreditsBacked
<1>20. CashBacked'
  <2>1. ASSUME NEW r \in Receipts
        PROVE  cash'[r] = pay'[r].amount - pay'[r].refundable - Stranded(r)'
    <3>1. cash[r] = pay[r].amount - pay[r].refundable - Stranded(r) /\ Stranded(r) \in Nat
      BY <1>4, Figures DEF CashBacked
    <3>2. CASE r = p
      <4>1. pay[p].amount = 0 /\ pay[p].refundable = 0
        BY <1>5 DEF NoReceipt, NewReceipt
      <4>2. cash'[p] = cash[p] + amount
        BY <1>5, <1>16, <1>18
      <4> QED BY <1>2, <1>7, <1>9, <1>13, <3>1, <3>2, <4>1, <4>2
    <3>3. CASE r # p
      BY <1>9, <1>13, <1>16, <1>18, <3>1, <3>3
    <3> QED BY <3>2, <3>3
  <2> QED BY <2>1 DEF CashBacked
<1>21. ReceivableBacked'
  <2>1. ASSUME NEW i \in Invoices
        PROVE  receivable'[i] = IF status'[i] = "cancelled" THEN 0 ELSE Live(i)'
    <3>1. receivable'[i] = receivable[i] + share[i] /\ share[i] \in Nat
      BY <1>3, <1>16, <1>17
    <3>2. receivable[i] = IF status[i] = "cancelled" THEN 0 ELSE Live(i)
      BY <1>4 DEF ReceivableBacked
    <3> QED BY <1>3, <1>6, <3>1, <3>2
  <2> QED BY <2>1 DEF ReceivableBacked
<1>22. SalesBacked'
  BY <1>3, <1>4, <1>16 DEF SalesBacked
<1>23. LedgerTypeOK'
  <2>1. receivable' \in [Invoices -> Int]
    <3>1. \A i \in Invoices : alloc'[<<p, i, p>>].amount \in Int
      BY <1>3, <1>17
    <3> QED BY <1>16, <1>18, <3>1
  <2>2. cash' \in [Receipts -> Int]
    <3>1. cash[p] + amount \in Int
      BY <1>2, <1>5, <1>18
    <3> QED BY <1>16, <1>18, <3>1
  <2>3. credits' \in [Sources -> Int]
    <3>1. pay'[p].unapplied \in Int
      BY <1>2, <1>3, <1>7, <1>9
    <3>2. credits[p] + pay'[p].unapplied \in Int
      BY <1>5, <1>18, <3>1
    <3> QED BY <1>16, <1>18, <3>2
  <2> QED BY <1>16, <1>18, <2>1, <2>2, <2>3 DEF LedgerTypeOK
<1> QED BY <1>12, <1>15, <1>19, <1>20, <1>21, <1>22, <1>23 DEF Booked, Backed

-----------------------------------------------------------------------------
(***************************************************************************)
(* Taking applied credit back.                                             *)
(***************************************************************************)
LEMMA ReverseBooks ==
  ASSUME LedgerInv, NEW b \in RowIds, ReverseCredit(b), PostReversal(b)
  PROVE  Booked' /\ Backed'
<1>0. PICK i, s, x, A : /\ i = InvoiceOf(b) /\ s = SourceOf(b) /\ x = alloc[b].amount
                        /\ A = {b}
  OBVIOUS
<1>1. /\ alloc[b].state = "live" /\ alloc[b].stamped /\ status[i] # "cancelled"
      /\ CanGiveBack(s, x) /\ GiveBack(s, x)
      /\ alloc' = Reversed(A) /\ UNCHANGED <<status, noteStatus>>
  BY <1>0 DEF ReverseCredit
<1>2. /\ Safe /\ TypeOK /\ Untouched /\ SourcesExact /\ AllWhole /\ RowsPlain /\ SourcesPlain
      /\ SalesBacked /\ LedgerTypeOK /\ CreditsBacked /\ CashBacked /\ ReceivableBacked
      /\ alloc \in [RowIds -> Row] /\ pay \in [Receipts -> Receipt] /\ applied \in [Notes -> Nat]
  BY Opened, Typed
<1>3. i \in Invoices /\ s \in Sources /\ x \in Nat /\ x > 0 /\ b \notin OwnRows
  <2>1. x > 0 /\ b \notin OwnRows
    BY <1>0, <1>1, <1>2 DEF RowsPlain
  <2> QED BY <1>0, <1>2, <2>1, RowIdParts DEF Row
<1>4. /\ alloc' \in [RowIds -> Row]
      /\ \A j \in Invoices : Live(j) = Live(j)' + SettledOn(A, j) /\ Live(j)' \in Nat
  <2>1. A \subseteq RowIds /\ \A a \in A : alloc[a].state = "live"
    BY <1>0, <1>1
  <2> QED BY <1>1, <1>2, <2>1, Reversing
<1>5. \A j \in Invoices : SettledOn(A, j) = IF i = j THEN x ELSE 0
  BY <1>0, <1>2, OneReversed
<1>6. \A a \in RowIds : alloc'[a] = alloc[a] \/ (Undone(a) /\ a \notin OwnRows)
  <2>1. \A a \in RowIds : alloc'[a] = IF a \in A THEN [alloc[a] EXCEPT !.state = "reversed"]
                                                 ELSE alloc[a]
    BY <1>1 DEF Reversed
  <2> QED BY <1>0, <1>1, <1>3, <2>1 DEF Undone
<1>7. Next
  BY DEF Next
<1>8. ASSUME NEW r \in Receipts
      PROVE  /\ pay'[r].inv = pay[r].inv /\ pay'[r].amount = pay[r].amount
             /\ pay'[r].refund = pay[r].refund /\ pay'[r].refundable = pay[r].refundable
             /\ pay[r].amount \in Nat /\ pay[r].refundable \in Nat /\ pay[r].unapplied \in Nat
             /\ r # s => pay'[r] = pay[r]
             /\ r = s => Made(r) /\ pay'[r].unapplied = pay[r].unapplied + x
  <2>1. pay[r] \in Receipt /\ r \notin Notes
    BY <1>2, BookShape
  <2>2. pay[r].amount \in Nat /\ pay[r].refundable \in Nat /\ pay[r].unapplied \in Nat
    BY <2>1, ReceiptTyped
  <2>3. CASE r = s
    <3>1. /\ pay' = [pay EXCEPT ![s].allocated = @ - x, ![s].unapplied = @ + x] /\ Made(s)
      BY <1>1, <2>1, <2>3 DEF GiveBack, CanGiveBack
    <3>2. pay'[r] = [pay[r] EXCEPT !.allocated = @ - x, !.unapplied = @ + x]
      BY <1>2, <2>3, <3>1
    <3>3. PICK u, v : u = pay[r].allocated - x /\ v = pay[r].unapplied + x
      OBVIOUS
    <3>4. pay'[r] = [pay[r] EXCEPT !.allocated = u, !.unapplied = v] /\ pay[r] \in Receipt
      BY <2>1, <3>2, <3>3, Zenon
    <3>5. /\ pay'[r].inv = pay[r].inv /\ pay'[r].amount = pay[r].amount
          /\ pay'[r].refund = pay[r].refund /\ pay'[r].refundable = pay[r].refundable
          /\ pay'[r].unapplied = v
      BY <3>4 DEF Receipt
    <3> QED BY <2>2, <2>3, <3>1, <3>3, <3>5
  <2>4. CASE r # s
    <3>1. pay'[r] = pay[r]
      BY <1>1, <1>2, <2>4 DEF GiveBack
    <3> QED BY <2>2, <2>4, <3>1
  <2> QED BY <2>3, <2>4
<1>9. RowsPlain'
  BY <1>1, <1>2, <1>6, <1>8, RowsPlainKept DEF Undone
<1>10. ASSUME NEW r \in Receipts
       PROVE  Overpaid(r)' = Overpaid(r) /\ Stranded(r)' = Stranded(r)
  <2>1. \A a \in OwnFrom(r) : alloc'[a] = alloc[a]
    BY <1>6, OwnSource DEF OwnFrom
  <2>2. Overpaid(r)' = Overpaid(r)
    BY <1>2, <1>4, <1>8, <2>1, OverpaidKept
  <2> QED BY <1>1, <1>2, <1>4, <2>1, <2>2, StrandedKept
<1>11. ASSUME NEW n \in Notes
       PROVE  /\ applied[n] \in Nat /\ NoteTotal[n] \in Nat /\ n \in Sources
              /\ n # s => applied'[n] = applied[n]
              /\ n = s => applied'[n] = applied[n] - x /\ noteStatus[n] = "issued"
  <2>1. applied[n] \in Nat /\ NoteTotal[n] \in Nat /\ n \in Sources /\ n \notin Receipts
    BY <1>2, BookShape DEF Sources
  <2>2. CASE n = s
    <3>1. applied' = [applied EXCEPT ![s] = @ - x] /\ applied[s] >= x
      BY <1>1, <2>2 DEF GiveBack, CanGiveBack
    <3>2. applied[n] # 0
      BY <1>3, <2>1, <2>2, <3>1
    <3> QED BY <1>2, <2>1, <2>2, <3>1, <3>2 DEF SourcesPlain
  <2>3. CASE n # s
    BY <1>1, <1>2, <2>1, <2>3 DEF GiveBack
  <2> QED BY <2>2, <2>3
<1>12. SourcesPlain'
  <2>1. \A r \in Receipts : Whole(pay'[r])
    BY <1>2, <1>7, ReceiptSteps
  <2>2. \A n \in Notes : noteStatus'[n] # "issued" => applied'[n] = 0
    BY <1>1, <1>2, <1>11 DEF SourcesPlain
  <2>3. \A r \in Receipts : Overpaid(r)' >= 0
    BY <1>2, <1>10 DEF SourcesPlain
  <2> QED BY <2>1, <2>2, <2>3 DEF SourcesPlain, Whole
<1>13. /\ credits' = [credits EXCEPT ![s] = @ + x]
       /\ receivable' = [receivable EXCEPT ![i] = @ - x]
       /\ UNCHANGED <<cash, sales>> /\ balance' = Totals'
  BY <1>0 DEF PostReversal, Refreshed
<1>14. /\ cash \in [Receipts -> Int] /\ receivable \in [Invoices -> Int]
       /\ credits \in [Sources -> Int] /\ sales \in [Notes -> Int]
  BY <1>2 DEF LedgerTypeOK
<1>15. CreditsBacked'
  <2>1. ASSUME NEW t \in Sources PROVE credits'[t] = Remaining(t)'
    <3>1. credits[t] = Remaining(t) /\ credits'[t] = IF t = s THEN credits[t] + x ELSE credits[t]
      BY <1>2, <1>13, <1>14 DEF CreditsBacked
    <3>2. CASE t \in Notes
      <4>1. CASE t = s
        BY <1>1, <1>3, <1>11, <3>1, <3>2, <4>1 DEF Remaining
      <4>2. CASE t # s
        BY <1>1, <1>11, <3>1, <3>2, <4>2 DEF Remaining
      <4> QED BY <4>1, <4>2
    <3>3. CASE t \notin Notes
      <4>1. t \in Receipts
        BY <3>3 DEF Sources
      <4>2. Made(t)' <=> Made(t)
        BY <1>8, <4>1 DEF Made
      <4> QED BY <1>8, <3>1, <3>3, <4>1, <4>2 DEF Remaining
    <3> QED BY <3>2, <3>3
  <2> QED BY <2>1 DEF CreditsBacked
<1>16. CashBacked'
  BY <1>2, <1>8, <1>10, <1>13 DEF CashBacked
<1>17. ReceivableBacked'
  <2>1. ASSUME NEW j \in Invoices
        PROVE  receivable'[j] = IF status'[j] = "cancelled" THEN 0 ELSE Live(j)'
    <3>1. receivable[j] = IF status[j] = "cancelled" THEN 0 ELSE Live(j)
      BY <1>2 DEF ReceivableBacked
    <3>2. receivable'[j] = IF j = i THEN receivable[j] - x ELSE receivable[j]
      BY <1>13, <1>14
    <3>3. Live(j) = Live(j)' + (IF i = j THEN x ELSE 0) /\ Live(j)' \in Nat
      BY <1>4, <1>5
    <3> QED BY <1>1, <1>3, <3>1, <3>2, <3>3
  <2> QED BY <2>1 DEF ReceivableBacked
<1>18. SalesBacked'
  BY <1>1, <1>2, <1>13 DEF SalesBacked
<1>19. LedgerTypeOK'
  <2>1. credits[s] + x \in Int /\ receivable[i] - x \in Int
    BY <1>3, <1>14
  <2> QED BY <1>13, <1>14, <2>1 DEF LedgerTypeOK
<1> QED BY <1>9, <1>12, <1>15, <1>16, <1>17, <1>18, <1>19 DEF Booked, Backed

-----------------------------------------------------------------------------
(***************************************************************************)
(* Refunds and credit notes: no row changes.                               *)
(***************************************************************************)
LEMMA SameRows ==
  ASSUME UNCHANGED <<status, alloc>>
  PROVE  /\ \A i : Live(i)' = Live(i)
         /\ \A r : Stranded(r)' = Stranded(r)
         /\ \A r : pay'[r].amount = pay[r].amount => Overpaid(r)' = Overpaid(r)
<1>1. \A i : Live(i)' = Live(i)
  BY DEF Live, LiveRows
<1>2. \A r : Stranded(r)' = Stranded(r)
  BY DEF Stranded, OwnRows, Writer, SourceOf, InvoiceOf
<1>3. \A r : pay'[r].amount = pay[r].amount => Overpaid(r)' = Overpaid(r)
  BY DEF Overpaid, OwnRows, Writer, SourceOf
<1> QED BY <1>1, <1>2, <1>3

\* The balance is what it was when no row changes and every source offers what it did.
LEMMA SameTotals ==
  ASSUME UNCHANGED <<status, alloc>>, \A s \in Sources : Remaining(s)' = Remaining(s)
  PROVE  Totals' = Totals
<1>1. PICK f, g : /\ f = [s \in Sources |-> Remaining(s)]
                  /\ g = [s \in Sources |-> Remaining(s)']
  OBVIOUS
<1>2. f = g
  BY <1>1
<1>3. Totals'.credit = Sum(g) /\ Totals.credit = Sum(f)
  BY <1>1 DEF Totals
<1>4. Totals'.dues = Totals.dues
  BY DEF Totals, InvoiceOf
<1>5. Totals = [dues |-> Totals.dues, credit |-> Totals.credit]
  BY DEF Totals
<1>6. Totals' = [dues |-> Totals'.dues, credit |-> Totals'.credit]
  BY DEF Totals
<1> QED BY <1>2, <1>3, <1>4, <1>5, <1>6

\* A step that leaves the ledger, the rows and the money of the receipts alone.
LEMMA QuietBooks ==
  ASSUME LedgerInv, UNCHANGED <<status, alloc, noteStatus, applied, ledger, balance>>,
         \A r \in Receipts : /\ pay'[r].inv = pay[r].inv /\ pay'[r].amount = pay[r].amount
                             /\ pay'[r].allocated = pay[r].allocated
                             /\ pay'[r].unapplied = pay[r].unapplied
                             /\ pay'[r].refundable = pay[r].refundable
                             /\ pay[r].refund # "none" => pay'[r].refund # "none"
  PROVE  Booked' /\ Backed'
<1>1. /\ AllWhole /\ RowsPlain /\ SourcesPlain /\ SalesBacked /\ LedgerTypeOK
      /\ CreditsBacked /\ CashBacked /\ ReceivableBacked /\ alloc \in [RowIds -> Row]
  BY Opened, Typed
<1>2. UNCHANGED <<cash, receivable, credits, sales>>
  BY DEF ledger
<1>3. /\ \A i : Live(i)' = Live(i)
      /\ \A r : Stranded(r)' = Stranded(r)
      /\ \A r \in Receipts : Overpaid(r)' = Overpaid(r)
  BY SameRows
<1>4. \A s \in Sources : Remaining(s)' = Remaining(s)
  <2> TAKE s \in Sources
  <2>1. s \notin Notes => s \in Receipts
    BY DEF Sources
  <2> QED BY <2>1 DEF Remaining, Made
<1>5. RowsPlain'
  BY <1>1, RowsPlainKept
<1>6. SourcesPlain'
  <2>1. \A r \in Receipts : Whole(pay'[r]) /\ Overpaid(r)' >= 0
    BY <1>1, <1>3 DEF SourcesPlain, Whole
  <2>2. \A n \in Notes : noteStatus'[n] # "issued" => applied'[n] = 0
    BY <1>1 DEF SourcesPlain
  <2> QED BY <2>1, <2>2 DEF SourcesPlain, Whole
<1>7. LedgerTypeOK'
  <2>1. balance' = Totals'
    BY <1>1, <1>4, SameTotals DEF LedgerTypeOK
  <2> QED BY <1>1, <1>2, <2>1 DEF LedgerTypeOK
<1>8. SalesBacked'
  BY <1>1, <1>2 DEF SalesBacked
<1>9. CreditsBacked' /\ CashBacked' /\ ReceivableBacked'
  <2>1. CreditsBacked'
    BY <1>1, <1>2, <1>4 DEF CreditsBacked
  <2>2. CashBacked'
    BY <1>1, <1>2, <1>3 DEF CashBacked
  <2>3. ReceivableBacked'
    BY <1>1, <1>2, <1>3 DEF ReceivableBacked
  <2> QED BY <2>1, <2>2, <2>3
<1> QED BY <1>5, <1>6, <1>7, <1>8, <1>9 DEF Booked, Backed

\* A processed refund posts nothing and leaves the books exact.
LEMMA RefundBooks ==
  ASSUME LedgerInv, NEW i \in Invoices, MarkRefundProcessed(i), UNCHANGED <<ledger, balance>>
  PROVE  Booked' /\ Backed'
<1>1. PICK due : due = {r \in Receipts : pay[r].inv = i /\ pay[r].refund = "pending"}
  OBVIOUS
<1>2. /\ pay' = [r \in Receipts |-> IF r \in due THEN [pay[r] EXCEPT !.refund = "processed"]
                                                 ELSE pay[r]]
      /\ UNCHANGED <<status, noteStatus, applied, alloc>>
  BY <1>1 DEF MarkRefundProcessed, invoiceVars, noteVars
<1>3. ASSUME NEW r \in Receipts
      PROVE  /\ pay'[r].inv = pay[r].inv /\ pay'[r].amount = pay[r].amount
             /\ pay'[r].allocated = pay[r].allocated
             /\ pay'[r].unapplied = pay[r].unapplied
             /\ pay'[r].refundable = pay[r].refundable
             /\ pay[r].refund # "none" => pay'[r].refund # "none"
  <2>1. pay[r] \in Receipt
    BY Opened, Typed
  <2>2. pay'[r] = pay[r] \/ pay'[r] = [pay[r] EXCEPT !.refund = "processed"]
    BY <1>2
  <2> QED BY <2>1, <2>2 DEF Receipt
<1> QED BY <1>2, <1>3, QuietBooks

\* So does a step of somebody else.
LEMMA StutterBooks ==
  ASSUME LedgerInv, UNCHANGED ledgerVars
  PROVE  Booked' /\ Backed'
<1>1. UNCHANGED <<status, alloc, noteStatus, applied, pay, ledger, balance>>
  BY DEF ledgerVars, vars, book
<1> QED BY <1>1, QuietBooks

\* A note that does not stand carries nothing, so its total enters and leaves the books whole.
LEMMA NoteBooks ==
  ASSUME LedgerInv, NEW n \in Notes, NEW d \in Int, NEW st,
         UNCHANGED <<status, alloc, applied, pay, cash, receivable>>, balance' = Totals',
         noteStatus' = [noteStatus EXCEPT ![n] = st], noteStatus[n] # st,
         applied[n] = 0,
         d = IF st = "issued" THEN NoteTotal[n] ELSE 0 - NoteTotal[n],
         st = "issued" \/ noteStatus[n] = "issued",
         sales' = [sales EXCEPT ![n] = @ + d], credits' = [credits EXCEPT ![n] = @ + d]
  PROVE  Booked' /\ Backed'
<1>1. /\ AllWhole /\ RowsPlain /\ SourcesPlain /\ SalesBacked /\ LedgerTypeOK
      /\ CreditsBacked /\ CashBacked /\ ReceivableBacked /\ alloc \in [RowIds -> Row]
      /\ noteStatus \in [Notes -> {"absent", "issued", "cancelled"}]
  BY Opened, Typed
<1>2. /\ cash \in [Receipts -> Int] /\ receivable \in [Invoices -> Int]
      /\ credits \in [Sources -> Int] /\ sales \in [Notes -> Int]
      /\ n \in Sources /\ NoteTotal[n] \in Nat
  BY <1>1, BookShape DEF LedgerTypeOK, Sources
<1>3. /\ \A i : Live(i)' = Live(i)
      /\ \A r : Stranded(r)' = Stranded(r)
      /\ \A r \in Receipts : Overpaid(r)' = Overpaid(r)
  BY SameRows
<1>4. RowsPlain'
  BY <1>1, RowsPlainKept
<1>5. noteStatus'[n] = st /\ \A k \in Notes : k # n => noteStatus'[k] = noteStatus[k]
  BY <1>1
<1>6. SourcesPlain'
  <2>1. \A r \in Receipts : Whole(pay'[r]) /\ Overpaid(r)' >= 0
    BY <1>1, <1>3 DEF SourcesPlain, Whole
  <2>2. \A k \in Notes : noteStatus'[k] # "issued" => applied'[k] = 0
    BY <1>1, <1>5 DEF SourcesPlain
  <2> QED BY <2>1, <2>2 DEF SourcesPlain, Whole
<1>7. SalesBacked'
  <2>1. ASSUME NEW k \in Notes
        PROVE  sales'[k] = IF noteStatus'[k] = "issued" THEN NoteTotal[k] ELSE 0
    <3>1. sales[k] = IF noteStatus[k] = "issued" THEN NoteTotal[k] ELSE 0
      BY <1>1 DEF SalesBacked
    <3>2. CASE k = n
      <4>1. sales'[n] = sales[n] + d
        BY <1>2
      <4> QED BY <1>2, <1>5, <3>1, <3>2, <4>1
    <3>3. CASE k # n
      BY <1>2, <1>5, <3>1, <3>3
    <3> QED BY <3>2, <3>3
  <2> QED BY <2>1 DEF SalesBacked
<1>8. CreditsBacked'
  <2>1. ASSUME NEW s \in Sources PROVE credits'[s] = Remaining(s)'
    <3>1. credits[s] = Remaining(s)
      BY <1>1 DEF CreditsBacked
    <3>2. CASE s = n
      <4>1. credits'[n] = credits[n] + d
        BY <1>2
      <4>2. credits[n] = IF noteStatus[n] = "issued" THEN NoteTotal[n] - 0 ELSE 0
        BY <3>1, <3>2 DEF Remaining
      <4>3. Remaining(n)' = IF st = "issued" THEN NoteTotal[n] - 0 ELSE 0
        BY <1>5 DEF Remaining
      <4> QED BY <1>2, <3>2, <4>1, <4>2, <4>3
    <3>3. CASE s # n
      <4>1. credits'[s] = credits[s]
        BY <1>2, <3>3
      <4>2. Remaining(s)' = Remaining(s)
        BY <1>5, <3>3 DEF Remaining, Made
      <4> QED BY <3>1, <4>1, <4>2
    <3> QED BY <3>2, <3>3
  <2> QED BY <2>1 DEF CreditsBacked
<1>9. CashBacked'
  BY <1>1, <1>3 DEF CashBacked
<1>10. ReceivableBacked'
  BY <1>1, <1>3 DEF ReceivableBacked
<1>11. LedgerTypeOK'
  <2>1. credits[n] + d \in Int /\ sales[n] + d \in Int
    BY <1>2
  <2> QED BY <1>2, <2>1 DEF LedgerTypeOK
<1> QED BY <1>4, <1>6, <1>7, <1>8, <1>9, <1>10, <1>11 DEF Booked, Backed

\* Issuing a credit note keeps the books exact.
LEMMA IssueBooks ==
  ASSUME LedgerInv, NEW n \in Notes, IssueNote(n), PostNote(n)
  PROVE  Booked' /\ Backed'
<1>1. /\ noteStatus[n] = "absent" /\ noteStatus' = [noteStatus EXCEPT ![n] = "issued"]
      /\ UNCHANGED <<status, applied, pay, alloc>>
  BY DEF IssueNote
<1>2. PICK d \in Int : d = NoteTotal[n]
  BY BookShape
<1>3. /\ sales' = [sales EXCEPT ![n] = @ + d] /\ credits' = [credits EXCEPT ![n] = @ + d]
      /\ UNCHANGED <<cash, receivable>> /\ balance' = Totals'
  BY <1>2 DEF PostNote, Refreshed
<1>4. applied[n] = 0
  BY <1>1, Opened DEF SourcesPlain
<1> QED BY <1>1, <1>2, <1>3, <1>4, NoteBooks

\* So does cancelling one.
LEMMA CancelNoteBooks ==
  ASSUME LedgerInv, NEW n \in Notes, CancelNote(n), PostNoteCancellation(n)
  PROVE  Booked' /\ Backed'
<1>1. /\ noteStatus[n] = "issued" /\ noteStatus' = [noteStatus EXCEPT ![n] = "cancelled"]
      /\ applied[n] = 0 /\ UNCHANGED <<status, applied, pay, alloc>>
  BY DEF CancelNote
<1>2. PICK d \in Int : d = 0 - NoteTotal[n]
  BY BookShape
<1>3. sales \in [Notes -> Int] /\ credits \in [Sources -> Int] /\ NoteTotal[n] \in Nat
      /\ n \in Sources
  BY Opened, BookShape DEF LedgerTypeOK, Sources
<1>4. sales[n] - NoteTotal[n] = sales[n] + d /\ credits[n] - NoteTotal[n] = credits[n] + d
  BY <1>2, <1>3
<1>5. /\ sales' = [sales EXCEPT ![n] = sales[n] - NoteTotal[n]]
      /\ credits' = [credits EXCEPT ![n] = credits[n] - NoteTotal[n]]
      /\ UNCHANGED <<cash, receivable>> /\ balance' = Totals'
  BY DEF PostNoteCancellation, Refreshed
<1>6. /\ sales' = [sales EXCEPT ![n] = @ + d] /\ credits' = [credits EXCEPT ![n] = @ + d]
  BY <1>4, <1>5
<1> QED BY <1>1, <1>2, <1>5, <1>6, NoteBooks

-----------------------------------------------------------------------------
(***************************************************************************)
(* Cancelling an invoice.  Its live rows are applied credit, which is      *)
(* reversed, and the cash of receipts, which is reversed when the receipt  *)
(* is booked against another invoice and otherwise stays where it is.      *)
(***************************************************************************)
LEMMA CancelRows ==
  ASSUME LedgerInv, NEW i \in Invoices, CancelInvoice(i)
  PROVE  /\ status[i] # "cancelled" /\ status'[i] = "cancelled"
         /\ \A j : j # i => status'[j] = status[j]
         /\ alloc' \in [RowIds -> Row]
         /\ \A a \in CreditRows(i) : /\ a \in RowIds /\ alloc[a].state = "live" /\ InvoiceOf(a) = i
                                     /\ a \notin OwnRows
         /\ \A a \in CrossRows(i) : /\ a \in RowIds /\ alloc[a].state = "live" /\ InvoiceOf(a) = i
                                    /\ a \in OwnRows /\ SourceOf(a) \in Receipts
                                    /\ pay[SourceOf(a)].inv # i
         /\ \A a \in RowIds : IF a \in CreditRows(i) \/ a \in CrossRows(i)
                              THEN alloc'[a] = [alloc[a] EXCEPT !.state = "reversed"]
                              ELSE alloc'[a] = alloc[a]
         /\ \A a \in RowIds : alloc[a].state = "live" /\ InvoiceOf(a) = i /\ a \notin CreditRows(i) =>
              a \in OwnRows /\ (a \in CrossRows(i) <=> pay[SourceOf(a)].inv # i)
<1>1. /\ RowsPlain /\ alloc \in [RowIds -> Row] /\ status \in [Invoices -> {"issued", "cancelled"}]
  BY Opened, Typed
<1>2. PICK A : A = CreditRows(i) \cup CrossRows(i)
  OBVIOUS
<1>3. /\ status[i] # "cancelled" /\ status' = [status EXCEPT ![i] = "cancelled"]
      /\ alloc' = Reversed(A)
  BY <1>2 DEF CancelInvoice
<1>4. A \subseteq RowIds /\ \A a \in A : alloc[a].state = "live"
  BY <1>2 DEF CreditRows, CrossRows
<1>5. alloc' \in [RowIds -> Row]
  BY <1>1, <1>3, <1>4, Reversing
<1>6. status'[i] = "cancelled" /\ \A j : j # i => status'[j] = status[j]
  BY <1>1, <1>3
<1>7. ASSUME NEW a \in CreditRows(i)
      PROVE  a \in RowIds /\ alloc[a].state = "live" /\ InvoiceOf(a) = i /\ a \notin OwnRows
  BY <1>1, <1>7 DEF CreditRows, RowsPlain
<1>8. ASSUME NEW a \in CrossRows(i)
      PROVE  /\ a \in RowIds /\ alloc[a].state = "live" /\ InvoiceOf(a) = i
             /\ a \in OwnRows /\ SourceOf(a) \in Receipts /\ pay[SourceOf(a)].inv # i
  BY <1>1, <1>8 DEF CrossRows, RowsPlain
<1>9. \A a \in RowIds : IF a \in CreditRows(i) \/ a \in CrossRows(i)
                        THEN alloc'[a] = [alloc[a] EXCEPT !.state = "reversed"]
                        ELSE alloc'[a] = alloc[a]
  BY <1>2, <1>3 DEF Reversed
<1>10. ASSUME NEW a \in RowIds, alloc[a].state = "live", InvoiceOf(a) = i, a \notin CreditRows(i)
       PROVE  a \in OwnRows /\ (a \in CrossRows(i) <=> pay[SourceOf(a)].inv # i)
  <2>1. ~alloc[a].stamped
    BY <1>10 DEF CreditRows
  <2>2. a \in OwnRows
    BY <1>1, <1>10, <2>1 DEF RowsPlain
  <2>3. SourceOf(a) \in Receipts
    BY <2>2, OwnSource
  <2> QED BY <1>10, <2>1, <2>2, <2>3 DEF CrossRows
<1> QED BY <1>3, <1>5, <1>6, <1>7, <1>8, <1>9, <1>10

\* What live rows took from a source, and from an invoice, is what they weigh.
LEMMA LiveRowsWeigh ==
  ASSUME alloc \in [RowIds -> Row], NEW A, A \subseteq RowIds,
         \A a \in A : alloc[a].state = "live", NEW s
  PROVE  /\ TakenFrom(A, s) = Worth(Weights, A \cap RowsFrom(s))
         /\ SettledOn(A, s) = Worth(Weights, A \cap RowsOn(s))
<1>1. Weights \in [RowIds -> Nat]
  BY WeightsTyped
<1>2. TakenFrom(A, s) = Worth(Weights, A \cap RowsFrom(s))
  <2> DEFINE g == [a \in A |-> IF SourceOf(a) = s THEN alloc[a].amount ELSE 0]
  <2>1. A \in SUBSET RowIds /\ g \in [A -> Nat]
    BY DEF Row
  <2>2. \A a \in RowIds : (IF a \in A \cap RowsFrom(s) THEN Weights[a] ELSE 0)
                            = (IF a \in A THEN g[a] ELSE 0)
    BY DEF Weights, Weight, RowsFrom
  <2> HIDE DEF g
  <2>3. Sum(g) = Worth(Weights, A \cap RowsFrom(s))
    BY <1>1, <2>1, <2>2, WorthPart
  <2> QED BY <2>3 DEF TakenFrom, g
<1>3. SettledOn(A, s) = Worth(Weights, A \cap RowsOn(s))
  <2> DEFINE g == [a \in A |-> IF InvoiceOf(a) = s THEN alloc[a].amount ELSE 0]
  <2>1. A \in SUBSET RowIds /\ g \in [A -> Nat]
    BY DEF Row
  <2>2. \A a \in RowIds : (IF a \in A \cap RowsOn(s) THEN Weights[a] ELSE 0)
                            = (IF a \in A THEN g[a] ELSE 0)
    BY DEF Weights, Weight, RowsOn
  <2> HIDE DEF g
  <2>3. Sum(g) = Worth(Weights, A \cap RowsOn(s))
    BY <1>1, <2>1, <2>2, WorthPart
  <2> QED BY <2>3 DEF SettledOn, g
<1> QED BY <1>2, <1>3

\* The money of a receipt after the cancellation of i.
LEMMA AfterMoney ==
  ASSUME NEW m \in Receipt, NEW i, NEW back \in Nat, NEW cross \in Nat,
         back + cross <= m.allocated
  PROVE  /\ After(m, i, back, cross).amount = m.amount
         /\ m.inv # i => /\ After(m, i, back, cross).unapplied = m.unapplied + back
                         /\ After(m, i, back, cross).refundable = m.refundable + cross
         /\ m.inv = i /\ cross = 0 /\ m.refund = "pending" =>
              /\ After(m, i, back, cross).unapplied = m.unapplied + back
              /\ After(m, i, back, cross).refundable = m.refundable
         /\ m.inv = i /\ cross = 0 /\ m.refund # "pending" =>
              /\ After(m, i, back, cross).unapplied = 0
              /\ After(m, i, back, cross).refundable = m.refundable + (m.unapplied + back)
<1>1. /\ m.allocated \in Nat /\ m.unapplied \in Nat /\ m.refundable \in Nat
  BY ReceiptTyped
<1>2. PICK x, y, z, f : /\ x = m.allocated - (back + cross) /\ y = m.unapplied + back
                        /\ z = m.refundable + cross
                        /\ f = IF cross > 0 THEN "pending" ELSE m.refund
  OBVIOUS
<1>3. PICK n : n = Swept(m, back, cross)
  OBVIOUS
<1>4. n = [m EXCEPT !.allocated = x, !.unapplied = y, !.refundable = z, !.refund = f]
  BY <1>2, <1>3 DEF Swept
<1>5. n.inv = m.inv /\ n.amount = m.amount /\ n.unapplied = y /\ n.refundable = z /\ n.refund = f
  BY <1>4 DEF Receipt
<1>6. n \in Receipt /\ y \in Nat /\ z \in Nat
  BY <1>1, <1>2, <1>3, SweptReceipt
<1>7. PICK q : q = IF n.refund = "pending" THEN 0 ELSE n.unapplied
  OBVIOUS
<1>8. PICK u, v : u = n.unapplied - q /\ v = n.refundable + q
  OBVIOUS
<1>9. WithdrawAndFlag(n) =
        [n EXCEPT !.unapplied = @ - q, !.refundable = @ + q, !.refund = "pending"]
  BY <1>7 DEF WithdrawAndFlag
<1>10. WithdrawAndFlag(n) = [n EXCEPT !.unapplied = u, !.refundable = v, !.refund = "pending"]
  BY <1>6, <1>8, <1>9
<1>11. /\ WithdrawAndFlag(n).amount = m.amount
       /\ WithdrawAndFlag(n).unapplied = u /\ WithdrawAndFlag(n).refundable = v
  BY <1>5, <1>6, <1>10 DEF Receipt
<1>12. After(m, i, back, cross) = IF m.inv = i THEN WithdrawAndFlag(n) ELSE n
  BY <1>3, <1>5 DEF After
<1>13. CASE m.inv # i
  BY <1>2, <1>5, <1>12, <1>13
<1>14. CASE m.inv = i /\ cross = 0
  <2>1. f = m.refund /\ z = m.refundable
    BY <1>1, <1>2, <1>14
  <2>2. CASE m.refund = "pending"
    BY <1>1, <1>2, <1>5, <1>6, <1>7, <1>8, <1>11, <1>12, <1>14, <2>1, <2>2
  <2>3. CASE m.refund # "pending"
    BY <1>1, <1>2, <1>5, <1>6, <1>7, <1>8, <1>11, <1>12, <1>14, <2>1, <2>3
  <2> QED BY <2>2, <2>3
<1>15. CASE m.inv = i /\ cross # 0
  BY <1>11, <1>12, <1>15
<1> QED BY <1>13, <1>14, <1>15

\* What a cancellation takes from a receipt and gives it back, and what its rows weigh.
LEMMA CancelPurse ==
  ASSUME LedgerInv, NEW i \in Invoices, CancelInvoice(i), NEW r \in Receipts,
         NEW back, NEW cross,
         back = TakenFrom(CreditRows(i), r), cross = TakenFrom(CrossRows(i), r)
  PROVE  /\ r \in Sources /\ pay[r] \in Receipt /\ back \in Nat /\ cross \in Nat
         /\ back + cross <= pay[r].allocated /\ pay[r].allocated = Spent(r)
         /\ pay'[r] = After(pay[r], i, back, cross) /\ CancelledReceipt(i, r) = pay'[r]
         /\ pay[r].inv = i => cross = 0
         /\ \A a \in CrossRows(i) : SourceOf(a) = r => cross > 0
<1>1. PICK C, X, A : C = CreditRows(i) /\ X = CrossRows(i) /\ A = C \cup X
  OBVIOUS
<1>2. alloc' = Reversed(A) /\ pay' = [q \in Receipts |-> CancelledReceipt(i, q)]
  BY <1>1 DEF CancelInvoice
<1>3. /\ Safe /\ SourcesPlain /\ RowsPlain /\ alloc \in [RowIds -> Row] /\ pay \in [Receipts -> Receipt]
  BY Opened, Typed
<1>4. /\ C \subseteq RowIds /\ X \subseteq RowIds /\ A \subseteq RowIds /\ C \cap X = {}
      /\ \A a \in A : alloc[a].state = "live"
  BY <1>1 DEF CreditRows, CrossRows
<1>5. r \in Sources /\ pay[r] \in Receipt
  BY <1>3 DEF Sources
<1>6. TakenFrom(A, r) = back + cross /\ back \in Nat /\ cross \in Nat
  <2>1. /\ TakenFrom(C \cup X, r) = TakenFrom(C, r) + TakenFrom(X, r)
        /\ TakenFrom(C, r) \in Nat /\ TakenFrom(X, r) \in Nat
    BY <1>3, <1>4, TakenAdds
  <2> QED BY <1>1, <2>1
<1>7. Spent(r) = Spent(r)' + (back + cross) /\ Spent(r)' \in Nat
  BY <1>2, <1>3, <1>4, <1>5, <1>6, Reversing
<1>8. pay[r].allocated = Spent(r)
  BY <1>3, <1>5, SpentBacked
<1>9. CancelledReceipt(i, r) = After(pay[r], i, back, cross)
  BY DEF CancelledReceipt, After, Swept
<1>10. cross = Worth(Weights, X \cap RowsFrom(r)) /\ Weights \in [RowIds -> Nat]
  <2>1. \A a \in X : alloc[a].state = "live"
    BY <1>1, <1>4
  <2> QED BY <1>1, <1>3, <1>4, <2>1, LiveRowsWeigh, WeightsTyped
<1>11. ASSUME pay[r].inv = i PROVE cross = 0
  <2>1. \A a \in RowIds : a \in X \cap RowsFrom(r) => Weights[a] = 0
    BY <1>1, <1>11 DEF CrossRows, RowsFrom
  <2> QED BY <1>10, <2>1, WorthZero
<1>12. ASSUME NEW a \in CrossRows(i), SourceOf(a) = r PROVE cross > 0
  <2>1. a \in RowIds /\ a \in X \cap RowsFrom(r) /\ alloc[a].state = "live"
    BY <1>1, <1>4, <1>12 DEF RowsFrom
  <2>2. Weights[a] <= Worth(Weights, X \cap RowsFrom(r)) /\ Weights[a] \in Nat
    BY <1>10, <2>1, WorthTerm
  <2>3. Weights[a] > 0
    BY <1>3, <2>1 DEF RowsPlain, Weights, Weight
  <2> QED BY <1>6, <1>10, <2>2, <2>3
<1> QED BY <1>2, <1>5, <1>6, <1>7, <1>8, <1>9, <1>11, <1>12

\* The own cash of a receipt on an invoice.
Kept(i, r) == Worth(Weights, OwnFrom(r) \cap RowsOn(i))

\* What a receipt is overpaid by does not change; what is stranded of one booked elsewhere
\* does not either, and one booked against the invoice strands what it keeps there.
LEMMA CancelStrands ==
  ASSUME LedgerInv, NEW i \in Invoices, CancelInvoice(i), NEW r \in Receipts
  PROVE  /\ pay'[r].amount = pay[r].amount => Overpaid(r)' = Overpaid(r)
         /\ pay[r].inv # i => Stranded(r)' = Stranded(r)
         /\ pay[r].inv = i => Stranded(r)' = Stranded(r) + Kept(i, r)
         /\ Kept(i, r) \in Nat
<1>1. /\ status[i] # "cancelled" /\ status'[i] = "cancelled"
      /\ \A j : j # i => status'[j] = status[j]
      /\ alloc' \in [RowIds -> Row]
      /\ \A a \in CreditRows(i) : a \in RowIds /\ InvoiceOf(a) = i /\ a \notin OwnRows
      /\ \A a \in CrossRows(i) : a \in RowIds /\ InvoiceOf(a) = i /\ pay[SourceOf(a)].inv # i
      /\ \A a \in RowIds : IF a \in CreditRows(i) \/ a \in CrossRows(i)
                           THEN alloc'[a] = [alloc[a] EXCEPT !.state = "reversed"]
                           ELSE alloc'[a] = alloc[a]
      /\ \A a \in RowIds : alloc[a].state = "live" /\ InvoiceOf(a) = i /\ a \notin CreditRows(i) =>
           a \in OwnRows /\ (a \in CrossRows(i) <=> pay[SourceOf(a)].inv # i)
  BY CancelRows
<1>2. alloc \in [RowIds -> Row]
  BY Opened, Typed
<1>3. Weights \in [RowIds -> Nat]
  BY <1>2, WeightsTyped
<1>4. ASSUME pay'[r].amount = pay[r].amount PROVE Overpaid(r)' = Overpaid(r)
  <2>1. \A a \in OwnFrom(r) : alloc'[a].amount = alloc[a].amount
    <3> TAKE a \in OwnFrom(r)
    <3>1. a \in RowIds /\ alloc[a] \in Row
      BY <1>2, OwnSource DEF OwnFrom
    <3> QED BY <1>1, <3>1 DEF Row
  <2> QED BY <1>1, <1>2, <1>4, <2>1, OverpaidKept
<1>5. /\ Stranded(r) = Worth(Weights, OwnFrom(r) \cap Closed)
      /\ Stranded(r)' = Worth(Weights', OwnFrom(r) \cap Closed')
  BY <1>1, <1>2, StrandedWorth, StrandedWorthNext
<1>6. ASSUME NEW a \in RowIds, a \in OwnFrom(r), InvoiceOf(a) # i
      PROVE  (a \in Closed' <=> a \in Closed) /\ Weights'[a] = Weights[a]
  <2>1. a \notin CreditRows(i) /\ a \notin CrossRows(i)
    BY <1>1, <1>6
  <2>2. alloc'[a] = alloc[a]
    BY <1>1, <2>1
  <2> QED BY <1>1, <1>6, <2>2 DEF Closed, Weights, Weight, InvoiceOf
<1>7. ASSUME NEW a \in RowIds, InvoiceOf(a) = i PROVE a \in Closed' /\ a \notin Closed
  BY <1>1, <1>7 DEF Closed, InvoiceOf
<1>8. ASSUME pay[r].inv # i PROVE Stranded(r)' = Stranded(r)
  <2>1. ASSUME NEW a \in RowIds, a \in OwnFrom(r), InvoiceOf(a) = i PROVE Weights'[a] = 0
    <3>1. a \notin CreditRows(i) /\ SourceOf(a) = r
      BY <1>1, <2>1 DEF OwnFrom
    <3>2. CASE alloc[a].state = "live"
      <4>1. alloc'[a] = [alloc[a] EXCEPT !.state = "reversed"] /\ alloc[a] \in Row
        BY <1>1, <1>2, <1>8, <2>1, <3>1, <3>2
      <4> QED BY <4>1 DEF Weights, Weight, Row
    <3>3. CASE alloc[a].state # "live"
      <4>1. a \notin CrossRows(i)
        BY <3>3 DEF CrossRows
      <4> QED BY <1>1, <3>1, <3>3, <4>1 DEF Weights, Weight
    <3> QED BY <3>2, <3>3
  <2>2. \A a \in RowIds : (IF a \in OwnFrom(r) \cap Closed' THEN Weights'[a] ELSE 0)
                            = (IF a \in OwnFrom(r) \cap Closed THEN Weights[a] ELSE 0)
    BY <1>6, <1>7, <2>1
  <2> QED BY <1>5, <2>2, WorthSame
<1>9. Kept(i, r) \in Nat
  BY <1>3, WorthNat DEF Kept
<1>10. ASSUME pay[r].inv = i PROVE Stranded(r)' = Stranded(r) + Kept(i, r)
  <2>1. ASSUME NEW a \in RowIds, a \in OwnFrom(r) PROVE Weights'[a] = Weights[a]
    <3>1. a \notin CreditRows(i) /\ a \notin CrossRows(i)
      BY <1>1, <1>10, <2>1 DEF OwnFrom
    <3> QED BY <1>1, <3>1 DEF Weights, Weight
  <2>2. PICK C, D, E : /\ C = OwnFrom(r) \cap Closed /\ D = OwnFrom(r) \cap RowsOn(i)
                       /\ E = C \cup D
    OBVIOUS
  <2>3. \A a \in RowIds : (IF a \in OwnFrom(r) \cap Closed' THEN Weights'[a] ELSE 0)
                            = (IF a \in E THEN Weights[a] ELSE 0)
    BY <1>6, <1>7, <2>1, <2>2 DEF RowsOn
  <2>4. Stranded(r)' = Worth(Weights, E)
    BY <1>5, <2>3, WorthSame
  <2>5. \A a \in RowIds : /\ a \in E <=> a \in C \/ a \in D
                          /\ ~(a \in C /\ a \in D)
    BY <1>7, <2>2 DEF RowsOn
  <2>6. Worth(Weights, E) = Worth(Weights, C) + Worth(Weights, D)
    BY <1>3, <2>5, WorthUnion
  <2> QED BY <1>5, <2>2, <2>4, <2>6 DEF Kept
<1> QED BY <1>4, <1>8, <1>9, <1>10

\* What is given back to a receipt and what its own rows carry are parts of what it spent,
\* and its own rows carry what they were written for while nothing of it is refunded.
LEMMA CancelShares ==
  ASSUME LedgerInv, NEW i \in Invoices, CancelInvoice(i), NEW r \in Receipts
  PROVE  /\ TakenFrom(CreditRows(i), r) + Worth(Weights, OwnFrom(r)) <= Spent(r)
         /\ Worth(Weights, OwnFrom(r)) \in Nat /\ Kept(i, r) \in Nat
         /\ Kept(i, r) <= Worth(Weights, OwnFrom(r))
         /\ pay[r].refund = "none" => Overpaid(r) = pay[r].amount - Worth(Weights, OwnFrom(r))
         /\ Sum([a \in {b \in RowIds \ CreditRows(i) : /\ alloc[b].state = "live"
                                                       /\ InvoiceOf(b) = i /\ SourceOf(b) = r}
                   |-> alloc[a].amount]) = Kept(i, r)
<1>1. /\ \A a \in CreditRows(i) : a \in RowIds /\ alloc[a].state = "live" /\ a \notin OwnRows
      /\ \A a \in RowIds : alloc[a].state = "live" /\ InvoiceOf(a) = i /\ a \notin CreditRows(i) =>
           a \in OwnRows
  BY CancelRows
<1>2. alloc \in [RowIds -> Row] /\ RowsPlain
  BY Opened, Typed
<1>3. Weights \in [RowIds -> Nat] /\ Amts \in [RowIds -> Nat]
  BY <1>2, WeightsTyped, AmtsTyped
<1>4. PICK C, D, E, G : /\ C = CreditRows(i) \cap RowsFrom(r) /\ D = OwnFrom(r)
                        /\ E = C \cup D /\ G = OwnFrom(r) \cap RowsOn(i)
  OBVIOUS
<1>5. TakenFrom(CreditRows(i), r) = Worth(Weights, C)
  <2>1. CreditRows(i) \subseteq RowIds /\ \A a \in CreditRows(i) : alloc[a].state = "live"
    BY <1>1
  <2> QED BY <1>2, <1>4, <2>1, LiveRowsWeigh
<1>6. Worth(Weights, E) = Worth(Weights, C) + Worth(Weights, D)
  <2>1. \A a \in RowIds : /\ a \in E <=> a \in C \/ a \in D
                          /\ ~(a \in C /\ a \in D)
    BY <1>1, <1>4 DEF OwnFrom
  <2> QED BY <1>3, <2>1, WorthUnion
<1>7. Worth(Weights, E) <= Spent(r)
  <2>1. \A a \in RowIds : a \in E => a \in RowsFrom(r)
    BY <1>4 DEF OwnFrom, RowsFrom
  <2>2. Worth(Weights, E) <= Worth(Weights, RowsFrom(r))
    BY <1>3, <2>1, WorthWithin
  <2> QED BY <2>2, SpentWorth
<1>8. Worth(Weights, G) <= Worth(Weights, D) /\ Worth(Weights, G) \in Nat /\ Worth(Weights, D) \in Nat
  <2>1. \A a \in RowIds : a \in G => a \in D
    BY <1>4
  <2> QED BY <1>3, <2>1, WorthWithin
<1>9. ASSUME pay[r].refund = "none"
      PROVE  Overpaid(r) = pay[r].amount - Worth(Weights, OwnFrom(r))
  <2>1. \A a \in RowIds : (IF a \in OwnFrom(r) THEN Amts[a] ELSE 0)
                            = (IF a \in OwnFrom(r) THEN Weights[a] ELSE 0)
    <3> TAKE a \in RowIds
    <3>1. ASSUME a \in OwnFrom(r), alloc[a].state # "live" PROVE alloc[a].amount = 0
      <4>1. a \in OwnRows /\ SourceOf(a) = r
        BY <3>1 DEF OwnFrom
      <4>2. alloc[a].state = "absent"
        BY <1>2, <1>9, <3>1, <4>1 DEF RowsPlain, Row
      <4> QED BY <1>2, <4>2 DEF RowsPlain, NoRow
    <3> QED BY <3>1 DEF Amts, Weights, Weight
  <2>2. Worth(Amts, OwnFrom(r)) = Worth(Weights, OwnFrom(r))
    BY <2>1, WorthSame
  <2> QED BY <1>2, <2>2, OverpaidWorth
<1>10. Sum([a \in {b \in RowIds \ CreditRows(i) : /\ alloc[b].state = "live"
                                                  /\ InvoiceOf(b) = i /\ SourceOf(b) = r}
              |-> alloc[a].amount]) = Kept(i, r)
  <2> DEFINE B == {b \in RowIds \ CreditRows(i) : /\ alloc[b].state = "live"
                                                  /\ InvoiceOf(b) = i /\ SourceOf(b) = r}
             g == [a \in B |-> alloc[a].amount]
  <2>1. B \in SUBSET RowIds /\ g \in [B -> Nat]
    BY <1>2 DEF Row
  <2>2. \A a \in RowIds : (IF a \in G THEN Weights[a] ELSE 0) = (IF a \in B THEN g[a] ELSE 0)
    <3> TAKE a \in RowIds
    <3>1. CASE alloc[a].state = "live"
      <4>1. a \in G <=> a \in B
        BY <1>1, <1>4, <3>1 DEF OwnFrom, RowsOn
      <4> QED BY <3>1, <4>1 DEF Weights, Weight
    <3>2. CASE alloc[a].state # "live"
      BY <3>2 DEF Weights, Weight
    <3> QED BY <3>1, <3>2
  <2> HIDE DEF g, B
  <2>3. Sum(g) = Worth(Weights, G)
    BY <1>3, <2>1, <2>2, WorthPart
  <2> QED BY <1>4, <2>3 DEF g, B, Kept
<1> QED BY <1>4, <1>5, <1>6, <1>7, <1>8, <1>9, <1>10 DEF Kept

\* What is mirrored for a receipt: nothing more than the reversals when it is booked
\* elsewhere, and otherwise the credit withdrawn and the cash that stays on the invoice.
LEMMA CancelMirrors ==
  ASSUME LedgerInv, NEW i \in Invoices, CancelInvoice(i), NEW r \in Receipts,
         NEW back, NEW cross,
         back = TakenFrom(CreditRows(i), r), cross = TakenFrom(CrossRows(i), r)
  PROVE  /\ back \in Nat /\ cross \in Nat /\ pay'[r].amount = pay[r].amount
         /\ pay'[r].unapplied = pay[r].unapplied + back - CreditMirrored(i, r)
         /\ CreditMirrored(i, r) \in Int /\ CashMirrored(i, r) \in Int
         /\ Least(pay[r].amount, cross) = cross
         /\ pay'[r].refundable + Stranded(r)'
              = pay[r].refundable + Stranded(r) + cross + CashMirrored(i, r)
         /\ Overpaid(r)' = Overpaid(r)
<1>1. /\ pay[r] \in Receipt /\ back \in Nat /\ cross \in Nat
      /\ back + cross <= pay[r].allocated /\ pay[r].allocated = Spent(r)
      /\ pay'[r] = After(pay[r], i, back, cross) /\ CancelledReceipt(i, r) = pay'[r]
      /\ pay[r].inv = i => cross = 0
  BY CancelPurse
<1>2. /\ pay[r].allocated \in Nat /\ pay[r].unapplied \in Nat /\ pay[r].refundable \in Nat
      /\ pay[r].amount \in Nat
      /\ pay[r].allocated + pay[r].unapplied + pay[r].refundable = pay[r].amount
      /\ pay[r].refund \in {"none", "pending", "processed"}
  BY <1>1, Opened, ReceiptTyped DEF AllWhole, Whole
<1>3. /\ pay'[r].amount = pay[r].amount
      /\ pay[r].inv # i => /\ pay'[r].unapplied = pay[r].unapplied + back
                           /\ pay'[r].refundable = pay[r].refundable + cross
      /\ pay[r].inv = i /\ pay[r].refund = "pending" =>
           /\ pay'[r].unapplied = pay[r].unapplied + back
           /\ pay'[r].refundable = pay[r].refundable
      /\ pay[r].inv = i /\ pay[r].refund # "pending" =>
           /\ pay'[r].unapplied = 0
           /\ pay'[r].refundable = pay[r].refundable + (pay[r].unapplied + back)
  BY <1>1, AfterMoney
<1>4. /\ Overpaid(r) >= 0 /\ Overpaid(r) \in Int /\ Stranded(r) \in Nat
  BY Opened, Figures DEF SourcesPlain
<1>5. /\ Overpaid(r)' = Overpaid(r) /\ Kept(i, r) \in Nat
      /\ pay[r].inv # i => Stranded(r)' = Stranded(r)
      /\ pay[r].inv = i => Stranded(r)' = Stranded(r) + Kept(i, r)
  BY <1>3, CancelStrands
<1>6. Least(pay[r].amount, cross) = cross
  BY <1>1, <1>2 DEF Least
<1>7. CASE pay[r].inv # i
  <2>1. CashMirrored(i, r) = 0
    BY <1>7 DEF CashMirrored
  <2>2. CreditMirrored(i, r) = 0
    BY <1>4, <1>7 DEF CreditMirrored, Withdrawn, Least
  <2> QED BY <1>1, <1>2, <1>3, <1>4, <1>5, <1>6, <1>7, <2>1, <2>2
<1>8. CASE pay[r].inv = i
  <2>1. PICK pool : pool = Withdrawn(i, r)
    OBVIOUS
  <2>2. pool = pay'[r].refundable - pay[r].refundable
    BY <1>1, <1>8, <2>1 DEF Withdrawn
  <2>3. pay[r].refund # "processed"
    BY <1>8, Opened, CancelRows DEF RefundsFlagged
  <2>4. PICK own : own = Worth(Weights, OwnFrom(r))
    OBVIOUS
  <2>5. /\ back + own <= pay[r].allocated /\ own \in Nat /\ Kept(i, r) <= own
        /\ pay[r].refund = "none" => Overpaid(r) = pay[r].amount - own
    BY <1>1, <2>4, CancelShares
  <2>6. /\ pool \in Nat /\ pool <= Overpaid(r) /\ pool + Kept(i, r) <= pay[r].amount
        /\ pay'[r].refundable = pay[r].refundable + pool
        /\ pay'[r].unapplied = pay[r].unapplied + back - pool
    <3>1. CASE pay[r].refund = "pending"
      <4>1. pool = 0
        BY <1>2, <1>3, <1>8, <2>2, <3>1
      <4> QED BY <1>1, <1>2, <1>3, <1>4, <1>5, <1>8, <2>5, <3>1, <4>1
    <3>2. CASE pay[r].refund = "none"
      <4>1. pool = pay[r].unapplied + back
        BY <1>1, <1>2, <1>3, <1>8, <2>2, <3>2
      <4>2. pay'[r].refundable = pay[r].refundable + pool /\ pay'[r].unapplied = 0
        BY <1>3, <1>8, <3>2, <4>1
      <4> QED BY <1>1, <1>2, <1>5, <2>5, <3>2, <4>1, <4>2
    <3> QED BY <1>2, <2>3, <3>1, <3>2
  <2>7. CreditMirrored(i, r) = pool
    BY <1>4, <2>1, <2>6 DEF CreditMirrored, Least
  <2>8. CashMirrored(i, r) = pool + Kept(i, r)
    <3>1. CashMirrored(i, r) = Least(pay[r].amount, pool + Kept(i, r))
      <4>1. Sum([a \in {b \in RowIds \ CreditRows(i) : /\ alloc[b].state = "live"
                                                       /\ InvoiceOf(b) = i /\ SourceOf(b) = r}
                   |-> alloc[a].amount]) = Kept(i, r)
        BY CancelShares
      <4> QED BY <1>8, <2>1, <4>1 DEF CashMirrored
    <3> QED BY <1>2, <1>5, <2>6, <3>1 DEF Least
  <2> QED BY <1>1, <1>2, <1>3, <1>4, <1>5, <1>6, <1>8, <2>6, <2>7, <2>8
<1> QED BY <1>7, <1>8

\* What is posted to the invoice is what its applied credit and the cash of its rows
\* settled, and nothing else settles the other invoices by less.
LEMMA CancelSettles ==
  ASSUME LedgerInv, NEW i \in Invoices, CancelInvoice(i)
  PROVE  /\ Live(i) = SettledOn(CreditRows(i), i) + SettledCash(i)
         /\ SettledOn(CreditRows(i), i) \in Nat /\ SettledCash(i) \in Nat
         /\ \A j \in Invoices : j # i => Live(j)' = Live(j)
<1>1. /\ status[i] # "cancelled"
      /\ \A a \in CreditRows(i) : /\ a \in RowIds /\ alloc[a].state = "live" /\ InvoiceOf(a) = i
                                  /\ a \notin OwnRows
      /\ \A a \in CrossRows(i) : a \in RowIds /\ InvoiceOf(a) = i
      /\ \A a \in RowIds : IF a \in CreditRows(i) \/ a \in CrossRows(i)
                           THEN alloc'[a] = [alloc[a] EXCEPT !.state = "reversed"]
                           ELSE alloc'[a] = alloc[a]
      /\ \A a \in RowIds : alloc[a].state = "live" /\ InvoiceOf(a) = i /\ a \notin CreditRows(i) =>
           a \in OwnRows
  BY CancelRows
<1>2. alloc \in [RowIds -> Row] /\ RowsPlain
  BY Opened, Typed
<1>3. Weights \in [RowIds -> Nat] /\ Amts \in [RowIds -> Nat]
  BY <1>2, WeightsTyped, AmtsTyped
<1>4. PICK C, D : C = CreditRows(i) /\ D = OwnOn(i)
  OBVIOUS
<1>5. SettledOn(CreditRows(i), i) = Worth(Weights, C)
  <2>1. CreditRows(i) \subseteq RowIds /\ \A a \in CreditRows(i) : alloc[a].state = "live"
    BY <1>1
  <2>2. SettledOn(CreditRows(i), i) = Worth(Weights, C \cap RowsOn(i))
    BY <1>2, <1>4, <2>1, LiveRowsWeigh
  <2>3. C \cap RowsOn(i) = C
    BY <1>1, <1>4 DEF RowsOn
  <2> QED BY <2>2, <2>3
<1>6. SettledCash(i) = Worth(Weights, D)
  <2>1. \A a \in RowIds : (IF a \in OwnOn(i) THEN Amts[a] ELSE 0)
                            = (IF a \in D THEN Weights[a] ELSE 0)
    <3> TAKE a \in RowIds
    <3>1. ASSUME a \in OwnOn(i), alloc[a].state # "live" PROVE alloc[a].amount = 0
      <4>1. alloc[a].state = "absent"
        BY <1>1, <1>2, <3>1 DEF RowsPlain, Row, OwnOn
      <4> QED BY <1>2, <4>1 DEF RowsPlain, NoRow
    <3> QED BY <1>4, <3>1 DEF Amts, Weights, Weight
  <2>2. Worth(Amts, OwnOn(i)) = Worth(Weights, D)
    BY <2>1, WorthSame
  <2> QED BY <1>2, <2>2, SettledCashWorth
<1>7. Live(i) = Worth(Weights, C) + Worth(Weights, D)
      /\ Worth(Weights, C) \in Nat /\ Worth(Weights, D) \in Nat
  <2>1. PICK E : E = C \cup D
    OBVIOUS
  <2>2. \A a \in RowIds : /\ a \in E <=> a \in C \/ a \in D
                          /\ ~(a \in C /\ a \in D)
    BY <1>1, <1>4, <2>1 DEF OwnOn
  <2>3. /\ Worth(Weights, E) = Worth(Weights, C) + Worth(Weights, D)
        /\ Worth(Weights, C) \in Nat /\ Worth(Weights, D) \in Nat
    BY <1>3, <2>2, WorthUnion
  <2>4. \A a \in RowIds : (IF a \in RowsOn(i) THEN Weights[a] ELSE 0)
                            = (IF a \in E THEN Weights[a] ELSE 0)
    <3> TAKE a \in RowIds
    <3>1. CASE alloc[a].state = "live"
      <4>1. a \in RowsOn(i) <=> a \in E
        BY <1>1, <1>4, <2>1, <3>1 DEF OwnOn, RowsOn
      <4> QED BY <4>1
    <3>2. CASE alloc[a].state # "live"
      BY <3>2 DEF Weights, Weight
    <3> QED BY <3>1, <3>2
  <2>5. Worth(Weights, RowsOn(i)) = Worth(Weights, E)
    BY <2>4, WorthSame
  <2> QED BY <2>3, <2>5, LiveWorth
<1>8. ASSUME NEW j \in Invoices, j # i PROVE Live(j)' = Live(j)
  <2>1. \A a \in RowIds : (IF a \in RowsOn(j) THEN Weights'[a] ELSE 0)
                            = (IF a \in RowsOn(j) THEN Weights[a] ELSE 0)
    <3> TAKE a \in RowIds
    <3>1. a \in RowsOn(j) => a \notin CreditRows(i) /\ a \notin CrossRows(i)
      BY <1>1, <1>8 DEF RowsOn
    <3>2. a \in RowsOn(j) => alloc'[a] = alloc[a]
      BY <1>1, <3>1
    <3> QED BY <3>2 DEF Weights, Weight
  <2>2. Worth(Weights', RowsOn(j)) = Worth(Weights, RowsOn(j))
    BY <2>1, WorthSame
  <2> QED BY <2>2, LiveWorth
<1> QED BY <1>5, <1>6, <1>7, <1>8

\* Only applied credit comes off a note, and a note that does not stand had none.
LEMMA CancelNotes ==
  ASSUME LedgerInv, NEW i \in Invoices, CancelInvoice(i), NEW n \in Notes
  PROVE  /\ applied'[n] = applied[n] - TakenFrom(CreditRows(i), n)
         /\ applied[n] \in Nat /\ TakenFrom(CreditRows(i), n) \in Nat
         /\ TakenFrom(CreditRows(i), n) <= applied[n]
<1>1. PICK C, X, A : C = CreditRows(i) /\ X = CrossRows(i) /\ A = C \cup X
  OBVIOUS
<1>2. alloc' = Reversed(A) /\ applied' = [k \in Notes |-> applied[k] - TakenFrom(A, k)]
  BY <1>1 DEF CancelInvoice
<1>3. Safe /\ SourcesPlain /\ alloc \in [RowIds -> Row] /\ n \in Sources /\ n \notin Receipts
  BY Opened, Typed, BookShape DEF Sources
<1>4. /\ C \subseteq RowIds /\ X \subseteq RowIds /\ A \subseteq RowIds /\ C \cap X = {}
      /\ \A a \in A : alloc[a].state = "live"
      /\ \A a \in X : SourceOf(a) \in Receipts
  BY <1>1 DEF CreditRows, CrossRows
<1>5. /\ TakenFrom(A, n) = TakenFrom(C, n) + TakenFrom(X, n)
      /\ TakenFrom(C, n) \in Nat /\ TakenFrom(X, n) \in Nat
  <2>1. /\ TakenFrom(C \cup X, n) = TakenFrom(C, n) + TakenFrom(X, n)
        /\ TakenFrom(C, n) \in Nat /\ TakenFrom(X, n) \in Nat
    BY <1>3, <1>4, TakenAdds
  <2> QED BY <1>1, <2>1
<1>6. TakenFrom(X, n) = 0
  <2>1. Weights \in [RowIds -> Nat]
    BY <1>3, WeightsTyped
  <2>2. TakenFrom(X, n) = Worth(Weights, X \cap RowsFrom(n))
    <3>1. \A a \in X : alloc[a].state = "live"
      BY <1>1, <1>4
    <3> QED BY <1>3, <1>4, <3>1, LiveRowsWeigh
  <2>3. \A a \in RowIds : a \in X \cap RowsFrom(n) => Weights[a] = 0
    BY <1>3, <1>4 DEF RowsFrom
  <2> QED BY <2>1, <2>2, <2>3, WorthZero
<1>7. Spent(n) = Spent(n)' + TakenFrom(A, n) /\ Spent(n)' \in Nat
  BY <1>2, <1>3, <1>4, Reversing
<1>8. Spent(n) = applied[n] /\ Spent(n) \in Nat
  BY <1>3, SpentBacked
<1>9. applied'[n] = applied[n] - TakenFrom(A, n)
  BY <1>2
<1> QED BY <1>1, <1>5, <1>6, <1>7, <1>8, <1>9

\* Cancelling an invoice keeps the books exact.
LEMMA CancelBooks ==
  ASSUME LedgerInv, NEW i \in Invoices, CancelInvoice(i), PostCancellation(i)
  PROVE  Booked' /\ Backed'
<1>1. PICK back, cross : /\ back = [s \in Sources |-> TakenFrom(CreditRows(i), s)]
                         /\ cross = [r \in Receipts |-> TakenFrom(CrossRows(i), r)]
  OBVIOUS
<1>2. /\ Safe /\ AllWhole /\ RowsPlain /\ SourcesPlain /\ SalesBacked /\ LedgerTypeOK
      /\ CreditsBacked /\ CashBacked /\ ReceivableBacked
      /\ alloc \in [RowIds -> Row] /\ pay \in [Receipts -> Receipt] /\ applied \in [Notes -> Nat]
      /\ UNCHANGED noteStatus
  BY Opened, Typed DEF CancelInvoice
<1>3. /\ status[i] # "cancelled" /\ status'[i] = "cancelled"
      /\ \A j : j # i => status'[j] = status[j]
      /\ \A a \in CreditRows(i) : alloc[a].state = "live" /\ a \notin OwnRows
      /\ \A a \in CrossRows(i) : /\ alloc[a].state = "live" /\ InvoiceOf(a) = i
                                 /\ SourceOf(a) \in Receipts
      /\ \A a \in RowIds : IF a \in CreditRows(i) \/ a \in CrossRows(i)
                           THEN alloc'[a] = [alloc[a] EXCEPT !.state = "reversed"]
                           ELSE alloc'[a] = alloc[a]
  BY CancelRows
<1>4. ASSUME NEW r \in Receipts
      PROVE  /\ r \in Sources /\ pay[r] \in Receipt /\ back[r] \in Nat /\ cross[r] \in Nat
             /\ back[r] = TakenFrom(CreditRows(i), r) /\ cross[r] = TakenFrom(CrossRows(i), r)
             /\ back[r] + cross[r] <= pay[r].allocated
             /\ pay'[r] = After(pay[r], i, back[r], cross[r])
             /\ \A a \in CrossRows(i) : SourceOf(a) = r => cross[r] > 0
  <2>1. r \in Sources
    BY DEF Sources
  <2>2. back[r] = TakenFrom(CreditRows(i), r) /\ cross[r] = TakenFrom(CrossRows(i), r)
    BY <1>1, <2>1
  <2> QED BY <2>1, <2>2, CancelPurse
<1>5. ASSUME NEW r \in Receipts
      PROVE  /\ pay'[r].refund = "none" => pay[r].refund = "none" /\ cross[r] = 0
             /\ pay'[r].inv = pay[r].inv
  <2>1. /\ back[r] \in Nat /\ cross[r] \in Nat /\ pay[r] \in Receipt
        /\ back[r] + cross[r] <= pay[r].allocated
        /\ pay'[r] = After(pay[r], i, back[r], cross[r])
    BY <1>4
  <2>2. /\ pay'[r].inv = pay[r].inv
        /\ pay[r].inv = i => pay'[r].refund = "pending"
        /\ pay[r].inv # i => pay'[r].refund = (IF cross[r] > 0 THEN "pending" ELSE pay[r].refund)
    BY <2>1, AfterReceipt
  <2>3. CASE pay[r].inv = i
    BY <2>2, <2>3
  <2>4. CASE pay[r].inv # i
    BY <2>1, <2>2, <2>4
  <2> QED BY <2>3, <2>4
<1>6. ASSUME NEW r \in Receipts
      PROVE  /\ pay'[r].amount = pay[r].amount
             /\ pay'[r].unapplied = pay[r].unapplied + back[r] - CreditMirrored(i, r)
             /\ CreditMirrored(i, r) \in Int /\ CashMirrored(i, r) \in Int
             /\ Least(pay[r].amount, cross[r]) = cross[r]
             /\ pay'[r].refundable + Stranded(r)'
                  = pay[r].refundable + Stranded(r) + cross[r] + CashMirrored(i, r)
             /\ Overpaid(r)' = Overpaid(r)
  BY <1>4, CancelMirrors
<1>7. ASSUME NEW n \in Notes
      PROVE  /\ n \in Sources /\ n \notin Receipts /\ back[n] \in Nat
             /\ applied'[n] = applied[n] - back[n] /\ back[n] <= applied[n] /\ applied[n] \in Nat
  <2>1. n \in Sources /\ n \notin Receipts
    BY BookShape DEF Sources
  <2>2. back[n] = TakenFrom(CreditRows(i), n)
    BY <1>1, <2>1
  <2> QED BY <2>1, <2>2, CancelNotes
<1>8. RowsPlain'
  <2>1. ASSUME NEW a \in RowIds PROVE alloc'[a] = alloc[a] \/ Undone(a)
    <3>1. CASE a \in CreditRows(i)
      BY <1>3, <3>1 DEF Undone
    <3>2. CASE a \in CrossRows(i)
      <4>1. pay'[SourceOf(a)].refund # "none"
        BY <1>3, <1>4, <1>5, <3>2
      <4> QED BY <1>3, <3>2, <4>1 DEF Undone
    <3>3. CASE a \notin CreditRows(i) /\ a \notin CrossRows(i)
      BY <1>3, <3>3
    <3> QED BY <3>1, <3>2, <3>3
  <2>2. \A j \in Invoices : status[j] = "cancelled" => status'[j] = "cancelled"
    BY <1>3
  <2>3. \A r \in Receipts : pay[r].refund # "none" => pay'[r].refund # "none"
    BY <1>5
  <2> QED BY <1>2, <2>1, <2>2, <2>3, RowsPlainKept
<1>9. SourcesPlain'
  <2>1. \A r \in Receipts : Whole(pay'[r])
    <3>1. Next
      BY DEF Next
    <3> QED BY <1>2, <3>1, ReceiptSteps
  <2>2. ASSUME NEW n \in Notes, noteStatus'[n] # "issued" PROVE applied'[n] = 0
    <3>1. applied[n] = 0
      BY <1>2, <2>2 DEF SourcesPlain
    <3> QED BY <1>7, <3>1
  <2>3. \A r \in Receipts : Overpaid(r)' >= 0
    BY <1>2, <1>6 DEF SourcesPlain
  <2> QED BY <2>1, <2>2, <2>3 DEF SourcesPlain, Whole
<1>10. /\ cash' = [r \in Receipts |->
            cash[r] - Least(pay[r].amount, TakenFrom(CrossRows(i), r)) - CashMirrored(i, r)]
       /\ receivable' =
            [receivable EXCEPT ![i] = @ - SettledOn(CreditRows(i), i) - SettledCash(i)]
       /\ credits' = [s \in Sources |-> credits[s] + TakenFrom(CreditRows(i), s)
            - IF s \in Receipts THEN CreditMirrored(i, s) ELSE 0]
       /\ UNCHANGED sales /\ balance' = Totals'
  BY DEF PostCancellation, Refreshed
<1>11. ASSUME NEW s \in Sources
       PROVE  credits'[s] = Remaining(s)' /\ credits'[s] \in Int
  <2>1. credits'[s] = credits[s] + back[s] - IF s \in Receipts THEN CreditMirrored(i, s) ELSE 0
    <3>1. TakenFrom(CreditRows(i), s) = back[s]
      BY <1>1
    <3> QED BY <1>10, <3>1
  <2>2. credits[s] = Remaining(s) /\ Remaining(s) \in Nat
    BY <1>2, Figures DEF CreditsBacked
  <2>3. CASE s \in Notes
    <3>1. s \notin Receipts /\ NoteTotal[s] \in Nat
      BY <1>7, <2>3, BookShape
    <3>2. credits'[s] = Remaining(s) + back[s]
      BY <1>7, <2>1, <2>2, <2>3, <3>1
    <3>3. CASE noteStatus[s] = "issued"
      <4>1. Remaining(s) = NoteTotal[s] - applied[s] /\ Remaining(s)' = NoteTotal[s] - applied'[s]
        BY <1>2, <2>3, <3>3 DEF Remaining
      <4> QED BY <1>7, <2>2, <2>3, <3>1, <3>2, <4>1
    <3>4. CASE noteStatus[s] # "issued"
      <4>1. Remaining(s) = 0 /\ Remaining(s)' = 0 /\ applied[s] = 0
        BY <1>2, <2>3, <3>4 DEF Remaining, SourcesPlain
      <4> QED BY <1>7, <2>3, <3>2, <4>1
    <3> QED BY <3>3, <3>4
  <2>4. CASE s \notin Notes
    <3>1. s \in Receipts /\ pay[s].unapplied \in Nat
      BY <1>2, <2>4, ReceiptTyped DEF Sources
    <3>2. Remaining(s) = pay[s].unapplied
      BY <3>1, Opened, ReceiptOffers
    <3>3. credits'[s] = pay[s].unapplied + back[s] - CreditMirrored(i, s)
      BY <2>1, <2>2, <3>1, <3>2
    <3>4. pay'[s].unapplied = pay[s].unapplied + back[s] - CreditMirrored(i, s)
      BY <1>6, <3>1
    <3>5. Remaining(s)' = pay'[s].unapplied
      <4>1. Untouched'
        <5>1. Next
          BY DEF Next
        <5>2. Safe'
          BY <1>2, <5>1, SafeStep
        <5> QED BY <5>2 DEF Safe, CapacityKept
      <4> QED BY <3>1, <4>1, ReceiptOffers
    <3>6. back[s] \in Nat /\ CreditMirrored(i, s) \in Int
      BY <1>4, <1>6, <3>1
    <3> QED BY <3>1, <3>3, <3>4, <3>5, <3>6
  <2> QED BY <2>3, <2>4
<1>12. CreditsBacked' /\ credits' \in [Sources -> Int]
  BY <1>10, <1>11 DEF CreditsBacked
<1>13. ASSUME NEW r \in Receipts
       PROVE  /\ cash'[r] = pay'[r].amount - pay'[r].refundable - Stranded(r)'
              /\ cash'[r] \in Int
  <2>1. cash'[r] = cash[r] - cross[r] - CashMirrored(i, r)
    <3>1. cash'[r] = cash[r] - Least(pay[r].amount, TakenFrom(CrossRows(i), r)) - CashMirrored(i, r)
      BY <1>10
    <3> QED BY <1>4, <1>6, <3>1
  <2>2. cash[r] = pay[r].amount - pay[r].refundable - Stranded(r)
    BY <1>2 DEF CashBacked
  <2>3. /\ pay[r].amount \in Nat /\ pay[r].refundable \in Nat /\ Stranded(r) \in Nat
        /\ cross[r] \in Nat
    BY <1>4, Figures, ReceiptTyped
  <2>4. pay'[r].refundable \in Nat /\ Stranded(r)' \in Int
    <3>1. pay'[r] \in Receipt
      BY <1>4, AfterReceipt
    <3>2. pay'[r].refundable \in Nat
      BY <3>1, ReceiptTyped
    <3>3. Stranded(r)' = Stranded(r) \/ Stranded(r)' = Stranded(r) + Kept(i, r)
      BY CancelStrands
    <3>4. Kept(i, r) \in Nat
      BY CancelStrands
    <3> QED BY <2>3, <3>2, <3>3, <3>4
  <2>5. PICK cm, st : cm = CashMirrored(i, r) /\ st = Stranded(r)'
    OBVIOUS
  <2>6. /\ pay'[r].refundable + st = pay[r].refundable + Stranded(r) + cross[r] + cm
        /\ pay'[r].amount = pay[r].amount /\ cm \in Int /\ st \in Int
    BY <1>6, <2>4, <2>5
  <2>7. cash'[r] = pay[r].amount - pay[r].refundable - Stranded(r) - cross[r] - cm
    BY <2>1, <2>2, <2>5
  <2>8. cash'[r] = pay'[r].amount - pay'[r].refundable - st /\ cash'[r] \in Int
    BY <2>3, <2>4, <2>6, <2>7
  <2> QED BY <2>5, <2>8
<1>14. CashBacked' /\ cash' \in [Receipts -> Int]
  BY <1>10, <1>13 DEF CashBacked
<1>15. ReceivableBacked' /\ receivable' \in [Invoices -> Int]
  <2>1. /\ Live(i) = SettledOn(CreditRows(i), i) + SettledCash(i)
        /\ SettledOn(CreditRows(i), i) \in Nat /\ SettledCash(i) \in Nat
        /\ \A j \in Invoices : j # i => Live(j)' = Live(j)
    BY CancelSettles
  <2>2. receivable[i] = Live(i) /\ receivable \in [Invoices -> Int]
    BY <1>2, <1>3 DEF ReceivableBacked, LedgerTypeOK
  <2>3. receivable[i] - SettledOn(CreditRows(i), i) - SettledCash(i) = 0
    BY <2>1, <2>2
  <2>4. receivable' = [receivable EXCEPT ![i] = 0]
    BY <1>10, <2>3
  <2>5. ASSUME NEW j \in Invoices
        PROVE  receivable'[j] = IF status'[j] = "cancelled" THEN 0 ELSE Live(j)'
    BY <1>2, <1>3, <2>1, <2>2, <2>4 DEF ReceivableBacked
  <2> QED BY <2>2, <2>4, <2>5 DEF ReceivableBacked
<1>16. SalesBacked'
  BY <1>2, <1>10 DEF SalesBacked
<1>17. LedgerTypeOK'
  BY <1>2, <1>10, <1>12, <1>14, <1>15 DEF LedgerTypeOK
<1> QED BY <1>8, <1>9, <1>12, <1>14, <1>15, <1>16, <1>17 DEF Booked, Backed

-----------------------------------------------------------------------------
(***************************************************************************)
(* The books at the start, and every step of them.                         *)
(***************************************************************************)
LEMMA LedgerStarts == LedgerInit => LedgerInv
<1> SUFFICES ASSUME LedgerInit PROVE LedgerInv
  OBVIOUS
<1>1. /\ Init /\ BookInit
      /\ cash = [r \in Receipts |-> pay[r].amount - pay[r].refundable]
      /\ receivable = [i \in Invoices |-> Live(i)]
      /\ credits = [s \in Sources |-> Remaining(s)]
      /\ sales = [n \in Notes |-> IF noteStatus[n] = "issued" THEN NoteTotal[n] ELSE 0]
      /\ balance = Totals
  BY DEF LedgerInit, Init
<1>2. Safe /\ AllWhole
  BY <1>1, SafeInit, WholeInit DEF AllWhole
<1>3. /\ TypeOK /\ SourcesExact /\ Untouched
      /\ alloc \in [RowIds -> Row] /\ pay \in [Receipts -> Receipt]
  BY <1>2, Typed DEF Safe, CapacityKept, SourcesKept
<1>4. /\ \A i \in Invoices : status[i] = "issued"
      /\ \A n \in Notes : noteStatus[n] = IF n \in OldNotes THEN "issued" ELSE "absent"
      /\ \A a \in RowIds : alloc[a] = IF a \in OldRows
                                      THEN LiveRow(OldAmount[a], OldStamped(a)) ELSE NoRow
  BY <1>1 DEF BookInit
<1>5. ASSUME NEW a \in RowIds
      PROVE  /\ alloc[a].state \in {"absent", "live"}
             /\ alloc[a].state = "absent" => alloc[a] = NoRow
             /\ alloc[a].state # "absent" =>
                  alloc[a].amount > 0 /\ (alloc[a].stamped <=> a \notin OwnRows)
  <2>1. CASE a \in OldRows
    <3>1. PICK x, st : x = OldAmount[a] /\ st = OldStamped(a)
      OBVIOUS
    <3>2. alloc[a] = LiveRow(x, st)
      BY <1>4, <2>1, <3>1
    <3>3. alloc[a].state = "live" /\ alloc[a].amount = x /\ alloc[a].stamped = st
      BY <3>2 DEF LiveRow
    <3>4. x > 0
      BY <2>1, <3>1, BookShape
    <3>5. alloc[a].stamped <=> a \notin OwnRows
      BY <3>1, <3>3 DEF OldStamped, OwnRows
    <3> QED BY <3>3, <3>4, <3>5
  <2>2. CASE a \notin OldRows
    BY <1>4, <2>2 DEF NoRow
  <2> QED BY <2>1, <2>2
<1>6. RowsPlain
  BY <1>5 DEF RowsPlain
<1>7. Weights \in [RowIds -> Nat] /\ Amts \in [RowIds -> Nat]
  BY <1>3, WeightsTyped, AmtsTyped
<1>8. ASSUME NEW r \in Receipts PROVE Overpaid(r) >= 0 /\ Stranded(r) = 0
  <2>1. Overpaid(r) = pay[r].amount - Worth(Amts, OwnFrom(r))
    BY <1>3, OverpaidWorth
  <2>2. Worth(Amts, OwnFrom(r)) = Worth(Weights, OwnFrom(r))
    <3>1. \A a \in RowIds : (IF a \in OwnFrom(r) THEN Amts[a] ELSE 0)
                              = (IF a \in OwnFrom(r) THEN Weights[a] ELSE 0)
      BY <1>5 DEF Amts, Weights, Weight, NoRow
    <3> QED BY <3>1, WorthSame
  <2>3. /\ Worth(Weights, OwnFrom(r)) <= Worth(Weights, RowsFrom(r))
        /\ Worth(Weights, OwnFrom(r)) \in Nat
    <3>1. \A a \in RowIds : a \in OwnFrom(r) => a \in RowsFrom(r)
      BY DEF OwnFrom, RowsFrom
    <3> QED BY <1>7, <3>1, WorthWithin
  <2>4. Spent(r) <= pay[r].allocated /\ Spent(r) \in Nat /\ r \in Sources
    <3>1. r \in Sources
      BY DEF Sources
    <3>2. CASE Made(r)
      BY <1>3, <3>1, <3>2, LiveSpentTyped DEF SourcesExact
    <3>3. CASE ~Made(r)
      <4>1. \A a \in RowIds : SourceOf(a) = r => alloc[a].state # "live"
        BY <1>2, <3>3, BookShape DEF Safe, SourcesKept, RowsFunded
      <4>2. Spent(r) = 0
        BY <1>3, <3>1, <4>1, NothingSpent
      <4>3. pay[r].allocated \in Nat
        BY <1>3, ReceiptTyped
      <4> QED BY <3>1, <4>2, <4>3
    <3> QED BY <3>2, <3>3
  <2>5. /\ pay[r].allocated \in Nat /\ pay[r].unapplied \in Nat /\ pay[r].refundable \in Nat
        /\ pay[r].amount \in Nat
        /\ pay[r].allocated + pay[r].unapplied + pay[r].refundable = pay[r].amount
    BY <1>2, <1>3, ReceiptTyped DEF AllWhole, Whole
  <2>6. Overpaid(r) >= 0
    BY <2>1, <2>2, <2>3, <2>4, <2>5, SpentWorth
  <2>7. Stranded(r) = Worth(Weights, OwnFrom(r) \cap Closed)
    BY <1>3, StrandedWorth
  <2>8. \A a \in RowIds : a \in OwnFrom(r) \cap Closed => Weights[a] = 0
    BY <1>4, RowIdParts DEF Closed
  <2>9. Worth(Weights, OwnFrom(r) \cap Closed) = 0
    BY <1>7, <2>8, WorthZero
  <2> QED BY <2>6, <2>7, <2>9
<1>9. ASSUME NEW n \in Notes, noteStatus[n] # "issued" PROVE applied[n] = 0
  <2>1. n \notin OldNotes /\ n \in Sources /\ n \notin Receipts
    BY <1>4, <1>9, BookShape DEF Sources
  <2>2. ASSUME NEW a \in RowIds, SourceOf(a) = n PROVE alloc[a].state # "live"
    <3>1. CASE a \in OldRows
      BY <2>1, <2>2, <3>1, BookShape DEF Receipts
    <3>2. CASE a \notin OldRows
      BY <1>4, <3>2 DEF NoRow
    <3> QED BY <3>1, <3>2
  <2>3. Spent(n) = 0
    BY <1>3, <2>1, <2>2, NothingSpent
  <2> QED BY <1>3, <2>3 DEF SourcesExact
<1>10. SourcesPlain /\ SalesBacked
  BY <1>1, <1>2, <1>8, <1>9 DEF SourcesPlain, SalesBacked, AllWhole
<1>11. LedgerTypeOK
  <2>1. \A r \in Receipts : pay[r].amount - pay[r].refundable \in Int
    BY <1>3, ReceiptTyped
  <2>2. cash \in [Receipts -> Int]
    BY <1>1, <2>1
  <2>3. receivable \in [Invoices -> Int]
    BY <1>1, <1>3, LiveSpentTyped
  <2>4. credits \in [Sources -> Int]
    <3>1. \A s \in Sources : Remaining(s) \in Int
      BY <1>3, Offered
    <3> QED BY <1>1, <3>1
  <2>5. sales \in [Notes -> Int]
    <3>1. \A n \in Notes : (IF noteStatus[n] = "issued" THEN NoteTotal[n] ELSE 0) \in Int
      BY BookShape
    <3> QED BY <1>1, <3>1
  <2> QED BY <1>1, <2>2, <2>3, <2>4, <2>5 DEF LedgerTypeOK
<1>12. CreditsBacked
  BY <1>1 DEF CreditsBacked
<1>13. CashBacked
  <2>1. ASSUME NEW r \in Receipts PROVE cash[r] = pay[r].amount - pay[r].refundable - Stranded(r)
    <3>1. pay[r].amount \in Nat /\ pay[r].refundable \in Nat
      BY <1>3, ReceiptTyped
    <3>2. cash[r] = pay[r].amount - pay[r].refundable
      BY <1>1
    <3> QED BY <1>8, <3>1, <3>2
  <2> QED BY <2>1 DEF CashBacked
<1>14. ReceivableBacked
  BY <1>1, <1>4 DEF ReceivableBacked
<1> QED BY <1>2, <1>6, <1>10, <1>11, <1>12, <1>13, <1>14 DEF LedgerInv, Booked, Backed

\* Every workflow keeps the books exact.
LEMMA LedgerStep == LedgerInv /\ [LedgerNext]_ledgerVars => LedgerInv'
<1> SUFFICES ASSUME LedgerInv, [LedgerNext]_ledgerVars PROVE LedgerInv'
  OBVIOUS
<1>1. [Next]_vars
  BY DEF LedgerNext, Next, ledgerVars
<1>2. Safe'
  BY <1>1, SafeStep DEF LedgerInv
<1>3. Booked' /\ Backed'
  <2>1. CASE UNCHANGED ledgerVars
    BY <2>1, StutterBooks
  <2>2. CASE LedgerNext
    BY <2>2, RecordBooks, ApplyBooks, ReverseBooks, CancelBooks, RefundBooks, IssueBooks,
       CancelNoteBooks DEF LedgerNext
  <2> QED BY <2>1, <2>2
<1> QED BY <1>2, <1>3 DEF LedgerInv

\* Whatever is recorded, applied, reversed, cancelled, refunded, issued and withdrawn, in any
\* order, the ledger is exact: the liability booked for a source is the credit it offers, the
\* cash of a receipt what came in less what is owed back, the receivable of an invoice what
\* settles it, nothing is compensated twice, debits are credits, and the customer's balance
\* is the one the ledger gives.
THEOREM LedgerExactAlways == LedgerSpec => []LedgerExact
<1>1. LedgerInv => LedgerExact
  BY BalanceFollows DEF LedgerInv, Backed, LedgerExact
<1> QED BY <1>1, LedgerStarts, LedgerStep, PTL DEF LedgerSpec

=============================================================================
