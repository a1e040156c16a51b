---------------------------- MODULE SettlementInv ----------------------------
(***************************************************************************)
(* The inductive invariant behind NoOverSettlement, CapacityCovered, what  *)
(* is said of credit notes, and the refinement PromiseKept.                *)
(* It says who may still change what a counter measures: which request is  *)
(* entitled to reopen an invoice it closed, which rows a request is still  *)
(* to write, and how much of its reservation each request must account     *)
(* for.                                                                    *)
(***************************************************************************)
EXTENDS Settlement

ReceiptOnly == {"receive", "allocate"}
ApplyOnly == {"planCredit", "draw", "credit", "stamp", "undo"}
Claiming == {"readBalance", "baseline", "raise", "claim"}
Closing == {"recheck", "reopen"}
Sweeps == {"list", "sweep", "cross", "crossRoom", "refund", "restore", "withdraw", "take"}
Reversing == {"giveSource", "giveRoom"}
OnRow == {"mark", "giveSource", "giveRoom", "crossRoom", "refund", "restore"}
OnNote == {"claimRoom", "issue", "releaseRoom", "closeNote", "stranded"}

\* Each label belongs to the kinds of request that reach it.
KindOf(p) ==
  /\ pc[p] \in ReceiptOnly => job[p].kind = "receipt"
  /\ pc[p] \in ApplyOnly => job[p].kind = "apply"
  /\ pc[p] \in Claiming \cup {"release"} => job[p].kind \in {"receipt", "apply"}
  /\ pc[p] = "mark" => job[p].kind = "reverse"
  /\ pc[p] \in Reversing => job[p].kind \in {"reverse", "cancel"}
  /\ pc[p] \in {"close"} \cup Closing \cup Sweeps => job[p].kind = "cancel"

\* The request's inputs are there when they are used.
Inputs(p) ==
  /\ pc[p] = "idle" => job[p].kind = "none" /\ rows[p] = {}
  /\ pc[p] # "idle" => job[p].targets # <<>>
  /\ job[p].kind = "apply" => \A i \in Invoices : IsTarget(p, i) => i = Target(p)
  /\ pc[p] \in OnRow => row[p] \in RowIds
  /\ job[p].kind = "cancel" /\ pc[p] \in OnRow => InvoiceOf(row[p]) = Target(p)
  /\ job[p].kind = "cancel" => \A a \in rows[p] : InvoiceOf(a) = Target(p)
  /\ pc[p] \in OnNote => job[p].note \in Notes
  /\ pc[p] = "take" => holding[p] # {}

Shape == TypeOK /\ \A p \in Requests : KindOf(p) /\ Inputs(p)

\* p has closed i and may still reopen it ...
Closes(p, i) == pc[p] \in Closing /\ Target(p) = i
\* ... or has gone on to unwind it, which is for good.
Unwinds(p, i) ==
  /\ job[p].kind = "cancel" /\ Target(p) = i
  /\ pc[p] \in Sweeps \cup Reversing
Open(i) == status[i] = "issued" \/ \E p \in Requests : Closes(p, i)

Ownership == \A p \in Requests, i \in Invoices :
  /\ Closes(p, i) \/ Unwinds(p, i) => status[i] = "cancelled"
  /\ Closes(p, i) => \A q \in Requests \ {p} : ~Closes(q, i) /\ ~Unwinds(q, i)

\* Rows: a row is written once, by its writer; only the sweep of an invoice
\* that stays cancelled reverses a row that carries no ledger pair.
Unwritten == {"idle"} \cup Claiming \cup {"planCredit", "receive"}
Fresh ==
  /\ \A a \in RowIds :
       /\ alloc[a].state # "absent" \/ alloc[a].stamped => alloc[a].amount > 0
       /\ alloc[a].state = "reversed" /\ ~alloc[a].stamped => ~Open(InvoiceOf(a))
  /\ \A p \in Requests :
       /\ pc[p] \in Unwritten =>
            \A a \in RowIds : Writer(a) = p => alloc[a].amount = 0
       /\ \A i \in claimed[p] : job[p].kind = "receipt" => alloc[Own(p, i, p)].amount = 0
       /\ job[p].kind = "apply" /\ pc[p] \in {"draw", "credit"} =>
            \A a \in RowIds : Writer(a) = p => ~alloc[a].stamped
       /\ pc[p] \in OnRow => alloc[row[p]].amount > 0
       /\ pc[p] = "mark" => alloc[row[p]].stamped

\* What p must still account for of its reservation.
Pending(p, i) == [s \in Sources |-> IF alloc[Own(p, i, s)].amount = 0 THEN plan[p][s] ELSE 0]
\* The rows p wrote and has not deleted; a reversal accounts for those it flagged.
OwnKept(p, i) == [s \in Sources |->
  IF alloc[Own(p, i, s)].state # "absent" THEN alloc[Own(p, i, s)].amount ELSE 0]
Applying == {"draw", "credit", "stamp", "undo", "release"}
Crossing == {"crossRoom", "refund", "restore"}

\* A request claims nothing before it has planned, and only what it planned.
Reserves(p) ==
  /\ \A i \in Invoices : held[p][i] >= 0
  /\ \A i \in claimed[p] : share[p][i] > 0
  /\ pc[p] \in {"idle", "readBalance"} =>
       claimed[p] = {} /\ drawn[p] = {} /\ \A i \in Invoices : share[p][i] = 0

\* A receipt accounts for each claim until its row is written.
ReceiptHolds(p) ==
  job[p].kind = "receipt" => \A i \in claimed[p] : held[p][i] = share[p][i]

\* An application accounts for its claim, less the rows it has on the invoice.
ApplyHolds(p) ==
  job[p].kind = "apply" =>
    LET i == Target(p) IN
    /\ claimed[p] \subseteq {i}
    /\ \A j \in Invoices : share[p][j] > 0 => j = i
    /\ pc[p] \in Claiming \cup {"planCredit"} => claimed[p] = {} /\ drawn[p] = {}
    /\ pc[p] \in {"planCredit", "baseline", "raise", "claim"} => share[p][i] = job[p].amount
    /\ pc[p] \in {"baseline", "raise", "claim"} => Sum(plan[p]) = job[p].amount
    /\ pc[p] \in {"draw", "credit"} =>
         held[p][i] = Sum(Pending(p, i)) /\ \A s \in drawn[p] : plan[p][s] > 0
    /\ pc[p] \in Applying /\ Open(i) /\ i \notin Spoiled =>
         held[p][i] + Sum(OwnKept(p, i)) = share[p][i]
    /\ pc[p] = "release" => \A s \in Sources : alloc[Own(p, i, s)].state = "absent"

\* A reversal accounts for the row it flagged until its reservation is given back.
ReverseHolds(p) ==
  pc[p] \in Reversing \cup Crossing =>
    held[p][InvoiceOf(row[p])] = alloc[row[p]].amount

HoldsOf(p) == Reserves(p) /\ ReceiptHolds(p) /\ ApplyHolds(p) /\ ReverseHolds(p)
Holds == \A p \in Requests : HoldsOf(p)

\* Of an invoice whose reservation was released twice nothing more is claimed.
Capacity ==
  /\ \A p \in Requests, i \in Invoices : i \in Spoiled \/ seen[p][i] <= Total[i]
  /\ \A p \in Requests, i \in Invoices :
       pc[p] = "raise" /\ IsNext(p, i, ToClaim(p)) => stored[p] < seen[p][i]
  /\ \A i \in Invoices :
       /\ settled[i] # Missing
       /\ i \in Spoiled \/ Live(i) + Held(i) <= Total[i]
       /\ i \in Spoiled \/ (Open(i) => Live(i) + Held(i) <= settled[i] /\ settled[i] <= Total[i])

-----------------------------------------------------------------------------
(***************************************************************************)
(* Credit notes.  What a note gave up is what its live rows spend and what *)
(* requests have drawn and not yet, or no longer, backed by such a row;    *)
(* the room an invoice is short of is that of its notes and of requests    *)
(* that claimed room and have not written, or have already closed, a note. *)
(***************************************************************************)
Drawing == {"draw", "credit", "stamp", "undo"}
DrawnRow(p, s) == alloc[Own(p, Target(p), s)]

\* What p has drawn from note n and no live row accounts for.
Due(p, n) ==
  IF pc[p] \in Drawing
  THEN IF n \in drawn[p] /\ DrawnRow(p, n).state = "absent" THEN plan[p][n] ELSE 0
  ELSE IF pc[p] = "giveSource" /\ SourceOf(row[p]) = n THEN alloc[row[p]].amount ELSE 0

\* An application writes the row of a source right after drawing from it, and
\* nobody else touches the rows it wrote for notes before they are stamped: the
\* only rows without a ledger pair that a sweep reverses are those of receipts.
Draws(p) ==
  /\ pc[p] \in Drawing => \A n \in Notes :
       /\ DrawnRow(p, n).state # "absent" =>
            n \in drawn[p] /\ DrawnRow(p, n).amount = plan[p][n]
       /\ DrawnRow(p, n).state = "reversed" => DrawnRow(p, n).stamped
  /\ pc[p] \in {"draw", "credit", "stamp"} => \A n \in Notes :
       DrawnRow(p, n).amount > 0 => DrawnRow(p, n).state # "absent"
  /\ pc[p] \in {"draw", "stamp"} => \A s \in drawn[p] : DrawnRow(p, s).amount > 0
  /\ pc[p] = "credit" => \A s, t \in drawn[p] :
       DrawnRow(p, s).amount = 0 /\ DrawnRow(p, t).amount = 0 => s = t
  /\ pc[p] \in {"cross"} \cup Crossing => \A a \in rows[p] : SourceOf(a) \in Receipts
  /\ pc[p] \in Crossing => SourceOf(row[p]) \in Receipts

NotesKept == \A n \in Notes \ Refilled :
  /\ applied[n] = Spent(n) + Sum([p \in Requests |-> Due(p, n)])
  /\ applied[n] <= NoteTotal[n]
  /\ noteStatus[n] = "cancelled" => applied[n] = 0

\* The note a request works on, and how far it is.
NoteJob(p) ==
  /\ job[p].kind \in {"note", "cancelNote"} =>
       job[p].note \in Notes /\ Target(p) = NoteInvoice[job[p].note]
  /\ pc[p] \in {"claimRoom", "issue"} =>
       job[p].kind = "note" /\ noteStatus[job[p].note] = "absent"
  /\ pc[p] \in {"closeNote", "stranded"} => job[p].kind = "cancelNote"
  /\ pc[p] = "stranded" =>
       /\ noteStatus[job[p].note] = "cancelled"
       /\ \A q \in Requests \ {p} : pc[q] = "stranded" => job[q].note # job[p].note
  /\ pc[p] = "releaseRoom" => job[p].kind \in {"note", "cancelNote"}
  /\ job[p].kind = "note" => \A q \in Requests \ {p} :
       job[q].kind = "note" => job[q].note # job[p].note

\* Room p has claimed for a note not written, or of a note it has closed.
RoomDue(p, i) ==
  IF /\ pc[p] \in {"issue", "stranded", "releaseRoom"} /\ Target(p) = i
  THEN NoteTotal[job[p].note] ELSE 0

\* A request that gives, or gave, back the room of a note that it wrote.
GaveUp(p) ==
  /\ job[p].kind = "note" /\ pc[p] \in {"releaseRoom", "failed"}
  /\ noteStatus[job[p].note] # "absent"

RoomOf(i) == [n \in Notes |-> IF n \in LiveNotes(i) THEN NoteTotal[n] ELSE 0]
RoomKept ==
  (\A p \in Requests : ~GaveUp(p)) => \A i \in Invoices :
    credited[i] = Sum(RoomOf(i)) + Sum([p \in Requests |-> RoomDue(p, i)])

NotesInv ==
  /\ Shape /\ Ownership /\ Fresh /\ Holds
  /\ \A p \in Requests : Draws(p) /\ NoteJob(p)
  /\ NotesKept /\ RoomKept

-----------------------------------------------------------------------------
(***************************************************************************)
(* Receipts.  Each is whole, a request that has not written its receipt    *)
(* has none, and the receipts a cancellation is to withdraw from are there.*)
(***************************************************************************)
Purses ==
  /\ \A r \in Receipts : Whole(pay[r])
  /\ \A p \in Requests : pc[p] \in Unwritten => pay[p] = NoReceipt
  /\ \A p \in Requests : \A r \in holding[p] : Made(r)

IInv == NotesInv /\ Purses /\ Capacity

=============================================================================
