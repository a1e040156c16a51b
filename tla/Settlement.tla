----------------------------- MODULE Settlement -----------------------------
(***************************************************************************)
(* Receipts, credit applications, reversals, credit notes and              *)
(* cancellations running without a database transaction (the fallback of   *)
(* utils/transaction.js, where work(undefined) runs every round trip on    *)
(* its own): one action per round trip, and any two requests interleave    *)
(* between round trips.  A request that never takes another step has       *)
(* crashed; nothing rolls back what it wrote.                              *)
(*                                                                         *)
(* Left out: the figures recomputed from the rows after every write        *)
(* (paidAmount, creditApplied, balanceDue, CustomerBalance), stock, ledger *)
(* amounts, events.  Of the ledger only the pair stamped with an           *)
(* allocation is kept, because the code reads it to tell a credit          *)
(* application from a receipt's own allocation.                            *)
(***************************************************************************)
EXTENDS SettlementBook

CONSTANTS
  TargetLists, \* invoice lists a receipt may name, a set of sequences
  Amounts,     \* amounts a request may carry
  Kinds,       \* kinds of request that may start
  Failing,     \* whether a database write may throw
  MaxTries,    \* attempts of a compare-and-set loop (3 in the code)
  MaxPasses    \* passes of the cancellation sweep (3 in the code)

ASSUME RequestShape ==
  /\ TargetLists \subseteq Seq(Invoices)
  /\ \A T \in TargetLists : T # <<>>
  /\ Amounts \subseteq Nat \ {0}
  /\ MaxTries \in Nat \ {0} /\ MaxPasses \in Nat \ {0}

VARIABLES
  pc,      \* next round trip of each request
  job,     \* what was asked: its invoices, amount, note, allocation
  seen,    \* live total of an invoice as this request read it
  share,   \* capacity the request reserves on an invoice
  plan,    \* amount an application draws from a source
  claimed, \* reservations taken and not yet backed by a row (claims minus keep)
  drawn,   \* sources an application has drawn from
  stored,  \* the value a compare-and-set loop read
  tries,   \* attempts of that loop
  rows,    \* rows a sweep listed and has not visited
  row,     \* the row being reversed
  passes,  \* sweep passes started
  found,   \* whether this pass reversed or refunded anything
  holding, \* receipts left to withdraw from
  held,    \* history: capacity that this request's unfinished work accounts for
  twice    \* history: deleted rows that a reversal had already given back

local == <<job, seen, share, plan, claimed, drawn, stored, tries, rows, row,
           passes, found, holding>>
history == <<held, twice>>
vars == <<book, pc, local, history>>

NoRowId == <<"none", "none", "none">>
NoJob == [kind |-> "none", targets |-> <<>>, amount |-> 0, note |-> "none"]
Job == [kind : {"none", "receipt", "apply", "reverse", "cancel", "note", "cancelNote"},
        targets : Seq(Invoices), amount : Nat, note : Notes \cup {"none"}]

Target(p) == job[p].targets[1]
IsTarget(p, i) == \E k \in DOMAIN job[p].targets : job[p].targets[k] = i
LastTarget(p) == job[p].targets[Len(job[p].targets)]

\* i is the first invoice of the request's list that is in S
IsNext(p, i, S) ==
  /\ i \in S
  /\ \E k \in DOMAIN job[p].targets :
       /\ job[p].targets[k] = i
       /\ \A j \in 1..(k - 1) : job[p].targets[j] \notin S

ToRead(p) == {i \in Invoices : IsTarget(p, i) /\ seen[p][i] = Missing}
ToClaim(p) == {i \in Invoices : share[p][i] > 0 /\ i \notin claimed[p]}
Own(p, i, s) == <<p, i, s>>
ToCredit(p) == {s \in Sources : plan[p][s] > 0 /\ s \notin drawn[p]}

Goto(p, label) == pc' = [pc EXCEPT ![p] = label]
Hold(p, i, x) == held' = [held EXCEPT ![p][i] = x] /\ UNCHANGED twice

Init ==
  /\ BookInit
  /\ pc = [p \in Requests |-> "idle"]
  /\ job = [p \in Requests |-> NoJob]
  /\ seen = [p \in Requests |-> [i \in Invoices |-> Missing]]
  /\ share = [p \in Requests |-> [i \in Invoices |-> 0]]
  /\ plan = [p \in Requests |-> [s \in Sources |-> 0]]
  /\ claimed = [p \in Requests |-> {}]
  /\ drawn = [p \in Requests |-> {}]
  /\ stored = [p \in Requests |-> 0]
  /\ tries = [p \in Requests |-> 0]
  /\ rows = [p \in Requests |-> {}]
  /\ row = [p \in Requests |-> NoRowId]
  /\ passes = [p \in Requests |-> 0]
  /\ found = [p \in Requests |-> FALSE]
  /\ holding = [p \in Requests |-> {}]
  /\ held = [p \in Requests |-> [i \in Invoices |-> 0]]
  /\ twice = {}

Start(p, kind, targets, amount, note, label) ==
  /\ kind \in Kinds
  /\ pc[p] = "idle"
  /\ Goto(p, label)
  /\ job' = [job EXCEPT ![p] = [kind |-> kind, targets |-> targets,
                                amount |-> amount, note |-> note]]

(***************************************************************************)
(* Recording a receipt: recordInvoicePaymentWorkflow (one invoice) and     *)
(* recordCustomerPaymentWorkflow (a list of them) are the same steps.      *)
(***************************************************************************)
StartReceipt(p, targets, x) ==
  /\ Start(p, "receipt", targets, x, "none", "readBalance")
  /\ UNCHANGED <<book, seen, share, plan, claimed, drawn, stored, tries, rows, row,
                 passes, found, holding, history>>

\* Each target takes what the earlier ones leave, up to its balance as read.
Balance(i, reads) == IF reads[i] < Total[i] THEN Total[i] - reads[i] ELSE 0
Left(p, reads, k) == \* what is left of the amount before the k-th target
  LET earlier == Sum([j \in 1..(k - 1) |-> Balance(job[p].targets[j], reads)])
  IN  IF earlier < job[p].amount THEN job[p].amount - earlier ELSE 0
GreedyShare(p, reads, i) ==
  LET k == CHOOSE n \in DOMAIN job[p].targets : job[p].targets[n] = i
  IN  IF IsTarget(p, i) THEN Least(Balance(i, reads), Left(p, reads, k)) ELSE 0
Unapplied(p, reads) == Left(p, reads, Len(job[p].targets) + 1)

\* The last read plans the receipt; an overpayment is refused when the caller
\* passed allowCredit: false.
ReadBalance(p, i) ==
  /\ pc[p] = "readBalance" /\ job[p].kind = "receipt"
  /\ IsNext(p, i, ToRead(p))
  /\ IF status[i] = "cancelled"
     THEN Goto(p, "failed") /\ UNCHANGED <<seen, share>>
     ELSE LET reads == [seen[p] EXCEPT ![i] = Live(i)]
              shares == [j \in Invoices |-> GreedyShare(p, reads, j)]
          IN  /\ seen' = [seen EXCEPT ![p] = reads]
              /\ IF ToRead(p) # {i}
                 THEN UNCHANGED <<share, pc>>
                 ELSE /\ share' = [share EXCEPT ![p] = shares]
                      /\ \E allowCredit \in BOOLEAN :
                           Goto(p, IF Unapplied(p, reads) > 0 /\ ~allowCredit
                                   THEN "failed"
                                   ELSE IF \A j \in Invoices : shares[j] = 0
                                        THEN "receive" ELSE "baseline")
  /\ UNCHANGED <<book, job, plan, claimed, drawn, stored, tries, rows, row, passes,
                 found, holding, history>>

\* Mutant: the baseline is rewritten whenever it differs from the live total.
BaselineRewrites(p, i) ==
  /\ pc[p] = "baseline"
  /\ IsNext(p, i, ToClaim(p))
  /\ IF settled[i] = seen[p][i]
     THEN Goto(p, "claim") /\ UNCHANGED stored
     ELSE Goto(p, "raise") /\ stored' = [stored EXCEPT ![p] = settled[i]]
  /\ UNCHANGED <<book, job, seen, share, plan, claimed, drawn, tries, rows, row,
                 passes, found, holding, history>>

\* rehydrateSettlementBaseline: read the counter ...
Baseline(p, i) ==
  /\ pc[p] = "baseline"
  /\ IsNext(p, i, ToClaim(p))
  /\ IF settled[i] # Missing /\ settled[i] >= seen[p][i]
     THEN Goto(p, "claim") /\ UNCHANGED stored
     ELSE Goto(p, "raise") /\ stored' = [stored EXCEPT ![p] = settled[i]]
  /\ UNCHANGED <<book, job, seen, share, plan, claimed, drawn, tries, rows, row,
                 passes, found, holding, history>>

\* ... and raise it to the live total that was read, if it has not moved.
Raise(p, i) ==
  /\ pc[p] = "raise"
  /\ IsNext(p, i, ToClaim(p))
  /\ IF settled[i] = stored[p]
     THEN /\ settled' = [settled EXCEPT ![i] = seen[p][i]]
          /\ Goto(p, "claim")
          /\ tries' = [tries EXCEPT ![p] = 0]
     ELSE /\ UNCHANGED settled
          /\ IF tries[p] + 1 < MaxTries
             THEN Goto(p, "baseline") /\ tries' = [tries EXCEPT ![p] = @ + 1]
             ELSE Goto(p, "claim") /\ tries' = [tries EXCEPT ![p] = 0]
  /\ UNCHANGED <<status, credited, noteVars, pay, alloc, job, seen, share, plan,
                 claimed, drawn, stored, rows, row, passes, found, holding, history>>

Claim(p, i) ==
  /\ pc[p] = "claim"
  /\ IsNext(p, i, ToClaim(p))
  /\ IF CanClaimSettlement(i, share[p][i])
     THEN /\ ClaimSettlement(i, share[p][i])
          /\ claimed' = [claimed EXCEPT ![p] = @ \cup {i}]
          /\ Hold(p, i, share[p][i])
          /\ Goto(p, IF ToClaim(p) # {i} THEN "baseline"
                     ELSE IF job[p].kind = "receipt" THEN "receive" ELSE "draw")
     ELSE /\ Goto(p, IF claimed[p] = {} THEN "failed" ELSE "release")
          /\ UNCHANGED <<settled, claimed, history>>
  /\ UNCHANGED <<status, credited, noteVars, pay, alloc, job, seen, share, plan,
                 drawn, stored, tries, rows, row, passes, found, holding>>

Receive(p) ==
  /\ pc[p] = "receive"
  /\ pay' = [pay EXCEPT ![p] =
               NewReceipt(LastTarget(p), job[p].amount,
                          job[p].amount - Unapplied(p, seen[p]))]
  /\ Goto(p, IF claimed[p] = {} THEN "done" ELSE "allocate")
  /\ UNCHANGED <<invoiceVars, noteVars, alloc, local, history>>

\* The reservation becomes a row: it is no longer among those to hand back.
Allocate(p, i) ==
  /\ pc[p] = "allocate"
  /\ IsNext(p, i, claimed[p])
  /\ alloc' = [alloc EXCEPT ![Own(p, i, p)] = LiveRow(share[p][i], FALSE)]
  /\ claimed' = [claimed EXCEPT ![p] = @ \ {i}]
  /\ Hold(p, i, 0)
  /\ Goto(p, IF claimed[p] # {i} THEN "allocate" ELSE "done")
  /\ UNCHANGED <<invoiceVars, noteVars, pay, job, seen, share, plan, drawn, stored,
                 tries, rows, row, passes, found, holding>>

\* claims.release: hand back one reservation whose row never landed.
Release(p, i) ==
  /\ pc[p] = "release"
  /\ i \in claimed[p]
  /\ ReleaseSettlement(i, share[p][i])
  /\ claimed' = [claimed EXCEPT ![p] = @ \ {i}]
  /\ Hold(p, i, 0)
  /\ Goto(p, IF claimed[p] # {i} THEN "release" ELSE "failed")
  /\ UNCHANGED <<status, credited, noteVars, pay, alloc, job, seen, share, plan,
                 drawn, stored, tries, rows, row, passes, found, holding>>

(***************************************************************************)
(* Applying customer credit: applyCreditWorkflow.                          *)
(***************************************************************************)
StartApply(p, i, x) ==
  /\ Start(p, "apply", <<i>>, x, "none", "readBalance")
  /\ UNCHANGED <<book, seen, share, plan, claimed, drawn, stored, tries, rows, row,
                 passes, found, holding, history>>

ReadForCredit(p) ==
  LET i == Target(p) IN
  /\ pc[p] = "readBalance" /\ job[p].kind = "apply"
  /\ IF status[i] = "cancelled" \/ Live(i) + job[p].amount > Total[i]
     THEN Goto(p, "failed") /\ UNCHANGED <<seen, share>>
     ELSE /\ seen' = [seen EXCEPT ![p][i] = Live(i)]
          /\ share' = [share EXCEPT ![p][i] = job[p].amount]
          /\ Goto(p, "planCredit")
  /\ UNCHANGED <<book, job, plan, claimed, drawn, stored, tries, rows, row, passes,
                 found, holding, history>>

PlanCredit(p) ==
  /\ pc[p] = "planCredit"
  /\ IF Sum([s \in Sources |-> Remaining(s)]) < job[p].amount
     THEN Goto(p, "failed") /\ UNCHANGED plan
     ELSE /\ Goto(p, "baseline")
          /\ \E draws \in [Sources -> 0..job[p].amount] :
               /\ IsGreedyPlan(draws, job[p].amount)
               /\ plan' = [plan EXCEPT ![p] = draws]
  /\ UNCHANGED <<book, job, seen, share, claimed, drawn, stored, tries, rows, row,
                 passes, found, holding, history>>

\* Claim the next source, oldest first.
DrawCredit(p, s) ==
  /\ pc[p] = "draw"
  /\ s \in ToCredit(p)
  /\ \A t \in ToCredit(p) : Age[s] <= Age[t]
  /\ IF CanDraw(s, plan[p][s])
     THEN /\ Draw(s, plan[p][s])
          /\ drawn' = [drawn EXCEPT ![p] = @ \cup {s}]
          /\ Goto(p, "credit")
     ELSE Goto(p, "undo") /\ UNCHANGED <<applied, pay, drawn>>
  /\ UNCHANGED <<invoiceVars, noteStatus, alloc, job, seen, share, plan, claimed,
                 stored, tries, rows, row, passes, found, holding, history>>

\* Write the row of the source just claimed.
CreditRow(p, s) ==
  LET i == Target(p) IN
  /\ pc[p] = "credit"
  /\ s \in drawn[p]
  /\ alloc[Own(p, i, s)].amount = 0
  /\ alloc' = [alloc EXCEPT ![Own(p, i, s)] = LiveRow(plan[p][s], FALSE)]
  /\ Hold(p, i, held[p][i] - plan[p][s])
  /\ Goto(p, IF ToCredit(p) = {} THEN "stamp" ELSE "draw")
  /\ UNCHANGED <<invoiceVars, noteVars, pay, local>>

\* createLedgerEntries saves the entries one after another (create with ordered),
\* oldest source first: from the first of its two entries on, a row is taken for
\* a credit application and may be reversed, while the rest is still to be saved.
Unstamped(p) == {s \in drawn[p] : LET a == Own(p, Target(p), s) IN
                   alloc[a].amount > 0 /\ ~alloc[a].stamped}
Stamp(p, s) ==
  LET a == Own(p, Target(p), s) IN
  /\ pc[p] = "stamp"
  /\ s \in Unstamped(p)
  /\ \A t \in Unstamped(p) : Age[s] <= Age[t]
  /\ alloc' = [alloc EXCEPT ![a].stamped = TRUE]
  /\ UNCHANGED <<invoiceVars, noteVars, pay, pc, local, history>>

\* The last entry is saved.
EndApply(p) ==
  /\ pc[p] = "stamp" /\ Unstamped(p) = {}
  /\ Goto(p, "done")
  /\ UNCHANGED <<book, local, history>>

\* deleteSettlementAllocations, one document at a time: a deleted row keeps its
\* amount here only because another request may still hold a copy of it.  The
\* catch gives back what it drew and claimed for every row, those included that
\* were stamped and reversed while the entries were being saved.
Undo(p, s) ==
  LET i == Target(p)  a == Own(p, i, s) IN
  /\ pc[p] = "undo"
  /\ alloc[a].state # "absent"
  /\ alloc' = [alloc EXCEPT ![a].state = "absent"]
  /\ held' = [held EXCEPT ![p][i] =
                @ + IF alloc[a].state = "live" THEN alloc[a].amount ELSE 0]
  /\ twice' = IF alloc[a].state = "reversed" /\ alloc[a].stamped
              THEN twice \cup {a} ELSE twice
  /\ UNCHANGED <<invoiceVars, noteVars, pay, pc, local>>

\* Give one claimed source back, then the reservation.
GiveBackDrawn(p, s) ==
  /\ pc[p] = "undo"
  /\ \A t \in Sources : alloc[Own(p, Target(p), t)].state = "absent"
  /\ s \in drawn[p]
  /\ IF CanGiveBack(s, plan[p][s]) THEN GiveBack(s, plan[p][s])
                                   ELSE UNCHANGED <<applied, pay>>
  /\ drawn' = [drawn EXCEPT ![p] = @ \ {s}]
  /\ Goto(p, IF drawn[p] = {s} THEN "release" ELSE "undo")
  /\ UNCHANGED <<invoiceVars, noteStatus, alloc, job, seen, share, plan, claimed,
                 stored, tries, rows, row, passes, found, holding, history>>

UndoNothing(p) ==
  /\ pc[p] = "undo"
  /\ \A t \in Sources : alloc[Own(p, Target(p), t)].state = "absent"
  /\ drawn[p] = {}
  /\ Goto(p, "release")
  /\ UNCHANGED <<book, local, history>>

(***************************************************************************)
(* Reversing one application: reverseCreditApplicationWorkflow, and        *)
(* reverseOneApplication, which the cancellation sweep shares.             *)
(***************************************************************************)
StartReverse(p, a) ==
  /\ alloc[a].state = "live" /\ alloc[a].stamped
  /\ status[InvoiceOf(a)] # "cancelled"
  /\ Start(p, "reverse", <<InvoiceOf(a)>>, 0, "none", "mark")
  /\ row' = [row EXCEPT ![p] = a]
  /\ UNCHANGED <<book, seen, share, plan, claimed, drawn, stored, tries, rows,
                 passes, found, holding, history>>

\* Mutant: marking a row reversed without asking whether it still is live.
MarkBlindly(p) ==
  LET a == row[p] IN
  /\ pc[p] = "mark"
  /\ alloc' = [alloc EXCEPT ![a].state = "reversed"]
  /\ Hold(p, InvoiceOf(a), alloc[a].amount)
  /\ Goto(p, "giveSource")
  /\ UNCHANGED <<invoiceVars, noteVars, pay, local>>

Mark(p) ==
  LET a == row[p] IN
  /\ pc[p] = "mark"
  /\ IF alloc[a].state = "live"
     THEN /\ alloc' = [alloc EXCEPT ![a].state = "reversed"]
          /\ Hold(p, InvoiceOf(a), alloc[a].amount)
          /\ Goto(p, "giveSource")
     ELSE Goto(p, "done") /\ UNCHANGED <<alloc, history>>
  /\ UNCHANGED <<invoiceVars, noteVars, pay, local>>

GiveSource(p) ==
  LET a == row[p] IN
  /\ pc[p] = "giveSource"
  /\ IF CanGiveBack(SourceOf(a), alloc[a].amount)
     THEN GiveBack(SourceOf(a), alloc[a].amount) /\ Goto(p, "giveRoom")
     ELSE Goto(p, "failed") /\ UNCHANGED <<applied, pay>>
  /\ UNCHANGED <<invoiceVars, noteStatus, alloc, local, history>>

GiveRoom(p) ==
  LET a == row[p] IN
  /\ pc[p] = "giveRoom"
  /\ ReleaseSettlement(InvoiceOf(a), alloc[a].amount)
  /\ Hold(p, InvoiceOf(a), 0)
  /\ Goto(p, IF job[p].kind = "reverse" THEN "done" ELSE "sweep")
  /\ UNCHANGED <<status, credited, noteVars, pay, alloc, local>>

(***************************************************************************)
(* Cancelling an invoice: cancelInvoiceWorkflow.                           *)
(***************************************************************************)
StartCancel(p, i) ==
  /\ status[i] # "cancelled" /\ LiveNotes(i) = {}
  /\ Start(p, "cancel", <<i>>, 0, "none", "close")
  /\ UNCHANGED <<book, seen, share, plan, claimed, drawn, stored, tries, rows, row,
                 passes, found, holding, history>>

Close(p) ==
  LET i == Target(p) IN
  /\ pc[p] = "close"
  /\ IF status[i] # "cancelled"
     THEN status' = [status EXCEPT ![i] = "cancelled"] /\ Goto(p, "recheck")
     ELSE UNCHANGED status /\ Goto(p, "done")
  /\ UNCHANGED <<settled, credited, noteVars, pay, alloc, local, history>>

Recheck(p) ==
  /\ pc[p] = "recheck"
  /\ Goto(p, IF LiveNotes(Target(p)) # {} THEN "reopen" ELSE "list")
  /\ UNCHANGED <<book, local, history>>

Reopen(p) ==
  /\ pc[p] = "reopen"
  /\ status' = [status EXCEPT ![Target(p)] = "issued"]
  /\ Goto(p, "failed")
  /\ UNCHANGED <<settled, credited, noteVars, pay, alloc, local, history>>

\* Mutant: the sweep repeats while any pass, not this one, found something.
ListRowsForever(p) ==
  /\ pc[p] = "list"
  /\ rows' = [rows EXCEPT ![p] =
       {a \in RowIds : alloc[a].state = "live" /\ InvoiceOf(a) = Target(p)}]
  /\ Goto(p, "sweep")
  /\ UNCHANGED <<book, job, seen, share, plan, claimed, drawn, stored, tries, row,
                 passes, found, holding, history>>

\* A pass lists the live rows ...
ListRows(p) ==
  /\ pc[p] = "list"
  /\ rows' = [rows EXCEPT ![p] =
       {a \in RowIds : alloc[a].state = "live" /\ InvoiceOf(a) = Target(p)}]
  /\ passes' = [passes EXCEPT ![p] = @ + 1]
  /\ found' = [found EXCEPT ![p] = FALSE]
  /\ Goto(p, "sweep")
  /\ UNCHANGED <<book, job, seen, share, plan, claimed, drawn, stored, tries, row,
                 holding, history>>

\* ... and reverses those that carry a ledger pair, the credit applications.
Sweep(p, a) ==
  /\ pc[p] = "sweep"
  /\ a \in rows[p]
  /\ rows' = [rows EXCEPT ![p] = @ \ {a}]
  /\ IF alloc[a].state = "live" /\ alloc[a].stamped
     THEN /\ alloc' = [alloc EXCEPT ![a].state = "reversed"]
          /\ Hold(p, InvoiceOf(a), alloc[a].amount)
          /\ row' = [row EXCEPT ![p] = a]
          /\ found' = [found EXCEPT ![p] = TRUE]
          /\ Goto(p, "giveSource")
     ELSE UNCHANGED <<alloc, history, row, found, pc>>
  /\ UNCHANGED <<invoiceVars, noteVars, pay, job, seen, share, plan, claimed, drawn,
                 stored, tries, passes, holding>>

\* Then the cash that came in through a receipt booked against another invoice.
ListCross(p) ==
  /\ pc[p] = "sweep" /\ rows[p] = {}
  /\ rows' = [rows EXCEPT ![p] =
       {a \in RowIds : /\ alloc[a].state = "live" /\ InvoiceOf(a) = Target(p)
                       /\ SourceOf(a) \in Receipts
                       /\ pay[SourceOf(a)].inv # Target(p)}]
  /\ Goto(p, "cross")
  /\ UNCHANGED <<book, job, seen, share, plan, claimed, drawn, stored, tries, row,
                 passes, found, holding, history>>

MarkCross(p, a) ==
  /\ pc[p] = "cross"
  /\ a \in rows[p]
  /\ rows' = [rows EXCEPT ![p] = @ \ {a}]
  /\ IF alloc[a].state = "live" /\ ~alloc[a].stamped
     THEN /\ alloc' = [alloc EXCEPT ![a].state = "reversed"]
          /\ Hold(p, InvoiceOf(a), alloc[a].amount)
          /\ row' = [row EXCEPT ![p] = a]
          /\ Goto(p, "crossRoom")
     ELSE UNCHANGED <<alloc, history, row, pc>>
  /\ UNCHANGED <<invoiceVars, noteVars, pay, job, seen, share, plan, claimed, drawn,
                 stored, tries, passes, found, holding>>

CrossRoom(p) ==
  LET a == row[p] IN
  /\ pc[p] = "crossRoom"
  /\ ReleaseSettlement(InvoiceOf(a), alloc[a].amount)
  /\ Goto(p, "refund")
  /\ UNCHANGED <<status, credited, noteVars, pay, alloc, local, history>>

RefundCross(p) ==
  LET a == row[p] IN
  /\ pc[p] = "refund"
  /\ IF CanRefund(SourceOf(a), alloc[a].amount)
     THEN /\ Refund(SourceOf(a), alloc[a].amount)
          /\ Hold(p, InvoiceOf(a), 0)
          /\ found' = [found EXCEPT ![p] = TRUE]
          /\ Goto(p, "cross")
     ELSE Goto(p, "restore") /\ UNCHANGED <<pay, history, found>>
  /\ UNCHANGED <<invoiceVars, noteVars, alloc, job, seen, share, plan, claimed, drawn,
                 stored, tries, rows, row, passes, holding>>

\* The receipt refused: the row goes live again.  The reservation is claimed
\* back too, a claim whose filter never matches a cancelled invoice.
Restore(p) ==
  LET a == row[p] IN
  /\ pc[p] = "restore"
  /\ IF alloc[a].state = "reversed"
     THEN alloc' = [alloc EXCEPT ![a].state = "live"] /\ Hold(p, InvoiceOf(a), 0)
     ELSE UNCHANGED <<alloc, history>>
  /\ Goto(p, "failed")
  /\ UNCHANGED <<invoiceVars, noteVars, pay, local>>

EndPass(p) ==
  /\ pc[p] = "cross" /\ rows[p] = {}
  /\ IF found[p] /\ passes[p] < MaxPasses
     THEN Goto(p, "list") /\ UNCHANGED holding
     ELSE /\ Goto(p, "withdraw")
          /\ holding' = [holding EXCEPT ![p] = HoldingReceipts(Target(p))]
  /\ UNCHANGED <<book, job, seen, share, plan, claimed, drawn, stored, tries, rows,
                 row, passes, found, history>>

\* withdrawUnappliedCreditForInvoice: read the pool of the next receipt ...
Holder(p) == CHOOSE r \in holding[p] : TRUE

ReadPool(p) ==
  /\ pc[p] = "withdraw" /\ holding[p] # {}
  /\ LET pool == pay[Holder(p)].unapplied IN
     IF pool = 0 \/ tries[p] = MaxTries
     THEN /\ holding' = [holding EXCEPT ![p] = @ \ {Holder(p)}]
          /\ tries' = [tries EXCEPT ![p] = 0]
          /\ UNCHANGED <<pc, stored>>
     ELSE /\ stored' = [stored EXCEPT ![p] = pool]
          /\ tries' = [tries EXCEPT ![p] = @ + 1]
          /\ Goto(p, "take")
          /\ UNCHANGED holding
  /\ UNCHANGED <<book, job, seen, share, plan, claimed, drawn, rows, row, passes,
                 found, history>>

\* ... and move it, if it is still what was read.
TakePool(p) ==
  /\ pc[p] = "take"
  /\ IF pay[Holder(p)].unapplied = stored[p]
     THEN /\ Withdraw(Holder(p), stored[p])
          /\ holding' = [holding EXCEPT ![p] = @ \ {Holder(p)}]
          /\ tries' = [tries EXCEPT ![p] = 0]
     ELSE UNCHANGED <<pay, holding, tries>>
  /\ Goto(p, "withdraw")
  /\ UNCHANGED <<invoiceVars, noteVars, alloc, job, seen, share, plan, claimed, drawn,
                 stored, rows, row, passes, found, history>>

MarkPending(p) ==
  /\ pc[p] = "withdraw" /\ holding[p] = {}
  /\ pay' = FlagPending(pay, Target(p))
  /\ Goto(p, "done")
  /\ UNCHANGED <<invoiceVars, noteVars, alloc, local, history>>

(***************************************************************************)
(* Credit notes: createDocumentWorkflow and cancelDocumentWorkflow for     *)
(* documentType credit_note.                                               *)
(***************************************************************************)
StartNote(p, n) ==
  /\ noteStatus[n] = "absent"
  /\ \A q \in Requests : job[q].kind = "note" => job[q].note # n
  /\ status[NoteInvoice[n]] = "issued"
  /\ Start(p, "note", <<NoteInvoice[n]>>, 0, n, "claimRoom")
  /\ UNCHANGED <<book, seen, share, plan, claimed, drawn, stored, tries, rows, row,
                 passes, found, holding, history>>

ClaimRoom(p) ==
  LET i == Target(p)  x == NoteTotal[job[p].note] IN
  /\ pc[p] = "claimRoom"
  /\ IF CanClaimCredit(i, x) THEN ClaimCredit(i, x) /\ Goto(p, "issue")
                             ELSE UNCHANGED credited /\ Goto(p, "failed")
  /\ UNCHANGED <<status, settled, noteVars, pay, alloc, local, history>>

\* Stock, ledger and balance follow; if one of them throws, the catch block hands
\* back the room of a note that stands.
Issue(p) ==
  /\ pc[p] = "issue"
  /\ noteStatus' = [noteStatus EXCEPT ![job[p].note] = "issued"]
  /\ Goto(p, "done") \/ (Failing /\ Goto(p, "releaseRoom"))
  /\ UNCHANGED <<invoiceVars, applied, pay, alloc, local, history>>

\* Mutant: the room of a note that failed or was cancelled is not given back.
ReleaseRoomForgets(p) ==
  /\ pc[p] = "releaseRoom"
  /\ Goto(p, IF job[p].kind = "note" THEN "failed" ELSE "done")
  /\ UNCHANGED <<book, local, history>>

ReleaseRoom(p) ==
  /\ pc[p] = "releaseRoom"
  /\ ReleaseCredit(Target(p), NoteTotal[job[p].note])
  /\ Goto(p, IF job[p].kind = "note" THEN "failed" ELSE "done")
  /\ UNCHANGED <<status, settled, noteVars, pay, alloc, local, history>>

StartCancelNote(p, n) ==
  /\ noteStatus[n] = "issued"
  /\ Start(p, "cancelNote", <<NoteInvoice[n]>>, 0, n, "closeNote")
  /\ UNCHANGED <<book, seen, share, plan, claimed, drawn, stored, tries, rows, row,
                 passes, found, holding, history>>

CloseNote(p) ==
  LET n == job[p].note IN
  /\ pc[p] = "closeNote"
  /\ IF noteStatus[n] = "issued" /\ applied[n] = 0
     THEN noteStatus' = [noteStatus EXCEPT ![n] = "cancelled"] /\ Goto(p, "stranded")
     ELSE UNCHANGED noteStatus /\ Goto(p, "failed")
  /\ UNCHANGED <<invoiceVars, applied, pay, alloc, local, history>>

\* "Belt-and-braces": a live application found now reopens the note.
Stranded(p) ==
  LET n == job[p].note IN
  /\ pc[p] = "stranded"
  /\ IF \E a \in RowIds : alloc[a].state = "live" /\ SourceOf(a) = n
     THEN noteStatus' = [noteStatus EXCEPT ![n] = "issued"] /\ Goto(p, "failed")
     ELSE UNCHANGED noteStatus /\ Goto(p, "releaseRoom")
  /\ UNCHANGED <<invoiceVars, applied, pay, alloc, local, history>>

(***************************************************************************)
(* A write inside a try block throws: where the catch takes the request.   *)
(* A write outside one that throws leaves what a crash there leaves.       *)
(***************************************************************************)
OnError(p) ==
  CASE pc[p] = "receive"  -> IF claimed[p] = {} THEN "failed" ELSE "release"
    [] pc[p] = "allocate" -> "release"
    [] pc[p] \in {"draw", "credit", "stamp"} -> "undo"
    [] pc[p] = "issue"    -> "releaseRoom"

WriteFails(p) ==
  /\ Failing
  /\ pc[p] \in {"receive", "allocate", "draw", "credit", "stamp", "issue"}
  /\ Goto(p, OnError(p))
  /\ UNCHANGED <<book, local, history>>

Begin(p) ==
  \/ \E targets \in TargetLists, x \in Amounts : StartReceipt(p, targets, x)
  \/ \E i \in Invoices, x \in Amounts : StartApply(p, i, x)
  \/ \E a \in RowIds : StartReverse(p, a)
  \/ \E i \in Invoices : StartCancel(p, i)
  \/ \E n \in Notes : StartNote(p, n) \/ StartCancelNote(p, n)

Step(p) ==
  \/ \E i \in Invoices : \/ ReadBalance(p, i) \/ Baseline(p, i) \/ Raise(p, i)
                         \/ Claim(p, i) \/ Allocate(p, i) \/ Release(p, i)
  \/ Receive(p) \/ ReadForCredit(p) \/ PlanCredit(p) \/ EndApply(p) \/ UndoNothing(p)
  \/ \E s \in Sources : \/ DrawCredit(p, s) \/ CreditRow(p, s) \/ Stamp(p, s)
                        \/ Undo(p, s) \/ GiveBackDrawn(p, s)
  \/ Mark(p) \/ GiveSource(p) \/ GiveRoom(p)
  \/ Close(p) \/ Recheck(p) \/ Reopen(p) \/ ListRows(p) \/ ListCross(p)
  \/ \E a \in RowIds : Sweep(p, a) \/ MarkCross(p, a)
  \/ CrossRoom(p) \/ RefundCross(p) \/ Restore(p) \/ EndPass(p)
  \/ ReadPool(p) \/ TakePool(p) \/ MarkPending(p)
  \/ ClaimRoom(p) \/ Issue(p) \/ ReleaseRoom(p) \/ CloseNote(p) \/ Stranded(p)

Next == \E p \in Requests : Begin(p) \/ Step(p) \/ WriteFails(p)

Spec == Init /\ [][Next]_vars

-----------------------------------------------------------------------------
Labels == {"idle", "readBalance", "planCredit", "baseline", "raise", "claim", "receive",
  "allocate", "release", "draw", "credit", "stamp", "undo", "mark", "giveSource",
  "giveRoom", "close", "recheck", "reopen", "list", "sweep", "cross", "crossRoom",
  "refund", "restore", "withdraw", "take", "claimRoom", "issue", "releaseRoom",
  "closeNote", "stranded", "done", "failed"}

\* The documents and the requests' local state have the declared shapes.
TypeOK ==
  /\ BookTypeOK
  /\ pc \in [Requests -> Labels]
  /\ job \in [Requests -> Job]
  /\ seen \in [Requests -> [Invoices -> Nat \cup {Missing}]]
  /\ share \in [Requests -> [Invoices -> Nat]]
  /\ plan \in [Requests -> [Sources -> Nat]]
  /\ claimed \in [Requests -> SUBSET Invoices]
  /\ drawn \in [Requests -> SUBSET Sources]
  /\ stored \in [Requests -> Nat \cup {Missing}]
  /\ tries \in [Requests -> Nat]
  /\ rows \in [Requests -> SUBSET RowIds]
  /\ row \in [Requests -> RowIds \cup {NoRowId}]
  /\ passes \in [Requests -> Nat]
  /\ found \in [Requests -> BOOLEAN]
  /\ holding \in [Requests -> SUBSET Receipts]
  /\ held \in [Requests -> [Invoices -> Int]]
  /\ twice \subseteq RowIds

Over(p) == pc[p] \in {"done", "failed"}
Quiet == \A p \in Requests : pc[p] = "idle" \/ Over(p)

Held(i) == Sum([p \in Requests |-> held[p][i]])

\* What a failed application gave back although a reversal already had: the
\* invoices and the sources concerned.
Spoiled == {InvoiceOf(a) : a \in twice}
Refilled == {SourceOf(a) : a \in twice}

\* Whatever funds them and however they interleave, the settlements of an
\* invoice never add up to more than the invoice ("This is what makes
\* over-settlement impossible without a transaction", claimSettlementOnInvoice),
\* unless an application that failed half-stamped released it a second time.
NoOverSettlement == \A i \in Invoices \ Spoiled : Live(i) <= Total[i]

\* While an invoice can still be settled, its counter covers every live row and
\* every reservation not yet backed by one, so a claim measured against the
\* counter is measured against all of them, compensations included; but for a
\* reservation that was released twice.
CapacityCovered ==
  \A i \in Invoices \ Spoiled : status[i] = "issued" =>
    Live(i) + Held(i) <= settled[i] /\ settled[i] <= Total[i]

\* A cancelled note settles nothing: closeCreditNoteForCancellation and
\* claimCreditFromNote decide on the same counter, so neither straddles the
\* other, as long as no draw on the note was given back twice.
CancelledNoteUnspent ==
  \A n \in Notes \ Refilled : noteStatus[n] = "cancelled" => Spent(n) = 0

\* No credit is spent that its note did not give up, and once every request has
\* ended a note is short of exactly what it settles, whatever failed or raced,
\* unless a draw on it was given back twice.
NotesExact ==
  \A n \in Notes \ Refilled : /\ Spent(n) <= applied[n] /\ applied[n] <= NoteTotal[n]
                              /\ Quiet => Spent(n) = applied[n]

\* Once every request has ended, the credit room an invoice is short of is that
\* of the notes issued against it: failed and cancelled notes gave theirs back.
\* A request that failed after writing its note gives back the room of a note
\* that stands.
HalfIssued(p) ==
  job[p].kind = "note" /\ pc[p] = "failed" /\ noteStatus[job[p].note] # "absent"
RoomExact ==
  Quiet /\ (\A p \in Requests : ~HalfIssued(p)) => \A i \in Invoices :
    credited[i] = Sum([n \in LiveNotes(i) |-> NoteTotal[n]])

\* An issued note stands on an invoice that was not cancelled: "Re-checking
\* after it is what makes the two decisions ordered; the note wins and the
\* cancellation is put back" (cancelInvoiceWorkflow).  It does not hold.
NoteBacked ==
  Quiet => \A n \in Notes :
    noteStatus[n] = "issued" => status[NoteInvoice[n]] = "issued"

\* Money owed back as cash is "never spendable credit as well"
\* (refundCrossInvoiceAllocationsForInvoice): what a receipt still settles was
\* not turned into credit too.  It does not hold when a ledger write fails.
AllocatedBacked ==
  \A r \in Receipts : Made(r) => Spent(r) <= pay[r].allocated

\* The steps keep the promise of SettlementPromise, reservations counted as taken
\* and the invoices whose reservation was released twice excused.
Promise == INSTANCE SettlementPromise WITH
  open <- [i \in Invoices |-> status[i] = "issued"],
  taken <- [i \in Invoices |-> Live(i) + Held(i)],
  purse <- pay,
  excused <- Spoiled
PromiseKept == Promise!Spec

\* The event loop keeps running and every round trip returns or throws: nothing
\* in the code waits for another request.
FairSpec == Spec /\ \A p \in Requests : WF_vars(Step(p))

\* Every request ends: the compare-and-set loops and the cancellation sweep are
\* bounded, whatever the other requests do meanwhile.
EveryRequestEnds == \A p \in Requests : pc[p] # "idle" ~> Over(p)

=============================================================================
