-------------------------- MODULE SettlementProofs --------------------------
(***************************************************************************)
(* The proofs about Settlement.  First type correctness, the frame of its  *)
(* steps, and what each request accounts for while no transaction protects *)
(* it (Ownership, Fresh and Holds).  Then why no invoice is over-settled:  *)
(* its counter covers its rows and what the requests hold.  And why no     *)
(* credit of a note is lost or spent twice: what the note gave up is what  *)
(* its rows spend and what the requests have still to give back.  Together *)
(* that is IInv, and it is inductive.                                      *)
(***************************************************************************)
EXTENDS SettlementInv, BookProofs

\* The row a request would write for an invoice and a source is a row of the book.
LEMMA OwnRow ==
  ASSUME NEW p \in Requests, NEW i \in Invoices, NEW s \in Sources
  PROVE  Own(p, i, s) \in RowIds /\ InvoiceOf(Own(p, i, s)) = i
         /\ SourceOf(Own(p, i, s)) = s /\ Writer(Own(p, i, s)) = p
BY DEF RowIds, Own, InvoiceOf, SourceOf, Writer

\* A request past its start has a first target, and it is an invoice.
LEMMA TargetType ==
  ASSUME Shape, NEW p \in Requests, pc[p] # "idle"
  PROVE  Target(p) \in Invoices /\ LastTarget(p) \in Invoices
<1>1. job[p].targets \in Seq(Invoices) /\ job[p].targets # <<>>
  BY DEF Shape, TypeOK, Job, Inputs
<1>2. Len(job[p].targets) \in Nat /\ Len(job[p].targets) > 0
  BY <1>1
<1> QED BY <1>1, <1>2 DEF Target, LastTarget

-----------------------------------------------------------------------------
(***************************************************************************)
(* Who writes what: the steps that assign each variable.                   *)
(***************************************************************************)
StatusWriter(p) ==
  \/ Close(p) \/ Reopen(p)
SettledWriter(p) ==
  \/ \E i \in Invoices : Raise(p, i) \/ Claim(p, i) \/ Release(p, i)
  \/ GiveRoom(p) \/ CrossRoom(p)
CreditedWriter(p) ==
  \/ ClaimRoom(p) \/ ReleaseRoom(p)
NoteWriter(p) ==
  \/ Issue(p) \/ CloseNote(p) \/ Stranded(p)
AppliedWriter(p) ==
  \/ GiveSource(p)
  \/ \E s \in Sources : DrawCredit(p, s) \/ GiveBackDrawn(p, s)
PayWriter(p) ==
  \/ Receive(p) \/ GiveSource(p) \/ RefundCross(p) \/ TakePool(p) \/ MarkPending(p)
  \/ \E s \in Sources : DrawCredit(p, s) \/ GiveBackDrawn(p, s)
AllocWriter(p) ==
  \/ \E i \in Invoices : Allocate(p, i)
  \/ Mark(p) \/ Restore(p)
  \/ \E s \in Sources : CreditRow(p, s) \/ Stamp(p, s) \/ Undo(p, s)
  \/ \E a \in RowIds : Sweep(p, a) \/ MarkCross(p, a)
HeldWriter(p) ==
  \/ \E i \in Invoices : Claim(p, i) \/ Allocate(p, i) \/ Release(p, i)
  \/ Mark(p) \/ GiveRoom(p) \/ RefundCross(p) \/ Restore(p)
  \/ \E s \in Sources : CreditRow(p, s) \/ Undo(p, s)
  \/ \E a \in RowIds : Sweep(p, a) \/ MarkCross(p, a)
TwiceWriter(p) ==
  \/ \E s \in Sources : Undo(p, s)
Starter(p) ==
  \/ \E targets \in TargetLists, x \in Amounts : StartReceipt(p, targets, x)
  \/ \E i \in Invoices, x \in Amounts : StartApply(p, i, x)
  \/ \E a \in RowIds : StartReverse(p, a)
  \/ \E i \in Invoices : StartCancel(p, i)
  \/ \E n \in Notes : StartNote(p, n) \/ StartCancelNote(p, n)
Reader(p) ==
  \/ \E i \in Invoices : ReadBalance(p, i)
  \/ ReadForCredit(p)
Planner(p) ==
  \/ PlanCredit(p)
ClaimedWriter(p) ==
  \/ \E i \in Invoices : Claim(p, i) \/ Allocate(p, i) \/ Release(p, i)
DrawnWriter(p) ==
  \/ \E s \in Sources : DrawCredit(p, s) \/ GiveBackDrawn(p, s)
StoredWriter(p) ==
  \/ \E i \in Invoices : Baseline(p, i) \/ Raise(p, i)
  \/ ReadPool(p) \/ TakePool(p)
SweepWriter(p) ==
  \/ \E a \in RowIds : StartReverse(p, a) \/ Sweep(p, a) \/ MarkCross(p, a)
  \/ ListRows(p) \/ ListCross(p) \/ RefundCross(p)
HoldingWriter(p) ==
  \/ EndPass(p) \/ ReadPool(p) \/ TakePool(p)

\* A step of p leaves the local state of q alone.
Keeps(q) ==
  /\ pc'[q] = pc[q] /\ job'[q] = job[q] /\ seen'[q] = seen[q] /\ share'[q] = share[q]
  /\ plan'[q] = plan[q] /\ claimed'[q] = claimed[q] /\ drawn'[q] = drawn[q]
  /\ stored'[q] = stored[q] /\ tries'[q] = tries[q] /\ rows'[q] = rows[q]
  /\ row'[q] = row[q] /\ passes'[q] = passes[q] /\ found'[q] = found[q]
  /\ holding'[q] = holding[q] /\ held'[q] = held[q]

Acts(p) == Begin(p) \/ Step(p) \/ WriteFails(p)

\* Which actions may change which variable; every other action leaves it alone.
LEMMA Frame ==
  ASSUME NEW p \in Requests, Acts(p)
  PROVE
    /\ UNCHANGED status \/ StatusWriter(p)
    /\ UNCHANGED settled \/ SettledWriter(p)
    /\ UNCHANGED credited \/ CreditedWriter(p)
    /\ UNCHANGED noteStatus \/ NoteWriter(p)
    /\ UNCHANGED applied \/ AppliedWriter(p)
    /\ UNCHANGED pay \/ PayWriter(p)
    /\ UNCHANGED alloc \/ AllocWriter(p)
    /\ UNCHANGED held \/ HeldWriter(p)
    /\ UNCHANGED twice \/ TwiceWriter(p)
    /\ UNCHANGED job \/ Starter(p)
    /\ UNCHANGED <<seen, share>> \/ Reader(p)
    /\ UNCHANGED plan \/ Planner(p)
    /\ UNCHANGED claimed \/ ClaimedWriter(p)
    /\ UNCHANGED drawn \/ DrawnWriter(p)
    /\ UNCHANGED <<stored, tries>> \/ StoredWriter(p)
    /\ UNCHANGED <<rows, row, passes, found>> \/ SweepWriter(p)
    /\ UNCHANGED holding \/ HoldingWriter(p)
<1> USE DEF Goto, Hold, Start, local, history, book, vars, invoiceVars, noteVars
<1>1. ASSUME NEW targets \in TargetLists, NEW x \in Amounts, StartReceipt(p, targets, x)
      PROVE  UNCHANGED <<twice, status, settled, credited, noteStatus, applied, pay,
                         alloc, held, seen, share, plan, claimed, drawn, stored,
                         tries, rows, row, passes, found, holding>>
  BY <1>1 DEF StartReceipt
<1>2. ASSUME NEW i \in Invoices, NEW x \in Amounts, StartApply(p, i, x)
      PROVE  UNCHANGED <<twice, status, settled, credited, noteStatus, applied, pay,
                         alloc, held, seen, share, plan, claimed, drawn, stored,
                         tries, rows, row, passes, found, holding>>
  BY <1>2 DEF StartApply
<1>3. ASSUME NEW a \in RowIds, StartReverse(p, a)
      PROVE  UNCHANGED <<twice, status, settled, credited, noteStatus, applied, pay,
                         alloc, held, seen, share, plan, claimed, drawn, stored,
                         tries, holding>>
  BY <1>3 DEF StartReverse
<1>4. ASSUME NEW i \in Invoices, StartCancel(p, i)
      PROVE  UNCHANGED <<twice, status, settled, credited, noteStatus, applied, pay,
                         alloc, held, seen, share, plan, claimed, drawn, stored,
                         tries, rows, row, passes, found, holding>>
  BY <1>4 DEF StartCancel
<1>5. ASSUME NEW n \in Notes, StartNote(p, n)
      PROVE  UNCHANGED <<twice, status, settled, credited, noteStatus, applied, pay,
                         alloc, held, seen, share, plan, claimed, drawn, stored,
                         tries, rows, row, passes, found, holding>>
  BY <1>5 DEF StartNote
<1>6. ASSUME NEW n \in Notes, StartCancelNote(p, n)
      PROVE  UNCHANGED <<twice, status, settled, credited, noteStatus, applied, pay,
                         alloc, held, seen, share, plan, claimed, drawn, stored,
                         tries, rows, row, passes, found, holding>>
  BY <1>6 DEF StartCancelNote
<1>7. ASSUME NEW i \in Invoices, ReadBalance(p, i)
      PROVE  UNCHANGED <<twice, status, settled, credited, noteStatus, applied, pay,
                         alloc, held, job, plan, claimed, drawn, stored, tries,
                         rows, row, passes, found, holding>>
  BY <1>7 DEF ReadBalance
<1>8. ASSUME NEW i \in Invoices, Baseline(p, i)
      PROVE  UNCHANGED <<twice, status, settled, credited, noteStatus, applied, pay,
                         alloc, held, job, seen, share, plan, claimed, drawn,
                         rows, row, passes, found, holding>>
  BY <1>8 DEF Baseline
<1>9. ASSUME NEW i \in Invoices, Raise(p, i)
      PROVE  UNCHANGED <<twice, status, credited, noteStatus, applied, pay, alloc, held,
                         job, seen, share, plan, claimed, drawn, rows, row,
                         passes, found, holding>>
  BY <1>9 DEF Raise
<1>10. ASSUME NEW i \in Invoices, Claim(p, i)
      PROVE  UNCHANGED <<twice, status, credited, noteStatus, applied, pay, alloc, job,
                         seen, share, plan, drawn, stored, tries, rows, row,
                         passes, found, holding>>
  BY <1>10 DEF Claim
<1>11. ASSUME NEW i \in Invoices, Allocate(p, i)
      PROVE  UNCHANGED <<twice, status, settled, credited, noteStatus, applied, pay, job,
                         seen, share, plan, drawn, stored, tries, rows, row,
                         passes, found, holding>>
  BY <1>11 DEF Allocate
<1>12. ASSUME NEW i \in Invoices, Release(p, i)
      PROVE  UNCHANGED <<twice, status, credited, noteStatus, applied, pay, alloc, job,
                         seen, share, plan, drawn, stored, tries, rows, row,
                         passes, found, holding>>
  BY <1>12 DEF Release
<1>13. ASSUME Receive(p)
      PROVE  UNCHANGED <<twice, status, settled, credited, noteStatus, applied, alloc,
                         held, job, seen, share, plan, claimed, drawn, stored,
                         tries, rows, row, passes, found, holding>>
  BY <1>13 DEF Receive
<1>14. ASSUME ReadForCredit(p)
      PROVE  UNCHANGED <<twice, status, settled, credited, noteStatus, applied, pay,
                         alloc, held, job, plan, claimed, drawn, stored, tries,
                         rows, row, passes, found, holding>>
  BY <1>14 DEF ReadForCredit
<1>15. ASSUME PlanCredit(p)
      PROVE  UNCHANGED <<twice, status, settled, credited, noteStatus, applied, pay,
                         alloc, held, job, seen, share, claimed, drawn, stored,
                         tries, rows, row, passes, found, holding>>
  BY <1>15 DEF PlanCredit
<1>16. ASSUME EndApply(p)
      PROVE  UNCHANGED <<twice, status, settled, credited, noteStatus, applied, pay,
                         alloc, held, job, seen, share, plan, claimed, drawn, stored,
                         tries, rows, row, passes, found, holding>>
  BY <1>16 DEF EndApply
<1>17. ASSUME UndoNothing(p)
      PROVE  UNCHANGED <<twice, status, settled, credited, noteStatus, applied, pay,
                         alloc, held, job, seen, share, plan, claimed, drawn,
                         stored, tries, rows, row, passes, found, holding>>
  BY <1>17 DEF UndoNothing
<1>18. ASSUME Mark(p)
      PROVE  UNCHANGED <<twice, status, settled, credited, noteStatus, applied, pay, job,
                         seen, share, plan, claimed, drawn, stored, tries, rows,
                         row, passes, found, holding>>
  BY <1>18 DEF Mark
<1>19. ASSUME GiveSource(p)
      PROVE  UNCHANGED <<twice, status, settled, credited, noteStatus, alloc, held, job,
                         seen, share, plan, claimed, drawn, stored, tries, rows,
                         row, passes, found, holding>>
  BY <1>19 DEF GiveSource
<1>20. ASSUME GiveRoom(p)
      PROVE  UNCHANGED <<twice, status, credited, noteStatus, applied, pay, alloc, job,
                         seen, share, plan, claimed, drawn, stored, tries, rows,
                         row, passes, found, holding>>
  BY <1>20 DEF GiveRoom
<1>21. ASSUME Close(p)
      PROVE  UNCHANGED <<twice, settled, credited, noteStatus, applied, pay, alloc, held,
                         job, seen, share, plan, claimed, drawn, stored, tries,
                         rows, row, passes, found, holding>>
  BY <1>21 DEF Close
<1>22. ASSUME Recheck(p)
      PROVE  UNCHANGED <<twice, status, settled, credited, noteStatus, applied, pay,
                         alloc, held, job, seen, share, plan, claimed, drawn,
                         stored, tries, rows, row, passes, found, holding>>
  BY <1>22 DEF Recheck
<1>23. ASSUME Reopen(p)
      PROVE  UNCHANGED <<twice, settled, credited, noteStatus, applied, pay, alloc, held,
                         job, seen, share, plan, claimed, drawn, stored, tries,
                         rows, row, passes, found, holding>>
  BY <1>23 DEF Reopen
<1>24. ASSUME ListRows(p)
      PROVE  UNCHANGED <<twice, status, settled, credited, noteStatus, applied, pay,
                         alloc, held, job, seen, share, plan, claimed, drawn,
                         stored, tries, holding>>
  BY <1>24 DEF ListRows
<1>25. ASSUME ListCross(p)
      PROVE  UNCHANGED <<twice, status, settled, credited, noteStatus, applied, pay,
                         alloc, held, job, seen, share, plan, claimed, drawn,
                         stored, tries, holding>>
  BY <1>25 DEF ListCross
<1>26. ASSUME CrossRoom(p)
      PROVE  UNCHANGED <<twice, status, credited, noteStatus, applied, pay, alloc, held,
                         job, seen, share, plan, claimed, drawn, stored, tries,
                         rows, row, passes, found, holding>>
  BY <1>26 DEF CrossRoom
<1>27. ASSUME RefundCross(p)
      PROVE  UNCHANGED <<twice, status, settled, credited, noteStatus, applied, alloc,
                         job, seen, share, plan, claimed, drawn, stored, tries,
                         holding>>
  BY <1>27 DEF RefundCross
<1>28. ASSUME Restore(p)
      PROVE  UNCHANGED <<twice, status, settled, credited, noteStatus, applied, pay, job,
                         seen, share, plan, claimed, drawn, stored, tries, rows,
                         row, passes, found, holding>>
  BY <1>28 DEF Restore
<1>29. ASSUME EndPass(p)
      PROVE  UNCHANGED <<twice, status, settled, credited, noteStatus, applied, pay,
                         alloc, held, job, seen, share, plan, claimed, drawn,
                         stored, tries, rows, row, passes, found>>
  BY <1>29 DEF EndPass
<1>30. ASSUME ReadPool(p)
      PROVE  UNCHANGED <<twice, status, settled, credited, noteStatus, applied, pay,
                         alloc, held, job, seen, share, plan, claimed, drawn,
                         rows, row, passes, found>>
  BY <1>30 DEF ReadPool
<1>31. ASSUME TakePool(p)
      PROVE  UNCHANGED <<twice, status, settled, credited, noteStatus, applied, alloc,
                         held, job, seen, share, plan, claimed, drawn, rows, row,
                         passes, found>>
  BY <1>31 DEF TakePool
<1>32. ASSUME MarkPending(p)
      PROVE  UNCHANGED <<twice, status, settled, credited, noteStatus, applied, alloc,
                         held, job, seen, share, plan, claimed, drawn, stored,
                         tries, rows, row, passes, found, holding>>
  BY <1>32 DEF MarkPending
<1>33. ASSUME ClaimRoom(p)
      PROVE  UNCHANGED <<twice, status, settled, noteStatus, applied, pay, alloc, held,
                         job, seen, share, plan, claimed, drawn, stored, tries,
                         rows, row, passes, found, holding>>
  BY <1>33 DEF ClaimRoom
<1>34. ASSUME Issue(p)
      PROVE  UNCHANGED <<twice, status, settled, credited, applied, pay, alloc, held,
                         job, seen, share, plan, claimed, drawn, stored, tries,
                         rows, row, passes, found, holding>>
  BY <1>34 DEF Issue
<1>35. ASSUME ReleaseRoom(p)
      PROVE  UNCHANGED <<twice, status, settled, noteStatus, applied, pay, alloc, held,
                         job, seen, share, plan, claimed, drawn, stored, tries,
                         rows, row, passes, found, holding>>
  BY <1>35 DEF ReleaseRoom
<1>36. ASSUME CloseNote(p)
      PROVE  UNCHANGED <<twice, status, settled, credited, applied, pay, alloc, held,
                         job, seen, share, plan, claimed, drawn, stored, tries,
                         rows, row, passes, found, holding>>
  BY <1>36 DEF CloseNote
<1>37. ASSUME Stranded(p)
      PROVE  UNCHANGED <<twice, status, settled, credited, applied, pay, alloc, held,
                         job, seen, share, plan, claimed, drawn, stored, tries,
                         rows, row, passes, found, holding>>
  BY <1>37 DEF Stranded
<1>38. ASSUME NEW s \in Sources, DrawCredit(p, s)
      PROVE  UNCHANGED <<twice, status, settled, credited, noteStatus, alloc, held, job,
                         seen, share, plan, claimed, stored, tries, rows, row,
                         passes, found, holding>>
  BY <1>38 DEF DrawCredit
<1>39. ASSUME NEW s \in Sources, CreditRow(p, s)
      PROVE  UNCHANGED <<twice, status, settled, credited, noteStatus, applied, pay, job,
                         seen, share, plan, claimed, drawn, stored, tries, rows,
                         row, passes, found, holding>>
  BY <1>39 DEF CreditRow
<1>40. ASSUME NEW s \in Sources, Undo(p, s)
      PROVE  UNCHANGED <<status, settled, credited, noteStatus, applied, pay, job,
                         seen, share, plan, claimed, drawn, stored, tries, rows,
                         row, passes, found, holding>>
  BY <1>40 DEF Undo
<1>49. ASSUME NEW s \in Sources, Stamp(p, s)
      PROVE  UNCHANGED <<twice, status, settled, credited, noteStatus, applied, pay,
                         held, job, seen, share, plan, claimed, drawn, stored,
                         tries, rows, row, passes, found, holding>>
  BY <1>49 DEF Stamp
<1>41. ASSUME NEW s \in Sources, GiveBackDrawn(p, s)
      PROVE  UNCHANGED <<twice, status, settled, credited, noteStatus, alloc, held, job,
                         seen, share, plan, claimed, stored, tries, rows, row,
                         passes, found, holding>>
  BY <1>41 DEF GiveBackDrawn
<1>42. ASSUME NEW a \in RowIds, Sweep(p, a)
      PROVE  UNCHANGED <<twice, status, settled, credited, noteStatus, applied, pay, job,
                         seen, share, plan, claimed, drawn, stored, tries,
                         holding>>
  BY <1>42 DEF Sweep
<1>43. ASSUME NEW a \in RowIds, MarkCross(p, a)
      PROVE  UNCHANGED <<twice, status, settled, credited, noteStatus, applied, pay, job,
                         seen, share, plan, claimed, drawn, stored, tries,
                         holding>>
  BY <1>43 DEF MarkCross
<1>44. ASSUME WriteFails(p)
      PROVE  UNCHANGED <<twice, status, settled, credited, noteStatus, applied, pay,
                         alloc, held, job, seen, share, plan, claimed, drawn,
                         stored, tries, rows, row, passes, found, holding>>
  BY <1>44 DEF WriteFails
<1>45. CASE Begin(p)
  BY <1>45, <1>1, <1>2, <1>3, <1>4, <1>5, <1>6, SMTT(30) DEF Begin,
     StatusWriter, SettledWriter, CreditedWriter, NoteWriter, AppliedWriter,
     PayWriter, AllocWriter, HeldWriter, TwiceWriter, Starter, Reader, Planner,
     ClaimedWriter, DrawnWriter, StoredWriter, SweepWriter, HoldingWriter
<1>46. CASE Step(p)
  BY <1>46, <1>7, <1>8, <1>9, <1>10, <1>11, <1>12, <1>13, <1>14, <1>15,
     <1>16, <1>17, <1>18, <1>19, <1>20, <1>21, <1>22, <1>23, <1>24, <1>25,
     <1>26, <1>27, <1>28, <1>29, <1>30, <1>31, <1>32, <1>33, <1>34, <1>35,
     <1>36, <1>37, <1>38, <1>39, <1>40, <1>49, <1>41, <1>42, <1>43, SMTT(60) DEF
     Step, StatusWriter, SettledWriter, CreditedWriter, NoteWriter,
     AppliedWriter, PayWriter, AllocWriter, HeldWriter, TwiceWriter, Starter, Reader,
     Planner, ClaimedWriter, DrawnWriter, StoredWriter, SweepWriter,
     HoldingWriter
<1>47. CASE WriteFails(p)
  BY <1>47, <1>44
<1> QED BY <1>45, <1>46, <1>47 DEF Acts

\* A request's local state is its own.
LEMMA OthersKeep ==
  ASSUME TypeOK, NEW p \in Requests, Acts(p), NEW q \in Requests, q # p
  PROVE  Keeps(q)
<1> USE DEF Keeps, TypeOK, Goto, Hold, Start, local, history, book, vars
<1>1. ASSUME NEW targets \in TargetLists, NEW x \in Amounts, StartReceipt(p, targets, x) PROVE Keeps(q)
  BY <1>1 DEF StartReceipt
<1>2. ASSUME NEW i \in Invoices, NEW x \in Amounts, StartApply(p, i, x) PROVE Keeps(q)
  BY <1>2 DEF StartApply
<1>3. ASSUME NEW a \in RowIds, StartReverse(p, a) PROVE Keeps(q)
  BY <1>3 DEF StartReverse
<1>4. ASSUME NEW i \in Invoices, StartCancel(p, i) PROVE Keeps(q)
  BY <1>4 DEF StartCancel
<1>5. ASSUME NEW n \in Notes, StartNote(p, n) PROVE Keeps(q)
  BY <1>5 DEF StartNote
<1>6. ASSUME NEW n \in Notes, StartCancelNote(p, n) PROVE Keeps(q)
  BY <1>6 DEF StartCancelNote
<1>7. ASSUME NEW i \in Invoices, ReadBalance(p, i) PROVE Keeps(q)
  BY <1>7 DEF ReadBalance
<1>8. ASSUME NEW i \in Invoices, Baseline(p, i) PROVE Keeps(q)
  BY <1>8 DEF Baseline
<1>9. ASSUME NEW i \in Invoices, Raise(p, i) PROVE Keeps(q)
  BY <1>9 DEF Raise
<1>10. ASSUME NEW i \in Invoices, Claim(p, i) PROVE Keeps(q)
  BY <1>10 DEF Claim
<1>11. ASSUME NEW i \in Invoices, Allocate(p, i) PROVE Keeps(q)
  BY <1>11 DEF Allocate
<1>12. ASSUME NEW i \in Invoices, Release(p, i) PROVE Keeps(q)
  BY <1>12 DEF Release
<1>13. ASSUME Receive(p) PROVE Keeps(q)
  BY <1>13 DEF Receive
<1>14. ASSUME ReadForCredit(p) PROVE Keeps(q)
  BY <1>14 DEF ReadForCredit
<1>15. ASSUME PlanCredit(p) PROVE Keeps(q)
  BY <1>15 DEF PlanCredit
<1>16. ASSUME EndApply(p) PROVE Keeps(q)
  BY <1>16 DEF EndApply
<1>17. ASSUME UndoNothing(p) PROVE Keeps(q)
  BY <1>17 DEF UndoNothing
<1>18. ASSUME Mark(p) PROVE Keeps(q)
  BY <1>18 DEF Mark
<1>19. ASSUME GiveSource(p) PROVE Keeps(q)
  BY <1>19 DEF GiveSource
<1>20. ASSUME GiveRoom(p) PROVE Keeps(q)
  BY <1>20 DEF GiveRoom
<1>21. ASSUME Close(p) PROVE Keeps(q)
  BY <1>21 DEF Close
<1>22. ASSUME Recheck(p) PROVE Keeps(q)
  BY <1>22 DEF Recheck
<1>23. ASSUME Reopen(p) PROVE Keeps(q)
  BY <1>23 DEF Reopen
<1>24. ASSUME ListRows(p) PROVE Keeps(q)
  BY <1>24 DEF ListRows
<1>25. ASSUME ListCross(p) PROVE Keeps(q)
  BY <1>25 DEF ListCross
<1>26. ASSUME CrossRoom(p) PROVE Keeps(q)
  BY <1>26 DEF CrossRoom
<1>27. ASSUME RefundCross(p) PROVE Keeps(q)
  BY <1>27 DEF RefundCross
<1>28. ASSUME Restore(p) PROVE Keeps(q)
  BY <1>28 DEF Restore
<1>29. ASSUME EndPass(p) PROVE Keeps(q)
  BY <1>29 DEF EndPass
<1>30. ASSUME ReadPool(p) PROVE Keeps(q)
  BY <1>30 DEF ReadPool
<1>31. ASSUME TakePool(p) PROVE Keeps(q)
  BY <1>31 DEF TakePool
<1>32. ASSUME MarkPending(p) PROVE Keeps(q)
  BY <1>32 DEF MarkPending
<1>33. ASSUME ClaimRoom(p) PROVE Keeps(q)
  BY <1>33 DEF ClaimRoom
<1>34. ASSUME Issue(p) PROVE Keeps(q)
  BY <1>34 DEF Issue
<1>35. ASSUME ReleaseRoom(p) PROVE Keeps(q)
  BY <1>35 DEF ReleaseRoom
<1>36. ASSUME CloseNote(p) PROVE Keeps(q)
  BY <1>36 DEF CloseNote
<1>37. ASSUME Stranded(p) PROVE Keeps(q)
  BY <1>37 DEF Stranded
<1>38. ASSUME NEW s \in Sources, DrawCredit(p, s) PROVE Keeps(q)
  BY <1>38 DEF DrawCredit
<1>39. ASSUME NEW s \in Sources, CreditRow(p, s) PROVE Keeps(q)
  BY <1>39 DEF CreditRow
<1>40. ASSUME NEW s \in Sources, Undo(p, s) PROVE Keeps(q)
  BY <1>40 DEF Undo
<1>49. ASSUME NEW s \in Sources, Stamp(p, s) PROVE Keeps(q)
  BY <1>49 DEF Stamp
<1>41. ASSUME NEW s \in Sources, GiveBackDrawn(p, s) PROVE Keeps(q)
  BY <1>41 DEF GiveBackDrawn
<1>42. ASSUME NEW a \in RowIds, Sweep(p, a) PROVE Keeps(q)
  BY <1>42 DEF Sweep
<1>43. ASSUME NEW a \in RowIds, MarkCross(p, a) PROVE Keeps(q)
  BY <1>43 DEF MarkCross
<1>44. ASSUME WriteFails(p) PROVE Keeps(q)
  BY <1>44 DEF WriteFails
<1> QED
  BY <1>1, <1>2, <1>3, <1>4, <1>5, <1>6, <1>7, <1>8, <1>9, <1>10, <1>11,
     <1>12, <1>13, <1>14, <1>15, <1>16, <1>17, <1>18, <1>19, <1>20, <1>21,
     <1>22, <1>23, <1>24, <1>25, <1>26, <1>27, <1>28, <1>29, <1>30, <1>31,
     <1>32, <1>33, <1>34, <1>35, <1>36, <1>37, <1>38, <1>39, <1>40, <1>49, <1>41,
     <1>42, <1>43, <1>44 DEF Acts, Begin, Step

-----------------------------------------------------------------------------
(***************************************************************************)
(* Type correctness.                                                       *)
(***************************************************************************)
\* Changing the state of one row, and what it leaves.
LEMMA RowStateChange ==
  ASSUME alloc \in [RowIds -> Row], NEW a \in RowIds,
         NEW st \in {"absent", "live", "reversed"},
         alloc' = [alloc EXCEPT ![a].state = st]
  PROVE  /\ alloc' \in [RowIds -> Row]
         /\ alloc'[a].amount = alloc[a].amount
         /\ alloc'[a].state = st
         /\ alloc'[a].stamped = alloc[a].stamped
         /\ \A b \in RowIds : b # a => alloc'[b] = alloc[b]
<1> DEFINE r == [alloc[a] EXCEPT !.state = st]
<1>1. alloc' = [alloc EXCEPT ![a] = r]
  BY Zenon
<1>2. r = [amount |-> alloc[a].amount, state |-> st, stamped |-> alloc[a].stamped]
  BY DEF Row
<1>3. alloc'[a] = r /\ \A b \in RowIds : b # a => alloc'[b] = alloc[b]
  BY <1>1
<1>4. r \in Row
  BY <1>2 DEF Row
<1>5. alloc' \in [RowIds -> Row]
  BY <1>1, <1>4
<1> QED BY <1>2, <1>3, <1>5

\* Changing the mark of one row, and what it leaves.
LEMMA RowMark ==
  ASSUME alloc \in [RowIds -> Row], NEW a \in RowIds, NEW k \in BOOLEAN,
         alloc' = [alloc EXCEPT ![a].stamped = k]
  PROVE  /\ alloc' \in [RowIds -> Row]
         /\ alloc'[a].amount = alloc[a].amount
         /\ alloc'[a].state = alloc[a].state
         /\ alloc'[a].stamped = k
         /\ \A b \in RowIds : b # a => alloc'[b] = alloc[b]
<1> DEFINE r == [alloc[a] EXCEPT !.stamped = k]
<1>1. alloc' = [alloc EXCEPT ![a] = r]
  BY Zenon
<1>2. r = [amount |-> alloc[a].amount, state |-> alloc[a].state, stamped |-> k]
  BY DEF Row
<1>3. alloc'[a] = r /\ \A b \in RowIds : b # a => alloc'[b] = alloc[b]
  BY <1>1
<1>4. r \in Row
  BY <1>2 DEF Row
<1>5. alloc' \in [RowIds -> Row]
  BY <1>1, <1>4
<1> QED BY <1>2, <1>3, <1>5

\* Stamping one row, and what it leaves.
LEMMA RowStamp ==
  ASSUME alloc \in [RowIds -> Row], NEW a \in RowIds,
         alloc' = [alloc EXCEPT ![a].stamped = TRUE]
  PROVE  /\ alloc' \in [RowIds -> Row]
         /\ alloc'[a].amount = alloc[a].amount
         /\ alloc'[a].state = alloc[a].state
         /\ alloc'[a].stamped
         /\ \A b \in RowIds : b # a => alloc'[b] = alloc[b]
<1>1. alloc'[a].stamped = TRUE /\ alloc' \in [RowIds -> Row]
  BY RowMark
<1> QED BY <1>1, RowMark, Zenon

\* The fields of a row have the types of Row.
LEMMA RowFields ==
  ASSUME alloc \in [RowIds -> Row], NEW a \in RowIds
  PROVE  alloc[a].amount \in Nat /\ alloc[a].state \in {"absent", "live", "reversed"}
         /\ alloc[a].stamped \in BOOLEAN
BY DEF Row

\* Every write to the allocations keeps them rows.
LEMMA AllocTyped ==
  ASSUME Shape, NEW p \in Requests, Acts(p)
  PROVE  alloc' \in [RowIds -> Row]
<1> USE DEF Shape, TypeOK, BookTypeOK
<1>1. ASSUME NEW i \in Invoices, Allocate(p, i) PROVE alloc' \in [RowIds -> Row]
  <2>1. alloc' = [alloc EXCEPT ![Own(p, i, p)] = LiveRow(share[p][i], FALSE)]
    BY <1>1, Zenon DEF Allocate
  <2>2. LiveRow(share[p][i], FALSE) \in Row
    BY LiveRowType
  <2> QED BY <2>1, <2>2
<1>2. ASSUME NEW s \in Sources, Stamp(p, s) PROVE alloc' \in [RowIds -> Row]
  <2>1. Target(p) \in Invoices
    BY <1>2, TargetType DEF Stamp
  <2>2. Own(p, Target(p), s) \in RowIds
    BY <2>1, OwnRow
  <2>3. alloc' = [alloc EXCEPT ![Own(p, Target(p), s)].stamped = TRUE]
    BY <1>2, Zenon DEF Stamp
  <2> QED BY <2>2, <2>3, RowStamp, Zenon
<1>3. ASSUME Mark(p) PROVE alloc' \in [RowIds -> Row]
  <2>1. row[p] \in RowIds
    BY <1>3 DEF Mark, Inputs, OnRow
  <2>2. alloc' = [alloc EXCEPT ![row[p]].state = "reversed"] \/ alloc' = alloc
    BY <1>3, Zenon DEF Mark
  <2> QED BY <2>1, <2>2, RowStateChange, Zenon
<1>4. ASSUME Restore(p) PROVE alloc' \in [RowIds -> Row]
  <2>1. row[p] \in RowIds
    BY <1>4 DEF Restore, Inputs, OnRow
  <2>2. alloc' = [alloc EXCEPT ![row[p]].state = "live"] \/ alloc' = alloc
    BY <1>4, Zenon DEF Restore
  <2> QED BY <2>1, <2>2, RowStateChange, Zenon
<1>5. ASSUME NEW s \in Sources, CreditRow(p, s) PROVE alloc' \in [RowIds -> Row]
  <2>1. alloc' = [alloc EXCEPT ![Own(p, Target(p), s)] = LiveRow(plan[p][s], FALSE)]
    BY <1>5, Zenon DEF CreditRow
  <2>2. LiveRow(plan[p][s], FALSE) \in Row
    BY LiveRowType
  <2> QED BY <2>1, <2>2
<1>6. ASSUME NEW s \in Sources, Undo(p, s) PROVE alloc' \in [RowIds -> Row]
  <2>1. Target(p) \in Invoices
    BY <1>6, TargetType DEF Undo
  <2>2. Own(p, Target(p), s) \in RowIds
    BY <2>1, OwnRow
  <2>3. alloc' = [alloc EXCEPT ![Own(p, Target(p), s)].state = "absent"]
    BY <1>6, Zenon DEF Undo
  <2> QED BY <2>2, <2>3, RowStateChange, Zenon
<1>7. ASSUME NEW a \in RowIds, Sweep(p, a) PROVE alloc' \in [RowIds -> Row]
  <2>1. alloc' = [alloc EXCEPT ![a].state = "reversed"] \/ alloc' = alloc
    BY <1>7, Zenon DEF Sweep
  <2> QED BY <2>1, RowStateChange, Zenon
<1>8. ASSUME NEW a \in RowIds, MarkCross(p, a) PROVE alloc' \in [RowIds -> Row]
  <2>1. alloc' = [alloc EXCEPT ![a].state = "reversed"] \/ alloc' = alloc
    BY <1>8, Zenon DEF MarkCross
  <2> QED BY <2>1, RowStateChange, Zenon
<1> HIDE DEF Shape, TypeOK
<1>9. alloc \in [RowIds -> Row]
  BY DEF Shape, TypeOK
<1> QED
  BY Frame, <1>1, <1>2, <1>3, <1>4, <1>5, <1>6, <1>7, <1>8, <1>9, Zenon DEF AllocWriter

\* Closing and reopening keep invoice statuses in their two values.
LEMMA StatusTyped ==
  ASSUME Shape, NEW p \in Requests, Acts(p)
  PROVE  /\ status' \in [Invoices -> {"issued", "cancelled"}]
         /\ noteStatus' \in [Notes -> {"absent", "issued", "cancelled"}]
<1>1. /\ status \in [Invoices -> {"issued", "cancelled"}]
      /\ noteStatus \in [Notes -> {"absent", "issued", "cancelled"}]
  BY DEF Shape, TypeOK, BookTypeOK
<1>2. ASSUME StatusWriter(p) PROVE status' \in [Invoices -> {"issued", "cancelled"}]
  BY <1>1, <1>2 DEF StatusWriter, Close, Reopen
<1>3. ASSUME NoteWriter(p)
      PROVE  noteStatus' \in [Notes -> {"absent", "issued", "cancelled"}]
  BY <1>1, <1>3 DEF NoteWriter, Issue, CloseNote, Stranded
<1> QED BY <1>1, <1>2, <1>3, Frame

\* Claims, releases and the raised baseline keep the capacity counter a number.
LEMMA SettledTyped ==
  ASSUME Shape, NEW p \in Requests, Acts(p)
  PROVE  settled' \in [Invoices -> Nat \cup {Missing}]
<1> DEFINE T == settled' \in [Invoices -> Nat \cup {Missing}]
<1>1. /\ settled \in [Invoices -> Nat \cup {Missing}]
      /\ seen[p] \in [Invoices -> Nat \cup {Missing}]
      /\ share[p] \in [Invoices -> Nat] /\ Total \in [Invoices -> Nat]
      /\ alloc \in [RowIds -> Row]
  BY BookShape DEF Shape, TypeOK, BookTypeOK
<1>2. ASSUME NEW i \in Invoices, Raise(p, i) PROVE T
  BY <1>1, <1>2 DEF Raise
<1>3. ASSUME NEW i \in Invoices, Claim(p, i) PROVE T
  BY <1>1, <1>3 DEF Claim, CanClaimSettlement, ClaimSettlement, Missing
<1>4. ASSUME NEW i \in Invoices, Release(p, i) PROVE T
  BY <1>1, <1>4 DEF Release, ReleaseSettlement, Missing
<1>5. pc[p] \in {"giveRoom", "crossRoom"} => row[p] \in RowIds
  BY DEF Shape, Inputs, OnRow
<1>6. ASSUME NEW i \in Invoices, NEW x \in Nat, ReleaseSettlement(i, x) PROVE T
  BY <1>1, <1>6 DEF ReleaseSettlement, Missing
<1>7. CASE GiveRoom(p) \/ CrossRoom(p)
  <2>1. row[p] \in RowIds /\ ReleaseSettlement(InvoiceOf(row[p]), alloc[row[p]].amount)
    BY <1>5, <1>7, Zenon DEF GiveRoom, CrossRoom
  <2>2. InvoiceOf(row[p]) \in Invoices /\ alloc[row[p]].amount \in Nat
    BY <1>1, <2>1, RowIdParts, RowFields
  <2> QED BY <1>6, <2>1, <2>2
<1> QED BY <1>1, <1>2, <1>3, <1>4, <1>7, Frame DEF SettledWriter

\* The room counter and the notes' applied counters stay natural numbers: every
\* decrement is floored by its filter.
LEMMA CountersTyped ==
  ASSUME Shape, NEW p \in Requests, Acts(p)
  PROVE  credited' \in [Invoices -> Nat] /\ applied' \in [Notes -> Nat]
<1>1. /\ credited \in [Invoices -> Nat] /\ applied \in [Notes -> Nat]
      /\ plan[p] \in [Sources -> Nat] /\ NoteTotal \in [Notes -> Nat]
      /\ alloc \in [RowIds -> Row] /\ Total \in [Invoices -> Nat]
  BY BookShape DEF Shape, TypeOK, BookTypeOK
<1>2. pc[p] \in {"claimRoom", "releaseRoom"} => job[p].note \in Notes
  BY DEF Shape, Inputs, OnNote
<1>3. ASSUME ClaimRoom(p) PROVE credited' \in [Invoices -> Nat]
  BY <1>1, <1>2, <1>3, TargetType DEF ClaimRoom, CanClaimCredit, ClaimCredit
<1>4. ASSUME ReleaseRoom(p) PROVE credited' \in [Invoices -> Nat]
  <2>1. NoteTotal[job[p].note] \in Nat
    BY <1>1, <1>2, <1>4 DEF ReleaseRoom
  <2>2. ReleaseCredit(Target(p), NoteTotal[job[p].note])
    BY <1>4 DEF ReleaseRoom
  <2>3. Target(p) \in Invoices
    BY <1>4, TargetType DEF ReleaseRoom
  <2> QED BY <1>1, <2>1, <2>2, <2>3 DEF ReleaseCredit
<1>5. credited' \in [Invoices -> Nat]
  BY <1>1, <1>3, <1>4, Frame DEF CreditedWriter
<1>6. ASSUME NEW s \in Sources, NEW x \in Nat,
             \/ CanGiveBack(s, x) /\ GiveBack(s, x)
             \/ CanDraw(s, x) /\ Draw(s, x)
      PROVE  applied' \in [Notes -> Nat]
  BY <1>1, <1>6 DEF CanGiveBack, GiveBack, CanDraw, Draw
<1>7. ASSUME GiveSource(p) PROVE applied' \in [Notes -> Nat]
  <2>1. row[p] \in RowIds
    BY <1>7 DEF GiveSource, Shape, Inputs, OnRow
  <2>2. SourceOf(row[p]) \in Sources /\ alloc[row[p]].amount \in Nat
    BY <1>1, <2>1, RowIdParts, RowFields
  <2>3. \/ CanGiveBack(SourceOf(row[p]), alloc[row[p]].amount)
           /\ GiveBack(SourceOf(row[p]), alloc[row[p]].amount)
        \/ applied' = applied
    BY <1>7 DEF GiveSource
  <2>4. CASE applied' = applied
    BY <1>1, <2>4
  <2>5. CASE CanGiveBack(SourceOf(row[p]), alloc[row[p]].amount)
             /\ GiveBack(SourceOf(row[p]), alloc[row[p]].amount)
    BY <1>6, <2>2, <2>5, Zenon
  <2> QED BY <2>3, <2>4, <2>5
<1>8. ASSUME NEW s \in Sources, DrawCredit(p, s) \/ GiveBackDrawn(p, s)
      PROVE  applied' \in [Notes -> Nat]
  <2>1. plan[p][s] \in Nat
    BY <1>1
  <2>2. \/ CanGiveBack(s, plan[p][s]) /\ GiveBack(s, plan[p][s])
        \/ CanDraw(s, plan[p][s]) /\ Draw(s, plan[p][s])
        \/ applied' = applied
    BY <1>8 DEF DrawCredit, GiveBackDrawn
  <2>3. CASE applied' = applied
    BY <1>1, <2>3
  <2>4. CASE \/ CanGiveBack(s, plan[p][s]) /\ GiveBack(s, plan[p][s])
             \/ CanDraw(s, plan[p][s]) /\ Draw(s, plan[p][s])
    BY <1>6, <2>1, <2>4, Zenon
  <2> QED BY <2>2, <2>3, <2>4
<1>9. applied' \in [Notes -> Nat]
  BY <1>1, <1>7, <1>8, Frame DEF AppliedWriter
<1> QED BY <1>5, <1>9

\* Moving money between the parts of one receipt.
LEMMA ReceiptFields ==
  ASSUME pay \in [Receipts -> Receipt], NEW r \in Receipts
  PROVE  /\ pay[r].amount \in Nat /\ pay[r].allocated \in Nat
         /\ pay[r].unapplied \in Nat /\ pay[r].refundable \in Nat
BY DEF Receipt

\* Drawing from a receipt, or giving back to it, keeps its figures natural.
LEMMA DrawTyped ==
  ASSUME pay \in [Receipts -> Receipt], NEW s \in Sources, NEW x \in Nat,
         \/ CanDraw(s, x) /\ Draw(s, x)
         \/ CanGiveBack(s, x) /\ GiveBack(s, x)
  PROVE  pay' \in [Receipts -> Receipt]
<1>1. CASE s \in Notes
  BY <1>1 DEF Draw, GiveBack
<1>2. CASE s \notin Notes
  <2>1. s \in Receipts
    BY <1>2 DEF Sources
  <2>2. pay[s].unapplied \in Nat /\ pay[s].allocated \in Nat /\ pay[s] \in Receipt
    BY <2>1, ReceiptFields
  <2>3. ASSUME NEW u \in Nat, NEW v \in Nat
        PROVE  /\ [pay[s] EXCEPT !.unapplied = u, !.allocated = v] \in Receipt
               /\ [pay[s] EXCEPT !.allocated = v, !.unapplied = u] \in Receipt
    BY <2>2 DEF Receipt
  <2>4. CASE CanDraw(s, x) /\ Draw(s, x)
    <3>1. pay' = [pay EXCEPT ![s] = [pay[s] EXCEPT !.unapplied = pay[s].unapplied - x,
                                                  !.allocated = pay[s].allocated + x]]
      BY <1>2, <2>4, Zenon DEF Draw
    <3>2. pay[s].unapplied - x \in Nat /\ pay[s].allocated + x \in Nat
      BY <1>2, <2>2, <2>4 DEF CanDraw
    <3> QED BY <2>1, <2>3, <3>1, <3>2, Zenon
  <2>5. CASE CanGiveBack(s, x) /\ GiveBack(s, x)
    <3>1. pay' = [pay EXCEPT ![s] = [pay[s] EXCEPT !.allocated = pay[s].allocated - x,
                                                  !.unapplied = pay[s].unapplied + x]]
      BY <1>2, <2>5, Zenon DEF GiveBack
    <3>2. pay[s].unapplied + x \in Nat /\ pay[s].allocated - x \in Nat
      BY <1>2, <2>2, <2>5 DEF CanGiveBack
    <3> QED BY <2>1, <2>3, <3>1, <3>2, Zenon
  <2> QED BY <2>4, <2>5
<1> QED BY <1>1, <1>2

\* Turning allocated money refundable keeps the receipt's figures natural.
LEMMA RefundTyped ==
  ASSUME pay \in [Receipts -> Receipt], NEW r, NEW x \in Nat,
         CanRefund(r, x), Refund(r, x)
  PROVE  pay' \in [Receipts -> Receipt]
<1>1. CASE r \notin Receipts
  BY <1>1 DEF Refund
<1>2. CASE r \in Receipts
  <2>1. pay[r].refundable \in Nat /\ pay[r].allocated \in Nat /\ pay[r] \in Receipt
    BY <1>2, ReceiptFields
  <2>2. ASSUME NEW u \in Nat, NEW v \in Nat
        PROVE  [pay[r] EXCEPT !.allocated = u, !.refundable = v, !.refund = "pending"]
                 \in Receipt
    BY <2>1 DEF Receipt
  <2>3. pay' = [pay EXCEPT ![r] = [pay[r] EXCEPT !.allocated = pay[r].allocated - x,
                !.refundable = pay[r].refundable + x, !.refund = "pending"]]
    BY <1>2, Zenon DEF Refund
  <2>4. pay[r].allocated - x \in Nat /\ pay[r].refundable + x \in Nat
    BY <1>2, <2>1 DEF CanRefund
  <2> QED BY <1>2, <2>2, <2>3, <2>4, Zenon
<1> QED BY <1>1, <1>2

\* Withdrawing what a receipt still holds keeps its figures natural.
LEMMA WithdrawTyped ==
  ASSUME pay \in [Receipts -> Receipt], NEW r \in Receipts, Withdraw(r, pay[r].unapplied)
  PROVE  pay' \in [Receipts -> Receipt]
<1>1. pay[r].refundable \in Nat /\ pay[r].unapplied \in Nat /\ pay[r] \in Receipt
  BY ReceiptFields
<1>2. ASSUME NEW u \in Nat, NEW v \in Nat
      PROVE  [pay[r] EXCEPT !.unapplied = u, !.refundable = v] \in Receipt
  BY <1>1 DEF Receipt
<1>3. pay' = [pay EXCEPT ![r] = [pay[r] EXCEPT !.unapplied = pay[r].unapplied - pay[r].unapplied,
              !.refundable = pay[r].refundable + pay[r].unapplied]]
  BY Zenon DEF Withdraw
<1>4. pay[r].unapplied - pay[r].unapplied \in Nat /\ pay[r].refundable + pay[r].unapplied \in Nat
  BY <1>1
<1> QED BY <1>2, <1>3, <1>4, Zenon

\* Flagging receipts as pending refund keeps them receipts.
LEMMA FlagTyped ==
  ASSUME pay \in [Receipts -> Receipt], NEW i
  PROVE  FlagPending(pay, i) \in [Receipts -> Receipt]
<1> DEFINE m(r) == [pay[r] EXCEPT !.refund = "pending"]
<1>1. \A r \in Receipts : m(r) \in Receipt
  BY DEF Receipt
<1>2. FlagPending(pay, i) = [r \in Receipts |-> IF pay[r].inv = i THEN m(r) ELSE pay[r]]
  BY DEF FlagPending
<1> HIDE DEF m
<1> QED BY <1>1, <1>2

\* The live total of an invoice is a natural number.
LEMMA LiveType ==
  ASSUME alloc \in [RowIds -> Row], NEW i \in Invoices
  PROVE  LiveRows(i) \in [RowIds -> Nat] /\ Live(i) \in Nat
<1>1. LiveRows(i) \in [RowIds -> Nat]
  BY RowFields DEF LiveRows
<1> QED BY <1>1, Finite, SumNat DEF Live

\* The fields of a job have the types of Job.
LEMMA JobFields ==
  ASSUME TypeOK, NEW p \in Requests
  PROVE  /\ job[p] \in Job /\ job[p].amount \in Nat
         /\ job[p].targets \in Seq(Invoices) /\ Len(job[p].targets) \in Nat
         /\ \A k \in DOMAIN job[p].targets : job[p].targets[k] \in Invoices
         /\ DOMAIN job[p].targets = 1..Len(job[p].targets)
<1>1. job[p] \in Job
  BY DEF TypeOK
<1>2. job[p].targets \in Seq(Invoices) /\ job[p].amount \in Nat
  BY <1>1 DEF Job
<1> QED BY <1>1, <1>2

\* The balance a receipt may settle, as read, is a natural number.
LEMMA BalanceType ==
  ASSUME NEW reads \in [Invoices -> Nat \cup {Missing}], NEW i \in Invoices
  PROVE  Balance(i, reads) \in Nat
<1>1. Total[i] \in Nat /\ (reads[i] \in Nat \/ reads[i] = -1)
  BY BookShape DEF Missing
<1> QED BY <1>1 DEF Balance

\* What is left of a receipt's amount is part of it.
LEMMA LeftType ==
  ASSUME TypeOK, NEW p \in Requests, NEW reads \in [Invoices -> Nat \cup {Missing}],
         NEW k \in 1..(Len(job[p].targets) + 1)
  PROVE  Left(p, reads, k) \in Nat /\ Left(p, reads, k) <= job[p].amount
<1>1. \A i \in Invoices : Balance(i, reads) \in Nat
  BY BalanceType
<1> DEFINE f == [j \in 1..(k - 1) |-> Balance(job[p].targets[j], reads)]
<1>2. f \in [1..(k - 1) -> Nat]
  BY <1>1, JobFields
<1>3. IsFiniteSet(1..(k - 1))
  <2>1. k - 1 \in Int
    BY JobFields
  <2> QED BY <2>1, FS_Interval
<1>4. Sum(f) \in Nat
  BY <1>2, <1>3, SumNat
<1> HIDE DEF f
<1>5. job[p].amount \in Nat
  BY JobFields
<1>6. Left(p, reads, k) = IF Sum(f) < job[p].amount THEN job[p].amount - Sum(f) ELSE 0
  BY DEF Left, f
<1> QED BY <1>4, <1>5, <1>6

\* What a new receipt parks as credit is a natural number.
LEMMA UnappliedType ==
  ASSUME TypeOK, NEW p \in Requests, NEW reads \in [Invoices -> Nat \cup {Missing}]
  PROVE  Unapplied(p, reads) \in Nat /\ Unapplied(p, reads) <= job[p].amount
<1>1. Len(job[p].targets) + 1 \in 1..(Len(job[p].targets) + 1)
  BY JobFields
<1> QED BY <1>1, LeftType DEF Unapplied

\* The share a receipt reserves on an invoice is a natural number.
LEMMA GreedyShareType ==
  ASSUME TypeOK, NEW p \in Requests, NEW reads \in [Invoices -> Nat \cup {Missing}],
         NEW i \in Invoices
  PROVE  GreedyShare(p, reads, i) \in Nat
<1> DEFINE k == CHOOSE n \in DOMAIN job[p].targets : job[p].targets[n] = i
<1>1. CASE IsTarget(p, i)
  <2>1. k \in DOMAIN job[p].targets
    BY <1>1 DEF IsTarget
  <2> HIDE DEF k
  <2>2. k \in 1..(Len(job[p].targets) + 1)
    BY <2>1, JobFields
  <2>3. Left(p, reads, k) \in Nat
    BY <2>2, LeftType
  <2>4. Balance(i, reads) \in Nat
    BY BalanceType
  <2>5. GreedyShare(p, reads, i) = Least(Balance(i, reads), Left(p, reads, k))
    BY <1>1 DEF GreedyShare, k
  <2> QED BY <2>3, <2>4, <2>5 DEF Least
<1>2. CASE ~IsTarget(p, i)
  BY <1>2 DEF GreedyShare
<1> QED BY <1>1, <1>2

\* Every write to the receipts keeps them receipts.
LEMMA PayTyped ==
  ASSUME Shape, NEW p \in Requests, Acts(p)
  PROVE  pay' \in [Receipts -> Receipt]
<1> DEFINE T == pay' \in [Receipts -> Receipt]
<1>1. /\ pay \in [Receipts -> Receipt] /\ alloc \in [RowIds -> Row]
      /\ plan[p] \in [Sources -> Nat] /\ TypeOK
      /\ seen[p] \in [Invoices -> Nat \cup {Missing}]
      /\ holding[p] \subseteq Receipts
  BY DEF Shape, TypeOK, BookTypeOK
<1>2. ASSUME Receive(p) PROVE T
  <2>1. LastTarget(p) \in Invoices
    BY <1>2, TargetType DEF Receive
  <2>2. /\ Unapplied(p, seen[p]) \in Nat /\ job[p].amount \in Nat
        /\ Unapplied(p, seen[p]) <= job[p].amount
    BY <1>1, UnappliedType, JobFields
  <2> DEFINE m == NewReceipt(LastTarget(p), job[p].amount, job[p].amount - Unapplied(p, seen[p]))
  <2>3. m \in Receipt
    BY <2>1, <2>2 DEF NewReceipt, Receipt
  <2>4. pay' = [pay EXCEPT ![p] = m]
    BY <1>2, Zenon DEF Receive
  <2> QED BY <1>1, <2>3, <2>4
<1>3. ASSUME GiveSource(p) PROVE T
  <2>1. row[p] \in RowIds
    BY <1>3 DEF GiveSource, Shape, Inputs, OnRow
  <2>2. SourceOf(row[p]) \in Sources /\ alloc[row[p]].amount \in Nat
    BY <1>1, <2>1, RowIdParts, RowFields
  <2>3. \/ CanGiveBack(SourceOf(row[p]), alloc[row[p]].amount)
           /\ GiveBack(SourceOf(row[p]), alloc[row[p]].amount)
        \/ pay' = pay
    BY <1>3 DEF GiveSource
  <2> QED BY <1>1, <2>2, <2>3, DrawTyped
<1>4. ASSUME RefundCross(p) PROVE T
  <2>1. row[p] \in RowIds
    BY <1>4 DEF RefundCross, Shape, Inputs, OnRow
  <2>2. alloc[row[p]].amount \in Nat
    BY <1>1, <2>1, RowFields
  <2>3. \/ CanRefund(SourceOf(row[p]), alloc[row[p]].amount)
           /\ Refund(SourceOf(row[p]), alloc[row[p]].amount)
        \/ pay' = pay
    BY <1>4 DEF RefundCross
  <2> QED BY <1>1, <2>2, <2>3, RefundTyped
<1>5. ASSUME TakePool(p) PROVE T
  <2>1. holding[p] # {}
    BY <1>5 DEF TakePool, Shape, Inputs
  <2>2. Holder(p) \in Receipts
    BY <1>1, <2>1 DEF Holder
  <2>3. Withdraw(Holder(p), pay[Holder(p)].unapplied) \/ pay' = pay
    BY <1>5 DEF TakePool
  <2> QED BY <1>1, <2>2, <2>3, WithdrawTyped
<1>6. ASSUME MarkPending(p) PROVE T
  BY <1>1, <1>6, FlagTyped DEF MarkPending
<1>7. ASSUME NEW s \in Sources, DrawCredit(p, s) \/ GiveBackDrawn(p, s) PROVE T
  <2>1. plan[p][s] \in Nat
    BY <1>1
  <2>2. \/ CanGiveBack(s, plan[p][s]) /\ GiveBack(s, plan[p][s])
        \/ CanDraw(s, plan[p][s]) /\ Draw(s, plan[p][s])
        \/ pay' = pay
    BY <1>7 DEF DrawCredit, GiveBackDrawn
  <2> QED BY <1>1, <2>1, <2>2, DrawTyped
<1> QED BY <1>1, <1>2, <1>3, <1>4, <1>5, <1>6, <1>7, Frame DEF PayWriter

\* Updating one request's value keeps a function of requests typed.
LEMMA UpdateOne ==
  ASSUME NEW S, NEW V, NEW f \in [S -> V], NEW s \in S, NEW v \in V
  PROVE  [f EXCEPT ![s] = v] \in [S -> V]
OBVIOUS

\* Updating one request's value on one invoice keeps the function typed.
LEMMA UpdateTwo ==
  ASSUME NEW S, NEW U, NEW V, NEW f \in [S -> [U -> V]], NEW s \in S, NEW u \in U,
         NEW v \in V
  PROVE  [f EXCEPT ![s][u] = v] \in [S -> [U -> V]]
OBVIOUS

\* Only a starting request sets its job, and to a job.
LEMMA JobTyped ==
  ASSUME Shape, NEW p \in Requests, Acts(p)
  PROVE  job' \in [Requests -> Job]
<1>1. job \in [Requests -> Job]
  BY DEF Shape, TypeOK
<1>2. ASSUME NEW k \in {"receipt", "apply", "reverse", "cancel", "note", "cancelNote"},
             NEW T \in Seq(Invoices), NEW x \in Nat, NEW n \in Notes \cup {"none"},
             NEW label, Start(p, k, T, x, n, label)
      PROVE  job' \in [Requests -> Job]
  <2>1. [kind |-> k, targets |-> T, amount |-> x, note |-> n] \in Job
    BY DEF Job
  <2> QED BY <1>1, <1>2, <2>1 DEF Start
<1>3. TargetLists \subseteq Seq(Invoices) /\ Amounts \subseteq Nat
  BY RequestShape
<1>4. \A i \in Invoices : <<i>> \in Seq(Invoices)
  OBVIOUS
<1>5. \A a \in RowIds : InvoiceOf(a) \in Invoices
  BY RowIdParts
<1>6. \A n \in Notes : NoteInvoice[n] \in Invoices
  BY BookShape
<1>7. ASSUME NEW T \in TargetLists, NEW x \in Amounts, StartReceipt(p, T, x)
      PROVE  job' \in [Requests -> Job]
  <2>1. Start(p, "receipt", T, x, "none", "readBalance")
    BY <1>7 DEF StartReceipt
  <2> QED BY <1>2, <1>3, <2>1
<1>8. ASSUME NEW i \in Invoices, NEW x \in Amounts, StartApply(p, i, x)
      PROVE  job' \in [Requests -> Job]
  <2>1. Start(p, "apply", <<i>>, x, "none", "readBalance")
    BY <1>8 DEF StartApply
  <2> QED BY <1>2, <1>3, <1>4, <2>1
<1>9. ASSUME NEW a \in RowIds, StartReverse(p, a)
      PROVE  job' \in [Requests -> Job]
  <2>1. Start(p, "reverse", <<InvoiceOf(a)>>, 0, "none", "mark")
    BY <1>9 DEF StartReverse
  <2> QED BY <1>2, <1>4, <1>5, <2>1
<1>10. ASSUME NEW i \in Invoices, StartCancel(p, i)
      PROVE  job' \in [Requests -> Job]
  <2>1. Start(p, "cancel", <<i>>, 0, "none", "close")
    BY <1>10 DEF StartCancel
  <2> QED BY <1>2, <1>4, <2>1
<1>11. ASSUME NEW n \in Notes, StartNote(p, n) \/ StartCancelNote(p, n)
       PROVE  job' \in [Requests -> Job]
  <2>1. \/ Start(p, "note", <<NoteInvoice[n]>>, 0, n, "claimRoom")
        \/ Start(p, "cancelNote", <<NoteInvoice[n]>>, 0, n, "closeNote")
    BY <1>11 DEF StartNote, StartCancelNote
  <2> QED BY <1>2, <1>4, <1>6, <2>1
<1> QED BY <1>1, <1>7, <1>8, <1>9, <1>10, <1>11, Frame DEF Starter

\* What a request reads, shares and plans stays typed.
LEMMA PlanTyped ==
  ASSUME Shape, NEW p \in Requests, Acts(p)
  PROVE  /\ seen' \in [Requests -> [Invoices -> Nat \cup {Missing}]]
         /\ share' \in [Requests -> [Invoices -> Nat]]
         /\ plan' \in [Requests -> [Sources -> Nat]]
<1>1. /\ seen \in [Requests -> [Invoices -> Nat \cup {Missing}]]
      /\ share \in [Requests -> [Invoices -> Nat]]
      /\ plan \in [Requests -> [Sources -> Nat]] /\ job[p].amount \in Nat
      /\ TypeOK /\ alloc \in [RowIds -> Row]
  BY JobFields DEF Shape, TypeOK, BookTypeOK
<1>2. \A i \in Invoices : Live(i) \in Nat
  BY <1>1, LiveType
<1>3. ASSUME NEW i \in Invoices, ReadBalance(p, i)
      PROVE  seen' \in [Requests -> [Invoices -> Nat \cup {Missing}]]
             /\ share' \in [Requests -> [Invoices -> Nat]]
  <2> DEFINE reads == [seen[p] EXCEPT ![i] = Live(i)]
             shares == [j \in Invoices |-> GreedyShare(p, reads, j)]
  <2>1. reads \in [Invoices -> Nat \cup {Missing}]
    BY <1>1, <1>2
  <2>2. shares \in [Invoices -> Nat]
    BY <1>1, <2>1, GreedyShareType
  <2>3. seen' = seen \/ seen' = [seen EXCEPT ![p] = reads]
    BY <1>3 DEF ReadBalance
  <2>4. share' = share \/ share' = [share EXCEPT ![p] = shares]
    BY <1>3 DEF ReadBalance
  <2> HIDE DEF reads, shares
  <2> QED BY <1>1, <2>1, <2>2, <2>3, <2>4
<1>4. ASSUME ReadForCredit(p)
      PROVE  seen' \in [Requests -> [Invoices -> Nat \cup {Missing}]]
             /\ share' \in [Requests -> [Invoices -> Nat]]
  <2>1. Target(p) \in Invoices
    BY <1>4, TargetType DEF ReadForCredit
  <2>2. seen' = seen \/ seen' = [seen EXCEPT ![p][Target(p)] = Live(Target(p))]
    BY <1>4 DEF ReadForCredit
  <2>3. share' = share \/ share' = [share EXCEPT ![p][Target(p)] = job[p].amount]
    BY <1>4 DEF ReadForCredit
  <2>4. seen' \in [Requests -> [Invoices -> Nat \cup {Missing}]]
    <3>1. Live(Target(p)) \in Nat \cup {Missing}
      BY <1>2, <2>1
    <3>2. seen \in [Requests -> [Invoices -> Nat \cup {Missing}]]
      BY <1>1
    <3>3. CASE seen' = [seen EXCEPT ![p][Target(p)] = Live(Target(p))]
      BY <2>1, <3>1, <3>2, <3>3, UpdateTwo
    <3> QED BY <2>2, <3>2, <3>3
  <2>5. share' \in [Requests -> [Invoices -> Nat]]
    <3>1. share \in [Requests -> [Invoices -> Nat]] /\ job[p].amount \in Nat
      BY <1>1
    <3>2. CASE share' = [share EXCEPT ![p][Target(p)] = job[p].amount]
      BY <2>1, <3>1, <3>2, UpdateTwo
    <3> QED BY <2>3, <3>1, <3>2
  <2> QED BY <2>4, <2>5
<1>5. ASSUME PlanCredit(p) PROVE plan' \in [Requests -> [Sources -> Nat]]
  <2>1. plan' = plan \/ \E draws \in [Sources -> 0..job[p].amount] :
                          plan' = [plan EXCEPT ![p] = draws]
    BY <1>5 DEF PlanCredit
  <2>2. \A draws \in [Sources -> 0..job[p].amount] : draws \in [Sources -> Nat]
    BY <1>1
  <2> QED BY <1>1, <2>1, <2>2
<1> QED BY <1>1, <1>3, <1>4, <1>5, Frame DEF Reader, Planner

\* What a request has claimed, drawn and stored stays typed.
LEMMA ProgressTyped ==
  ASSUME Shape, NEW p \in Requests, Acts(p)
  PROVE  /\ claimed' \in [Requests -> SUBSET Invoices]
         /\ drawn' \in [Requests -> SUBSET Sources]
         /\ stored' \in [Requests -> Nat \cup {Missing}]
         /\ tries' \in [Requests -> Nat]
<1>1. /\ claimed \in [Requests -> SUBSET Invoices]
      /\ drawn \in [Requests -> SUBSET Sources]
      /\ stored \in [Requests -> Nat \cup {Missing}]
      /\ tries \in [Requests -> Nat]
      /\ settled \in [Invoices -> Nat \cup {Missing}]
      /\ pay \in [Receipts -> Receipt] /\ holding[p] \subseteq Receipts
  BY DEF Shape, TypeOK, BookTypeOK
<1>2. ASSUME ClaimedWriter(p) PROVE claimed' \in [Requests -> SUBSET Invoices]
  <2>1. \/ claimed' = claimed
        \/ \E i \in Invoices : claimed' = [claimed EXCEPT ![p] = @ \cup {i}]
        \/ \E i \in Invoices : claimed' = [claimed EXCEPT ![p] = @ \ {i}]
    BY <1>2 DEF ClaimedWriter, Claim, Allocate, Release
  <2> QED BY <1>1, <2>1
<1>3. ASSUME DrawnWriter(p) PROVE drawn' \in [Requests -> SUBSET Sources]
  BY <1>1, <1>3 DEF DrawnWriter, DrawCredit, GiveBackDrawn
<1>4. ASSUME NEW i \in Invoices, Baseline(p, i) \/ Raise(p, i)
      PROVE  /\ stored' \in [Requests -> Nat \cup {Missing}]
             /\ tries' \in [Requests -> Nat]
  BY <1>1, <1>4 DEF Baseline, Raise
<1>5. ASSUME ReadPool(p) PROVE /\ stored' \in [Requests -> Nat \cup {Missing}]
                               /\ tries' \in [Requests -> Nat]
  <2>1. Holder(p) \in Receipts
    BY <1>1, <1>5 DEF ReadPool, Holder
  <2>2. pay[Holder(p)].unapplied \in Nat
    BY <1>1, <2>1, ReceiptFields
  <2> QED BY <1>1, <1>5, <2>2 DEF ReadPool
<1>6. ASSUME TakePool(p) PROVE /\ stored' \in [Requests -> Nat \cup {Missing}]
                               /\ tries' \in [Requests -> Nat]
  BY <1>1, <1>6 DEF TakePool
<1> QED BY <1>1, <1>2, <1>3, <1>4, <1>5, <1>6, Frame DEF StoredWriter

\* The local state of a sweep or a reversal stays typed.
LEMMA SweepTyped ==
  ASSUME Shape, NEW p \in Requests, Acts(p)
  PROVE  /\ rows' \in [Requests -> SUBSET RowIds]
         /\ row' \in [Requests -> RowIds \cup {NoRowId}]
         /\ passes' \in [Requests -> Nat]
         /\ found' \in [Requests -> BOOLEAN]
         /\ holding' \in [Requests -> SUBSET Receipts]
<1>1. /\ rows \in [Requests -> SUBSET RowIds]
      /\ row \in [Requests -> RowIds \cup {NoRowId}]
      /\ passes \in [Requests -> Nat]
      /\ found \in [Requests -> BOOLEAN]
      /\ holding \in [Requests -> SUBSET Receipts]
  BY DEF Shape, TypeOK
<1>2. ASSUME SweepWriter(p)
      PROVE  /\ rows' \in [Requests -> SUBSET RowIds]
             /\ row' \in [Requests -> RowIds \cup {NoRowId}]
  <2>1. ASSUME NEW a \in RowIds, StartReverse(p, a) \/ Sweep(p, a) \/ MarkCross(p, a)
        PROVE  /\ rows' \in [Requests -> SUBSET RowIds]
               /\ row' \in [Requests -> RowIds \cup {NoRowId}]
    BY <1>1, <2>1 DEF StartReverse, Sweep, MarkCross
  <2>2. ASSUME ListRows(p) \/ ListCross(p) \/ RefundCross(p)
        PROVE  /\ rows' \in [Requests -> SUBSET RowIds]
               /\ row' \in [Requests -> RowIds \cup {NoRowId}]
    BY <1>1, <2>2 DEF ListRows, ListCross, RefundCross
  <2> QED BY <1>2, <2>1, <2>2 DEF SweepWriter
<1>3. ASSUME SweepWriter(p)
      PROVE  passes' \in [Requests -> Nat] /\ found' \in [Requests -> BOOLEAN]
  <2>1. passes' = passes \/ passes' = [passes EXCEPT ![p] = @ + 1]
    BY <1>3 DEF SweepWriter, StartReverse, ListRows, Sweep, ListCross, MarkCross,
                RefundCross
  <2>2. \/ found' = found \/ found' = [found EXCEPT ![p] = TRUE]
        \/ found' = [found EXCEPT ![p] = FALSE]
    BY <1>3 DEF SweepWriter, StartReverse, ListRows, Sweep, ListCross, MarkCross,
                RefundCross
  <2>3. passes' \in [Requests -> Nat]
    BY <1>1, <2>1
  <2>4. TRUE \in BOOLEAN /\ FALSE \in BOOLEAN
    OBVIOUS
  <2>5. found' \in [Requests -> BOOLEAN]
    BY <1>1, <2>2, <2>4, UpdateOne, Zenon
  <2> QED BY <2>3, <2>5
<1>4. HoldingReceipts(Target(p)) \subseteq Receipts
  BY DEF HoldingReceipts
<1>5. ASSUME HoldingWriter(p) PROVE holding' \in [Requests -> SUBSET Receipts]
  BY <1>1, <1>4, <1>5 DEF HoldingWriter, EndPass, ReadPool, TakePool
<1> QED BY <1>1, <1>2, <1>3, <1>5, Frame

\* The accounted capacity stays an integer.
LEMMA HeldTyped ==
  ASSUME Shape, NEW p \in Requests, Acts(p)
  PROVE  held' \in [Requests -> [Invoices -> Int]]
<1>1. /\ held \in [Requests -> [Invoices -> Int]]
      /\ share[p] \in [Invoices -> Nat] /\ plan[p] \in [Sources -> Nat]
      /\ alloc \in [RowIds -> Row]
  BY DEF Shape, TypeOK, BookTypeOK
<1>2. ASSUME NEW i \in Invoices, NEW x \in Int, Hold(p, i, x)
      PROVE  held' \in [Requests -> [Invoices -> Int]]
  BY <1>1, <1>2 DEF Hold
<1>3. ASSUME NEW i \in Invoices, Claim(p, i) \/ Allocate(p, i) \/ Release(p, i)
      PROVE  held' \in [Requests -> [Invoices -> Int]]
  <2>1. \/ Hold(p, i, share[p][i]) \/ Hold(p, i, 0) \/ held' = held
    BY <1>3 DEF Claim, Allocate, Release, history
  <2> QED BY <1>1, <1>2, <2>1
<1>4. ASSUME Mark(p) \/ GiveRoom(p) \/ RefundCross(p) \/ Restore(p)
      PROVE  held' \in [Requests -> [Invoices -> Int]]
  <2>1. row[p] \in RowIds
    BY <1>4 DEF Mark, GiveRoom, RefundCross, Restore, Shape, Inputs, OnRow
  <2>2. InvoiceOf(row[p]) \in Invoices /\ alloc[row[p]].amount \in Int
    BY <1>1, <2>1, RowIdParts, RowFields
  <2>3. \/ Hold(p, InvoiceOf(row[p]), alloc[row[p]].amount)
        \/ Hold(p, InvoiceOf(row[p]), 0) \/ held' = held
    BY <1>4 DEF Mark, GiveRoom, RefundCross, Restore, history
  <2> QED BY <1>1, <1>2, <2>2, <2>3
<1>5. ASSUME NEW s \in Sources, CreditRow(p, s) \/ Undo(p, s)
      PROVE  held' \in [Requests -> [Invoices -> Int]]
  <2> DEFINE i == Target(p)
  <2>1. i \in Invoices
    BY <1>5, TargetType DEF CreditRow, Undo
  <2>2. alloc[Own(p, i, s)].amount \in Int /\ plan[p][s] \in Int /\ held[p][i] \in Int
    BY <1>1, <2>1, OwnRow, RowFields
  <2>3. CASE CreditRow(p, s)
    <3>1. Hold(p, i, held[p][i] - plan[p][s])
      BY <2>3 DEF CreditRow
    <3>2. held[p][i] - plan[p][s] \in Int
      BY <2>2
    <3> QED BY <1>1, <1>2, <2>1, <3>1, <3>2
  <2>4. CASE Undo(p, s)
    <3>1. held' = [held EXCEPT ![p][i] = held[p][i] +
                     IF alloc[Own(p, i, s)].state = "live" THEN alloc[Own(p, i, s)].amount ELSE 0]
      BY <1>1, <2>1, <2>4 DEF Undo
    <3> HIDE DEF i
    <3> DEFINE x == held[p][i] + IF alloc[Own(p, i, s)].state = "live"
                                 THEN alloc[Own(p, i, s)].amount ELSE 0
    <3>2. x \in Int
      BY <2>2
    <3>3. held' = [held EXCEPT ![p][i] = x]
      BY <3>1
    <3> HIDE DEF x
    <3> QED BY <1>1, <2>1, <3>2, <3>3
  <2> QED BY <1>5, <2>3, <2>4
<1>6. ASSUME NEW a \in RowIds, Sweep(p, a) \/ MarkCross(p, a)
      PROVE  held' \in [Requests -> [Invoices -> Int]]
  <2>1. InvoiceOf(a) \in Invoices /\ alloc[a].amount \in Int
    BY <1>1, RowIdParts, RowFields
  <2>2. Hold(p, InvoiceOf(a), alloc[a].amount) \/ held' = held
    BY <1>6 DEF Sweep, MarkCross, history
  <2> QED BY <1>1, <1>2, <2>1, <2>2
<1> QED BY <1>1, <1>3, <1>4, <1>5, <1>6, Frame DEF HeldWriter

\* What a failed application gave back a second time are rows.
LEMMA TwiceTyped ==
  ASSUME Shape, NEW p \in Requests, Acts(p)
  PROVE  twice' \subseteq RowIds /\ twice \subseteq twice'
<1>1. twice \subseteq RowIds
  BY DEF Shape, TypeOK
<1>2. ASSUME NEW s \in Sources, Undo(p, s)
      PROVE  twice' \subseteq RowIds /\ twice \subseteq twice'
  <2>1. Target(p) \in Invoices
    BY <1>2, TargetType DEF Undo
  <2>2. Own(p, Target(p), s) \in RowIds
    BY <2>1, OwnRow
  <2> QED BY <1>1, <1>2, <2>2 DEF Undo
<1> QED BY <1>1, <1>2, Frame DEF TwiceWriter

\* An invoice or a note once given back to twice stays so.
LEMMA SpoiledStays ==
  ASSUME Shape, NEW p \in Requests, Acts(p)
  PROVE  Spoiled \subseteq Spoiled' /\ Refilled \subseteq Refilled'
BY TwiceTyped DEF Spoiled, Refilled, InvoiceOf, SourceOf

\* A step moves a request to a label.
LEMMA PcTyped ==
  ASSUME Shape, NEW p \in Requests, Acts(p)
  PROVE  pc' \in [Requests -> Labels]
<1> DEFINE T == pc' \in [Requests -> Labels]
<1> USE DEF Goto, Start, local, history, vars, book, Labels
<1>0. pc \in [Requests -> Labels]
  BY DEF Shape, TypeOK
<1>1. ASSUME NEW targets \in TargetLists, NEW x \in Amounts, StartReceipt(p, targets, x) PROVE T
  BY <1>0, <1>1, RequestShape DEF StartReceipt
<1>2. ASSUME NEW i \in Invoices, NEW x \in Amounts, StartApply(p, i, x) PROVE T
  BY <1>0, <1>2 DEF StartApply
<1>3. ASSUME NEW a \in RowIds, StartReverse(p, a) PROVE T
  BY <1>0, <1>3 DEF StartReverse
<1>4. ASSUME NEW i \in Invoices, StartCancel(p, i) PROVE T
  BY <1>0, <1>4 DEF StartCancel
<1>5. ASSUME NEW n \in Notes, StartNote(p, n) PROVE T
  BY <1>0, <1>5 DEF StartNote
<1>6. ASSUME NEW n \in Notes, StartCancelNote(p, n) PROVE T
  BY <1>0, <1>6 DEF StartCancelNote
<1>7. ASSUME NEW i \in Invoices, ReadBalance(p, i) PROVE T
  BY <1>0, <1>7 DEF ReadBalance
<1>8. ASSUME NEW i \in Invoices, Baseline(p, i) PROVE T
  BY <1>0, <1>8 DEF Baseline
<1>9. ASSUME NEW i \in Invoices, Raise(p, i) PROVE T
  BY <1>0, <1>9 DEF Raise
<1>10. ASSUME NEW i \in Invoices, Claim(p, i) PROVE T
  BY <1>0, <1>10 DEF Claim
<1>11. ASSUME NEW i \in Invoices, Allocate(p, i) PROVE T
  BY <1>0, <1>11 DEF Allocate
<1>12. ASSUME NEW i \in Invoices, Release(p, i) PROVE T
  BY <1>0, <1>12 DEF Release
<1>13. ASSUME Receive(p) PROVE T
  BY <1>0, <1>13 DEF Receive
<1>14. ASSUME ReadForCredit(p) PROVE T
  BY <1>0, <1>14 DEF ReadForCredit
<1>15. ASSUME PlanCredit(p) PROVE T
  BY <1>0, <1>15 DEF PlanCredit
<1>16. ASSUME EndApply(p) PROVE T
  BY <1>0, <1>16 DEF EndApply
<1>17. ASSUME UndoNothing(p) PROVE T
  BY <1>0, <1>17 DEF UndoNothing
<1>18. ASSUME Mark(p) PROVE T
  BY <1>0, <1>18 DEF Mark
<1>19. ASSUME GiveSource(p) PROVE T
  BY <1>0, <1>19 DEF GiveSource
<1>20. ASSUME GiveRoom(p) PROVE T
  BY <1>0, <1>20 DEF GiveRoom
<1>21. ASSUME Close(p) PROVE T
  BY <1>0, <1>21 DEF Close
<1>22. ASSUME Recheck(p) PROVE T
  BY <1>0, <1>22 DEF Recheck
<1>23. ASSUME Reopen(p) PROVE T
  BY <1>0, <1>23 DEF Reopen
<1>24. ASSUME ListRows(p) PROVE T
  BY <1>0, <1>24 DEF ListRows
<1>25. ASSUME ListCross(p) PROVE T
  BY <1>0, <1>25 DEF ListCross
<1>26. ASSUME CrossRoom(p) PROVE T
  BY <1>0, <1>26 DEF CrossRoom
<1>27. ASSUME RefundCross(p) PROVE T
  BY <1>0, <1>27 DEF RefundCross
<1>28. ASSUME Restore(p) PROVE T
  BY <1>0, <1>28 DEF Restore
<1>29. ASSUME EndPass(p) PROVE T
  BY <1>0, <1>29 DEF EndPass
<1>30. ASSUME ReadPool(p) PROVE T
  BY <1>0, <1>30 DEF ReadPool
<1>31. ASSUME TakePool(p) PROVE T
  BY <1>0, <1>31 DEF TakePool
<1>32. ASSUME MarkPending(p) PROVE T
  BY <1>0, <1>32 DEF MarkPending
<1>33. ASSUME ClaimRoom(p) PROVE T
  BY <1>0, <1>33 DEF ClaimRoom
<1>34. ASSUME Issue(p) PROVE T
  BY <1>0, <1>34 DEF Issue
<1>35. ASSUME ReleaseRoom(p) PROVE T
  BY <1>0, <1>35 DEF ReleaseRoom
<1>36. ASSUME CloseNote(p) PROVE T
  BY <1>0, <1>36 DEF CloseNote
<1>37. ASSUME Stranded(p) PROVE T
  BY <1>0, <1>37 DEF Stranded
<1>38. ASSUME NEW s \in Sources, DrawCredit(p, s) PROVE T
  BY <1>0, <1>38 DEF DrawCredit
<1>39. ASSUME NEW s \in Sources, CreditRow(p, s) PROVE T
  BY <1>0, <1>39 DEF CreditRow
<1>40. ASSUME NEW s \in Sources, Undo(p, s) PROVE T
  BY <1>0, <1>40 DEF Undo
<1>49. ASSUME NEW s \in Sources, Stamp(p, s) PROVE T
  BY <1>0, <1>49 DEF Stamp
<1>41. ASSUME NEW s \in Sources, GiveBackDrawn(p, s) PROVE T
  BY <1>0, <1>41 DEF GiveBackDrawn
<1>42. ASSUME NEW a \in RowIds, Sweep(p, a) PROVE T
  BY <1>0, <1>42 DEF Sweep
<1>43. ASSUME NEW a \in RowIds, MarkCross(p, a) PROVE T
  BY <1>0, <1>43 DEF MarkCross
<1>44. ASSUME WriteFails(p) PROVE T
  BY <1>0, <1>44 DEF WriteFails, OnError
<1> SUFFICES T
  OBVIOUS
<1> HIDE DEF T
<1>45. CASE Begin(p)
  BY <1>45, <1>1, <1>2, <1>3, <1>4, <1>5, <1>6, SMTT(30) DEF Begin
<1>46. CASE Step(p)
  BY <1>46, <1>7, <1>8, <1>9, <1>10, <1>11, <1>12, <1>13, <1>14, <1>15, <1>16,
     <1>17, <1>18, <1>19, <1>20, <1>21, <1>22, <1>23, <1>24, <1>25, <1>26,
     <1>27, <1>28, <1>29, <1>30, <1>31, <1>32, <1>33, <1>34, <1>35, <1>36,
     <1>37, <1>38, <1>39, <1>40, <1>49, <1>41, <1>42, <1>43, SMTT(60) DEF Step
<1> QED BY <1>44, <1>45, <1>46 DEF Acts

\* The inputs of the steps of p are there when it moves on.
LEMMA OwnInputs ==
  ASSUME Shape, NEW p \in Requests, Acts(p)
  PROVE  KindOf(p)' /\ Inputs(p)'
<1> DEFINE T == KindOf(p)' /\ Inputs(p)'
<1>0. /\ pc \in [Requests -> Labels] /\ job \in [Requests -> Job]
      /\ rows \in [Requests -> SUBSET RowIds]
      /\ row \in [Requests -> RowIds \cup {NoRowId}]
      /\ holding \in [Requests -> SUBSET Receipts]
      /\ KindOf(p) /\ Inputs(p)
  BY DEF Shape, TypeOK
<1> USE DEF Goto, Start, local, history, vars, book, KindOf, Inputs, Target, IsTarget, ReceiptOnly,
            ApplyOnly, Claiming, Closing, Sweeps, Reversing, OnRow, OnNote
<1>1. ASSUME NEW targets \in TargetLists, NEW x \in Amounts, StartReceipt(p, targets, x) PROVE T
  BY <1>0, <1>1, RequestShape DEF StartReceipt
<1>2. ASSUME NEW i \in Invoices, NEW x \in Amounts, StartApply(p, i, x) PROVE T
  BY <1>0, <1>2 DEF StartApply
<1>3. ASSUME NEW a \in RowIds, StartReverse(p, a) PROVE T
  BY <1>0, <1>3 DEF StartReverse
<1>4. ASSUME NEW i \in Invoices, StartCancel(p, i) PROVE T
  BY <1>0, <1>4 DEF StartCancel
<1>5. ASSUME NEW n \in Notes, StartNote(p, n) PROVE T
  BY <1>0, <1>5 DEF StartNote
<1>6. ASSUME NEW n \in Notes, StartCancelNote(p, n) PROVE T
  BY <1>0, <1>6 DEF StartCancelNote
<1>7. ASSUME NEW i \in Invoices, ReadBalance(p, i) PROVE T
  BY <1>0, <1>7 DEF ReadBalance
<1>8. ASSUME NEW i \in Invoices, Baseline(p, i) PROVE T
  BY <1>0, <1>8 DEF Baseline
<1>9. ASSUME NEW i \in Invoices, Raise(p, i) PROVE T
  BY <1>0, <1>9 DEF Raise
<1>10. ASSUME NEW i \in Invoices, Claim(p, i) PROVE T
  BY <1>0, <1>10 DEF Claim
<1>11. ASSUME NEW i \in Invoices, Allocate(p, i) PROVE T
  BY <1>0, <1>11 DEF Allocate
<1>12. ASSUME NEW i \in Invoices, Release(p, i) PROVE T
  BY <1>0, <1>12 DEF Release
<1>13. ASSUME Receive(p) PROVE T
  BY <1>0, <1>13 DEF Receive
<1>14. ASSUME ReadForCredit(p) PROVE T
  BY <1>0, <1>14 DEF ReadForCredit
<1>15. ASSUME PlanCredit(p) PROVE T
  BY <1>0, <1>15 DEF PlanCredit
<1>16. ASSUME EndApply(p) PROVE T
  BY <1>0, <1>16 DEF EndApply
<1>17. ASSUME UndoNothing(p) PROVE T
  BY <1>0, <1>17 DEF UndoNothing
<1>18. ASSUME Mark(p) PROVE T
  BY <1>0, <1>18 DEF Mark
<1>19. ASSUME GiveSource(p) PROVE T
  BY <1>0, <1>19 DEF GiveSource
<1>20. ASSUME GiveRoom(p) PROVE T
  BY <1>0, <1>20 DEF GiveRoom
<1>21. ASSUME Close(p) PROVE T
  BY <1>0, <1>21 DEF Close
<1>22. ASSUME Recheck(p) PROVE T
  BY <1>0, <1>22 DEF Recheck
<1>23. ASSUME Reopen(p) PROVE T
  BY <1>0, <1>23 DEF Reopen
<1>24. ASSUME ListRows(p) PROVE T
  BY <1>0, <1>24 DEF ListRows
<1>25. ASSUME ListCross(p) PROVE T
  BY <1>0, <1>25 DEF ListCross
<1>26. ASSUME CrossRoom(p) PROVE T
  BY <1>0, <1>26 DEF CrossRoom
<1>27. ASSUME RefundCross(p) PROVE T
  BY <1>0, <1>27 DEF RefundCross
<1>28. ASSUME Restore(p) PROVE T
  BY <1>0, <1>28 DEF Restore
<1>29. ASSUME EndPass(p) PROVE T
  BY <1>0, <1>29 DEF EndPass
<1>30. ASSUME ReadPool(p) PROVE T
  BY <1>0, <1>30 DEF ReadPool
<1>31. ASSUME TakePool(p) PROVE T
  BY <1>0, <1>31 DEF TakePool
<1>32. ASSUME MarkPending(p) PROVE T
  BY <1>0, <1>32 DEF MarkPending
<1>33. ASSUME ClaimRoom(p) PROVE T
  BY <1>0, <1>33 DEF ClaimRoom
<1>34. ASSUME Issue(p) PROVE T
  BY <1>0, <1>34 DEF Issue
<1>35. ASSUME ReleaseRoom(p) PROVE T
  BY <1>0, <1>35 DEF ReleaseRoom
<1>36. ASSUME CloseNote(p) PROVE T
  BY <1>0, <1>36 DEF CloseNote
<1>37. ASSUME Stranded(p) PROVE T
  BY <1>0, <1>37 DEF Stranded
<1>38. ASSUME NEW s \in Sources, DrawCredit(p, s) PROVE T
  BY <1>0, <1>38 DEF DrawCredit
<1>39. ASSUME NEW s \in Sources, CreditRow(p, s) PROVE T
  BY <1>0, <1>39 DEF CreditRow
<1>40. ASSUME NEW s \in Sources, Undo(p, s) PROVE T
  BY <1>0, <1>40 DEF Undo
<1>49. ASSUME NEW s \in Sources, Stamp(p, s) PROVE T
  BY <1>0, <1>49 DEF Stamp
<1>41. ASSUME NEW s \in Sources, GiveBackDrawn(p, s) PROVE T
  BY <1>0, <1>41 DEF GiveBackDrawn
<1>42. ASSUME NEW a \in RowIds, Sweep(p, a) PROVE T
  BY <1>0, <1>42 DEF Sweep
<1>43. ASSUME NEW a \in RowIds, MarkCross(p, a) PROVE T
  BY <1>0, <1>43 DEF MarkCross
<1>44. ASSUME WriteFails(p) PROVE T
  BY <1>0, <1>44 DEF WriteFails, OnError
<1> SUFFICES T
  OBVIOUS
<1> HIDE DEF T
<1>45. CASE Begin(p)
  BY <1>45, <1>1, <1>2, <1>3, <1>4, <1>5, <1>6, SMTT(30) DEF Begin
<1>46. CASE Step(p)
  BY <1>46, <1>7, <1>8, <1>9, <1>10, <1>11, <1>12, <1>13, <1>14, <1>15, <1>16,
     <1>17, <1>18, <1>19, <1>20, <1>21, <1>22, <1>23, <1>24, <1>25, <1>26,
     <1>27, <1>28, <1>29, <1>30, <1>31, <1>32, <1>33, <1>34, <1>35, <1>36,
     <1>37, <1>38, <1>39, <1>40, <1>49, <1>41, <1>42, <1>43, SMTT(60) DEF Step
<1> QED BY <1>44, <1>45, <1>46 DEF Acts

\* The inputs of a request survive the steps of the others.
LEMMA OtherInputs ==
  ASSUME Shape, NEW p \in Requests, Acts(p), NEW q \in Requests, q # p
  PROVE  KindOf(q)' /\ Inputs(q)'
<1>1. Keeps(q)
  BY OthersKeep DEF Shape
<1>2. KindOf(q) /\ Inputs(q)
  BY DEF Shape
<1>3. KindOf(q)'
  BY <1>1, <1>2 DEF Keeps, KindOf
<1>4. Inputs(q)'
  BY <1>1, <1>2 DEF Keeps, Inputs, Target, IsTarget
<1> QED BY <1>3, <1>4

\* The invariant Shape holds at the start.
LEMMA ShapeInit == Init => Shape
<1> SUFFICES ASSUME Init PROVE Shape
  OBVIOUS
<1>1. BookTypeOK
  BY BookInitTyped DEF Init
<1>2. /\ pc \in [Requests -> Labels]
      /\ seen \in [Requests -> [Invoices -> Nat \cup {Missing}]]
      /\ share \in [Requests -> [Invoices -> Nat]]
      /\ plan \in [Requests -> [Sources -> Nat]]
      /\ claimed \in [Requests -> SUBSET Invoices]
      /\ drawn \in [Requests -> SUBSET Sources]
      /\ stored \in [Requests -> Nat \cup {Missing}]
      /\ tries \in [Requests -> Nat]
      /\ rows \in [Requests -> SUBSET RowIds]
      /\ row \in [Requests -> RowIds \cup {NoRowId}]
      /\ passes \in [Requests -> Nat]
      /\ holding \in [Requests -> SUBSET Receipts]
      /\ held \in [Requests -> [Invoices -> Int]]
  BY DEF Init, Labels, Missing
<1>3. found \in [Requests -> BOOLEAN] /\ twice \subseteq RowIds
  BY DEF Init
<1>4. job \in [Requests -> Job]
  BY DEF Init, NoJob, Job
<1>5. \A p \in Requests : KindOf(p) /\ Inputs(p)
  BY DEF Init, KindOf, Inputs, NoJob, ReceiptOnly, ApplyOnly, Claiming, Closing, Sweeps,
         Reversing, OnRow, OnNote
<1> QED BY <1>1, <1>2, <1>3, <1>4, <1>5 DEF Shape, TypeOK

\* Every step keeps Shape: each action, one conjunct group at a time, by the
\* lemmas above.
LEMMA ShapeStep == Shape /\ [Next]_vars => Shape'
<1> SUFFICES ASSUME Shape, [Next]_vars PROVE Shape'
  OBVIOUS
<1>1. CASE UNCHANGED vars
  <2>1. TypeOK'
    BY <1>1 DEF Shape, TypeOK, BookTypeOK, vars, book, local, history
  <2>2. \A p \in Requests : KindOf(p)' /\ Inputs(p)'
    BY <1>1 DEF Shape, KindOf, Inputs, Target, IsTarget, vars, local, history
  <2> QED BY <2>1, <2>2 DEF Shape
<1>2. CASE Next
  <2>1. PICK p \in Requests : Acts(p)
    BY <1>2 DEF Next, Acts
  <2>2. BookTypeOK'
    BY <2>1, AllocTyped, PayTyped, StatusTyped, SettledTyped, CountersTyped
       DEF BookTypeOK
  <2>3. TypeOK'
    BY <2>1, <2>2, PcTyped, JobTyped, PlanTyped, ProgressTyped, SweepTyped, HeldTyped,
       TwiceTyped DEF TypeOK
  <2>4. \A q \in Requests : KindOf(q)' /\ Inputs(q)'
    BY <2>1, OwnInputs, OtherInputs
  <2> QED BY <2>3, <2>4 DEF Shape
<1> QED BY <1>1, <1>2

\* At every moment the documents and the requests' local state have their
\* shapes, and the inputs of a request's next step are there.
THEOREM ShapeAlways == Spec => []Shape
BY ShapeInit, ShapeStep, PTL DEF Spec

\* The documents keep their types through every interleaving: no counter, no
\* pool of a receipt and no room of a note is ever driven below zero, because
\* every update that subtracts is guarded by a floor.
THEOREM TypeCorrect == Spec => []TypeOK
<1>1. Shape => TypeOK
  BY DEF Shape
<1> QED BY <1>1, ShapeAlways, PTL


-----------------------------------------------------------------------------
(***************************************************************************)
(* Who may reopen an invoice.                                              *)
(***************************************************************************)
\* A request closes an invoice by Close only, and unwinds only one it closed.
LEMMA ClosingMoves ==
  ASSUME Shape, NEW p \in Requests, Acts(p), NEW v \in Invoices
  PROVE  /\ Closes(p, v)' => Closes(p, v) \/ (Close(p) /\ Target(p) = v /\ status[v] # "cancelled")
         /\ Unwinds(p, v)' => Unwinds(p, v) \/ Closes(p, v)
<1> DEFINE T == /\ Closes(p, v)' => Closes(p, v) \/ (Close(p) /\ Target(p) = v /\ status[v] # "cancelled")
                /\ Unwinds(p, v)' => Unwinds(p, v) \/ Closes(p, v)
<1>0. pc \in [Requests -> Labels] /\ job \in [Requests -> Job] /\ KindOf(p)
  BY DEF Shape, TypeOK
<1> USE DEF Goto, Start, local, history, vars, book, KindOf, Target, Closes, Unwinds, Closing, Sweeps,
            Reversing
<1>1. ASSUME NEW targets \in TargetLists, NEW x \in Amounts, StartReceipt(p, targets, x) PROVE T
  BY <1>0, <1>1 DEF StartReceipt
<1>2. ASSUME NEW i \in Invoices, NEW x \in Amounts, StartApply(p, i, x) PROVE T
  BY <1>0, <1>2 DEF StartApply
<1>3. ASSUME NEW a \in RowIds, StartReverse(p, a) PROVE T
  BY <1>0, <1>3 DEF StartReverse
<1>4. ASSUME NEW i \in Invoices, StartCancel(p, i) PROVE T
  BY <1>0, <1>4 DEF StartCancel
<1>5. ASSUME NEW n \in Notes, StartNote(p, n) PROVE T
  BY <1>0, <1>5 DEF StartNote
<1>6. ASSUME NEW n \in Notes, StartCancelNote(p, n) PROVE T
  BY <1>0, <1>6 DEF StartCancelNote
<1>7. ASSUME NEW i \in Invoices, ReadBalance(p, i) PROVE T
  BY <1>0, <1>7 DEF ReadBalance
<1>8. ASSUME NEW i \in Invoices, Baseline(p, i) PROVE T
  BY <1>0, <1>8 DEF Baseline
<1>9. ASSUME NEW i \in Invoices, Raise(p, i) PROVE T
  BY <1>0, <1>9 DEF Raise
<1>10. ASSUME NEW i \in Invoices, Claim(p, i) PROVE T
  BY <1>0, <1>10 DEF Claim
<1>11. ASSUME NEW i \in Invoices, Allocate(p, i) PROVE T
  BY <1>0, <1>11 DEF Allocate
<1>12. ASSUME NEW i \in Invoices, Release(p, i) PROVE T
  BY <1>0, <1>12 DEF Release
<1>13. ASSUME Receive(p) PROVE T
  BY <1>0, <1>13 DEF Receive
<1>14. ASSUME ReadForCredit(p) PROVE T
  BY <1>0, <1>14 DEF ReadForCredit
<1>15. ASSUME PlanCredit(p) PROVE T
  BY <1>0, <1>15 DEF PlanCredit
<1>16. ASSUME EndApply(p) PROVE T
  BY <1>0, <1>16 DEF EndApply
<1>17. ASSUME UndoNothing(p) PROVE T
  BY <1>0, <1>17 DEF UndoNothing
<1>18. ASSUME Mark(p) PROVE T
  BY <1>0, <1>18 DEF Mark
<1>19. ASSUME GiveSource(p) PROVE T
  BY <1>0, <1>19 DEF GiveSource
<1>20. ASSUME GiveRoom(p) PROVE T
  BY <1>0, <1>20 DEF GiveRoom
<1>21. ASSUME Close(p) PROVE T
  BY <1>0, <1>21 DEF Close
<1>22. ASSUME Recheck(p) PROVE T
  BY <1>0, <1>22 DEF Recheck
<1>23. ASSUME Reopen(p) PROVE T
  BY <1>0, <1>23 DEF Reopen
<1>24. ASSUME ListRows(p) PROVE T
  BY <1>0, <1>24 DEF ListRows
<1>25. ASSUME ListCross(p) PROVE T
  BY <1>0, <1>25 DEF ListCross
<1>26. ASSUME CrossRoom(p) PROVE T
  BY <1>0, <1>26 DEF CrossRoom
<1>27. ASSUME RefundCross(p) PROVE T
  BY <1>0, <1>27 DEF RefundCross
<1>28. ASSUME Restore(p) PROVE T
  BY <1>0, <1>28 DEF Restore
<1>29. ASSUME EndPass(p) PROVE T
  BY <1>0, <1>29 DEF EndPass
<1>30. ASSUME ReadPool(p) PROVE T
  BY <1>0, <1>30 DEF ReadPool
<1>31. ASSUME TakePool(p) PROVE T
  BY <1>0, <1>31 DEF TakePool
<1>32. ASSUME MarkPending(p) PROVE T
  BY <1>0, <1>32 DEF MarkPending
<1>33. ASSUME ClaimRoom(p) PROVE T
  BY <1>0, <1>33 DEF ClaimRoom
<1>34. ASSUME Issue(p) PROVE T
  BY <1>0, <1>34 DEF Issue
<1>35. ASSUME ReleaseRoom(p) PROVE T
  BY <1>0, <1>35 DEF ReleaseRoom
<1>36. ASSUME CloseNote(p) PROVE T
  BY <1>0, <1>36 DEF CloseNote
<1>37. ASSUME Stranded(p) PROVE T
  BY <1>0, <1>37 DEF Stranded
<1>38. ASSUME NEW s \in Sources, DrawCredit(p, s) PROVE T
  BY <1>0, <1>38 DEF DrawCredit
<1>39. ASSUME NEW s \in Sources, CreditRow(p, s) PROVE T
  BY <1>0, <1>39 DEF CreditRow
<1>40. ASSUME NEW s \in Sources, Undo(p, s) PROVE T
  BY <1>0, <1>40 DEF Undo
<1>49. ASSUME NEW s \in Sources, Stamp(p, s) PROVE T
  BY <1>0, <1>49 DEF Stamp
<1>41. ASSUME NEW s \in Sources, GiveBackDrawn(p, s) PROVE T
  BY <1>0, <1>41 DEF GiveBackDrawn
<1>42. ASSUME NEW a \in RowIds, Sweep(p, a) PROVE T
  BY <1>0, <1>42 DEF Sweep
<1>43. ASSUME NEW a \in RowIds, MarkCross(p, a) PROVE T
  BY <1>0, <1>43 DEF MarkCross
<1>44. ASSUME WriteFails(p) PROVE T
  BY <1>0, <1>44 DEF WriteFails, OnError
<1> SUFFICES T
  OBVIOUS
<1> HIDE DEF T
<1>45. CASE Begin(p)
  BY <1>45, <1>1, <1>2, <1>3, <1>4, <1>5, <1>6, SMTT(30) DEF Begin
<1>46. CASE Step(p)
  BY <1>46, <1>7, <1>8, <1>9, <1>10, <1>11, <1>12, <1>13, <1>14, <1>15, <1>16,
     <1>17, <1>18, <1>19, <1>20, <1>21, <1>22, <1>23, <1>24, <1>25, <1>26,
     <1>27, <1>28, <1>29, <1>30, <1>31, <1>32, <1>33, <1>34, <1>35, <1>36,
     <1>37, <1>38, <1>39, <1>40, <1>49, <1>41, <1>42, <1>43, SMTT(60) DEF Step
<1> QED BY <1>44, <1>45, <1>46 DEF Acts

\* A step keeps the invoices with the requests that closed them.
LEMMA OwnershipStep ==
  ASSUME Shape, Ownership, NEW p \in Requests, Acts(p)
  PROVE  Ownership'
<1>1. status \in [Invoices -> {"issued", "cancelled"}] /\ TypeOK
  BY DEF Shape, TypeOK, BookTypeOK
<1>2. ASSUME NEW q \in Requests, q # p, NEW i \in Invoices
      PROVE  Closes(q, i)' = Closes(q, i) /\ Unwinds(q, i)' = Unwinds(q, i)
  BY <1>1, <1>2, OthersKeep DEF Keeps, Closes, Unwinds, Target
<1>3. ASSUME NEW i \in Invoices, status[i] = "cancelled"
      PROVE  status'[i] = "cancelled" \/ (Reopen(p) /\ Target(p) = i)
  BY <1>1, <1>3, Frame DEF StatusWriter, Close, Reopen
<1>4. ASSUME NEW i \in Invoices, Close(p), Target(p) = i, status[i] # "cancelled"
      PROVE  status'[i] = "cancelled"
  BY <1>1, <1>4 DEF Close
<1>5. ASSUME NEW i \in Invoices, Reopen(p)
      PROVE  Closes(p, Target(p)) /\ ~Closes(p, i)' /\ ~Unwinds(p, i)'
  BY <1>1, <1>5 DEF Reopen, Goto, Closes, Unwinds, Closing, Sweeps, Reversing, TypeOK
<1>6. ASSUME NEW q \in Requests, NEW i \in Invoices, Closes(q, i)' \/ Unwinds(q, i)'
      PROVE  status'[i] = "cancelled"
  <2>1. CASE q = p
    BY <1>3, <1>4, <1>5, <1>6, <2>1, ClosingMoves DEF Ownership
  <2>2. CASE q # p
    BY <1>2, <1>3, <1>5, <1>6, <2>2 DEF Ownership
  <2> QED BY <2>1, <2>2
<1>7. ASSUME NEW q \in Requests, NEW r \in Requests, q # r, NEW i \in Invoices, Closes(q, i)'
      PROVE  ~Closes(r, i)' /\ ~Unwinds(r, i)'
  <2>1. CASE q = p
    BY <1>2, <1>7, <2>1, ClosingMoves DEF Ownership
  <2>2. CASE r = p
    BY <1>2, <1>7, <2>2, ClosingMoves DEF Ownership
  <2>3. CASE q # p /\ r # p
    BY <1>2, <1>7, <2>3 DEF Ownership
  <2> QED BY <2>1, <2>2, <2>3
<1> QED BY <1>6, <1>7 DEF Ownership

\* An invoice that can no longer be settled, now or by a reopening, stays so.
LEMMA OpenMoves ==
  ASSUME Shape, Ownership, NEW p \in Requests, Acts(p), NEW i \in Invoices
  PROVE  Open(i)' => Open(i)
<1>1. status \in [Invoices -> {"issued", "cancelled"}] /\ TypeOK
  BY DEF Shape, TypeOK, BookTypeOK
<1>2. ASSUME NEW q \in Requests, q # p, Closes(q, i)' PROVE Closes(q, i)
  BY <1>1, <1>2, OthersKeep DEF Keeps, Closes, Target
<1>3. ASSUME Closes(p, i)' PROVE Open(i)
  BY <1>1, <1>3, ClosingMoves DEF Open
<1>4. ASSUME status'[i] = "issued" PROVE Open(i)
  BY <1>1, <1>4, Frame DEF StatusWriter, Close, Reopen, Open, Closes, Closing
<1> QED BY <1>2, <1>3, <1>4 DEF Open

-----------------------------------------------------------------------------
(***************************************************************************)
(* What the steps do to the rows.                                          *)
(***************************************************************************)
\* Row a becomes what is said, and no other row changes.
Becomes(a, x, st, k) ==
  /\ alloc'[a].amount = x /\ alloc'[a].state = st /\ alloc'[a].stamped = k
  /\ \A b \in RowIds : b # a => alloc'[b] = alloc[b]

\* Writing a live row changes that row.
LEMMA NewRowEffect ==
  ASSUME alloc \in [RowIds -> Row], NEW a \in RowIds, NEW x,
         alloc' = [alloc EXCEPT ![a] = LiveRow(x, FALSE)]
  PROVE  Becomes(a, x, "live", FALSE)
BY DEF Becomes, LiveRow

\* Changing the state of a row changes that row, and its state only.
LEMMA StateEffect ==
  ASSUME alloc \in [RowIds -> Row], NEW a \in RowIds,
         NEW st \in {"absent", "live", "reversed"},
         alloc' = [alloc EXCEPT ![a].state = st]
  PROVE  Becomes(a, alloc[a].amount, st, alloc[a].stamped)
BY RowStateChange DEF Becomes

\* Allocate writes the row of the receipt on the invoice.
LEMMA AllocateEffect ==
  ASSUME Shape, NEW p \in Requests, NEW i \in Invoices, Allocate(p, i)
  PROVE  /\ Own(p, i, p) \in RowIds
         /\ Becomes(Own(p, i, p), share[p][i], "live", FALSE)
<1>1. p \in Sources
  BY DEF Sources, Receipts
<1>2. Own(p, i, p) \in RowIds
  BY <1>1, OwnRow
<1>3. alloc' = [alloc EXCEPT ![Own(p, i, p)] = LiveRow(share[p][i], FALSE)]
  BY Zenon DEF Allocate
<1> QED BY <1>2, <1>3, NewRowEffect DEF Shape, TypeOK, BookTypeOK

\* CreditRow writes the row of the source on the request's invoice.
LEMMA CreditRowEffect ==
  ASSUME Shape, NEW p \in Requests, NEW s \in Sources, CreditRow(p, s)
  PROVE  /\ Target(p) \in Invoices /\ Own(p, Target(p), s) \in RowIds
         /\ Becomes(Own(p, Target(p), s), plan[p][s], "live", FALSE)
<1>1. Target(p) \in Invoices
  BY TargetType DEF CreditRow
<1>2. Own(p, Target(p), s) \in RowIds
  BY <1>1, OwnRow
<1>3. alloc' = [alloc EXCEPT ![Own(p, Target(p), s)] = LiveRow(plan[p][s], FALSE)]
  BY Zenon DEF CreditRow
<1> QED BY <1>1, <1>2, <1>3, NewRowEffect DEF Shape, TypeOK, BookTypeOK

\* Undo deletes the row of the source on the request's invoice.
LEMMA UndoEffect ==
  ASSUME Shape, NEW p \in Requests, NEW s \in Sources, Undo(p, s)
  PROVE  LET a == Own(p, Target(p), s) IN
         /\ Target(p) \in Invoices /\ a \in RowIds
         /\ Becomes(a, alloc[a].amount, "absent", alloc[a].stamped)
<1> DEFINE a == Own(p, Target(p), s)
<1>1. Target(p) \in Invoices
  BY TargetType DEF Undo
<1>2. a \in RowIds
  BY <1>1, OwnRow
<1>3. alloc' = [alloc EXCEPT ![a].state = "absent"]
  BY Zenon DEF Undo
<1> HIDE DEF a
<1>4. Becomes(a, alloc[a].amount, "absent", alloc[a].stamped)
  BY <1>2, <1>3, StateEffect DEF Shape, TypeOK, BookTypeOK
<1> QED BY <1>1, <1>2, <1>4 DEF a

\* Mark reverses the row it was given, when it still is live.
LEMMA MarkEffect ==
  ASSUME Shape, NEW p \in Requests, Mark(p)
  PROVE  LET a == row[p] IN
         /\ a \in RowIds /\ pc[p] = "mark"
         /\ \/ UNCHANGED <<alloc, held>>
            \/ /\ alloc[a].state = "live"
               /\ Becomes(a, alloc[a].amount, "reversed", alloc[a].stamped)
<1>1. row[p] \in RowIds /\ pc[p] = "mark"
  BY DEF Mark, Shape, Inputs, OnRow
<1>2. \/ UNCHANGED <<alloc, history>>
      \/ /\ alloc[row[p]].state = "live"
         /\ alloc' = [alloc EXCEPT ![row[p]].state = "reversed"]
  BY Zenon DEF Mark
<1>3. alloc \in [RowIds -> Row]
  BY DEF Shape, TypeOK, BookTypeOK
<1> QED BY <1>1, <1>2, <1>3, StateEffect DEF history

\* Restore makes the row it was given live again, when it is reversed.
LEMMA RestoreEffect ==
  ASSUME Shape, NEW p \in Requests, Restore(p)
  PROVE  LET a == row[p] IN
         /\ a \in RowIds /\ pc[p] = "restore"
         /\ \/ UNCHANGED <<alloc, held>>
            \/ /\ alloc[a].state = "reversed"
               /\ Becomes(a, alloc[a].amount, "live", alloc[a].stamped)
<1>1. row[p] \in RowIds /\ pc[p] = "restore"
  BY DEF Restore, Shape, Inputs, OnRow
<1>2. \/ UNCHANGED <<alloc, history>>
      \/ /\ alloc[row[p]].state = "reversed"
         /\ alloc' = [alloc EXCEPT ![row[p]].state = "live"]
  BY Zenon DEF Restore
<1>3. alloc \in [RowIds -> Row]
  BY DEF Shape, TypeOK, BookTypeOK
<1> QED BY <1>1, <1>2, <1>3, StateEffect DEF history

\* Sweep reverses a live row that carries its ledger pair.
LEMMA SweepEffect ==
  ASSUME Shape, NEW p \in Requests, NEW a \in RowIds, Sweep(p, a)
  PROVE  \/ UNCHANGED <<alloc, held, row, pc>>
         \/ /\ alloc[a].state = "live" /\ alloc[a].stamped
            /\ Becomes(a, alloc[a].amount, "reversed", alloc[a].stamped)
<1>1. \/ UNCHANGED <<alloc, history, row, pc>>
      \/ /\ alloc[a].state = "live" /\ alloc[a].stamped
         /\ alloc' = [alloc EXCEPT ![a].state = "reversed"]
  BY Zenon DEF Sweep
<1> QED BY <1>1, StateEffect DEF Shape, TypeOK, BookTypeOK, history

\* MarkCross reverses a live row without a pair, of an invoice being unwound.
LEMMA MarkCrossEffect ==
  ASSUME Shape, NEW p \in Requests, NEW a \in RowIds, MarkCross(p, a)
  PROVE  /\ Unwinds(p, InvoiceOf(a))
         /\ \/ UNCHANGED <<alloc, held, row, pc>>
            \/ /\ alloc[a].state = "live" /\ ~alloc[a].stamped
               /\ Becomes(a, alloc[a].amount, "reversed", alloc[a].stamped)
<1>1. \/ UNCHANGED <<alloc, history, row, pc>>
      \/ /\ alloc[a].state = "live" /\ ~alloc[a].stamped
         /\ alloc' = [alloc EXCEPT ![a].state = "reversed"]
  BY Zenon DEF MarkCross
<1>2. pc[p] = "cross" /\ a \in rows[p]
  BY DEF MarkCross
<1>3. Unwinds(p, InvoiceOf(a))
  BY <1>2 DEF Shape, KindOf, Inputs, Unwinds, Sweeps
<1> QED BY <1>1, <1>3, StateEffect DEF Shape, TypeOK, BookTypeOK, history

\* Stamp writes the ledger pair of one row of the request, and nothing else.
LEMMA StampEffect ==
  ASSUME Shape, NEW p \in Requests, NEW s \in Sources, Stamp(p, s)
  PROVE  LET a == Own(p, Target(p), s) IN
         /\ pc[p] = "stamp" /\ s \in drawn[p]
         /\ Target(p) \in Invoices /\ a \in RowIds /\ alloc[a].amount > 0
         /\ Becomes(a, alloc[a].amount, alloc[a].state, TRUE)
<1> DEFINE a == Own(p, Target(p), s)
<1>1. Target(p) \in Invoices
  BY TargetType DEF Stamp
<1>2. a \in RowIds
  BY <1>1, OwnRow
<1>3. alloc' = [alloc EXCEPT ![a].stamped = TRUE]
  BY Zenon DEF Stamp
<1>4. pc[p] = "stamp" /\ s \in drawn[p] /\ alloc[a].amount > 0
  BY DEF Stamp, Unstamped
<1> HIDE DEF a
<1>5. Becomes(a, alloc[a].amount, alloc[a].state, TRUE)
  BY <1>2, <1>3, RowStamp DEF Becomes, Shape, TypeOK, BookTypeOK
<1> QED BY <1>1, <1>2, <1>4, <1>5 DEF a

\* At the start nobody has closed or unwinds an invoice.
LEMMA OwnershipInit == Init => Ownership
BY DEF Init, Ownership, Closes, Unwinds, Closing, NoJob

\* No step lets a second request reopen an invoice.
LEMMA OwnershipKept == Shape /\ Ownership /\ [Next]_vars => Ownership'
<1> SUFFICES ASSUME Shape, Ownership, [Next]_vars PROVE Ownership'
  OBVIOUS
<1>1. CASE Next
  BY <1>1, OwnershipStep DEF Next, Acts
<1>2. CASE UNCHANGED vars
  BY <1>2 DEF vars, book, local, history, Ownership, Closes, Unwinds, Target
<1> QED BY <1>1, <1>2

\* In every state only one request may reopen an invoice, and none while another
\* unwinds it (cancelInvoiceWorkflow: the transition is the claim on the work).
THEOREM OwnershipAlways == Spec => []Ownership
BY OwnershipInit, OwnershipKept, ShapeAlways, PTL DEF Spec

-----------------------------------------------------------------------------
(***************************************************************************)
(* Rows are written once, by their writer.                                 *)
(***************************************************************************)
\* Where the labels of a step of p come from.
LEMMA LabelMoves ==
  ASSUME Shape, NEW p \in Requests, Acts(p)
  PROVE  /\ ~Over(p) /\ pc'[p] # "idle"
         /\ job'[p] = job[p] \/ pc[p] = "idle"
         /\ pc'[p] \in Unwritten => pc[p] \in Unwritten
         /\ pc'[p] = "mark" => pc[p] = "idle"
         /\ pc'[p] \in {"draw", "credit"} => pc[p] \in {"claim", "draw", "credit"}
         /\ pc'[p] = "raise" => \E j \in Invoices : Baseline(p, j)
         /\ pc'[p] \in OnRow =>
              \/ pc[p] \in OnRow /\ row'[p] = row[p]
              \/ row'[p] \in RowIds /\ alloc[row'[p]].state = "live"
<1> DEFINE T == /\ ~Over(p) /\ pc'[p] # "idle"
                /\ job'[p] = job[p] \/ pc[p] = "idle"
                /\ pc'[p] \in Unwritten => pc[p] \in Unwritten
                /\ pc'[p] = "mark" => pc[p] = "idle"
                /\ pc'[p] \in {"draw", "credit"} => pc[p] \in {"claim", "draw", "credit"}
                /\ pc'[p] = "raise" => \E j \in Invoices : Baseline(p, j)
                /\ pc'[p] \in OnRow =>
                     \/ pc[p] \in OnRow /\ row'[p] = row[p]
                     \/ row'[p] \in RowIds /\ alloc[row'[p]].state = "live"
<1>0. /\ pc \in [Requests -> Labels] /\ job \in [Requests -> Job]
      /\ row \in [Requests -> RowIds \cup {NoRowId}] /\ KindOf(p)
  BY DEF Shape, TypeOK
<1> USE DEF Goto, Start, local, history, vars, book, KindOf, Over, Unwritten, Claiming, OnRow, Sweeps
<1>1. ASSUME NEW targets \in TargetLists, NEW x \in Amounts, StartReceipt(p, targets, x) PROVE T
  BY <1>0, <1>1 DEF StartReceipt
<1>2. ASSUME NEW i \in Invoices, NEW x \in Amounts, StartApply(p, i, x) PROVE T
  BY <1>0, <1>2 DEF StartApply
<1>3. ASSUME NEW a \in RowIds, StartReverse(p, a) PROVE T
  BY <1>0, <1>3 DEF StartReverse
<1>4. ASSUME NEW i \in Invoices, StartCancel(p, i) PROVE T
  BY <1>0, <1>4 DEF StartCancel
<1>5. ASSUME NEW n \in Notes, StartNote(p, n) PROVE T
  BY <1>0, <1>5 DEF StartNote
<1>6. ASSUME NEW n \in Notes, StartCancelNote(p, n) PROVE T
  BY <1>0, <1>6 DEF StartCancelNote
<1>7. ASSUME NEW i \in Invoices, ReadBalance(p, i) PROVE T
  BY <1>0, <1>7 DEF ReadBalance
<1>8. ASSUME NEW i \in Invoices, Baseline(p, i) PROVE T
  BY <1>0, <1>8 DEF Baseline
<1>9. ASSUME NEW i \in Invoices, Raise(p, i) PROVE T
  BY <1>0, <1>9 DEF Raise
<1>10. ASSUME NEW i \in Invoices, Claim(p, i) PROVE T
  BY <1>0, <1>10 DEF Claim
<1>11. ASSUME NEW i \in Invoices, Allocate(p, i) PROVE T
  BY <1>0, <1>11 DEF Allocate
<1>12. ASSUME NEW i \in Invoices, Release(p, i) PROVE T
  BY <1>0, <1>12 DEF Release
<1>13. ASSUME Receive(p) PROVE T
  BY <1>0, <1>13 DEF Receive
<1>14. ASSUME ReadForCredit(p) PROVE T
  BY <1>0, <1>14 DEF ReadForCredit
<1>15. ASSUME PlanCredit(p) PROVE T
  BY <1>0, <1>15 DEF PlanCredit
<1>16. ASSUME EndApply(p) PROVE T
  BY <1>0, <1>16 DEF EndApply
<1>17. ASSUME UndoNothing(p) PROVE T
  BY <1>0, <1>17 DEF UndoNothing
<1>18. ASSUME Mark(p) PROVE T
  BY <1>0, <1>18 DEF Mark
<1>19. ASSUME GiveSource(p) PROVE T
  BY <1>0, <1>19 DEF GiveSource
<1>20. ASSUME GiveRoom(p) PROVE T
  BY <1>0, <1>20 DEF GiveRoom
<1>21. ASSUME Close(p) PROVE T
  BY <1>0, <1>21 DEF Close
<1>22. ASSUME Recheck(p) PROVE T
  BY <1>0, <1>22 DEF Recheck
<1>23. ASSUME Reopen(p) PROVE T
  BY <1>0, <1>23 DEF Reopen
<1>24. ASSUME ListRows(p) PROVE T
  BY <1>0, <1>24 DEF ListRows
<1>25. ASSUME ListCross(p) PROVE T
  BY <1>0, <1>25 DEF ListCross
<1>26. ASSUME CrossRoom(p) PROVE T
  BY <1>0, <1>26 DEF CrossRoom
<1>27. ASSUME RefundCross(p) PROVE T
  BY <1>0, <1>27 DEF RefundCross
<1>28. ASSUME Restore(p) PROVE T
  BY <1>0, <1>28 DEF Restore
<1>29. ASSUME EndPass(p) PROVE T
  BY <1>0, <1>29 DEF EndPass
<1>30. ASSUME ReadPool(p) PROVE T
  BY <1>0, <1>30 DEF ReadPool
<1>31. ASSUME TakePool(p) PROVE T
  BY <1>0, <1>31 DEF TakePool
<1>32. ASSUME MarkPending(p) PROVE T
  BY <1>0, <1>32 DEF MarkPending
<1>33. ASSUME ClaimRoom(p) PROVE T
  BY <1>0, <1>33 DEF ClaimRoom
<1>34. ASSUME Issue(p) PROVE T
  BY <1>0, <1>34 DEF Issue
<1>35. ASSUME ReleaseRoom(p) PROVE T
  BY <1>0, <1>35 DEF ReleaseRoom
<1>36. ASSUME CloseNote(p) PROVE T
  BY <1>0, <1>36 DEF CloseNote
<1>37. ASSUME Stranded(p) PROVE T
  BY <1>0, <1>37 DEF Stranded
<1>38. ASSUME NEW s \in Sources, DrawCredit(p, s) PROVE T
  BY <1>0, <1>38 DEF DrawCredit
<1>39. ASSUME NEW s \in Sources, CreditRow(p, s) PROVE T
  BY <1>0, <1>39 DEF CreditRow
<1>40. ASSUME NEW s \in Sources, Undo(p, s) PROVE T
  BY <1>0, <1>40 DEF Undo
<1>49. ASSUME NEW s \in Sources, Stamp(p, s) PROVE T
  BY <1>0, <1>49 DEF Stamp
<1>41. ASSUME NEW s \in Sources, GiveBackDrawn(p, s) PROVE T
  BY <1>0, <1>41 DEF GiveBackDrawn
<1>42. ASSUME NEW a \in RowIds, Sweep(p, a) PROVE T
  BY <1>0, <1>42 DEF Sweep
<1>43. ASSUME NEW a \in RowIds, MarkCross(p, a) PROVE T
  BY <1>0, <1>43 DEF MarkCross
<1>44. ASSUME WriteFails(p) PROVE T
  BY <1>0, <1>44 DEF WriteFails, OnError
<1> SUFFICES T
  OBVIOUS
<1> HIDE DEF T
<1>45. CASE Begin(p)
  BY <1>45, <1>1, <1>2, <1>3, <1>4, <1>5, <1>6, SMTT(30) DEF Begin
<1>46. CASE Step(p)
  BY <1>46, <1>7, <1>8, <1>9, <1>10, <1>11, <1>12, <1>13, <1>14, <1>15, <1>16,
     <1>17, <1>18, <1>19, <1>20, <1>21, <1>22, <1>23, <1>24, <1>25, <1>26,
     <1>27, <1>28, <1>29, <1>30, <1>31, <1>32, <1>33, <1>34, <1>35, <1>36,
     <1>37, <1>38, <1>39, <1>40, <1>49, <1>41, <1>42, <1>43, SMTT(60) DEF Step
<1> QED BY <1>44, <1>45, <1>46 DEF Acts

\* p writes row a, which no one had written.
Written(p, a) ==
  /\ Writer(a) = p /\ alloc[a].amount = 0 /\ pc[p] \in {"allocate", "credit"}
  /\ alloc'[a].amount > 0 /\ alloc'[a].state = "live" /\ ~alloc'[a].stamped
\* p changes the state of row a.
Moved(p, a) ==
  /\ alloc'[a].amount = alloc[a].amount /\ alloc'[a].stamped = alloc[a].stamped
  /\ \/ /\ alloc[a].state = "live" /\ alloc'[a].state = "reversed"
        /\ alloc[a].stamped \/ Unwinds(p, InvoiceOf(a))
     \/ /\ alloc[a].state = "reversed" /\ alloc'[a].state = "live"
        /\ Unwinds(p, InvoiceOf(a))
     \/ Writer(a) = p /\ pc[p] = "undo" /\ alloc'[a].state = "absent"
\* p writes the ledger pair of row a.
Paired(p, a) ==
  /\ pc[p] = "stamp" /\ Writer(a) = p /\ alloc[a].amount > 0
  /\ alloc'[a].amount = alloc[a].amount /\ alloc'[a].state = alloc[a].state
  /\ alloc'[a].stamped

\* Nothing else happens to a row.
LEMMA RowMoves ==
  ASSUME Shape, Fresh, Holds, NEW p \in Requests, Acts(p), NEW a \in RowIds
  PROVE  alloc'[a] = alloc[a] \/ Written(p, a) \/ Moved(p, a) \/ Paired(p, a)
<1> DEFINE T == alloc'[a] = alloc[a] \/ Written(p, a) \/ Moved(p, a) \/ Paired(p, a)
<1>0. /\ TypeOK /\ alloc \in [RowIds -> Row] /\ job \in [Requests -> Job]
      /\ share \in [Requests -> [Invoices -> Nat]]
  BY DEF Shape, TypeOK, BookTypeOK
<1>1. ASSUME NEW i \in Invoices, Allocate(p, i) PROVE T
  <2>1. pc[p] = "allocate" /\ i \in claimed[p]
    BY <1>1 DEF Allocate, IsNext
  <2>2. share[p][i] > 0
    BY <2>1 DEF Holds, HoldsOf, Reserves
  <2>3. alloc[Own(p, i, p)].amount = 0
    BY <2>1 DEF Fresh, Shape, KindOf, ReceiptOnly
  <2>4. p \in Sources
    BY DEF Sources, Receipts
  <2> DEFINE b == Own(p, i, p)
  <2>5. Writer(b) = p
    BY <2>4, OwnRow
  <2>6. Becomes(b, share[p][i], "live", FALSE)
    BY <1>1, AllocateEffect
  <2> HIDE DEF b
  <2> QED BY <2>1, <2>2, <2>3, <2>5, <2>6 DEF Becomes, Written, b
<1>2. ASSUME NEW s \in Sources, CreditRow(p, s) PROVE T
  <2> DEFINE b == Own(p, Target(p), s)
  <2>1. pc[p] = "credit" /\ s \in drawn[p] /\ alloc[b].amount = 0
    BY <1>2 DEF CreditRow
  <2>2. plan[p][s] > 0
    BY <2>1 DEF Holds, HoldsOf, ApplyHolds, Shape, KindOf, ApplyOnly
  <2>3. Target(p) \in Invoices
    BY <1>2, CreditRowEffect
  <2>4. Writer(b) = p
    BY <2>3, OwnRow
  <2>5. Becomes(b, plan[p][s], "live", FALSE)
    BY <1>2, CreditRowEffect
  <2> HIDE DEF b
  <2> QED BY <2>1, <2>2, <2>4, <2>5 DEF Becomes, Written
<1>3. ASSUME NEW s \in Sources, Stamp(p, s) PROVE T
  <2> DEFINE b == Own(p, Target(p), s)
  <2>1. /\ pc[p] = "stamp" /\ Target(p) \in Invoices /\ alloc[b].amount > 0
        /\ Becomes(b, alloc[b].amount, alloc[b].state, TRUE)
    BY <1>3, StampEffect
  <2>2. Writer(b) = p
    BY <2>1, OwnRow
  <2> HIDE DEF b
  <2> QED BY <2>1, <2>2 DEF Becomes, Paired
<1>4. ASSUME Mark(p) PROVE T
  <2>1. alloc[row[p]].stamped /\ row[p] \in RowIds
    BY <1>4, MarkEffect DEF Fresh
  <2>2. CASE UNCHANGED <<alloc, held>>
    BY <2>2
  <2>3. CASE alloc[row[p]].state = "live"
             /\ Becomes(row[p], alloc[row[p]].amount, "reversed", alloc[row[p]].stamped)
    BY <2>1, <2>3 DEF Becomes, Moved
  <2> QED BY <1>4, <2>2, <2>3, MarkEffect
<1>5. ASSUME Restore(p) PROVE T
  <2>1. CASE UNCHANGED <<alloc, held>>
    BY <2>1
  <2>2. CASE alloc[row[p]].state = "reversed"
             /\ Becomes(row[p], alloc[row[p]].amount, "live", alloc[row[p]].stamped)
    <3>1. pc[p] = "restore"
      BY <1>5 DEF Restore
    <3>2. Unwinds(p, InvoiceOf(row[p]))
      BY <3>1 DEF Shape, KindOf, Inputs, Unwinds, Sweeps, OnRow
    <3> QED BY <2>2, <3>2 DEF Becomes, Moved
  <2> QED BY <1>5, <2>1, <2>2, RestoreEffect
<1>6. ASSUME NEW s \in Sources, Undo(p, s) PROVE T
  <2> DEFINE b == Own(p, Target(p), s)
  <2>1. Target(p) \in Invoices /\ Becomes(b, alloc[b].amount, "absent", alloc[b].stamped)
    BY <1>6, UndoEffect
  <2>2. Writer(b) = p
    BY <2>1, OwnRow
  <2>3. pc[p] = "undo"
    BY <1>6 DEF Undo
  <2> HIDE DEF b
  <2> QED BY <2>1, <2>2, <2>3 DEF Becomes, Moved
<1>7. ASSUME NEW b \in RowIds, Sweep(p, b) PROVE T
  <2>1. CASE UNCHANGED <<alloc, held, row, pc>>
    BY <2>1
  <2>2. CASE /\ alloc[b].state = "live" /\ alloc[b].stamped
             /\ Becomes(b, alloc[b].amount, "reversed", alloc[b].stamped)
    BY <2>2 DEF Becomes, Moved
  <2> QED BY <1>7, <2>1, <2>2, SweepEffect
<1>8. ASSUME NEW b \in RowIds, MarkCross(p, b) PROVE T
  <2>1. CASE UNCHANGED <<alloc, held, row, pc>>
    BY <2>1
  <2>2. CASE /\ alloc[b].state = "live" /\ ~alloc[b].stamped
             /\ Becomes(b, alloc[b].amount, "reversed", alloc[b].stamped)
    BY <1>8, <2>2, MarkCrossEffect DEF Becomes, Moved
  <2> QED BY <1>8, <2>1, <2>2, MarkCrossEffect
<1> SUFFICES T
  OBVIOUS
<1> HIDE DEF T
<1>9. CASE UNCHANGED alloc
  BY <1>9 DEF T
<1>10. CASE AllocWriter(p)
  BY <1>10, <1>1, <1>2, <1>3, <1>4, <1>5, <1>6, <1>7, <1>8 DEF AllocWriter
<1> QED BY <1>9, <1>10, Frame

\* An invoice being unwound is closed for good.
LEMMA UnwoundClosed ==
  ASSUME Ownership, NEW p \in Requests, NEW i \in Invoices, Unwinds(p, i)
  PROVE  ~Open(i)
<1>1. status[i] = "cancelled"
  BY DEF Ownership
<1>2. ASSUME NEW q \in Requests, Closes(q, i) PROVE FALSE
  <2>1. CASE q = p
    BY <1>2, <2>1 DEF Closes, Unwinds, Closing, Sweeps, Reversing
  <2>2. CASE q # p
    BY <1>2, <2>2 DEF Ownership
  <2> QED BY <2>1, <2>2
<1> QED BY <1>1, <1>2 DEF Open

\* What a row keeps: it is never erased, and its pair stays.
LEMMA RowKeeps ==
  ASSUME Shape, Fresh, Holds, NEW p \in Requests, Acts(p), NEW a \in RowIds
  PROVE  /\ alloc[a].amount > 0 => alloc'[a].amount = alloc[a].amount
         /\ alloc[a].stamped => alloc'[a].stamped
         /\ Writer(a) # p => alloc'[a].amount = alloc[a].amount
                             /\ alloc'[a].stamped = alloc[a].stamped
<1>1. alloc[a].amount \in Nat /\ alloc[a].stamped \in BOOLEAN
  BY RowFields DEF Shape, TypeOK, BookTypeOK
<1>2. CASE alloc'[a] = alloc[a]
  BY <1>2
<1>3. CASE Written(p, a)
  BY <1>1, <1>3 DEF Written, Fresh
<1>4. CASE Moved(p, a)
  BY <1>4 DEF Moved
<1>5. CASE Paired(p, a)
  BY <1>1, <1>5 DEF Paired
<1> QED BY <1>2, <1>3, <1>4, <1>5, RowMoves

\* Every step keeps the rows written once, by their writer.
LEMMA FreshStep ==
  ASSUME Shape, Ownership, Fresh, Holds, NEW p \in Requests, Acts(p)
  PROVE  Fresh'
<1>0. /\ TypeOK /\ alloc \in [RowIds -> Row] /\ Shape' /\ alloc' \in [RowIds -> Row]
  <2>1. Next
    BY DEF Next, Acts
  <2>2. Shape'
    BY <2>1, ShapeStep
  <2> QED BY <2>2 DEF Shape, TypeOK, BookTypeOK
<1>1. ASSUME NEW a \in RowIds
      PROVE  /\ alloc[a].amount \in Nat /\ alloc[a].stamped \in BOOLEAN
             /\ alloc'[a].amount \in Nat /\ alloc'[a].stamped \in BOOLEAN
             /\ InvoiceOf(a) \in Invoices
  BY <1>0, <1>1, RowIdParts DEF Row
<1>2. ASSUME NEW a \in RowIds, alloc'[a].state # "absent" \/ alloc'[a].stamped
      PROVE  alloc'[a].amount > 0
  <2>1. CASE alloc'[a] = alloc[a]
    BY <1>2, <2>1 DEF Fresh
  <2>2. CASE Written(p, a)
    BY <2>2 DEF Written
  <2>3. CASE Moved(p, a)
    BY <1>1, <1>2, <2>3 DEF Moved, Fresh
  <2>4. CASE Paired(p, a)
    BY <2>4 DEF Paired
  <2> QED BY <2>1, <2>2, <2>3, <2>4, RowMoves
<1>4. ASSUME NEW a \in RowIds, alloc'[a].state = "reversed", ~alloc'[a].stamped
      PROVE  ~Open(InvoiceOf(a))'
  <2> SUFFICES ~Open(InvoiceOf(a))
    BY <1>1, OpenMoves
  <2>1. CASE alloc'[a] = alloc[a]
    BY <1>4, <2>1 DEF Fresh
  <2>2. CASE Written(p, a)
    BY <1>4, <2>2 DEF Written
  <2>3. CASE Moved(p, a)
    BY <1>1, <1>4, <2>3, UnwoundClosed DEF Moved
  <2>4. CASE Paired(p, a)
    BY <1>4, <2>4 DEF Paired
  <2> QED BY <2>1, <2>2, <2>3, <2>4, RowMoves
<1>5. ASSUME NEW q \in Requests, pc'[q] \in Unwritten, NEW a \in RowIds, Writer(a) = q
      PROVE  alloc'[a].amount = 0
  <2>1. CASE q = p
    <3>1. pc[p] \in Unwritten /\ alloc[a].amount = 0
      BY <1>5, <2>1, LabelMoves DEF Fresh
    <3>2. ~Written(p, a) /\ ~Paired(p, a)
      BY <3>1, <1>1 DEF Written, Paired, Unwritten, Claiming
    <3> QED BY <3>1, <3>2, RowMoves DEF Moved
  <2>2. CASE q # p
    <3>1. pc[q] \in Unwritten
      BY <1>0, <1>5, <2>2, OthersKeep DEF Keeps
    <3> QED BY <1>5, <2>2, <3>1, RowKeeps DEF Fresh
  <2> QED BY <2>1, <2>2
<1>6. ASSUME NEW q \in Requests, NEW i \in Invoices, i \in claimed'[q], job'[q].kind = "receipt"
      PROVE  alloc'[Own(q, i, q)].amount = 0
  <2> DEFINE a == Own(q, i, q)
  <2>1. q \in Sources
    BY DEF Sources, Receipts
  <2>2. a \in RowIds /\ Writer(a) = q
    BY <2>1, OwnRow
  <2>3. CASE q # p
    <3>1. claimed'[q] = claimed[q] /\ job'[q] = job[q]
      BY <1>0, <2>3, OthersKeep DEF Keeps
    <3>2. alloc[a].amount = 0
      BY <1>6, <3>1 DEF Fresh
    <3> QED BY <2>2, <2>3, <3>2, RowKeeps
  <2>4. CASE q = p
    <3>1. CASE pc[p] = "idle"
      <4>1. UNCHANGED claimed
        BY <1>0, <3>1, Frame DEF ClaimedWriter, Claim, Allocate, Release
      <4> QED BY <1>6, <2>4, <3>1, <4>1 DEF Holds, HoldsOf, Reserves
    <3>2. CASE pc[p] # "idle" /\ i \notin claimed[p]
      <4>1. PICK j \in Invoices : Claim(p, j)
        <5>1. claimed \in [Requests -> SUBSET Invoices]
          BY <1>0 DEF TypeOK
        <5>2. claimed' # claimed
          BY <1>6, <2>4, <3>2
        <5>3. ASSUME NEW j \in Invoices, Allocate(p, j) \/ Release(p, j) PROVE FALSE
          BY <1>6, <2>4, <3>2, <5>1, <5>3 DEF Allocate, Release
        <5> QED BY <5>2, <5>3, Frame DEF ClaimedWriter
      <4>2. pc[p] = "claim" /\ UNCHANGED alloc
        BY <4>1 DEF Claim
      <4>3. alloc[a].amount = 0
        BY <2>2, <2>4, <4>2 DEF Fresh, Unwritten, Claiming
      <4> HIDE DEF a
      <4>4. alloc'[a].amount = 0
        BY <4>2, <4>3
      <4> QED BY <4>4 DEF a
    <3>3. CASE pc[p] # "idle" /\ i \in claimed[p]
      <4>1. job[p].kind = "receipt"
        BY <1>6, <2>4, <3>3, LabelMoves
      <4>2. alloc[a].amount = 0
        BY <2>4, <3>3, <4>1 DEF Fresh
      <4>3. ASSUME Written(p, a) PROVE FALSE
        <5>1. alloc' # alloc
          BY <1>1, <2>2, <4>3 DEF Written
        <5>2. pc[p] = "allocate"
          BY <4>1, <4>3 DEF Written, Shape, KindOf, ApplyOnly
        <5>3. PICK j \in Invoices : Allocate(p, j)
          BY <5>1, <5>2, Frame DEF AllocWriter, Stamp, Mark, Restore, CreditRow, Undo, Sweep,
             MarkCross
        <5>4. j # i
          BY <1>0, <1>6, <2>4, <5>3 DEF Allocate, TypeOK
        <5>5. Own(p, j, p) # a
          BY <2>4, <5>4 DEF Own
        <5>6. Becomes(Own(p, j, p), share[p][j], "live", FALSE)
          BY <5>3, AllocateEffect
        <5> QED BY <1>1, <2>2, <4>3, <5>5, <5>6 DEF Becomes, Written
      <4>4. ~Paired(p, a)
        BY <1>1, <2>2, <4>2 DEF Paired
      <4> QED BY <2>2, <4>2, <4>3, <4>4, RowMoves DEF Moved
    <3> QED BY <3>1, <3>2, <3>3
  <2> QED BY <2>3, <2>4
<1>7. ASSUME NEW q \in Requests, job'[q].kind = "apply", pc'[q] \in {"draw", "credit"},
             NEW a \in RowIds, Writer(a) = q
      PROVE  ~alloc'[a].stamped
  <2>1. CASE q # p
    <3>1. job[q].kind = "apply" /\ pc[q] \in {"draw", "credit"}
      BY <1>0, <1>7, <2>1, OthersKeep DEF Keeps
    <3> QED BY <1>7, <2>1, <3>1, RowKeeps DEF Fresh
  <2>2. CASE q = p
    <3>1. pc[p] \in {"claim", "draw", "credit"} /\ job'[p] = job[p]
      BY <1>7, <2>2, LabelMoves
    <3>2. ~alloc[a].stamped
      <4>1. CASE pc[p] = "claim"
        <5>1. alloc[a].amount = 0
          BY <1>7, <2>2, <4>1 DEF Fresh, Unwritten, Claiming
        <5> QED BY <5>1, <1>1 DEF Fresh
      <4>2. CASE pc[p] # "claim"
        BY <1>7, <2>2, <3>1, <4>2 DEF Fresh
      <4> QED BY <4>1, <4>2
    <3> QED BY <3>1, <3>2, RowMoves DEF Written, Moved, Paired
  <2> QED BY <2>1, <2>2
<1>8. ASSUME NEW q \in Requests, pc'[q] \in OnRow
      PROVE  alloc'[row'[q]].amount > 0
  <2>1. row'[q] \in RowIds
    BY <1>0, <1>8 DEF Shape, Inputs
  <2>2. alloc[row'[q]].amount > 0
    <3>1. CASE q # p
      <4>1. pc[q] \in OnRow /\ row'[q] = row[q]
        BY <1>0, <1>8, <3>1, OthersKeep DEF Keeps
      <4> QED BY <4>1 DEF Fresh
    <3>2. CASE q = p
      BY <1>8, <2>1, <3>2, LabelMoves DEF Fresh
    <3> QED BY <3>1, <3>2
  <2> QED BY <2>1, <2>2, RowKeeps
<1>9. ASSUME NEW q \in Requests, pc'[q] = "mark"
      PROVE  alloc'[row'[q]].stamped
  <2>1. row'[q] \in RowIds
    BY <1>0, <1>9 DEF Shape, Inputs, OnRow
  <2>2. alloc[row'[q]].stamped
    <3>1. CASE q # p
      <4>1. pc[q] = "mark" /\ row'[q] = row[q]
        BY <1>0, <1>9, <3>1, OthersKeep DEF Keeps
      <4> QED BY <4>1 DEF Fresh
    <3>2. CASE q = p
      <4>1. pc[p] = "idle"
        BY <1>9, <3>2, LabelMoves
      <4>2. PICK a \in RowIds : StartReverse(p, a)
        <5>1. Begin(p)
          BY <4>1 DEF Acts, Step, WriteFails, ReadBalance, Baseline, Raise, Claim, Allocate,
             Release, Receive, ReadForCredit, PlanCredit, EndApply, Stamp, UndoNothing, DrawCredit,
             CreditRow, Undo, GiveBackDrawn, Mark, GiveSource, GiveRoom, Close, Recheck,
             Reopen, ListRows, ListCross, Sweep, MarkCross, CrossRoom, RefundCross, Restore,
             EndPass, ReadPool, TakePool, MarkPending, ClaimRoom, Issue, ReleaseRoom,
             CloseNote, Stranded
        <5> QED BY <1>0, <1>9, <3>2, <5>1 DEF Begin, StartReceipt, StartApply, StartCancel,
             StartNote, StartCancelNote, Start, Goto, TypeOK
      <4> QED BY <1>0, <3>2, <4>2 DEF StartReverse, TypeOK
    <3> QED BY <3>1, <3>2
  <2> QED BY <2>1, <2>2, RowKeeps
<1> QED
  <2>1. \A a \in RowIds : alloc'[a].state # "absent" \/ alloc'[a].stamped => alloc'[a].amount > 0
    BY <1>2
  <2>2. \A a \in RowIds : alloc'[a].state = "reversed" /\ ~alloc'[a].stamped => ~Open(InvoiceOf(a))'
    BY <1>4
  <2>3. \A q \in Requests : claimed'[q] \subseteq Invoices
    BY <1>0 DEF Shape, TypeOK
  <2> QED BY <2>1, <2>2, <2>3, <1>5, <1>6, <1>7, <1>8, <1>9 DEF Fresh

-----------------------------------------------------------------------------
(***************************************************************************)
(* What each request accounts for.                                         *)
(***************************************************************************)
\* A request accounts for as much after a step of another.
LEMMA OthersHold ==
  ASSUME Shape, Ownership, Fresh, Holds, NEW p \in Requests, Acts(p),
         NEW q \in Requests, q # p
  PROVE  HoldsOf(q)'
<1>0. TypeOK /\ HoldsOf(q)
  BY DEF Shape, Holds
<1>1. Keeps(q)
  BY <1>0, OthersKeep
<1>2. Target(q)' = Target(q)
  BY <1>1 DEF Keeps, Target
<1>3. Reserves(q)'
  BY <1>0, <1>1 DEF HoldsOf, Reserves, Keeps
<1>4. ReceiptHolds(q)'
  BY <1>0, <1>1 DEF HoldsOf, ReceiptHolds, Keeps
<1>5. ReverseHolds(q)'
  <2> SUFFICES ASSUME pc'[q] \in Reversing \cup Crossing
               PROVE  held'[q][InvoiceOf(row'[q])] = alloc'[row'[q]].amount
    BY DEF ReverseHolds
  <2>1. pc[q] \in Reversing \cup Crossing /\ row'[q] = row[q] /\ held'[q] = held[q]
    BY <1>1 DEF Keeps
  <2>2. row[q] \in RowIds /\ alloc[row[q]].amount > 0
    BY <2>1 DEF Shape, Inputs, Fresh, OnRow, Reversing, Crossing
  <2>3. alloc'[row[q]].amount = alloc[row[q]].amount
    BY <2>2, RowKeeps
  <2> QED BY <1>0, <2>1, <2>3 DEF HoldsOf, ReverseHolds
<1>6. ApplyHolds(q)'
  <2> SUFFICES ASSUME job[q].kind = "apply"
               PROVE  ApplyHolds(q)'
    BY <1>1 DEF ApplyHolds, Keeps
  <2>1. CASE pc[q] = "idle"
    BY <2>1 DEF Shape, Inputs
  <2>2. CASE pc[q] # "idle"
    <3> SUFFICES ASSUME NEW i \in Invoices, i = Target(q) PROVE ApplyHolds(q)'
      BY <2>2, TargetType
    <3>1. i = Target(q)'
      BY <1>2
    <3>2. \A s \in Sources : Own(q, i, s) \in RowIds /\ Writer(Own(q, i, s)) = q
                             /\ InvoiceOf(Own(q, i, s)) = i
      BY OwnRow
    <3>3. \A s \in Sources : alloc'[Own(q, i, s)].amount = alloc[Own(q, i, s)].amount
      BY <3>2, RowKeeps
    <3>4. \A s \in Sources : ~Written(p, Own(q, i, s)) /\ ~Paired(p, Own(q, i, s))
      BY <3>2 DEF Written, Paired
    <3>5. Pending(q, i)' = Pending(q, i)
      <4>1. plan'[q] = plan[q]
        BY <1>1 DEF Keeps
      <4>2. \A s \in Sources : (IF alloc'[Own(q, i, s)].amount = 0 THEN plan'[q][s] ELSE 0)
                             = (IF alloc[Own(q, i, s)].amount = 0 THEN plan[q][s] ELSE 0)
        BY <3>3, <4>1
      <4> QED BY <3>1, <4>2, Zenon DEF Pending, Own
    <3>6. ASSUME NEW s \in Sources, alloc[Own(q, i, s)].state = "absent"
          PROVE  alloc'[Own(q, i, s)].state = "absent"
      BY <3>2, <3>4, <3>6, RowMoves DEF Moved
    <3>7. OwnKept(q, i)' = OwnKept(q, i)
      <4>1. ASSUME NEW s \in Sources
            PROVE  (alloc'[Own(q, i, s)].state = "absent") <=> (alloc[Own(q, i, s)].state = "absent")
        BY <3>2, <3>4, <3>6, RowMoves DEF Moved
      <4>2. \A s \in Sources :
              (IF alloc'[Own(q, i, s)].state # "absent" THEN alloc'[Own(q, i, s)].amount ELSE 0)
            = (IF alloc[Own(q, i, s)].state # "absent" THEN alloc[Own(q, i, s)].amount ELSE 0)
        BY <3>3, <4>1
      <4> QED BY <3>1, <4>2, Zenon DEF OwnKept, Own
    <3>8. (Open(i)' => Open(i)) /\ (i \in Spoiled => i \in Spoiled')
      BY OpenMoves, SpoiledStays
    <3>9. ApplyHolds(q)
      BY <1>0 DEF HoldsOf
    <3> QED BY <2>2, <1>1, <1>2, <3>1, <3>5, <3>6, <3>7, <3>8, <3>9 DEF Keeps, ApplyHolds, Own
  <2> QED BY <2>1, <2>2
<1> QED BY <1>3, <1>4, <1>5, <1>6 DEF HoldsOf

\* A request that has yet to read has not moved since it started.
LEMMA ReadingMoves ==
  ASSUME Shape, NEW p \in Requests, Acts(p), pc'[p] = "readBalance"
  PROVE  /\ pc[p] \in {"idle", "readBalance"}
         /\ claimed'[p] = claimed[p] /\ drawn'[p] = drawn[p] /\ share'[p] = share[p]
<1> DEFINE T == /\ pc[p] \in {"idle", "readBalance"}
                /\ claimed'[p] = claimed[p] /\ drawn'[p] = drawn[p] /\ share'[p] = share[p]
<1>0. pc \in [Requests -> Labels] /\ pc'[p] = "readBalance" /\ KindOf(p)
  BY DEF Shape, TypeOK
<1> USE DEF Goto, Start, local, history, vars, book, KindOf, Sweeps
<1>1. ASSUME NEW targets \in TargetLists, NEW x \in Amounts, StartReceipt(p, targets, x) PROVE T
  BY <1>0, <1>1 DEF StartReceipt
<1>2. ASSUME NEW i \in Invoices, NEW x \in Amounts, StartApply(p, i, x) PROVE T
  BY <1>0, <1>2 DEF StartApply
<1>3. ASSUME NEW a \in RowIds, StartReverse(p, a) PROVE T
  BY <1>0, <1>3 DEF StartReverse
<1>4. ASSUME NEW i \in Invoices, StartCancel(p, i) PROVE T
  BY <1>0, <1>4 DEF StartCancel
<1>5. ASSUME NEW n \in Notes, StartNote(p, n) PROVE T
  BY <1>0, <1>5 DEF StartNote
<1>6. ASSUME NEW n \in Notes, StartCancelNote(p, n) PROVE T
  BY <1>0, <1>6 DEF StartCancelNote
<1>7. ASSUME NEW i \in Invoices, ReadBalance(p, i) PROVE T
  BY <1>0, <1>7 DEF ReadBalance
<1>8. ASSUME NEW i \in Invoices, Baseline(p, i) PROVE T
  BY <1>0, <1>8 DEF Baseline
<1>9. ASSUME NEW i \in Invoices, Raise(p, i) PROVE T
  BY <1>0, <1>9 DEF Raise
<1>10. ASSUME NEW i \in Invoices, Claim(p, i) PROVE T
  BY <1>0, <1>10 DEF Claim
<1>11. ASSUME NEW i \in Invoices, Allocate(p, i) PROVE T
  BY <1>0, <1>11 DEF Allocate
<1>12. ASSUME NEW i \in Invoices, Release(p, i) PROVE T
  BY <1>0, <1>12 DEF Release
<1>13. ASSUME Receive(p) PROVE T
  BY <1>0, <1>13 DEF Receive
<1>14. ASSUME ReadForCredit(p) PROVE T
  BY <1>0, <1>14 DEF ReadForCredit
<1>15. ASSUME PlanCredit(p) PROVE T
  BY <1>0, <1>15 DEF PlanCredit
<1>16. ASSUME EndApply(p) PROVE T
  BY <1>0, <1>16 DEF EndApply
<1>17. ASSUME UndoNothing(p) PROVE T
  BY <1>0, <1>17 DEF UndoNothing
<1>18. ASSUME Mark(p) PROVE T
  BY <1>0, <1>18 DEF Mark
<1>19. ASSUME GiveSource(p) PROVE T
  BY <1>0, <1>19 DEF GiveSource
<1>20. ASSUME GiveRoom(p) PROVE T
  BY <1>0, <1>20 DEF GiveRoom
<1>21. ASSUME Close(p) PROVE T
  BY <1>0, <1>21 DEF Close
<1>22. ASSUME Recheck(p) PROVE T
  BY <1>0, <1>22 DEF Recheck
<1>23. ASSUME Reopen(p) PROVE T
  BY <1>0, <1>23 DEF Reopen
<1>24. ASSUME ListRows(p) PROVE T
  BY <1>0, <1>24 DEF ListRows
<1>25. ASSUME ListCross(p) PROVE T
  BY <1>0, <1>25 DEF ListCross
<1>26. ASSUME CrossRoom(p) PROVE T
  BY <1>0, <1>26 DEF CrossRoom
<1>27. ASSUME RefundCross(p) PROVE T
  BY <1>0, <1>27 DEF RefundCross
<1>28. ASSUME Restore(p) PROVE T
  BY <1>0, <1>28 DEF Restore
<1>29. ASSUME EndPass(p) PROVE T
  BY <1>0, <1>29 DEF EndPass
<1>30. ASSUME ReadPool(p) PROVE T
  BY <1>0, <1>30 DEF ReadPool
<1>31. ASSUME TakePool(p) PROVE T
  BY <1>0, <1>31 DEF TakePool
<1>32. ASSUME MarkPending(p) PROVE T
  BY <1>0, <1>32 DEF MarkPending
<1>33. ASSUME ClaimRoom(p) PROVE T
  BY <1>0, <1>33 DEF ClaimRoom
<1>34. ASSUME Issue(p) PROVE T
  BY <1>0, <1>34 DEF Issue
<1>35. ASSUME ReleaseRoom(p) PROVE T
  BY <1>0, <1>35 DEF ReleaseRoom
<1>36. ASSUME CloseNote(p) PROVE T
  BY <1>0, <1>36 DEF CloseNote
<1>37. ASSUME Stranded(p) PROVE T
  BY <1>0, <1>37 DEF Stranded
<1>38. ASSUME NEW s \in Sources, DrawCredit(p, s) PROVE T
  BY <1>0, <1>38 DEF DrawCredit
<1>39. ASSUME NEW s \in Sources, CreditRow(p, s) PROVE T
  BY <1>0, <1>39 DEF CreditRow
<1>40. ASSUME NEW s \in Sources, Undo(p, s) PROVE T
  BY <1>0, <1>40 DEF Undo
<1>49. ASSUME NEW s \in Sources, Stamp(p, s) PROVE T
  BY <1>0, <1>49 DEF Stamp
<1>41. ASSUME NEW s \in Sources, GiveBackDrawn(p, s) PROVE T
  BY <1>0, <1>41 DEF GiveBackDrawn
<1>42. ASSUME NEW a \in RowIds, Sweep(p, a) PROVE T
  BY <1>0, <1>42 DEF Sweep
<1>43. ASSUME NEW a \in RowIds, MarkCross(p, a) PROVE T
  BY <1>0, <1>43 DEF MarkCross
<1>44. ASSUME WriteFails(p) PROVE T
  BY <1>0, <1>44 DEF WriteFails, OnError
<1> SUFFICES T
  OBVIOUS
<1> HIDE DEF T
<1>45. CASE Begin(p)
  BY <1>45, <1>1, <1>2, <1>3, <1>4, <1>5, <1>6, SMTT(30) DEF Begin
<1>46. CASE Step(p)
  BY <1>46, <1>7, <1>8, <1>9, <1>10, <1>11, <1>12, <1>13, <1>14, <1>15, <1>16,
     <1>17, <1>18, <1>19, <1>20, <1>21, <1>22, <1>23, <1>24, <1>25, <1>26,
     <1>27, <1>28, <1>29, <1>30, <1>31, <1>32, <1>33, <1>34, <1>35, <1>36,
     <1>37, <1>38, <1>39, <1>40, <1>49, <1>41, <1>42, <1>43, SMTT(60) DEF Step
<1> QED BY <1>44, <1>45, <1>46 DEF Acts

\* The terms of a plan: what CreditRow is about to write is part of what is held.
LEMMA PendingTerm ==
  ASSUME TypeOK, NEW q \in Requests, NEW i \in Invoices
  PROVE  /\ Pending(q, i) \in [Sources -> Nat] /\ Sum(Pending(q, i)) \in Nat
         /\ \A s \in Sources : Pending(q, i)[s] <= Sum(Pending(q, i))
<1>1. Pending(q, i) \in [Sources -> Nat]
  BY DEF Pending, TypeOK
<1>2. Sum(Pending(q, i)) \in Nat
  BY <1>1, Finite, SumNat
<1>3. ASSUME NEW s \in Sources PROVE Pending(q, i)[s] <= Sum(Pending(q, i))
  BY <1>1, Finite, SumTerm
<1> QED BY <1>1, <1>2, <1>3

\* Setting what p holds of i touches nothing else.
LEMMA HoldEffect ==
  ASSUME held \in [Requests -> [Invoices -> Int]], NEW p \in Requests, NEW i \in Invoices,
         NEW x, Hold(p, i, x)
  PROVE  /\ held'[p][i] = x
         /\ \A j \in Invoices : j # i => held'[p][j] = held[p][j]
         /\ \A q \in Requests : q # p => held'[q] = held[q]
BY DEF Hold

\* A request never holds less than nothing, and claims only what it planned.
LEMMA OwnReserves ==
  ASSUME Shape, Fresh, Holds, NEW p \in Requests, Acts(p)
  PROVE  Reserves(p)'
<1>0. /\ TypeOK /\ held \in [Requests -> [Invoices -> Int]]
      /\ share \in [Requests -> [Invoices -> Nat]] /\ alloc \in [RowIds -> Row]
      /\ claimed \in [Requests -> SUBSET Invoices] /\ pc \in [Requests -> Labels]
      /\ plan \in [Requests -> [Sources -> Nat]]
      /\ Reserves(p)
  BY DEF Shape, TypeOK, BookTypeOK, Holds, HoldsOf
<1>1. ASSUME NEW i \in Invoices PROVE held'[p][i] >= 0
  <2> DEFINE T == held'[p][i] >= 0
  <2>0. held[p][i] \in Int /\ held[p][i] >= 0
    BY <1>0 DEF Reserves
  <2>1. ASSUME NEW j \in Invoices, Claim(p, j) PROVE T
    BY <1>0, <2>0, <2>1 DEF Claim, Hold, history
  <2>2. ASSUME NEW j \in Invoices, Allocate(p, j) \/ Release(p, j) PROVE T
    <3>1. Hold(p, j, 0)
      BY <2>2 DEF Allocate, Release
    <3>2. held'[p][i] = 0 \/ held'[p][i] = held[p][i]
      BY <1>0, <3>1, HoldEffect
    <3> QED BY <2>0, <3>2
  <2>3. ASSUME NEW a \in RowIds, NEW x, UNCHANGED held \/ Hold(p, InvoiceOf(a), x),
               x \in Nat PROVE T
    <3>1. InvoiceOf(a) \in Invoices
      BY RowIdParts
    <3>2. CASE Hold(p, InvoiceOf(a), x)
      <4>1. held'[p][i] = x \/ held'[p][i] = held[p][i]
        BY <1>0, <3>1, <3>2, HoldEffect
      <4> QED BY <2>0, <2>3, <4>1
    <3> QED BY <2>0, <2>3, <3>2
  <2>4. ASSUME Mark(p) \/ GiveRoom(p) \/ RefundCross(p) \/ Restore(p) PROVE T
    <3>1. row[p] \in RowIds
      BY <2>4 DEF Shape, Inputs, OnRow, Mark, GiveRoom, RefundCross, Restore
    <3>2. alloc[row[p]].amount \in Nat
      BY <1>0, <3>1, RowFields
    <3>3. \/ UNCHANGED history \/ Hold(p, InvoiceOf(row[p]), alloc[row[p]].amount)
          \/ Hold(p, InvoiceOf(row[p]), 0)
      BY <2>4, Zenon DEF Mark, GiveRoom, RefundCross, Restore
    <3> QED BY <2>3, <3>1, <3>2, <3>3 DEF history
  <2>5. ASSUME NEW a \in RowIds, Sweep(p, a) \/ MarkCross(p, a) PROVE T
    <3>1. UNCHANGED history \/ Hold(p, InvoiceOf(a), alloc[a].amount)
      BY <2>5, Zenon DEF Sweep, MarkCross
    <3>2. alloc[a].amount \in Nat
      BY <1>0, RowFields
    <3> QED BY <2>3, <3>1, <3>2 DEF history
  <2>6. ASSUME NEW s \in Sources, CreditRow(p, s) PROVE T
    <3> DEFINE k == Target(p)
    <3>1. k \in Invoices /\ pc[p] = "credit" /\ alloc[Own(p, k, s)].amount = 0
          /\ Hold(p, k, held[p][k] - plan[p][s])
      BY <2>6, CreditRowEffect DEF CreditRow
    <3>2. held[p][k] = Sum(Pending(p, k))
      BY <3>1 DEF Holds, HoldsOf, ApplyHolds, Shape, KindOf, ApplyOnly
    <3> HIDE DEF k
    <3>3. Pending(p, k)[s] = plan[p][s]
      BY <3>1 DEF Pending
    <3>4. plan[p][s] <= held[p][k] /\ plan[p][s] \in Nat /\ held[p][k] \in Int
      BY <1>0, <3>1, <3>2, <3>3, PendingTerm
    <3>5. /\ held'[p][k] = held[p][k] - plan[p][s]
          /\ i # k => held'[p][i] = held[p][i]
      BY <1>0, <3>1, HoldEffect
    <3> QED BY <2>0, <3>4, <3>5
  <2>7. ASSUME NEW s \in Sources, Undo(p, s) PROVE T
    <3> DEFINE k == Target(p)
               a == Own(p, k, s)
    <3>1. k \in Invoices /\ a \in RowIds
      BY <2>7, UndoEffect
    <3>2. held' = [held EXCEPT ![p][k] = @ + IF alloc[a].state = "live" THEN alloc[a].amount ELSE 0]
      BY <2>7 DEF Undo
    <3> HIDE DEF k, a
    <3>3. alloc[a].amount \in Nat /\ held[p][k] \in Int /\ held[p][k] >= 0
      BY <1>0, <3>1, RowFields DEF Reserves
    <3> DEFINE x == held[p][k] + IF alloc[a].state = "live" THEN alloc[a].amount ELSE 0
    <3>4. x >= 0
      BY <3>3
    <3>5. held' = [held EXCEPT ![p][k] = x]
      BY <1>0, <3>1, <3>2
    <3> HIDE DEF x
    <3>6. held'[p][i] = x \/ held'[p][i] = held[p][i]
      BY <1>0, <3>1, <3>5
    <3> QED BY <2>0, <3>4, <3>6
  <2> SUFFICES T
    OBVIOUS
  <2> HIDE DEF T
  <2>8. CASE UNCHANGED held
    BY <2>0, <2>8 DEF T
  <2>9. CASE HeldWriter(p)
    BY <2>9, <2>1, <2>2, <2>4, <2>5, <2>6, <2>7 DEF HeldWriter
  <2> QED BY <2>8, <2>9, Frame
<1>2. ASSUME NEW i \in claimed'[p] PROVE share'[p][i] > 0
  <2>1. CASE UNCHANGED <<share, claimed>>
    BY <1>0, <1>2, <2>1 DEF Reserves
  <2>2. ASSUME NEW j \in Invoices, Claim(p, j) PROVE share'[p][i] > 0
    <3>1. j \in ToClaim(p) /\ UNCHANGED share /\ claimed'[p] \subseteq claimed[p] \cup {j}
      BY <1>0, <2>2 DEF Claim, IsNext
    <3> QED BY <1>0, <1>2, <3>1 DEF Reserves, ToClaim
  <2>3. ASSUME NEW j \in Invoices, Allocate(p, j) \/ Release(p, j) PROVE share'[p][i] > 0
    <3>1. UNCHANGED share /\ claimed'[p] \subseteq claimed[p]
      BY <1>0, <2>3 DEF Allocate, Release
    <3> QED BY <1>0, <1>2, <3>1 DEF Reserves
  <2>4. ASSUME Reader(p) PROVE claimed'[p] = {}
    BY <1>0, <2>4 DEF Reader, ReadBalance, ReadForCredit, Reserves
  <2>5. CASE UNCHANGED claimed
    BY <1>2, <2>1, <2>4, <2>5, Frame
  <2>6. CASE ClaimedWriter(p)
    BY <2>2, <2>3, <2>6 DEF ClaimedWriter
  <2> QED BY <2>5, <2>6, Frame
<1>3. ASSUME pc'[p] \in {"idle", "readBalance"}
      PROVE  claimed'[p] = {} /\ drawn'[p] = {} /\ \A i \in Invoices : share'[p][i] = 0
  <2>1. pc'[p] = "readBalance"
    BY <1>3, LabelMoves
  <2> QED BY <1>0, <2>1, ReadingMoves DEF Reserves
<1> QED BY <1>1, <1>2, <1>3 DEF Reserves

\* A receipt accounts for each claim after its own step.
LEMMA OwnReceiptHolds ==
  ASSUME Shape, Fresh, Holds, NEW p \in Requests, Acts(p)
  PROVE  ReceiptHolds(p)'
<1> SUFFICES ASSUME job'[p].kind = "receipt", NEW i \in claimed'[p]
             PROVE  held'[p][i] = share'[p][i]
  BY DEF ReceiptHolds
<1>0. /\ held \in [Requests -> [Invoices -> Int]] /\ claimed \in [Requests -> SUBSET Invoices]
      /\ Reserves(p) /\ ReceiptHolds(p) /\ KindOf(p)
  BY DEF Shape, TypeOK, Holds, HoldsOf
<1>1. CASE pc[p] = "idle"
  BY <1>0, <1>1, Frame DEF ClaimedWriter, Claim, Allocate, Release, Reserves
<1>2. CASE pc[p] # "idle"
  <2>1. job[p].kind = "receipt"
    BY <1>2, LabelMoves
  <2>2. UNCHANGED share \/ claimed'[p] = {}
    <3>1. ASSUME Reader(p) PROVE claimed'[p] = {}
      BY <1>0, <3>1 DEF Reader, ReadBalance, ReadForCredit, Reserves
    <3> QED BY <3>1, Frame
  <2>3. ASSUME NEW j \in Invoices, Claim(p, j) PROVE held'[p][i] = share'[p][i]
    BY <1>0, <2>1, <2>3 DEF Claim, Hold, history, ReceiptHolds
  <2>4. ASSUME NEW j \in Invoices, Allocate(p, j) \/ Release(p, j)
        PROVE  held'[p][i] = share'[p][i]
    <3>1. i \in claimed[p] /\ i # j /\ i \in Invoices /\ UNCHANGED share /\ Hold(p, j, 0)
      BY <1>0, <2>4 DEF Allocate, Release
    <3> QED BY <1>0, <2>1, <3>1 DEF Hold, ReceiptHolds
  <2>5. CASE UNCHANGED claimed
    <3>1. \/ UNCHANGED held
          \/ \E j \in Invoices : Claim(p, j) \/ Allocate(p, j) \/ Release(p, j)
      BY <1>0, <2>1, Frame DEF HeldWriter, KindOf, ApplyOnly, Reversing, Sweeps, CreditRow, Undo,
         Mark, GiveRoom, RefundCross, Restore, Sweep, MarkCross
    <3>2. CASE UNCHANGED held
      BY <1>0, <2>1, <2>2, <2>5, <3>2 DEF ReceiptHolds
    <3> QED BY <2>3, <2>4, <3>1, <3>2
  <2> QED BY <2>3, <2>4, <2>5, Frame DEF ClaimedWriter
<1> QED BY <1>1, <1>2

\* How p comes to be reversing a row.
LEMMA ReversingMoves ==
  ASSUME Shape, NEW p \in Requests, Acts(p), pc'[p] \in Reversing \cup Crossing
  PROVE  \/ Mark(p) \/ \E a \in RowIds : Sweep(p, a) \/ MarkCross(p, a)
         \/ /\ pc[p] \in Reversing \cup Crossing /\ row'[p] = row[p]
            /\ UNCHANGED <<alloc, held>>
<1> DEFINE T == \/ Mark(p) \/ \E a \in RowIds : Sweep(p, a) \/ MarkCross(p, a)
                \/ /\ pc[p] \in Reversing \cup Crossing /\ row'[p] = row[p]
                   /\ UNCHANGED <<alloc, held>>
<1>0. pc \in [Requests -> Labels] /\ pc'[p] \in Reversing \cup Crossing
  BY DEF Shape, TypeOK
<1> USE DEF Goto, Start, local, history, vars, book, Reversing, Crossing
<1>1. ASSUME NEW targets \in TargetLists, NEW x \in Amounts, StartReceipt(p, targets, x) PROVE T
  BY <1>0, <1>1 DEF StartReceipt
<1>2. ASSUME NEW i \in Invoices, NEW x \in Amounts, StartApply(p, i, x) PROVE T
  BY <1>0, <1>2 DEF StartApply
<1>3. ASSUME NEW a \in RowIds, StartReverse(p, a) PROVE T
  BY <1>0, <1>3 DEF StartReverse
<1>4. ASSUME NEW i \in Invoices, StartCancel(p, i) PROVE T
  BY <1>0, <1>4 DEF StartCancel
<1>5. ASSUME NEW n \in Notes, StartNote(p, n) PROVE T
  BY <1>0, <1>5 DEF StartNote
<1>6. ASSUME NEW n \in Notes, StartCancelNote(p, n) PROVE T
  BY <1>0, <1>6 DEF StartCancelNote
<1>7. ASSUME NEW i \in Invoices, ReadBalance(p, i) PROVE T
  BY <1>0, <1>7 DEF ReadBalance
<1>8. ASSUME NEW i \in Invoices, Baseline(p, i) PROVE T
  BY <1>0, <1>8 DEF Baseline
<1>9. ASSUME NEW i \in Invoices, Raise(p, i) PROVE T
  BY <1>0, <1>9 DEF Raise
<1>10. ASSUME NEW i \in Invoices, Claim(p, i) PROVE T
  BY <1>0, <1>10 DEF Claim
<1>11. ASSUME NEW i \in Invoices, Allocate(p, i) PROVE T
  BY <1>0, <1>11 DEF Allocate
<1>12. ASSUME NEW i \in Invoices, Release(p, i) PROVE T
  BY <1>0, <1>12 DEF Release
<1>13. ASSUME Receive(p) PROVE T
  BY <1>0, <1>13 DEF Receive
<1>14. ASSUME ReadForCredit(p) PROVE T
  BY <1>0, <1>14 DEF ReadForCredit
<1>15. ASSUME PlanCredit(p) PROVE T
  BY <1>0, <1>15 DEF PlanCredit
<1>16. ASSUME EndApply(p) PROVE T
  BY <1>0, <1>16 DEF EndApply
<1>17. ASSUME UndoNothing(p) PROVE T
  BY <1>0, <1>17 DEF UndoNothing
<1>18. ASSUME Mark(p) PROVE T
  BY <1>18
<1>19. ASSUME GiveSource(p) PROVE T
  BY <1>0, <1>19 DEF GiveSource
<1>20. ASSUME GiveRoom(p) PROVE T
  BY <1>0, <1>20 DEF GiveRoom
<1>21. ASSUME Close(p) PROVE T
  BY <1>0, <1>21 DEF Close
<1>22. ASSUME Recheck(p) PROVE T
  BY <1>0, <1>22 DEF Recheck
<1>23. ASSUME Reopen(p) PROVE T
  BY <1>0, <1>23 DEF Reopen
<1>24. ASSUME ListRows(p) PROVE T
  BY <1>0, <1>24 DEF ListRows
<1>25. ASSUME ListCross(p) PROVE T
  BY <1>0, <1>25 DEF ListCross
<1>26. ASSUME CrossRoom(p) PROVE T
  BY <1>0, <1>26 DEF CrossRoom
<1>27. ASSUME RefundCross(p) PROVE T
  BY <1>0, <1>27 DEF RefundCross
<1>28. ASSUME Restore(p) PROVE T
  BY <1>0, <1>28 DEF Restore
<1>29. ASSUME EndPass(p) PROVE T
  BY <1>0, <1>29 DEF EndPass
<1>30. ASSUME ReadPool(p) PROVE T
  BY <1>0, <1>30 DEF ReadPool
<1>31. ASSUME TakePool(p) PROVE T
  BY <1>0, <1>31 DEF TakePool
<1>32. ASSUME MarkPending(p) PROVE T
  BY <1>0, <1>32 DEF MarkPending
<1>33. ASSUME ClaimRoom(p) PROVE T
  BY <1>0, <1>33 DEF ClaimRoom
<1>34. ASSUME Issue(p) PROVE T
  BY <1>0, <1>34 DEF Issue
<1>35. ASSUME ReleaseRoom(p) PROVE T
  BY <1>0, <1>35 DEF ReleaseRoom
<1>36. ASSUME CloseNote(p) PROVE T
  BY <1>0, <1>36 DEF CloseNote
<1>37. ASSUME Stranded(p) PROVE T
  BY <1>0, <1>37 DEF Stranded
<1>38. ASSUME NEW s \in Sources, DrawCredit(p, s) PROVE T
  BY <1>0, <1>38 DEF DrawCredit
<1>39. ASSUME NEW s \in Sources, CreditRow(p, s) PROVE T
  BY <1>0, <1>39 DEF CreditRow
<1>40. ASSUME NEW s \in Sources, Undo(p, s) PROVE T
  BY <1>0, <1>40 DEF Undo
<1>49. ASSUME NEW s \in Sources, Stamp(p, s) PROVE T
  BY <1>0, <1>49 DEF Stamp
<1>41. ASSUME NEW s \in Sources, GiveBackDrawn(p, s) PROVE T
  BY <1>0, <1>41 DEF GiveBackDrawn
<1>42. ASSUME NEW a \in RowIds, Sweep(p, a) PROVE T
  BY <1>42
<1>43. ASSUME NEW a \in RowIds, MarkCross(p, a) PROVE T
  BY <1>43
<1>44. ASSUME WriteFails(p) PROVE T
  BY <1>0, <1>44 DEF WriteFails, OnError
<1> SUFFICES T
  OBVIOUS
<1> HIDE DEF T
<1>45. CASE Begin(p)
  BY <1>45, <1>1, <1>2, <1>3, <1>4, <1>5, <1>6, SMTT(30) DEF Begin
<1>46. CASE Step(p)
  BY <1>46, <1>7, <1>8, <1>9, <1>10, <1>11, <1>12, <1>13, <1>14, <1>15, <1>16,
     <1>17, <1>18, <1>19, <1>20, <1>21, <1>22, <1>23, <1>24, <1>25, <1>26,
     <1>27, <1>28, <1>29, <1>30, <1>31, <1>32, <1>33, <1>34, <1>35, <1>36,
     <1>37, <1>38, <1>39, <1>40, <1>49, <1>41, <1>42, <1>43, SMTT(60) DEF Step
<1> QED BY <1>44, <1>45, <1>46 DEF Acts

\* What a reversal flagged, it accounts for.
LEMMA OwnReverseHolds ==
  ASSUME Shape, Fresh, Holds, NEW p \in Requests, Acts(p)
  PROVE  ReverseHolds(p)'
<1> SUFFICES ASSUME pc'[p] \in Reversing \cup Crossing
             PROVE  held'[p][InvoiceOf(row'[p])] = alloc'[row'[p]].amount
  BY DEF ReverseHolds
<1>0. /\ held \in [Requests -> [Invoices -> Int]] /\ alloc \in [RowIds -> Row]
      /\ pc \in [Requests -> Labels] /\ row \in [Requests -> RowIds \cup {NoRowId}]
      /\ ReverseHolds(p)
  BY DEF Shape, TypeOK, BookTypeOK, Holds, HoldsOf
<1>1. ASSUME NEW a \in RowIds, row'[p] = a, alloc' = [alloc EXCEPT ![a].state = "reversed"],
             Hold(p, InvoiceOf(a), alloc[a].amount)
      PROVE  held'[p][InvoiceOf(row'[p])] = alloc'[row'[p]].amount
  <2>1. alloc'[a].amount = alloc[a].amount
    BY <1>0, <1>1, StateEffect DEF Becomes
  <2>2. InvoiceOf(a) \in Invoices
    BY RowIdParts
  <2>3. held'[p][InvoiceOf(a)] = alloc[a].amount
    BY <1>0, <1>1, <2>2, HoldEffect
  <2> QED BY <1>1, <2>1, <2>3
<1>2. CASE Mark(p)
  <2>1. row[p] \in RowIds /\ row'[p] = row[p]
    BY <1>2 DEF Mark, Shape, Inputs, OnRow, local, history
  <2>2. pc'[p] # "done"
    BY DEF Reversing, Crossing
  <2>3. ~Goto(p, "done")
    BY <1>0, <2>2 DEF Goto
  <2>4. /\ alloc' = [alloc EXCEPT ![row[p]].state = "reversed"]
        /\ Hold(p, InvoiceOf(row[p]), alloc[row[p]].amount)
    BY <1>2, <2>3, Zenon DEF Mark
  <2> QED BY <1>1, <2>1, <2>4
<1>3. ASSUME NEW a \in RowIds, Sweep(p, a) \/ MarkCross(p, a)
      PROVE  held'[p][InvoiceOf(row'[p])] = alloc'[row'[p]].amount
  <2>1. pc[p] \in {"sweep", "cross"}
    BY <1>3 DEF Sweep, MarkCross
  <2>2. ~UNCHANGED pc
    BY <2>1 DEF Reversing, Crossing
  <2>3. /\ alloc' = [alloc EXCEPT ![a].state = "reversed"]
        /\ Hold(p, InvoiceOf(a), alloc[a].amount)
        /\ row' = [row EXCEPT ![p] = a]
    BY <1>3, <2>2, Zenon DEF Sweep, MarkCross
  <2>4. row'[p] = a
    BY <1>0, <2>3
  <2> QED BY <1>1, <2>3, <2>4
<1>4. CASE pc[p] \in Reversing \cup Crossing /\ row'[p] = row[p] /\ UNCHANGED <<alloc, held>>
  BY <1>0, <1>4 DEF ReverseHolds
<1> QED BY <1>2, <1>3, <1>4, ReversingMoves

\* The steps of an application.
ApplyStep(p) ==
  \/ ReadForCredit(p) \/ PlanCredit(p) \/ EndApply(p) \/ UndoNothing(p) \/ WriteFails(p)
  \/ \E i \in Invoices : Baseline(p, i) \/ Raise(p, i) \/ Claim(p, i) \/ Release(p, i)
  \/ \E s \in Sources : \/ DrawCredit(p, s) \/ CreditRow(p, s) \/ Stamp(p, s)
                        \/ Undo(p, s) \/ GiveBackDrawn(p, s)
NoteStep(p) ==
  ClaimRoom(p) \/ Issue(p) \/ ReleaseRoom(p) \/ CloseNote(p) \/ Stranded(p)

\* An application takes no other steps.
LEMMA ApplySteps ==
  ASSUME Shape, NEW p \in Requests, Acts(p), job[p].kind = "apply", pc[p] # "idle"
  PROVE  ApplyStep(p) \/ NoteStep(p)
<1>0. KindOf(p)
  BY DEF Shape
<1> USE DEF KindOf, ReceiptOnly, Closing, Sweeps, Reversing
<1>1. ~Begin(p)
  BY DEF Begin, StartReceipt, StartApply, StartReverse, StartCancel, StartNote,
     StartCancelNote, Start
<1>2. \A i \in Invoices : ~ReadBalance(p, i) /\ ~Allocate(p, i)
  BY <1>0 DEF ReadBalance, Allocate
<1>3. ~Receive(p) /\ ~Mark(p) /\ ~GiveSource(p) /\ ~GiveRoom(p)
  BY <1>0 DEF Receive, Mark, GiveSource, GiveRoom
<1>4. ~Close(p) /\ ~Recheck(p) /\ ~Reopen(p) /\ ~ListRows(p) /\ ~ListCross(p)
  BY <1>0 DEF Close, Recheck, Reopen, ListRows, ListCross
<1>5. \A a \in RowIds : ~Sweep(p, a) /\ ~MarkCross(p, a)
  BY <1>0 DEF Sweep, MarkCross
<1>6. ~CrossRoom(p) /\ ~RefundCross(p) /\ ~Restore(p) /\ ~EndPass(p)
  BY <1>0 DEF CrossRoom, RefundCross, Restore, EndPass
<1>7. ~ReadPool(p) /\ ~TakePool(p) /\ ~MarkPending(p)
  BY <1>0 DEF ReadPool, TakePool, MarkPending
<1> QED BY <1>1, <1>2, <1>3, <1>4, <1>5, <1>6, <1>7, SMTT(60) DEF Acts, Step, ApplyStep, NoteStep

\* Totals over the rows an application may write.
LEMMA OwnKeptType ==
  ASSUME alloc \in [RowIds -> Row], NEW q \in Requests, NEW i \in Invoices
  PROVE  OwnKept(q, i) \in [Sources -> Nat] /\ Sum(OwnKept(q, i)) \in Nat
<1>1. ASSUME NEW s \in Sources PROVE alloc[Own(q, i, s)].amount \in Nat
  BY OwnRow, RowFields
<1>2. OwnKept(q, i) \in [Sources -> Nat]
  BY <1>1 DEF OwnKept
<1> QED BY <1>2, Finite, SumNat

\* What an application holds, with its rows unchanged.
LEMMA SameSums ==
  ASSUME UNCHANGED <<alloc, plan>>, NEW q \in Requests, NEW i \in Invoices
  PROVE  Pending(q, i)' = Pending(q, i) /\ OwnKept(q, i)' = OwnKept(q, i)
BY DEF Pending, OwnKept, Own

\* Before an application has written rows, it holds all it planned.
LEMMA UnwrittenSums ==
  ASSUME TypeOK, NEW q \in Requests, NEW i \in Invoices,
         \A s \in Sources : alloc[Own(q, i, s)].amount = 0
  PROVE  Pending(q, i) = plan[q] /\ Sum(OwnKept(q, i)) = 0
<1>1. \A s \in Sources : Pending(q, i)[s] = plan[q][s]
  BY DEF Pending
<1>2. Pending(q, i) \in [Sources -> Nat] /\ plan[q] \in [Sources -> Nat]
  BY PendingTerm DEF TypeOK
<1>3. \A s \in Sources : OwnKept(q, i)[s] = 0
  BY DEF OwnKept
<1>4. OwnKept(q, i) \in [Sources -> Nat]
  BY OwnKeptType DEF TypeOK, BookTypeOK
<1>5. Sum(OwnKept(q, i)) = 0
  BY <1>3, <1>4, SumZero
<1> QED BY <1>1, <1>2, <1>5

\* Writing one of the planned rows moves its amount from what is held to the rows.
LEMMA CreditRowSums ==
  ASSUME Shape, Fresh, Holds, NEW p \in Requests, NEW s \in Sources, CreditRow(p, s),
         NEW i \in Invoices, i = Target(p)
  PROVE  /\ Sum(Pending(p, i))' + plan[p][s] = Sum(Pending(p, i))
         /\ Sum(OwnKept(p, i))' = Sum(OwnKept(p, i)) + plan[p][s]
         /\ Sum(Pending(p, i))' \in Nat
<1> DEFINE b == Own(p, i, s)
           f == Pending(p, i)
           g == [t \in Sources |-> IF alloc'[Own(p, i, t)].amount = 0 THEN plan[p][t] ELSE 0]
           f2 == OwnKept(p, i)
           g2 == [t \in Sources |-> IF alloc'[Own(p, i, t)].state # "absent"
                                    THEN alloc'[Own(p, i, t)].amount ELSE 0]
<1>0. TypeOK /\ alloc \in [RowIds -> Row] /\ plan \in [Requests -> [Sources -> Nat]]
  BY DEF Shape, TypeOK, BookTypeOK
<1>1. /\ pc[p] = "credit" /\ s \in drawn[p] /\ alloc[b].amount = 0 /\ UNCHANGED plan
      /\ b \in RowIds
  BY OwnRow DEF CreditRow, local, history
<1>2. plan[p][s] > 0 /\ plan[p][s] \in Nat
  BY <1>0, <1>1 DEF Holds, HoldsOf, ApplyHolds, Shape, KindOf, ApplyOnly
<1>3. Becomes(b, plan[p][s], "live", FALSE)
  BY CreditRowEffect
<1>4. alloc[b].state = "absent"
  BY <1>0, <1>1 DEF Fresh
<1>5. ASSUME NEW t \in Sources, t # s
      PROVE  alloc'[Own(p, i, t)] = alloc[Own(p, i, t)]
  <2>1. Own(p, i, t) \in RowIds /\ Own(p, i, t) # b
    BY <1>5, OwnRow DEF Own
  <2> QED BY <1>3, <2>1 DEF Becomes
<1>6. f \in [Sources -> Nat] /\ f2 \in [Sources -> Nat]
  BY <1>0, PendingTerm, OwnKeptType
<1>7. f[s] = plan[p][s] /\ f2[s] = 0
  BY <1>1, <1>4 DEF Pending, OwnKept
<1>8. g[s] = 0 /\ g2[s] = plan[p][s]
  BY <1>2, <1>3 DEF Becomes
<1>9. \A t \in Sources : t # s => g[t] = f[t] /\ g2[t] = f2[t]
  BY <1>5 DEF Pending, OwnKept
<1>10. g \in [Sources -> Nat] /\ g2 \in [Sources -> Nat]
  <2>1. \A t \in Sources : g[t] \in Nat /\ g2[t] \in Nat
    BY <1>2, <1>6, <1>8, <1>9
  <2> QED BY <2>1
<1>11. Pending(p, i)' = g /\ OwnKept(p, i)' = g2
  BY <1>1, Zenon DEF Pending, OwnKept, Own
<1> HIDE DEF f, g, f2, g2
<1>12. Sum(g) + f[s] = Sum(f) + g[s] /\ Sum(g2) + f2[s] = Sum(f2) + g2[s]
  BY <1>6, <1>9, <1>10, Finite, SumChange
<1>13. Sum(f) \in Nat /\ Sum(g) \in Nat /\ Sum(f2) \in Nat /\ Sum(g2) \in Nat
  BY <1>6, <1>10, Finite, SumNat
<1>14. Sum(g) + plan[p][s] = Sum(f) /\ Sum(g2) = Sum(f2) + plan[p][s]
  BY <1>2, <1>7, <1>8, <1>12, <1>13
<1> QED BY <1>11, <1>13, <1>14 DEF f, f2

\* Deleting a row that still was live gives its amount back to what is held;
\* one that a reversal had flagged is given back a second time.
LEMMA UndoSums ==
  ASSUME Shape, Fresh, NEW p \in Requests, NEW s \in Sources, Undo(p, s),
         NEW i \in Invoices, i = Target(p), Open(i), i \notin Spoiled'
  PROVE  held'[p][i] + Sum(OwnKept(p, i))' = held[p][i] + Sum(OwnKept(p, i))
<1> DEFINE b == Own(p, i, s)
           f == OwnKept(p, i)
           g == [t \in Sources |-> IF alloc'[Own(p, i, t)].state # "absent"
                                   THEN alloc'[Own(p, i, t)].amount ELSE 0]
<1>0. /\ alloc \in [RowIds -> Row] /\ held \in [Requests -> [Invoices -> Int]]
      /\ held[p][i] \in Int
  BY DEF Shape, TypeOK, BookTypeOK
<1>1. b \in RowIds /\ alloc[b].amount \in Nat
  BY <1>0, OwnRow, RowFields
<1>2. Becomes(b, alloc[b].amount, "absent", alloc[b].stamped)
  BY UndoEffect
<1>3. ASSUME NEW t \in Sources, t # s
      PROVE  alloc'[Own(p, i, t)] = alloc[Own(p, i, t)]
  <2>1. Own(p, i, t) \in RowIds /\ Own(p, i, t) # b
    BY <1>3, OwnRow DEF Own
  <2> QED BY <1>2, <2>1 DEF Becomes
<1>4. f \in [Sources -> Nat]
  BY <1>0, OwnKeptType
<1>5. alloc[b].state = "live" /\ f[s] = alloc[b].amount
  <2>1. InvoiceOf(b) = i
    BY OwnRow
  <2>2. CASE alloc[b].state = "reversed" /\ alloc[b].stamped
    <3>1. b \in twice'
      BY <2>2 DEF Undo
    <3> QED BY <2>1, <3>1 DEF Spoiled, InvoiceOf
  <2>3. CASE alloc[b].state = "reversed" /\ ~alloc[b].stamped
    BY <1>1, <2>1, <2>3 DEF Fresh
  <2>4. alloc[b].state \in {"live", "reversed"}
    BY <1>0, <1>1, RowFields DEF Undo
  <2>5. alloc[b].state = "live"
    BY <2>2, <2>3, <2>4
  <2> QED BY <2>5 DEF OwnKept
<1>6. g[s] = 0
  BY <1>2 DEF Becomes
<1>7. \A t \in Sources : t # s => g[t] = f[t]
  BY <1>3 DEF OwnKept
<1>8. g \in [Sources -> Nat]
  <2>1. \A t \in Sources : g[t] \in Nat
    BY <1>4, <1>6, <1>7
  <2> QED BY <2>1
<1>9. OwnKept(p, i)' = g
  BY Zenon DEF OwnKept, Own
<1>10. held'[p][i] = held[p][i] + alloc[b].amount
  <2>1. held' = [held EXCEPT ![p][i] = @ + alloc[b].amount]
    BY <1>5 DEF Undo
  <2> HIDE DEF b
  <2> QED BY <1>0, <2>1
<1> HIDE DEF f, g
<1>11. Sum(g) + f[s] = Sum(f) + g[s]
  BY <1>4, <1>7, <1>8, Finite, SumChange
<1>12. Sum(f) \in Nat /\ Sum(g) \in Nat
  BY <1>4, <1>8, Finite, SumNat
<1>13. held'[p][i] + Sum(g) = held[p][i] + Sum(f)
  BY <1>0, <1>1, <1>5, <1>6, <1>10, <1>11, <1>12
<1> QED BY <1>9, <1>13 DEF f

\* The ledger pair of a row changes none of the totals.
LEMMA StampSums ==
  ASSUME Shape, NEW p \in Requests, NEW s \in Sources, Stamp(p, s),
         NEW q \in Requests, NEW i \in Invoices
  PROVE  OwnKept(q, i)' = OwnKept(q, i)
<1> DEFINE b == Own(p, Target(p), s)
<1>1. b \in RowIds /\ Becomes(b, alloc[b].amount, alloc[b].state, TRUE)
  BY StampEffect
<1> HIDE DEF b
<1>2. \A a \in RowIds : alloc'[a].amount = alloc[a].amount /\ alloc'[a].state = alloc[a].state
  BY <1>1 DEF Becomes
<1>3. \A t \in Sources :
        (IF alloc'[Own(q, i, t)].state # "absent" THEN alloc'[Own(q, i, t)].amount ELSE 0)
      = (IF alloc[Own(q, i, t)].state # "absent" THEN alloc[Own(q, i, t)].amount ELSE 0)
  BY <1>2, OwnRow
<1> QED BY <1>3, Zenon DEF OwnKept, Own

\* What an application reserved, planned and wrote adds up after each of its steps.
LEMMA OwnApplyHolds ==
  ASSUME Shape, Ownership, Fresh, Holds, NEW p \in Requests, Acts(p)
  PROVE  ApplyHolds(p)'
<1> SUFFICES ASSUME job'[p].kind = "apply" PROVE ApplyHolds(p)'
  BY DEF ApplyHolds
<1>0. /\ TypeOK /\ pc \in [Requests -> Labels] /\ claimed \in [Requests -> SUBSET Invoices]
      /\ drawn \in [Requests -> SUBSET Sources] /\ share \in [Requests -> [Invoices -> Nat]]
      /\ plan \in [Requests -> [Sources -> Nat]] /\ held \in [Requests -> [Invoices -> Int]]
      /\ KindOf(p) /\ Reserves(p) /\ ApplyHolds(p)
  BY DEF Shape, TypeOK, Holds, HoldsOf
<1>1. CASE pc[p] = "idle"
  <2>1. Begin(p)
    BY <1>1 DEF Acts, Step, WriteFails, ReadBalance, Baseline, Raise, Claim, Allocate,
       Release, Receive, ReadForCredit, PlanCredit, EndApply, Stamp, UndoNothing, DrawCredit,
       CreditRow, Undo, GiveBackDrawn, Mark, GiveSource, GiveRoom, Close, Recheck,
       Reopen, ListRows, ListCross, Sweep, MarkCross, CrossRoom, RefundCross, Restore,
       EndPass, ReadPool, TakePool, MarkPending, ClaimRoom, Issue, ReleaseRoom,
       CloseNote, Stranded
  <2>2. UNCHANGED <<claimed, drawn, share>>
    BY <2>1 DEF Begin, StartReceipt, StartApply, StartReverse, StartCancel, StartNote,
       StartCancelNote
  <2>3. pc'[p] = "readBalance"
    BY <1>0, <2>1 DEF Begin, StartReceipt, StartApply, StartReverse, StartCancel, StartNote,
       StartCancelNote, Start, Goto, TypeOK
  <2> QED BY <1>0, <1>1, <2>2, <2>3 DEF ApplyHolds, Reserves, Claiming, Applying
<1>2. CASE pc[p] # "idle"
  <2>0. job'[p] = job[p] /\ job[p].kind = "apply"
    BY <1>2, LabelMoves
  <2> SUFFICES ASSUME NEW i \in Invoices, i = Target(p) PROVE ApplyHolds(p)'
    BY <1>2, TargetType
  <2>1. i = Target(p)'
    BY <2>0 DEF Target
  <2>2. (Open(i)' => Open(i)) /\ (i \in Spoiled => i \in Spoiled')
    BY OpenMoves, SpoiledStays
  <2>3. /\ claimed[p] \subseteq {i}
        /\ \A j \in Invoices : share[p][j] > 0 => j = i
        /\ pc[p] \in Claiming \cup {"planCredit"} => claimed[p] = {} /\ drawn[p] = {}
        /\ pc[p] \in {"planCredit", "baseline", "raise", "claim"} => share[p][i] = job[p].amount
        /\ pc[p] \in {"baseline", "raise", "claim"} => Sum(plan[p]) = job[p].amount
        /\ pc[p] \in {"draw", "credit"} =>
             held[p][i] = Sum(Pending(p, i)) /\ \A s \in drawn[p] : plan[p][s] > 0
        /\ pc[p] \in Applying /\ Open(i) /\ i \notin Spoiled =>
             held[p][i] + Sum(OwnKept(p, i)) = share[p][i]
        /\ pc[p] = "release" => \A s \in Sources : alloc[Own(p, i, s)].state = "absent"
    BY <1>0, <2>0 DEF ApplyHolds
  <2>4. SUFFICES
        /\ claimed'[p] \subseteq {i}
        /\ \A j \in Invoices : share'[p][j] > 0 => j = i
        /\ pc'[p] \in Claiming \cup {"planCredit"} => claimed'[p] = {} /\ drawn'[p] = {}
        /\ pc'[p] \in {"planCredit", "baseline", "raise", "claim"} => share'[p][i] = job[p].amount
        /\ pc'[p] \in {"baseline", "raise", "claim"} => Sum(plan'[p]) = job[p].amount
        /\ pc'[p] \in {"draw", "credit"} =>
             held'[p][i] = Sum(Pending(p, i))' /\ \A s \in drawn'[p] : plan'[p][s] > 0
        /\ pc'[p] \in Applying /\ Open(i)' /\ i \notin Spoiled' =>
             held'[p][i] + Sum(OwnKept(p, i))' = share'[p][i]
        /\ pc'[p] = "release" => \A s \in Sources : alloc'[Own(p, i, s)].state = "absent"
    BY <2>0, <2>1 DEF ApplyHolds, Own
  <2> DEFINE G ==
        /\ claimed'[p] \subseteq {i}
        /\ \A j \in Invoices : share'[p][j] > 0 => j = i
        /\ pc'[p] \in Claiming \cup {"planCredit"} => claimed'[p] = {} /\ drawn'[p] = {}
        /\ pc'[p] \in {"planCredit", "baseline", "raise", "claim"} => share'[p][i] = job[p].amount
        /\ pc'[p] \in {"baseline", "raise", "claim"} => Sum(plan'[p]) = job[p].amount
        /\ pc'[p] \in {"draw", "credit"} =>
             held'[p][i] = Sum(Pending(p, i))' /\ \A s \in drawn'[p] : plan'[p][s] > 0
        /\ pc'[p] \in Applying /\ Open(i)' /\ i \notin Spoiled' =>
             held'[p][i] + Sum(OwnKept(p, i))' = share'[p][i]
        /\ pc'[p] = "release" => \A s \in Sources : alloc'[Own(p, i, s)].state = "absent"
  <2>5. ASSUME UNCHANGED <<alloc, plan>>
        PROVE  Sum(Pending(p, i))' = Sum(Pending(p, i)) /\ Sum(OwnKept(p, i))' = Sum(OwnKept(p, i))
    BY <2>5, SameSums
  <2>6. ASSUME UNCHANGED <<alloc, held, plan, share, claimed, drawn>>,
               \/ pc'[p] \in {"baseline", "raise", "claim"} /\ pc[p] \in {"baseline", "raise"}
               \/ pc'[p] = "undo" /\ pc[p] \in Applying
               \/ /\ pc'[p] = "release" /\ pc[p] \in Applying
                  /\ \A s \in Sources : alloc[Own(p, i, s)].state = "absent"
               \/ pc'[p] \in {"done", "failed", "issue", "releaseRoom", "stranded"}
        PROVE  G
    BY <2>2, <2>3, <2>5, <2>6 DEF Claiming, Applying
  <2>7. ASSUME ReadForCredit(p) PROVE G
    <3>1. pc[p] = "readBalance" /\ UNCHANGED <<alloc, held, plan, claimed, drawn>>
      BY <2>7 DEF ReadForCredit, book, history
    <3>2. claimed[p] = {} /\ drawn[p] = {} /\ \A j \in Invoices : share[p][j] = 0
      BY <1>0, <3>1 DEF Reserves
    <3>3. \/ pc'[p] = "failed" /\ UNCHANGED share
          \/ pc'[p] = "planCredit" /\ share' = [share EXCEPT ![p][i] = job[p].amount]
      BY <1>0, <2>7 DEF ReadForCredit, Goto
    <3>4. CASE pc'[p] = "failed" /\ UNCHANGED share
      BY <2>6, <3>1, <3>4
    <3>5. CASE pc'[p] = "planCredit" /\ share' = [share EXCEPT ![p][i] = job[p].amount]
      <4>1. share'[p][i] = job[p].amount /\ \A j \in Invoices : j # i => share'[p][j] = 0
        BY <1>0, <3>2, <3>5
      <4>2. claimed'[p] = {} /\ drawn'[p] = {}
        BY <3>1, <3>2
      <4> QED BY <3>5, <4>1, <4>2 DEF Applying
    <3> QED BY <3>3, <3>4, <3>5
  <2>8. ASSUME PlanCredit(p) PROVE G
    <3>1. pc[p] = "planCredit" /\ UNCHANGED <<alloc, held, share, claimed, drawn>>
      BY <2>8 DEF PlanCredit, book, history
    <3>2. \/ pc'[p] = "failed" /\ UNCHANGED plan
          \/ pc'[p] = "baseline" /\ Sum(plan'[p]) = job[p].amount
      BY <1>0, <2>8 DEF PlanCredit, Goto, IsGreedyPlan
    <3>3. CASE pc'[p] = "failed" /\ UNCHANGED plan
      BY <2>6, <3>1, <3>3
    <3>4. CASE pc'[p] = "baseline" /\ Sum(plan'[p]) = job[p].amount
      BY <2>3, <3>1, <3>4 DEF Applying
    <3> QED BY <3>2, <3>3, <3>4
  <2>9. ASSUME NEW j \in Invoices, Baseline(p, j) \/ Raise(p, j) PROVE G
    <3>1. /\ UNCHANGED <<alloc, held, plan, share, claimed, drawn>>
          /\ pc[p] \in {"baseline", "raise"} /\ pc'[p] \in {"baseline", "raise", "claim"}
      BY <1>0, <2>9 DEF Baseline, Raise, Goto, book, history
    <3> QED BY <2>6, <3>1
  <2>10. ASSUME NEW j \in Invoices, Claim(p, j) PROVE G
    <3>1. /\ pc[p] = "claim" /\ j \in ToClaim(p)
          /\ UNCHANGED <<alloc, plan, share, drawn>>
      BY <2>10 DEF Claim, IsNext
    <3>2. j = i /\ share[p][i] = job[p].amount /\ claimed[p] = {} /\ drawn[p] = {}
          /\ Sum(plan[p]) = job[p].amount
      BY <2>3, <3>1 DEF ToClaim, Claiming
    <3>3. ToClaim(p) = {i}
      BY <2>3, <3>1, <3>2 DEF ToClaim
    <3>4. \/ pc'[p] = "failed" /\ UNCHANGED <<claimed, held>>
          \/ /\ pc'[p] = "draw" /\ claimed' = [claimed EXCEPT ![p] = @ \cup {i}]
             /\ Hold(p, i, share[p][i])
      BY <1>0, <2>0, <2>10, <3>2, <3>3 DEF Claim, Goto, history
    <3>5. CASE pc'[p] = "failed" /\ UNCHANGED <<claimed, held>>
      BY <2>6, <3>1, <3>5
    <3>6. CASE /\ pc'[p] = "draw" /\ claimed' = [claimed EXCEPT ![p] = @ \cup {i}]
               /\ Hold(p, i, share[p][i])
      <4>1. claimed'[p] = {i}
        BY <1>0, <3>2, <3>6
      <4>2. \A s \in Sources : alloc[Own(p, i, s)].amount = 0
        BY <3>1, OwnRow DEF Fresh, Unwritten, Claiming
      <4>3. Pending(p, i) = plan[p] /\ Sum(OwnKept(p, i)) = 0
        BY <1>0, <4>2, UnwrittenSums
      <4>4. held'[p][i] = share[p][i] /\ share[p][i] \in Nat
        BY <1>0, <3>6, HoldEffect
      <4> QED BY <2>3, <2>5, <3>1, <3>2, <3>6, <4>1, <4>3, <4>4 DEF Claiming
    <3> QED BY <3>4, <3>5, <3>6
  <2>11. ASSUME NEW j \in Invoices, Release(p, j) PROVE G
    <3>1. j \in claimed[p] /\ claimed[p] = {j} /\ UNCHANGED <<share, drawn>>
      BY <2>3, <2>11 DEF Release
    <3>2. pc'[p] = "failed" /\ claimed'[p] = {}
      BY <1>0, <2>11, <3>1 DEF Release, Goto
    <3> QED BY <2>3, <3>1, <3>2 DEF Claiming, Applying
  <2>12. ASSUME NEW s \in Sources, DrawCredit(p, s) PROVE G
    <3>1. /\ pc[p] = "draw" /\ s \in ToCredit(p) /\ UNCHANGED <<alloc, held, plan, share, claimed>>
      BY <2>12 DEF DrawCredit, history
    <3>2. \/ pc'[p] = "credit" /\ drawn' = [drawn EXCEPT ![p] = @ \cup {s}]
          \/ pc'[p] = "undo" /\ UNCHANGED drawn
      BY <1>0, <2>12 DEF DrawCredit, Goto
    <3>3. CASE pc'[p] = "undo" /\ UNCHANGED drawn
      BY <2>6, <3>1, <3>3 DEF Applying
    <3>4. CASE pc'[p] = "credit" /\ drawn' = [drawn EXCEPT ![p] = @ \cup {s}]
      <4>1. \A t \in drawn'[p] : plan[p][t] > 0
        BY <1>0, <2>3, <3>1, <3>4 DEF ToCredit
      <4> QED BY <2>2, <2>3, <2>5, <3>1, <3>4, <4>1 DEF Claiming, Applying
    <3> QED BY <3>2, <3>3, <3>4
  <2>13. ASSUME NEW s \in Sources, CreditRow(p, s) PROVE G
    <3>1. /\ pc[p] = "credit" /\ UNCHANGED <<plan, share, claimed, drawn>>
          /\ Hold(p, i, held[p][i] - plan[p][s])
      BY <2>13 DEF CreditRow, local, history
    <3>2. pc'[p] \in {"stamp", "draw"}
      BY <1>0, <2>13 DEF CreditRow, Goto
    <3>3. held'[p][i] = held[p][i] - plan[p][s]
      BY <1>0, <3>1, HoldEffect
    <3>4. /\ Sum(Pending(p, i))' + plan[p][s] = Sum(Pending(p, i))
          /\ Sum(OwnKept(p, i))' = Sum(OwnKept(p, i)) + plan[p][s]
      BY <2>13, CreditRowSums
    <3>5. /\ plan[p][s] \in Nat /\ held[p][i] \in Int /\ Sum(Pending(p, i)) \in Nat
          /\ Sum(OwnKept(p, i)) \in Nat /\ share[p][i] \in Nat
      BY <1>0, PendingTerm, OwnKeptType DEF TypeOK, BookTypeOK
    <3>6. Sum(Pending(p, i))' \in Nat
      BY <2>13, CreditRowSums
    <3>7. held'[p][i] = Sum(Pending(p, i))'
      BY <2>3, <3>1, <3>3, <3>4, <3>5, <3>6
    <3>8. Open(i) /\ i \notin Spoiled => held'[p][i] + Sum(OwnKept(p, i))' = share[p][i]
      BY <2>3, <3>1, <3>3, <3>4, <3>5 DEF Applying
    <3> QED BY <2>2, <2>3, <3>1, <3>2, <3>7, <3>8 DEF Claiming, Applying
  <2>14. ASSUME EndApply(p) PROVE G
    <3>1. pc'[p] = "done" /\ UNCHANGED <<share, claimed>>
      BY <1>0, <2>14 DEF EndApply, Goto, local, history
    <3> QED BY <2>3, <3>1 DEF Claiming, Applying
  <2>21. ASSUME NEW s \in Sources, Stamp(p, s) PROVE G
    <3>1. /\ pc[p] = "stamp" /\ pc'[p] = "stamp"
          /\ UNCHANGED <<plan, share, claimed, drawn, held>>
      BY <2>21 DEF Stamp, local, history
    <3>2. OwnKept(p, i)' = OwnKept(p, i)
      BY <2>21, StampSums
    <3> QED BY <2>2, <2>3, <3>1, <3>2 DEF Claiming, Applying
  <2>15. ASSUME NEW s \in Sources, Undo(p, s) PROVE G
    <3>1. pc[p] = "undo" /\ pc'[p] = "undo" /\ UNCHANGED <<share, claimed, drawn>>
      BY <2>15 DEF Undo, local, history
    <3>2. Open(i) /\ i \notin Spoiled' =>
            held'[p][i] + Sum(OwnKept(p, i))' = held[p][i] + Sum(OwnKept(p, i))
      BY <2>15, UndoSums
    <3> QED BY <2>2, <2>3, <3>1, <3>2 DEF Claiming, Applying
  <2>16. ASSUME NEW s \in Sources, GiveBackDrawn(p, s) PROVE G
    <3>1. /\ pc[p] = "undo" /\ UNCHANGED <<alloc, held, plan, share, claimed>>
          /\ \A t \in Sources : alloc[Own(p, i, t)].state = "absent"
      BY <2>16 DEF GiveBackDrawn, history
    <3>2. pc'[p] \in {"release", "undo"}
      BY <1>0, <2>16 DEF GiveBackDrawn, Goto
    <3> QED BY <2>2, <2>3, <2>5, <3>1, <3>2 DEF Claiming, Applying
  <2>17. ASSUME UndoNothing(p) PROVE G
    <3>1. /\ pc[p] = "undo" /\ pc'[p] = "release"
          /\ UNCHANGED <<alloc, held, plan, share, claimed, drawn>>
          /\ \A t \in Sources : alloc[Own(p, i, t)].state = "absent"
      BY <1>0, <2>17 DEF UndoNothing, Goto, book, local, history
    <3> QED BY <2>6, <3>1 DEF Applying
  <2>18. ASSUME WriteFails(p) PROVE G
    <3>1. UNCHANGED <<alloc, held, plan, share, claimed, drawn>>
      BY <2>18 DEF WriteFails, book, local, history
    <3>2. \/ pc[p] \in {"draw", "credit", "stamp"} /\ pc'[p] = "undo"
          \/ pc'[p] = "releaseRoom"
      BY <1>0, <2>0, <2>18 DEF WriteFails, OnError, Goto, KindOf, ReceiptOnly
    <3> QED BY <2>6, <3>1, <3>2 DEF Applying
  <2>19. ASSUME NoteStep(p) PROVE G
    <3>1. UNCHANGED <<alloc, held, plan, share, claimed, drawn>>
      BY <2>19 DEF NoteStep, ClaimRoom, Issue, ReleaseRoom, CloseNote, Stranded, book, local, history
    <3>2. pc'[p] \in {"done", "failed", "issue", "releaseRoom", "stranded"}
      BY <1>0, <2>19 DEF NoteStep, ClaimRoom, Issue, ReleaseRoom, CloseNote, Stranded, Goto
    <3> QED BY <2>6, <3>1, <3>2
  <2> HIDE DEF G
  <2>20. G
    BY <1>2, <2>0, <2>7, <2>8, <2>9, <2>10, <2>11, <2>12, <2>13, <2>14, <2>15, <2>16,
       <2>17, <2>18, <2>19, <2>21, ApplySteps DEF ApplyStep
  <2> QED BY <2>20 DEF G
<1> QED BY <1>1, <1>2

\* Every step keeps what the requests account for.
LEMMA HoldsStep ==
  ASSUME Shape, Ownership, Fresh, Holds, NEW p \in Requests, Acts(p)
  PROVE  Holds'
<1>1. HoldsOf(p)'
  BY OwnReserves, OwnReceiptHolds, OwnApplyHolds, OwnReverseHolds DEF HoldsOf
<1>2. \A q \in Requests : HoldsOf(q)'
  BY <1>1, OthersHold
<1> QED BY <1>2 DEF Holds

-----------------------------------------------------------------------------
(***************************************************************************)
(* Capacity.                                                               *)
(***************************************************************************)
\* A change of one row changes the live total of its invoice by as much.
LEMMA LiveChange ==
  ASSUME alloc \in [RowIds -> Row], alloc' \in [RowIds -> Row], NEW a \in RowIds,
         \A b \in RowIds : b # a => alloc'[b] = alloc[b], NEW i \in Invoices
  PROVE  /\ Live(i) \in Nat /\ Live(i)' \in Nat
         /\ InvoiceOf(a) # i => Live(i)' = Live(i)
         /\ InvoiceOf(a) = i => Live(i)' + Weight(alloc[a]) = Live(i) + Weight(alloc'[a])
<1> DEFINE f == LiveRows(i)
           g == [b \in RowIds |-> IF alloc'[b].state = "live" /\ InvoiceOf(b) = i
                                  THEN alloc'[b].amount ELSE 0]
<1>1. \A b \in RowIds : alloc[b].amount \in Nat /\ alloc'[b].amount \in Nat
  BY DEF Row
<1>2. f \in [RowIds -> Nat] /\ g \in [RowIds -> Nat]
  BY <1>1 DEF LiveRows
<1>3. \A b \in RowIds : b # a => g[b] = f[b]
  BY DEF LiveRows
<1>4. f[a] = IF InvoiceOf(a) = i THEN Weight(alloc[a]) ELSE 0
  BY DEF LiveRows, Weight
<1>5. g[a] = IF InvoiceOf(a) = i THEN Weight(alloc'[a]) ELSE 0
  BY DEF Weight
<1>6. LiveRows(i)' = g
  BY Zenon DEF LiveRows, InvoiceOf
<1> HIDE DEF f, g
<1>7. Sum(g) + f[a] = Sum(f) + g[a]
  BY <1>2, <1>3, Finite, SumChange
<1>8. Sum(f) \in Nat /\ Sum(g) \in Nat
  BY <1>2, Finite, SumNat
<1>9. Live(i) = Sum(f) /\ Live(i)' = Sum(g)
  BY <1>6 DEF Live, f
<1>10. Weight(alloc[a]) \in Nat /\ Weight(alloc'[a]) \in Nat
  BY <1>1 DEF Weight
<1>11. CASE InvoiceOf(a) = i
  <2>1. f[a] = Weight(alloc[a]) /\ g[a] = Weight(alloc'[a])
    BY <1>4, <1>5, <1>11
  <2> QED BY <1>7, <1>8, <1>9, <1>11, <2>1
<1>12. CASE InvoiceOf(a) # i
  <2>1. f[a] = 0 /\ g[a] = 0
    BY <1>4, <1>5, <1>12
  <2> QED BY <1>7, <1>8, <1>9, <1>12, <2>1
<1> QED BY <1>11, <1>12

\* What the requests hold of an invoice is a natural number.
LEMMA HeldType ==
  ASSUME held \in [Requests -> [Invoices -> Int]], \A q \in Requests : Reserves(q),
         NEW i \in Invoices
  PROVE  [q \in Requests |-> held[q][i]] \in [Requests -> Nat] /\ Held(i) \in Nat
<1>1. [q \in Requests |-> held[q][i]] \in [Requests -> Nat]
  BY DEF Reserves
<1> QED BY <1>1, BookShape, SumNat DEF Held

\* A change of what p holds of i changes what is held of i by as much.
LEMMA HeldChange ==
  ASSUME held \in [Requests -> [Invoices -> Int]], \A q \in Requests : Reserves(q),
         NEW p \in Requests, NEW i \in Invoices, NEW x \in Nat, Hold(p, i, x),
         NEW j \in Invoices
  PROVE  /\ Held(j) \in Nat /\ Held(j)' \in Nat
         /\ j # i => Held(j)' = Held(j)
         /\ j = i => Held(j)' + held[p][j] = Held(j) + x
<1> DEFINE f == [q \in Requests |-> held[q][j]]
           g == [q \in Requests |-> held'[q][j]]
<1>1. f \in [Requests -> Nat] /\ Held(j) = Sum(f) /\ Held(j) \in Nat
  BY HeldType DEF Held
<1>2. \A q \in Requests : q # p => g[q] = f[q]
  BY HoldEffect
<1>3. g[p] = IF j = i THEN x ELSE f[p]
  BY HoldEffect
<1>4. g \in [Requests -> Nat]
  <2>1. \A q \in Requests : g[q] \in Nat
    BY <1>1, <1>2, <1>3
  <2> QED BY <2>1
<1>5. Held(j)' = Sum(g)
  BY DEF Held
<1>6. f[p] = held[p][j]
  OBVIOUS
<1> HIDE DEF f, g
<1>7. IsFiniteSet(Requests) /\ f \in [Requests -> Nat]
  BY <1>1, BookShape
<1>8. Sum(g) \in Nat
  BY <1>4, <1>7, SumNat
<1>9. Sum(g) + f[p] = Sum(f) + g[p]
  BY <1>2, <1>4, <1>7, SumChange
<1> QED BY <1>1, <1>3, <1>5, <1>6, <1>8, <1>9

\* Giving a reservation back, when the counter covers it.
LEMMA ReleaseEffect ==
  ASSUME settled \in [Invoices -> Nat \cup {Missing}], NEW i \in Invoices, NEW x \in Nat,
         ReleaseSettlement(i, x), \A j \in Invoices : settled[j] # Missing
  PROVE  /\ settled'[i] = IF settled[i] >= x THEN settled[i] - x ELSE settled[i]
         /\ \A j \in Invoices : j # i => settled'[j] = settled[j]
BY DEF ReleaseSettlement

\* What is taken of an invoice: settled by rows or held.
Taken(i) == Live(i) + Held(i)
\* The counter covers what is taken after the step, and no more is taken than before
\* unless the invoice is issued.
Covered(i) ==
  /\ settled'[i] # Missing
  /\ Taken(i)' <= Total[i]
  /\ Open(i) => Taken(i)' <= settled'[i] /\ settled'[i] <= Total[i]
  /\ Taken(i)' <= Taken(i) \/ (status[i] = "issued" /\ status'[i] = "issued")

\* Enough for an invoice to stay covered: nothing taken of it, nothing given back.
LEMMA StillCovered ==
  ASSUME Shape, Capacity, Holds, NEW i \in Invoices, i \notin Spoiled,
         settled'[i] = settled[i], Taken(i)' \in Nat, Taken(i)' <= Taken(i)
  PROVE  Covered(i)
<1>1. Live(i) \in Nat /\ Held(i) \in Nat
  BY LiveType, HeldType DEF Shape, TypeOK, BookTypeOK, Holds, HoldsOf
<1>2. settled[i] \in Nat /\ Total[i] \in Nat
  BY BookShape DEF Shape, TypeOK, BookTypeOK, Capacity
<1> QED BY <1>1, <1>2 DEF Capacity, Covered, Taken

\* Totals of the rows and of what is held, when they are left alone.
LEMMA SameTotals ==
  ASSUME NEW i \in Invoices
  PROVE  /\ UNCHANGED alloc => Live(i)' = Live(i)
         /\ UNCHANGED held => Held(i)' = Held(i)
<1>1. ASSUME UNCHANGED alloc PROVE Live(i)' = Live(i)
  BY <1>1, Zenon DEF Live, LiveRows
<1>2. ASSUME UNCHANGED held PROVE Held(i)' = Held(i)
  BY <1>2, Zenon DEF Held
<1> QED BY <1>1, <1>2

\* A row changes against what its request holds, and no more is taken than before.
LEMMA Exchange ==
  ASSUME Shape, Holds, Capacity, alloc' \in [RowIds -> Row], UNCHANGED settled,
         NEW p \in Requests, NEW a \in RowIds, \A b \in RowIds : b # a => alloc'[b] = alloc[b],
         NEW x \in Nat, Hold(p, InvoiceOf(a), x),
         Weight(alloc'[a]) + x <= Weight(alloc[a]) + held[p][InvoiceOf(a)],
         NEW i \in Invoices, i \notin Spoiled
  PROVE  Covered(i)
<1> DEFINE k == InvoiceOf(a)
<1>0. /\ alloc \in [RowIds -> Row] /\ held \in [Requests -> [Invoices -> Int]]
      /\ \A q \in Requests : Reserves(q)
  BY DEF Shape, TypeOK, BookTypeOK, Holds, HoldsOf
<1>1. k \in Invoices
  BY RowIdParts
<1>2. /\ Live(i) \in Nat /\ Live(i)' \in Nat
      /\ k # i => Live(i)' = Live(i)
      /\ k = i => Live(i)' + Weight(alloc[a]) = Live(i) + Weight(alloc'[a])
  BY <1>0, LiveChange
<1>3. Weight(alloc[a]) \in Nat /\ Weight(alloc'[a]) \in Nat /\ held[p][k] \in Int
  BY <1>0, <1>1 DEF Weight, Row
<1>4. Weight(alloc'[a]) + x <= Weight(alloc[a]) + held[p][k]
  OBVIOUS
<1> HIDE DEF k
<1>5. /\ Held(i) \in Nat /\ Held(i)' \in Nat
      /\ i # k => Held(i)' = Held(i)
      /\ i = k => Held(i)' + held[p][i] = Held(i) + x
  BY <1>0, <1>1, HeldChange DEF k
<1>6. Live(i)' + Held(i)' <= Live(i) + Held(i)
  BY <1>1, <1>2, <1>3, <1>4, <1>5
<1>7. Taken(i)' \in Nat /\ Taken(i)' <= Taken(i)
  BY <1>2, <1>5, <1>6 DEF Taken
<1> QED BY <1>7, StillCovered

\* A reservation goes back to the counter, and is no longer held.
LEMMA Returns ==
  ASSUME Shape, Holds, Capacity, UNCHANGED alloc,
         NEW p \in Requests, NEW k \in Invoices, NEW x \in Nat,
         Hold(p, k, 0), ReleaseSettlement(k, x), k \notin Spoiled /\ Open(k) => held[p][k] = x,
         NEW i \in Invoices, i \notin Spoiled
  PROVE  Covered(i)
<1>0. /\ held \in [Requests -> [Invoices -> Int]] /\ \A q \in Requests : Reserves(q)
      /\ alloc \in [RowIds -> Row] /\ settled \in [Invoices -> Nat \cup {Missing}]
      /\ \A j \in Invoices : settled[j] # Missing
  BY DEF Shape, TypeOK, BookTypeOK, Holds, HoldsOf, Capacity
<1>1. Live(i)' = Live(i) /\ Live(i) \in Nat
  BY <1>0, SameTotals, LiveType
<1>2. /\ Held(i) \in Nat /\ Held(i)' \in Nat
      /\ i # k => Held(i)' = Held(i)
      /\ i = k => Held(i)' + held[p][i] = Held(i) + 0
  BY <1>0, HeldChange
<1>3. /\ settled'[k] = IF settled[k] >= x THEN settled[k] - x ELSE settled[k]
      /\ \A j \in Invoices : j # k => settled'[j] = settled[j]
  BY <1>0, ReleaseEffect
<1>4. held[p][k] \in Int /\ held[p][k] >= 0
  BY <1>0 DEF Reserves
<1>5. settled[i] \in Nat /\ Total[i] \in Nat
  BY <1>0, BookShape
<1>6. /\ Live(i) + Held(i) <= Total[i]
      /\ Open(i) => Live(i) + Held(i) <= settled[i] /\ settled[i] <= Total[i]
  BY DEF Capacity
<1>7. Taken(i)' = Live(i) + Held(i)' /\ Taken(i)' \in Nat
  BY <1>1, <1>2 DEF Taken
<1>8. CASE i # k
  BY <1>1, <1>2, <1>3, <1>7, <1>8, StillCovered DEF Taken
<1>9. CASE i = k
  <2>1. Held(i)' + held[p][i] = Held(i)
    BY <1>2, <1>9
  <2>2. settled'[i] # Missing /\ settled'[i] <= settled[i] /\ settled'[i] \in Nat
    BY <1>3, <1>5, <1>9 DEF Missing
  <2>3. Taken(i)' <= Total[i]
    BY <1>1, <1>2, <1>4, <1>5, <1>6, <1>7, <1>9, <2>1
  <2>4. ASSUME Open(i) PROVE Taken(i)' <= settled'[i] /\ settled'[i] <= Total[i]
    BY <1>1, <1>2, <1>3, <1>4, <1>5, <1>6, <1>7, <1>9, <2>1, <2>2, <2>4
  <2>5. Taken(i)' <= Taken(i)
    BY <1>1, <1>2, <1>4, <1>7, <1>9, <2>1 DEF Taken
  <2> QED BY <2>2, <2>3, <2>4, <2>5 DEF Covered
<1> QED BY <1>8, <1>9

\* The rows stay; p holds nothing more, and the counters stay too.
LEMMA LetsGo ==
  ASSUME Shape, Holds, Capacity, UNCHANGED <<alloc, settled>>,
         NEW p \in Requests, NEW k \in Invoices, UNCHANGED held \/ Hold(p, k, 0),
         NEW i \in Invoices, i \notin Spoiled
  PROVE  Covered(i)
<1>0. /\ held \in [Requests -> [Invoices -> Int]] /\ \A q \in Requests : Reserves(q)
      /\ alloc \in [RowIds -> Row]
  BY DEF Shape, TypeOK, BookTypeOK, Holds, HoldsOf
<1>1. Live(i)' = Live(i) /\ Live(i) \in Nat /\ Held(i) \in Nat
  BY <1>0, SameTotals, LiveType, HeldType
<1>2. Held(i)' \in Nat /\ Held(i)' <= Held(i)
  <2>1. CASE UNCHANGED held
    BY <1>1, <2>1, SameTotals
  <2>2. CASE Hold(p, k, 0)
    <3>1. /\ Held(i) \in Nat /\ Held(i)' \in Nat
          /\ i # k => Held(i)' = Held(i)
          /\ i = k => Held(i)' + held[p][i] = Held(i) + 0
      BY <1>0, <2>2, HeldChange
    <3>2. held[p][i] \in Int /\ held[p][i] >= 0
      BY <1>0 DEF Reserves
    <3> QED BY <3>1, <3>2
  <2> QED BY <2>1, <2>2
<1> QED BY <1>1, <1>2, StillCovered DEF Taken

\* A claim is measured against everything taken of the invoice.
LEMMA ClaimCovers ==
  ASSUME Shape, Holds, Capacity, NEW p \in Requests, NEW j \in Invoices, Claim(p, j),
         NEW i \in Invoices, i \notin Spoiled
  PROVE  Covered(i)
<1>0. /\ held \in [Requests -> [Invoices -> Int]] /\ \A q \in Requests : Reserves(q)
      /\ alloc \in [RowIds -> Row] /\ settled \in [Invoices -> Nat \cup {Missing}]
      /\ share[p][j] \in Nat /\ Total[j] \in Nat /\ settled[j] \in Nat
      /\ status[i] \in {"issued", "cancelled"}
  BY BookShape DEF Shape, TypeOK, BookTypeOK, Holds, HoldsOf, Capacity
<1>1. UNCHANGED <<status, alloc>>
  BY DEF Claim
<1>2. CASE UNCHANGED <<settled, held>>
  BY <1>1, <1>2, LetsGo
<1>3. CASE CanClaimSettlement(j, share[p][j]) /\ ClaimSettlement(j, share[p][j])
           /\ Hold(p, j, share[p][j])
  <2>1. Live(i)' = Live(i) /\ Live(i) \in Nat
    BY <1>0, <1>1, SameTotals, LiveType
  <2>2. /\ Held(i) \in Nat /\ Held(i)' \in Nat
        /\ i # j => Held(i)' = Held(i)
        /\ i = j => Held(i)' + held[p][i] = Held(i) + share[p][j]
    BY <1>0, <1>3, HeldChange
  <2>3. /\ settled'[j] = settled[j] + share[p][j] /\ settled[j] <= Total[j] - share[p][j]
        /\ \A k \in Invoices : k # j => settled'[k] = settled[k]
        /\ Open(j)
    BY <1>0, <1>3 DEF CanClaimSettlement, ClaimSettlement, Open, Shape, TypeOK, BookTypeOK
  <2>4. CASE i # j
    BY <2>1, <2>2, <2>3, <2>4, StillCovered DEF Taken
  <2>5. CASE i = j
    <3>1. held[p][i] \in Int /\ held[p][i] >= 0
      BY <1>0 DEF Reserves
    <3>2. Live(i) + Held(i) <= settled[i]
      BY <2>3, <2>5 DEF Capacity
    <3>3. Taken(i)' = Live(i) + Held(i)'
      BY <2>1 DEF Taken
    <3>4. Taken(i)' <= settled'[i] /\ settled'[i] <= Total[i] /\ settled'[i] \in Nat
      BY <1>0, <2>1, <2>2, <2>3, <2>5, <3>1, <3>2, <3>3
    <3>5. Taken(i)' <= Total[i]
      BY <1>0, <2>1, <2>2, <2>5, <3>3, <3>4
    <3>6. status[i] = "issued" /\ status'[i] = "issued"
      BY <1>0, <1>1, <1>3, <2>5 DEF CanClaimSettlement
    <3> QED BY <3>4, <3>5, <3>6 DEF Covered, Missing
  <2> QED BY <2>4, <2>5
<1> QED BY <1>2, <1>3 DEF Claim, history

\* Raising the counter to a total that was read leaves it above all that is taken.
LEMMA RaiseCovers ==
  ASSUME Shape, Holds, Capacity, NEW p \in Requests, NEW j \in Invoices, Raise(p, j),
         NEW i \in Invoices, i \notin Spoiled
  PROVE  Covered(i)
<1>0. /\ settled \in [Invoices -> Nat \cup {Missing}] /\ alloc \in [RowIds -> Row]
      /\ seen[p][j] \in Nat \cup {Missing} /\ stored[p] \in Nat \cup {Missing}
      /\ settled[i] \in Nat /\ settled[j] \in Nat /\ Total[i] \in Nat
      /\ held \in [Requests -> [Invoices -> Int]] /\ \A q \in Requests : Reserves(q)
  BY BookShape DEF Shape, TypeOK, BookTypeOK, Capacity, Holds, HoldsOf
<1>1. UNCHANGED <<alloc, held>> /\ pc[p] = "raise" /\ IsNext(p, j, ToClaim(p))
  BY DEF Raise, history
<1>2. CASE UNCHANGED settled
  BY <1>1, <1>2, LetsGo
<1>3. CASE settled[j] = stored[p] /\ settled' = [settled EXCEPT ![j] = seen[p][j]]
  <2>1. /\ settled[j] < seen[p][j] /\ seen[p][j] \in Nat
        /\ j \notin Spoiled => seen[p][j] <= Total[j]
    BY <1>0, <1>1, <1>3 DEF Capacity, Missing
  <2>2. Live(i)' = Live(i) /\ Live(i) \in Nat /\ Held(i)' = Held(i) /\ Held(i) \in Nat
    BY <1>0, <1>1, SameTotals, LiveType, HeldType
  <2>3. CASE i # j
    BY <1>0, <1>3, <2>2, <2>3, StillCovered DEF Taken
  <2>4. CASE i = j
    <3>1. settled'[i] = seen[p][i]
      BY <1>0, <1>3, <2>4
    <3>2. /\ Live(i) + Held(i) <= Total[i]
          /\ Open(i) => Live(i) + Held(i) <= settled[i]
      BY DEF Capacity
    <3> QED BY <1>0, <2>1, <2>2, <2>4, <3>1, <3>2 DEF Covered, Taken, Missing
  <2> QED BY <2>3, <2>4
<1> QED BY <1>2, <1>3 DEF Raise

\* Every step leaves every invoice covered.
LEMMA CoveredStep ==
  ASSUME Shape, Ownership, Fresh, Holds, Capacity, NEW p \in Requests, Acts(p),
         NEW i \in Invoices, i \notin Spoiled
  PROVE  Covered(i)
<1> DEFINE T == Covered(i)
<1>0. /\ held \in [Requests -> [Invoices -> Int]] /\ \A q \in Requests : Reserves(q)
      /\ alloc \in [RowIds -> Row] /\ alloc' \in [RowIds -> Row] /\ HoldsOf(p) /\ KindOf(p)
      /\ settled \in [Invoices -> Nat \cup {Missing}]
      /\ share \in [Requests -> [Invoices -> Nat]] /\ plan \in [Requests -> [Sources -> Nat]]
  <2>1. Shape'
    BY ShapeStep DEF Next, Acts
  <2> QED BY <2>1 DEF Shape, TypeOK, BookTypeOK, Holds, HoldsOf
<1>1. ASSUME NEW j \in Invoices, Allocate(p, j) PROVE T
  <2> DEFINE a == Own(p, j, p)
  <2>1. pc[p] = "allocate" /\ j \in claimed[p] /\ UNCHANGED settled /\ Hold(p, j, 0)
        /\ job[p].kind = "receipt"
    BY <1>0, <1>1 DEF Allocate, IsNext, KindOf, ReceiptOnly, invoiceVars
  <2>2. held[p][j] = share[p][j] /\ share[p][j] \in Nat /\ alloc[a].amount = 0
    BY <1>0, <2>1 DEF HoldsOf, ReceiptHolds, Fresh
  <2>3. p \in Sources
    BY DEF Sources, Receipts
  <2>4. a \in RowIds /\ InvoiceOf(a) = j
    BY <2>3, OwnRow
  <2>5. Becomes(a, share[p][j], "live", FALSE)
    BY <1>1, AllocateEffect
  <2>6. alloc[a].state # "live"
    BY <2>2, <2>4 DEF Fresh
  <2> HIDE DEF a
  <2>7. /\ Weight(alloc'[a]) + 0 <= Weight(alloc[a]) + held[p][InvoiceOf(a)]
        /\ \A b \in RowIds : b # a => alloc'[b] = alloc[b]
    BY <2>2, <2>4, <2>5, <2>6 DEF Becomes, Weight
  <2> QED BY <1>0, <2>1, <2>4, <2>7, Exchange
<1>2. ASSUME NEW s \in Sources, CreditRow(p, s) PROVE T
  <2> DEFINE k == Target(p)
             a == Own(p, k, s)
  <2>1. /\ pc[p] = "credit" /\ UNCHANGED settled /\ alloc[a].amount = 0
        /\ Hold(p, k, held[p][k] - plan[p][s])
    BY <1>2 DEF CreditRow, invoiceVars
  <2>2. k \in Invoices /\ a \in RowIds /\ Becomes(a, plan[p][s], "live", FALSE)
    BY <1>2, CreditRowEffect
  <2>3. InvoiceOf(a) = k
    BY <2>2, OwnRow
  <2>4. alloc[a].state # "live"
    BY <2>1, <2>2 DEF Fresh
  <2>5. Reserves(p)'
    BY OwnReserves
  <2> HIDE DEF k, a
  <2>6. plan[p][s] \in Nat /\ held[p][k] \in Int
    BY <1>0, <2>2
  <2>7. held'[p][k] = held[p][k] - plan[p][s]
    BY <1>0, <2>1, <2>2, HoldEffect
  <2>8. held[p][k] - plan[p][s] \in Nat
    BY <2>2, <2>5, <2>6, <2>7 DEF Reserves
  <2>9. Weight(alloc'[a]) = plan[p][s] /\ Weight(alloc[a]) = 0
    BY <2>2, <2>4 DEF Becomes, Weight
  <2>10. /\ Weight(alloc'[a]) + (held[p][k] - plan[p][s]) <= Weight(alloc[a]) + held[p][InvoiceOf(a)]
         /\ \A b \in RowIds : b # a => alloc'[b] = alloc[b]
    BY <2>2, <2>3, <2>6, <2>9 DEF Becomes
  <2> QED BY <1>0, <2>1, <2>2, <2>3, <2>8, <2>10, Exchange
<1>3. ASSUME NEW s \in Sources, Undo(p, s) PROVE T
  <2> DEFINE k == Target(p)
             a == Own(p, k, s)
  <2>1. k \in Invoices /\ a \in RowIds /\ Becomes(a, alloc[a].amount, "absent", alloc[a].stamped)
    BY <1>3, UndoEffect
  <2>2. InvoiceOf(a) = k
    BY <2>1, OwnRow
  <2>3. UNCHANGED settled
    BY <1>3 DEF Undo, invoiceVars
  <2>4. IF alloc[a].state = "live" THEN Hold(p, k, held[p][k] + alloc[a].amount)
                                   ELSE UNCHANGED held
    <3>1. held[p][k] \in Int
      BY <1>0, <2>1
    <3>2. held' = [held EXCEPT ![p][k] = @ + IF alloc[a].state = "live" THEN alloc[a].amount ELSE 0]
      BY <1>3 DEF Undo
    <3>3. alloc[a].state = "live" => UNCHANGED twice
      BY <1>3 DEF Undo
    <3> HIDE DEF k, a
    <3>4. alloc[a].state # "live" => UNCHANGED held
      BY <1>0, <2>1, <3>1, <3>2
    <3> QED BY <3>2, <3>3, <3>4 DEF Hold
  <2> HIDE DEF k, a
  <2>5. alloc[a].amount \in Nat /\ held[p][k] \in Int /\ held[p][k] >= 0
    BY <1>0, <2>1, RowFields DEF Reserves
  <2>6. CASE alloc[a].state = "live"
    <3>1. Weight(alloc'[a]) = 0 /\ Weight(alloc[a]) = alloc[a].amount
      BY <2>1, <2>6 DEF Becomes, Weight
    <3>2. /\ Weight(alloc'[a]) + (held[p][k] + alloc[a].amount)
               <= Weight(alloc[a]) + held[p][InvoiceOf(a)]
          /\ \A b \in RowIds : b # a => alloc'[b] = alloc[b]
      BY <2>1, <2>2, <2>5, <3>1 DEF Becomes
    <3>3. held[p][k] + alloc[a].amount \in Nat
      BY <2>5
    <3> QED BY <1>0, <2>1, <2>2, <2>3, <2>4, <2>6, <3>2, <3>3, Exchange
  <2>7. CASE alloc[a].state # "live"
    <3>1. Live(i)' = Live(i) /\ Live(i) \in Nat
      <4>1. /\ Live(i) \in Nat /\ Live(i)' \in Nat
            /\ InvoiceOf(a) # i => Live(i)' = Live(i)
            /\ InvoiceOf(a) = i => Live(i)' + Weight(alloc[a]) = Live(i) + Weight(alloc'[a])
        BY <1>0, <2>1, LiveChange DEF Becomes
      <4>2. Weight(alloc[a]) = 0 /\ Weight(alloc'[a]) = 0
        BY <2>1, <2>7 DEF Becomes, Weight
      <4> QED BY <4>1, <4>2
    <3>2. Held(i)' = Held(i) /\ Held(i) \in Nat
      BY <1>0, <2>4, <2>7, SameTotals, HeldType
    <3> QED BY <2>3, <3>1, <3>2, StillCovered DEF Taken
  <2> QED BY <2>6, <2>7
<1>4. ASSUME NEW a \in RowIds, UNCHANGED settled, alloc[a].state = "live",
             Becomes(a, alloc[a].amount, "reversed", alloc[a].stamped),
             Hold(p, InvoiceOf(a), alloc[a].amount)
      PROVE  T
  <2>1. InvoiceOf(a) \in Invoices
    BY RowIdParts
  <2>2. alloc[a].amount \in Nat /\ held[p][InvoiceOf(a)] \in Int /\ held[p][InvoiceOf(a)] >= 0
    BY <1>0, <2>1, RowFields DEF Reserves
  <2>3. Weight(alloc'[a]) = 0 /\ Weight(alloc[a]) = alloc[a].amount
    BY <1>4 DEF Becomes, Weight
  <2>4. /\ Weight(alloc'[a]) + alloc[a].amount <= Weight(alloc[a]) + held[p][InvoiceOf(a)]
        /\ \A b \in RowIds : b # a => alloc'[b] = alloc[b]
    BY <1>4, <2>2, <2>3 DEF Becomes
  <2> QED BY <1>0, <1>4, <2>2, <2>4, Exchange
<1>5. ASSUME Mark(p) PROVE T
  <2>1. row[p] \in RowIds /\ UNCHANGED settled
    BY <1>5 DEF Mark, Shape, Inputs, OnRow, invoiceVars
  <2>2. \/ UNCHANGED <<alloc, history>>
        \/ /\ alloc[row[p]].state = "live" /\ Hold(p, InvoiceOf(row[p]), alloc[row[p]].amount)
           /\ alloc' = [alloc EXCEPT ![row[p]].state = "reversed"]
    BY <1>5, Zenon DEF Mark
  <2>3. CASE UNCHANGED <<alloc, history>>
    BY <2>1, <2>3, LetsGo DEF history
  <2>4. CASE /\ alloc[row[p]].state = "live" /\ Hold(p, InvoiceOf(row[p]), alloc[row[p]].amount)
             /\ alloc' = [alloc EXCEPT ![row[p]].state = "reversed"]
    <3>1. Becomes(row[p], alloc[row[p]].amount, "reversed", alloc[row[p]].stamped)
      BY <1>0, <2>1, <2>4, StateEffect
    <3> QED BY <1>4, <2>1, <2>4, <3>1
  <2> QED BY <2>2, <2>3, <2>4
<1>6. ASSUME NEW a \in RowIds, Sweep(p, a) \/ MarkCross(p, a) PROVE T
  <2>1. UNCHANGED settled
    BY <1>6 DEF Sweep, MarkCross, invoiceVars
  <2>2. \/ UNCHANGED <<alloc, history>>
        \/ /\ alloc[a].state = "live" /\ Hold(p, InvoiceOf(a), alloc[a].amount)
           /\ alloc' = [alloc EXCEPT ![a].state = "reversed"]
    BY <1>6, Zenon DEF Sweep, MarkCross
  <2>3. CASE UNCHANGED <<alloc, history>>
    BY <2>1, <2>3, LetsGo DEF history
  <2>4. CASE /\ alloc[a].state = "live" /\ Hold(p, InvoiceOf(a), alloc[a].amount)
             /\ alloc' = [alloc EXCEPT ![a].state = "reversed"]
    <3>1. Becomes(a, alloc[a].amount, "reversed", alloc[a].stamped)
      BY <1>0, <2>4, StateEffect
    <3> QED BY <1>4, <2>1, <2>4, <3>1
  <2> QED BY <2>2, <2>3, <2>4
<1>7. ASSUME Restore(p) PROVE T
  <2>1. row[p] \in RowIds /\ UNCHANGED settled /\ pc[p] = "restore"
    BY <1>7 DEF Restore, Shape, Inputs, OnRow, invoiceVars
  <2>2. \/ UNCHANGED <<alloc, history>>
        \/ /\ alloc[row[p]].state = "reversed" /\ Hold(p, InvoiceOf(row[p]), 0)
           /\ alloc' = [alloc EXCEPT ![row[p]].state = "live"]
    BY <1>7, Zenon DEF Restore
  <2>3. CASE UNCHANGED <<alloc, history>>
    BY <2>1, <2>3, LetsGo DEF history
  <2>4. CASE /\ alloc[row[p]].state = "reversed" /\ Hold(p, InvoiceOf(row[p]), 0)
             /\ alloc' = [alloc EXCEPT ![row[p]].state = "live"]
    <3>1. Becomes(row[p], alloc[row[p]].amount, "live", alloc[row[p]].stamped)
      BY <1>0, <2>1, <2>4, StateEffect
    <3>2. held[p][InvoiceOf(row[p])] = alloc[row[p]].amount /\ alloc[row[p]].amount \in Nat
      BY <1>0, <2>1, RowFields DEF HoldsOf, ReverseHolds, Crossing
    <3>3. Weight(alloc'[row[p]]) = alloc[row[p]].amount /\ Weight(alloc[row[p]]) = 0
      BY <2>4, <3>1 DEF Becomes, Weight
    <3>4. /\ Weight(alloc'[row[p]]) + 0 <= Weight(alloc[row[p]]) + held[p][InvoiceOf(row[p])]
          /\ \A b \in RowIds : b # row[p] => alloc'[b] = alloc[b]
      BY <3>1, <3>2, <3>3 DEF Becomes
    <3> QED BY <1>0, <2>1, <2>4, <3>4, Exchange
  <2> QED BY <2>2, <2>3, <2>4
<1>8. ASSUME NEW s \in Sources, Stamp(p, s) PROVE T
  <2> DEFINE a == Own(p, Target(p), s)
  <2>1. a \in RowIds /\ Becomes(a, alloc[a].amount, alloc[a].state, TRUE)
    BY <1>8, StampEffect
  <2> HIDE DEF a
  <2>2. Weight(alloc'[a]) = Weight(alloc[a])
    BY <2>1 DEF Becomes, Weight
  <2>3. /\ Live(i) \in Nat /\ Live(i)' \in Nat
        /\ InvoiceOf(a) # i => Live(i)' = Live(i)
        /\ InvoiceOf(a) = i => Live(i)' + Weight(alloc[a]) = Live(i) + Weight(alloc'[a])
    BY <1>0, <2>1, LiveChange DEF Becomes
  <2>4. Weight(alloc[a]) \in Nat
    BY <1>0, <2>1 DEF Weight, Row
  <2>5. Live(i)' = Live(i)
    BY <2>2, <2>3, <2>4
  <2>6. UNCHANGED settled /\ Held(i)' = Held(i)
    BY <1>8, SameTotals DEF Stamp, invoiceVars, history
  <2>7. Live(i) \in Nat /\ Held(i) \in Nat
    BY <1>0, LiveType, HeldType
  <2> QED BY <2>5, <2>6, <2>7, StillCovered DEF Taken
<1>9. ASSUME NEW j \in Invoices, Release(p, j) PROVE T
  <2>1. /\ pc[p] = "release" /\ j \in claimed[p] /\ UNCHANGED alloc
        /\ ReleaseSettlement(j, share[p][j]) /\ Hold(p, j, 0)
    BY <1>9 DEF Release
  <2>2. share[p][j] \in Nat /\ job[p].kind \in {"receipt", "apply"}
    BY <1>0, <2>1 DEF KindOf
  <2>3. CASE job[p].kind = "receipt"
    BY <1>0, <2>1, <2>2, <2>3, Returns DEF HoldsOf, ReceiptHolds
  <2>4. CASE job[p].kind = "apply"
    <3>1. /\ Target(p) = j /\ \A s \in Sources : alloc[Own(p, j, s)].state = "absent"
          /\ j \notin Spoiled /\ Open(j) => held[p][j] + Sum(OwnKept(p, j)) = share[p][j]
      BY <1>0, <2>1, <2>4 DEF HoldsOf, ApplyHolds, Applying
    <3>2. \A s \in Sources : OwnKept(p, j)[s] = 0
      BY <3>1 DEF OwnKept
    <3>3. Sum(OwnKept(p, j)) = 0
      BY <1>0, <3>2, OwnKeptType, SumZero
    <3>4. j \notin Spoiled /\ Open(j) => held[p][j] = share[p][j]
      BY <1>0, <3>1, <3>3
    <3> QED BY <2>1, <2>2, <3>4, Returns
  <2> QED BY <2>2, <2>3, <2>4
<1>10. ASSUME GiveRoom(p) PROVE T
  <2>1. row[p] \in RowIds /\ pc[p] = "giveRoom" /\ UNCHANGED alloc
        /\ ReleaseSettlement(InvoiceOf(row[p]), alloc[row[p]].amount)
        /\ Hold(p, InvoiceOf(row[p]), 0)
    BY <1>10 DEF GiveRoom, Shape, Inputs, OnRow
  <2>2. held[p][InvoiceOf(row[p])] = alloc[row[p]].amount
    BY <1>0, <2>1 DEF HoldsOf, ReverseHolds, Reversing
  <2>3. InvoiceOf(row[p]) \in Invoices /\ alloc[row[p]].amount \in Nat
    BY <1>0, <2>1, RowIdParts, RowFields
  <2> QED BY <2>1, <2>2, <2>3, Returns
<1>11. ASSUME CrossRoom(p) PROVE T
  <2> DEFINE k == InvoiceOf(row[p])
  <2>1. /\ row[p] \in RowIds /\ pc[p] = "crossRoom" /\ UNCHANGED <<alloc, held>>
        /\ ReleaseSettlement(k, alloc[row[p]].amount)
    BY <1>11 DEF CrossRoom, Shape, Inputs, OnRow, history
  <2>2. k \in Invoices /\ alloc[row[p]].amount \in Nat
    BY <1>0, <2>1, RowIdParts, RowFields
  <2>3. Unwinds(p, k)
    BY <2>1 DEF Shape, KindOf, Inputs, Unwinds, Sweeps, OnRow
  <2>4. ~Open(k)
    BY <2>2, <2>3, UnwoundClosed
  <2> HIDE DEF k
  <2>5. /\ settled'[k] = IF settled[k] >= alloc[row[p]].amount
                         THEN settled[k] - alloc[row[p]].amount ELSE settled[k]
        /\ \A j \in Invoices : j # k => settled'[j] = settled[j]
    BY <1>0, <2>1, <2>2, ReleaseEffect DEF Capacity
  <2>6. Live(i)' = Live(i) /\ Held(i)' = Held(i) /\ Live(i) \in Nat /\ Held(i) \in Nat
    BY <1>0, <2>1, SameTotals, LiveType, HeldType
  <2>7. CASE i # k
    BY <2>5, <2>6, <2>7, StillCovered DEF Taken
  <2>8. CASE i = k
    <3>1. settled[k] \in Nat /\ Live(i) + Held(i) <= Total[i]
      BY <1>0, <2>2 DEF Capacity
    <3>2. settled'[k] # Missing
      BY <2>2, <2>5, <3>1 DEF Missing
    <3> QED BY <2>4, <2>6, <2>8, <3>1, <3>2 DEF Covered, Taken
  <2> QED BY <2>7, <2>8
<1>12. ASSUME RefundCross(p) PROVE T
  <2>1. /\ row[p] \in RowIds /\ UNCHANGED <<alloc, settled>>
        /\ UNCHANGED held \/ Hold(p, InvoiceOf(row[p]), 0)
    BY <1>12 DEF RefundCross, Shape, Inputs, OnRow, invoiceVars, history
  <2> QED BY <2>1, RowIdParts, LetsGo
<1> SUFFICES T
  OBVIOUS
<1> HIDE DEF T
<1>13. ASSUME NEW j \in Invoices, Claim(p, j) \/ Raise(p, j) PROVE T
  BY <1>13, ClaimCovers, RaiseCovers DEF T
<1>14. CASE UNCHANGED <<alloc, held, settled>>
  BY <1>14, LetsGo DEF T
<1>15. CASE AllocWriter(p)
  BY <1>15, <1>1, <1>2, <1>3, <1>5, <1>6, <1>7, <1>8 DEF AllocWriter
<1>16. CASE HeldWriter(p)
  BY <1>16, <1>1, <1>2, <1>3, <1>5, <1>6, <1>7, <1>9, <1>10, <1>12, <1>13 DEF HeldWriter
<1>17. CASE SettledWriter(p)
  BY <1>17, <1>9, <1>10, <1>11, <1>13 DEF SettledWriter
<1> QED BY <1>14, <1>15, <1>16, <1>17, Frame

\* The first of a request's invoices in a set is one invoice.
LEMMA NextUnique ==
  ASSUME NEW p \in Requests, job[p].targets \in Seq(Invoices), NEW S,
         NEW i, NEW j, IsNext(p, i, S), IsNext(p, j, S)
  PROVE  i = j
<1>1. PICK k \in DOMAIN job[p].targets :
        /\ job[p].targets[k] = i /\ \A m \in 1..(k - 1) : job[p].targets[m] \notin S
  BY DEF IsNext
<1>2. PICK l \in DOMAIN job[p].targets :
        /\ job[p].targets[l] = j /\ \A m \in 1..(l - 1) : job[p].targets[m] \notin S
  BY DEF IsNext
<1>3. k \in Nat \ {0} /\ l \in Nat \ {0} /\ i \in S /\ j \in S
  BY DEF IsNext
<1>4. ~(k < l) /\ ~(l < k)
  BY <1>1, <1>2, <1>3
<1> QED BY <1>1, <1>2, <1>3, <1>4

\* What a request reads of an invoice fits its total.
LEMMA ReadsFit ==
  ASSUME Shape, Holds, Capacity, NEW p \in Requests, Acts(p),
         NEW q \in Requests, NEW i \in Invoices
  PROVE  i \in Spoiled' \/ seen'[q][i] <= Total[i]
<1>0. /\ TypeOK /\ seen \in [Requests -> [Invoices -> Nat \cup {Missing}]]
      /\ alloc \in [RowIds -> Row] /\ held \in [Requests -> [Invoices -> Int]]
      /\ \A r \in Requests : Reserves(r)
  BY DEF Shape, TypeOK, BookTypeOK, Holds, HoldsOf
<1> SUFFICES ASSUME i \notin Spoiled PROVE seen'[q][i] <= Total[i]
  BY SpoiledStays
<1>1. \A j \in Invoices \ Spoiled : Live(j) <= Total[j]
  <2> TAKE j \in Invoices \ Spoiled
  <2>1. Live(j) \in Nat /\ Held(j) \in Nat /\ Total[j] \in Nat
    BY <1>0, LiveType, HeldType, BookShape
  <2> QED BY <2>1 DEF Capacity
<1>2. CASE q # p
  BY <1>0, <1>2, OthersKeep DEF Keeps, Capacity
<1>3. CASE q = p
  <2>1. CASE UNCHANGED seen
    BY <1>3, <2>1 DEF Capacity
  <2>2. ASSUME NEW j \in Invoices, ReadBalance(p, j) PROVE seen'[p][i] <= Total[i]
    <3>1. UNCHANGED seen \/ seen' = [seen EXCEPT ![p] = [seen[p] EXCEPT ![j] = Live(j)]]
      BY <2>2, Zenon DEF ReadBalance
    <3> QED BY <1>0, <1>1, <3>1 DEF Capacity
  <2>3. ASSUME ReadForCredit(p) PROVE seen'[p][i] <= Total[i]
    <3>1. UNCHANGED seen \/ seen' = [seen EXCEPT ![p][Target(p)] = Live(Target(p))]
      BY <2>3, Zenon DEF ReadForCredit
    <3>2. Target(p) \in Invoices
      BY <2>3, TargetType DEF ReadForCredit
    <3> QED BY <1>0, <1>1, <3>1, <3>2 DEF Capacity
  <2> QED BY <1>3, <2>1, <2>2, <2>3, Frame DEF Reader
<1> QED BY <1>2, <1>3

\* A request about to raise a counter read a larger total than the counter.
LEMMA RaisesUp ==
  ASSUME Shape, Capacity, NEW p \in Requests, Acts(p),
         NEW q \in Requests, NEW i \in Invoices,
         pc'[q] = "raise", IsNext(q, i, ToClaim(q))'
  PROVE  stored'[q] < seen'[q][i]
<1>0. TypeOK
  BY DEF Shape
<1>1. CASE q # p
  <2>1. Keeps(q)
    BY <1>0, <1>1, OthersKeep
  <2>2. pc[q] = "raise" /\ IsNext(q, i, ToClaim(q))
    BY <2>1 DEF Keeps, IsNext, ToClaim
  <2> QED BY <2>1, <2>2 DEF Keeps, Capacity
<1>2. CASE q = p
  <2>1. PICK j \in Invoices : Baseline(p, j) /\ pc'[p] = "raise"
    BY <1>2, LabelMoves
  <2>2. /\ UNCHANGED <<job, seen, share, claimed>> /\ IsNext(p, j, ToClaim(p))
        /\ ~(settled[j] # Missing /\ settled[j] >= seen[p][j])
        /\ stored' = [stored EXCEPT ![p] = settled[j]]
    BY <1>0, <2>1 DEF Baseline, Goto, TypeOK
  <2>3. IsNext(p, i, ToClaim(p))
    BY <1>2, <2>2 DEF IsNext, ToClaim
  <2>4. i = j
    BY <2>2, <2>3, NextUnique, JobFields DEF Shape, TypeOK
  <2>5. settled[i] \in Nat /\ seen[p][i] \in Nat \cup {Missing} /\ stored'[p] = settled[i]
    BY <1>0, <2>2, <2>4 DEF TypeOK, BookTypeOK, Capacity
  <2> QED BY <1>2, <2>2, <2>4, <2>5 DEF Missing, Capacity
<1> QED BY <1>1, <1>2

\* A counter once there stays there.
LEMMA SettledStays ==
  ASSUME Shape, Capacity, NEW p \in Requests, Acts(p), NEW i \in Invoices
  PROVE  settled'[i] # Missing
<1>0. /\ settled \in [Invoices -> Nat \cup {Missing}] /\ \A j \in Invoices : settled[j] \in Nat
      /\ share \in [Requests -> [Invoices -> Nat]] /\ stored[p] \in Nat \cup {Missing}
      /\ seen \in [Requests -> [Invoices -> Nat \cup {Missing}]]
  BY DEF Shape, TypeOK, BookTypeOK, Capacity
<1>1. CASE UNCHANGED settled
  BY <1>0, <1>1 DEF Missing
<1>2. ASSUME NEW j \in Invoices, Raise(p, j) PROVE settled'[i] # Missing
  <2>1. stored[p] < seen[p][j]
    BY <1>2 DEF Raise, Capacity
  <2>2. UNCHANGED settled \/ settled' = [settled EXCEPT ![j] = seen[p][j]]
    BY <1>2, Zenon DEF Raise
  <2> QED BY <1>0, <1>1, <2>1, <2>2 DEF Missing
<1>3. ASSUME NEW j \in Invoices, Claim(p, j) PROVE settled'[i] # Missing
  <2>1. UNCHANGED settled \/ ClaimSettlement(j, share[p][j])
    BY <1>3, Zenon DEF Claim
  <2> QED BY <1>0, <1>1, <2>1 DEF ClaimSettlement, Missing
<1>4. ASSUME NEW j \in Invoices, NEW x \in Nat, ReleaseSettlement(j, x)
      PROVE  settled'[i] # Missing
  <2>1. \A k \in Invoices : settled[k] # Missing
    BY <1>0 DEF Missing
  <2>2. /\ settled'[j] = IF settled[j] >= x THEN settled[j] - x ELSE settled[j]
        /\ \A k \in Invoices : k # j => settled'[k] = settled[k]
    BY <1>0, <1>4, <2>1, ReleaseEffect
  <2>3. settled'[i] \in Nat
    BY <1>0, <1>4, <2>2
  <2> QED BY <2>3 DEF Missing
<1>5. ASSUME NEW j \in Invoices, Release(p, j) PROVE settled'[i] # Missing
  BY <1>0, <1>4, <1>5 DEF Release
<1>6. ASSUME GiveRoom(p) \/ CrossRoom(p) PROVE settled'[i] # Missing
  <2>1. row[p] \in RowIds
    BY <1>6 DEF GiveRoom, CrossRoom, Shape, Inputs, OnRow
  <2>2. InvoiceOf(row[p]) \in Invoices /\ alloc[row[p]].amount \in Nat
    BY <2>1, RowIdParts, RowFields DEF Shape, TypeOK, BookTypeOK
  <2>3. ReleaseSettlement(InvoiceOf(row[p]), alloc[row[p]].amount)
    BY <1>6 DEF GiveRoom, CrossRoom
  <2> QED BY <1>4, <2>2, <2>3
<1> QED BY <1>1, <1>2, <1>3, <1>5, <1>6, Frame DEF SettledWriter

\* Every step keeps every invoice covered by its counter.
LEMMA CapacityStep ==
  ASSUME Shape, Ownership, Fresh, Holds, Capacity, NEW p \in Requests, Acts(p)
  PROVE  Capacity'
<1>1. \A q \in Requests, i \in Invoices : i \in Spoiled' \/ seen'[q][i] <= Total[i]
  BY ReadsFit
<1>2. \A q \in Requests, i \in Invoices :
        pc'[q] = "raise" /\ IsNext(q, i, ToClaim(q))' => stored'[q] < seen'[q][i]
  BY RaisesUp
<1>3. \A i \in Invoices :
        /\ settled'[i] # Missing
        /\ i \in Spoiled' \/ (Live(i) + Held(i))' <= Total[i]
        /\ i \in Spoiled' \/ (Open(i)' =>
             (Live(i) + Held(i))' <= settled'[i] /\ settled'[i] <= Total[i])
  BY SettledStays, CoveredStep, SpoiledStays, OpenMoves DEF Covered, Taken
<1> QED BY <1>1, <1>2, <1>3 DEF Capacity

-----------------------------------------------------------------------------
(***************************************************************************)
(* Which steps concern a credit note.                                      *)
(***************************************************************************)
\* The steps that draw from a source or give back to it, and their rows.
DrawActor(p) ==
  \/ Mark(p) \/ GiveSource(p) \/ EndApply(p) \/ UndoNothing(p) \/ WriteFails(p)
  \/ \E s \in Sources : \/ DrawCredit(p, s) \/ CreditRow(p, s) \/ Stamp(p, s)
                        \/ Undo(p, s) \/ GiveBackDrawn(p, s)
  \/ \E a \in RowIds : Sweep(p, a)
\* The steps that give back cash of another invoice's receipts.
CrossActor(p) ==
  \/ ListCross(p) \/ CrossRoom(p) \/ RefundCross(p)
  \/ \E a \in RowIds : MarkCross(p, a)
\* The steps of a request on a note.
NoteActor(p) ==
  \/ \E n \in Notes : StartNote(p, n) \/ StartCancelNote(p, n)
  \/ ClaimRoom(p) \/ Issue(p) \/ ReleaseRoom(p) \/ CloseNote(p) \/ Stranded(p)
  \/ WriteFails(p)

\* Every other step neither leaves nor reaches a label that they leave or reach.
LEMMA NoteMoves ==
  ASSUME Shape, NEW p \in Requests, Acts(p)
  PROVE  /\ \/ DrawActor(p)
            \/ /\ pc[p] \notin Drawing \cup {"giveSource"}
               /\ \/ pc'[p] \notin Drawing \cup {"giveSource"}
                  \/ pc[p] = "claim" /\ pc'[p] = "draw" /\ drawn'[p] = drawn[p]
         /\ pc'[p] \in {"cross"} \cup Crossing => CrossActor(p)
         /\ NoteActor(p) \/ (pc[p] \notin OnNote /\ pc'[p] \notin OnNote)
<1> DEFINE T == /\ \/ DrawActor(p)
                   \/ /\ pc[p] \notin Drawing \cup {"giveSource"}
                      /\ \/ pc'[p] \notin Drawing \cup {"giveSource"}
                         \/ pc[p] = "claim" /\ pc'[p] = "draw" /\ drawn'[p] = drawn[p]
                /\ pc'[p] \in {"cross"} \cup Crossing => CrossActor(p)
                /\ NoteActor(p) \/ (pc[p] \notin OnNote /\ pc'[p] \notin OnNote)
<1>0. pc \in [Requests -> Labels] /\ KindOf(p)
  BY DEF Shape, TypeOK
<1> USE DEF Goto, Start, local, history, vars, book, KindOf, Drawing, Crossing, OnNote
<1>1. ASSUME NEW targets \in TargetLists, NEW x \in Amounts, StartReceipt(p, targets, x) PROVE T
  BY <1>0, <1>1 DEF StartReceipt
<1>2. ASSUME NEW i \in Invoices, NEW x \in Amounts, StartApply(p, i, x) PROVE T
  BY <1>0, <1>2 DEF StartApply
<1>3. ASSUME NEW a \in RowIds, StartReverse(p, a) PROVE T
  BY <1>0, <1>3 DEF StartReverse
<1>4. ASSUME NEW i \in Invoices, StartCancel(p, i) PROVE T
  BY <1>0, <1>4 DEF StartCancel
<1>5. ASSUME NEW n \in Notes, StartNote(p, n) PROVE T
  BY <1>0, <1>5 DEF StartNote, NoteActor
<1>6. ASSUME NEW n \in Notes, StartCancelNote(p, n) PROVE T
  BY <1>0, <1>6 DEF StartCancelNote, NoteActor
<1>7. ASSUME NEW i \in Invoices, ReadBalance(p, i) PROVE T
  BY <1>0, <1>7 DEF ReadBalance
<1>8. ASSUME NEW i \in Invoices, Baseline(p, i) PROVE T
  BY <1>0, <1>8 DEF Baseline
<1>9. ASSUME NEW i \in Invoices, Raise(p, i) PROVE T
  BY <1>0, <1>9 DEF Raise
<1>10. ASSUME NEW i \in Invoices, Claim(p, i) PROVE T
  BY <1>0, <1>10 DEF Claim
<1>11. ASSUME NEW i \in Invoices, Allocate(p, i) PROVE T
  BY <1>0, <1>11 DEF Allocate
<1>12. ASSUME NEW i \in Invoices, Release(p, i) PROVE T
  BY <1>0, <1>12 DEF Release
<1>13. ASSUME Receive(p) PROVE T
  BY <1>0, <1>13 DEF Receive
<1>14. ASSUME ReadForCredit(p) PROVE T
  BY <1>0, <1>14 DEF ReadForCredit
<1>15. ASSUME PlanCredit(p) PROVE T
  BY <1>0, <1>15 DEF PlanCredit
<1>16. ASSUME EndApply(p) PROVE T
  BY <1>0, <1>16 DEF EndApply, DrawActor
<1>17. ASSUME UndoNothing(p) PROVE T
  BY <1>0, <1>17 DEF UndoNothing, DrawActor
<1>18. ASSUME Mark(p) PROVE T
  BY <1>0, <1>18 DEF Mark, DrawActor
<1>19. ASSUME GiveSource(p) PROVE T
  BY <1>0, <1>19 DEF GiveSource, DrawActor
<1>20. ASSUME GiveRoom(p) PROVE T
  BY <1>0, <1>20 DEF GiveRoom
<1>21. ASSUME Close(p) PROVE T
  BY <1>0, <1>21 DEF Close
<1>22. ASSUME Recheck(p) PROVE T
  BY <1>0, <1>22 DEF Recheck
<1>23. ASSUME Reopen(p) PROVE T
  BY <1>0, <1>23 DEF Reopen
<1>24. ASSUME ListRows(p) PROVE T
  BY <1>0, <1>24 DEF ListRows
<1>25. ASSUME ListCross(p) PROVE T
  BY <1>0, <1>25 DEF ListCross, CrossActor
<1>26. ASSUME CrossRoom(p) PROVE T
  BY <1>0, <1>26 DEF CrossRoom, CrossActor
<1>27. ASSUME RefundCross(p) PROVE T
  BY <1>0, <1>27 DEF RefundCross, CrossActor
<1>28. ASSUME Restore(p) PROVE T
  BY <1>0, <1>28 DEF Restore
<1>29. ASSUME EndPass(p) PROVE T
  BY <1>0, <1>29 DEF EndPass
<1>30. ASSUME ReadPool(p) PROVE T
  BY <1>0, <1>30 DEF ReadPool
<1>31. ASSUME TakePool(p) PROVE T
  BY <1>0, <1>31 DEF TakePool
<1>32. ASSUME MarkPending(p) PROVE T
  BY <1>0, <1>32 DEF MarkPending
<1>33. ASSUME ClaimRoom(p) PROVE T
  BY <1>0, <1>33 DEF ClaimRoom, NoteActor
<1>34. ASSUME Issue(p) PROVE T
  BY <1>0, <1>34 DEF Issue, NoteActor
<1>35. ASSUME ReleaseRoom(p) PROVE T
  BY <1>0, <1>35 DEF ReleaseRoom, NoteActor
<1>36. ASSUME CloseNote(p) PROVE T
  BY <1>0, <1>36 DEF CloseNote, NoteActor
<1>37. ASSUME Stranded(p) PROVE T
  BY <1>0, <1>37 DEF Stranded, NoteActor
<1>38. ASSUME NEW s \in Sources, DrawCredit(p, s) PROVE T
  BY <1>0, <1>38 DEF DrawCredit, DrawActor
<1>39. ASSUME NEW s \in Sources, CreditRow(p, s) PROVE T
  BY <1>0, <1>39 DEF CreditRow, DrawActor
<1>40. ASSUME NEW s \in Sources, Undo(p, s) PROVE T
  BY <1>0, <1>40 DEF Undo, DrawActor
<1>49. ASSUME NEW s \in Sources, Stamp(p, s) PROVE T
  BY <1>0, <1>49 DEF Stamp, DrawActor
<1>41. ASSUME NEW s \in Sources, GiveBackDrawn(p, s) PROVE T
  BY <1>0, <1>41 DEF GiveBackDrawn, DrawActor
<1>42. ASSUME NEW a \in RowIds, Sweep(p, a) PROVE T
  BY <1>0, <1>42 DEF Sweep, DrawActor
<1>43. ASSUME NEW a \in RowIds, MarkCross(p, a) PROVE T
  BY <1>0, <1>43 DEF MarkCross, CrossActor
<1>44. ASSUME WriteFails(p) PROVE T
  BY <1>0, <1>44 DEF WriteFails, OnError, DrawActor, NoteActor
<1> SUFFICES T
  OBVIOUS
<1> HIDE DEF T
<1>45. CASE Begin(p)
  BY <1>45, <1>1, <1>2, <1>3, <1>4, <1>5, <1>6, SMTT(30) DEF Begin
<1>46. CASE Step(p)
  BY <1>46, <1>7, <1>8, <1>9, <1>10, <1>11, <1>12, <1>13, <1>14, <1>15, <1>16,
     <1>17, <1>18, <1>19, <1>20, <1>21, <1>22, <1>23, <1>24, <1>25, <1>26,
     <1>27, <1>28, <1>29, <1>30, <1>31, <1>32, <1>33, <1>34, <1>35, <1>36,
     <1>37, <1>38, <1>39, <1>40, <1>49, <1>41, <1>42, <1>43, SMTT(60) DEF Step
<1> QED BY <1>44, <1>45, <1>46 DEF Acts

-----------------------------------------------------------------------------
(***************************************************************************)
(* What a note's live rows spend, and what is due to them.                 *)
(***************************************************************************)
\* A change of one row changes what its source has spent by as much.
LEMMA SpentChange ==
  ASSUME alloc \in [RowIds -> Row], alloc' \in [RowIds -> Row], NEW a \in RowIds,
         \A b \in RowIds : b # a => alloc'[b] = alloc[b], NEW s
  PROVE  /\ Spent(s) \in Nat /\ Spent(s)' \in Nat
         /\ SourceOf(a) # s => Spent(s)' = Spent(s)
         /\ SourceOf(a) = s => Spent(s)' + Weight(alloc[a]) = Spent(s) + Weight(alloc'[a])
<1> DEFINE f == SpentRows(s)
           g == [b \in RowIds |-> IF alloc'[b].state = "live" /\ SourceOf(b) = s
                                  THEN alloc'[b].amount ELSE 0]
<1>1. \A b \in RowIds : alloc[b].amount \in Nat /\ alloc'[b].amount \in Nat
  BY DEF Row
<1>2. f \in [RowIds -> Nat] /\ g \in [RowIds -> Nat]
  BY <1>1 DEF SpentRows
<1>3. \A b \in RowIds : b # a => g[b] = f[b]
  BY DEF SpentRows
<1>4. f[a] = IF SourceOf(a) = s THEN Weight(alloc[a]) ELSE 0
  BY DEF SpentRows, Weight
<1>5. g[a] = IF SourceOf(a) = s THEN Weight(alloc'[a]) ELSE 0
  BY DEF Weight
<1>6. SpentRows(s)' = g
  BY Zenon DEF SpentRows, SourceOf
<1> HIDE DEF f, g
<1>7. Sum(g) + f[a] = Sum(f) + g[a]
  BY <1>2, <1>3, Finite, SumChange
<1>8. Sum(f) \in Nat /\ Sum(g) \in Nat
  BY <1>2, Finite, SumNat
<1>9. Spent(s) = Sum(f) /\ Spent(s)' = Sum(g)
  BY <1>6 DEF Spent, f
<1>10. Weight(alloc[a]) \in Nat /\ Weight(alloc'[a]) \in Nat
  BY <1>1 DEF Weight
<1>11. CASE SourceOf(a) = s
  <2>1. f[a] = Weight(alloc[a]) /\ g[a] = Weight(alloc'[a])
    BY <1>4, <1>5, <1>11
  <2> QED BY <1>7, <1>8, <1>9, <1>11, <2>1
<1>12. CASE SourceOf(a) # s
  <2>1. f[a] = 0 /\ g[a] = 0
    BY <1>4, <1>5, <1>12
  <2> QED BY <1>7, <1>8, <1>9, <1>12, <2>1
<1> QED BY <1>11, <1>12

\* What is spent of a source depends on the state and the amount of its rows.
LEMMA SpentSame ==
  ASSUME NEW s, \A a \in RowIds : SourceOf(a) = s =>
           alloc'[a].state = alloc[a].state /\ alloc'[a].amount = alloc[a].amount
  PROVE  Spent(s)' = Spent(s)
<1>1. \A a \in RowIds :
        (IF alloc'[a].state = "live" /\ SourceOf(a) = s THEN alloc'[a].amount ELSE 0)
      = (IF alloc[a].state = "live" /\ SourceOf(a) = s THEN alloc[a].amount ELSE 0)
  OBVIOUS
<1>2. SpentRows(s)' = SpentRows(s)
  BY <1>1, Zenon DEF SpentRows, SourceOf
<1> QED BY <1>2 DEF Spent

\* What is spent and due are amounts.
LEMMA DueType ==
  ASSUME Shape, NEW n \in Notes
  PROVE  /\ \A q \in Requests : Due(q, n) \in Nat
         /\ [q \in Requests |-> Due(q, n)] \in [Requests -> Nat]
         /\ Spent(n) \in Nat /\ Sum([q \in Requests |-> Due(q, n)]) \in Nat
         /\ applied[n] \in Nat /\ NoteTotal[n] \in Nat /\ n \in Sources /\ n \notin Receipts
<1>1. /\ plan \in [Requests -> [Sources -> Nat]] /\ alloc \in [RowIds -> Row]
      /\ applied \in [Notes -> Nat]
  BY DEF Shape, TypeOK, BookTypeOK
<1>2. n \in Sources /\ NoteTotal[n] \in Nat /\ n \notin Receipts
  BY BookShape DEF Sources
<1>3. ASSUME NEW q \in Requests PROVE Due(q, n) \in Nat
  <2>1. pc[q] = "giveSource" => alloc[row[q]].amount \in Nat
    BY <1>1, RowFields DEF Shape, Inputs, OnRow
  <2> QED BY <1>1, <1>2, <2>1 DEF Due
<1>4. [q \in Requests |-> Due(q, n)] \in [Requests -> Nat]
  BY <1>3
<1>5. Spent(n) \in Nat
  <2>1. SpentRows(n) \in [RowIds -> Nat]
    BY <1>1 DEF SpentRows, Row
  <2> QED BY <2>1, Finite, SumNat DEF Spent
<1>6. Sum([q \in Requests |-> Due(q, n)]) \in Nat
  BY <1>4, SumNat, BookShape
<1> QED BY <1>1, <1>2, <1>3, <1>4, <1>5, <1>6

\* Only its writer, or a reversal once it carries a ledger entry, changes a row
\* of a note.
NoteRowMove(p, a) ==
  \/ alloc'[a] = alloc[a] \/ Written(p, a) \/ Paired(p, a)
  \/ /\ alloc'[a].amount = alloc[a].amount /\ alloc[a].stamped /\ alloc'[a].stamped
     /\ alloc[a].state = "live" /\ alloc'[a].state = "reversed" /\ pc[p] \in {"mark", "sweep"}
  \/ /\ alloc'[a].amount = alloc[a].amount
     /\ Writer(a) = p /\ pc[p] = "undo" /\ alloc'[a].state = "absent"

LEMMA NoteRowMoves ==
  ASSUME Shape, Fresh, Holds, NEW p \in Requests, Acts(p), Draws(p),
         NEW a \in RowIds, SourceOf(a) \in Notes
  PROVE  NoteRowMove(p, a)
<1>0. SourceOf(a) \notin Receipts
  BY BookShape
<1>1. CASE Mark(p)
  <2>1. alloc[row[p]].stamped /\ row[p] \in RowIds /\ pc[p] = "mark"
    BY <1>1, MarkEffect DEF Fresh
  <2> QED BY <1>1, <2>1, MarkEffect DEF Becomes, NoteRowMove
<1>2. ASSUME NEW b \in RowIds, Sweep(p, b) PROVE NoteRowMove(p, a)
  <2>1. pc[p] = "sweep"
    BY <1>2 DEF Sweep
  <2> QED BY <1>2, <2>1, SweepEffect DEF Becomes, NoteRowMove
<1>3. ASSUME NEW b \in RowIds, MarkCross(p, b) PROVE NoteRowMove(p, a)
  <2>1. SourceOf(b) \in Receipts
    BY <1>3 DEF MarkCross, Draws
  <2>2. b # a
    BY <1>0, <2>1
  <2> QED BY <1>3, <2>2, MarkCrossEffect DEF Becomes, NoteRowMove
<1>4. CASE Restore(p)
  <2>1. SourceOf(row[p]) \in Receipts
    BY <1>4 DEF Restore, Draws, Crossing
  <2>2. row[p] # a
    BY <1>0, <2>1
  <2> QED BY <1>4, <2>2, RestoreEffect DEF Becomes, NoteRowMove
<1>5. CASE pc[p] \in {"allocate", "credit", "stamp", "undo"}
  <2>1. ~Unwinds(p, InvoiceOf(a))
    BY <1>5 DEF Unwinds, Sweeps, Reversing
  <2>2. CASE Moved(p, a)
    <3>1. CASE Writer(a) = p /\ pc[p] = "undo" /\ alloc'[a].state = "absent"
      BY <2>2, <3>1 DEF Moved, NoteRowMove
    <3>2. CASE alloc[a].stamped /\ alloc[a].state = "live" /\ alloc'[a].state = "reversed"
      <4>1. UNCHANGED alloc \/ AllocWriter(p)
        BY Frame
      <4>2. ASSUME NEW s \in Sources, Stamp(p, s) PROVE FALSE
        BY <3>2, <4>2, StampEffect DEF Becomes
      <4>3. ASSUME NEW s \in Sources, Undo(p, s) PROVE FALSE
        BY <3>2, <4>3, UndoEffect DEF Becomes
      <4>4. ASSUME NEW s \in Sources, CreditRow(p, s) PROVE FALSE
        BY <3>2, <4>4, CreditRowEffect DEF Becomes
      <4>5. ASSUME NEW i \in Invoices, Allocate(p, i) PROVE FALSE
        BY <3>2, <4>5, AllocateEffect DEF Becomes
      <4> QED BY <1>1, <1>2, <1>3, <1>4, <3>2, <4>1, <4>2, <4>3, <4>4, <4>5 DEF AllocWriter
    <3> QED BY <2>1, <2>2, <3>1, <3>2 DEF Moved
  <2> QED BY <2>2, RowMoves DEF NoteRowMove
<1>6. ASSUME NEW i \in Invoices, Allocate(p, i) PROVE NoteRowMove(p, a)
  BY <1>5, <1>6 DEF Allocate
<1>7. ASSUME NEW s \in Sources, Stamp(p, s) PROVE NoteRowMove(p, a)
  BY <1>5, <1>7 DEF Stamp
<1>8. ASSUME NEW s \in Sources, CreditRow(p, s) \/ Undo(p, s) PROVE NoteRowMove(p, a)
  BY <1>5, <1>8 DEF CreditRow, Undo
<1>9. CASE UNCHANGED alloc
  BY <1>9 DEF NoteRowMove
<1> QED BY <1>1, <1>2, <1>3, <1>4, <1>6, <1>7, <1>8, <1>9, Frame DEF AllocWriter

\* A step of p changes neither what is due of another request nor its rows.
LEMMA OthersDraw ==
  ASSUME Shape, Fresh, Holds, NEW p \in Requests, Acts(p), Draws(p),
         NEW q \in Requests, q # p, Draws(q)
  PROVE  Draws(q)' /\ \A n \in Notes : Due(q, n)' = Due(q, n)
<1>0. TypeOK /\ Keeps(q) /\ Target(q)' = Target(q) /\ alloc \in [RowIds -> Row]
  BY OthersKeep DEF Shape, TypeOK, BookTypeOK, Keeps, Target
<1>1. ASSUME pc[q] \in OnRow
      PROVE  row'[q] = row[q] /\ row[q] \in RowIds /\ alloc'[row[q]].amount = alloc[row[q]].amount
  <2>1. row[q] \in RowIds /\ alloc[row[q]].amount > 0
    BY <1>1 DEF Shape, Inputs, Fresh
  <2> QED BY <1>0, <2>1, RowKeeps DEF Keeps
<1>2. CASE pc[q] \notin Drawing
  <2>1. Draws(q)'
    BY <1>0, <1>2 DEF Draws, Keeps, Drawing
  <2>2. \A n \in Notes : Due(q, n)' = Due(q, n)
    BY <1>0, <1>1, <1>2 DEF Due, Keeps, OnRow, SourceOf
  <2> QED BY <2>1, <2>2
<1>3. CASE pc[q] \in Drawing
  <2>1. job[q].kind = "apply" /\ ~Over(q) /\ pc[q] # "idle"
    BY <1>3 DEF Shape, KindOf, ApplyOnly, Drawing, Over
  <2> SUFFICES ASSUME NEW i \in Invoices, i = Target(q)
               PROVE  Draws(q)' /\ \A n \in Notes : Due(q, n)' = Due(q, n)
    BY <2>1, TargetType
  <2>2. \A s \in Sources : /\ Own(q, i, s) \in RowIds /\ Writer(Own(q, i, s)) = q
                           /\ SourceOf(Own(q, i, s)) = s
    BY OwnRow
  <2>3. \A s \in Sources : alloc'[Own(q, i, s)].amount = alloc[Own(q, i, s)].amount
    BY <2>2, RowKeeps
  <2>4. Notes \subseteq Sources
    BY DEF Sources
  <2>5. ASSUME NEW n \in Notes
        PROVE  /\ alloc'[Own(q, i, n)].state = "absent" <=> alloc[Own(q, i, n)].state = "absent"
               /\ alloc'[Own(q, i, n)].state = "reversed" => alloc'[Own(q, i, n)].stamped
    <3>1. alloc[Own(q, i, n)].state = "reversed" => alloc[Own(q, i, n)].stamped
      BY <1>3 DEF Draws, DrawnRow
    <3>2. NoteRowMove(p, Own(q, i, n))
      BY <2>2, <2>4, NoteRowMoves
    <3> QED BY <2>2, <2>4, <3>1, <3>2 DEF NoteRowMove, Written, Paired
  <2>6. i = Target(q)'
    BY <1>0
  <2>7. drawn[q] \in SUBSET Sources
    BY <1>0 DEF TypeOK
  <2>8. Draws(q)'
    BY <1>0, <1>3, <2>3, <2>4, <2>5, <2>6, <2>7 DEF Draws, DrawnRow, Keeps, Drawing, Crossing, Own
  <2>9. \A n \in Notes : Due(q, n)' = Due(q, n)
    BY <1>0, <1>3, <2>5, <2>6 DEF Due, DrawnRow, Keeps, Own
  <2> QED BY <2>8, <2>9
<1> QED BY <1>2, <1>3

\* What p has drawn, in the terms of its invoice.
LEMMA DrawnForm ==
  ASSUME NEW p \in Requests, NEW i, i = Target(p), UNCHANGED job, pc' \in [Requests -> Labels]
  PROVE  /\ i = Target(p)'
         /\ \A s : DrawnRow(p, s) = alloc[Own(p, i, s)] /\ DrawnRow(p, s)' = alloc'[Own(p, i, s)]
BY DEF Target, DrawnRow, Own

\* A step of p moves as much in the note as in its rows and in what is due.
Even(p, n) ==
  /\ Due(p, n)' \in Nat /\ Spent(n)' \in Nat /\ applied'[n] \in Nat
  /\ applied'[n] + Spent(n) + Due(p, n) = applied[n] + Spent(n)' + Due(p, n)'
  /\ \/ applied'[n] <= applied[n]
     \/ noteStatus[n] = "issued" /\ applied'[n] <= NoteTotal[n]

\* It does when note and rows are left alone, and what is due is the same.
LEMMA EvenWhenSame ==
  ASSUME Shape, NEW p \in Requests, NEW n \in Notes,
         applied'[n] = applied[n], Spent(n)' = Spent(n), Due(p, n)' = Due(p, n)
  PROVE  Even(p, n)
<1>1. Due(p, n) \in Nat /\ Spent(n) \in Nat /\ applied[n] \in Nat
  BY DueType
<1> QED BY <1>1 DEF Even

\* Reversing a row of a note makes its amount due.
LEMMA ReversalEven ==
  ASSUME Shape, NEW p \in Requests, NEW n \in Notes, NEW a \in RowIds,
         alloc' \in [RowIds -> Row], alloc[a].state = "live",
         Becomes(a, alloc[a].amount, "reversed", alloc[a].stamped),
         UNCHANGED applied, pc[p] \notin Drawing \cup {"giveSource"},
         pc'[p] = "giveSource", row'[p] = a
  PROVE  Even(p, n)
<1>1. alloc \in [RowIds -> Row] /\ alloc[a].amount \in Nat /\ alloc'[a].amount = alloc[a].amount
  BY RowFields DEF Shape, TypeOK, BookTypeOK, Becomes
<1>2. Weight(alloc[a]) = alloc[a].amount /\ Weight(alloc'[a]) = 0
  BY DEF Weight, Becomes
<1>3. /\ Spent(n) \in Nat /\ Spent(n)' \in Nat
      /\ SourceOf(a) # n => Spent(n)' = Spent(n)
      /\ SourceOf(a) = n => Spent(n)' + Weight(alloc[a]) = Spent(n) + Weight(alloc'[a])
  BY <1>1, SpentChange DEF Becomes
<1>4. Due(p, n) = 0 /\ Due(p, n)' = IF SourceOf(a) = n THEN alloc[a].amount ELSE 0
  BY <1>1 DEF Due, Drawing, SourceOf
<1>5. applied[n] \in Nat /\ applied'[n] = applied[n]
  BY DueType
<1>6. CASE SourceOf(a) = n
  <2>1. Spent(n)' + alloc[a].amount = Spent(n) /\ Due(p, n)' = alloc[a].amount
    BY <1>1, <1>2, <1>3, <1>4, <1>6
  <2> QED BY <1>1, <1>3, <1>4, <1>5, <2>1 DEF Even
<1>7. CASE SourceOf(a) # n
  <2>1. Spent(n)' = Spent(n) /\ Due(p, n)' = Due(p, n)
    BY <1>3, <1>4, <1>7
  <2> QED BY <1>5, <2>1, EvenWhenSame
<1> QED BY <1>6, <1>7

\* The steps that have nothing to do with a note leave what it gave up alone.
LEMMA BystanderEven ==
  ASSUME Shape, Fresh, Holds, NEW p \in Requests, Acts(p), Draws(p), ~DrawActor(p),
         NEW n \in Notes
  PROVE  Even(p, n)
<1>0. Shape' /\ pc' \in [Requests -> Labels]
  BY ShapeStep DEF Next, Acts, Shape, TypeOK
<1>1. /\ pc[p] \notin Drawing \cup {"giveSource"}
      /\ \/ pc'[p] \notin Drawing \cup {"giveSource"}
         \/ pc[p] = "claim" /\ pc'[p] = "draw" /\ drawn'[p] = drawn[p]
  BY NoteMoves
<1>2. Due(p, n) = 0
  BY <1>1 DEF Due
<1>3. Due(p, n)' = 0
  <2>1. CASE pc'[p] \notin Drawing \cup {"giveSource"}
    BY <2>1 DEF Due
  <2>2. CASE pc[p] = "claim" /\ pc'[p] = "draw" /\ drawn'[p] = drawn[p]
    <3>1. job'[p].kind = "apply" /\ job'[p] = job[p]
      BY <1>0, <2>2, LabelMoves DEF Shape, KindOf, ApplyOnly
    <3>2. drawn'[p] = {}
      BY <2>2, <3>1 DEF Holds, HoldsOf, ApplyHolds, Claiming
    <3> QED BY <2>2, <3>2 DEF Due, Drawing
  <2> QED BY <1>1, <2>1, <2>2
<1>4. applied' = applied
  BY Frame DEF AppliedWriter, DrawActor
<1>5. Spent(n)' = Spent(n)
  <2>1. n \notin Receipts
    BY DueType
  <2>2. ASSUME NEW i \in Invoices, Allocate(p, i), NEW a \in RowIds, SourceOf(a) = n
        PROVE  alloc'[a] = alloc[a]
    <3>1. p \in Receipts /\ p \in Sources
      BY DEF Sources, Receipts
    <3>2. a # Own(p, i, p)
      BY <2>1, <2>2, <3>1, OwnRow
    <3> QED BY <2>2, <3>2, AllocateEffect DEF Becomes
  <2>3. ASSUME Restore(p) \/ \E b \in RowIds : MarkCross(p, b), NEW a \in RowIds, SourceOf(a) = n
        PROVE  alloc'[a] = alloc[a]
    <3>1. pc[p] \in {"restore", "cross"}
      BY <2>3 DEF Restore, MarkCross
    <3> QED BY <2>3, <3>1, NoteRowMoves DEF NoteRowMove, Written, Paired
  <2>4. \A a \in RowIds : SourceOf(a) = n => alloc'[a] = alloc[a]
    BY <2>2, <2>3, Frame DEF AllocWriter, DrawActor
  <2> QED BY <2>4, SpentSame
<1> QED BY <1>2, <1>3, <1>4, <1>5, EvenWhenSame

\* Every step of a request moves as much in a note as in its rows and its dues.
LEMMA OwnEven ==
  ASSUME Shape, Fresh, Holds, NEW p \in Requests, Acts(p), Draws(p),
         NEW n \in Notes, n \notin Refilled', Due(p, n) <= applied[n]
  PROVE  Even(p, n)
<1>0. /\ Shape' /\ pc' \in [Requests -> Labels] /\ pc \in [Requests -> Labels]
      /\ alloc \in [RowIds -> Row] /\ alloc' \in [RowIds -> Row] /\ applied \in [Notes -> Nat]
      /\ drawn \in [Requests -> SUBSET Sources] /\ plan \in [Requests -> [Sources -> Nat]]
      /\ row \in [Requests -> RowIds \cup {NoRowId}] /\ KindOf(p)
  BY ShapeStep DEF Next, Acts, Shape, TypeOK, BookTypeOK
<1>1. CASE Mark(p)
  <2>1. row[p] \in RowIds /\ pc[p] = "mark" /\ UNCHANGED <<applied, row>>
    BY <1>1, MarkEffect DEF Mark, noteVars, local, history
  <2>2. CASE alloc[row[p]].state = "live"
    <3>1. alloc' = [alloc EXCEPT ![row[p]].state = "reversed"] /\ Goto(p, "giveSource")
      BY <1>1, <2>2, Zenon DEF Mark
    <3>2. Becomes(row[p], alloc[row[p]].amount, "reversed", alloc[row[p]].stamped)
      BY <1>0, <2>1, <3>1, StateEffect
    <3>3. pc'[p] = "giveSource" /\ row'[p] = row[p]
      BY <1>0, <2>1, <3>1 DEF Goto
    <3> QED BY <1>0, <2>1, <2>2, <3>2, <3>3, ReversalEven DEF Drawing
  <2>3. CASE alloc[row[p]].state # "live"
    <3>1. pc'[p] = "done" /\ UNCHANGED alloc
      BY <1>0, <1>1, <2>3 DEF Mark, Goto
    <3>2. Due(p, n) = 0 /\ Due(p, n)' = 0 /\ Spent(n)' = Spent(n)
      BY <2>1, <3>1, SpentSame DEF Due, Drawing
    <3> QED BY <2>1, <3>2, EvenWhenSame
  <2> QED BY <2>2, <2>3
<1>2. ASSUME NEW a \in RowIds, Sweep(p, a) PROVE Even(p, n)
  <2>1. pc[p] = "sweep" /\ UNCHANGED applied
    BY <1>2 DEF Sweep, noteVars
  <2>2. CASE alloc[a].state = "live" /\ alloc[a].stamped
    <3>1. alloc' = [alloc EXCEPT ![a].state = "reversed"] /\ Goto(p, "giveSource")
          /\ row' = [row EXCEPT ![p] = a]
      BY <1>2, <2>2, Zenon DEF Sweep
    <3>2. Becomes(a, alloc[a].amount, "reversed", alloc[a].stamped)
      BY <1>0, <3>1, StateEffect
    <3>3. pc'[p] = "giveSource" /\ row'[p] = a
      BY <1>0, <3>1 DEF Goto
    <3> QED BY <1>0, <2>1, <2>2, <3>2, <3>3, ReversalEven DEF Drawing
  <2>3. CASE ~(alloc[a].state = "live" /\ alloc[a].stamped)
    <3>1. pc'[p] = "sweep" /\ UNCHANGED alloc
      BY <1>2, <2>1, <2>3 DEF Sweep
    <3>2. Due(p, n) = 0 /\ Due(p, n)' = 0 /\ Spent(n)' = Spent(n)
      BY <2>1, <3>1, SpentSame DEF Due, Drawing
    <3> QED BY <2>1, <3>2, EvenWhenSame
  <2> QED BY <2>2, <2>3
<1>3. CASE GiveSource(p)
  <2>1. row[p] \in RowIds /\ pc[p] = "giveSource" /\ UNCHANGED <<alloc, row>>
        /\ pc'[p] \in {"giveRoom", "failed"}
    BY <1>0, <1>3 DEF GiveSource, local, history, Goto, Shape, Inputs, OnRow
  <2>2. alloc[row[p]].amount \in Nat /\ Spent(n)' = Spent(n) /\ Due(p, n)' = 0
        /\ Due(p, n) = IF SourceOf(row[p]) = n THEN alloc[row[p]].amount ELSE 0
    BY <1>0, <2>1, SpentSame, RowFields DEF Due, Drawing
  <2>3. CASE SourceOf(row[p]) = n
    <3>1. CanGiveBack(n, alloc[row[p]].amount)
      BY <2>2, <2>3 DEF CanGiveBack
    <3>2. GiveBack(n, alloc[row[p]].amount)
      BY <1>3, <2>3, <3>1 DEF GiveSource
    <3>3. applied'[n] = applied[n] - alloc[row[p]].amount
      BY <1>0, <3>2 DEF GiveBack
    <3>4. applied[n] \in Nat /\ Spent(n) \in Nat
      BY DueType
    <3>5. Due(p, n) = alloc[row[p]].amount
      BY <2>2, <2>3
    <3> QED BY <2>2, <3>3, <3>4, <3>5 DEF Even
  <2>4. CASE SourceOf(row[p]) # n
    <3>1. applied'[n] = applied[n]
      BY <1>0, <1>3, <2>4 DEF GiveSource, GiveBack
    <3> QED BY <2>2, <2>4, <3>1, EvenWhenSame
  <2> QED BY <2>3, <2>4
<1>4. CASE EndApply(p) \/ UndoNothing(p) \/ WriteFails(p)
      \/ \E s \in Sources : \/ DrawCredit(p, s) \/ CreditRow(p, s) \/ Stamp(p, s)
                            \/ Undo(p, s) \/ GiveBackDrawn(p, s)
  <2>1. UNCHANGED job /\ pc[p] # "idle" /\ UNCHANGED plan
    BY <1>4 DEF EndApply, UndoNothing, WriteFails, DrawCredit, CreditRow, Stamp, Undo,
         GiveBackDrawn, local, history
  <2> SUFFICES ASSUME NEW i \in Invoices, i = Target(p) PROVE Even(p, n)
    BY <2>1, TargetType
  <2> DEFINE b == Own(p, i, n)
  <2>2. /\ i = Target(p)' /\ DrawnRow(p, n) = alloc[b] /\ DrawnRow(p, n)' = alloc'[b]
        /\ \A s : DrawnRow(p, s) = alloc[Own(p, i, s)]
    BY <1>0, <2>1, DrawnForm
  <2>3. b \in RowIds /\ n \in Sources /\ SourceOf(b) = n /\ alloc[b].amount \in Nat
        /\ \A s \in Sources : s # n => Own(p, i, s) # b
    <3>1. n \in Sources
      BY DueType
    <3>2. b \in RowIds /\ SourceOf(b) = n
      BY <3>1, OwnRow
    <3>3. alloc[b].amount \in Nat
      BY <1>0, <3>2, RowFields
    <3>4. \A s \in Sources : s # n => Own(p, i, s) # b
      BY <3>2, OwnRow
    <3> QED BY <3>1, <3>2, <3>3, <3>4
  <2>4. plan[p][n] \in Nat /\ plan'[p][n] = plan[p][n]
    BY <1>0, <2>1, <2>3
  <2> HIDE DEF b
  <2>5. pc[p] \in Drawing => Due(p, n) = IF n \in drawn[p] /\ alloc[b].state = "absent"
                                         THEN plan[p][n] ELSE 0
    BY <2>2 DEF Due
  <2>6. pc'[p] \in Drawing => Due(p, n)' = IF n \in drawn'[p] /\ alloc'[b].state = "absent"
                                           THEN plan[p][n] ELSE 0
    BY <2>2, <2>4 DEF Due
  <2>7. pc'[p] \notin Drawing \cup {"giveSource"} => Due(p, n)' = 0
    BY DEF Due
  <2>8. UNCHANGED alloc => Spent(n)' = Spent(n)
    BY SpentSame
  <2>9. pc[p] \in Drawing =>
          /\ alloc[b].state # "absent" => n \in drawn[p] /\ alloc[b].amount = plan[p][n]
          /\ alloc[b].state = "reversed" => alloc[b].stamped
    BY <2>2 DEF Draws
  <2>10. CASE EndApply(p)
    <3>1. pc[p] = "stamp" /\ pc'[p] = "done" /\ UNCHANGED <<applied, alloc>>
      BY <1>0, <2>10 DEF EndApply, Goto, book
    <3>2. n \in drawn[p] => alloc[b].state # "absent"
      BY <2>2, <3>1 DEF Draws
    <3>3. Due(p, n) = 0 /\ Due(p, n)' = 0
      BY <2>5, <2>7, <3>1, <3>2 DEF Drawing
    <3> QED BY <2>8, <3>1, <3>3, EvenWhenSame
  <2>17. ASSUME NEW s \in Sources, Stamp(p, s) PROVE Even(p, n)
    <3>1. pc[p] = "stamp" /\ pc'[p] = pc[p] /\ UNCHANGED <<applied, drawn>>
      BY <2>17 DEF Stamp, noteVars, local
    <3>2. \A a \in RowIds : alloc'[a].state = alloc[a].state /\ alloc'[a].amount = alloc[a].amount
      BY <2>17, StampEffect DEF Becomes
    <3>3. Due(p, n)' = Due(p, n)
      BY <2>3, <2>5, <2>6, <3>1, <3>2 DEF Drawing
    <3>4. Spent(n)' = Spent(n)
      BY <3>2, SpentSame
    <3> QED BY <3>1, <3>3, <3>4, EvenWhenSame
  <2>11. CASE UndoNothing(p)
    <3>1. pc[p] = "undo" /\ pc'[p] = "release" /\ UNCHANGED <<applied, alloc>> /\ drawn[p] = {}
      BY <1>0, <2>11 DEF UndoNothing, Goto, book
    <3>2. Due(p, n) = 0 /\ Due(p, n)' = 0
      BY <2>5, <2>7, <3>1 DEF Drawing
    <3> QED BY <2>8, <3>1, <3>2, EvenWhenSame
  <2>12. CASE WriteFails(p)
    <3>1. UNCHANGED <<alloc, applied, drawn>>
      BY <2>12 DEF WriteFails, book, local, history
    <3>2. CASE pc[p] \in {"draw", "credit", "stamp"}
      <4>1. pc'[p] = "undo"
        BY <1>0, <2>12, <3>2 DEF WriteFails, OnError, Goto
      <4>2. Due(p, n)' = Due(p, n)
        BY <2>5, <2>6, <3>1, <3>2, <4>1 DEF Drawing
      <4> QED BY <2>8, <3>1, <4>2, EvenWhenSame
    <3>3. CASE pc[p] \in {"receive", "allocate", "issue"}
      <4>1. pc'[p] \in {"failed", "release", "releaseRoom"}
        BY <1>0, <2>12, <3>3 DEF WriteFails, OnError, Goto
      <4>2. Due(p, n) = 0 /\ Due(p, n)' = 0
        BY <2>7, <3>3, <4>1 DEF Due, Drawing
      <4> QED BY <2>8, <3>1, <4>2, EvenWhenSame
    <3> QED BY <2>12, <3>2, <3>3 DEF WriteFails
  <2>13. ASSUME NEW s \in Sources, DrawCredit(p, s) PROVE Even(p, n)
    <3>1. pc[p] = "draw" /\ s \notin drawn[p] /\ UNCHANGED alloc
      BY <2>13 DEF DrawCredit, ToCredit
    <3>2. CASE ~CanDraw(s, plan[p][s])
      <4>1. pc'[p] = "undo" /\ UNCHANGED <<applied, drawn>>
        BY <1>0, <2>13, <3>2 DEF DrawCredit, Goto
      <4>2. Due(p, n)' = Due(p, n)
        BY <2>5, <2>6, <3>1, <4>1 DEF Drawing
      <4> QED BY <2>8, <3>1, <4>1, <4>2, EvenWhenSame
    <3>3. CASE CanDraw(s, plan[p][s])
      <4>1. pc'[p] = "credit" /\ drawn'[p] = drawn[p] \cup {s} /\ Draw(s, plan[p][s])
        BY <1>0, <2>13, <3>3 DEF DrawCredit, Goto
      <4>2. CASE s = n
        <5>1. /\ applied'[n] = applied[n] + plan[p][n] /\ noteStatus[n] = "issued"
              /\ applied[n] <= NoteTotal[n] - plan[p][n]
          BY <1>0, <3>3, <4>1, <4>2 DEF CanDraw, Draw
        <5>2. Due(p, n) = 0 /\ Due(p, n)' = plan[p][n]
          BY <2>5, <2>6, <2>9, <3>1, <4>1, <4>2 DEF Drawing
        <5>3. applied[n] \in Nat /\ Spent(n) \in Nat /\ NoteTotal[n] \in Nat
          BY DueType
        <5> QED BY <2>4, <2>8, <3>1, <5>1, <5>2, <5>3 DEF Even
      <4>3. CASE s # n
        <5>1. applied'[n] = applied[n]
          BY <1>0, <4>1, <4>3 DEF Draw
        <5>2. Due(p, n)' = Due(p, n)
          BY <2>5, <2>6, <3>1, <4>1, <4>3 DEF Drawing
        <5> QED BY <2>8, <3>1, <5>1, <5>2, EvenWhenSame
      <4> QED BY <4>2, <4>3
    <3> QED BY <3>2, <3>3
  <2>14. ASSUME NEW s \in Sources, CreditRow(p, s) PROVE Even(p, n)
    <3>1. /\ pc[p] = "credit" /\ pc'[p] \in {"stamp", "draw"} /\ s \in drawn[p]
          /\ UNCHANGED <<applied, drawn>> /\ alloc[Own(p, i, s)].amount = 0
      BY <1>0, <2>14 DEF CreditRow, Goto, noteVars, local, history
    <3>2. Own(p, i, s) \in RowIds /\ Becomes(Own(p, i, s), plan[p][s], "live", FALSE)
      BY <2>14, CreditRowEffect
    <3>3. CASE s = n
      <4>1. alloc[b].amount = 0 /\ Becomes(b, plan[p][n], "live", FALSE)
        BY <3>1, <3>2, <3>3 DEF b
      <4>2. alloc[b].state = "absent"
        BY <1>0, <2>3, <4>1 DEF Fresh
      <4>3. Due(p, n) = plan[p][n] /\ Due(p, n)' = 0
        BY <2>5, <2>6, <3>1, <3>3, <4>1, <4>2 DEF Drawing, Becomes
      <4>4. Weight(alloc[b]) = 0 /\ Weight(alloc'[b]) = plan[p][n]
        BY <4>1, <4>2 DEF Weight, Becomes
      <4>5. Spent(n) \in Nat /\ Spent(n)' + 0 = Spent(n) + plan[p][n] /\ Spent(n)' \in Nat
        BY <1>0, <2>3, <4>1, <4>4, SpentChange DEF Becomes
      <4>6. applied[n] \in Nat /\ applied'[n] = applied[n]
        BY <3>1, DueType
      <4> QED BY <2>4, <4>3, <4>5, <4>6 DEF Even
    <3>4. CASE s # n
      <4>1. SourceOf(Own(p, i, s)) # n
        BY <3>4, OwnRow
      <4>2. Spent(n)' = Spent(n)
        BY <1>0, <3>2, <4>1, SpentChange DEF Becomes
      <4>3. alloc'[b] = alloc[b]
        BY <2>3, <3>2, <3>4 DEF Becomes
      <4>4. Due(p, n)' = Due(p, n)
        BY <2>5, <2>6, <3>1, <4>3 DEF Drawing
      <4> QED BY <3>1, <4>2, <4>4, EvenWhenSame
    <3> QED BY <3>3, <3>4
  <2>15. ASSUME NEW s \in Sources, Undo(p, s) PROVE Even(p, n)
    <3>1. pc[p] = "undo" /\ pc'[p] = "undo" /\ UNCHANGED <<applied, drawn>>
      BY <2>15 DEF Undo, noteVars, local, history
    <3>2. /\ Own(p, i, s) \in RowIds
          /\ Becomes(Own(p, i, s), alloc[Own(p, i, s)].amount, "absent",
                     alloc[Own(p, i, s)].stamped)
      BY <2>15, UndoEffect
    <3>3. CASE s = n
      <4>1. Becomes(b, alloc[b].amount, "absent", alloc[b].stamped)
        BY <3>2, <3>3 DEF b
      <4>2. Weight(alloc[b]) = (IF alloc[b].state = "live" THEN alloc[b].amount ELSE 0)
            /\ Weight(alloc'[b]) = 0 /\ alloc'[b].state = "absent"
        BY <4>1 DEF Weight, Becomes
      <4>3. Spent(n) \in Nat /\ Spent(n)' + Weight(alloc[b]) = Spent(n) + 0 /\ Spent(n)' \in Nat
        BY <1>0, <2>3, <4>1, <4>2, SpentChange DEF Becomes
      <4>4. applied[n] \in Nat /\ applied'[n] = applied[n]
        BY <3>1, DueType
      <4>5. CASE alloc[b].state = "live"
        <5>1. Due(p, n) = 0 /\ Due(p, n)' = plan[p][n] /\ alloc[b].amount = plan[p][n]
          BY <2>5, <2>6, <2>9, <3>1, <4>2, <4>5 DEF Drawing
        <5>2. Spent(n)' + plan[p][n] = Spent(n)
          BY <4>2, <4>3, <4>5, <5>1
        <5> QED BY <2>4, <4>3, <4>4, <5>1, <5>2 DEF Even
      <4>6. CASE alloc[b].state # "live"
        <5>1. alloc[b].state = "reversed" /\ alloc[b].stamped
          BY <1>0, <2>3, <2>9, <2>15, <3>1, <3>3, <4>6 DEF Undo, Drawing, Row, b
        <5>2. b \in twice'
          BY <2>15, <3>3, <5>1 DEF Undo, b
        <5> QED BY <2>3, <5>2 DEF Refilled, SourceOf
      <4> QED BY <4>5, <4>6
    <3>4. CASE s # n
      <4>1. SourceOf(Own(p, i, s)) # n
        BY <3>4, OwnRow
      <4>2. Spent(n)' = Spent(n)
        BY <1>0, <3>2, <4>1, SpentChange DEF Becomes
      <4>3. alloc'[b] = alloc[b]
        BY <2>3, <3>2, <3>4 DEF Becomes
      <4>4. Due(p, n)' = Due(p, n)
        BY <2>5, <2>6, <3>1, <4>3 DEF Drawing
      <4> QED BY <3>1, <4>2, <4>4, EvenWhenSame
    <3> QED BY <3>3, <3>4
  <2>16. ASSUME NEW s \in Sources, GiveBackDrawn(p, s) PROVE Even(p, n)
    <3>1. /\ pc[p] = "undo" /\ s \in drawn[p] /\ drawn'[p] = drawn[p] \ {s} /\ UNCHANGED alloc
          /\ pc'[p] = IF drawn[p] = {s} THEN "release" ELSE "undo"
      BY <1>0, <2>16 DEF GiveBackDrawn, Goto
    <3>2. alloc[b].state = "absent"
      BY <2>2, <2>3, <2>16 DEF GiveBackDrawn, b
    <3>3. Due(p, n) = IF n \in drawn[p] THEN plan[p][n] ELSE 0
      BY <2>5, <3>1, <3>2 DEF Drawing
    <3>4. Due(p, n)' = IF n \in drawn[p] /\ n # s THEN plan[p][n] ELSE 0
      BY <2>6, <2>7, <3>1, <3>2 DEF Drawing
    <3>5. CASE s = n
      <4>1. CanGiveBack(n, plan[p][n])
        BY <3>1, <3>3, <3>5 DEF CanGiveBack
      <4>2. GiveBack(n, plan[p][n])
        BY <2>16, <3>5, <4>1 DEF GiveBackDrawn
      <4>3. applied'[n] = applied[n] - plan[p][n]
        BY <1>0, <4>2 DEF GiveBack
      <4>4. applied[n] \in Nat /\ Spent(n) \in Nat
        BY DueType
      <4>5. Due(p, n) = plan[p][n] /\ Due(p, n)' = 0
        BY <3>1, <3>3, <3>4, <3>5
      <4> QED BY <2>4, <2>8, <3>1, <4>3, <4>4, <4>5 DEF Even
    <3>6. CASE s # n
      <4>1. applied'[n] = applied[n]
        BY <1>0, <2>16, <3>6 DEF GiveBackDrawn, GiveBack
      <4>2. Due(p, n)' = Due(p, n)
        BY <3>3, <3>4, <3>6
      <4> QED BY <2>8, <3>1, <4>1, <4>2, EvenWhenSame
    <3> QED BY <3>5, <3>6
  <2> QED BY <1>4, <2>10, <2>11, <2>12, <2>13, <2>14, <2>15, <2>16, <2>17
<1>5. CASE ~DrawActor(p)
  BY <1>5, BystanderEven
<1> QED BY <1>1, <1>2, <1>3, <1>4, <1>5 DEF DrawActor

\* A step of p keeps what its rows and its drawn sources have in common.
LEMMA OwnDraws ==
  ASSUME Shape, Fresh, Holds, NEW p \in Requests, Acts(p), Draws(p)
  PROVE  Draws(p)'
<1>0. /\ Shape' /\ pc' \in [Requests -> Labels] /\ pc \in [Requests -> Labels]
      /\ alloc \in [RowIds -> Row] /\ rows \in [Requests -> SUBSET RowIds]
      /\ drawn \in [Requests -> SUBSET Sources] /\ plan \in [Requests -> [Sources -> Nat]]
      /\ row \in [Requests -> RowIds \cup {NoRowId}] /\ KindOf(p)
      /\ Notes \subseteq Sources
  BY ShapeStep DEF Next, Acts, Shape, TypeOK, BookTypeOK, Sources
<1>1. CASE pc'[p] \notin Drawing \cup {"cross"} \cup Crossing
  BY <1>1 DEF Draws, Drawing
<1>2. CASE pc'[p] \in {"cross"} \cup Crossing
  <2>1. CrossActor(p)
    BY <1>2, NoteMoves
  <2>2. (\A a \in rows'[p] : SourceOf(a) \in Receipts)
        /\ (pc'[p] \in Crossing => SourceOf(row'[p]) \in Receipts)
    <3>1. CASE ListCross(p)
      BY <1>0, <3>1 DEF ListCross, Goto, Crossing
    <3>2. ASSUME NEW a \in RowIds, MarkCross(p, a) PROVE <2>2!:
      BY <1>0, <3>2 DEF MarkCross, Goto, Crossing, Draws
    <3>3. CASE CrossRoom(p)
      BY <1>0, <3>3 DEF CrossRoom, Goto, Crossing, Draws, local, history
    <3>4. CASE RefundCross(p)
      BY <1>0, <3>4 DEF RefundCross, Goto, Crossing, Draws
    <3> QED BY <2>1, <3>1, <3>2, <3>3, <3>4 DEF CrossActor
  <2>3. pc'[p] \notin Drawing
    BY <1>2 DEF Drawing, Crossing
  <2> QED BY <2>2, <2>3 DEF Draws, SourceOf, Drawing
<1>3. CASE pc'[p] \in Drawing
  <2>1. /\ pc[p] # "idle" /\ job'[p] = job[p] /\ Target(p)' = Target(p)
    <3>1. pc[p] # "idle"
      BY <1>3, NoteMoves DEF DrawActor, Mark, GiveSource, EndApply, UndoNothing, WriteFails,
           DrawCredit, CreditRow, Stamp, Undo, GiveBackDrawn, Sweep
    <3> QED BY <3>1, LabelMoves DEF Target
  <2> SUFFICES ASSUME NEW i \in Invoices, i = Target(p) PROVE Draws(p)'
    BY <2>1, TargetType
  <2>2. /\ i = Target(p)'
        /\ \A s : DrawnRow(p, s) = alloc[Own(p, i, s)]
        /\ \A s : DrawnRow(p, s)' = alloc'[Own(p, i, s)]
    BY <2>1 DEF DrawnRow, Own
  <2>3. \A s \in Sources : /\ Own(p, i, s) \in RowIds /\ Writer(Own(p, i, s)) = p
                           /\ alloc[Own(p, i, s)].amount \in Nat
                           /\ \A t \in Sources : t # s => Own(p, i, s) # Own(p, i, t)
    <3>1. \A s \in Sources : Own(p, i, s) \in RowIds /\ Writer(Own(p, i, s)) = p
                             /\ SourceOf(Own(p, i, s)) = s
      BY OwnRow
    <3>2. \A s \in Sources : alloc[Own(p, i, s)].amount \in Nat
      BY <1>0, <3>1, RowFields
    <3> QED BY <3>1, <3>2
  <2>4. pc'[p] \notin {"cross"} \cup Crossing
    BY <1>3 DEF Drawing, Crossing
  <2>5. SUFFICES
          /\ \A n \in Notes :
               /\ alloc'[Own(p, i, n)].state # "absent" =>
                    n \in drawn'[p] /\ alloc'[Own(p, i, n)].amount = plan'[p][n]
               /\ alloc'[Own(p, i, n)].state = "reversed" => alloc'[Own(p, i, n)].stamped
          /\ pc'[p] \in {"draw", "credit", "stamp"} => \A n \in Notes :
               alloc'[Own(p, i, n)].amount > 0 => alloc'[Own(p, i, n)].state # "absent"
          /\ pc'[p] \in {"draw", "stamp"} => \A s \in drawn'[p] : alloc'[Own(p, i, s)].amount > 0
          /\ pc'[p] = "credit" => \A s, t \in drawn'[p] :
               alloc'[Own(p, i, s)].amount = 0 /\ alloc'[Own(p, i, t)].amount = 0 => s = t
    BY <2>2, <2>4 DEF Draws
  <2>6. pc[p] \in Drawing => \A n \in Notes :
          /\ alloc[Own(p, i, n)].state # "absent" =>
               n \in drawn[p] /\ alloc[Own(p, i, n)].amount = plan[p][n]
          /\ alloc[Own(p, i, n)].state = "reversed" => alloc[Own(p, i, n)].stamped
    BY <2>2 DEF Draws
  <2>7. /\ pc[p] \in {"draw", "credit", "stamp"} => \A n \in Notes :
             alloc[Own(p, i, n)].amount > 0 => alloc[Own(p, i, n)].state # "absent"
        /\ pc[p] \in {"draw", "stamp"} => \A s \in drawn[p] : alloc[Own(p, i, s)].amount > 0
        /\ pc[p] = "credit" => \A s, t \in drawn[p] :
             alloc[Own(p, i, s)].amount = 0 /\ alloc[Own(p, i, t)].amount = 0 => s = t
    BY <2>2 DEF Draws
  <2>8. CASE ~DrawActor(p)
    <3>1. pc[p] = "claim" /\ pc'[p] = "draw" /\ drawn'[p] = drawn[p]
      BY <1>3, <2>8, NoteMoves
    <3>2. drawn'[p] = {}
      BY <1>0, <2>1, <3>1 DEF Shape, KindOf, ApplyOnly, Holds, HoldsOf, ApplyHolds, Claiming
    <3>3. \A s \in Sources : alloc[Own(p, i, s)].amount = 0 /\ alloc[Own(p, i, s)].state = "absent"
      BY <2>3, <3>1 DEF Fresh, Unwritten, Claiming
    <3>4. alloc' = alloc
      BY <2>8, <3>1, Frame DEF AllocWriter, DrawActor, Allocate, Restore, MarkCross
    <3> QED BY <1>0, <3>1, <3>2, <3>3, <3>4
  <2>9. CASE WriteFails(p)
    <3>1. UNCHANGED <<alloc, drawn, plan>>
      BY <2>9 DEF WriteFails, book, local, history
    <3>2. pc[p] \in Drawing /\ pc'[p] = "undo"
      BY <1>0, <1>3, <2>9 DEF WriteFails, OnError, Goto, Drawing
    <3> QED BY <2>6, <3>1, <3>2
  <2>10. ASSUME NEW s \in Sources, DrawCredit(p, s) PROVE <2>5!1
    <3>1. pc[p] = "draw" /\ UNCHANGED <<alloc, plan>>
      BY <2>10 DEF DrawCredit
    <3>2. \/ pc'[p] = "undo" /\ drawn'[p] = drawn[p]
          \/ pc'[p] = "credit" /\ drawn'[p] = drawn[p] \cup {s}
      BY <1>0, <2>10 DEF DrawCredit, Goto
    <3> QED BY <2>6, <2>7, <3>1, <3>2 DEF Drawing
  <2>11. ASSUME NEW s \in Sources, CreditRow(p, s) PROVE <2>5!1
    <3>1. /\ pc[p] = "credit" /\ pc'[p] \in {"stamp", "draw"} /\ s \in drawn[p]
          /\ UNCHANGED <<drawn, plan>> /\ alloc[Own(p, i, s)].amount = 0
      BY <1>0, <2>11 DEF CreditRow, Goto, local, history
    <3>2. Becomes(Own(p, i, s), plan[p][s], "live", FALSE)
      BY <2>11, CreditRowEffect
    <3>3. plan[p][s] > 0
      BY <1>0, <3>1 DEF KindOf, ApplyOnly, Holds, HoldsOf, ApplyHolds
    <3>4. /\ alloc'[Own(p, i, s)].amount = plan[p][s] /\ alloc'[Own(p, i, s)].state = "live"
          /\ \A t \in Sources : t # s => alloc'[Own(p, i, t)] = alloc[Own(p, i, t)]
      BY <2>3, <3>2 DEF Becomes
    <3>5. \A t \in drawn[p] : t # s => alloc[Own(p, i, t)].amount > 0
      BY <1>0, <2>3, <2>7, <3>1
    <3>6. \A t \in drawn[p] : alloc'[Own(p, i, t)].amount > 0
      BY <1>0, <3>3, <3>4, <3>5
    <3>7. \A n \in Notes :
            /\ alloc'[Own(p, i, n)].state # "absent" =>
                 n \in drawn'[p] /\ alloc'[Own(p, i, n)].amount = plan'[p][n]
            /\ alloc'[Own(p, i, n)].state = "reversed" => alloc'[Own(p, i, n)].stamped
      BY <1>0, <2>6, <3>1, <3>4 DEF Drawing
    <3>8. \A n \in Notes :
               alloc'[Own(p, i, n)].amount > 0 => alloc'[Own(p, i, n)].state # "absent"
      BY <1>0, <2>7, <3>1, <3>4
    <3> QED BY <3>1, <3>6, <3>7, <3>8
  <2>12. ASSUME NEW s \in Sources, Undo(p, s) PROVE <2>5!1
    <3>1. pc[p] = "undo" /\ pc'[p] = "undo" /\ UNCHANGED <<drawn, plan>>
      BY <2>12 DEF Undo, local, history
    <3>2. /\ Own(p, i, s) \in RowIds
          /\ Becomes(Own(p, i, s), alloc[Own(p, i, s)].amount, "absent",
                     alloc[Own(p, i, s)].stamped)
      BY <2>12, UndoEffect
    <3>3. /\ alloc'[Own(p, i, s)].state = "absent"
          /\ \A t \in Sources : t # s => alloc'[Own(p, i, t)] = alloc[Own(p, i, t)]
      BY <2>3, <3>2 DEF Becomes
    <3> QED BY <1>0, <2>6, <3>1, <3>3 DEF Drawing
  <2>13. ASSUME NEW s \in Sources, GiveBackDrawn(p, s) PROVE <2>5!1
    <3>1. pc'[p] = "undo" /\ UNCHANGED alloc
      BY <1>0, <1>3, <2>13 DEF GiveBackDrawn, Goto, Drawing
    <3>2. \A t \in Sources : alloc[Own(p, i, t)].state = "absent"
      BY <2>2, <2>13 DEF GiveBackDrawn
    <3> QED BY <1>0, <3>1, <3>2
  <2>14. CASE Mark(p) \/ GiveSource(p) \/ EndApply(p) \/ UndoNothing(p) \/ \E a \in RowIds : Sweep(p, a)
    BY <1>0, <1>3, <2>14 DEF Mark, GiveSource, EndApply, UndoNothing, Sweep, Goto, Drawing
  <2>15. ASSUME NEW s \in Sources, Stamp(p, s) PROVE <2>5!1
    <3>1. pc[p] = "stamp" /\ pc'[p] = "stamp" /\ UNCHANGED <<drawn, plan>>
      BY <2>15 DEF Stamp, local
    <3>2. Becomes(Own(p, i, s), alloc[Own(p, i, s)].amount, alloc[Own(p, i, s)].state, TRUE)
      BY <2>15, StampEffect
    <3>3. \A t \in Sources :
            /\ alloc'[Own(p, i, t)].amount = alloc[Own(p, i, t)].amount
            /\ alloc'[Own(p, i, t)].state = alloc[Own(p, i, t)].state
            /\ alloc[Own(p, i, t)].stamped => alloc'[Own(p, i, t)].stamped
      BY <2>3, <3>2 DEF Becomes
    <3>4. \A n \in Notes : n \in Sources
      BY <1>0
    <3>5. \A n \in Notes :
            /\ alloc'[Own(p, i, n)].state # "absent" =>
                 n \in drawn'[p] /\ alloc'[Own(p, i, n)].amount = plan'[p][n]
            /\ alloc'[Own(p, i, n)].state = "reversed" => alloc'[Own(p, i, n)].stamped
      BY <2>6, <3>1, <3>3, <3>4 DEF Drawing
    <3>6. \A n \in Notes :
            alloc'[Own(p, i, n)].amount > 0 => alloc'[Own(p, i, n)].state # "absent"
      BY <2>7, <3>1, <3>3, <3>4
    <3>7. \A t \in drawn'[p] : alloc'[Own(p, i, t)].amount > 0
      BY <1>0, <2>7, <3>1, <3>3
    <3> QED BY <3>1, <3>5, <3>6, <3>7
  <2> QED BY <2>8, <2>9, <2>10, <2>11, <2>12, <2>13, <2>14, <2>15 DEF DrawActor
<1> QED BY <1>1, <1>2, <1>3

\* Every step keeps what a note gave up equal to what it settles and what is due.
LEMMA NotesStep ==
  ASSUME Shape, Fresh, Holds, \A q \in Requests : Draws(q), NotesKept,
         NEW p \in Requests, Acts(p)
  PROVE  NotesKept'
<1> SUFFICES ASSUME NEW n \in Notes, n \notin Refilled'
             PROVE  /\ applied'[n] = Spent(n)' + Sum([q \in Requests |-> Due(q, n)'])
                    /\ applied'[n] <= NoteTotal[n]
                    /\ noteStatus'[n] = "cancelled" => applied'[n] = 0
  BY DEF NotesKept
<1>0. n \notin Refilled
  BY SpoiledStays
<1> DEFINE f == [q \in Requests |-> Due(q, n)]
           g == [q \in Requests |-> Due(q, n)']
<1>1. /\ f \in [Requests -> Nat] /\ Sum(f) \in Nat /\ Spent(n) \in Nat /\ f[p] \in Nat
      /\ applied[n] \in Nat /\ NoteTotal[n] \in Nat
  BY DueType
<1>2. /\ applied[n] = Spent(n) + Sum(f) /\ applied[n] <= NoteTotal[n]
      /\ noteStatus[n] = "cancelled" => applied[n] = 0
  BY <1>0 DEF NotesKept
<1>3. f[p] = Due(p, n) /\ g[p] = Due(p, n)'
  OBVIOUS
<1>4. \A q \in Requests : q # p => g[q] = f[q]
  BY OthersDraw
<1> HIDE DEF f, g
<1>5. IsFiniteSet(Requests)
  BY BookShape
<1>6. f[p] <= Sum(f)
  BY <1>1, <1>5, SumTerm
<1>7. Due(p, n) <= applied[n]
  BY <1>1, <1>2, <1>3, <1>6
<1>8. Even(p, n)
  BY <1>7, OwnEven
<1>9. /\ g[p] \in Nat /\ Spent(n)' \in Nat /\ applied'[n] \in Nat
      /\ applied'[n] + Spent(n) + f[p] = applied[n] + Spent(n)' + g[p]
      /\ \/ applied'[n] <= applied[n]
         \/ noteStatus[n] = "issued" /\ applied'[n] <= NoteTotal[n]
  BY <1>3, <1>8 DEF Even
<1>10. g \in [Requests -> Nat]
  <2>1. \A q \in Requests : g[q] \in Nat
    BY <1>1, <1>4, <1>9
  <2> QED BY <2>1 DEF g
<1>11. Sum(g) \in Nat /\ Sum(g) + f[p] = Sum(f) + g[p]
  BY <1>1, <1>4, <1>5, <1>10, SumChange, SumNat
<1>12. applied'[n] = Spent(n)' + Sum(g)
  <2>1. /\ Sum(f) \in Nat /\ Spent(n) \in Nat /\ f[p] \in Nat /\ g[p] \in Nat
        /\ Spent(n)' \in Nat /\ applied'[n] \in Nat /\ Sum(g) \in Nat
    BY <1>1, <1>9, <1>11
  <2>2. applied[n] = Spent(n) + Sum(f)
    BY <1>2
  <2>3. applied'[n] + Spent(n) + f[p] = applied[n] + Spent(n)' + g[p]
    BY <1>9
  <2>4. Sum(g) + f[p] = Sum(f) + g[p]
    BY <1>11
  <2> QED BY <2>1, <2>2, <2>3, <2>4
<1>13. applied'[n] <= NoteTotal[n]
  BY <1>1, <1>2, <1>9
<1>14. ASSUME noteStatus'[n] = "cancelled" PROVE applied'[n] = 0
  <2>1. CASE noteStatus[n] = "cancelled"
    BY <1>2, <1>9, <2>1
  <2>2. CASE noteStatus[n] # "cancelled"
    <3>1. noteStatus \in [Notes -> {"absent", "issued", "cancelled"}]
      BY DEF Shape, TypeOK, BookTypeOK
    <3>2. CloseNote(p) /\ applied[n] = 0
      BY <1>14, <2>2, <3>1, Frame DEF NoteWriter, Issue, Stranded, CloseNote
    <3>3. UNCHANGED applied
      BY <3>2 DEF CloseNote
    <3> QED BY <3>2, <3>3
  <2> QED BY <2>1, <2>2
<1> QED BY <1>12, <1>13, <1>14 DEF g


-----------------------------------------------------------------------------
(***************************************************************************)
(* The room an invoice is short of.                                        *)
(***************************************************************************)
\* A note is issued by the request that creates it and cancelled by one that
\* closes it, which may reopen it; it is not written twice.
LEMMA NoteStatusMoves ==
  ASSUME Shape, NEW p \in Requests, Acts(p), NoteJob(p), NEW n \in Notes
  PROVE  \/ noteStatus'[n] = noteStatus[n]
         \/ Issue(p) /\ n = job[p].note /\ noteStatus[n] = "absent" /\ noteStatus'[n] = "issued"
         \/ CloseNote(p) /\ n = job[p].note
            /\ noteStatus[n] = "issued" /\ noteStatus'[n] = "cancelled"
         \/ Stranded(p) /\ n = job[p].note
            /\ noteStatus[n] = "cancelled" /\ noteStatus'[n] = "issued"
<1>0. noteStatus \in [Notes -> {"absent", "issued", "cancelled"}]
  BY DEF Shape, TypeOK, BookTypeOK
<1>1. CASE Issue(p)
  <2>1. noteStatus[job[p].note] = "absent"
    BY <1>1 DEF Issue, NoteJob
  <2> QED BY <1>0, <1>1, <2>1 DEF Issue
<1>2. CASE CloseNote(p)
  BY <1>0, <1>2 DEF CloseNote
<1>3. CASE Stranded(p)
  <2>1. job[p].note \in Notes /\ noteStatus[job[p].note] = "cancelled"
    BY <1>3 DEF Stranded, NoteJob
  <2> QED BY <1>0, <1>3, <2>1 DEF Stranded
<1> QED BY <1>1, <1>2, <1>3, Frame DEF NoteWriter

\* A request that starts on a note starts on one that no request creates.
LEMMA JobMoves ==
  ASSUME Shape, NEW p \in Requests, Acts(p)
  PROVE  \/ job'[p] = job[p]
         \/ job'[p].kind \in {"receipt", "apply", "reverse", "cancel", "cancelNote"}
         \/ \A q \in Requests : job[q].kind = "note" => job[q].note # job'[p].note
<1>0. job \in [Requests -> Job]
  BY DEF Shape, TypeOK
<1> USE <1>0 DEF Start
<1>1. ASSUME NEW targets \in TargetLists, NEW x \in Amounts, StartReceipt(p, targets, x)
      PROVE  job'[p].kind = "receipt"
  BY <1>1 DEF StartReceipt
<1>2. ASSUME NEW i \in Invoices, NEW x \in Amounts, StartApply(p, i, x)
      PROVE  job'[p].kind = "apply"
  BY <1>2 DEF StartApply
<1>3. ASSUME NEW a \in RowIds, StartReverse(p, a) PROVE job'[p].kind = "reverse"
  BY <1>3 DEF StartReverse
<1>4. ASSUME NEW i \in Invoices, StartCancel(p, i) PROVE job'[p].kind = "cancel"
  BY <1>4 DEF StartCancel
<1>5. ASSUME NEW n \in Notes, StartNote(p, n)
      PROVE  \A q \in Requests : job[q].kind = "note" => job[q].note # job'[p].note
  BY <1>5 DEF StartNote
<1>6. ASSUME NEW n \in Notes, StartCancelNote(p, n) PROVE job'[p].kind = "cancelNote"
  BY <1>6 DEF StartCancelNote
<1> QED BY <1>1, <1>2, <1>3, <1>4, <1>5, <1>6, Frame DEF Starter

\* Only a note that is issued is closed, so no two requests have closed the same.
LEMMA ClosesAlone ==
  ASSUME Shape, \A r \in Requests : NoteJob(r), NEW p \in Requests, Acts(p),
         pc'[p] = "stranded", NEW q \in Requests, q # p, pc'[q] = "stranded"
  PROVE  job'[q].note # job'[p].note
<1>1. pc \in [Requests -> Labels] /\ Keeps(q)
  BY OthersKeep DEF Shape, TypeOK
<1>2. NoteActor(p)
  BY NoteMoves DEF OnNote
<1>3. CloseNote(p)
  BY <1>1, <1>2 DEF NoteActor, StartNote, StartCancelNote, Start, ClaimRoom, Issue,
     ReleaseRoom, CloseNote, Stranded, WriteFails, OnError, Goto
<1>4. noteStatus[job[p].note] = "issued" /\ job' = job
  BY <1>1, <1>3 DEF CloseNote, Goto, local
<1>5. noteStatus[job[q].note] = "cancelled"
  BY <1>1 DEF Keeps, NoteJob
<1> QED BY <1>4, <1>5

\* What a step on a note does to the request.
LEMMA OwnNoteJob ==
  ASSUME Shape, NEW p \in Requests, Acts(p), \A q \in Requests : NoteJob(q)
  PROVE  NoteJob(p)'
<1>0. /\ pc \in [Requests -> Labels] /\ job \in [Requests -> Job] /\ KindOf(p) /\ NoteJob(p)
      /\ noteStatus \in [Notes -> {"absent", "issued", "cancelled"}]
  BY DEF Shape, TypeOK, BookTypeOK
<1>1. \A q \in Requests \ {p} : job'[q] = job[q]
  BY OthersKeep DEF Shape, Keeps
<1>2. job'[p].kind = "note" => \A q \in Requests \ {p} :
        job'[q].kind = "note" => job'[q].note # job'[p].note
  BY <1>0, <1>1, JobMoves DEF NoteJob
<1> SUFFICES
      /\ job'[p].kind \in {"note", "cancelNote"} =>
           job'[p].note \in Notes /\ Target(p)' = NoteInvoice[job'[p].note]
      /\ pc'[p] \in {"claimRoom", "issue"} =>
           job'[p].kind = "note" /\ noteStatus'[job'[p].note] = "absent"
      /\ pc'[p] \in {"closeNote", "stranded"} => job'[p].kind = "cancelNote"
      /\ pc'[p] = "stranded" => noteStatus'[job'[p].note] = "cancelled"
      /\ pc'[p] = "releaseRoom" => job'[p].kind \in {"note", "cancelNote"}
  BY <1>2, ClosesAlone DEF NoteJob
<1>3. CASE UNCHANGED job
  <2> USE <1>0, <1>3 DEF Goto, NoteJob, Target
  <2>1. CASE ClaimRoom(p)
    BY <2>1 DEF ClaimRoom, noteVars
  <2>2. CASE Issue(p)
    BY <2>2 DEF Issue
  <2>3. CASE ReleaseRoom(p)
    BY <2>3 DEF ReleaseRoom
  <2>4. CASE CloseNote(p)
    BY <2>4 DEF CloseNote
  <2>5. CASE Stranded(p)
    BY <2>5 DEF Stranded
  <2>6. CASE WriteFails(p)
    BY <2>6 DEF WriteFails, OnError
  <2>7. CASE pc'[p] \notin OnNote
    BY <2>7 DEF OnNote
  <2>8. ~ \E n \in Notes : StartNote(p, n) \/ StartCancelNote(p, n)
    <3>1. ASSUME NEW n \in Notes, StartNote(p, n) \/ StartCancelNote(p, n) PROVE FALSE
      <4>1. pc[p] = "idle" /\ job'[p].kind # "none"
        BY <3>1 DEF StartNote, StartCancelNote, Start
      <4> QED BY <4>1 DEF Shape, Inputs
    <3> QED BY <3>1
  <2> HIDE DEF Goto, NoteJob, Target
  <2> QED BY <2>1, <2>2, <2>3, <2>4, <2>5, <2>6, <2>7, <2>8, NoteMoves DEF NoteActor
<1>4. CASE Starter(p)
  <2> USE <1>0 DEF Start, Goto, Target
  <2>1. ASSUME NEW targets \in TargetLists, NEW x \in Amounts, StartReceipt(p, targets, x)
        PROVE  job'[p].kind = "receipt" /\ pc'[p] \notin OnNote
    BY <2>1 DEF StartReceipt, OnNote
  <2>2. ASSUME NEW i \in Invoices, NEW x \in Amounts, StartApply(p, i, x)
        PROVE  job'[p].kind = "apply" /\ pc'[p] \notin OnNote
    BY <2>2 DEF StartApply, OnNote
  <2>3. ASSUME NEW a \in RowIds, StartReverse(p, a)
        PROVE  job'[p].kind = "reverse" /\ pc'[p] \notin OnNote
    BY <2>3 DEF StartReverse, OnNote
  <2>4. ASSUME NEW i \in Invoices, StartCancel(p, i)
        PROVE  job'[p].kind = "cancel" /\ pc'[p] \notin OnNote
    BY <2>4 DEF StartCancel, OnNote
  <2>5. ASSUME NEW n \in Notes, StartNote(p, n)
        PROVE  /\ job'[p].kind = "note" /\ job'[p].note = n /\ pc'[p] = "claimRoom"
               /\ Target(p)' = NoteInvoice[n] /\ noteStatus'[n] = "absent"
    BY <2>5 DEF StartNote, book
  <2>6. ASSUME NEW n \in Notes, StartCancelNote(p, n)
        PROVE  /\ job'[p].kind = "cancelNote" /\ job'[p].note = n /\ pc'[p] = "closeNote"
               /\ Target(p)' = NoteInvoice[n]
    BY <2>6 DEF StartCancelNote
  <2> HIDE DEF Start, Goto, Target
  <2> QED BY <1>4, <2>1, <2>2, <2>3, <2>4, <2>5, <2>6 DEF Starter, OnNote
<1> QED BY <1>3, <1>4, Frame

\* The requests that do not act keep their place on their note.
LEMMA OtherNoteJob ==
  ASSUME Shape, NEW p \in Requests, Acts(p), \A q \in Requests : NoteJob(q),
         NEW q \in Requests, q # p
  PROVE  NoteJob(q)'
<1>0. Keeps(q) /\ Target(q)' = Target(q) /\ NoteJob(q) /\ NoteJob(p)
  BY OthersKeep DEF Shape, Keeps, Target
<1>1. \A r \in Requests \ {p} : job'[r] = job[r]
  BY OthersKeep DEF Shape, Keeps
<1>2. job'[q].kind = "note" => \A r \in Requests \ {q} :
        job'[r].kind = "note" => job'[r].note # job'[q].note
  <2> SUFFICES ASSUME NEW r \in Requests, r # q, job[q].kind = "note", job'[r].kind = "note"
               PROVE  job'[r].note # job[q].note
    BY <1>0 DEF Keeps
  <2>1. CASE r # p
    BY <1>0, <1>1, <2>1 DEF NoteJob
  <2>2. CASE r = p
    BY <1>0, <2>2, JobMoves DEF NoteJob
  <2> QED BY <2>1, <2>2
<1>3. ASSUME pc[q] \in {"claimRoom", "issue"}
      PROVE  job[q].kind = "note" /\ noteStatus'[job[q].note] = "absent"
  <2>1. job[q].kind = "note" /\ noteStatus[job[q].note] = "absent" /\ job[q].note \in Notes
    BY <1>0, <1>3 DEF NoteJob
  <2>2. Issue(p) => job[p].kind = "note"
    BY <1>0 DEF Issue, NoteJob
  <2>3. job[p].kind = "note" => job[p].note # job[q].note
    BY <1>0, <2>1 DEF NoteJob
  <2> QED BY <1>0, <2>1, <2>2, <2>3, NoteStatusMoves
<1>4. pc[q] = "stranded" => noteStatus'[job[q].note] = "cancelled"
  <2> SUFFICES ASSUME pc[q] = "stranded" PROVE noteStatus'[job[q].note] = "cancelled"
    OBVIOUS
  <2>1. noteStatus[job[q].note] = "cancelled" /\ job[q].note \in Notes
    BY <1>0 DEF NoteJob
  <2>2. Stranded(p) => job[p].note # job[q].note
    BY <1>0 DEF Stranded, NoteJob
  <2> QED BY <1>0, <2>1, <2>2, NoteStatusMoves
<1>5. ASSUME pc'[q] = "stranded", NEW r \in Requests, r # q, pc'[r] = "stranded"
      PROVE  job'[r].note # job'[q].note
  <2>1. CASE r # p
    BY <1>0, <1>5, <2>1, OthersKeep DEF Shape, Keeps, NoteJob
  <2>2. CASE r = p
    BY <1>5, <2>2, ClosesAlone
  <2> QED BY <2>1, <2>2
<1> QED BY <1>0, <1>2, <1>3, <1>4, <1>5 DEF NoteJob, Keeps

\* A request that gave back the room of a note that it wrote stays one that did.
LEMMA GaveUpStays ==
  ASSUME Shape, NEW p \in Requests, Acts(p), \A q \in Requests : NoteJob(q),
         NEW q \in Requests, GaveUp(q)
  PROVE  GaveUp(q)'
<1>1. job[q].note \in Notes /\ NoteJob(p)
  BY DEF GaveUp, NoteJob
<1>2. noteStatus'[job[q].note] # "absent"
  BY <1>1, NoteStatusMoves DEF GaveUp
<1>3. CASE q # p
  BY <1>2, <1>3, OthersKeep DEF Shape, Keeps, GaveUp
<1>4. CASE q = p
  <2>1. pc[p] = "releaseRoom" /\ job[p].kind = "note"
    BY <1>4, LabelMoves DEF GaveUp, Over
  <2>2. ReleaseRoom(p)
    BY <2>1, NoteMoves DEF OnNote, NoteActor, StartNote, StartCancelNote, Start, ClaimRoom,
       Issue, CloseNote, Stranded, WriteFails
  <2>3. pc \in [Requests -> Labels]
    BY DEF Shape, TypeOK
  <2>4. pc'[p] = "failed" /\ job'[p] = job[p]
    BY <2>1, <2>2, <2>3, LabelMoves DEF ReleaseRoom, Goto
  <2> QED BY <1>2, <1>4, <2>1, <2>4 DEF GaveUp
<1> QED BY <1>3, <1>4

\* What a note takes of its invoice's room.
Takes(m) == IF noteStatus[m] = "issued" THEN NoteTotal[m] ELSE 0

\* A change of one note changes the room taken of its invoice by as much.
LEMMA RoomChange ==
  ASSUME NEW m \in Notes, \A n \in Notes : n # m => noteStatus'[n] = noteStatus[n], NEW i
  PROVE  /\ Sum(RoomOf(i)) \in Nat /\ Sum(RoomOf(i))' \in Nat
         /\ NoteInvoice[m] # i => Sum(RoomOf(i))' = Sum(RoomOf(i))
         /\ NoteInvoice[m] = i => Sum(RoomOf(i))' + Takes(m) = Sum(RoomOf(i)) + Takes(m)'
<1> DEFINE f == [n \in Notes |-> IF NoteInvoice[n] = i /\ noteStatus[n] = "issued"
                                 THEN NoteTotal[n] ELSE 0]
           g == [n \in Notes |-> IF NoteInvoice[n] = i /\ noteStatus'[n] = "issued"
                                 THEN NoteTotal[n] ELSE 0]
<1>1. f \in [Notes -> Nat] /\ g \in [Notes -> Nat] /\ IsFiniteSet(Notes) /\ NoteTotal[m] \in Nat
  BY BookShape
<1>2. RoomOf(i) = f /\ RoomOf(i)' = g
  BY Zenon DEF RoomOf, LiveNotes
<1>3. \A n \in Notes : n # m => g[n] = f[n]
  OBVIOUS
<1>4. f[m] = (IF NoteInvoice[m] = i THEN Takes(m) ELSE 0)
      /\ g[m] = (IF NoteInvoice[m] = i THEN Takes(m)' ELSE 0)
  BY DEF Takes
<1>5. Takes(m) \in Nat /\ Takes(m)' \in Nat
  BY <1>1 DEF Takes
<1> HIDE DEF f, g
<1>6. Sum(f) \in Nat /\ Sum(g) \in Nat /\ Sum(g) + f[m] = Sum(f) + g[m]
  BY <1>1, <1>3, SumNat, SumChange
<1>7. Sum(RoomOf(i)) = Sum(f) /\ Sum(RoomOf(i))' = Sum(g)
  BY <1>2
<1>8. CASE NoteInvoice[m] = i
  BY <1>4, <1>5, <1>6, <1>7, <1>8
<1>9. CASE NoteInvoice[m] # i
  BY <1>4, <1>5, <1>6, <1>7, <1>9
<1> QED BY <1>8, <1>9

\* Notes left alone take the same room.
LEMMA RoomSame ==
  ASSUME UNCHANGED noteStatus, NEW i
  PROVE  Sum(RoomOf(i))' = Sum(RoomOf(i))
<1>1. RoomOf(i)' = RoomOf(i)
  BY Zenon DEF RoomOf, LiveNotes
<1> QED BY <1>1

\* What is claimed, due and left of an invoice's room are amounts.
LEMMA RoomType ==
  ASSUME Shape, \A q \in Requests : NoteJob(q), NEW i \in Invoices
  PROVE  /\ [q \in Requests |-> RoomDue(q, i)] \in [Requests -> Nat]
         /\ Sum([q \in Requests |-> RoomDue(q, i)]) \in Nat
         /\ credited[i] \in Nat /\ Sum(RoomOf(i)) \in Nat
<1>1. ASSUME NEW q \in Requests PROVE RoomDue(q, i) \in Nat
  <2>1. pc[q] \in OnNote => NoteTotal[job[q].note] \in Nat
    BY BookShape DEF Shape, Inputs
  <2> QED BY <2>1 DEF RoomDue, OnNote
<1>2. [q \in Requests |-> RoomDue(q, i)] \in [Requests -> Nat] /\ IsFiniteSet(Requests)
  BY <1>1, BookShape
<1>3. credited[i] \in Nat
  BY DEF Shape, TypeOK, BookTypeOK
<1>4. RoomOf(i) \in [Notes -> Nat] /\ IsFiniteSet(Notes)
  BY BookShape DEF RoomOf
<1> QED BY <1>2, <1>3, <1>4, SumNat

\* A step of p moves as much of the room of i in its counter as in its notes and
\* in what p still owes it.
EvenRoom(p, i) ==
  /\ RoomDue(p, i)' \in Nat /\ Sum(RoomOf(i))' \in Nat /\ credited'[i] \in Nat
  /\ credited'[i] + Sum(RoomOf(i)) + RoomDue(p, i)
       = credited[i] + Sum(RoomOf(i))' + RoomDue(p, i)'

LEMMA EvenRoomWhenSame ==
  ASSUME Shape, \A q \in Requests : NoteJob(q), NEW p \in Requests, NEW i \in Invoices,
         credited'[i] = credited[i], UNCHANGED noteStatus, RoomDue(p, i)' = RoomDue(p, i)
  PROVE  EvenRoom(p, i)
<1>1. Sum(RoomOf(i))' = Sum(RoomOf(i))
  BY RoomSame
<1>2. RoomDue(p, i) \in Nat /\ credited[i] \in Nat /\ Sum(RoomOf(i)) \in Nat
  BY RoomType
<1> QED BY <1>1, <1>2 DEF EvenRoom

LEMMA EvenRoomStep ==
  ASSUME Shape, \A q \in Requests : NoteJob(q), NEW p \in Requests, Acts(p),
         NEW i \in Invoices, RoomDue(p, i) <= credited[i], ~GaveUp(p)'
  PROVE  EvenRoom(p, i)
<1>0. /\ pc \in [Requests -> Labels] /\ job \in [Requests -> Job] /\ NoteJob(p)
      /\ noteStatus \in [Notes -> {"absent", "issued", "cancelled"}]
      /\ credited \in [Invoices -> Nat]
  BY DEF Shape, TypeOK, BookTypeOK
<1>1. RoomDue(p, i) \in Nat /\ credited[i] \in Nat /\ Sum(RoomOf(i)) \in Nat
  BY RoomType
<1>2. CASE pc[p] \notin OnNote
  <2>1. RoomDue(p, i) = 0
    BY <1>2 DEF RoomDue, OnNote
  <2>2. UNCHANGED <<noteStatus, credited>>
    BY <1>2, Frame DEF NoteWriter, CreditedWriter, Issue, CloseNote, Stranded, ClaimRoom,
       ReleaseRoom, OnNote
  <2>3. RoomDue(p, i)' = 0
    <3>1. CASE pc'[p] \notin OnNote
      BY <3>1 DEF RoomDue, OnNote
    <3>2. ASSUME NEW n \in Notes, StartNote(p, n) \/ StartCancelNote(p, n)
          PROVE  pc'[p] \in {"claimRoom", "closeNote"}
      BY <1>0, <3>2 DEF StartNote, StartCancelNote, Start, Goto
    <3>3. WriteFails(p) => pc'[p] \notin OnNote
      BY <1>0, <1>2 DEF WriteFails, OnError, Goto, OnNote
    <3>4. pc'[p] \notin OnNote \/ pc'[p] \in {"claimRoom", "closeNote"}
      BY <1>2, <3>2, <3>3, NoteMoves
         DEF NoteActor, OnNote, Issue, CloseNote, Stranded, ClaimRoom, ReleaseRoom
    <3>5. CASE pc'[p] \in {"claimRoom", "closeNote"}
      BY <3>5 DEF RoomDue
    <3> QED BY <3>1, <3>4, <3>5
  <2> QED BY <2>1, <2>2, <2>3, EvenRoomWhenSame
<1>3. CASE pc[p] \in OnNote
  <2> SUFFICES ASSUME NEW m \in Notes, m = job[p].note, NEW k \in Invoices, k = Target(p)
               PROVE  EvenRoom(p, i)
    <3>1. job[p].note \in Notes /\ pc[p] # "idle"
      BY <1>3 DEF Shape, Inputs, OnNote
    <3> QED BY <3>1, TargetType
  <2>1. job'[p] = job[p]
    BY <1>3, LabelMoves DEF OnNote
  <2>2. m = job'[p].note /\ k = Target(p)'
    BY <2>1 DEF Target
  <2>3. NoteTotal[m] \in Nat
    BY BookShape
  <2>4. RoomDue(p, i) = IF pc[p] \in {"issue", "stranded", "releaseRoom"} /\ k = i
                        THEN NoteTotal[m] ELSE 0
    BY DEF RoomDue
  <2>5. RoomDue(p, i)' = IF pc'[p] \in {"issue", "stranded", "releaseRoom"} /\ k = i
                         THEN NoteTotal[m] ELSE 0
    BY <2>2 DEF RoomDue
  <2>6. CASE ClaimRoom(p)
    <3>1. pc[p] = "claimRoom" /\ UNCHANGED noteStatus
      BY <2>6 DEF ClaimRoom, noteVars
    <3>2. CASE pc'[p] = "failed" /\ UNCHANGED credited
      BY <2>4, <2>5, <3>1, <3>2, EvenRoomWhenSame
    <3>3. CASE pc'[p] = "issue" /\ ClaimCredit(k, NoteTotal[m])
      <4>1. credited'[i] = IF k = i THEN credited[i] + NoteTotal[m] ELSE credited[i]
        BY <1>0, <3>3 DEF ClaimCredit
      <4>2. Sum(RoomOf(i))' = Sum(RoomOf(i))
        BY <3>1, RoomSame
      <4> QED BY <1>1, <2>3, <2>4, <2>5, <3>1, <3>3, <4>1, <4>2 DEF EvenRoom
    <3> QED BY <1>0, <2>6, <3>2, <3>3 DEF ClaimRoom, Goto
  <2>7. CASE Issue(p)
    <3>1. pc[p] = "issue" /\ UNCHANGED credited /\ job[p].kind = "note" /\ k = NoteInvoice[m]
          /\ noteStatus[m] = "absent"
      BY <1>0, <2>7 DEF Issue, invoiceVars, NoteJob
    <3>2. noteStatus'[m] = "issued" /\ \A n \in Notes : n # m => noteStatus'[n] = noteStatus[n]
      BY <1>0, <2>7 DEF Issue
    <3>3. pc'[p] = "done"
      <4>1. pc'[p] \in {"done", "releaseRoom"}
        BY <1>0, <2>7 DEF Issue, Goto
      <4> QED BY <2>1, <3>1, <3>2, <4>1 DEF GaveUp
    <3>4. Takes(m) = 0 /\ Takes(m)' = NoteTotal[m]
      BY <3>1, <3>2 DEF Takes
    <3>5. /\ Sum(RoomOf(i))' \in Nat
          /\ k # i => Sum(RoomOf(i))' = Sum(RoomOf(i))
          /\ k = i => Sum(RoomOf(i))' + 0 = Sum(RoomOf(i)) + NoteTotal[m]
      BY <3>1, <3>2, <3>4, RoomChange
    <3> QED BY <1>1, <2>3, <2>4, <2>5, <3>1, <3>3, <3>5 DEF EvenRoom
  <2>8. CASE ReleaseRoom(p)
    <3>1. pc[p] = "releaseRoom" /\ UNCHANGED noteStatus /\ pc'[p] \in {"done", "failed"}
      BY <1>0, <2>8 DEF ReleaseRoom, noteVars, Goto
    <3>2. Sum(RoomOf(i))' = Sum(RoomOf(i))
      BY <3>1, RoomSame
    <3>3. ReleaseCredit(k, NoteTotal[m])
      BY <2>8 DEF ReleaseRoom
    <3>4. CASE k = i
      <4>1. credited[i] >= NoteTotal[m]
        BY <2>4, <3>1, <3>4
      <4>2. credited'[i] = credited[i] - NoteTotal[m]
        BY <1>0, <3>3, <3>4, <4>1 DEF ReleaseCredit
      <4> QED BY <1>1, <2>3, <2>4, <2>5, <3>1, <3>2, <3>4, <4>1, <4>2 DEF EvenRoom
    <3>5. CASE k # i
      <4>1. credited'[i] = credited[i]
        BY <1>0, <3>3, <3>5 DEF ReleaseCredit
      <4> QED BY <2>4, <2>5, <3>1, <3>5, <4>1, EvenRoomWhenSame
    <3> QED BY <3>4, <3>5
  <2>9. CASE CloseNote(p)
    <3>1. pc[p] = "closeNote" /\ UNCHANGED credited /\ k = NoteInvoice[m]
      BY <1>0, <2>9 DEF CloseNote, invoiceVars, NoteJob
    <3>2. CASE pc'[p] = "failed" /\ UNCHANGED noteStatus
      BY <2>4, <2>5, <3>1, <3>2, EvenRoomWhenSame
    <3>3. CASE /\ pc'[p] = "stranded" /\ noteStatus[m] = "issued"
               /\ noteStatus' = [noteStatus EXCEPT ![m] = "cancelled"]
      <4>1. noteStatus'[m] = "cancelled" /\ \A n \in Notes : n # m => noteStatus'[n] = noteStatus[n]
        BY <1>0, <3>3
      <4>2. Takes(m) = NoteTotal[m] /\ Takes(m)' = 0
        BY <3>3, <4>1 DEF Takes
      <4>3. /\ Sum(RoomOf(i))' \in Nat
            /\ k # i => Sum(RoomOf(i))' = Sum(RoomOf(i))
            /\ k = i => Sum(RoomOf(i))' + NoteTotal[m] = Sum(RoomOf(i)) + 0
        BY <3>1, <4>1, <4>2, RoomChange
      <4> QED BY <1>1, <2>3, <2>4, <2>5, <3>1, <3>3, <4>3 DEF EvenRoom
    <3> QED BY <1>0, <2>9, <3>2, <3>3 DEF CloseNote, Goto
  <2>10. CASE Stranded(p)
    <3>1. pc[p] = "stranded" /\ noteStatus[m] = "cancelled" /\ UNCHANGED credited
          /\ k = NoteInvoice[m]
      BY <1>0, <2>10 DEF Stranded, NoteJob, invoiceVars
    <3>2. CASE pc'[p] = "releaseRoom" /\ UNCHANGED noteStatus
      BY <2>4, <2>5, <3>1, <3>2, EvenRoomWhenSame
    <3>3. CASE pc'[p] = "failed" /\ noteStatus' = [noteStatus EXCEPT ![m] = "issued"]
      <4>1. noteStatus'[m] = "issued" /\ \A n \in Notes : n # m => noteStatus'[n] = noteStatus[n]
        BY <1>0, <3>3
      <4>2. Takes(m) = 0 /\ Takes(m)' = NoteTotal[m]
        BY <3>1, <4>1 DEF Takes
      <4>3. /\ Sum(RoomOf(i))' \in Nat
            /\ k # i => Sum(RoomOf(i))' = Sum(RoomOf(i))
            /\ k = i => Sum(RoomOf(i))' + 0 = Sum(RoomOf(i)) + NoteTotal[m]
        BY <3>1, <4>1, <4>2, RoomChange
      <4> QED BY <1>1, <2>3, <2>4, <2>5, <3>1, <3>3, <4>3 DEF EvenRoom
    <3> QED BY <1>0, <2>10, <3>2, <3>3 DEF Stranded, Goto
  <2>11. CASE WriteFails(p)
    <3>1. pc[p] = "issue" /\ pc'[p] = "releaseRoom" /\ UNCHANGED <<credited, noteStatus>>
      BY <1>0, <1>3, <2>11 DEF WriteFails, OnError, Goto, OnNote, book
    <3> QED BY <2>4, <2>5, <3>1, EvenRoomWhenSame
  <2>12. ~ \E n \in Notes : StartNote(p, n) \/ StartCancelNote(p, n)
    BY <1>3 DEF StartNote, StartCancelNote, Start, OnNote
  <2> QED BY <1>3, <2>6, <2>7, <2>8, <2>9, <2>10, <2>11, <2>12, NoteMoves DEF NoteActor
<1> QED BY <1>2, <1>3

\* Every step keeps the room an invoice is short of equal to that of its notes
\* and of the requests that have not settled theirs.
LEMMA RoomStep ==
  ASSUME Shape, RoomKept, \A q \in Requests : NoteJob(q),
         NEW p \in Requests, Acts(p)
  PROVE  RoomKept'
<1> SUFFICES ASSUME \A q \in Requests : ~GaveUp(q)', NEW i \in Invoices
             PROVE  credited'[i] = Sum(RoomOf(i))' + Sum([q \in Requests |-> RoomDue(q, i)'])
  BY DEF RoomKept
<1> DEFINE f == [q \in Requests |-> RoomDue(q, i)]
           g == [q \in Requests |-> RoomDue(q, i)']
<1>1. \A q \in Requests : ~GaveUp(q)
  BY GaveUpStays
<1>2. /\ f \in [Requests -> Nat] /\ Sum(f) \in Nat /\ f[p] \in Nat
      /\ credited[i] \in Nat /\ Sum(RoomOf(i)) \in Nat
  BY RoomType
<1>3. credited[i] = Sum(RoomOf(i)) + Sum(f)
  BY <1>1 DEF RoomKept
<1>4. f[p] = RoomDue(p, i) /\ g[p] = RoomDue(p, i)'
  OBVIOUS
<1>5. \A q \in Requests : q # p => g[q] = f[q]
  <2>1. ASSUME NEW q \in Requests, q # p PROVE RoomDue(q, i)' = RoomDue(q, i)
    BY <2>1, OthersKeep DEF Shape, Keeps, RoomDue, Target
  <2> QED BY <2>1
<1> HIDE DEF f, g
<1>6. IsFiniteSet(Requests)
  BY BookShape
<1>7. f[p] <= Sum(f)
  BY <1>2, <1>6, SumTerm
<1>8. RoomDue(p, i) <= credited[i]
  BY <1>2, <1>3, <1>4, <1>7
<1>9. EvenRoom(p, i)
  BY <1>8, EvenRoomStep
<1>10. /\ g[p] \in Nat /\ Sum(RoomOf(i))' \in Nat /\ credited'[i] \in Nat
       /\ credited'[i] + Sum(RoomOf(i)) + f[p] = credited[i] + Sum(RoomOf(i))' + g[p]
  BY <1>4, <1>9 DEF EvenRoom
<1>11. g \in [Requests -> Nat]
  <2>1. \A q \in Requests : g[q] \in Nat
    BY <1>2, <1>5, <1>10
  <2> QED BY <2>1 DEF g
<1>12. Sum(g) \in Nat /\ Sum(g) + f[p] = Sum(f) + g[p]
  BY <1>2, <1>5, <1>6, <1>11, SumChange, SumNat
<1>13. credited'[i] = Sum(RoomOf(i))' + Sum(g)
  BY <1>2, <1>3, <1>10, <1>12
<1> QED BY <1>13 DEF g

-----------------------------------------------------------------------------
(***************************************************************************)
(* The start.                                                              *)
(***************************************************************************)
\* Nothing is held at the start.
LEMMA HeldInit ==
  ASSUME Init, NEW i \in Invoices
  PROVE  Held(i) = 0
<1> DEFINE f == [p \in Requests |-> held[p][i]]
<1>1. f \in [Requests -> Nat] /\ \A p \in Requests : f[p] = 0
  BY DEF Init
<1> HIDE DEF f
<1>2. Sum(f) = 0
  BY <1>1, SumZero
<1> QED BY <1>2 DEF Held, f

\* Old rows were written with an amount, and none is reversed.
LEMMA FreshInit == Init => Fresh
<1> SUFFICES ASSUME Init PROVE Fresh
  OBVIOUS
<1>1. \A a \in RowIds :
        alloc[a] = IF a \in OldRows THEN LiveRow(OldAmount[a], OldStamped(a)) ELSE NoRow
  BY DEF Init, BookInit
<1>2. \A a \in OldRows : OldAmount[a] \in Nat \ {0} /\ Writer(a) \notin Requests
  BY BookShape
<1>3. \A a \in RowIds :
        /\ alloc[a].state # "absent" \/ alloc[a].stamped => alloc[a].amount > 0
        /\ alloc[a].state # "reversed"
        /\ Writer(a) \in Requests => alloc[a].amount = 0 /\ ~alloc[a].stamped
  <2> TAKE a \in RowIds
  <2>1. CASE a \in OldRows
    <3>1. alloc[a] = LiveRow(OldAmount[a], OldStamped(a))
      BY <1>1, <2>1
    <3>2. alloc[a].state = "live" /\ alloc[a].amount = OldAmount[a]
      <4>1. \A x, st : LiveRow(x, st).state = "live" /\ LiveRow(x, st).amount = x
        BY DEF LiveRow
      <4> QED BY <3>1, <4>1
    <3>3. OldAmount[a] > 0
      BY <1>2, <2>1
    <3> QED BY <1>2, <2>1, <3>2, <3>3
  <2>2. CASE a \notin OldRows
    BY <1>1, <2>2 DEF NoRow
  <2> QED BY <2>1, <2>2
<1>4. \A p \in Requests : pc[p] = "idle" /\ job[p].kind = "none" /\ claimed[p] = {}
  BY DEF Init, NoJob
<1> QED BY <1>3, <1>4 DEF Fresh, OnRow

\* No request has anything to account for at the start.
LEMMA HoldsInit == Init => Holds
BY DEF Init, Holds, HoldsOf, Reserves, ReceiptHolds, ApplyHolds, ReverseHolds, NoJob,
       Reversing, Crossing

\* Nothing is drawn, claimed or given up at the start but what the old rows spend
\* and the old notes take.
LEMMA NotesInit == Init => (\A p \in Requests : Draws(p) /\ NoteJob(p)) /\ NotesKept /\ RoomKept
<1> SUFFICES ASSUME Init
             PROVE  (\A p \in Requests : Draws(p) /\ NoteJob(p)) /\ NotesKept /\ RoomKept
  OBVIOUS
<1>1. \A p \in Requests : pc[p] = "idle" /\ job[p].kind = "none"
  BY DEF Init, NoJob
<1>2. \A p \in Requests : Draws(p) /\ NoteJob(p)
  BY <1>1 DEF Draws, NoteJob, Drawing, Crossing
<1>3. ASSUME NEW n \in Notes
      PROVE  /\ applied[n] = Spent(n) + Sum([p \in Requests |-> Due(p, n)])
             /\ applied[n] <= NoteTotal[n] /\ noteStatus[n] # "cancelled"
  <2> DEFINE f == [p \in Requests |-> Due(p, n)]
  <2>1. f \in [Requests -> Nat] /\ \A p \in Requests : f[p] = 0
    BY <1>1 DEF Due, Drawing
  <2> HIDE DEF f
  <2>2. Sum(f) = 0
    BY <2>1, SumZero
  <2>3. applied[n] = Sum(OldFrom(n)) /\ noteStatus[n] # "cancelled"
    BY DEF Init, BookInit
  <2> QED BY <2>2, <2>3, SpentInit, BookSound DEF Init, Sources, f
<1>4. ASSUME NEW i \in Invoices
      PROVE  credited[i] = Sum(RoomOf(i)) + Sum([p \in Requests |-> RoomDue(p, i)])
  <2> DEFINE f == [p \in Requests |-> RoomDue(p, i)]
             h == [n \in OldNotes |-> IF NoteInvoice[n] = i THEN NoteTotal[n] ELSE 0]
             r == RoomOf(i)
  <2>1. f \in [Requests -> Nat] /\ \A p \in Requests : f[p] = 0
    BY <1>1 DEF RoomDue
  <2>2. r \in [Notes -> Nat] /\ h \in [OldNotes -> Nat] /\ OldNotes \in SUBSET Notes
    BY BookShape DEF RoomOf
  <2>3. (\A n \in OldNotes : h[n] = r[n]) /\ \A n \in Notes \ OldNotes : r[n] = 0
    BY BookShape DEF Init, BookInit, RoomOf, LiveNotes
  <2>4. credited[i] = Sum(h)
    BY DEF Init, BookInit, OldRoom
  <2> HIDE DEF f, h, r
  <2>5. Sum(f) = 0
    BY <2>1, SumZero
  <2>6. Sum(r) = Sum(h)
    BY <2>2, <2>3, SumWithin
  <2>7. Sum(r) \in Nat
    BY <2>2, BookShape, SumNat
  <2> QED BY <2>4, <2>5, <2>6, <2>7 DEF f, r
<1> QED BY <1>2, <1>3, <1>4 DEF NotesKept, RoomKept

\* The counter of every invoice starts at what its rows settle, when no invoice
\* predates the counter.
LEMMA CapacityInit == Init /\ Legacy = {} => Capacity
<1> SUFFICES ASSUME Init, Legacy = {} PROVE Capacity
  OBVIOUS
<1>1. \A p \in Requests, i \in Invoices : seen[p][i] <= Total[i]
  BY BookShape DEF Init, Missing
<1>2. \A p \in Requests : pc[p] # "raise"
  BY DEF Init
<1>3. ASSUME NEW i \in Invoices
      PROVE  /\ settled[i] # Missing /\ Live(i) + Held(i) <= Total[i]
             /\ Live(i) + Held(i) <= settled[i] /\ settled[i] <= Total[i]
  <2>1. settled[i] = Live(i)
    BY LiveInit DEF Init, BookInit
  <2> QED BY <2>1, LiveInit, HeldInit, BookShape DEF Init, Missing
<1> QED BY <1>1, <1>2, <1>3 DEF Capacity

-----------------------------------------------------------------------------
(***************************************************************************)
(* The theorems.                                                           *)
(***************************************************************************)
\* A step that leaves every variable alone changes nothing the invariant says.
LEMMA StutterKeeps ==
  ASSUME NotesInv, UNCHANGED vars
  PROVE  Fresh' /\ Holds' /\ (Capacity => Capacity')
<1>1. /\ UNCHANGED <<status, settled, alloc, pc, job, seen, share, plan, claimed, drawn,
                     stored, row, held>>
      /\ Spoiled' = Spoiled
  BY DEF vars, book, local, history, Spoiled, InvoiceOf
<1>2. Fresh'
  BY <1>1 DEF NotesInv, Fresh, Open, Closes, Target, Over
<1>3. Holds'
  <2>1. \A p \in Requests : Target(p)' = Target(p)
    BY <1>1 DEF Target
  <2>2. \A i \in Invoices : Open(i)' = Open(i)
    BY <1>1 DEF Open, Closes, Target
  <2>3. \A p \in Requests, i \in Invoices :
          Pending(p, i)' = Pending(p, i) /\ OwnKept(p, i)' = OwnKept(p, i)
    BY <1>1, Zenon DEF Pending, OwnKept, Own
  <2> SUFFICES ASSUME NEW p \in Requests PROVE HoldsOf(p)'
    BY DEF Holds
  <2>4. HoldsOf(p) /\ Shape
    BY DEF NotesInv, Holds
  <2>5. Reserves(p)' /\ ReceiptHolds(p)' /\ ReverseHolds(p)'
    BY <1>1, <2>4 DEF HoldsOf, Reserves, ReceiptHolds, ReverseHolds
  <2>6. ApplyHolds(p)'
    <3>1. CASE job[p].kind # "apply"
      BY <1>1, <3>1 DEF ApplyHolds
    <3>2. CASE job[p].kind = "apply"
      <4>1. pc[p] # "idle"
        BY <2>4, <3>2 DEF Shape, Inputs
      <4> SUFFICES ASSUME NEW i \in Invoices, i = Target(p) PROVE ApplyHolds(p)'
        BY <2>4, <4>1, TargetType
      <4>2. i = Target(p)'
        BY <2>1
      <4> QED BY <1>1, <2>2, <2>3, <2>4, <4>2 DEF HoldsOf, ApplyHolds, Own
    <3> QED BY <3>1, <3>2
  <2> QED BY <2>5, <2>6 DEF HoldsOf
<1>4. \A i \in Invoices : Live(i)' = Live(i) /\ Held(i)' = Held(i)
  BY <1>1, SameTotals
<1>5. \A i \in Invoices : Open(i)' = Open(i)
  BY <1>1 DEF Open, Closes, Target
<1>6. \A p \in Requests, i \in Invoices : IsNext(p, i, ToClaim(p))' = IsNext(p, i, ToClaim(p))
  BY <1>1 DEF IsNext, ToClaim
<1>7. Capacity => Capacity'
  BY <1>1, <1>4, <1>5, <1>6 DEF Capacity
<1> QED BY <1>2, <1>3, <1>7

\* Nor anything it says of credit notes.
LEMMA StutterNotes ==
  ASSUME NotesInv, UNCHANGED vars
  PROVE  (\A p \in Requests : Draws(p)' /\ NoteJob(p)') /\ NotesKept' /\ RoomKept'
<1>1. /\ UNCHANGED <<status, credited, noteStatus, applied, alloc, pc, job, plan, drawn,
                     rows, row>>
      /\ Refilled' = Refilled
  BY DEF vars, book, local, history, Refilled, SourceOf
<1>2. \A p \in Requests : Target(p)' = Target(p)
  BY <1>1 DEF Target
<1>3. \A p \in Requests : NoteJob(p)'
  BY <1>1, <1>2 DEF NotesInv, NoteJob
<1>4. ASSUME NEW p \in Requests PROVE Draws(p)'
  <2>1. Draws(p)
    BY DEF NotesInv
  <2>2. \A s : DrawnRow(p, s)' = DrawnRow(p, s)
    BY <1>1, <1>2 DEF DrawnRow, Own
  <2> QED BY <1>1, <2>1, <2>2 DEF Draws, SourceOf
<1>5. NotesKept'
  <2>1. \A p \in Requests, n \in Notes : Due(p, n)' = Due(p, n)
    <3>1. \A p \in Requests : \A s : DrawnRow(p, s)' = DrawnRow(p, s)
      BY <1>1, <1>2 DEF DrawnRow, Own
    <3> QED BY <1>1, <3>1 DEF Due, SourceOf
  <2>2. \A n \in Notes : [p \in Requests |-> Due(p, n)]' = [p \in Requests |-> Due(p, n)]
    BY <2>1
  <2>3. \A n \in Notes : Spent(n)' = Spent(n)
    BY <1>1, SpentSame
  <2> QED BY <1>1, <2>2, <2>3 DEF NotesInv, NotesKept
<1>6. RoomKept'
  <2>1. \A p \in Requests : GaveUp(p)' <=> GaveUp(p)
    BY <1>1 DEF GaveUp
  <2>2. \A p \in Requests, i \in Invoices : RoomDue(p, i)' = RoomDue(p, i)
    BY <1>1, <1>2 DEF RoomDue
  <2>3. \A i \in Invoices : [p \in Requests |-> RoomDue(p, i)]' = [p \in Requests |-> RoomDue(p, i)]
    BY <2>2
  <2>4. \A i \in Invoices : Sum(RoomOf(i))' = Sum(RoomOf(i))
    BY <1>1, RoomSame
  <2> QED BY <1>1, <2>1, <2>3, <2>4 DEF NotesInv, RoomKept
<1> QED BY <1>3, <1>4, <1>5, <1>6

-----------------------------------------------------------------------------
(***************************************************************************)
(* Receipts: what the updates of SettlementBook do to the money of one.    *)
(***************************************************************************)
\* A step leaves receipt r alone, or moves money inside it.
Within(r) == pay'[r] = pay[r] \/ (Made(r) /\ SameMoney(pay[r], pay'[r]))

\* Money moved from one field to another of a receipt stays in it.
LEMMA MovedMoney ==
  ASSUME NEW m \in Receipt, NEW n, NEW a \in Nat, NEW u \in Nat, NEW f \in Nat,
         n \in Receipt, n.inv = m.inv, n.amount = m.amount,
         n.allocated = a, n.unapplied = u, n.refundable = f, f >= m.refundable,
         a + u + f = m.allocated + m.unapplied + m.refundable
  PROVE  SameMoney(m, n)
BY DEF SameMoney

\* claimCreditFromPayment: from unapplied to allocated.
LEMMA DrawWithin ==
  ASSUME pay \in [Receipts -> Receipt], NEW s \in Sources, NEW x \in Nat,
         CanDraw(s, x), Draw(s, x), NEW r \in Receipts
  PROVE  Within(r)
<1>1. CASE r = s
  <2>1. /\ pay' = [pay EXCEPT ![s].unapplied = @ - x, ![s].allocated = @ + x]
        /\ Made(s) /\ pay[s].unapplied >= x
    BY <1>1, BookShape DEF Draw, CanDraw
  <2>2. pay'[r] = [pay[r] EXCEPT !.unapplied = @ - x, !.allocated = @ + x]
    BY <1>1, <2>1
  <2>3. /\ pay[r] \in Receipt
        /\ pay[r].unapplied \in Nat /\ pay[r].allocated \in Nat /\ pay[r].refundable \in Nat
    BY ReceiptTyped
  <2>4. PICK u : u = pay[r].unapplied - x
    OBVIOUS
  <2>5. PICK a : a = pay[r].allocated + x
    OBVIOUS
  <2>6. u \in Nat /\ a \in Nat /\ a + u + pay[r].refundable
                     = pay[r].allocated + pay[r].unapplied + pay[r].refundable
    BY <1>1, <2>1, <2>3, <2>4, <2>5
  <2>7. pay'[r] = [pay[r] EXCEPT !.unapplied = u, !.allocated = a]
    BY <2>2, <2>4, <2>5
  <2>8. /\ pay'[r] \in Receipt /\ pay'[r].inv = pay[r].inv /\ pay'[r].amount = pay[r].amount
        /\ pay'[r].allocated = a /\ pay'[r].unapplied = u
        /\ pay'[r].refundable = pay[r].refundable
    BY <2>3, <2>6, <2>7 DEF Receipt
  <2>9. SameMoney(pay[r], pay'[r])
    BY <2>3, <2>6, <2>8, MovedMoney
  <2> QED BY <1>1, <2>1, <2>9 DEF Within
<1>2. CASE r # s
  BY <1>2 DEF Draw, Within
<1> QED BY <1>1, <1>2

\* releaseCreditToPayment: from allocated to unapplied.
LEMMA GiveBackWithin ==
  ASSUME pay \in [Receipts -> Receipt], NEW s \in Sources, NEW x \in Nat,
         CanGiveBack(s, x), GiveBack(s, x), NEW r \in Receipts
  PROVE  Within(r)
<1>1. CASE r = s
  <2>1. /\ pay' = [pay EXCEPT ![s].allocated = @ - x, ![s].unapplied = @ + x]
        /\ Made(s) /\ pay[s].allocated >= x
    BY <1>1, BookShape DEF GiveBack, CanGiveBack
  <2>2. pay'[r] = [pay[r] EXCEPT !.allocated = @ - x, !.unapplied = @ + x]
    BY <1>1, <2>1
  <2>3. /\ pay[r] \in Receipt
        /\ pay[r].unapplied \in Nat /\ pay[r].allocated \in Nat /\ pay[r].refundable \in Nat
    BY ReceiptTyped
  <2>4. PICK u : u = pay[r].unapplied + x
    OBVIOUS
  <2>5. PICK a : a = pay[r].allocated - x
    OBVIOUS
  <2>6. u \in Nat /\ a \in Nat /\ a + u + pay[r].refundable
                     = pay[r].allocated + pay[r].unapplied + pay[r].refundable
    BY <1>1, <2>1, <2>3, <2>4, <2>5
  <2>7. pay'[r] = [pay[r] EXCEPT !.allocated = a, !.unapplied = u]
    BY <2>2, <2>4, <2>5
  <2>8. /\ pay'[r] \in Receipt /\ pay'[r].inv = pay[r].inv /\ pay'[r].amount = pay[r].amount
        /\ pay'[r].allocated = a /\ pay'[r].unapplied = u
        /\ pay'[r].refundable = pay[r].refundable
    BY <2>3, <2>6, <2>7 DEF Receipt
  <2>9. SameMoney(pay[r], pay'[r])
    BY <2>3, <2>6, <2>8, MovedMoney
  <2> QED BY <1>1, <2>1, <2>9 DEF Within
<1>2. CASE r # s
  BY <1>2 DEF GiveBack, Within
<1> QED BY <1>1, <1>2

\* From allocated to refundable, when the cash of another invoice's receipt is owed back.
LEMMA RefundWithin ==
  ASSUME pay \in [Receipts -> Receipt], NEW s, NEW x \in Nat,
         CanRefund(s, x), Refund(s, x), NEW r \in Receipts
  PROVE  Within(r)
<1>1. CASE r = s
  <2>1. /\ pay' = [pay EXCEPT ![s].allocated = @ - x, ![s].refundable = @ + x,
                              ![s].refund = "pending"]
        /\ Made(s) /\ pay[s].allocated >= x
    BY DEF Refund, CanRefund
  <2>2. pay'[r] = [pay[r] EXCEPT !.allocated = @ - x, !.refundable = @ + x, !.refund = "pending"]
    BY <1>1, <2>1
  <2>3. /\ pay[r] \in Receipt
        /\ pay[r].unapplied \in Nat /\ pay[r].allocated \in Nat /\ pay[r].refundable \in Nat
    BY ReceiptTyped
  <2>4. PICK f : f = pay[r].refundable + x
    OBVIOUS
  <2>5. PICK a : a = pay[r].allocated - x
    OBVIOUS
  <2>6. /\ f \in Nat /\ a \in Nat /\ f >= pay[r].refundable
        /\ a + pay[r].unapplied + f = pay[r].allocated + pay[r].unapplied + pay[r].refundable
    BY <1>1, <2>1, <2>3, <2>4, <2>5
  <2>7. pay'[r] = [pay[r] EXCEPT !.allocated = a, !.refundable = f, !.refund = "pending"]
    BY <2>2, <2>4, <2>5
  <2>8. /\ pay'[r] \in Receipt /\ pay'[r].inv = pay[r].inv /\ pay'[r].amount = pay[r].amount
        /\ pay'[r].allocated = a /\ pay'[r].unapplied = pay[r].unapplied
        /\ pay'[r].refundable = f
    BY <2>3, <2>6, <2>7 DEF Receipt
  <2>9. SameMoney(pay[r], pay'[r])
    BY <2>3, <2>6, <2>8, MovedMoney
  <2> QED BY <1>1, <2>1, <2>9 DEF Within
<1>2. CASE r # s
  BY <1>2 DEF Refund, Within
<1> QED BY <1>1, <1>2

\* From unapplied to refundable, when a cancellation withdraws a receipt's pool.
LEMMA WithdrawWithin ==
  ASSUME pay \in [Receipts -> Receipt], NEW s \in Receipts, NEW x, Made(s),
         x = pay[s].unapplied, Withdraw(s, x), NEW r \in Receipts
  PROVE  Within(r)
<1>1. CASE r = s
  <2>1. pay'[r] = [pay[r] EXCEPT !.unapplied = @ - x, !.refundable = @ + x]
    BY <1>1 DEF Withdraw
  <2>2. /\ pay[r] \in Receipt
        /\ pay[r].unapplied \in Nat /\ pay[r].allocated \in Nat /\ pay[r].refundable \in Nat
    BY ReceiptTyped
  <2>3. PICK f, u : f = pay[r].refundable + x /\ u = pay[r].unapplied - x
    OBVIOUS
  <2>4. /\ f \in Nat /\ f >= pay[r].refundable /\ u = 0 /\ u \in Nat
        /\ pay[r].allocated + u + f = pay[r].allocated + pay[r].unapplied + pay[r].refundable
    BY <1>1, <2>2, <2>3
  <2>5. pay'[r] = [pay[r] EXCEPT !.unapplied = u, !.refundable = f]
    BY <1>1, <2>1, <2>2, <2>3
  <2>6. /\ pay'[r] \in Receipt /\ pay'[r].inv = pay[r].inv /\ pay'[r].amount = pay[r].amount
        /\ pay'[r].allocated = pay[r].allocated /\ pay'[r].unapplied = u
        /\ pay'[r].refundable = f
    BY <2>2, <2>4, <2>5 DEF Receipt
  <2>7. SameMoney(pay[r], pay'[r])
    BY <2>2, <2>4, <2>6, MovedMoney
  <2> QED BY <1>1, <2>7 DEF Within
<1>2. CASE r # s
  BY <1>2 DEF Withdraw, Within
<1> QED BY <1>1, <1>2

\* Flagging the receipts of an invoice moves no money.
LEMMA FlagWithin ==
  ASSUME pay \in [Receipts -> Receipt], NEW i \in Invoices, pay' = FlagPending(pay, i),
         NEW r \in Receipts
  PROVE  Within(r)
<1>1. CASE pay[r].inv = i
  <2>1. /\ pay[r] \in Receipt
        /\ pay[r].unapplied \in Nat /\ pay[r].allocated \in Nat /\ pay[r].refundable \in Nat
    BY ReceiptTyped
  <2>2. pay'[r] = [pay[r] EXCEPT !.refund = "pending"]
    BY <1>1 DEF FlagPending
  <2>3. /\ pay'[r] \in Receipt /\ pay'[r].inv = pay[r].inv /\ pay'[r].amount = pay[r].amount
        /\ pay'[r].allocated = pay[r].allocated /\ pay'[r].unapplied = pay[r].unapplied
        /\ pay'[r].refundable = pay[r].refundable
    BY <2>1, <2>2 DEF Receipt
  <2>4. SameMoney(pay[r], pay'[r])
    BY <2>1, <2>3, MovedMoney
  <2> QED BY <1>1, <2>4, BookShape DEF Within, Made
<1>2. CASE pay[r].inv # i
  BY <1>2 DEF FlagPending, Within
<1> QED BY <1>1, <1>2

\* Every step moves money inside receipts, except the one that writes a receipt.
LEMMA PayMoves ==
  ASSUME Shape, Purses, NEW p \in Requests, Acts(p), NEW r \in Receipts
  PROVE  Within(r) \/ (r = p /\ Receive(p))
<1>0. /\ pay \in [Receipts -> Receipt] /\ alloc \in [RowIds -> Row]
      /\ plan \in [Requests -> [Sources -> Nat]] /\ holding \in [Requests -> SUBSET Receipts]
      /\ drawn \in [Requests -> SUBSET Sources] /\ Inputs(p)
  BY DEF Shape, TypeOK, BookTypeOK
<1>1. ASSUME UNCHANGED pay PROVE Within(r)
  BY <1>1 DEF Within
<1>2. ASSUME NEW s \in Sources, DrawCredit(p, s) PROVE Within(r)
  <2>1. UNCHANGED pay \/ (CanDraw(s, plan[p][s]) /\ Draw(s, plan[p][s]))
    BY <1>2 DEF DrawCredit
  <2>2. plan[p][s] \in Nat
    BY <1>0
  <2> QED BY <1>0, <1>1, <2>1, <2>2, DrawWithin
<1>3. ASSUME NEW s \in Sources, GiveBackDrawn(p, s) PROVE Within(r)
  <2>1. UNCHANGED pay \/ (CanGiveBack(s, plan[p][s]) /\ GiveBack(s, plan[p][s]))
    BY <1>3 DEF GiveBackDrawn
  <2>2. plan[p][s] \in Nat
    BY <1>0
  <2> QED BY <1>0, <1>1, <2>1, <2>2, GiveBackWithin
<1>4. ASSUME GiveSource(p) PROVE Within(r)
  <2>1. PICK s, x : s = SourceOf(row[p]) /\ x = alloc[row[p]].amount
    OBVIOUS
  <2>2. UNCHANGED pay \/ (CanGiveBack(s, x) /\ GiveBack(s, x))
    BY <1>4, <2>1 DEF GiveSource
  <2>3. row[p] \in RowIds
    BY <1>0, <1>4 DEF GiveSource, Inputs, OnRow
  <2>4. s \in Sources /\ x \in Nat
    BY <1>0, <2>1, <2>3, RowIdParts, RowFields
  <2> QED BY <1>0, <1>1, <2>2, <2>4, GiveBackWithin
<1>5. ASSUME RefundCross(p) PROVE Within(r)
  <2>1. PICK s, x : s = SourceOf(row[p]) /\ x = alloc[row[p]].amount
    OBVIOUS
  <2>2. UNCHANGED pay \/ (CanRefund(s, x) /\ Refund(s, x))
    BY <1>5, <2>1 DEF RefundCross
  <2>3. row[p] \in RowIds
    BY <1>0, <1>5 DEF RefundCross, Inputs, OnRow
  <2>4. x \in Nat
    BY <1>0, <2>1, <2>3, RowFields
  <2> QED BY <1>0, <1>1, <2>2, <2>4, RefundWithin
<1>6. ASSUME TakePool(p) PROVE Within(r)
  <2>1. PICK s, x : s = Holder(p) /\ x = stored[p]
    OBVIOUS
  <2>2. UNCHANGED pay \/ (pay[s].unapplied = x /\ Withdraw(s, x))
    BY <1>6, <2>1 DEF TakePool
  <2>3. s \in holding[p]
    BY <1>0, <1>6, <2>1 DEF TakePool, Inputs, Holder
  <2>4. s \in Receipts /\ Made(s)
    BY <1>0, <2>3 DEF Purses
  <2> QED BY <1>0, <1>1, <2>2, <2>4, WithdrawWithin
<1>7. ASSUME MarkPending(p) PROVE Within(r)
  <2>1. PICK i : i = Target(p)
    OBVIOUS
  <2>2. pay' = FlagPending(pay, i) /\ i \in Invoices
    BY <1>7, <2>1, TargetType DEF MarkPending
  <2> QED BY <1>0, <2>2, FlagWithin
<1>8. ASSUME Receive(p) PROVE Within(r) \/ r = p
  BY <1>0, <1>8 DEF Receive, Within
<1> QED BY <1>1, <1>2, <1>3, <1>4, <1>5, <1>6, <1>7, <1>8, Frame, Zenon DEF PayWriter

\* A receipt is written whole, by a request that had none.
LEMMA ReceiveMoves ==
  ASSUME Shape, Shape', Purses, NEW p \in Requests, Receive(p)
  PROVE  /\ pay[p] = NoReceipt /\ Whole(pay'[p]) /\ pay'[p].refundable = 0
         /\ pay'[p].inv # "none" /\ pc'[p] \notin Unwritten
<1>1. pc[p] = "receive" /\ p \in Receipts
  BY DEF Receive, Receipts
<1>2. pay[p] = NoReceipt
  BY <1>1 DEF Purses, Unwritten
<1>3. PICK a : a = job[p].amount - Unapplied(p, seen[p])
  OBVIOUS
<1>4. pay'[p] = NewReceipt(LastTarget(p), job[p].amount, a)
  BY <1>1, <1>3 DEF Receive, Shape, TypeOK, BookTypeOK
<1>5. pay'[p] \in Receipt
  BY <1>1 DEF Shape, TypeOK, BookTypeOK
<1>6. a \in Nat /\ job[p].amount \in Nat
  BY <1>4, <1>5, JobFields, ReceiptTyped DEF NewReceipt, Shape
<1>7. Whole(pay'[p]) /\ pay'[p].refundable = 0 /\ pay'[p].inv = LastTarget(p)
  BY <1>4, <1>6 DEF NewReceipt, Whole
<1>8. LastTarget(p) # "none"
  BY <1>1, TargetType, BookShape
<1>9. pc'[p] \notin Unwritten
  BY DEF Receive, Goto, Shape, TypeOK, Unwritten, Claiming
<1> QED BY <1>2, <1>7, <1>8, <1>9

\* Every step keeps the money of every receipt in one place.
LEMMA PursesStep ==
  ASSUME Shape, Shape', Purses, NEW p \in Requests, Acts(p)
  PROVE  Purses' /\ \A r \in Receipts : MoneyMoves(pay[r], pay'[r])
<1>0. TypeOK /\ Requests \subseteq Receipts /\ holding \in [Requests -> SUBSET Receipts]
  BY DEF Shape, TypeOK, Receipts
<1>1. ASSUME NEW r \in Receipts
      PROVE  /\ MoneyMoves(pay[r], pay'[r]) /\ Whole(pay'[r])
             /\ Made(r) => pay'[r].inv # "none"
             /\ pay[r] = NoReceipt => pay'[r] = NoReceipt \/ (r = p /\ pc'[p] \notin Unwritten)
  <2>1. Whole(pay[r]) /\ NoReceipt.inv = "none"
    BY DEF Purses, NoReceipt, NewReceipt
  <2>2. CASE pay'[r] = pay[r]
    BY <2>1, <2>2 DEF MoneyMoves, Made
  <2>3. CASE Made(r) /\ SameMoney(pay[r], pay'[r])
    <3>1. MoneyMoves(pay[r], pay'[r]) /\ Whole(pay'[r])
      BY <2>1, <2>3, SameMoneyMoves DEF Made
    <3>2. pay'[r].inv = pay[r].inv /\ pay[r].inv # "none"
      BY <2>3 DEF SameMoney, Made
    <3> QED BY <2>1, <3>1, <3>2
  <2>4. CASE r = p /\ Receive(p)
    BY <2>4, ReceiveMoves DEF MoneyMoves
  <2> QED BY <2>2, <2>3, <2>4, PayMoves DEF Within
<1>2. ASSUME NEW q \in Requests, pc'[q] \in Unwritten PROVE pay'[q] = NoReceipt
  <2>1. pc[q] \in Unwritten
    BY <1>0, <1>2, LabelMoves, OthersKeep DEF Keeps
  <2>2. pay[q] = NoReceipt
    BY <2>1 DEF Purses
  <2> QED BY <1>0, <1>1, <1>2, <2>2
<1>3. ASSUME NEW q \in Requests, NEW r \in holding'[q] PROVE pay'[r].inv # "none"
  <2>1. CASE r \in holding[q]
    <3>1. r \in Receipts /\ Made(r)
      BY <1>0, <2>1 DEF Purses
    <3> QED BY <1>1, <3>1
  <2>2. CASE r \notin holding[q]
    <3>1. q = p /\ HoldingWriter(p)
      BY <1>0, <1>3, <2>2, Frame, OthersKeep DEF Keeps
    <3>2. EndPass(p) /\ r \in HoldingReceipts(Target(p)) /\ UNCHANGED pay
      <4>1. CASE EndPass(p)
        BY <1>0, <1>3, <2>2, <3>1, <4>1 DEF EndPass, book
      <4>2. CASE ReadPool(p)
        BY <1>0, <1>3, <2>2, <3>1, <4>2 DEF ReadPool
      <4>3. CASE TakePool(p)
        BY <1>0, <1>3, <2>2, <3>1, <4>3 DEF TakePool
      <4> QED BY <3>1, <4>1, <4>2, <4>3 DEF HoldingWriter
    <3> QED BY <3>2 DEF HoldingReceipts, Made
  <2> QED BY <2>1, <2>2
<1>4. (\A r \in Receipts : Whole(pay[r]))'
  BY <1>1 DEF Whole
<1>5. Purses'
  BY <1>2, <1>3, <1>4 DEF Purses, Made
<1> QED BY <1>1, <1>5

\* At the start no request has written anything.
LEMMA PursesInit == Init => Purses
<1> SUFFICES ASSUME Init PROVE Purses
  OBVIOUS
<1>1. \A r \in Receipts : Whole(pay[r])
  BY WholeInit DEF Init
<1>2. \A p \in Requests : pay[p] = NoReceipt
  BY BookShape DEF Init, BookInit, Receipts
<1>3. \A p \in Requests : holding[p] = {}
  BY DEF Init
<1> QED BY <1>1, <1>2, <1>3 DEF Purses

-----------------------------------------------------------------------------
\* What the invariant says besides the capacity of an invoice is inductive on
\* its own: it needs no counter, so it holds on books older than the counter too.
LEMMA NotesStepAll == NotesInv /\ [Next]_vars => NotesInv'
<1> SUFFICES ASSUME NotesInv, [Next]_vars PROVE NotesInv'
  OBVIOUS
<1>1. Shape' /\ Ownership'
  BY ShapeStep, OwnershipKept DEF NotesInv
<1>2. CASE Next
  <2>1. PICK p \in Requests : Acts(p)
    BY <1>2 DEF Next, Acts
  <2>2. Fresh' /\ Holds'
    BY <2>1, FreshStep, HoldsStep DEF NotesInv
  <2>3. \A q \in Requests : Draws(q)'
    BY <2>1, OthersDraw, OwnDraws DEF NotesInv
  <2>4. \A q \in Requests : NoteJob(q)'
    BY <2>1, OtherNoteJob, OwnNoteJob DEF NotesInv
  <2>5. NotesKept'
    BY <2>1, NotesStep DEF NotesInv
  <2>6. RoomKept'
    BY <2>1, RoomStep DEF NotesInv
  <2> QED BY <1>1, <2>2, <2>3, <2>4, <2>5, <2>6 DEF NotesInv
<1>3. CASE UNCHANGED vars
  BY <1>1, <1>3, StutterKeeps, StutterNotes DEF NotesInv
<1> QED BY <1>2, <1>3

\* IInv is inductive.
LEMMA InvariantStep == IInv /\ [Next]_vars => IInv'
<1> SUFFICES ASSUME IInv, [Next]_vars PROVE IInv'
  OBVIOUS
<1>1. NotesInv'
  BY NotesStepAll DEF IInv
<1>2. CASE Next
  <2>1. PICK p \in Requests : Acts(p)
    BY <1>2 DEF Next, Acts
  <2>2. Shape /\ Shape' /\ Purses
    BY <1>1 DEF IInv, NotesInv
  <2>3. Purses'
    BY <2>1, <2>2, PursesStep
  <2>4. Capacity'
    BY <2>1, CapacityStep DEF IInv, NotesInv
  <2> QED BY <1>1, <2>3, <2>4 DEF IInv
<1>3. CASE UNCHANGED vars
  <2>1. Purses'
    BY <1>3 DEF IInv, Purses, Whole, Made, vars, book, local, history
  <2>2. Capacity'
    BY <1>3, StutterKeeps DEF IInv
  <2> QED BY <1>1, <2>1, <2>2 DEF IInv
<1> QED BY <1>2, <1>3

\* Whatever the age of the book, the rows, the reservations, and what credit notes
\* gave up keep the relation NotesInv.
THEOREM NotesInvariantAlways == Spec => []NotesInv
<1>1. Init => NotesInv
  BY ShapeInit, OwnershipInit, FreshInit, HoldsInit, NotesInit DEF NotesInv
<1> QED BY <1>1, NotesStepAll, PTL DEF Spec

\* Without transactions and whatever the interleaving, crash or failed write, the
\* capacity counter, the reservations and the rows keep the relation IInv, on a
\* book none of whose invoices predates the counter.
THEOREM InvariantAlways ==
  ASSUME Legacy = {}
  PROVE  Spec => []IInv
<1>1. Init => IInv
  BY ShapeInit, OwnershipInit, FreshInit, HoldsInit, NotesInit, PursesInit, CapacityInit
     DEF IInv, NotesInv
<1> QED BY <1>1, InvariantStep, PTL DEF Spec

\* An invoice is never settled beyond its total ("This is what makes
\* over-settlement impossible without a transaction", claimSettlementOnInvoice).
THEOREM NoOverSettlementAlways ==
  ASSUME Legacy = {}
  PROVE  Spec => []NoOverSettlement
<1>1. IInv => NoOverSettlement
  <2> SUFFICES ASSUME IInv, NEW i \in Invoices, i \notin Spoiled PROVE Live(i) <= Total[i]
    BY DEF NoOverSettlement
  <2>1. Live(i) \in Nat /\ Held(i) \in Nat /\ Total[i] \in Nat
    BY LiveType, HeldType, BookShape
       DEF IInv, NotesInv, Shape, TypeOK, BookTypeOK, Holds, HoldsOf
  <2> QED BY <2>1 DEF IInv, Capacity
<1> QED BY <1>1, InvariantAlways, PTL

\* While an invoice can be settled its counter covers every live row and every
\* reservation whose row is still to come, compensations included.
THEOREM CapacityCoveredAlways ==
  ASSUME Legacy = {}
  PROVE  Spec => []CapacityCovered
<1>1. IInv => CapacityCovered
  BY DEF IInv, Capacity, CapacityCovered, Open
<1> QED BY <1>1, InvariantAlways, PTL

\* A cancelled note settles nothing, however its cancellation raced with the
\* applications that drew from it (closeCreditNoteForCancellation and
\* claimCreditFromNote decide on the same counter).
THEOREM CancelledNoteUnspentAlways == Spec => []CancelledNoteUnspent
<1>1. NotesInv => CancelledNoteUnspent
  <2> SUFFICES ASSUME NotesInv, NEW n \in Notes, n \notin Refilled, noteStatus[n] = "cancelled"
               PROVE  Spent(n) = 0
    BY DEF CancelledNoteUnspent
  <2>1. Spent(n) \in Nat /\ Sum([p \in Requests |-> Due(p, n)]) \in Nat
    BY DueType DEF NotesInv
  <2>2. applied[n] = Spent(n) + Sum([p \in Requests |-> Due(p, n)]) /\ applied[n] = 0
    BY DEF NotesInv, NotesKept
  <2> QED BY <2>1, <2>2
<1> QED BY <1>1, NotesInvariantAlways, PTL

\* No credit is spent that its note did not give up, no note gives up more than its
\* total, and once every request has ended a note is short of exactly what its live
\* rows settle: every draw that failed, was undone or reversed came back.
THEOREM NotesExactAlways == Spec => []NotesExact
<1>1. NotesInv => NotesExact
  <2> SUFFICES ASSUME NotesInv, NEW n \in Notes, n \notin Refilled
               PROVE  /\ Spent(n) <= applied[n] /\ applied[n] <= NoteTotal[n]
                      /\ Quiet => Spent(n) = applied[n]
    BY DEF NotesExact
  <2> DEFINE f == [p \in Requests |-> Due(p, n)]
  <2>1. f \in [Requests -> Nat] /\ Spent(n) \in Nat /\ Sum(f) \in Nat
    BY DueType DEF NotesInv
  <2>2. applied[n] = Spent(n) + Sum(f) /\ applied[n] <= NoteTotal[n]
    BY DEF NotesInv, NotesKept
  <2>3. Quiet => \A p \in Requests : f[p] = 0
    BY DEF Quiet, Over, Due, Drawing
  <2> HIDE DEF f
  <2>4. Quiet => Sum(f) = 0
    BY <2>1, <2>3, SumZero
  <2> QED BY <2>1, <2>2, <2>4
<1> QED BY <1>1, NotesInvariantAlways, PTL

\* Once every request has ended, the credit room an invoice is short of is that of
\* its issued notes, unless a request failed after it wrote its note.
THEOREM RoomExactAlways == Spec => []RoomExact
<1>1. NotesInv => RoomExact
  <2> SUFFICES ASSUME NotesInv, Quiet, \A p \in Requests : ~HalfIssued(p), NEW i \in Invoices
               PROVE  credited[i] = Sum([n \in LiveNotes(i) |-> NoteTotal[n]])
    BY DEF RoomExact
  <2> DEFINE f == [p \in Requests |-> RoomDue(p, i)]
             r == RoomOf(i)
             g == [n \in LiveNotes(i) |-> NoteTotal[n]]
  <2>1. \A p \in Requests : ~GaveUp(p)
    BY DEF Quiet, Over, HalfIssued, GaveUp
  <2>2. f \in [Requests -> Nat] /\ \A p \in Requests : f[p] = 0
    BY DEF Quiet, Over, RoomDue
  <2>3. credited[i] = Sum(r) + Sum(f)
    BY <2>1 DEF NotesInv, RoomKept
  <2>4. r \in [Notes -> Nat] /\ g \in [LiveNotes(i) -> Nat] /\ LiveNotes(i) \in SUBSET Notes
    BY BookShape DEF RoomOf, LiveNotes
  <2>5. (\A n \in LiveNotes(i) : g[n] = r[n]) /\ \A n \in Notes \ LiveNotes(i) : r[n] = 0
    BY DEF RoomOf, LiveNotes
  <2> HIDE DEF f, r, g
  <2>6. Sum(f) = 0
    BY <2>2, SumZero
  <2>7. Sum(r) = Sum(g)
    BY <2>4, <2>5, SumWithin
  <2>8. Sum(r) \in Nat
    BY <2>4, BookShape, SumNat
  <2> QED BY <2>3, <2>6, <2>7, <2>8 DEF g
<1> QED BY <1>1, NotesInvariantAlways, PTL

\* A behaviour of the uncoordinated requests, seen through what is settled or reserved of
\* each invoice and what each receipt holds, is a behaviour of SettlementPromise: nothing is
\* taken of an invoice that is not issued or beyond its total, and no step of an allocation,
\* a compensation or a cancellation loses a rupee of a receipt or counts one twice.
THEOREM PromiseKeptAlways ==
  ASSUME Legacy = {}
  PROVE  Spec => PromiseKept
<1>1. Init => Promise!Init
  <2> SUFFICES ASSUME Init PROVE Promise!Init
    OBVIOUS
  <2>1. [i \in Invoices |-> status[i] = "issued"] = [i \in Invoices |-> TRUE]
    BY DEF Init, BookInit
  <2>2. ASSUME NEW i \in Invoices
        PROVE  Live(i) + Held(i) \in Nat /\ Live(i) + Held(i) <= Total[i]
    <3>1. Live(i) \in Nat /\ Live(i) <= Total[i]
      BY LiveInit DEF Init
    <3>2. [q \in Requests |-> held[q][i]] \in [Requests -> Nat]
          /\ \A q \in Requests : [r \in Requests |-> held[r][i]][q] = 0
      BY DEF Init
    <3>3. Held(i) = 0
      BY <3>2, BookShape, SumZero DEF Held
    <3>4. Total[i] \in Nat
      BY BookShape
    <3> QED BY <3>1, <3>3, <3>4
  <2>3. \A r \in Receipts : Whole(pay[r])
    BY WholeInit DEF Init
  <2>4. Spoiled = {}
    BY DEF Init, Spoiled
  <2> QED BY <2>1, <2>2, <2>3, <2>4 DEF Promise!Init, Promise!Whole, Whole
<1>2. IInv /\ [Next]_vars => [Promise!Next]_Promise!vars
  <2> SUFFICES ASSUME IInv, [Next]_vars PROVE [Promise!Next]_Promise!vars
    OBVIOUS
  <2>1. CASE Next
    <3>1. PICK p \in Requests : Acts(p)
      BY <2>1 DEF Next, Acts
    <3>6. Spoiled \subseteq Spoiled'
      BY <3>1, SpoiledStays DEF IInv, NotesInv
    <3>2. \A i \in Invoices \ Spoiled' : Covered(i)
      BY <3>1, <3>6, CoveredStep DEF IInv, NotesInv
    <3>3. \A r \in Receipts : MoneyMoves(pay[r], pay'[r])
      <4>1. Shape /\ Shape' /\ Purses
        BY ShapeStep DEF IInv, NotesInv
      <4> QED BY <3>1, <4>1, PursesStep
    <3>4. ASSUME NEW i \in Invoices \ Spoiled' PROVE Promise!Take(i) \/ Promise!Give(i)
      BY <3>2, <3>4 DEF Covered, Taken, Promise!Take, Promise!Give
    <3>5. ASSUME NEW r \in Receipts
          PROVE  pay'[r] = pay[r] \/ Promise!Receive(r) \/ Promise!Move(r)
      BY <3>3, <3>5 DEF MoneyMoves, Whole, Promise!Receive, Promise!Move, Promise!Whole
    <3> QED BY <3>4, <3>5, <3>6 DEF Promise!Next
  <2>2. CASE UNCHANGED vars
    <3>1. UNCHANGED <<status, alloc, pay, held>> /\ Spoiled' = Spoiled
      BY <2>2 DEF vars, book, local, history, Spoiled, InvoiceOf
    <3>2. \A i \in Invoices : Live(i)' = Live(i) /\ Held(i)' = Held(i)
      BY <3>1, SameTotals
    <3> QED BY <3>1, <3>2 DEF Promise!vars
  <2> QED BY <2>1, <2>2
<1> QED BY <1>1, <1>2, InvariantAlways, PTL DEF Spec, PromiseKept, Promise!Spec

=============================================================================
