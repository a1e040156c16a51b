SPECIFICATION LedgerSpec
CONSTANTS
  i1 = i1
  i2 = i2
  i3 = i3
  n1 = n1
  n2 = n2
  n3 = n3
  r0 = r0
  r1 = r1
  p1 = p1
  p2 = p2
  apply = apply
  Invoices = {i1, i2, i3}
  Notes = {n1, n3}
  Requests = {p1, p2}
  OldReceipts = {r0, r1}
  OldNotes = {n1}
  Legacy = {}
  OldRows <- MCOldRows
  OldAmount <- MCOldAmount
  OldPay <- MCOldPay
  Total <- MCTotal
  NoteTotal <- MCNoteTotal
  NoteInvoice <- MCNoteInvoice
  Age <- MCAge
  TargetLists <- MCTargetLists
  Amounts = {1, 2}
CHECK_DEADLOCK FALSE
PROPERTY CancelWithdrawsCredit
