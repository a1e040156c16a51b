------------------------------- MODULE MCBook -------------------------------
(***************************************************************************)
(* A small book for Settlement and SettlementTx.  Receipt r0 was recorded  *)
(* for the list <<i1, i2>>, so it is booked against i2; it settles one of  *)
(* each and parks one as credit.  Receipt r1 is an overpayment of i2 in    *)
(* full.  Notes n1 and n2, raised against i3, are issued: n1 is applied in *)
(* full, to i1 and to i2, n2 is untouched; n3 may be raised against i1.    *)
(* Every open invoice has one left to settle, so any two settlements of it *)
(* compete.                                                                *)
(***************************************************************************)
EXTENDS SettlementBook, TLC

CONSTANTS i1, i2, i3, n1, n2, n3, r0, r1, apply, p1, p2

MCTotal == (i1 :> 3) @@ (i2 :> 3) @@ (i3 :> 3)
MCNoteTotal == [n \in Notes |-> IF n = n1 THEN 2 ELSE 1]
MCNoteInvoice == [n \in Notes |-> IF n = n3 THEN i1 ELSE i3]
MCOldRows == {<<r0, i1, r0>>, <<r0, i2, r0>>, <<apply, i1, n1>>, <<apply, i2, n1>>}
MCOldAmount == [a \in MCOldRows |-> 1]
MCOldPay == [r \in OldReceipts |-> IF r = r0 THEN NewReceipt(i2, 3, 2)
                                             ELSE NewReceipt(i2, 1, 0)]
MCAge == [s \in Sources |-> CASE s = r1 -> 1 [] s = n2 -> 2 [] s = r0 -> 3 [] s = n1 -> 4
                              [] s = n3 -> 5 [] s = p1 -> 6 [] s = p2 -> 7 [] OTHER -> 8]
MCTargetLists == {<<i1>>, <<i2>>, <<i1, i2>>}
MCOneTarget == {<<i1>>}
=============================================================================
