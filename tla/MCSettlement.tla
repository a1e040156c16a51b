----------------------------- MODULE MCSettlement -----------------------------
\* Settlement, and the invariant of its proof, on the book of MCBook.
EXTENDS SettlementInv, MCBook
=============================================================================
