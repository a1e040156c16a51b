---------------------------- MODULE MCSettlementTx ----------------------------
\* SettlementTx, with its ledger or without, on the book of MCBook.
EXTENDS Ledger, MCBook
=============================================================================
