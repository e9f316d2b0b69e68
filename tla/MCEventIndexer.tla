--------------------------- MODULE MCEventIndexer ---------------------------
EXTENDS EventIndexer, TLC

TwoContracts == {"ka", "kb"}
OneContract == {"ka"}
Ledgers == 1 .. MaxLedger

\* Every ledger has one transaction, and it touches every contract.
EveryLedger == [contract : Contracts, ledger : Ledgers, tx : Ledgers]
OnePerLedger == {e \in EveryLedger : e.tx = e.ledger}
\* The same, but the ledgers of kb are sparse: its pages are never full.
SparseForOne == {e \in OnePerLedger : e.contract = "kb" => e.ledger % 2 = 1}
MalformedEvents == {e \in OnePerLedger : e.contract = "ka" /\ e.ledger = 2}
NoEvents == {}
=============================================================================
