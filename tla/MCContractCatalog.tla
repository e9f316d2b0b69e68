-------------------------- MODULE MCContractCatalog --------------------------
EXTENDS ContractCatalog, TLC
=============================================================================
