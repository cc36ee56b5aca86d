--------------------------- MODULE MCContractTests ---------------------------
(* Instance for TLC: contract_tests.cfg gives the constants their values. *)
EXTENDS ContractTests
=============================================================================
