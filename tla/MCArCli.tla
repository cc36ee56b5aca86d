------------------------------- MODULE MCArCli -------------------------------
(* Constants for model checking ArCli. *)
EXTENDS ArCli

Key == <<1, 2>>
=============================================================================
