-------------------------- MODULE MCRelayerServices --------------------------
(* Quotes: one token with a fetched price that changes, one with a static   *)
(* price.  Health: three callers and a clock that lets three checks follow. *)
EXTENDS RelayerServices, TLC

CONSTANTS r1, r2, native, erc20, c1, c2, c3
ServiceSymmetry == Permutations(Requests) \cup Permutations(Callers)
=============================================================================
