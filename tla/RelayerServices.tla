-------------------------- MODULE RelayerServices --------------------------
(***************************************************************************)
(* The endpoints of the relayer that answer from a cache: quotes and the   *)
(* health of the node (AppState of crates/shielder-relayer/src/main.rs).   *)
(* They have no state in common, so that a behaviour with both kinds of    *)
(* traffic is one of each side by side: the traffic is chosen at the start *)
(* and the other part rests.                                               *)
(***************************************************************************)
EXTENDS QuoteCache, RpcMonitor

VARIABLE traffic    \* the endpoints that are asked

serviceVars == <<vars, monitorVars, traffic>>

ServicesInit ==
    /\ Init
    /\ MonitorInit
    /\ traffic \in {"quotes", "health"}
    /\ traffic = "quotes" => node = "up"

Quotes == traffic = "quotes" /\ Next /\ UNCHANGED <<monitorVars, traffic>>
HealthChecks == traffic = "health" /\ MonitorNext /\ UNCHANGED <<vars, traffic>>

ServicesNext == Quotes \/ HealthChecks

ServicesSpec == ServicesInit /\ [][ServicesNext]_serviceVars

=============================================================================
