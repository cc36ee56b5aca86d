----------------------------- MODULE RpcMonitor -----------------------------
(***************************************************************************)
(* The relayer's opinion on its RPC node (crates/shielder-relayer:         *)
(* monitor/rpc_monitor.rs), which /health and /metrics ask for.            *)
(*                                                                         *)
(* Callers share one record behind a lock that is given back before every  *)
(* await.  The caller that finds the record too old moves the time of the  *)
(* last check forward and asks the node; the others take the record as it  *)
(* is.  A caller whose connection is closed is dropped in the middle.      *)
(***************************************************************************)
EXTENDS Integers, FiniteSets

CONSTANTS
    Callers,        \* requests to /health and /metrics under way
    CacheValidity,  \* rpc_health_cache_validity
    Timeout,        \* timeout_duration of healthy
    MaxDelay,       \* how long a check may outlast its timeout, counted from its start
    MaxClock        \* bound on the clock

\* Validity and timeout are ten seconds both, unless the validity is configured.
ASSUME MonitorAssumption ==
    CacheValidity \in Nat /\ Timeout \in Nat /\ MaxDelay \in Nat /\ MaxClock \in Nat

VARIABLES
    clock,
    node,               \* "up", "down" (refuses calls) or "silent" (leaves them open)
    is_healthy,         \* the record, and when the node was found to be so
    last_check_started,
    caller,             \* caller -> where it stands, and when it came
    abandoned           \* the last check was dropped before it ended

monitorVars == <<clock, node, is_healthy, last_check_started, caller, abandoned>>

NoCaller == [pc |-> "idle"]
Checking(c) == caller[c].pc = "checking"

-----------------------------------------------------------------------------
\* Mutant: every call moves the time.
TimeOfCheckAlways == clock

\* Mutant: a caller that begins a check does not move the time.
TimeOfCheckKept == last_check_started

requires_update == clock - last_check_started > CacheValidity

\* The time is moved before the check, under the same lock as the comparison.
TimeOfCheck == IF requires_update THEN clock ELSE last_check_started

\* RpcMonitor::is_healthy up to its first await or to the lock of health.
IsHealthy(c) ==
    /\ caller[c].pc = "idle"
    /\ last_check_started' = TimeOfCheck
    /\ caller' = [caller EXCEPT ![c] = [pc |-> IF requires_update THEN "checking" ELSE "reading",
                                        at |-> clock]]
    /\ abandoned' = (abandoned /\ ~requires_update)
    /\ UNCHANGED <<clock, node, is_healthy>>

\* update_health has the answer.
UpdateHealth(c, healthy) ==
    /\ is_healthy' = [ok |-> healthy, asOf |-> clock]
    /\ caller' = [caller EXCEPT ![c].pc = "reading"]
    /\ UNCHANGED <<clock, node, last_check_started, abandoned>>

\* healthy_no_timeout: the node answers or refuses.
HealthyNoTimeout(c) ==
    /\ Checking(c)
    /\ node # "silent"
    /\ UpdateHealth(c, node = "up")

\* healthy: the timeout is over.
CheckTimesOut(c) ==
    /\ Checking(c)
    /\ clock - caller[c].at >= Timeout
    /\ UpdateHealth(c, FALSE)

\* health: the answer, under the lock once more.
Health(c) ==
    /\ caller[c].pc = "reading"
    /\ caller' = [caller EXCEPT ![c] = NoCaller]
    /\ UNCHANGED <<clock, node, is_healthy, last_check_started, abandoned>>

\* The client closes the connection: the handler ends at its await.
ClientLeaves(c) ==
    /\ Checking(c)
    /\ caller' = [caller EXCEPT ![c] = NoCaller]
    /\ abandoned' = TRUE
    /\ UNCHANGED <<clock, node, is_healthy, last_check_started>>

NodeBecomes(state) ==
    /\ node # state
    /\ node' = state
    /\ UNCHANGED <<clock, is_healthy, last_check_started, caller, abandoned>>

\* The timer of a check is started after the time was moved, when the task gets to
\* it, and fires when the runtime gets to it: later than the timeout by MaxDelay at
\* most, counted from the time that was moved.
MonitorTick ==
    /\ clock < MaxClock
    /\ \A c \in Callers : Checking(c) => clock - caller[c].at < Timeout + MaxDelay
    /\ clock' = clock + 1
    /\ UNCHANGED <<node, is_healthy, last_check_started, caller, abandoned>>

-----------------------------------------------------------------------------
\* RpcMonitor::new has just made a check.
MonitorInit ==
    /\ clock = 0
    /\ node \in {"up", "down", "silent"}
    /\ is_healthy = [ok |-> node = "up", asOf |-> 0]
    /\ last_check_started = 0
    /\ caller = [c \in Callers |-> NoCaller]
    /\ abandoned = FALSE

MonitorNext ==
    \/ \E c \in Callers :
          \/ IsHealthy(c)
          \/ HealthyNoTimeout(c)
          \/ CheckTimesOut(c)
          \/ Health(c)
          \/ ClientLeaves(c)
    \/ \E state \in {"up", "down", "silent"} : NodeBecomes(state)
    \/ MonitorTick

-----------------------------------------------------------------------------
(* Properties. *)

\* "Below we update the time to avoid concurrent updates by multiple threads": however
\* many callers come while the node does not answer, those that ask it began more than
\* the validity apart, and none has been asking for longer than its timer lets it.  That
\* is one caller if timeout and delay are within the validity, and two if the timeout
\* is the validity and the timer is late.
FewChecksAtOnce ==
    Cardinality({c \in Callers : Checking(c)}) <= (Timeout + MaxDelay) \div (CacheValidity + 1) + 1

\* What a caller is told was the state of the node no longer than the validity
\* before the caller came, unless a newer check has begun and not ended: it is
\* still under way, or its caller has left and the next may begin only after
\* another validity.
StaleOnlyDuringCheck ==
    [][\A c \in Callers :
          caller[c].pc = "reading" /\ caller'[c].pc = "idle"
          => \/ caller[c].at - is_healthy.asOf <= CacheValidity
             \/ \E other \in Callers : Checking(other)
             \/ abandoned]_monitorVars

=============================================================================
