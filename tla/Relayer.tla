------------------------------- MODULE Relayer -------------------------------
(***************************************************************************)
(* The relayer's queue of withdrawals, its workers and its recharging      *)
(* worker (crates/shielder-relayer: relay/mod.rs, relay/taskmaster.rs,     *)
(* relay/monitoring.rs, recharge.rs).  The quote a request brings is       *)
(* checked in module QuoteCache; here it is taken as good.                 *)
(*                                                                         *)
(* Workers share one queue and one counter of successes; each has an       *)
(* address of its own, pays gas from it, and tells the recharging worker   *)
(* after every relay.  Calls to the node may fail at any time, and a call  *)
(* that fails may have had its effect.                                     *)
(***************************************************************************)
EXTENDS Integers, Sequences, FiniteSets

CONSTANTS
    MaxRequests,        \* bound on the relay requests, numbered as they come
    Workers,            \* relay workers, one per signing key
    DryRunning,         \* "Always" or "Optimistic"
    TASK_QUEUE_SIZE,    \* 1024 in the code
    OPTIMISTIC_DRY_RUN_THRESHOLD,   \* 32 in the code
    CounterModulus,     \* 2^32: the counter of successes is a u32
    RechargeThreshold,
    RechargeAmount,
    GasCost,            \* what a relay costs a worker
    MaxPocketMoney      \* max_pocket_money

ASSUME RelayerAssumption ==
    /\ DryRunning \in {"Always", "Optimistic"}
    /\ TASK_QUEUE_SIZE \in Nat \ {0}
    /\ CounterModulus \in Nat \ {0}
    /\ OPTIMISTIC_DRY_RUN_THRESHOLD \in 0..(CounterModulus - 1)
    /\ RechargeThreshold \in Nat /\ RechargeAmount \in Nat /\ GasCost \in Nat
    /\ MaxPocketMoney \in Nat /\ MaxRequests \in Nat

Requests == 1..MaxRequests

VARIABLES
    request,    \* request -> where its handler stands, or how it was answered
    queue,      \* the bounded channel of tasks
    worker,     \* worker -> [pc, task]
    counter,    \* success_counter
    reports,    \* the bounded channel to the recharging worker
    recharger,  \* [pc, worker]
    funds,      \* worker -> balance of its address
    pending,    \* worker -> its relays that are sent and not yet mined
    gifts,      \* worker -> recharges that are sent and not yet mined
    unwatched,  \* worker -> those of them that nobody watches any more
    submitted,  \* request -> how often it was sent to the chain
    streak      \* relays noticed as successful since the last failure, up to the threshold

vars == <<request, queue, worker, counter, reports, recharger, funds, pending,
          gifts, unwatched, submitted, streak>>

Outcomes == {"ok", "dry_run_failed", "relay_failed"}
NoTask == 0
Ready == [pc |-> "recv", task |-> NoTask]

-----------------------------------------------------------------------------
(* The handler of /relay. *)

\* What the checks before the quote look at in a request.
Query == [version : {"ours", "other"}, token : {"native", "erc20"},
          pocketMoney : 0..(MaxPocketMoney + 1)]

check_expected_version(query) == query.version = "ours"

check_pocket_money(query) ==
    /\ query.token = "native" => query.pocketMoney = 0
    /\ query.pocketMoney <= MaxPocketMoney

\* _relay up to register_new_task, which waits while the channel is full; a
\* request that fails a check is answered at once and leaves nothing behind.
Arrive(r, query) ==
    /\ request[r] = "idle"
    /\ \A earlier \in 1..(r - 1) : request[earlier] # "idle"
    /\ check_expected_version(query) /\ check_pocket_money(query)
    /\ request' = [request EXCEPT ![r] = "sending"]
    /\ UNCHANGED <<queue, worker, counter, reports, recharger, funds, pending, gifts, unwatched,
                   submitted, streak>>

RegisterNewTask(r) ==
    /\ request[r] = "sending"
    /\ Len(queue) < TASK_QUEUE_SIZE
    /\ queue' = Append(queue, r)
    /\ request' = [request EXCEPT ![r] = "waiting"]
    /\ UNCHANGED <<worker, counter, reports, recharger, funds, pending, gifts, unwatched,
                   submitted, streak>>

\* The client goes away: the handler is dropped, a task in the queue is not.
Disconnect(r) ==
    /\ request[r] \in {"sending", "waiting"}
    /\ request' = [request EXCEPT ![r] = "gone"]
    /\ UNCHANGED <<queue, worker, counter, reports, recharger, funds, pending, gifts, unwatched,
                   submitted, streak>>

-----------------------------------------------------------------------------
(* relay_worker *)

\* should_dry_run_now
ShouldDryRunNow ==
    DryRunning = "Always" \/ counter < OPTIMISTIC_DRY_RUN_THRESHOLD

Receive(w) ==
    /\ worker[w].pc = "recv"
    /\ queue # <<>>
    /\ worker' = [worker EXCEPT ![w] = [pc |-> IF ShouldDryRunNow THEN "dry_run" ELSE "submit",
                                        task |-> Head(queue)]]
    /\ queue' = Tail(queue)
    /\ UNCHANGED <<request, counter, reports, recharger, funds, pending, gifts, unwatched,
                   submitted, streak>>

\* task.report.send; nobody may be waiting for it.
Answer(w, outcome) ==
    LET r == worker[w].task IN
    request' = IF request[r] = "waiting" THEN [request EXCEPT ![r] = outcome] ELSE request

\* Mutant: the worker waits to be recharged before it answers.
DryRunFailedWaits(w) ==
    /\ worker' = [worker EXCEPT ![w].pc = "wait_for_funds"]
    /\ UNCHANGED request

\* Mutant: no continue after the answer.
DryRunFailedFallsThrough(w) ==
    /\ Answer(w, "dry_run_failed")
    /\ worker' = [worker EXCEPT ![w].pc = "submit"]

\* The worker goes on with the next task, and does not report for a recharge.
DryRunFailed(w) ==
    /\ Answer(w, "dry_run_failed")
    /\ worker' = [worker EXCEPT ![w] = Ready]

DryRun(w) ==
    /\ worker[w].pc = "dry_run"
    /\ \/ worker' = [worker EXCEPT ![w].pc = "submit"] /\ UNCHANGED request
       \/ DryRunFailed(w)
    /\ UNCHANGED <<queue, counter, reports, recharger, funds, pending, gifts, unwatched,
                   submitted, streak>>

\* Mutant: a failure is not noticed.
NoticeRelayFailureIgnored == UNCHANGED counter

NoticeRelayFailure == counter' = 0
NoticeRelaySuccess == counter' = (counter + 1) % CounterModulus

Send(w) ==
    /\ funds[w] >= GasCost
    /\ pending' = [pending EXCEPT ![w] = @ + 1]
    /\ submitted' = [submitted EXCEPT ![worker[w].task] = @ + 1]

\* Mutant: only a success is reported for a recharge.
AfterFailureReady(w) == Ready

\* A relay that failed is reported for a recharge as well: it may have failed
\* for want of funds.
AfterFailure(w) == [worker[w] EXCEPT !.pc = "report"]

Submit(w) ==
    /\ worker[w].pc = "submit"
    /\ \/ /\ Send(w)
          /\ Answer(w, "ok")
          /\ NoticeRelaySuccess
          /\ streak' = IF streak < OPTIMISTIC_DRY_RUN_THRESHOLD THEN streak + 1 ELSE streak
          /\ worker' = [worker EXCEPT ![w].pc = "report"]
       \/ /\ Send(w) \/ UNCHANGED <<pending, submitted>>
          /\ Answer(w, "relay_failed")
          /\ NoticeRelayFailure
          /\ streak' = 0
          /\ worker' = [worker EXCEPT ![w] = AfterFailure(w)]
    /\ UNCHANGED <<queue, reports, recharger, funds, gifts, unwatched>>

\* recharge_reporter.send waits for room; it fails when the recharger is gone.
Report(w) ==
    /\ worker[w].pc = "report"
    /\ \/ /\ recharger.pc # "dead"
          /\ Len(reports) < Cardinality(Workers)
          /\ reports' = Append(reports, w)
       \/ recharger.pc = "dead" /\ UNCHANGED reports
    /\ worker' = [worker EXCEPT ![w] = Ready]
    /\ UNCHANGED <<request, queue, counter, recharger, funds, pending, gifts, unwatched,
                   submitted, streak>>

-----------------------------------------------------------------------------
(* recharging_worker *)

\* Where the recharging worker goes on; an error is logged first.
RechargerTo(pc) == recharger' = [recharger EXCEPT !.pc = pc]
RechargeError == RechargerTo("failed")

\* It ends for good if it cannot create its provider.
StartRecharger ==
    /\ recharger.pc = "start"
    /\ RechargerTo("recv") \/ RechargerTo("dead")
    /\ UNCHANGED <<request, queue, worker, counter, reports, funds, pending, gifts, unwatched,
                   submitted, streak>>

TakeReport ==
    /\ recharger.pc = "recv"
    /\ reports # <<>>
    /\ recharger' = [pc |-> "balance", worker |-> Head(reports)]
    /\ reports' = Tail(reports)
    /\ UNCHANGED <<request, queue, worker, counter, funds, pending, gifts, unwatched,
                   submitted, streak>>

\* try_recharging_relayer: the balance is read before the transaction is sent.
TryRecharging ==
    LET low == funds[recharger.worker] < RechargeThreshold IN
    /\ recharger.pc = "balance"
    /\ \/ low /\ RechargerTo("send")
       \/ ~low /\ RechargerTo("recv")
       \/ RechargeError
    /\ UNCHANGED <<request, queue, worker, counter, reports, funds, pending, gifts, unwatched,
                   submitted, streak>>

\* Mutant: nobody waits for the transaction.
AfterSendReady == RechargerTo("recv")

\* The transaction is sent: it is watched.
AfterSend == RechargerTo("watch")

\* recharge_relayer up to watch; an answer that is lost is an error too.
SendRecharge ==
    /\ recharger.pc = "send"
    /\ \/ /\ gifts' = [gifts EXCEPT ![recharger.worker] = @ + 1]
          /\ \/ AfterSend /\ UNCHANGED unwatched
             \/ RechargeError /\ unwatched' = [unwatched EXCEPT ![recharger.worker] = @ + 1]
       \/ UNCHANGED <<gifts, unwatched>> /\ RechargeError
    /\ UNCHANGED <<request, queue, worker, counter, reports, funds, pending, submitted, streak>>

\* watch: the transaction is mined, or the node cannot be asked any more.
Watch ==
    /\ recharger.pc = "watch"
    /\ \/ gifts[recharger.worker] = 0 /\ RechargerTo("recv") /\ UNCHANGED unwatched
       \/ /\ RechargeError
          /\ unwatched' = [unwatched EXCEPT ![recharger.worker] = gifts[recharger.worker]]
    /\ UNCHANGED <<request, queue, worker, counter, reports, funds, pending, gifts,
                   submitted, streak>>

\* "Recharging relayer failed"
LogFailure ==
    /\ recharger.pc = "failed"
    /\ RechargerTo("recv")
    /\ UNCHANGED <<request, queue, worker, counter, reports, funds, pending, gifts, unwatched,
                   submitted, streak>>

-----------------------------------------------------------------------------
(* The chain. *)

MineRelay(w) ==
    /\ pending[w] > 0 /\ funds[w] >= GasCost
    /\ pending' = [pending EXCEPT ![w] = @ - 1]
    /\ funds' = [funds EXCEPT ![w] = @ - GasCost]
    /\ UNCHANGED <<request, queue, worker, counter, reports, recharger, gifts, unwatched,
                   submitted, streak>>

\* The transactions of one sender are mined in their order.
MineRecharge(w) ==
    /\ gifts[w] > 0
    /\ gifts' = [gifts EXCEPT ![w] = @ - 1]
    /\ unwatched' = [unwatched EXCEPT ![w] = IF @ > 0 THEN @ - 1 ELSE 0]
    /\ funds' = [funds EXCEPT ![w] = @ + RechargeAmount]
    /\ UNCHANGED <<request, queue, worker, counter, reports, recharger, pending,
                   submitted, streak>>

-----------------------------------------------------------------------------
\* ensure_signers_have_funds comes first; the workers start with the least it
\* leaves alone.
Init ==
    /\ request = [r \in Requests |-> "idle"]
    /\ queue = <<>>
    /\ worker = [w \in Workers |-> Ready]
    /\ counter = OPTIMISTIC_DRY_RUN_THRESHOLD
    /\ reports = <<>>
    /\ recharger = [pc |-> "start", worker |-> NoTask]
    /\ funds = [w \in Workers |-> RechargeThreshold]
    /\ pending = [w \in Workers |-> 0]
    /\ gifts = [w \in Workers |-> 0]
    /\ unwatched = [w \in Workers |-> 0]
    /\ submitted = [r \in Requests |-> 0]
    /\ streak = OPTIMISTIC_DRY_RUN_THRESHOLD

Work(w) == Receive(w) \/ DryRun(w) \/ Submit(w) \/ Report(w)
Recharge ==
    StartRecharger \/ TakeReport \/ TryRecharging \/ SendRecharge \/ Watch \/ LogFailure

Next ==
    \/ \E r \in Requests :
          \/ \E query \in Query : Arrive(r, query)
          \/ RegisterNewTask(r)
          \/ Disconnect(r)
    \/ \E w \in Workers : Work(w) \/ MineRelay(w) \/ MineRecharge(w)
    \/ Recharge

Spec == Init /\ [][Next]_vars

\* The tasks run, calls to the node return, and recharges are mined.
Fairness ==
    /\ \A r \in Requests : WF_vars(RegisterNewTask(r))
    /\ \A w \in Workers : WF_vars(Work(w)) /\ WF_vars(MineRecharge(w))
    /\ WF_vars(Recharge)

FairSpec == Spec /\ Fairness

-----------------------------------------------------------------------------
(* Properties. *)

\* A withdrawal is sent to the chain at most once, whatever worker has it, and
\* never after its client was told that the dry run had failed.
SubmittedOnce ==
    \A r \in Requests : submitted[r] <= IF request[r] = "dry_run_failed" THEN 0 ELSE 1

\* A worker is not recharged again while its last recharge is still on its way,
\* although every relay asks for one, unless the recharging worker was told
\* that sending or watching the last one had failed.
RechargedOneByOne == \A w \in Workers : gifts[w] <= unwatched[w] + 1

\* A worker leaves out the dry run only if, since any worker noticed a failure,
\* the threshold of successes was noticed, by any of them; a counter that wraps
\* around only brings the dry runs back.
SkipsOnlyAfterSuccesses ==
    [][\A w \in Workers :
          worker[w].pc = "recv" /\ worker'[w].pc = "submit"
          => streak >= OPTIMISTIC_DRY_RUN_THRESHOLD]_vars

\* Every request that is admitted is answered unless its client goes away:
\* neither a full queue, nor a failure of the node, nor waiting for the
\* recharging worker, nor its end keeps the workers from the next task.
RequestsAnswered ==
    \A r \in Requests :
       request[r] \in {"sending", "waiting"} ~> request[r] \in Outcomes \cup {"gone"}

\* A worker that is about to relay with less than the threshold is recharged
\* afterwards, also if it can no longer pay for the relay, unless the recharge
\* is logged as failed or the recharging worker has ended.
WorkersRecharged ==
    \A w \in Workers :
       worker[w].pc = "submit" /\ funds[w] < RechargeThreshold
       ~> \/ funds[w] >= RechargeThreshold
          \/ recharger.pc = "failed" /\ recharger.worker = w
          \/ recharger.pc = "dead"

=============================================================================
