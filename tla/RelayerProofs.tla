---------------------------- MODULE RelayerProofs ----------------------------
(***************************************************************************)
(* Theorems on Relayer, for every number of requests and workers, every    *)
(* length of the queue, every threshold and every width of the counter.    *)
(***************************************************************************)
EXTENDS Relayer, TLAPS

-----------------------------------------------------------------------------
(* Queues without repetitions. *)

NoRepeats(q) == \A i, j \in 1..Len(q) : q[i] = q[j] => i = j
Holds(q, e) == \E i \in 1..Len(q) : q[i] = e

\* What is sent to a channel stands behind what it holds.
LEMMA AppendHolds ==
    ASSUME NEW S, NEW q \in Seq(S), NEW e \in S
    PROVE  /\ Append(q, e) \in Seq(S)
           /\ \A x : Holds(Append(q, e), x) <=> Holds(q, x) \/ x = e
           /\ NoRepeats(q) /\ ~Holds(q, e) => NoRepeats(Append(q, e))
  <1> DEFINE p == Append(q, e)
  <1>1. p \in Seq(S) /\ Len(p) = Len(q) + 1 /\ Len(q) \in Nat
        /\ p[Len(q) + 1] = e /\ \A i \in 1..Len(q) : p[i] = q[i]
    OBVIOUS
  <1> HIDE DEF p
  <1>2. ASSUME NEW x PROVE Holds(p, x) <=> Holds(q, x) \/ x = e
    BY <1>1 DEF Holds
  <1>3. ASSUME NoRepeats(q), ~Holds(q, e) PROVE NoRepeats(p)
    BY <1>1, <1>3 DEF Holds, NoRepeats
  <1> QED
    BY <1>1, <1>2, <1>3 DEF p

\* What is received from a channel is no longer in it.
LEMMA TailHolds ==
    ASSUME NEW S, NEW q \in Seq(S), q # <<>>
    PROVE  /\ Tail(q) \in Seq(S)
           /\ Head(q) \in S
           /\ Holds(q, Head(q))
           /\ \A x : Holds(Tail(q), x) => Holds(q, x)
           /\ NoRepeats(q) => NoRepeats(Tail(q)) /\ ~Holds(Tail(q), Head(q))
  <1> DEFINE p == Tail(q)
  <1>1. p \in Seq(S) /\ Len(q) \in Nat /\ Len(q) > 0 /\ Len(p) = Len(q) - 1
        /\ Head(q) = q[1] /\ q[1] \in S /\ \A i \in 1..Len(p) : p[i] = q[i + 1]
    OBVIOUS
  <1> HIDE DEF p
  <1>2. Holds(q, q[1])
    BY <1>1 DEF Holds
  <1>3. ASSUME NEW x, Holds(p, x) PROVE Holds(q, x)
    <2>1. PICK i \in 1..Len(p) : p[i] = x
      BY <1>3 DEF Holds
    <2>2. i + 1 \in 1..Len(q) /\ q[i + 1] = x
      BY <1>1, <2>1
    <2> QED
      BY <2>2 DEF Holds
  <1>4. ASSUME NoRepeats(q) PROVE NoRepeats(p) /\ ~Holds(p, q[1])
    BY <1>1, <1>4 DEF Holds, NoRepeats
  <1> QED
    BY <1>1, <1>2, <1>3, <1>4 DEF p

-----------------------------------------------------------------------------
(* Types. *)

Status == {"idle", "sending", "waiting", "gone"} \cup Outcomes

WorkerState ==
    [pc : {"recv", "dry_run", "submit", "report"}, task : Requests \cup {NoTask}]

TypeOK ==
    /\ request \in [Requests -> Status]
    /\ queue \in Seq(Requests)
    /\ worker \in [Workers -> WorkerState]
    /\ \A w \in Workers : worker[w].pc # "recv" => worker[w].task \in Requests
    /\ counter \in 0..(CounterModulus - 1)
    /\ reports \in Seq(Workers)
    /\ recharger \in [pc : {"start", "recv", "dead", "balance", "send", "watch", "failed"},
                      worker : Workers \cup {NoTask}]
    /\ recharger.pc \in {"balance", "send", "watch"} => recharger.worker \in Workers
    /\ funds \in [Workers -> Nat] /\ pending \in [Workers -> Nat]
    /\ gifts \in [Workers -> Nat] /\ unwatched \in [Workers -> Nat]
    /\ submitted \in [Requests -> Nat]
    /\ streak \in Nat

\* An answer reaches the client that waits for it, and no other request.
LEMMA AnswerEffect ==
    ASSUME request \in [Requests -> Status], NEW w, worker[w].task \in Requests,
           NEW outcome \in Outcomes, Answer(w, outcome)
    PROVE  /\ request' \in [Requests -> Status]
           /\ \A r \in Requests :
                 \/ request'[r] = request[r]
                 \/ r = worker[w].task /\ request[r] = "waiting" /\ request'[r] = outcome
  BY DEF Answer, Status

\* What a submission leaves behind, whether it succeeds or fails.
LEMMA SubmitEffect ==
    ASSUME NEW w, Submit(w)
    PROVE  /\ worker[w].pc = "submit"
           /\ \E outcome \in {"ok", "relay_failed"} : Answer(w, outcome)
           /\ \/ NoticeRelaySuccess
                 /\ streak' = IF streak < OPTIMISTIC_DRY_RUN_THRESHOLD THEN streak + 1 ELSE streak
              \/ NoticeRelayFailure /\ streak' = 0
           /\ Send(w) \/ UNCHANGED <<pending, submitted>>
           /\ worker' = [worker EXCEPT ![w] = [worker[w] EXCEPT !.pc = "report"]]
           /\ UNCHANGED <<queue, reports, recharger, funds, gifts, unwatched>>
  BY DEF Submit, AfterFailure

\* The counter wraps around at its width.
LEMMA CounterRange ==
    ASSUME NEW n \in Nat, NEW m \in Nat \ {0}, n < m
    PROVE  (n + 1) % m \in 0..(m - 1) /\ (n + 1) % m \in {0, n + 1}
  <1>1. CASE n + 1 < m
    BY <1>1
  <1>2. CASE n + 1 = m
    BY <1>2
  <1> QED
    BY <1>1, <1>2

\* The types hold in every state: a worker that is not waiting for a task has
\* one of the requests, the recharging worker works for a worker, no balance is
\* negative and the counter stays within its width.
THEOREM RelayerTypes == Spec => []TypeOK
  <1> USE RelayerAssumption
  <1>1. Init => TypeOK
    BY DEF Init, TypeOK, Status, Outcomes, Ready, NoTask, WorkerState
  <1>2. TypeOK /\ [Next]_vars => TypeOK'
    <2> SUFFICES ASSUME TypeOK, [Next]_vars PROVE TypeOK'
      OBVIOUS
    <2> USE DEF TypeOK
    <2>1. ASSUME NEW r \in Requests, NEW query \in Query, Arrive(r, query) PROVE TypeOK'
      BY <2>1 DEF Arrive, Status
    <2>2. ASSUME NEW r \in Requests, RegisterNewTask(r) PROVE TypeOK'
      BY <2>2, AppendHolds DEF RegisterNewTask, Status
    <2>3. ASSUME NEW r \in Requests, Disconnect(r) PROVE TypeOK'
      BY <2>3 DEF Disconnect, Status
    <2>4. ASSUME NEW w \in Workers, Receive(w) PROVE TypeOK'
      <3>1. Head(queue) \in Requests /\ Tail(queue) \in Seq(Requests)
        BY <2>4, TailHolds DEF Receive
      <3>2. PICK pc \in {"dry_run", "submit"} :
               worker' = [worker EXCEPT ![w] = [pc |-> pc, task |-> Head(queue)]]
        BY <2>4 DEF Receive
      <3>3. [pc |-> pc, task |-> Head(queue)] \in WorkerState
        BY <3>1 DEF WorkerState
      <3>4. worker' \in [Workers -> WorkerState]
            /\ \A v \in Workers : worker'[v].pc # "recv" => worker'[v].task \in Requests
        BY <3>1, <3>2, <3>3
      <3> QED
        BY <2>4, <3>1, <3>4 DEF Receive
    <2>5. ASSUME NEW w \in Workers, DryRun(w) PROVE TypeOK'
      <3>1. worker[w].task \in Requests /\ worker[w] \in WorkerState
        BY <2>5 DEF DryRun
      <3>2. request' \in [Requests -> Status]
        <4>1. request' = request \/ Answer(w, "dry_run_failed")
          BY <2>5 DEF DryRun, DryRunFailed
        <4>2. CASE Answer(w, "dry_run_failed")
          <5>1. "dry_run_failed" \in Outcomes /\ request \in [Requests -> Status]
            BY DEF Outcomes
          <5> QED
            BY ONLY <3>1, <4>2, <5>1, AnswerEffect
        <4> QED
          BY <4>1, <4>2
      <3>3. \/ worker' = [worker EXCEPT ![w] = Ready]
            \/ worker' = [worker EXCEPT ![w] = [worker[w] EXCEPT !.pc = "submit"]]
        BY <2>5 DEF DryRun, DryRunFailed
      <3>4. Ready \in WorkerState /\ [worker[w] EXCEPT !.pc = "submit"] \in WorkerState
            /\ Ready.pc = "recv" /\ [worker[w] EXCEPT !.pc = "submit"].task \in Requests
        BY <3>1 DEF Ready, WorkerState
      <3> QED
        BY <2>5, <3>2, <3>3, <3>4 DEF DryRun
    <2>6. ASSUME NEW w \in Workers, Submit(w) PROVE TypeOK'
      <3>1. worker[w].task \in Requests /\ worker[w] \in WorkerState
        BY <2>6 DEF Submit
      <3>2. request' \in [Requests -> Status]
        <4>1. PICK outcome \in {"ok", "relay_failed"} : Answer(w, outcome)
          BY <2>6, SubmitEffect
        <4>2. outcome \in Outcomes
          BY DEF Outcomes
        <4> QED
          BY <3>1, <4>1, <4>2, AnswerEffect
      <3>3. worker' = [worker EXCEPT ![w] = [worker[w] EXCEPT !.pc = "report"]]
        BY <2>6, SubmitEffect
      <3>4. [worker[w] EXCEPT !.pc = "report"] \in WorkerState
            /\ [worker[w] EXCEPT !.pc = "report"].task \in Requests
        BY <3>1 DEF WorkerState
      <3>5. counter' \in 0..(CounterModulus - 1) /\ streak' \in Nat
        <4>1. (counter + 1) % CounterModulus \in 0..(CounterModulus - 1)
          BY CounterRange
        <4>2. 0 \in 0..(CounterModulus - 1) /\ streak + 1 \in Nat /\ streak \in Nat /\ 0 \in Nat
          OBVIOUS
        <4>3. counter' = 0 \/ counter' = (counter + 1) % CounterModulus
          BY <2>6, SubmitEffect DEF NoticeRelaySuccess, NoticeRelayFailure
        <4>4. streak' = 0 \/ streak' = streak + 1 \/ streak' = streak
          BY <2>6, SubmitEffect
        <4> QED
          BY <4>1, <4>2, <4>3, <4>4
      <3>6. pending' \in [Workers -> Nat] /\ submitted' \in [Requests -> Nat]
        <4>1. CASE Send(w)
          <5>1. /\ pending' = [pending EXCEPT ![w] = @ + 1]
                /\ submitted' = [submitted EXCEPT ![worker[w].task] = @ + 1]
            BY <4>1 DEF Send
          <5>2. pending \in [Workers -> Nat] /\ submitted \in [Requests -> Nat]
            OBVIOUS
          <5> HIDE DEF TypeOK
          <5>3. pending' \in [Workers -> Nat]
            BY <5>1, <5>2
          <5>4. submitted' \in [Requests -> Nat]
            BY <3>1, <5>1, <5>2
          <5> QED
            BY <5>3, <5>4
        <4>2. CASE UNCHANGED <<pending, submitted>>
          BY <4>2
        <4> QED
          BY <2>6, <4>1, <4>2, SubmitEffect
      <3>7. UNCHANGED <<queue, reports, recharger, funds, gifts, unwatched>>
        BY <2>6, SubmitEffect
      <3> QED
        BY <3>2, <3>3, <3>4, <3>5, <3>6, <3>7
    <2>7. ASSUME NEW w \in Workers, Report(w) PROVE TypeOK'
      <3>1. reports' \in Seq(Workers)
        <4>1. \/ reports' = Append(reports, w)
              \/ reports' = reports
          BY <2>7 DEF Report
        <4>2. Append(reports, w) \in Seq(Workers) /\ reports \in Seq(Workers)
          OBVIOUS
        <4> QED
          BY <4>1, <4>2
      <3>2. Ready \in WorkerState /\ Ready.pc = "recv"
        BY DEF Ready, WorkerState
      <3> QED
        BY <2>7, <3>1, <3>2 DEF Report
    <2>8. CASE Recharge
      <3> USE DEF RechargerTo, RechargeError
      <3>1. CASE StartRecharger
        BY <3>1 DEF StartRecharger
      <3>2. CASE TakeReport
        BY <3>2, TailHolds DEF TakeReport
      <3>3. CASE TryRecharging
        <4>1. PICK pc \in {"send", "recv", "failed"} : recharger' = [recharger EXCEPT !.pc = pc]
          BY <3>3 DEF TryRecharging
        <4> QED
          BY <3>3, <4>1 DEF TryRecharging
      <3>4. CASE SendRecharge
        <4>1. /\ gifts' = gifts \/ gifts' = [gifts EXCEPT ![recharger.worker] = @ + 1]
              /\ \/ unwatched' = unwatched
                 \/ unwatched' = [unwatched EXCEPT ![recharger.worker] = @ + 1]
              /\ recharger.worker \in Workers
          BY <3>4 DEF SendRecharge
        <4>3. gifts' \in [Workers -> Nat] /\ unwatched' \in [Workers -> Nat]
          <5> DEFINE more(f) == [f EXCEPT ![recharger.worker] = @ + 1]
          <5>1. more(gifts) \in [Workers -> Nat] /\ more(unwatched) \in [Workers -> Nat]
                /\ gifts \in [Workers -> Nat] /\ unwatched \in [Workers -> Nat]
            BY <4>1
          <5>2. (gifts' = gifts \/ gifts' = more(gifts))
                /\ (unwatched' = unwatched \/ unwatched' = more(unwatched))
            BY <4>1
          <5> HIDE DEF more
          <5> QED
            BY <5>1, <5>2
        <4>2. PICK pc \in {"watch", "failed"} : recharger' = [recharger EXCEPT !.pc = pc]
          BY <3>4 DEF SendRecharge, AfterSend
        <4> QED
          BY <3>4, <4>2, <4>3 DEF SendRecharge
      <3>5. CASE Watch
        BY <3>5 DEF Watch
      <3>6. CASE LogFailure
        BY <3>6 DEF LogFailure
      <3> QED
        BY <2>8, <3>1, <3>2, <3>3, <3>4, <3>5, <3>6 DEF Recharge
    <2>9. ASSUME NEW w \in Workers, MineRelay(w) PROVE TypeOK'
      <3>1. funds[w] - GasCost \in Nat /\ pending[w] - 1 \in Nat
        BY <2>9 DEF MineRelay
      <3> QED
        BY <2>9, <3>1 DEF MineRelay
    <2>10. ASSUME NEW w \in Workers, MineRecharge(w) PROVE TypeOK'
      <3>1. /\ funds' \in [Workers -> Nat]
            /\ gifts' \in [Workers -> Nat]
            /\ unwatched' \in [Workers -> Nat]
        <4>1. /\ gifts' = [gifts EXCEPT ![w] = @ - 1]
              /\ unwatched' = [unwatched EXCEPT ![w] = IF @ > 0 THEN @ - 1 ELSE 0]
              /\ funds' = [funds EXCEPT ![w] = @ + RechargeAmount]
          BY <2>10 DEF MineRecharge
        <4>2. /\ gifts[w] - 1 \in Nat
              /\ (IF unwatched[w] > 0 THEN unwatched[w] - 1 ELSE 0) \in Nat
              /\ funds[w] + RechargeAmount \in Nat
          BY <2>10 DEF MineRecharge
        <4>3. /\ gifts \in [Workers -> Nat] /\ funds \in [Workers -> Nat]
              /\ unwatched \in [Workers -> Nat]
          OBVIOUS
        <4> HIDE DEF TypeOK
        <4>4. funds' \in [Workers -> Nat]
          BY <4>1, <4>2, <4>3
        <4>5. gifts' \in [Workers -> Nat]
          BY <4>1, <4>2, <4>3
        <4>6. unwatched' \in [Workers -> Nat]
          BY <4>1, <4>2, <4>3
        <4> QED
          BY <4>4, <4>5, <4>6
      <3> QED
        BY <2>10, <3>1 DEF MineRecharge
    <2>11. CASE UNCHANGED vars
      BY <2>11 DEF vars
    <2> QED
      BY <2>1, <2>2, <2>3, <2>4, <2>5, <2>6, <2>7, <2>8, <2>9, <2>10, <2>11 DEF Next, Work
  <1> QED
    BY <1>1, <1>2, PTL DEF Spec

-----------------------------------------------------------------------------
(* A withdrawal is sent once. *)

\* A worker that will still try to send a request.
Has(w, r) == worker[w].pc \in {"dry_run", "submit"} /\ worker[w].task = r

\* A task is at one place: at one position of the queue or with one worker.
OnePlace ==
    /\ NoRepeats(queue)
    /\ \A w \in Workers, r \in Requests : Has(w, r) => ~Holds(queue, r)
    /\ \A w, v \in Workers, r \in Requests : Has(w, r) /\ Has(v, r) => w = v

\* A request that is not yet in the queue, or still to be tried, was not sent,
\* and its client was told nothing.
Unsent ==
    \A r \in Requests :
       /\ request[r] \in {"idle", "sending"} => submitted[r] = 0
       /\ Holds(queue, r) => submitted[r] = 0 /\ request[r] \in {"waiting", "gone"}
       /\ \A w \in Workers :
             Has(w, r) => submitted[r] = 0 /\ request[r] \in {"waiting", "gone"}

SentInv == OnePlace /\ Unsent /\ SubmittedOnce

\* A withdrawal is sent to the chain at most once, and never after its client
\* was told that the dry run had failed.
THEOREM WithdrawalsSentOnce == Spec => []SubmittedOnce
  <1> USE RelayerAssumption
  <1>1. Init => SentInv
    <2> SUFFICES ASSUME Init PROVE SentInv
      OBVIOUS
    <2>1. queue = <<>> /\ \A w \in Workers : worker[w].pc = "recv"
      BY DEF Init, Ready
    <2>2. NoRepeats(queue) /\ \A x : ~Holds(queue, x)
      BY <2>1 DEF NoRepeats, Holds
    <2>3. \A r \in Requests : submitted[r] = 0 /\ request[r] = "idle"
      BY DEF Init
    <2>4. SubmittedOnce
      BY <2>3 DEF SubmittedOnce
    <2> QED
      BY <2>1, <2>2, <2>3, <2>4 DEF SentInv, OnePlace, Unsent, Has
  <1>2. TypeOK /\ SentInv /\ [Next]_vars => SentInv'
    <2> SUFFICES ASSUME TypeOK, SentInv, [Next]_vars PROVE SentInv'
      OBVIOUS
    <2>0. /\ request \in [Requests -> Status] /\ queue \in Seq(Requests)
          /\ worker \in [Workers -> WorkerState] /\ submitted \in [Requests -> Nat]
          /\ \A w \in Workers : worker[w].pc # "recv" => worker[w].task \in Requests
          /\ OnePlace /\ Unsent /\ SubmittedOnce
      BY DEF TypeOK, SentInv
    <2>1. ASSUME NEW r \in Requests, NEW query \in Query, Arrive(r, query) PROVE SentInv'
      BY <2>0, <2>1 DEF Arrive, SentInv, OnePlace, Unsent, SubmittedOnce, Has
    <2>2. ASSUME NEW r \in Requests, RegisterNewTask(r) PROVE SentInv'
      <3>1. /\ request[r] = "sending"
            /\ request' = [request EXCEPT ![r] = "waiting"]
            /\ queue' = Append(queue, r)
            /\ UNCHANGED <<worker, submitted>>
        BY <2>2 DEF RegisterNewTask
      <3>2. ~Holds(queue, r) /\ \A w \in Workers : ~Has(w, r)
        BY <2>0, <3>1 DEF Unsent
      <3>3. NoRepeats(queue') /\ \A x : Holds(queue', x) <=> Holds(queue, x) \/ x = r
        BY <2>0, <3>1, <3>2, AppendHolds DEF OnePlace
      <3>4. OnePlace'
        BY <2>0, <3>1, <3>2, <3>3 DEF OnePlace, Has
      <3>5. Unsent'
        BY <2>0, <3>1, <3>2, <3>3 DEF Unsent, Has
      <3>6. SubmittedOnce'
        BY <2>0, <3>1 DEF SubmittedOnce
      <3> QED
        BY <3>4, <3>5, <3>6 DEF SentInv
    <2>3. ASSUME NEW r \in Requests, Disconnect(r) PROVE SentInv'
      BY <2>0, <2>3 DEF Disconnect, SentInv, OnePlace, Unsent, SubmittedOnce, Has
    <2>4. ASSUME NEW w \in Workers, Receive(w) PROVE SentInv'
      <3> DEFINE r == Head(queue)
      <3>1. /\ queue # <<>> /\ queue' = Tail(queue)
            /\ worker[w].pc = "recv"
            /\ \A v \in Workers \ {w} : worker'[v] = worker[v]
            /\ worker'[w].task = r
            /\ UNCHANGED <<request, submitted>>
        BY <2>0, <2>4 DEF Receive
      <3>2. /\ r \in Requests /\ Holds(queue, r) /\ ~Holds(queue', r)
            /\ NoRepeats(queue') /\ \A x : Holds(queue', x) => Holds(queue, x)
        BY <2>0, <3>1, TailHolds DEF OnePlace
      <3> HIDE DEF r
      <3>3. OnePlace'
        BY <2>0, <3>1, <3>2 DEF OnePlace, Has
      <3>4. Unsent'
        BY <2>0, <3>1, <3>2 DEF Unsent, Has
      <3>5. SubmittedOnce'
        BY <2>0, <3>1 DEF SubmittedOnce
      <3> QED
        BY <3>3, <3>4, <3>5 DEF SentInv
    <2>5. ASSUME NEW w \in Workers, DryRun(w) PROVE SentInv'
      <3> DEFINE r == worker[w].task
      <3>1. /\ r \in Requests /\ worker[w].pc = "dry_run"
            /\ \A v \in Workers \ {w} : worker'[v] = worker[v]
            /\ UNCHANGED <<queue, submitted>>
        BY <2>0, <2>5 DEF DryRun, DryRunFailed
      <3>2. Has(w, r)
        BY <3>1 DEF Has
      <3>3. submitted[r] = 0 /\ request[r] \in {"waiting", "gone"}
        BY <2>0, <3>1, <3>2 DEF Unsent
      <3>4. CASE worker'[w] = [worker[w] EXCEPT !.pc = "submit"] /\ UNCHANGED request
        <4>1. worker'[w].task = r /\ worker'[w].pc = "submit"
          BY <2>0, <3>4 DEF WorkerState
        <4>2. \A v \in Workers, q \in Requests : Has(v, q)' => Has(v, q)
          BY <3>1, <4>1 DEF Has
        <4> QED
          BY <2>0, <3>1, <3>4, <4>2 DEF SentInv, OnePlace, Unsent, SubmittedOnce
      <3>5. CASE DryRunFailed(w)
        <4>1. worker'[w].pc = "recv"
          BY <2>0, <3>5 DEF DryRunFailed, Ready
        <4>2. \A v \in Workers, q \in Requests : Has(v, q)' => v # w /\ Has(v, q)
          BY <3>1, <4>1 DEF Has
        <4>3. \A q \in Requests :
                 \/ request'[q] = request[q]
                 \/ q = r /\ request'[q] = "dry_run_failed"
          <5>1. Answer(w, "dry_run_failed") /\ "dry_run_failed" \in Outcomes
            BY <3>5 DEF DryRunFailed, Outcomes
          <5> QED
            BY <2>0, <3>1, <5>1, AnswerEffect
        <4>4. OnePlace'
          BY <2>0, <3>1, <4>2 DEF OnePlace
        <4>5. ~Holds(queue, r) /\ \A v \in Workers \ {w} : ~Has(v, r)
          BY <2>0, <3>1, <3>2 DEF OnePlace
        <4>6. Unsent'
          BY <2>0, <3>1, <4>2, <4>3, <4>5 DEF Unsent
        <4>7. SubmittedOnce'
          BY <2>0, <3>1, <3>3, <4>3 DEF SubmittedOnce
        <4> QED
          BY <4>4, <4>6, <4>7 DEF SentInv
      <3> QED
        BY <2>0, <2>5, <3>4, <3>5 DEF DryRun
    <2>6. ASSUME NEW w \in Workers, Submit(w) PROVE SentInv'
      <3> DEFINE r == worker[w].task
      <3>1. /\ worker[w].pc = "submit" /\ UNCHANGED queue
            /\ worker' = [worker EXCEPT ![w] = [worker[w] EXCEPT !.pc = "report"]]
        BY <2>6, SubmitEffect
      <3>2. r \in Requests /\ Has(w, r)
        BY <2>0, <3>1 DEF Has
      <3>3. submitted[r] = 0 /\ request[r] \in {"waiting", "gone"}
        BY <2>0, <3>2 DEF Unsent
      <3>4. \A v \in Workers, q \in Requests : Has(v, q)' => v # w /\ Has(v, q)
        BY <2>0, <3>1 DEF Has, WorkerState
      <3>5. PICK outcome \in {"ok", "relay_failed"} : Answer(w, outcome)
        BY <2>6, SubmitEffect
      <3>6. \A q \in Requests :
               \/ request'[q] = request[q]
               \/ q = r /\ request'[q] = outcome
        <4>1. outcome \in Outcomes
          BY DEF Outcomes
        <4> QED
          BY <2>0, <3>2, <3>5, <4>1, AnswerEffect
      <3>7. \A q \in Requests :
               \/ submitted'[q] = submitted[q]
               \/ q = r /\ submitted'[q] = submitted[q] + 1
        <4>1. CASE Send(w)
          BY <2>0, <3>2, <4>1 DEF Send
        <4>2. CASE UNCHANGED <<pending, submitted>>
          BY <4>2
        <4> QED
          BY <2>6, <4>1, <4>2, SubmitEffect
      <3>8. ~Holds(queue, r) /\ \A v \in Workers \ {w} : ~Has(v, r)
        BY <2>0, <3>2 DEF OnePlace
      <3>9. OnePlace'
        BY <2>0, <3>1, <3>4 DEF OnePlace
      <3>10. Unsent'
        BY <2>0, <3>1, <3>3, <3>4, <3>6, <3>7, <3>8 DEF Unsent
      <3>11. SubmittedOnce'
        BY <2>0, <3>2, <3>3, <3>6, <3>7 DEF SubmittedOnce
      <3> QED
        BY <3>9, <3>10, <3>11 DEF SentInv
    <2>7. ASSUME NEW w \in Workers, Report(w) PROVE SentInv'
      <3>1. worker' = [worker EXCEPT ![w] = Ready] /\ UNCHANGED <<request, queue, submitted>>
        BY <2>7 DEF Report
      <3>2. \A v \in Workers, q \in Requests : Has(v, q)' => Has(v, q)
        BY <2>0, <3>1 DEF Has, Ready
      <3> QED
        BY <2>0, <3>1, <3>2 DEF SentInv, OnePlace, Unsent, SubmittedOnce
    <2>8. CASE UNCHANGED <<request, queue, worker, submitted>>
      BY <2>0, <2>8 DEF SentInv, OnePlace, Unsent, SubmittedOnce, Has
    <2>9. CASE Recharge
      BY <2>8, <2>9 DEF Recharge, StartRecharger, TakeReport, TryRecharging, SendRecharge, Watch,
                        LogFailure
    <2>10. ASSUME NEW w \in Workers, MineRelay(w) \/ MineRecharge(w) PROVE SentInv'
      BY <2>8, <2>10 DEF MineRelay, MineRecharge
    <2>11. CASE UNCHANGED vars
      BY <2>8, <2>11 DEF vars
    <2> QED
      BY <2>1, <2>2, <2>3, <2>4, <2>5, <2>6, <2>7, <2>9, <2>10, <2>11 DEF Next, Work
  <1>3. SentInv => SubmittedOnce
    BY DEF SentInv
  <1> QED
    BY <1>1, <1>2, <1>3, RelayerTypes, PTL DEF Spec

-----------------------------------------------------------------------------
(* Recharges. *)

\* All recharges on their way are given up, but for the one that is watched.
GivenUp ==
    \A w \in Workers :
       gifts[w] <= unwatched[w] + IF recharger.pc = "watch" /\ recharger.worker = w THEN 1 ELSE 0

\* A worker is not recharged again while a recharge of it is watched.
THEOREM RechargesOneByOne == Spec => []RechargedOneByOne
  <1> USE RelayerAssumption
  <1>1. Init => GivenUp
    BY DEF Init, GivenUp
  <1>2. TypeOK /\ GivenUp /\ [Next]_vars => GivenUp'
    <2> SUFFICES ASSUME TypeOK, GivenUp, [Next]_vars PROVE GivenUp'
      OBVIOUS
    <2>0. /\ gifts \in [Workers -> Nat] /\ unwatched \in [Workers -> Nat]
          /\ recharger.pc \in {"balance", "send", "watch"} => recharger.worker \in Workers
          /\ recharger \in [pc : {"start", "recv", "dead", "balance", "send", "watch", "failed"},
                            worker : Workers \cup {NoTask}]
      BY DEF TypeOK
    <2> DEFINE p == recharger.worker
    <2>1. CASE UNCHANGED <<gifts, unwatched, recharger>>
      BY <2>1 DEF GivenUp
    <2>2. CASE UNCHANGED <<gifts, unwatched>> /\ recharger.pc # "watch"
      BY <2>0, <2>2 DEF GivenUp
    <2>3. CASE SendRecharge
      <3>1. recharger.pc = "send" /\ p \in Workers
        BY <2>0, <2>3 DEF SendRecharge
      <3>2. \A w \in Workers : gifts[w] <= unwatched[w]
        BY <2>0, <3>1 DEF GivenUp
      <3>3. CASE gifts' = [gifts EXCEPT ![p] = @ + 1] /\ AfterSend /\ UNCHANGED unwatched
        <4>1. recharger'.pc = "watch" /\ recharger'.worker = p
          BY <2>0, <3>3 DEF AfterSend, RechargerTo
        <4> QED
          BY <2>0, <3>1, <3>2, <3>3, <4>1 DEF GivenUp
      <3>4. CASE /\ gifts' = [gifts EXCEPT ![p] = @ + 1]
                 /\ unwatched' = [unwatched EXCEPT ![p] = @ + 1]
        BY <2>0, <3>1, <3>2, <3>4 DEF GivenUp
      <3> QED
        BY <2>2, <2>3, <3>1, <3>3, <3>4 DEF SendRecharge
    <2>4. CASE Watch
      <3>1. recharger.pc = "watch" /\ p \in Workers /\ UNCHANGED gifts
        BY <2>0, <2>4 DEF Watch
      <3>2. \A w \in Workers \ {p} : gifts[w] <= unwatched[w]
        BY <2>0 DEF GivenUp
      <3>3. unwatched'[p] \in Nat /\ gifts[p] <= unwatched'[p]
            /\ \A w \in Workers \ {p} : unwatched'[w] = unwatched[w]
        BY <2>0, <2>4, <3>1 DEF Watch
      <3> QED
        BY <2>0, <3>1, <3>2, <3>3 DEF GivenUp
    <2>5. ASSUME NEW w \in Workers, MineRecharge(w) PROVE GivenUp'
      BY <2>0, <2>5 DEF MineRecharge, GivenUp
    <2>6. CASE Recharge
      BY <2>2, <2>3, <2>4, <2>6
         DEF Recharge, StartRecharger, TakeReport, TryRecharging, LogFailure
    <2>7. ASSUME NEW w \in Workers, Work(w) \/ MineRelay(w) PROVE GivenUp'
      BY <2>1, <2>7, SubmitEffect DEF Work, Receive, DryRun, Report, MineRelay
    <2>8. ASSUME NEW r \in Requests,
                 (\E query \in Query : Arrive(r, query)) \/ RegisterNewTask(r) \/ Disconnect(r)
          PROVE GivenUp'
      BY <2>1, <2>8 DEF Arrive, RegisterNewTask, Disconnect
    <2>9. CASE UNCHANGED vars
      BY <2>1, <2>9 DEF vars
    <2> QED
      BY <2>5, <2>6, <2>7, <2>8, <2>9 DEF Next
  <1>3. TypeOK /\ GivenUp => RechargedOneByOne
    BY DEF TypeOK, GivenUp, RechargedOneByOne
  <1> QED
    BY <1>1, <1>2, <1>3, RelayerTypes, PTL DEF Spec

-----------------------------------------------------------------------------
(* Dry runs. *)

\* The counter never claims more successes than there were since the last
\* failure, as far as the threshold goes.
CounterHonest == streak >= counter \/ streak >= OPTIMISTIC_DRY_RUN_THRESHOLD

\* A worker leaves out the dry run only if the threshold of successes was
\* noticed since the last failure, whatever the width of the counter.
THEOREM DryRunsSkippedRightly == Spec => SkipsOnlyAfterSuccesses
  <1> USE RelayerAssumption
  <1>1. Init => CounterHonest
    BY DEF Init, CounterHonest
  <1>2. TypeOK /\ CounterHonest /\ [Next]_vars => CounterHonest'
    <2> SUFFICES ASSUME TypeOK, CounterHonest, [Next]_vars PROVE CounterHonest'
      OBVIOUS
    <2>1. CASE UNCHANGED <<counter, streak>>
      BY <2>1 DEF CounterHonest
    <2>2. ASSUME NEW w \in Workers, Submit(w) PROVE CounterHonest'
      <3>1. /\ counter \in Nat /\ counter < CounterModulus /\ streak \in Nat
            /\ OPTIMISTIC_DRY_RUN_THRESHOLD \in Nat
        BY DEF TypeOK
      <3>2. (counter + 1) % CounterModulus \in {0, counter + 1}
        BY <3>1, CounterRange
      <3>3. \/ /\ counter' \in {0, counter + 1}
               /\ streak' = IF streak < OPTIMISTIC_DRY_RUN_THRESHOLD THEN streak + 1 ELSE streak
            \/ counter' = 0 /\ streak' = 0
        BY <2>2, <3>2, SubmitEffect DEF NoticeRelaySuccess, NoticeRelayFailure
      <3> QED
        BY <3>1, <3>3 DEF CounterHonest
    <2>3. ASSUME NEW w \in Workers, Work(w) \/ MineRelay(w) \/ MineRecharge(w)
          PROVE CounterHonest'
      BY <2>1, <2>2, <2>3 DEF Work, Receive, DryRun, Report, MineRelay, MineRecharge
    <2>4. CASE Recharge
      BY <2>1, <2>4 DEF Recharge, StartRecharger, TakeReport, TryRecharging, SendRecharge, Watch,
                        LogFailure
    <2>5. ASSUME NEW r \in Requests,
                 (\E query \in Query : Arrive(r, query)) \/ RegisterNewTask(r) \/ Disconnect(r)
          PROVE CounterHonest'
      BY <2>1, <2>5 DEF Arrive, RegisterNewTask, Disconnect
    <2>6. CASE UNCHANGED vars
      BY <2>1, <2>6 DEF vars
    <2> QED
      BY <2>3, <2>4, <2>5, <2>6 DEF Next
  <1> DEFINE Skip(w) == worker[w].pc = "recv" /\ worker'[w].pc = "submit"
  <1>3. TypeOK /\ CounterHonest /\ [Next]_vars
        => [\A w \in Workers : Skip(w) => streak >= OPTIMISTIC_DRY_RUN_THRESHOLD]_vars
    <2> SUFFICES ASSUME TypeOK, CounterHonest, Next, NEW w \in Workers, Skip(w)
                 PROVE  streak >= OPTIMISTIC_DRY_RUN_THRESHOLD
      BY DEF vars
    <2>1. CASE UNCHANGED worker
      BY <2>1
    <2>2. ASSUME NEW v \in Workers, Receive(v)
          PROVE  streak >= OPTIMISTIC_DRY_RUN_THRESHOLD
      <3>1. v = w
        BY <2>2 DEF Receive, TypeOK
      <3>2. ~ShouldDryRunNow
        BY <2>2, <3>1 DEF Receive, TypeOK
      <3> QED
        BY <3>2 DEF ShouldDryRunNow, CounterHonest, TypeOK
    <2>3. ASSUME NEW v \in Workers, Work(v), ~Receive(v)
          PROVE  streak >= OPTIMISTIC_DRY_RUN_THRESHOLD
      <3>1. worker[v].pc # "recv"
        BY <2>3 DEF Work, DryRun, Submit, Report
      <3>2. \A u \in Workers \ {v} : worker'[u] = worker[u]
        BY <2>3, SubmitEffect DEF Work, DryRun, DryRunFailed, Report, TypeOK
      <3> QED
        BY <3>1, <3>2
    <2>4. ASSUME NEW v \in Workers, MineRelay(v) \/ MineRecharge(v)
          PROVE  streak >= OPTIMISTIC_DRY_RUN_THRESHOLD
      BY <2>1, <2>4 DEF MineRelay, MineRecharge
    <2>5. CASE Recharge
      BY <2>1, <2>5 DEF Recharge, StartRecharger, TakeReport, TryRecharging, SendRecharge, Watch,
                        LogFailure
    <2>6. ASSUME NEW r \in Requests,
                 (\E query \in Query : Arrive(r, query)) \/ RegisterNewTask(r) \/ Disconnect(r)
          PROVE  streak >= OPTIMISTIC_DRY_RUN_THRESHOLD
      BY <2>1, <2>6 DEF Arrive, RegisterNewTask, Disconnect
    <2> QED
      BY <2>2, <2>3, <2>4, <2>5, <2>6 DEF Next
  <1> QED
    BY <1>1, <1>2, <1>3, RelayerTypes, PTL DEF Spec, SkipsOnlyAfterSuccesses

=============================================================================
