----------------------------- MODULE ProverServer ----------------------------
(***************************************************************************)
(* The prover: an HTTP server on the host (shielder-prover-server) that    *)
(* forwards each request over a vsock connection of its own to the server  *)
(* in the trusted execution environment (shielder-prover-tee), which       *)
(* computes on the worker threads of its runtime.                          *)
(*                                                                         *)
(* The host runs a request as a task of a bounded pool: the request waits  *)
(* for a slot at most the spawn timeout, and holds it at most the run      *)
(* timeout.  A client that goes away ends the handler, not the task.  The  *)
(* environment may crash; it starts again with a new key pair.             *)
(***************************************************************************)
EXTENDS ClientCircuits, FiniteSets, Sequences, SequencesExt

CONSTANTS
  MaxRequests,   \* bound: HTTP requests
  Calls,         \* the proofs clients ask for: [circuit_type, values, user_public_key]
  Capacity,      \* task_pool_capacity
  Threads,       \* worker threads of the environment's runtime
  MaxRestarts    \* bound: crashes of the environment

ASSUME ProverAssumption ==
  /\ MaxRequests \in Nat \ {0} /\ Capacity \in Nat \ {0}
  /\ Threads \in Nat \ {0} /\ MaxRestarts \in Nat
  /\ \A call \in Calls : call.circuit_type \in CircuitTypes

VARIABLES
  http,    \* the requests: stage, request, connection, whether the client is gone, answer
  queue,   \* the requests that wait for a slot of the pool, first come first served
  conns,   \* the connections ever opened: open at the host, state at the environment
  tee      \* the environment: up, and its key pair

vars == <<http, queue, conns, tee>>

\* Numbered in the order of their arrival.
Requests == 1..MaxRequests

NoAnswer == [status |-> "none"]
Ok(response) == [status |-> "OK", response |-> response]
Error(status) == [status |-> status]

Ping == [kind |-> "Ping"]
TeePublicKey == [kind |-> "TeePublicKey"]
\* What a client sends, encrypted to the environment's key; it remembers the call.
payload(call) ==
  [circuit_type |-> call.circuit_type, user_public_key |-> call.user_public_key,
   circuit_inputs |-> witness(call.circuit_type, call.values)]
GenerateProof(key, call) ==
  [kind |-> "GenerateProof", key |-> key, payload |-> payload(call), call |-> call]

\* The keys clients may have: the ones the server answered.
Known ==
  {http[r].answer.response.public_key : r \in
     {r \in Requests : http[r].answer.status = "OK" /\ http[r].request.kind = "TeePublicKey"}}

ClientRequests ==
  {Ping, TeePublicKey} \union {GenerateProof(key, call) : key \in Known, call \in Calls}

(***************************************************************************)
(* The environment's answers.                                              *)
(***************************************************************************)
NoResponse == [kind |-> "none"]
Failure == [kind |-> "failure"]   \* the handler returns an error or panics

encrypt_bytes(key, bytes) == [for |-> key, bytes |-> bytes]

encrypted_proof_response(request, key) ==
  LET p == request.payload
  IN IF request.key # key \/ Panics(p.circuit_type, p.circuit_inputs) THEN Failure
     ELSE [kind |-> "EncryptedProof",
           proof |-> encrypt_bytes(p.user_public_key, prove(p.circuit_type, p.circuit_inputs)),
           pub_inputs |-> encrypt_bytes(p.user_public_key,
                                        pub_inputs(p.circuit_type, p.circuit_inputs))]

public_key_response(key) == [kind |-> "TeePublicKey", public_key |-> key]

HandleRequest(request, key) ==
  CASE request.kind = "Ping" -> [kind |-> "Pong"]
    [] request.kind = "TeePublicKey" -> public_key_response(key)
    [] request.kind = "GenerateProof" -> encrypted_proof_response(request, key)

(***************************************************************************)
(* The host.                                                               *)
(***************************************************************************)
\* Mutant: a client that goes away gives its slot back.
RunningWithClient == {r \in Requests : http[r].stage \in {"spawned", "connected"} /\ ~http[r].gone}

Running == {r \in Requests : http[r].stage \in {"spawned", "connected"}}

FreeSlots == Capacity - Cardinality(Running)
Position(r) == CHOOSE i \in 1..Len(queue) : queue[i] = r

\* The environment's handler ends when it waits for a request on a connection the host
\* has closed; a request already sent is still read.
Dropped(cs, c) ==
  IF c = 0 THEN cs
  ELSE [cs EXCEPT ![c].host = FALSE, ![c].tee = IF @ = "waiting" THEN "closed" ELSE @]

\* The task ends: its answer goes to the client that still waits, its slot and its
\* connection are freed.
Finish(r, answer) ==
  /\ http' = [http EXCEPT ![r].stage = "over",
                          ![r].answer = IF http[r].gone THEN NoAnswer ELSE answer]
  /\ conns' = Dropped(conns, http[r].conn)

Arrive(r) ==
  /\ http[r].stage = "none" /\ \A q \in 1..(r - 1) : http[q].stage # "none"
  /\ \E request \in ClientRequests :
       http' = [http EXCEPT ![r].stage = "queued", ![r].request = request]
  /\ queue' = Append(queue, r)
  /\ UNCHANGED <<conns, tee>>

Spawn ==
  /\ queue # <<>> /\ FreeSlots > 0
  /\ http' = [http EXCEPT ![Head(queue)].stage = "spawned"]
  /\ queue' = Tail(queue)
  /\ UNCHANGED <<conns, tee>>

\* No permit has reached the request in time.
SpawnTimeout(r) ==
  /\ http[r].stage = "queued" /\ Position(r) > FreeSlots
  /\ http' = [http EXCEPT ![r].stage = "over", ![r].answer = Error("GATEWAY_TIMEOUT")]
  /\ queue' = RemoveAt(queue, Position(r))
  /\ UNCHANGED <<conns, tee>>

\* Mutant: connections whose task has ended are used again.
ProverClientPooled(cs, request) ==
  LET idle == {c \in DOMAIN cs : ~cs[c].host /\ cs[c].tee \in {"sent", "busy"}}
  IN IF idle = {}
     THEN [id |-> Len(cs) + 1, conns |->
             Append(cs, [host |-> TRUE, tee |-> "sent", request |-> request,
                         response |-> NoResponse])]
     ELSE LET c == CHOOSE c \in idle : TRUE
          IN [id |-> c, conns |-> [cs EXCEPT ![c].host = TRUE]]

\* A new connection for each request, on which the request is sent.
ProverClient(cs, request) ==
  [id |-> Len(cs) + 1, conns |->
     Append(cs, [host |-> TRUE, tee |-> "sent", request |-> request, response |-> NoResponse])]

Connect(r) ==
  /\ http[r].stage = "spawned" /\ tee.up
  /\ LET client == ProverClient(conns, http[r].request)
     IN /\ http' = [http EXCEPT ![r].stage = "connected", ![r].conn = client.id]
        /\ conns' = client.conns
  /\ UNCHANGED <<queue, tee>>

\* Certainly while the environment is down; vsock may also refuse when it is up.
ConnectFails(r) ==
  /\ http[r].stage = "spawned"
  /\ Finish(r, Error("INTERNAL_SERVER_ERROR"))
  /\ UNCHANGED <<queue, tee>>

\* request() returns: the response, or Closed when the environment closed the connection.
Receive(r) ==
  /\ http[r].stage = "connected"
  /\ LET c == conns[http[r].conn]
     IN \/ c.response # NoResponse /\ Finish(r, Ok(c.response))
        \/ c.response = NoResponse /\ c.tee = "closed"
             /\ Finish(r, Error("INTERNAL_SERVER_ERROR"))
  /\ UNCHANGED <<queue, tee>>

\* Mutant: only the connecting is timed.
RunTimeoutConnecting(r) ==
  /\ http[r].stage = "spawned"
  /\ Finish(r, Error("GATEWAY_TIMEOUT"))
  /\ UNCHANGED <<queue, tee>>

\* The run timeout drops the task's future, and its connection with it.
RunTimeout(r) ==
  /\ http[r].stage \in {"spawned", "connected"}
  /\ Finish(r, Error("GATEWAY_TIMEOUT"))
  /\ UNCHANGED <<queue, tee>>

\* The client goes away: the handler is dropped.  A queued request leaves the queue; a
\* task runs on.
Disconnect(r) ==
  /\ ~http[r].gone
  /\ \/ /\ http[r].stage = "queued"
        /\ http' = [http EXCEPT ![r].gone = TRUE, ![r].stage = "over"]
        /\ queue' = RemoveAt(queue, Position(r))
     \/ /\ http[r].stage \in {"spawned", "connected"}
        /\ http' = [http EXCEPT ![r].gone = TRUE]
        /\ UNCHANGED queue
  /\ UNCHANGED <<conns, tee>>

(***************************************************************************)
(* The environment.                                                        *)
(***************************************************************************)
Busy == {c \in DOMAIN conns : conns[c].tee = "busy"}

\* A request is read on a free thread; the connection of a host that is gone may be
\* reset before.
Take(c) ==
  /\ conns[c].tee = "sent"
  /\ \/ Cardinality(Busy) < Threads /\ conns' = [conns EXCEPT ![c].tee = "busy"]
     \/ ~conns[c].host /\ conns' = [conns EXCEPT ![c].tee = "closed"]
  /\ UNCHANGED <<http, queue, tee>>

\* handle_request: an error, a panic or a send to a host that is gone ends the handler.
Answer(c) ==
  /\ conns[c].tee = "busy"
  /\ LET response == HandleRequest(conns[c].request, tee.key)
     IN conns' = IF response = Failure \/ ~conns[c].host
                 THEN [conns EXCEPT ![c].tee = "closed"]
                 ELSE [conns EXCEPT ![c].tee = "waiting", ![c].response = response]
  /\ UNCHANGED <<http, queue, tee>>

Crash ==
  /\ tee.up /\ tee.key <= MaxRestarts
  /\ tee' = [tee EXCEPT !.up = FALSE]
  /\ conns' = [c \in DOMAIN conns |-> [conns[c] EXCEPT !.tee = "closed"]]
  /\ UNCHANGED <<http, queue>>

NewServer ==
  /\ ~tee.up
  /\ tee' = [up |-> TRUE, key |-> tee.key + 1]
  /\ UNCHANGED <<http, queue, conns>>

Over ==
  /\ \A r \in Requests : http[r].stage = "over"
  /\ UNCHANGED vars

Init ==
  /\ http = [r \in Requests |-> [stage |-> "none", request |-> Ping, conn |-> 0,
                                 gone |-> FALSE, answer |-> NoAnswer]]
  /\ queue = <<>>
  /\ conns = <<>>
  /\ tee = [up |-> TRUE, key |-> 1]

HostStep(r) == Connect(r) \/ ConnectFails(r) \/ Receive(r)

Next ==
  \/ \E r \in Requests : Arrive(r) \/ SpawnTimeout(r) \/ HostStep(r) \/ RunTimeout(r)
                          \/ Disconnect(r)
  \/ Spawn
  \/ \E c \in DOMAIN conns : Take(c) \/ Answer(c)
  \/ Crash \/ NewServer
  \/ Over

\* The host's runtime polls its tasks and its timers fire; nothing is assumed of the
\* environment.
Spec ==
  /\ Init /\ [][Next]_vars
  /\ WF_vars(Spawn)
  /\ \A r \in Requests : WF_vars(SpawnTimeout(r)) /\ WF_vars(RunTimeout(r))

-----------------------------------------------------------------------------
\* Each answer is the answer to the very request of the client that gets it, from the
\* bytes of its own payload and encrypted to its own key: the late answer to a request
\* that timed out reaches nobody, whatever was restarted meanwhile (handlers/mod.rs
\* request, Server::encrypted_proof_response).
AnswersOwnRequest ==
  \A r \in Requests :
    LET q == http[r].request
        a == http[r].answer
    IN a.status = "OK" =>
         CASE q.kind = "Ping" -> a.response.kind = "Pong"
           [] q.kind = "TeePublicKey" ->
                a.response.kind = "TeePublicKey" /\ a.response.public_key \in 1..tee.key
           [] q.kind = "GenerateProof" ->
                /\ a.response.kind = "EncryptedProof"
                /\ a.response.proof.for = q.payload.user_public_key
                /\ a.response.pub_inputs =
                     encrypt_bytes(q.payload.user_public_key,
                       pub_inputs(q.payload.circuit_type, q.payload.circuit_inputs))

\* The fields a client chooses that are public.
Chosen(circuit) ==
  {"commitment", "tokenAddress", "macSalt"} \union
    IF circuit = "NewAccount"
    THEN {"initialDeposit", "anonymityRevokerPublicKeyX", "anonymityRevokerPublicKeyY"}
    ELSE {"value"}

\* A client may trust the environment as it would trust itself.  The environment copies
\* the conversions of the bindings, twice for each circuit, by name; the bindings take
\* their arguments by position.  Still the proof and the public inputs of an answer, as
\* the light client reads them, are the ones the client would compute from the same
\* values by itself; they verify in the bindings exactly if these values satisfy the
\* circuit; and the public inputs hold what the client chose (the light client itself
\* never verifies: its verify returns true).
AnsweredProofsVerify ==
  \A r \in Requests :
    LET a == http[r].answer
        circuit == http[r].request.call.circuit_type
        values == http[r].request.call.values
        proof == a.response.proof.bytes
        pubInputs == TeePubInputs(circuit, a.response.pub_inputs.bytes)
    IN a.status = "OK" /\ http[r].request.kind = "GenerateProof" /\ "proof" \in DOMAIN a.response =>
         /\ [proof |-> proof, pubInputs |-> pubInputs] = WasmProve(circuit, values)
         /\ WasmVerify(circuit, proof, pubInputs) <=> Satisfies(circuit, values)
         /\ \A f \in Chosen(circuit) : pubInputs[f].value = values[f].value

\* The host never has more connections open than the pool has slots, "the limit of
\* vsock connections": not when clients leave, tasks time out or the environment
\* restarts (command_line_args.rs task_pool_capacity).
ConnectionsBounded == Cardinality({c \in DOMAIN conns : conns[c].host}) <= Capacity

\* Every request leaves the server, answered unless its client left, and gives back its
\* slot, however long the environment computes and whether or not it restarts: the two
\* timeouts suffice (main.rs with_spawn_timeout, with_run_timeout).
RequestsEnd == \A r \in Requests : http[r].stage = "queued" ~> http[r].stage = "over"
=============================================================================
