----------------------------- MODULE ShielderCli -----------------------------
(***************************************************************************)
(* The command line client (shielder-cli) on top of the Rust contract      *)
(* client (shielder-contract).  Every invocation is a process of its own:  *)
(* it reads the state file, works on the copy it read, talks to the node   *)
(* or to a relayer, and writes the file back ONLY if the command succeeds. *)
(* There is no lock on the file, the write truncates it first, and a       *)
(* process may stop at any moment: a crash, a panic or a failed request.   *)
(*                                                                         *)
(* A transaction waits in the mempool; a block holds one or two, those of   *)
(* one sender in the order they were sent; another user and the owner of   *)
(* the contract have transactions in the same blocks.                      *)
(***************************************************************************)
EXTENDS ShielderCalls, FiniteSets, FiniteSetsExt

CONSTANTS
  Processes, Files,
  Commands,       \* the commands users give: [name, token, amount, seed] (see MCShielderCli)
  RelayerFee,     \* what the relayer quotes, in the token of the withdrawal
  NewBps,         \* the protocol fees the owner sets
  MaxCommands, MaxForeign, MaxFeeChanges, MaxStops

\* Of the accounts some behaviours start with, the contract can hold what is in them.
InitialAmount == 3

Contract == {"NewAccount", "Deposit", "Withdraw"}
Settings == {"NodeUrl", "ContractAddress", "RelayerUrl"}

ASSUME CliAssumption ==
  /\ MaxCommands \in Nat /\ MaxForeign \in Nat /\ MaxFeeChanges \in Nat /\ MaxStops \in Nat
  /\ RelayerFee \in Nat /\ NewBps \in 0..(MaxBps - 1) /\ MaxAmount >= InitialAmount
  /\ \A cmd \in Commands :
       cmd.name \in Contract \union Settings \union {"Initialize", "Read", "RecoverState"}

VARIABLES
  file,      \* file -> its content
  proc,      \* process -> the invocation it runs
  chain,     \* the contract, as ShielderCalls has it
  blocks,    \* block number -> sequence of executed transactions
  log,       \* history: account id -> the events of its accepted calls, in their order
  pending,   \* the mempool
  used       \* what each bound has been spent on

vars == <<file, proc, chain, blocks, log, pending, used>>

Tokens == {"native", "erc20"}
NoFee == -1

(***************************************************************************)
(* The state file.                                                         *)
(***************************************************************************)
Missing == [status |-> "missing"]
Truncated == [status |-> "truncated"]
Saved(state) == [status |-> "ok", state |-> state]

NewAppState ==
  [accounts |-> [t \in {} |-> {}], settings |-> {},
   protocol_fees |-> [deposit |-> NoFee, withdraw |-> NoFee]]

default_zkid_seed(token) == <<"key", token>>

ensure_account_exist(state, token, seed) ==
  LET id == IF seed = "None" THEN default_zkid_seed(token) ELSE <<"seed", seed>>
  IN IF token \in DOMAIN state.accounts THEN state
     ELSE [state EXCEPT !.accounts = Extended(@, token, NewShielderAccount(id, token))]

(***************************************************************************)
(* The contract client.                                                    *)
(***************************************************************************)
Setting(command) ==
  CASE command = "NodeUrl" -> "node" [] command = "ContractAddress" -> "contract"
    [] command = "RelayerUrl" -> "relayer"

\* A call needs a node and the address of the contract.
CanCall(state) == {"node", "contract"} \subseteq state.settings

Mined == UNION {Range(blocks[b]) : b \in DOMAIN blocks}
MinedTx(id) == CHOOSE tx \in Mined : tx.id = id
IsMined(id) == \E tx \in Mined : tx.id = id

\* Mutant: looks for the event of a deposit after a withdrawal.
get_event_copied(tx, kind) ==
  IF tx.ok /\ tx.event.kind = (IF kind = "Withdraw" THEN "Deposit" ELSE kind)
  THEN <<tx.event>> ELSE <<>>

\* <<event>>, or <<>> for EventNotFound: a reverted transaction has no logs.
get_event(tx, kind) ==
  IF tx.ok /\ tx.event.kind = kind THEN <<tx.event>> ELSE <<>>

\* The transactions of a block at which the search for a nullifier stops.
check_if_tx_is_shielder_action(tx, nullifier) ==
  /\ tx.kind = "call"
  /\ \/ get_event(tx, tx.call) = <<>>
     \/ tx.nullifier = nullifier

\* Mutant: the offset for null detection is kept.
get_block_with_offset(nullifier) ==
  IF Spent(chain, nullifier) THEN <<chain.nullifiers[nullifier]>> ELSE <<>>

get_block_of_nullifier_spending(nullifier) ==
  IF Spent(chain, nullifier) THEN <<chain.nullifiers[nullifier] - 1>> ELSE <<>>

\* What has been mined stays, so the nullifier and its block are read at once.  "Err" is
\* an error of the search: the node does not have the block, or EventNotFound.
get_shielder_action(nullifier) ==
  LET found == get_block_of_nullifier_spending(nullifier)
      block == IF found = <<>> \/ Head(found) \notin DOMAIN blocks THEN <<>> ELSE blocks[Head(found)]
      stops == {i \in DOMAIN block : check_if_tx_is_shielder_action(block[i], nullifier)}
  IN IF found # <<>> /\ Head(found) \notin DOMAIN blocks THEN [result |-> "Err"]
     ELSE IF stops = {} THEN [result |-> "None"]
     ELSE LET tx == block[Min(stops)]
              event == get_event(tx, tx.call)
          IN IF event = <<>> THEN [result |-> "Err"]
             ELSE [result |-> "Some", event |-> Head(event)]

NextId == used.txs + 1
Send(tx) == pending' = pending \union {[tx EXCEPT !.id = NextId]}

\* Filling the gas limit runs the call on the current state: what would revert now
\* is refused before it is sent.
CanSend(call, sender) == CallError(chain, call, sender) = "Ok"
CallTx(call, sender) == [id |-> 0, kind |-> "call", sender |-> sender, call |-> call]

(***************************************************************************)
(* Invocations.                                                            *)
(***************************************************************************)
NoCall == [kind |-> "none"]
Idle ==
  [pc |-> "idle", cmd |-> [name |-> "none"], file |-> "none", mem |-> NewAppState, seen |-> 0,
   call |-> NoCall, fee |-> 0, tx |-> 0]

Goto(p, pc) == proc' = [proc EXCEPT ![p].pc = pc]
End(p) == proc' = [proc EXCEPT ![p] = Idle]
Account(p) == proc[p].mem.accounts[proc[p].cmd.token]

\* The events of the account with the given id, in the order of the chain.
EventsIn(logged, id) == IF id \in DOMAIN logged THEN logged[id] ELSE <<>>
EventsOf(id) == EventsIn(log, id)

\* main: Initialize does not read the file; every other command does and fails on a
\* file that is missing or was truncated.
Start(p) ==
  /\ proc[p].pc = "idle" /\ used.commands < MaxCommands
  /\ \E f \in Files, cmd \in Commands :
       LET ensured == ensure_account_exist(file[f].state, cmd.token, cmd.seed)
           mem == IF cmd.name \in Contract \union {"RecoverState"} THEN ensured
                  ELSE file[f].state
       IN \/ /\ cmd.name = "Initialize"
             /\ proc' = [proc EXCEPT ![p] = [Idle EXCEPT !.pc = "create", !.cmd = cmd, !.file = f]]
          \/ /\ cmd.name # "Initialize" /\ file[f].status = "ok"
             /\ proc' = [proc EXCEPT ![p] =
                  [Idle EXCEPT !.pc = cmd.name, !.cmd = cmd, !.file = f, !.mem = mem,
                               !.seen = IF cmd.name = "RecoverState"
                                        THEN Len(EventsOf(mem.accounts[cmd.token].id)) ELSE 0]]
  /\ used' = [used EXCEPT !.commands = @ + 1]
  /\ UNCHANGED <<file, chain, blocks, log, pending>>

\* File::create, then the write.
create_and_save_new_state(p) ==
  /\ proc[p].pc = "create"
  /\ file' = [file EXCEPT ![proc[p].file] = Truncated]
  /\ Goto(p, "write")
  /\ UNCHANGED <<chain, blocks, log, pending, used>>

WithSetting(state, setting) == [state EXCEPT !.settings = @ \union {setting}]

\* The commands that set an address; the relayer's is saved only if it answers.
perform_state_write_action(p) ==
  /\ proc[p].pc \in Settings
  /\ proc' = [proc EXCEPT ![p] =
       [proc[p] EXCEPT !.mem = WithSetting(@, Setting(proc[p].pc)), !.pc = "save"]]
  /\ UNCHANGED <<file, chain, blocks, log, pending, used>>

\* Nothing is saved.
perform_state_read_action(p) ==
  /\ proc[p].pc = "Read"
  /\ End(p)
  /\ UNCHANGED <<file, chain, blocks, log, pending, used>>

\* The fee the client computes with: one it kept, or the contract's.
FeesOf(p, kind) ==
  LET cached == proc[p].mem.protocol_fees[kind]
  IN IF cached # NoFee THEN cached ELSE chain.bps[kind]

Kept(fees, kind, bps) == [fees EXCEPT ![kind] = bps]
WithFee(p, kind, bps) == [proc[p].mem EXCEPT !.protocol_fees = Kept(@, kind, bps)]

\* A call is ready to be sent, with the fee the client will register.
Ready(p, pc, mem, call, fee) ==
  proc' = [proc EXCEPT ![p] = [proc[p] EXCEPT !.pc = pc, !.mem = mem, !.call = call, !.fee = fee]]

\* new_account: the revoker's key and the fee are read, and the call is proved.  A fee
\* that was read once is kept.
PrepareNewAccountCall(p) ==
  LET bps == FeesOf(p, "deposit")
      token == proc[p].cmd.token
      fee == compute_protocol_fee_from_net(proc[p].cmd.amount, bps)
      call == PrepareNewAccount(Account(p), token, proc[p].cmd.amount + fee,
                [ar_key |-> chain.ar_key, mac_salt |-> "salt", caller |-> "user",
                 protocol_fee |-> fee, memo |-> "memo"])
  IN /\ proc[p].pc = "NewAccount" /\ CanCall(proc[p].mem)
     /\ Ready(p, IF token = "native" THEN "send" ELSE "approve", WithFee(p, "deposit", bps), call, fee)
     /\ UNCHANGED <<file, chain, blocks, log, pending, used>>

\* deposit: panics on an account without actions.
PrepareDepositCall(p) ==
  LET bps == FeesOf(p, "deposit")
      token == proc[p].cmd.token
      fee == compute_protocol_fee_from_net(proc[p].cmd.amount, bps)
      call == PrepareDeposit(Account(p), token, proc[p].cmd.amount + fee,
                [merkle_path |-> GetMerklePath(chain, current_leaf_index(Account(p))),
                 mac_salt |-> "salt", caller |-> "user", protocol_fee |-> fee,
                 memo |-> "memo"])
  IN /\ proc[p].pc = "Deposit" /\ CanCall(proc[p].mem)
     /\ current_leaf_index(Account(p)) # -1
     /\ Ready(p, "send", WithFee(p, "deposit", bps), call, fee)
     /\ UNCHANGED <<file, chain, blocks, log, pending, used>>

\* withdraw, up to the request to the relayer.
PrepareWithdrawCall(p) ==
  LET bps == FeesOf(p, "withdraw")
      token == proc[p].cmd.token
      net == proc[p].cmd.amount + RelayerFee
      fee == compute_protocol_fee_from_net(net, bps)
      call == PrepareWithdraw(Account(p), token, net + fee,
                [merkle_path |-> GetMerklePath(chain, current_leaf_index(Account(p))),
                 to |-> "to", relayer_address |-> "relayer", relayer_fee |-> RelayerFee,
                 contract_version |-> contract_version, chain_id |-> chain.chain_id,
                 mac_salt |-> "salt", pocket_money |-> IF token = "native" THEN 0 ELSE 1,
                 protocol_fee |-> fee, memo |-> "memo"])
  IN /\ proc[p].pc = "Withdraw"
     /\ "relayer" \in proc[p].mem.settings /\ CanCall(proc[p].mem)
     /\ net + fee <= Account(p).shielded_amount
     /\ current_leaf_index(Account(p)) # -1
     /\ Ready(p, "relay", WithFee(p, "withdraw", bps), call, fee)
     /\ UNCHANGED <<file, chain, blocks, log, pending, used>>

\* The token is approved, and mined, before an account is created with it.
approve_erc20(p) ==
  /\ proc[p].pc = "approve"
  /\ Send([id |-> 0, kind |-> "approve", sender |-> "user"])
  /\ proc' = [proc EXCEPT ![p] = [proc[p] EXCEPT !.pc = "approving", !.tx = NextId]]
  /\ used' = [used EXCEPT !.txs = @ + 1]
  /\ UNCHANGED <<file, chain, blocks, log>>

Approved(p) ==
  /\ proc[p].pc = "approving" /\ IsMined(proc[p].tx)
  /\ Goto(p, "send")
  /\ UNCHANGED <<file, chain, blocks, log, pending, used>>

\* Of a call that is sent the client needs no more than what it registers.
Action(call) == [kind |-> call.kind, amount |-> call.amount, token |-> call.token]

\* Call: sends the transaction and waits for its receipt.  The relayer: it sends the
\* transaction and answers with its hash at once, and the client asks for the receipt.
SendCall(p) ==
  LET sender == IF proc[p].pc = "send" THEN "user" ELSE "relayer"
  IN /\ proc[p].pc \in {"send", "relay"}
     /\ CanSend(proc[p].call, sender)
     /\ Send(CallTx(proc[p].call, sender))
     /\ proc' = [proc EXCEPT ![p] =
          [proc[p] EXCEPT !.pc = IF sender = "user" THEN "watch" ELSE "receipt",
                          !.tx = NextId, !.call = Action(proc[p].call)]]
     /\ used' = [used EXCEPT !.txs = @ + 1]
     /\ UNCHANGED <<file, chain, blocks, log>>

\* Mutant: the fee is not passed on.
LocalEventWithoutFee(p, event) ==
  [kind |-> proc[p].call.kind, amount |-> proc[p].call.amount, token |-> proc[p].call.token,
   newNoteIndex |-> event.newNoteIndex, protocolFee |-> 0]

\* The client registers what IT computed; only the index of the note is the event's.
LocalEvent(p, event) ==
  [kind |-> proc[p].call.kind, amount |-> proc[p].call.amount, token |-> proc[p].call.token,
   newNoteIndex |-> event.newNoteIndex, protocolFee |-> proc[p].fee]

After(accounts, token, event) == [accounts EXCEPT ![token] = register_action(@, event)]
WithAction(state, token, event) == [state EXCEPT !.accounts = After(@, token, event)]

Register(p, event, pc) ==
  proc' = [proc EXCEPT ![p] =
    [proc[p] EXCEPT !.pc = pc, !.mem = WithAction(@, proc[p].cmd.token, event)]]

\* The receipt of a reverted transaction is a receipt too, but has no event.
Receipt(p) ==
  /\ proc[p].pc \in {"watch", "receipt"} /\ IsMined(proc[p].tx)
  /\ LET event == get_event(MinedTx(proc[p].tx), proc[p].call.kind)
     IN IF event # <<>> /\ can_register(Account(p), LocalEvent(p, Head(event)))
        THEN Register(p, LocalEvent(p, Head(event)), "save")
        ELSE End(p)
  /\ UNCHANGED <<file, chain, blocks, log, pending, used>>

\* get_block_hash: five attempts.
NoReceipt(p) ==
  /\ proc[p].pc = "receipt" /\ ~IsMined(proc[p].tx)
  /\ End(p)
  /\ UNCHANGED <<file, chain, blocks, log, pending, used>>

\* recover_state: one turn of its loop.
recover_state(p) ==
  LET found == get_shielder_action(Hashed(previous_nullifier(Account(p))))
  IN /\ proc[p].pc = "RecoverState" /\ CanCall(proc[p].mem)
     /\ \/ /\ found.result = "Some" /\ can_register(Account(p), found.event)
           /\ Register(p, found.event, "RecoverState")
        \/ found.result = "None" /\ Goto(p, "save")
        \/ found.result = "Err" /\ End(p)
     /\ UNCHANGED <<file, chain, blocks, log, pending, used>>

\* A request that fails: no node, no relayer, a call that would revert, too little
\* money, an account without actions, an action of another token.  The command ends
\* and nothing is saved.
Refused(p) ==
  /\ \/ proc[p].pc \in Contract \union {"RecoverState"} /\ ~CanCall(proc[p].mem)
     \/ proc[p].pc = "Deposit" /\ current_leaf_index(Account(p)) = -1
     \/ proc[p].pc = "Withdraw" /\
          \/ "relayer" \notin proc[p].mem.settings
          \/ LET net == proc[p].cmd.amount + RelayerFee
             IN net + compute_protocol_fee_from_net(net, FeesOf(p, "withdraw"))
                  > Account(p).shielded_amount
     \/ proc[p].pc = "send" /\ ~CanSend(proc[p].call, "user")
     \/ proc[p].pc = "relay" /\ ~CanSend(proc[p].call, "relayer")
     \/ /\ proc[p].pc = "RecoverState" /\ CanCall(proc[p].mem)
        /\ LET found == get_shielder_action(Hashed(previous_nullifier(Account(p))))
           IN found.result = "Some" /\ ~can_register(Account(p), found.event)
  /\ End(p)
  /\ UNCHANGED <<file, chain, blocks, log, pending, used>>

\* save_app_state: fs::write truncates the file, then fills it.
BeginSave(p) ==
  /\ proc[p].pc = "save"
  /\ file' = [file EXCEPT ![proc[p].file] = Truncated]
  /\ Goto(p, "write")
  /\ UNCHANGED <<chain, blocks, log, pending, used>>

EndSave(p) ==
  /\ proc[p].pc = "write"
  /\ file' = [file EXCEPT ![proc[p].file] = Saved(proc[p].mem)]
  /\ End(p)
  /\ UNCHANGED <<chain, blocks, log, pending, used>>

\* The process is killed or a request times out, between any two of its steps.
Stop(p) ==
  /\ proc[p].pc # "idle" /\ used.stops < MaxStops
  /\ End(p)
  /\ used' = [used EXCEPT !.stops = @ + 1]
  /\ UNCHANGED <<file, chain, blocks, log, pending>>

(***************************************************************************)
(* The chain and its other users.                                          *)
(***************************************************************************)
\* Another user creates an account; sent once more, the call reverts.
ForeignTx ==
  LET fee == compute_protocol_fee_from_net(1, chain.bps.deposit)
  IN CallTx(PrepareNewAccount(NewShielderAccount(<<"foreign", "native">>, "native"), "native",
              1 + fee, [ar_key |-> chain.ar_key, mac_salt |-> "salt", caller |-> "foreign",
                        protocol_fee |-> fee, memo |-> "memo"]), "foreign")
FeesTx == [id |-> 0, kind |-> "fees", sender |-> "owner"]

Others == {tx \in {ForeignTx, FeesTx} :
             IF tx.kind = "fees" THEN used.fees < MaxFeeChanges ELSE used.foreign < MaxForeign}

\* An unlimited allowance.
Allowance == 10 * MaxAmount
Allowed(allowance, from) == [allowance EXCEPT ![from] = Allowance]

\* What is mined: of a call, the function that is called, the nullifier it spends and
\* its event, if it did not revert.
MinedCall(c, tx) ==
  LET ok == CallError(c, tx.call, tx.sender) = "Ok"
  IN [id |-> tx.id, kind |-> "call", call |-> tx.call.kind, nullifier |-> NullifierOf(tx.call),
      ok |-> ok, event |-> IF ok THEN EventOf(c, tx.call) ELSE NoCall]

Logged(logged, event) ==
  LET id == event.newNote.of.id
  IN [Extended(logged, id, <<>>) EXCEPT ![id] = Append(@, event)]

\* A block as far as it is executed: the chain after it, its transactions, the log.
Executed(done, tx) ==
  LET c == done.chain
      mined == IF tx.kind = "call" THEN MinedCall(c, tx) ELSE [id |-> tx.id, kind |-> tx.kind]
      accepted == tx.kind = "call" /\ mined.ok
  IN [chain |-> CASE tx.kind = "approve" -> [c EXCEPT !.allowance = Allowed(@, tx.sender)]
                  [] tx.kind = "fees" -> [c EXCEPT !.bps = [deposit |-> NewBps, withdraw |-> NewBps]]
                  [] tx.kind = "call" -> IF accepted THEN Accepted(c, tx.call, tx.sender) ELSE c,
      txs |-> Append(done.txs, mined),
      log |-> IF accepted THEN Logged(done.log, mined.event) ELSE done.log]

InOrder(batch) ==
  \A i \in DOMAIN batch : \A tx \in pending :
    (tx.sender = batch[i].sender /\ tx.id < batch[i].id) =>
      \E j \in 1..(i - 1) : batch[j] = tx

Batches ==
  LET txs == pending \union Others
  IN {<<tx>> : tx \in pending}
       \union {<<tx1, tx2>> : tx1 \in txs, tx2 \in txs}

\* The block is executed.
ExecutedBlock(batch) ==
  LET first == Executed([chain |-> [chain EXCEPT !.block = @ + 1], txs |-> <<>>, log |-> log],
                        batch[1])
  IN IF Len(batch) = 1 THEN first ELSE Executed(first, batch[2])

Sent(batch, sender) == Cardinality({tx \in Range(batch) : tx.sender = sender})

\* A block holds one or two transactions, one of them a client's.
Mine ==
  /\ \E batch \in Batches :
       /\ Range(batch) \intersect pending # {}
       /\ IsInjective(batch) /\ InOrder(batch)
       /\ \E done \in {ExecutedBlock(batch)} :
            /\ chain' = done.chain
            /\ blocks' = Extended(blocks, chain.block + 1, done.txs)
            /\ log' = done.log
       /\ pending' = pending \ Range(batch)
       /\ used' = [used EXCEPT !.foreign = @ + Sent(batch, "foreign"), !.fees = @ + Sent(batch, "owner")]
  /\ UNCHANGED <<file, proc>>

(***************************************************************************)
(* The specification.  A state file is missing, or has been configured.    *)
(***************************************************************************)
Configured == [NewAppState EXCEPT !.settings = {"node", "contract", "relayer"}]
Addresses == {"user", "foreign", "relayer", "shielder", "fee_receiver", "to"}

EmptyChain ==
  [version |-> contract_version, chain_id |-> 1, paused |-> FALSE, ar_key |-> "key",
   bps |-> [deposit |-> 0, withdraw |-> 0], notes |-> <<>>, nullifiers |-> [h \in {} |-> 0],
   balance |-> [t \in Tokens |-> [a \in Addresses |-> 0]],
   allowance |-> [a \in Addresses |-> 0], block |-> 0]

\* An account created with an amount of a token by an earlier invocation.
CreatedState(token) == ensure_account_exist(Configured, token, "None")
Created(token) ==
  Executed(
    Executed([chain |-> [EmptyChain EXCEPT !.block = 1], txs |-> <<>>, log |-> [id \in {} |-> <<>>]],
             [id |-> 0, kind |-> "approve", sender |-> "user"]),
    CallTx(PrepareNewAccount(CreatedState(token).accounts[token], token, InitialAmount,
             [ar_key |-> "key", mac_salt |-> "salt", caller |-> "user",
              protocol_fee |-> 0, memo |-> "memo"]), "user"))
CreatedAndSaved(token) == WithAction(CreatedState(token), token, Created(token).txs[2].event)

Init ==
  /\ \/ /\ file \in [Files -> {Missing, Saved(Configured)}]
        /\ chain = EmptyChain /\ blocks = [b \in {} |-> <<>>] /\ log = [id \in {} |-> <<>>]
     \/ \E token \in Tokens :
          /\ file \in [Files -> {Saved(CreatedState(token)), Saved(CreatedAndSaved(token))}]
          /\ \E done \in {Created(token)} :
               chain = done.chain /\ blocks = [b \in 1..1 |-> done.txs] /\ log = done.log
  /\ proc = [p \in Processes |-> Idle]
  /\ pending = {}
  /\ used = [commands |-> 0, stops |-> 0, foreign |-> 0, fees |-> 0, txs |-> 0]

Step(p) ==
  \/ create_and_save_new_state(p) \/ perform_state_write_action(p)
  \/ perform_state_read_action(p) \/ PrepareNewAccountCall(p) \/ PrepareDepositCall(p)
  \/ PrepareWithdrawCall(p) \/ approve_erc20(p) \/ Approved(p) \/ SendCall(p)
  \/ Receipt(p) \/ NoReceipt(p) \/ recover_state(p) \/ Refused(p)
  \/ BeginSave(p) \/ EndSave(p)

\* No invocation runs.  A state in which one runs and nothing can happen is a deadlock:
\* the bounds make every behaviour finite, so that without one every command ends.
Rest == (\A p \in Processes : proc[p].pc = "idle") /\ UNCHANGED vars

Next ==
  \/ \E p \in Processes : Start(p) \/ Step(p) \/ Stop(p)
  \/ Mine
  \/ Rest

Spec == Init /\ [][Next]_vars

(***************************************************************************)
(* Properties.                                                             *)
(***************************************************************************)
\* An account as the chain has it after its first n actions.
Replay(id, token, events) ==
  LET after[n \in 0..Len(events)] ==
        IF n = 0 THEN NewShielderAccount(id, token) ELSE register_action(after[n - 1], events[n])
  IN  after

States == {file[f].state : f \in {g \in Files : file[g].status = "ok"}}
            \union {proc[p].mem : p \in {q \in Processes : proc[q].pc # "idle"}}

\* What a client keeps of an account is what the chain had after some number of its
\* actions, whatever invocations run at once, stop half way, lose the answer to a
\* transaction that is mined later, or compute with a protocol fee they kept while
\* the owner changed it: the client registers its own amount and fee, not the
\* event's (new_account.rs:76-86, deposit.rs:81-91, withdraw.rs:99-110).
LocalIsPrefix ==
  \A state \in States : \A t \in DOMAIN state.accounts :
    LET account == state.accounts[t]
        events == EventsOf(account.id)
    IN account.nonce \in 0..Len(events) /\ account = Replay(account.id, t, events)[account.nonce]

\* A RecoverState that gets as far as saving has every action that was on the chain
\* when it began (recovery.rs:28-36), also from a file another invocation, or another
\* device with the same key, has left behind.
RecoveryCoversChain ==
  \A p \in Processes :
    (/\ proc[p].pc \in {"save", "write"}
     /\ proc[p].cmd.name = "RecoverState") => Account(p).nonce >= proc[p].seen

\* A spent nullifier leads to the event of the call that spent it, in a block that
\* holds transactions of others too.  The search gives up only in a block in which a
\* call of the contract that reverted comes first (recovery.rs:43-58: get_event fails
\* for it, and the error ends the search).
RecoveryFindsAction ==
  \A h \in DOMAIN chain.nullifiers :
    LET found == get_shielder_action(h)
        block == blocks[chain.nullifiers[h] - 1]
        own == CHOOSE i \in DOMAIN block :
                 block[i].kind = "call" /\ block[i].ok /\ block[i].nullifier = h
        reverted == \E i \in 1..(own - 1) : block[i].kind = "call" /\ ~block[i].ok
    IN IF reverted THEN found.result = "Err"
       ELSE found.result = "Some" /\ found.event = block[own].event
=============================================================================
