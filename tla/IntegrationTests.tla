-------------------------- MODULE IntegrationTests --------------------------
(***************************************************************************)
(* The integration tests of the contract and its Rust client: a test is a  *)
(* script of steps (deploy, prepare a call, change it, send it, assert),   *)
(* and the runner takes them one at a time on the contract of ShielderCalls*)
(* for every token, fee and memo the tests are instantiated with.  The test*)
(* "free" has no script: it takes the same steps in any order, so that     *)
(* calls are sent twice, changed, sent by somebody else, or prepared       *)
(* before the owner changes the fees or the revoker's key.                 *)
(***************************************************************************)
EXTENDS ShielderCalls

CONSTANTS
  InitialBalance,   \* of the actor and the deployer, in both tokens (U256::MAX in the tests)
  FreeLength        \* BOUND: steps of the test without a script

VARIABLES
  test,      \* [name, token, memo] under test
  steps,     \* what is left of the script
  left,      \* the number of steps left of the test without a script
  chain,     \* the contract, as in ShielderCalls
  account,   \* shielder_account
  calldata,  \* the call at hand
  sent,      \* the outcome of the last call sent: [result, event]
  prepared,  \* the call as it was prepared, with the chain's fees and key at that time
  passed     \* FALSE once an assertion of a test failed
vars == <<test, steps, left, chain, account, calldata, sent, prepared, passed>>

ZERO_PROTOCOL_FEES == [deposit |-> 0, withdraw |-> 0]
PROTOCOL_FEES == [deposit |-> 30, withdraw |-> 70]
Addresses == {"deployer", "actor", "recipient", "relayer", "fee_receiver", "reverting", "shielder"}
Tokens == {"native", "erc20"}

\* Points (x, y) by what the contract checks of them.
ANONYMITY_REVOKER_PKEY == "generator"
isValidGrumpkinPoint(key) == key \in {"generator", "another point"}

Zero == [of |-> prenullifier(0), mark |-> "zero"]
ZeroNote == Marked(NoteHash(0, prenullifier(0), 0, "native"), "zero")

prepare_account(address) ==
  IF address \in {"deployer", "actor"} THEN InitialBalance ELSE 0
\* The deployer has no test tokens.
InitialErc20(address) == IF address = "actor" THEN InitialBalance ELSE 0
Initial == [native |-> [a \in Addresses |-> prepare_account(a)],
            erc20 |-> [a \in Addresses |-> InitialErc20(a)]]

\* deploy_shielder_contract: initialize() leaves the contract paused.
Deployed(key) ==
  [version |-> contract_version, chain_id |-> 1, paused |-> TRUE, ar_key |-> key,
   bps |-> ZERO_PROTOCOL_FEES, notes |-> <<>>, nullifiers |-> <<>>,
   balance |-> Initial, allowance |-> [a \in Addresses |-> 0], block |-> 1]

NoCall == [kind |-> "none"]
Nothing == [result |-> "none", event |-> NoCall]

(***************************************************************************)
(* The steps of a script.                                                  *)
(***************************************************************************)
Deploy(key, expected) == [op |-> "deploy", key |-> key, expected |-> expected]
Unpause == [op |-> "unpause"]
SetProtocolFees(fees) == [op |-> "fees", fees |-> fees]
SetArPubkey(key, caller, expected) ==
  [op |-> "ar key", key |-> key, caller |-> caller, expected |-> expected]
ExpectArPubkey(key) == [op |-> "expect ar key", key |-> key]
Parameters(token, memo) == [op |-> "parameters", token |-> token, memo |-> memo]
Account(id) == [op |-> "account", id |-> id]
Prepare(kind, amount) == [op |-> "prepare", kind |-> kind, amount |-> amount,
  withdraw_address |-> "recipient", relayer_address |-> "relayer",
  relayer_fee |-> 0, pocket_money |-> 0]
prepare_args(amount, relayer_fee, pocket_money) ==
  [Prepare("Withdraw", amount) EXCEPT !.relayer_fee = relayer_fee, !.pocket_money = pocket_money]
Verify(call, input, expected) ==
  [op |-> "verify", proof |-> call.proof, input |-> input, expected |-> expected]
Handmade(c) == [op |-> "handmade", call |-> c]
Change(field, value) == [op |-> "change", field |-> field, value |-> value]
Invoke(sender, expected) == [op |-> "invoke", sender |-> sender, expected |-> expected]
ExpectEvent(fields) == [op |-> "expect event", fields |-> fields]
ExpectBalances(token, deltas) == [op |-> "expect balances", token |-> token, deltas |-> deltas]
ExpectShielded(amount) == [op |-> "expect shielded", amount |-> amount]

(***************************************************************************)
(* What a step does.                                                       *)
(***************************************************************************)
Assert_(b) == passed' = (passed /\ b)

RunDeploy(s) ==
  /\ s.op = "deploy"
  /\ Assert_(isValidGrumpkinPoint(s.key) = (s.expected = "Ok"))
  /\ chain' = IF isValidGrumpkinPoint(s.key) THEN Deployed(s.key) ELSE chain
  /\ UNCHANGED <<test, account, calldata, sent, prepared>>

\* The owner's calls of the tests, which expect them to succeed.
unpause_shielder(s) ==
  /\ s.op = "unpause"
  /\ chain' = [chain EXCEPT !.paused = FALSE]
  /\ UNCHANGED <<test, account, calldata, sent, prepared, passed>>
set_protocol_fees(s) ==
  /\ s.op = "fees"
  /\ chain' = [chain EXCEPT !.bps = s.fees]
  /\ UNCHANGED <<test, account, calldata, sent, prepared, passed>>

set_ar_pubkey(s) ==
  LET result == IF s.caller # "deployer" THEN "OwnableUnauthorizedAccount"
                ELSE IF ~isValidGrumpkinPoint(s.key) THEN "InvalidGrumpkinPoint" ELSE "Ok"
  IN /\ s.op = "ar key"
     /\ chain' = IF result = "Ok" THEN [chain EXCEPT !.ar_key = s.key] ELSE chain
     /\ Assert_(s.expected = result)
     /\ UNCHANGED <<test, account, calldata, sent, prepared>>

get_ar_pubkey(s) ==
  /\ s.op = "expect ar key"
  /\ Assert_(chain.ar_key = s.key)
  /\ UNCHANGED <<test, chain, account, calldata, sent, prepared>>

\* The loop of the gas measurement goes on with another token and memo.
SetParameters(s) ==
  /\ s.op = "parameters"
  /\ test' = [test EXCEPT !.token = s.token, !.memo = s.memo]
  /\ UNCHANGED <<chain, account, calldata, sent, prepared, passed>>

NewAccount(s) ==
  /\ s.op = "account"
  /\ account' = NewShielderAccount(s.id, test.token)
  /\ UNCHANGED <<test, chain, calldata, sent, prepared, passed>>

\* prepare_call of the three call modules: the fee the contract has now, the path of
\* the account's leaf now.  Without a leaf index the client panics: no step.
new_account_call(s) ==
  PrepareNewAccount(account, test.token, s.amount,
    [ar_key |-> ANONYMITY_REVOKER_PKEY, mac_salt |-> 0, caller |-> "actor",
     protocol_fee |-> compute_protocol_fee_from_gross(s.amount, chain.bps.deposit),
     memo |-> test.memo])
deposit_call(s) ==
  PrepareDeposit(account, test.token, s.amount,
    [merkle_path |-> GetMerklePath(chain, current_leaf_index(account)), mac_salt |-> 0,
     caller |-> "actor",
     protocol_fee |-> compute_protocol_fee_from_gross(s.amount, chain.bps.deposit),
     memo |-> test.memo])
withdraw_call(s) ==
  PrepareWithdraw(account, test.token, s.amount,
    [merkle_path |-> GetMerklePath(chain, current_leaf_index(account)),
     to |-> s.withdraw_address, relayer_address |-> s.relayer_address,
     relayer_fee |-> s.relayer_fee, contract_version |-> contract_version,
     chain_id |-> 1, mac_salt |-> 0, pocket_money |-> s.pocket_money,
     protocol_fee |-> compute_protocol_fee_from_gross(s.amount, chain.bps.withdraw),
     memo |-> test.memo])

prepare_call(s) ==
  /\ s.op = "prepare"
  /\ s.kind # "NewAccount" => current_leaf_index(account) # -1
  /\ calldata' = CASE s.kind = "NewAccount" -> new_account_call(s)
                   [] s.kind = "Deposit" -> deposit_call(s)
                   [] s.kind = "Withdraw" -> withdraw_call(s)
  /\ prepared' = [call |-> calldata', bps |-> chain.bps, ar_key |-> chain.ar_key]
  /\ UNCHANGED <<test, chain, account, sent, passed>>

UseHandmade(s) ==
  /\ s.op = "handmade"
  /\ calldata' = s.call
  /\ UNCHANGED <<test, chain, account, sent, prepared, passed>>

\* A field of the calldata overwritten by the test.
ChangeCalldata(s) ==
  /\ s.op = "change"
  /\ s.field \in DOMAIN calldata
  /\ calldata' = [calldata EXCEPT ![s.field] = s.value]
  /\ UNCHANGED <<test, chain, account, sent, prepared, passed>>

\* What the contract answers, and the chain after it.
invoke_shielder_call(on, c, sender) ==
  LET result == CallError(on, c, sender) IN
  IF result = "Ok"
  THEN [chain |-> Accepted(on, c, sender), result |-> "Ok", event |-> EventOf(on, c)]
  ELSE [chain |-> on, result |-> result, event |-> NoCall]

\* invoke_call: for the ERC20 the allowance of exactly the amount first; the event of
\* an accepted call is registered in the account.
invoke_call(s) ==
  LET approved == IF calldata.token = "native" \/ calldata.kind = "Withdraw" THEN chain
                  ELSE [chain EXCEPT !.allowance[s.sender] = calldata.amount]
      call == invoke_shielder_call(approved, calldata, s.sender)
  IN /\ s.op = "invoke"
     /\ chain' = call.chain
     /\ sent' = [result |-> call.result, event |-> call.event, sender |-> s.sender]
     /\ account' = IF call.result = "Ok" THEN register_action(account, call.event) ELSE account
     /\ Assert_(/\ s.expected \in {call.result, "any"}
                /\ call.result = "Ok" => can_register(account, call.event))
     /\ UNCHANGED <<test, calldata, prepared>>

assert_event(s) ==
  /\ s.op = "expect event"
  /\ Assert_(/\ \A f \in DOMAIN s.fields : sent.event[f] = s.fields[f]
             /\ sent.event.contractVersion = contract_version
             /\ sent.event.newNote = calldata.new_note
             /\ sent.event.mac = calldata.mac
             /\ sent.event.memo = calldata.memo)
  /\ UNCHANGED <<test, chain, account, calldata, sent, prepared>>

\* A verifier called by itself.
verify_with_contract(s) ==
  /\ s.op = "verify"
  /\ Assert_(verifyProof(s.proof, s.input) = s.expected)
  /\ UNCHANGED <<test, chain, account, calldata, sent, prepared>>

\* actor_balance_decreased_by, recipient_balance_increased_by, ...
assert_balances(s) ==
  /\ s.op = "expect balances"
  /\ Assert_(\A a \in DOMAIN s.deltas :
               chain.balance[s.token][a] = Initial[s.token][a] + s.deltas[a])
  /\ UNCHANGED <<test, chain, account, calldata, sent, prepared>>

assert_shielded(s) ==
  /\ s.op = "expect shielded"
  /\ Assert_(account.shielded_amount = s.amount)
  /\ UNCHANGED <<test, chain, account, calldata, sent, prepared>>

Run(s) ==
  \/ RunDeploy(s) \/ unpause_shielder(s) \/ set_protocol_fees(s)
  \/ set_ar_pubkey(s) \/ get_ar_pubkey(s) \/ SetParameters(s) \/ NewAccount(s)
  \/ prepare_call(s) \/ UseHandmade(s) \/ ChangeCalldata(s) \/ invoke_call(s)
  \/ verify_with_contract(s)
  \/ assert_event(s) \/ assert_balances(s) \/ assert_shielded(s)
=============================================================================
