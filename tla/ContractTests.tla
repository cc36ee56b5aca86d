---------------------------- MODULE ContractTests ----------------------------
(***************************************************************************)
(* The scripts of the integration tests, the runner that takes them, and   *)
(* what they are to show.  Amounts are those of the tests; 2^112 - 1 is    *)
(* MaxAmount.                                                              *)
(***************************************************************************)
EXTENDS IntegrationTests

Fee(amount, bps) == compute_protocol_fee_from_gross(amount, bps)
SetUp == <<Deploy(ANONYMITY_REVOKER_PKEY, "Ok"), Unpause>>
WithFees(fees) == SetUp \o <<SetProtocolFees(fees)>>
create_account_and_call(id, amount, expected) ==
  <<Account(id), Prepare("NewAccount", amount), Invoke("actor", expected)>>
WrongVersion == Change("version", <<9, 8, 7>>)
ZERO_MEMO_BYTES == <<>>
MEMO_BYTES == <<178>>
Untouched == [recipient |-> 0, relayer |-> 0]

(***************************************************************************)
(* calls/new_account.rs                                                    *)
(***************************************************************************)
new_account_gas_consumption_regression(fees) ==
  WithFees(fees) \o create_account_and_call(1, 10, "Ok")

new_account_succeeds(token, fees) ==
  WithFees(fees) \o create_account_and_call(1, 100000, "Ok") \o
  LET fee == Fee(100000, fees.deposit)
  IN <<ExpectEvent([kind |-> "NewAccount", prenullifier |-> Hashed(prenullifier(1)),
                    token |-> token, amount |-> 100000, newNoteIndex |-> 0,
                    protocolFee |-> fee]),
       ExpectBalances(token, [actor |-> -100000, fee_receiver |-> fee]),
       ExpectShielded(100000 - fee)>>

new_account_fails_if_incorrect_expected_version(token) ==
  SetUp \o <<Account(0), Prepare("NewAccount", 10), WrongVersion,
             Invoke("actor", "WrongContractVersion"), ExpectBalances(token, [actor |-> 0])>>

cannot_use_same_id_twice(token) ==
  SetUp \o create_account_and_call(1, 10, "Ok")
        \o create_account_and_call(1, 10, "DuplicatedNullifier")
        \o <<ExpectBalances(token, [actor |-> -10])>>

\* A field above the modulus, and back.
BeyondModulus(field, value) ==
  <<Change(field, Marked(value, "modulus")), Invoke("actor", "NotAFieldElement"),
    Change(field, value)>>

new_account_cannot_use_input_greater_than_field_modulus(token) ==
  SetUp \o <<Account(1), Prepare("NewAccount", 10)>>
        \o BeyondModulus("prenullifier", Hashed(prenullifier(1)))
        \o BeyondModulus("new_note", NoteHash(1, derive_nullifier(1, 0), 10, token))
        \o <<ExpectBalances(token, [actor |-> 0])>>

new_account_can_consume_entire_contract_balance_limit(token) ==
  SetUp \o create_account_and_call(1, MaxAmount, "Ok")
        \o <<ExpectEvent([kind |-> "NewAccount"]), ExpectBalances(token, [actor |-> -MaxAmount])>>

new_account_fails_if_contract_balance_limit_reached(token) ==
  SetUp \o create_account_and_call(1, MaxAmount, "Ok")
        \o create_account_and_call(2, 1, "ContractBalanceLimitReached")
        \o <<ExpectBalances(token, [actor |-> -MaxAmount])>>

new_account_fails_if_proof_incorrect(token) ==
  SetUp \o <<Account(0), Prepare("NewAccount", 10),
             Change("prenullifier", Marked(Hashed(prenullifier(0)), "plus one")),
             Invoke("actor", "NewAccountVerificationFailed"),
             ExpectBalances(token, [actor |-> 0])>>

(***************************************************************************)
(* calls/deposit.rs                                                        *)
(***************************************************************************)
deposit_gas_consumption_regression(fees) ==
  WithFees(fees) \o create_account_and_call(1, 10, "Ok")
                 \o <<Prepare("Deposit", 5), Invoke("actor", "Ok")>>

deposit_succeeds(token, fees) ==
  WithFees(fees) \o create_account_and_call(1, 100000, "Ok") \o
  LET initial_fee == Fee(100000, fees.deposit)
      deposit_fee == Fee(50000, fees.deposit)
  IN <<Prepare("Deposit", 50000), Invoke("actor", "Ok"),
       ExpectEvent([kind |-> "Deposit", token |-> token, amount |-> 50000,
                    newNoteIndex |-> 1, protocolFee |-> deposit_fee]),
       ExpectBalances(token, [actor |-> -150000, fee_receiver |-> initial_fee + deposit_fee]),
       ExpectShielded(150000 - initial_fee - deposit_fee)>>

deposit_fails_if_incorrect_expected_version(token) ==
  SetUp \o create_account_and_call(1, 10, "Ok")
        \o <<Prepare("Deposit", 0), WrongVersion, Invoke("actor", "WrongContractVersion"),
             ExpectBalances(token, [actor |-> -10])>>

deposit_can_consume_entire_contract_balance_limit(token) ==
  SetUp \o create_account_and_call(1, MaxAmount - 1, "Ok")
        \o <<Prepare("Deposit", 1), Invoke("actor", "Ok"),
             ExpectBalances(token, [actor |-> -MaxAmount])>>

deposit_fails_if_contract_balance_limit_reached(token) ==
  SetUp \o create_account_and_call(1, MaxAmount, "Ok")
        \o <<Prepare("Deposit", 1), Invoke("actor", "ContractBalanceLimitReached"),
             ExpectBalances(token, [actor |-> -MaxAmount])>>

deposit_cannot_use_same_note_twice(token) ==
  SetUp \o create_account_and_call(1, 10, "Ok")
        \o <<Prepare("Deposit", 5), Invoke("actor", "Ok"),
             Invoke("actor", "DuplicatedNullifier"), ExpectBalances(token, [actor |-> -15])>>

deposit_cannot_use_input_greater_than_field_modulus(token) ==
  SetUp \o create_account_and_call(1, 10, "Ok") \o <<Prepare("Deposit", 5)>>
        \o BeyondModulus("old_nullifier_hash", Hashed(derive_nullifier(1, 0)))
        \o BeyondModulus("new_note", NoteHash(1, derive_nullifier(1, 1), 15, token))
        \o <<ExpectBalances(token, [actor |-> -10, recipient |-> 0])>>

deposit_fails_if_merkle_root_does_not_exist(token) ==
  SetUp \o <<Account(0),
             Handmade([kind |-> "Deposit", token |-> token, amount |-> 10,
                       version |-> contract_version, old_nullifier_hash |-> Zero,
                       new_note |-> ZeroNote, merkle_root |-> 0, mac |-> Mac(0, 0),
                       proof |-> NoProof, memo |-> ZERO_MEMO_BYTES]),
             Invoke("actor", "MerkleRootDoesNotExist"), ExpectBalances(token, [actor |-> 0])>>

deposit_fails_if_proof_incorrect(token) ==
  SetUp \o create_account_and_call(1, 10, "Ok")
        \o <<Prepare("Deposit", 5), Change("proof", NoProof),
             Invoke("actor", "DepositVerificationFailed"),
             ExpectBalances(token, [actor |-> -10])>>

deposit_rejects_value_zero(token) ==
  SetUp \o create_account_and_call(1, 10, "Ok")
        \o <<Prepare("Deposit", 0), Invoke("actor", "ZeroAmount"),
             ExpectBalances(token, [actor |-> -10])>>

(***************************************************************************)
(* calls/withdraw.rs                                                       *)
(***************************************************************************)
withdraw_gas_consumption_regression(fees) ==
  WithFees(fees) \o create_account_and_call(1, 20, "Ok")
                 \o <<prepare_args(5, 1, 0), Invoke("actor", "Ok")>>

PocketMoney(token) == IF token = "native" THEN 0 ELSE 1

\* A withdrawal with relayer fee 1, the event and the balances of those it pays.
WithdrawalSucceeds(token, amount, fee, index) ==
  <<prepare_args(amount, 1, PocketMoney(token)), Invoke("actor", "Ok"),
    ExpectEvent([kind |-> "Withdraw", token |-> token, amount |-> amount,
                 withdrawalAddress |-> "recipient", relayerAddress |-> "relayer",
                 newNoteIndex |-> index, fee |-> 1, pocketMoney |-> PocketMoney(token),
                 protocolFee |-> fee]),
    ExpectBalances(token, [recipient |-> amount - 1 - fee, relayer |-> 1])>>
  \o IF token = "native" THEN <<>>
     ELSE <<ExpectBalances("native", [actor |-> -1, recipient |-> 1])>>

withdraw_succeeds(token, fees) ==
  LET initial_fee == Fee(100000, fees.deposit)
      withdraw_fee == Fee(50000, fees.withdraw)
  IN WithFees(fees) \o create_account_and_call(1, 100000, "Ok")
     \o WithdrawalSucceeds(token, 50000, withdraw_fee, 1)
     \o <<ExpectBalances(token, [actor |-> -100000, fee_receiver |-> initial_fee + withdraw_fee]),
          ExpectShielded(100000 - initial_fee - 50000)>>

succeeds_after_deposit(token, fees) ==
  LET initial_fee == Fee(20000, fees.deposit)
      deposit_fee == Fee(10000, fees.deposit)
      withdraw_fee == Fee(5000, fees.withdraw)
  IN WithFees(fees) \o create_account_and_call(1, 20000, "Ok")
     \o <<Prepare("Deposit", 10000), Invoke("actor", "Ok")>>
     \o WithdrawalSucceeds(token, 5000, withdraw_fee, 2)
     \o <<ExpectBalances(token, [actor |-> -30000,
                                 fee_receiver |-> initial_fee + deposit_fee + withdraw_fee]),
          ExpectShielded(20000 - initial_fee + 10000 - deposit_fee - 5000)>>

\* An account of 20, a withdrawal that is refused, and nobody paid.
WithdrawalFails(token, steps_) ==
  SetUp \o create_account_and_call(1, 20, "Ok") \o steps_
        \o <<ExpectBalances(token, [actor |-> -20] @@ Untouched)>>

withdraw_fails_if_proof_incorrect(token) ==
  WithdrawalFails(token,
    <<prepare_args(5, 1, 0),
      Change("new_note", Marked(NoteHash(1, derive_nullifier(1, 1), 15, token), "plus one")),
      Invoke("actor", "WithdrawVerificationFailed")>>)

withdraw_rejects_value_zero(token) ==
  WithdrawalFails(token, <<prepare_args(0, 1, 0), Invoke("actor", "ZeroAmount")>>)

fails_if_fee_higher_than_amount(token) ==
  WithdrawalFails(token, <<prepare_args(3, 3, 0), Invoke("actor", "FeeHigherThanAmount")>>)

accepts_max_amount(token) ==
  SetUp \o create_account_and_call(1, MaxAmount, "Ok")
        \o <<prepare_args(MaxAmount, 1, 0), Invoke("actor", "Ok"),
             ExpectBalances(token, [actor |-> -MaxAmount, recipient |-> MaxAmount - 1,
                                    relayer |-> 1])>>

rejects_too_high_amount(token) ==
  WithdrawalFails(token, <<prepare_args(2, 1, 0), Change("amount", MaxAmount + 1),
                           Invoke("actor", "AmountTooHigh")>>)

HandmadeWithdrawal(token, version) ==
  Handmade([kind |-> "Withdraw", token |-> token, amount |-> 10, version |-> version,
            withdrawal_address |-> "recipient", relayer_address |-> "relayer",
            relayer_fee |-> 0, merkle_root |-> 0, old_nullifier_hash |-> Zero,
            new_note |-> ZeroNote, mac |-> Mac(0, 0), proof |-> NoProof,
            pocket_money |-> 0, memo |-> ZERO_MEMO_BYTES])

withdraw_fails_if_incorrect_expected_version(token) ==
  SetUp \o <<Account(0), HandmadeWithdrawal(token, <<9, 8, 7>>),
             Invoke("actor", "WrongContractVersion"),
             ExpectBalances(token, [actor |-> 0] @@ Untouched)>>

fails_if_incorrect_pocket_money(token) ==
  WithdrawalFails(token, <<prepare_args(5, 1, 2), Change("pocket_money", 1),
                           Invoke("actor", "WithdrawVerificationFailed")>>)

withdraw_fails_if_merkle_root_does_not_exist(token) ==
  SetUp \o <<Account(0), HandmadeWithdrawal(token, contract_version),
             Invoke("actor", "MerkleRootDoesNotExist"),
             ExpectBalances(token, [actor |-> 0] @@ Untouched)>>

withdraw_cannot_use_same_note_twice(token) ==
  SetUp \o create_account_and_call(1, 20, "Ok")
        \o <<prepare_args(5, 1, 0), Invoke("actor", "Ok"),
             Invoke("actor", "DuplicatedNullifier"),
             ExpectBalances(token, [actor |-> -20, recipient |-> 4, relayer |-> 1])>>

withdraw_cannot_use_input_greater_than_field_modulus(token) ==
  WithdrawalFails(token,
    <<prepare_args(5, 1, 0)>>
    \o BeyondModulus("old_nullifier_hash", Hashed(derive_nullifier(1, 0)))
    \o BeyondModulus("new_note", NoteHash(1, derive_nullifier(1, 1), 15, token)))

RefusedTransfer(token) ==
  IF token = "native" THEN "NativeTransferFailed" ELSE "DestinationTriggeredRevert"

handles_withdraw_transfer_failure(token) ==
  WithdrawalFails(token, <<[prepare_args(5, 1, 0) EXCEPT !.withdraw_address = "reverting"],
                           Invoke("actor", RefusedTransfer(token))>>)

handles_fee_transfer_failure(token) ==
  WithdrawalFails(token, <<[prepare_args(5, 1, 0) EXCEPT !.relayer_address = "reverting"],
                           Invoke("actor", RefusedTransfer(token))>>)

(***************************************************************************)
(* deploy.rs, ar_pubkey.rs, verifier.rs, merkle.rs, bin/gas_consumption.rs *)
(***************************************************************************)
full_deployment_works == SetUp
minimal_shielder_contract_deployment_works == <<Deploy(ANONYMITY_REVOKER_PKEY, "Ok")>>
deployment_fails_when_ar_key_is_not_on_curve == <<Deploy("off the curve", "InvalidGrumpkinPoint")>>
deployment_fails_when_ar_coordinates_are_not_from_field == <<Deploy("not from the field", "InvalidGrumpkinPoint")>>

initial_ar_key_correct == SetUp \o <<ExpectArPubkey(ANONYMITY_REVOKER_PKEY)>>
anon_cannot_set_ar_key ==
  SetUp \o <<SetArPubkey("off the curve", "actor", "OwnableUnauthorizedAccount")>>
fails_to_set_incorrect_ar_key ==
  SetUp \o <<SetArPubkey("off the curve", "deployer", "InvalidGrumpkinPoint")>>
can_set_ar_to_another_valid_key == SetUp \o <<SetArPubkey("another point", "deployer", "Ok")>>

\* A correct example of each circuit, as prepare_proof draws it.
Sample == PrepareNewAccount(NewShielderAccount(1, "native"), "native", 10,
  [ar_key |-> ANONYMITY_REVOKER_PKEY, mac_salt |-> 0, caller |-> "actor",
   protocol_fee |-> 0, memo |-> ZERO_MEMO_BYTES])
contract_verification_works == <<Verify(Sample, Sample.proof.input, TRUE)>>
fails_on_empty_proof == <<Verify([proof |-> NoProof], <<>>, FALSE)>>
fails_on_proof_with_wrong_input ==
  <<Verify(Sample, [Sample.proof.input EXCEPT !.new_note = Marked(@, "plus one")], FALSE)>>
fails_on_corrupted_proof ==
  <<Verify([Sample EXCEPT !.proof.sound = FALSE], Sample.proof.input, FALSE)>>

\* bin/gas_consumption.rs: the three calls measured, for eight settings on one
\* deployment; the identifiers are squares.
MeasureGas(k, setting) ==
  <<Parameters(setting[1], setting[3]), SetProtocolFees(setting[2])>>
  \o create_account_and_call(k * k, 10, "Ok")
  \o <<Prepare("Deposit", 10), Invoke("actor", "Ok"),
       prepare_args(10, 1, PocketMoney(setting[1])), Invoke("actor", "Ok")>>
GasSettings ==
  << <<"native", ZERO_PROTOCOL_FEES, ZERO_MEMO_BYTES>>, <<"erc20", ZERO_PROTOCOL_FEES, ZERO_MEMO_BYTES>>,
     <<"native", PROTOCOL_FEES, ZERO_MEMO_BYTES>>, <<"erc20", PROTOCOL_FEES, ZERO_MEMO_BYTES>>,
     <<"native", ZERO_PROTOCOL_FEES, MEMO_BYTES>>, <<"erc20", ZERO_PROTOCOL_FEES, MEMO_BYTES>>,
     <<"native", PROTOCOL_FEES, MEMO_BYTES>>, <<"erc20", PROTOCOL_FEES, MEMO_BYTES>> >>
gas_consumption ==
  SetUp \o create_account_and_call(100, 1, "Ok")
        \o FlattenSeq([k \in 1..Len(GasSettings) |-> MeasureGas(k - 1, GasSettings[k])])

(***************************************************************************)
(* The cases rstest makes of the tests, and the runner.                    *)
(***************************************************************************)
FeeScripts(token, fees) ==
  <<new_account_gas_consumption_regression(fees), new_account_succeeds(token, fees),
    deposit_gas_consumption_regression(fees), deposit_succeeds(token, fees),
    withdraw_gas_consumption_regression(fees), withdraw_succeeds(token, fees),
    succeeds_after_deposit(token, fees)>>

TokenScripts(token) ==
  <<new_account_fails_if_incorrect_expected_version(token),
    cannot_use_same_id_twice(token),
    new_account_cannot_use_input_greater_than_field_modulus(token),
    new_account_can_consume_entire_contract_balance_limit(token),
    new_account_fails_if_contract_balance_limit_reached(token),
    new_account_fails_if_proof_incorrect(token),
    deposit_fails_if_incorrect_expected_version(token),
    deposit_can_consume_entire_contract_balance_limit(token),
    deposit_fails_if_contract_balance_limit_reached(token),
    deposit_cannot_use_same_note_twice(token),
    deposit_cannot_use_input_greater_than_field_modulus(token),
    deposit_fails_if_merkle_root_does_not_exist(token),
    deposit_fails_if_proof_incorrect(token), deposit_rejects_value_zero(token),
    withdraw_fails_if_proof_incorrect(token), withdraw_rejects_value_zero(token),
    fails_if_fee_higher_than_amount(token), accepts_max_amount(token),
    rejects_too_high_amount(token), withdraw_fails_if_incorrect_expected_version(token),
    fails_if_incorrect_pocket_money(token),
    withdraw_fails_if_merkle_root_does_not_exist(token),
    withdraw_cannot_use_same_note_twice(token),
    withdraw_cannot_use_input_greater_than_field_modulus(token),
    handles_withdraw_transfer_failure(token), handles_fee_transfer_failure(token)>>

OtherScripts ==
  <<full_deployment_works, minimal_shielder_contract_deployment_works,
    deployment_fails_when_ar_key_is_not_on_curve,
    deployment_fails_when_ar_coordinates_are_not_from_field,
    initial_ar_key_correct, anon_cannot_set_ar_key, fails_to_set_incorrect_ar_key,
    can_set_ar_to_another_valid_key, contract_verification_works, fails_on_empty_proof,
    fails_on_proof_with_wrong_input, fails_on_corrupted_proof, gas_consumption>>

Starts(name, token, memo, script) ==
  /\ test = [name |-> name, token |-> token, memo |-> memo]
  /\ steps = script

Init ==
  /\ chain = [Deployed(ANONYMITY_REVOKER_PKEY) EXCEPT !.paused = TRUE]
  /\ account = NewShielderAccount(1, "native")
  /\ calldata = NoCall
  /\ sent = Nothing
  /\ prepared = [call |-> NoCall, bps |-> ZERO_PROTOCOL_FEES, ar_key |-> ANONYMITY_REVOKER_PKEY]
  /\ passed = TRUE
  /\ \/ /\ left = 0
        /\ \/ \E token \in Tokens, fees \in {ZERO_PROTOCOL_FEES, PROTOCOL_FEES},
                memo \in {ZERO_MEMO_BYTES, MEMO_BYTES}, k \in 1..7 :
                Starts("fees", token, memo, FeeScripts(token, fees)[k])
           \/ \E token \in Tokens, k \in 1..26 :
                Starts("token", token, ZERO_MEMO_BYTES, TokenScripts(token)[k])
           \/ \E k \in 1..13 : Starts("other", "native", ZERO_MEMO_BYTES, OtherScripts[k])
     \/ /\ left = FreeLength
        /\ \E token \in Tokens : Starts("free", token, ZERO_MEMO_BYTES, WithFees(PROTOCOL_FEES)
                                                     \o <<Account(1)>>)

Scripted ==
  /\ steps # <<>>
  /\ steps' = Tail(steps)
  /\ UNCHANGED left
  /\ Run(Head(steps))

\* Any of the changes a test makes, and others like them: to whom, how much, what for.
FreeChange ==
  \/ \E f \in {"new_note", "old_nullifier_hash", "prenullifier"} :
       f \in DOMAIN calldata /\ ChangeCalldata(Change(f, Marked(calldata[f], "plus one")))
  \/ \E a \in {"amount", "relayer_fee", "pocket_money"}, d \in {-1, 1} :
       a \in DOMAIN calldata /\ calldata[a] + d >= 0
       /\ ChangeCalldata(Change(a, calldata[a] + d))
  \/ \E a \in {"withdrawal_address", "relayer_address"} : ChangeCalldata(Change(a, "actor"))
  \/ ChangeCalldata(Change("memo", MEMO_BYTES))
  \/ ChangeCalldata(Change("mac", Mac(1, 1)))
  \/ \E root \in 0..Len(chain.notes) : ChangeCalldata(Change("merkle_root", root))
  \/ \E token \in Tokens : ChangeCalldata(Change("token", token))

Free ==
  /\ steps = <<>> /\ left > 0
  /\ left' = left - 1
  /\ UNCHANGED steps
  /\ \/ \E fees \in {ZERO_PROTOCOL_FEES, PROTOCOL_FEES} : set_protocol_fees(SetProtocolFees(fees))
     \/ set_ar_pubkey(SetArPubkey("another point", "deployer", "Ok"))
     \/ prepare_call(Prepare("NewAccount", 10))
     \/ prepare_call(Prepare("Deposit", 5))
     \/ \E amount \in {5, 9} : prepare_call(prepare_args(amount, 1, PocketMoney(test.token)))
     \/ calldata # NoCall /\ FreeChange
     \/ \E sender \in {"actor", "relayer"} : calldata # NoCall /\ invoke_call(Invoke(sender, "any"))

Done == steps = <<>> /\ left = 0 /\ UNCHANGED vars

Next == Scripted \/ Free \/ Done
Spec == Init /\ [][Next]_vars

(***************************************************************************)
(* Properties.                                                             *)
(***************************************************************************)
\* Every assertion of the integration tests holds of the contract and the client as
\* they are modelled here: results, events, balances and the account's amount
\* (integration-tests/src/shielder/calls).
TestsPass == passed

\* An account that registered an action is the account of the chain: the leaf at its
\* index is its note, and the nullifier it will reveal next is not spent
\* (register_action, note and previous_nullifier of shielder-account agree with what
\* the circuits and the contract did).
AccountIsOnChain ==
  account.nonce > 0 /\ test.name # "other" =>
    /\ chain.notes[current_leaf_index(account) + 1] = note(account)
    /\ ~Spent(chain, Hashed(previous_nullifier(account)))

\* The contract holds what the account shields and nothing else: gross amount in, the
\* protocol fee out, and the client's fee formula takes the same off its balance as the
\* contract's (compute_protocol_fee_from_gross, Shielder.sol ceilDiv).
FundsFollowAccount ==
  test.name = "free" =>
    \A t \in Tokens : chain.balance[t]["shielder"] =
                        IF t = account.token THEN account.shielded_amount ELSE 0

\* What the proof does not bind: the memo of calls other than withdrawals, and pocket
\* money in a native withdrawal, which carries none.
Unbound(c) ==
  (IF c.kind = "Withdraw" THEN {} ELSE {"memo"})
  \cup (IF c.kind = "Withdraw" /\ c.token = "native" THEN {"pocket_money"} ELSE {})

\* A call the contract accepts is the call that was prepared: nobody changed the amount,
\* the addresses, the fees, the note or the token on the way, the protocol fee and the
\* revoker's key are those the proof was made for, and a deposit is sent by the caller
\* it was made for (the commitments of shielder-contract/src/lib.rs).
AcceptedAsPrepared ==
  [][LET c == calldata
         p == prepared.call
     IN Len(chain'.notes) > Len(chain.notes) =>
          /\ \A f \in DOMAIN c : f \notin Unbound(c) => c[f] = p[f]
          /\ ProtocolFee(chain, c) = ProtocolFee([bps |-> prepared.bps], c)
          /\ c.kind = "NewAccount" => chain.ar_key = ANONYMITY_REVOKER_PKEY
          /\ c.kind # "Withdraw" => sent'.sender = "actor"]_vars
=============================================================================
