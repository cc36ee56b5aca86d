---------------------------- MODULE ShielderCalls ----------------------------
(***************************************************************************)
(* The calls of the Shielder contract as the Rust clients make them: the   *)
(* account a client keeps (shielder-account), the calldata and the proof   *)
(* it prepares from it, and what the contract answers: an event, or the    *)
(* FIRST check that fails.  Operators only: the integration tests, the     *)
(* command line client and the revoker's tool are state machines over them.*)
(*                                                                         *)
(* Hashes are injective: a hash is the record of what is hashed, with a    *)
(* mark that tells it from a value that is no hash ("zero"), is shifted    *)
(* ("plus one") or is not a field element ("modulus").  A proof is the     *)
(* public input it was made for, and whether the witness satisfied the     *)
(* circuit.  A root is the number of notes under it.                       *)
(***************************************************************************)
EXTENDS Integers, Sequences, SequencesExt, TLC

CONSTANTS
  MaxAmount,   \* 2^112 - 1: MAX_CONTRACT_BALANCE and MAX_TRANSACTION_AMOUNT
  MaxBps       \* MAX_BPS

ASSUME AmountsAssumption == MaxAmount \in Nat \ {0} /\ MaxBps \in Nat \ {0}

contract_version == <<0, 1, 1>>

\* f @@ (x :> y) and f @@ g of module TLC, which the prover does not know.
Extended(f, x, y) == [z \in DOMAIN f \union {x} |-> IF z \in DOMAIN f THEN f[z] ELSE y]
Joined(f, g) == [z \in DOMAIN f \union DOMAIN g |-> IF z \in DOMAIN f THEN f[z] ELSE g[z]]

Hashed(x) == [of |-> x, mark |-> "hash"]
Marked(x, mark) == [of |-> x.of, mark |-> mark]
FieldElement(x) == x.mark # "modulus"

(***************************************************************************)
(* shielder-account: the account and the secrets it derives.               *)
(***************************************************************************)
derive_nullifier(id, nonce) == [id |-> id, nonce |-> nonce]

\* The identifier itself, which is no derived nullifier: nonce -1.
prenullifier(id) == [id |-> id, nonce |-> -1]

NewShielderAccount(id, token) ==
  [id |-> id, token |-> token, nonce |-> 0, shielded_amount |-> 0, history |-> <<>>]

next_nullifier(a) == derive_nullifier(a.id, a.nonce)
previous_nullifier(a) ==
  IF a.nonce = 0 THEN prenullifier(a.id) ELSE derive_nullifier(a.id, a.nonce - 1)

\* Mutant: the leaf of the first action.
current_leaf_index_of_first(a) ==
  IF a.history = <<>> THEN -1 ELSE Head(a.history).note_index

\* None, for an account without actions, is -1.
current_leaf_index(a) == IF a.history = <<>> THEN -1 ELSE Last(a.history).note_index

NoteHash(id, nullifier, balance, token) ==
  Hashed([version |-> contract_version[1], id |-> id, nullifier |-> nullifier,
          balance |-> balance, token |-> token])

note(a) == NoteHash(a.id, previous_nullifier(a), a.shielded_amount, a.token)

ShielderAction(event) ==
  [kind |-> event.kind, amount |-> event.amount, note_index |-> event.newNoteIndex,
   token |-> event.token, protocol_fee |-> event.protocolFee]

\* The assertions of register_action: the client panics where they fail.
can_register(a, event) ==
  /\ a.token = event.token
  /\ event.kind = "Withdraw" => event.amount <= a.shielded_amount

\* Mutant: a deposit counts with its protocol fee.
register_action_gross(a, event) ==
  [a EXCEPT !.shielded_amount = IF event.kind = "Withdraw" THEN @ - event.amount
                                ELSE @ + event.amount,
            !.nonce = @ + 1,
            !.history = Append(@, ShielderAction(event))]

register_action(a, event) ==
  [a EXCEPT !.shielded_amount = IF event.kind = "Withdraw" THEN @ - event.amount
                                ELSE @ + (event.amount - event.protocolFee),
            !.nonce = @ + 1,
            !.history = Append(@, ShielderAction(event))]

(***************************************************************************)
(* shielder-setup: the protocol fee of an amount that includes it, and of  *)
(* one that does not; both round up.                                       *)
(***************************************************************************)
compute_protocol_fee_from_gross(amount, bps) == (amount * bps + MaxBps - 1) \div MaxBps
compute_protocol_fee_from_net(amount, bps) ==
  LET denom == MaxBps - bps IN (amount * bps + denom - 1) \div denom

(***************************************************************************)
(* Prover knowledge and calldata.                                          *)
(***************************************************************************)
Mac(salt, id) == [salt |-> salt, key |-> id]

\* Mutant: the relayer's fee is not bound.
WithdrawCommitmentAnyFee(c, version, chain_id, protocol_fee) ==
  [version |-> version, to |-> c.withdrawal_address, relayer |-> c.relayer_address,
   chain_id |-> chain_id, pocket_money |-> c.pocket_money,
   protocol_fee |-> protocol_fee, memo |-> c.memo]

WithdrawCommitment(c, version, chain_id, protocol_fee) ==
  [version |-> version, to |-> c.withdrawal_address, relayer |-> c.relayer_address,
   relayer_fee |-> c.relayer_fee, chain_id |-> chain_id,
   pocket_money |-> c.pocket_money, protocol_fee |-> protocol_fee, memo |-> c.memo]
DepositCommitment(caller, protocol_fee) == [caller |-> caller, protocol_fee |-> protocol_fee]

NewAccountInput(c, ar_key, value, commitment) ==
  [new_note |-> c.new_note, prenullifier |-> c.prenullifier, value |-> value,
   commitment |-> commitment, token |-> c.token, ar_key |-> ar_key,
   sym_key_encryption |-> c.sym_key_encryption, mac |-> c.mac]
SpendInput(c, value, commitment) ==
  [merkle_root |-> c.merkle_root, old_nullifier_hash |-> c.old_nullifier_hash,
   new_note |-> c.new_note, value |-> value, commitment |-> commitment,
   token |-> c.token, mac |-> c.mac]

NoProof == [sound |-> FALSE, input |-> <<>>]
generate_proof(satisfied, input) == [sound |-> satisfied, input |-> input]
verifyProof(proof, input) == proof.sound /\ proof.input = input

\* extra: [ar_key, mac_salt, caller, protocol_fee, memo]
PrepareNewAccount(a, token, amount, extra) ==
  LET deposit == amount - extra.protocol_fee
      c == [kind |-> "NewAccount", token |-> token, amount |-> deposit + extra.protocol_fee,
            version |-> contract_version,
            new_note |-> NoteHash(a.id, next_nullifier(a), deposit, token),
            prenullifier |-> Hashed(prenullifier(a.id)),
            sym_key_encryption |-> [ar_key |-> extra.ar_key, key |-> a.id],
            mac |-> Mac(extra.mac_salt, a.id), memo |-> extra.memo, proof |-> NoProof]
  IN [c EXCEPT !.proof = generate_proof(TRUE,
                           NewAccountInput(c, extra.ar_key, deposit,
                             DepositCommitment(extra.caller, extra.protocol_fee)))]

\* The note a spending call proves to be under its root.
OldNote(a, token) == NoteHash(a.id, previous_nullifier(a), a.shielded_amount, token)

\* extra: [merkle_path: [root, leaf], mac_salt, caller, protocol_fee, memo]
PrepareDeposit(a, token, amount, extra) ==
  LET value == amount - extra.protocol_fee
      c == [kind |-> "Deposit", token |-> token, amount |-> value + extra.protocol_fee,
            version |-> contract_version,
            old_nullifier_hash |-> Hashed(previous_nullifier(a)),
            new_note |-> NoteHash(a.id, next_nullifier(a), a.shielded_amount + value, token),
            merkle_root |-> extra.merkle_path.root,
            mac |-> Mac(extra.mac_salt, a.id), memo |-> extra.memo, proof |-> NoProof]
  IN [c EXCEPT !.proof = generate_proof(extra.merkle_path.leaf = OldNote(a, token),
                           SpendInput(c, value,
                             DepositCommitment(extra.caller, extra.protocol_fee)))]

\* extra: [merkle_path, to, relayer_address, relayer_fee, contract_version, chain_id,
\*         mac_salt, pocket_money, protocol_fee, memo]
PrepareWithdraw(a, token, amount, extra) ==
  LET c == [kind |-> "Withdraw", token |-> token, amount |-> amount,
            version |-> contract_version,
            withdrawal_address |-> extra.to, relayer_address |-> extra.relayer_address,
            relayer_fee |-> extra.relayer_fee, merkle_root |-> extra.merkle_path.root,
            old_nullifier_hash |-> Hashed(previous_nullifier(a)),
            new_note |-> NoteHash(a.id, next_nullifier(a), a.shielded_amount - amount, token),
            pocket_money |-> extra.pocket_money,
            mac |-> Mac(extra.mac_salt, a.id), memo |-> extra.memo, proof |-> NoProof]
  IN [c EXCEPT !.proof = generate_proof(
                           extra.merkle_path.leaf = OldNote(a, token) /\ amount <= a.shielded_amount,
                           SpendInput(c, amount,
                             WithdrawCommitment(c, extra.contract_version, extra.chain_id,
                                                extra.protocol_fee)))]

(***************************************************************************)
(* The contract, as a call sees it.  A chain is the record                 *)
(*   [version, chain_id, paused, ar_key, bps: [deposit, withdraw],         *)
(*    notes, nullifiers, balance: [token -> [address -> amount]],          *)
(*    allowance: what the ERC20 lets the contract draw from each address,  *)
(*    block].                                                              *)
(***************************************************************************)
GetMerklePath(chain, index) == [root |-> Len(chain.notes), leaf |-> chain.notes[index + 1]]
MerkleRootExists(chain, root) == root \in 1..Len(chain.notes)
Spent(chain, hash) == hash \in DOMAIN chain.nullifiers

\* The native coins sent with a call: TryFrom drops the amount or the pocket money
\* of the variants that do not take it.
MsgValue(c) ==
  IF c.token = "native" THEN IF c.kind = "Withdraw" THEN 0 ELSE c.amount
  ELSE IF c.kind = "Withdraw" THEN c.pocket_money ELSE 0

ProtocolFee(chain, c) ==
  compute_protocol_fee_from_gross(c.amount,
    IF c.kind = "Withdraw" THEN chain.bps.withdraw ELSE chain.bps.deposit)

\* Mutant: the limit itself is refused.
LimitReachedEarly(chain, c) == chain.balance[c.token]["shielder"] + c.amount >= MaxAmount

LimitReached(chain, c) ==
  \/ c.amount > MaxAmount
  \/ chain.balance[c.token]["shielder"] + c.amount > MaxAmount

Transfer(token, from, to, amount) ==
  [token |-> token, from |-> from, to |-> to, amount |-> amount]

\* The transfers of an accepted call, in the contract's order; none is made of nothing.
Transfers(chain, c, sender) ==
  LET fee == ProtocolFee(chain, c)
      value == Transfer("native", sender, "shielder", MsgValue(c))
  IN IF c.kind = "Withdraw"
     THEN <<value,
            Transfer(c.token, "shielder", c.withdrawal_address,
                     c.amount - fee - c.relayer_fee),
            Transfer(c.token, "shielder", "fee_receiver", fee),
            Transfer(c.token, "shielder", c.relayer_address, c.relayer_fee),
            Transfer("native", "shielder", c.withdrawal_address, MsgValue(c))>>
     ELSE <<value,
            Transfer(c.token, sender, "shielder",
                     IF c.token = "native" THEN 0 ELSE c.amount),
            Transfer(c.token, "shielder", "fee_receiver", fee)>>

\* The address that refuses what it is sent; the test token reverts for it too.
Refusals(transfers) ==
  {i \in DOMAIN transfers : transfers[i].to = "reverting" /\ transfers[i].amount # 0}
TransferError(transfers) ==
  IF transfers[Min(Refusals(transfers))].token = "native" THEN "NativeTransferFailed"
  ELSE "DestinationTriggeredRevert"

\* Each entry is a condition under which the contract reverts, and its error.
NewAccountChecks(chain, c, sender) ==
  LET fee == ProtocolFee(chain, c)
  IN <<[fails |-> LimitReached(chain, c), error |-> "ContractBalanceLimitReached"],
       [fails |-> c.version # chain.version, error |-> "WrongContractVersion"],
       [fails |-> ~(FieldElement(c.new_note) /\ FieldElement(c.prenullifier)),
        error |-> "NotAFieldElement"],
       [fails |-> Spent(chain, c.prenullifier), error |-> "DuplicatedNullifier"],
       [fails |-> ~verifyProof(c.proof, NewAccountInput(c, chain.ar_key, c.amount - fee,
                                          DepositCommitment(sender, fee))),
        error |-> "NewAccountVerificationFailed"]>>

DepositChecks(chain, c, sender) ==
  LET fee == ProtocolFee(chain, c)
  IN <<[fails |-> LimitReached(chain, c), error |-> "ContractBalanceLimitReached"],
       [fails |-> c.version # chain.version, error |-> "WrongContractVersion"],
       [fails |-> ~(FieldElement(c.old_nullifier_hash) /\ FieldElement(c.new_note)),
        error |-> "NotAFieldElement"],
       [fails |-> c.amount = 0, error |-> "ZeroAmount"],
       [fails |-> Spent(chain, c.old_nullifier_hash), error |-> "DuplicatedNullifier"],
       [fails |-> ~MerkleRootExists(chain, c.merkle_root), error |-> "MerkleRootDoesNotExist"],
       [fails |-> ~verifyProof(c.proof, SpendInput(c, c.amount - fee,
                                          DepositCommitment(sender, fee))),
        error |-> "DepositVerificationFailed"]>>

WithdrawChecks(chain, c, sender) ==
  LET fee == ProtocolFee(chain, c)
      seen == [c EXCEPT !.pocket_money = MsgValue(c)]
  IN <<[fails |-> c.version # chain.version, error |-> "WrongContractVersion"],
       [fails |-> ~(FieldElement(c.old_nullifier_hash) /\ FieldElement(c.new_note)),
        error |-> "NotAFieldElement"],
       [fails |-> c.amount = 0, error |-> "ZeroAmount"],
       [fails |-> c.amount > MaxAmount, error |-> "AmountTooHigh"],
       [fails |-> c.amount - fee <= c.relayer_fee, error |-> "FeeHigherThanAmount"],
       [fails |-> ~MerkleRootExists(chain, c.merkle_root), error |-> "MerkleRootDoesNotExist"],
       [fails |-> Spent(chain, c.old_nullifier_hash), error |-> "DuplicatedNullifier"],
       [fails |-> ~verifyProof(c.proof, SpendInput(c, c.amount,
                                          WithdrawCommitment(seen, chain.version,
                                                             chain.chain_id, fee))),
        error |-> "WithdrawVerificationFailed"]>>

\* The error of a call, "Ok" if the contract accepts it.
CallError(chain, c, sender) ==
  LET checks == CASE c.kind = "NewAccount" -> NewAccountChecks(chain, c, sender)
                  [] c.kind = "Deposit" -> DepositChecks(chain, c, sender)
                  [] c.kind = "Withdraw" -> WithdrawChecks(chain, c, sender)
      failed == {i \in DOMAIN checks : checks[i].fails}
      transfers == Transfers(chain, c, sender)
  IN CASE chain.paused -> "EnforcedPause"
       [] ~chain.paused /\ failed # {} -> checks[Min(failed)].error
       [] ~chain.paused /\ failed = {} /\ Refusals(transfers) # {} ->
            TransferError(transfers)
       [] ~chain.paused /\ failed = {} /\ Refusals(transfers) = {}
            /\ c.token # "native" /\ c.kind # "Withdraw"
            /\ chain.allowance[sender] < c.amount -> "ERC20InsufficientAllowance"
       [] OTHER -> "Ok"

Moved(balance, t) ==
  [balance EXCEPT ![t.token] = [[@ EXCEPT ![t.from] = @ - t.amount] EXCEPT ![t.to] = @ + t.amount]]

AllMoved(balance, transfers) == FoldLeft(Moved, balance, transfers)
Drawn(allowance, from, amount) == [allowance EXCEPT ![from] = @ - amount]

NullifierOf(c) == IF c.kind = "NewAccount" THEN c.prenullifier ELSE c.old_nullifier_hash

\* The chain after an accepted call: note, nullifier, transfers.
Accepted(chain, c, sender) ==
  [chain EXCEPT
     !.notes = Append(@, c.new_note),
     !.nullifiers = Extended(@, NullifierOf(c), chain.block + 1),
     !.balance = AllMoved(@, Transfers(chain, c, sender)),
     !.allowance = IF c.token # "native" /\ c.kind # "Withdraw"
                   THEN Drawn(@, sender, c.amount) ELSE @]

\* The event of an accepted call.
EventOf(chain, c) ==
  LET common == [kind |-> c.kind, contractVersion |-> chain.version, token |-> c.token,
                 amount |-> c.amount, newNote |-> c.new_note,
                 newNoteIndex |-> Len(chain.notes), mac |-> c.mac,
                 protocolFee |-> ProtocolFee(chain, c), memo |-> c.memo]
  IN CASE c.kind = "NewAccount" -> Joined(common, [prenullifier |-> c.prenullifier])
       [] c.kind = "Deposit" -> common
       [] c.kind = "Withdraw" ->
            Joined(common, [withdrawalAddress |-> c.withdrawal_address,
                            relayerAddress |-> c.relayer_address, fee |-> c.relayer_fee,
                            pocketMoney |-> MsgValue(c)])

check_version(event) == event.contractVersion = contract_version
=============================================================================
