---------------------------- MODULE ProverCircuits ---------------------------
(***************************************************************************)
(* What the prover in the trusted execution environment                    *)
(* (shielder-prover-tee) does with the bytes a client gives it, for each   *)
(* of the three circuits.  A byte vector is the field element it stands    *)
(* for, its size in field elements, and whether it is below the modulus.   *)
(* Hashes are the records of what is hashed.  A circuit is its public      *)
(* inputs, named by its instance, and whether a witness satisfies it; a    *)
(* proof is the public inputs it was made for and whether the witness was  *)
(* good.                                                                   *)
(*                                                                         *)
(* Each struct literal of the source is an operator of its own, although   *)
(* prove and pub_inputs write out the same one: nothing but the text keeps *)
(* the copies in step.                                                     *)
(***************************************************************************)
EXTENDS Integers

CONSTANT PathSize   \* NOTE_TREE_HEIGHT * ARITY: field elements of a Merkle path

ASSUME PathAssumption == PathSize \in Nat \ {0, 1}

CircuitTypes == {"NewAccount", "Deposit", "Withdraw"}

field_to_bytes(f) == [value |-> f, size |-> 1, canonical |-> TRUE]

\* bytes_to_field; vec_to_f and vec_to_path panic where these do not hold.
ConvertsToField(v) == v.size = 1 /\ v.canonical
ConvertsToPath(v) == v.size = PathSize /\ v.canonical
vec_to_f(v) == v.value
vec_to_path(v) == v.value

SpendFields == {"id", "nullifier_old", "account_balance_old", "token_address", "value",
                "nullifier_new", "commitment", "mac_salt"}
NewAccountFields == {"id", "nullifier", "initial_deposit", "commitment", "token_address",
                     "encryption_salt", "mac_salt", "anonymity_revoker_public_key_x",
                     "anonymity_revoker_public_key_y"}

(***************************************************************************)
(* The circuits (shielder_circuits): compute_public_input for each         *)
(* instance, and what they demand of the witness.  A Merkle path is the    *)
(* leaf it starts from and the root it leads to.                           *)
(***************************************************************************)
Hash(x) == [hash |-> x]
MacCommitment(k) == Hash(<<k.mac_salt, k.id>>)
NoteOf(k, nullifier, balance) == Hash(<<k.id, nullifier, balance, k.token_address>>)
field_element_to_le_bits(f) == [bits |-> f]
\* One coordinate of the two points of an ElGamal ciphertext.
Ciphertext(k, coordinate) ==
  [coordinate |-> coordinate, key |-> k.id, salt |-> k.encryption_salt,
   for |-> k.anonymity_revoker_public_key]

DepositInstance(k) ==
  [MerkleRoot |-> k.path.root, HashedOldNullifier |-> Hash(k.nullifier_old),
   HashedNewNote |-> NoteOf(k, k.nullifier_new, k.account_old_balance + k.deposit_value),
   DepositValue |-> k.deposit_value, Commitment |-> k.commitment,
   TokenAddress |-> k.token_address, MacSalt |-> k.mac_salt, MacCommitment |-> MacCommitment(k)]
WithdrawInstance(k) ==
  [MerkleRoot |-> k.path.root, HashedOldNullifier |-> Hash(k.nullifier_old),
   HashedNewNote |-> NoteOf(k, k.nullifier_new, k.account_old_balance - k.withdrawal_value),
   WithdrawalValue |-> k.withdrawal_value, TokenAddress |-> k.token_address,
   Commitment |-> k.commitment, MacSalt |-> k.mac_salt, MacCommitment |-> MacCommitment(k)]
NewAccountInstance(k) ==
  [HashedNote |-> NoteOf(k, k.nullifier, k.initial_deposit), Prenullifier |-> Hash(k.id),
   InitialDeposit |-> k.initial_deposit, Commitment |-> k.commitment,
   TokenAddress |-> k.token_address,
   AnonymityRevokerPublicKeyX |-> k.anonymity_revoker_public_key.x,
   AnonymityRevokerPublicKeyY |-> k.anonymity_revoker_public_key.y,
   EncryptedKeyCiphertext1X |-> Ciphertext(k, "1x"),
   EncryptedKeyCiphertext1Y |-> Ciphertext(k, "1y"),
   EncryptedKeyCiphertext2X |-> Ciphertext(k, "2x"),
   EncryptedKeyCiphertext2Y |-> Ciphertext(k, "2y"),
   MacSalt |-> k.mac_salt, MacCommitment |-> MacCommitment(k)]

OnPath(k) == k.path.leaf = NoteOf(k, k.nullifier_old, k.account_old_balance)
Covered(k) == k.withdrawal_value <= k.account_old_balance

\* A proof is made whether or not the witness satisfies the circuit.
generate_proof(instance, satisfied) == [instance |-> instance, sound |-> satisfied]

DepositProof(k) == generate_proof(DepositInstance(k), OnPath(k))
WithdrawProof(k) == generate_proof(WithdrawInstance(k), OnPath(k) /\ Covered(k))
NewAccountProof(k) == generate_proof(NewAccountInstance(k), TRUE)

(***************************************************************************)
(* The environment's copies: the witness of prove, the witness of          *)
(* pub_inputs, and the bytes of the public inputs.                         *)
(***************************************************************************)
DepositToProve(b) ==
  [id |-> vec_to_f(b.id), nullifier_old |-> vec_to_f(b.nullifier_old),
   account_old_balance |-> vec_to_f(b.account_balance_old),
   token_address |-> vec_to_f(b.token_address), path |-> vec_to_path(b.path),
   deposit_value |-> vec_to_f(b.value), commitment |-> vec_to_f(b.commitment),
   nullifier_new |-> vec_to_f(b.nullifier_new), mac_salt |-> vec_to_f(b.mac_salt)]
DepositToPublish(b) ==
  [id |-> vec_to_f(b.id), nullifier_old |-> vec_to_f(b.nullifier_old),
   account_old_balance |-> vec_to_f(b.account_balance_old),
   token_address |-> vec_to_f(b.token_address), path |-> vec_to_path(b.path),
   deposit_value |-> vec_to_f(b.value), commitment |-> vec_to_f(b.commitment),
   nullifier_new |-> vec_to_f(b.nullifier_new), mac_salt |-> vec_to_f(b.mac_salt)]
DepositPubInputsBytes(k) ==
  LET i == DepositInstance(k)
  IN [merkle_root |-> field_to_bytes(i.MerkleRoot),
      h_nullifier_old |-> field_to_bytes(i.HashedOldNullifier),
      h_note_new |-> field_to_bytes(i.HashedNewNote), value |-> field_to_bytes(i.DepositValue),
      commitment |-> field_to_bytes(i.Commitment),
      token_address |-> field_to_bytes(i.TokenAddress), mac_salt |-> field_to_bytes(i.MacSalt),
      mac_commitment |-> field_to_bytes(i.MacCommitment)]

WithdrawToProve(b) ==
  [id |-> vec_to_f(b.id), nullifier_old |-> vec_to_f(b.nullifier_old),
   account_old_balance |-> vec_to_f(b.account_balance_old),
   token_address |-> vec_to_f(b.token_address), path |-> vec_to_path(b.path),
   withdrawal_value |-> vec_to_f(b.value), nullifier_new |-> vec_to_f(b.nullifier_new),
   commitment |-> vec_to_f(b.commitment), mac_salt |-> vec_to_f(b.mac_salt)]

\* Mutant: the copy in pub_inputs has the two nullifiers swapped.
WithdrawToPublishSwapped(b) ==
  [WithdrawToProve(b) EXCEPT !.nullifier_old = vec_to_f(b.nullifier_new),
                             !.nullifier_new = vec_to_f(b.nullifier_old)]

WithdrawToPublish(b) ==
  [id |-> vec_to_f(b.id), nullifier_old |-> vec_to_f(b.nullifier_old),
   account_old_balance |-> vec_to_f(b.account_balance_old),
   token_address |-> vec_to_f(b.token_address), path |-> vec_to_path(b.path),
   withdrawal_value |-> vec_to_f(b.value), nullifier_new |-> vec_to_f(b.nullifier_new),
   commitment |-> vec_to_f(b.commitment), mac_salt |-> vec_to_f(b.mac_salt)]
WithdrawPubInputsBytes(k) ==
  LET i == WithdrawInstance(k)
  IN [merkle_root |-> field_to_bytes(i.MerkleRoot),
      h_nullifier_old |-> field_to_bytes(i.HashedOldNullifier),
      h_note_new |-> field_to_bytes(i.HashedNewNote),
      withdrawal_value |-> field_to_bytes(i.WithdrawalValue),
      token_address |-> field_to_bytes(i.TokenAddress),
      commitment |-> field_to_bytes(i.Commitment), mac_salt |-> field_to_bytes(i.MacSalt),
      mac_commitment |-> field_to_bytes(i.MacCommitment)]

NewAccountToProve(b) ==
  [id |-> vec_to_f(b.id), nullifier |-> vec_to_f(b.nullifier),
   initial_deposit |-> vec_to_f(b.initial_deposit), commitment |-> vec_to_f(b.commitment),
   token_address |-> vec_to_f(b.token_address),
   encryption_salt |-> field_element_to_le_bits(vec_to_f(b.encryption_salt)),
   mac_salt |-> vec_to_f(b.mac_salt),
   anonymity_revoker_public_key |-> [x |-> vec_to_f(b.anonymity_revoker_public_key_x),
                                     y |-> vec_to_f(b.anonymity_revoker_public_key_y)]]
NewAccountToPublish(b) ==
  [id |-> vec_to_f(b.id), nullifier |-> vec_to_f(b.nullifier),
   initial_deposit |-> vec_to_f(b.initial_deposit), commitment |-> vec_to_f(b.commitment),
   token_address |-> vec_to_f(b.token_address),
   encryption_salt |-> field_element_to_le_bits(vec_to_f(b.encryption_salt)),
   mac_salt |-> vec_to_f(b.mac_salt),
   anonymity_revoker_public_key |-> [x |-> vec_to_f(b.anonymity_revoker_public_key_x),
                                     y |-> vec_to_f(b.anonymity_revoker_public_key_y)]]
NewAccountPubInputsBytes(k) ==
  LET i == NewAccountInstance(k)
  IN [hashed_note |-> field_to_bytes(i.HashedNote),
      prenullifier |-> field_to_bytes(i.Prenullifier),
      initial_deposit |-> field_to_bytes(i.InitialDeposit),
      commitment |-> field_to_bytes(i.Commitment),
      token_address |-> field_to_bytes(i.TokenAddress),
      anonymity_revoker_public_key_x |-> field_to_bytes(i.AnonymityRevokerPublicKeyX),
      anonymity_revoker_public_key_y |-> field_to_bytes(i.AnonymityRevokerPublicKeyY),
      sym_key_encryption_1_x |-> field_to_bytes(i.EncryptedKeyCiphertext1X),
      sym_key_encryption_1_y |-> field_to_bytes(i.EncryptedKeyCiphertext1Y),
      sym_key_encryption_2_x |-> field_to_bytes(i.EncryptedKeyCiphertext2X),
      sym_key_encryption_2_y |-> field_to_bytes(i.EncryptedKeyCiphertext2Y),
      mac_salt |-> field_to_bytes(i.MacSalt),
      mac_commitment |-> field_to_bytes(i.MacCommitment)]

\* The circuit of a payload.  Panics says that some conversion fails.
Panics(circuit, b) ==
  \/ circuit = "NewAccount" /\ \E f \in NewAccountFields : ~ConvertsToField(b[f])
  \/ /\ circuit # "NewAccount"
     /\ (\E f \in SpendFields : ~ConvertsToField(b[f])) \/ ~ConvertsToPath(b.path)

prove(circuit, b) ==
  CASE circuit = "NewAccount" -> NewAccountProof(NewAccountToProve(b))
    [] circuit = "Deposit" -> DepositProof(DepositToProve(b))
    [] circuit = "Withdraw" -> WithdrawProof(WithdrawToProve(b))
pub_inputs(circuit, b) ==
  CASE circuit = "NewAccount" -> NewAccountPubInputsBytes(NewAccountToPublish(b))
    [] circuit = "Deposit" -> DepositPubInputsBytes(DepositToPublish(b))
    [] circuit = "Withdraw" -> WithdrawPubInputsBytes(WithdrawToPublish(b))
=============================================================================
