---------------------------- MODULE ClientCircuits ---------------------------
(***************************************************************************)
(* The circuits as the SDK sees them.  A client either computes by itself  *)
(* (shielder-sdk-crypto-wasm on the bindings of shielder_bindings) or asks *)
(* the environment (shielder-sdk-crypto-wasm-light).  The functions of the *)
(* bindings take their arguments by position, and the order differs from   *)
(* function to function: withdraw's verify takes the commitment before the *)
(* token, its other structures after it.  So do the operators here, and    *)
(* the package calls them in its own order.                                *)
(***************************************************************************)
EXTENDS ProverCircuits

(***************************************************************************)
(* shielder_bindings.                                                      *)
(***************************************************************************)
\* verify of a circuit: the public inputs are converted back and compared with the ones
\* the proof was made for.
Verified(instance, proof) ==
  /\ \A i \in DOMAIN instance : ConvertsToField(instance[i])
  /\ proof.sound
  /\ proof.instance = [i \in DOMAIN instance |-> vec_to_f(instance[i])]

deposit_prove(id, nullifier_old, account_balance_old, token_address, path, value, commitment, nullifier_new, mac_salt) ==
  DepositProof(
    [id |-> vec_to_f(id), nullifier_old |-> vec_to_f(nullifier_old),
     account_old_balance |-> vec_to_f(account_balance_old),
     token_address |-> vec_to_f(token_address), path |-> vec_to_path(path),
     deposit_value |-> vec_to_f(value), commitment |-> vec_to_f(commitment),
     nullifier_new |-> vec_to_f(nullifier_new), mac_salt |-> vec_to_f(mac_salt)])
deposit_verify(merkle_root, h_nullifier_old, h_note_new, value, commitment, token_address, mac_salt, mac_commitment, proof) ==
  Verified([MerkleRoot |-> merkle_root, HashedOldNullifier |-> h_nullifier_old,
            HashedNewNote |-> h_note_new, DepositValue |-> value, Commitment |-> commitment,
            TokenAddress |-> token_address, MacSalt |-> mac_salt,
            MacCommitment |-> mac_commitment], proof)
\* DepositPubInputsBytes::from.
DepositPubInputs(k) ==
  LET i == DepositInstance(k)
  IN [merkle_root |-> field_to_bytes(i.MerkleRoot),
      h_nullifier_old |-> field_to_bytes(i.HashedOldNullifier),
      h_note_new |-> field_to_bytes(i.HashedNewNote), value |-> field_to_bytes(i.DepositValue),
      commitment |-> field_to_bytes(i.Commitment),
      token_address |-> field_to_bytes(i.TokenAddress), mac_salt |-> field_to_bytes(i.MacSalt),
      mac_commitment |-> field_to_bytes(i.MacCommitment)]
deposit_pub_inputs(id, nullifier_old, account_balance_old, token_address, path, value, commitment, nullifier_new, mac_salt) ==
  DepositPubInputs(
    [id |-> vec_to_f(id), nullifier_old |-> vec_to_f(nullifier_old),
     account_old_balance |-> vec_to_f(account_balance_old),
     token_address |-> vec_to_f(token_address), path |-> vec_to_path(path),
     deposit_value |-> vec_to_f(value), commitment |-> vec_to_f(commitment),
     nullifier_new |-> vec_to_f(nullifier_new), mac_salt |-> vec_to_f(mac_salt)])

withdraw_prove(id, nullifier_old, account_balance_old, token_address, path, value, nullifier_new, commitment, mac_salt) ==
  WithdrawProof(
    [id |-> vec_to_f(id), nullifier_old |-> vec_to_f(nullifier_old),
     account_old_balance |-> vec_to_f(account_balance_old),
     token_address |-> vec_to_f(token_address), path |-> vec_to_path(path),
     withdrawal_value |-> vec_to_f(value), nullifier_new |-> vec_to_f(nullifier_new),
     commitment |-> vec_to_f(commitment), mac_salt |-> vec_to_f(mac_salt)])
withdraw_verify(merkle_root, h_nullifier_old, h_note_new, value, commitment, token_address, mac_salt, mac_commitment, proof) ==
  Verified([MerkleRoot |-> merkle_root, HashedOldNullifier |-> h_nullifier_old,
            HashedNewNote |-> h_note_new, WithdrawalValue |-> value, Commitment |-> commitment,
            TokenAddress |-> token_address, MacSalt |-> mac_salt,
            MacCommitment |-> mac_commitment], proof)
\* WithdrawPubInputsBytes::from.
WithdrawPubInputs(k) ==
  LET i == WithdrawInstance(k)
  IN [merkle_root |-> field_to_bytes(i.MerkleRoot),
      h_nullifier_old |-> field_to_bytes(i.HashedOldNullifier),
      h_note_new |-> field_to_bytes(i.HashedNewNote),
      withdrawal_value |-> field_to_bytes(i.WithdrawalValue),
      token_address |-> field_to_bytes(i.TokenAddress),
      commitment |-> field_to_bytes(i.Commitment), mac_salt |-> field_to_bytes(i.MacSalt),
      mac_commitment |-> field_to_bytes(i.MacCommitment)]
withdraw_pub_inputs(id, nullifier_old, account_balance_old, token_address, path, value, nullifier_new, commitment, mac_salt) ==
  WithdrawPubInputs(
    [id |-> vec_to_f(id), nullifier_old |-> vec_to_f(nullifier_old),
     account_old_balance |-> vec_to_f(account_balance_old),
     token_address |-> vec_to_f(token_address), path |-> vec_to_path(path),
     withdrawal_value |-> vec_to_f(value), nullifier_new |-> vec_to_f(nullifier_new),
     commitment |-> vec_to_f(commitment), mac_salt |-> vec_to_f(mac_salt)])

\* ar_x, ar_y: the revoker's public key; key_1_x and so on: sym_key_encryption_1_x.
new_account_prove(id, nullifier, initial_deposit, commitment, token_address, encryption_salt, mac_salt, ar_x, ar_y) ==
  NewAccountProof(
    [id |-> vec_to_f(id), nullifier |-> vec_to_f(nullifier),
     initial_deposit |-> vec_to_f(initial_deposit), commitment |-> vec_to_f(commitment),
     token_address |-> vec_to_f(token_address),
     encryption_salt |-> field_element_to_le_bits(vec_to_f(encryption_salt)),
     mac_salt |-> vec_to_f(mac_salt),
     anonymity_revoker_public_key |-> [x |-> vec_to_f(ar_x),
                                       y |-> vec_to_f(ar_y)]])
new_account_verify(h_note, prenullifier, initial_deposit, commitment, token_address, ar_x, ar_y, key_1_x, key_1_y, key_2_x, key_2_y, mac_salt, mac_commitment, proof) ==
  Verified([Prenullifier |-> prenullifier, HashedNote |-> h_note,
            InitialDeposit |-> initial_deposit, Commitment |-> commitment,
            TokenAddress |-> token_address,
            AnonymityRevokerPublicKeyX |-> ar_x, AnonymityRevokerPublicKeyY |-> ar_y,
            EncryptedKeyCiphertext1X |-> key_1_x, EncryptedKeyCiphertext1Y |-> key_1_y,
            EncryptedKeyCiphertext2X |-> key_2_x, EncryptedKeyCiphertext2Y |-> key_2_y,
            MacSalt |-> mac_salt, MacCommitment |-> mac_commitment], proof)
\* NewAccountPubInputsBytes::from.
NewAccountPubInputs(k) ==
  LET i == NewAccountInstance(k)
  IN [hashed_note |-> field_to_bytes(i.HashedNote),
      prenullifier |-> field_to_bytes(i.Prenullifier),
      initial_deposit |-> field_to_bytes(i.InitialDeposit),
      commitment |-> field_to_bytes(i.Commitment),
      token_address |-> field_to_bytes(i.TokenAddress),
      anonymity_revoker_public_key_x |-> field_to_bytes(i.AnonymityRevokerPublicKeyX),
      anonymity_revoker_public_key_y |-> field_to_bytes(i.AnonymityRevokerPublicKeyY),
      sym_key_encryption_1_x |-> field_to_bytes(i.EncryptedKeyCiphertext1X),
      sym_key_encryption_1_y |-> field_to_bytes(i.EncryptedKeyCiphertext1Y),
      sym_key_encryption_2_x |-> field_to_bytes(i.EncryptedKeyCiphertext2X),
      sym_key_encryption_2_y |-> field_to_bytes(i.EncryptedKeyCiphertext2Y),
      mac_salt |-> field_to_bytes(i.MacSalt),
      mac_commitment |-> field_to_bytes(i.MacCommitment)]
new_account_pub_inputs(id, nullifier, initial_deposit, commitment, token_address, encryption_salt, mac_salt, ar_x, ar_y) ==
  NewAccountPubInputs(
    [id |-> vec_to_f(id), nullifier |-> vec_to_f(nullifier),
     initial_deposit |-> vec_to_f(initial_deposit), commitment |-> vec_to_f(commitment),
     token_address |-> vec_to_f(token_address),
     encryption_salt |-> field_element_to_le_bits(vec_to_f(encryption_salt)),
     mac_salt |-> vec_to_f(mac_salt),
     anonymity_revoker_public_key |-> [x |-> vec_to_f(ar_x),
                                       y |-> vec_to_f(ar_y)]])

(***************************************************************************)
(* shielder-sdk-crypto-wasm: prove, with the public inputs under the SDK's *)
(* names, and verify.  A value stands for its bytes; Scalar adds nothing.  *)
(***************************************************************************)
WasmDepositPubInputs(p) ==
  [merkleRoot |-> p.merkle_root, hNullifierOld |-> p.h_nullifier_old, hNoteNew |-> p.h_note_new,
   value |-> p.value, commitment |-> p.commitment, tokenAddress |-> p.token_address,
   macSalt |-> p.mac_salt, macCommitment |-> p.mac_commitment]
WasmDeposit(v) ==
  [proof |-> deposit_prove(v.id, v.nullifierOld, v.accountBalanceOld, v.tokenAddress, v.path,
                           v.value, v.commitment, v.nullifierNew, v.macSalt),
   pubInputs |-> WasmDepositPubInputs(
     deposit_pub_inputs(v.id, v.nullifierOld, v.accountBalanceOld, v.tokenAddress, v.path,
                        v.value, v.commitment, v.nullifierNew, v.macSalt))]
WasmDepositVerify(proof, p) ==
  deposit_verify(p.merkleRoot, p.hNullifierOld, p.hNoteNew, p.value, p.commitment,
                 p.tokenAddress, p.macSalt, p.macCommitment, proof)

WasmWithdrawPubInputs(p) ==
  [merkleRoot |-> p.merkle_root, hNullifierOld |-> p.h_nullifier_old, hNoteNew |-> p.h_note_new,
   value |-> p.withdrawal_value, commitment |-> p.commitment, tokenAddress |-> p.token_address,
   macSalt |-> p.mac_salt, macCommitment |-> p.mac_commitment]
WasmWithdraw(v) ==
  [proof |-> withdraw_prove(v.id, v.nullifierOld, v.accountBalanceOld, v.tokenAddress, v.path,
                            v.value, v.nullifierNew, v.commitment, v.macSalt),
   pubInputs |-> WasmWithdrawPubInputs(
     withdraw_pub_inputs(v.id, v.nullifierOld, v.accountBalanceOld, v.tokenAddress, v.path,
                         v.value, v.nullifierNew, v.commitment, v.macSalt))]

\* Mutant: the arguments are passed in the order of the structure.
WasmWithdrawVerifyAsStructure(proof, p) ==
  withdraw_verify(p.merkleRoot, p.hNullifierOld, p.hNoteNew, p.value, p.tokenAddress,
                  p.commitment, p.macSalt, p.macCommitment, proof)

WasmWithdrawVerify(proof, p) ==
  withdraw_verify(p.merkleRoot, p.hNullifierOld, p.hNoteNew, p.value, p.commitment,
                  p.tokenAddress, p.macSalt, p.macCommitment, proof)

WasmNewAccountPubInputs(p) ==
  [hNote |-> p.hashed_note, prenullifier |-> p.prenullifier,
   initialDeposit |-> p.initial_deposit, commitment |-> p.commitment,
   tokenAddress |-> p.token_address,
   anonymityRevokerPublicKeyX |-> p.anonymity_revoker_public_key_x,
   anonymityRevokerPublicKeyY |-> p.anonymity_revoker_public_key_y,
   symKeyEncryption1X |-> p.sym_key_encryption_1_x,
   symKeyEncryption1Y |-> p.sym_key_encryption_1_y,
   symKeyEncryption2X |-> p.sym_key_encryption_2_x,
   symKeyEncryption2Y |-> p.sym_key_encryption_2_y, macSalt |-> p.mac_salt,
   macCommitment |-> p.mac_commitment]
WasmNewAccount(v) ==
  [proof |-> new_account_prove(v.id, v.nullifier, v.initialDeposit, v.commitment, v.tokenAddress,
                               v.encryptionSalt, v.macSalt, v.anonymityRevokerPublicKeyX,
                               v.anonymityRevokerPublicKeyY),
   pubInputs |-> WasmNewAccountPubInputs(
     new_account_pub_inputs(v.id, v.nullifier, v.initialDeposit, v.commitment, v.tokenAddress,
                            v.encryptionSalt, v.macSalt, v.anonymityRevokerPublicKeyX,
                            v.anonymityRevokerPublicKeyY))]
WasmNewAccountVerify(proof, p) ==
  new_account_verify(p.hNote, p.prenullifier, p.initialDeposit, p.commitment, p.tokenAddress,
                     p.anonymityRevokerPublicKeyX, p.anonymityRevokerPublicKeyY,
                     p.symKeyEncryption1X, p.symKeyEncryption1Y, p.symKeyEncryption2X,
                     p.symKeyEncryption2Y, p.macSalt, p.macCommitment, proof)

\* The CryptoClient of the package.
WasmProve(circuit, v) ==
  CASE circuit = "NewAccount" -> WasmNewAccount(v)
    [] circuit = "Deposit" -> WasmDeposit(v)
    [] circuit = "Withdraw" -> WasmWithdraw(v)
WasmVerify(circuit, proof, p) ==
  CASE circuit = "NewAccount" -> WasmNewAccountVerify(proof, p)
    [] circuit = "Deposit" -> WasmDepositVerify(proof, p)
    [] circuit = "Withdraw" -> WasmWithdrawVerify(proof, p)

(***************************************************************************)
(* shielder-sdk-crypto-wasm-light: the witness a client sends, and the     *)
(* public inputs it reads from the answer.                                 *)
(***************************************************************************)
DepositWitness(v) ==
  [id |-> v.id, nullifier_old |-> v.nullifierOld, account_balance_old |-> v.accountBalanceOld,
   token_address |-> v.tokenAddress, path |-> v.path, value |-> v.value,
   commitment |-> v.commitment, nullifier_new |-> v.nullifierNew, mac_salt |-> v.macSalt]
TeeDepositPubInputs(p) ==
  [merkleRoot |-> p.merkle_root, hNullifierOld |-> p.h_nullifier_old, hNoteNew |-> p.h_note_new,
   value |-> p.value, commitment |-> p.commitment, tokenAddress |-> p.token_address,
   macSalt |-> p.mac_salt, macCommitment |-> p.mac_commitment]

WithdrawWitness(v) ==
  [id |-> v.id, nullifier_old |-> v.nullifierOld, account_balance_old |-> v.accountBalanceOld,
   token_address |-> v.tokenAddress, path |-> v.path, value |-> v.value,
   nullifier_new |-> v.nullifierNew, commitment |-> v.commitment, mac_salt |-> v.macSalt]
TeeWithdrawPubInputs(p) ==
  [merkleRoot |-> p.merkle_root, hNullifierOld |-> p.h_nullifier_old, hNoteNew |-> p.h_note_new,
   value |-> p.withdrawal_value, tokenAddress |-> p.token_address, commitment |-> p.commitment,
   macSalt |-> p.mac_salt, macCommitment |-> p.mac_commitment]

NewAccountWitness(v) ==
  [id |-> v.id, nullifier |-> v.nullifier, initial_deposit |-> v.initialDeposit,
   commitment |-> v.commitment, token_address |-> v.tokenAddress,
   encryption_salt |-> v.encryptionSalt, mac_salt |-> v.macSalt,
   anonymity_revoker_public_key_x |-> v.anonymityRevokerPublicKeyX,
   anonymity_revoker_public_key_y |-> v.anonymityRevokerPublicKeyY]
TeeNewAccountPubInputs(p) ==
  [hNote |-> p.hashed_note, prenullifier |-> p.prenullifier,
   initialDeposit |-> p.initial_deposit, commitment |-> p.commitment,
   tokenAddress |-> p.token_address,
   anonymityRevokerPublicKeyX |-> p.anonymity_revoker_public_key_x,
   anonymityRevokerPublicKeyY |-> p.anonymity_revoker_public_key_y,
   symKeyEncryption1X |-> p.sym_key_encryption_1_x,
   symKeyEncryption1Y |-> p.sym_key_encryption_1_y,
   symKeyEncryption2X |-> p.sym_key_encryption_2_x,
   symKeyEncryption2Y |-> p.sym_key_encryption_2_y, macSalt |-> p.mac_salt,
   macCommitment |-> p.mac_commitment]

witness(circuit, v) ==
  CASE circuit = "NewAccount" -> NewAccountWitness(v)
    [] circuit = "Deposit" -> DepositWitness(v)
    [] circuit = "Withdraw" -> WithdrawWitness(v)
TeePubInputs(circuit, p) ==
  CASE circuit = "NewAccount" -> TeeNewAccountPubInputs(p)
    [] circuit = "Deposit" -> TeeDepositPubInputs(p)
    [] circuit = "Withdraw" -> TeeWithdrawPubInputs(p)

-----------------------------------------------------------------------------
\* The reference, in the SDK's terms: the old note is the leaf of the path, and a
\* withdrawal takes no more than the note holds.
Satisfies(circuit, v) ==
  circuit # "NewAccount" =>
    /\ v.path.value.leaf = Hash(<<v.id.value, v.nullifierOld.value,
                                  v.accountBalanceOld.value, v.tokenAddress.value>>)
    /\ circuit = "Withdraw" => v.value.value <= v.accountBalanceOld.value
=============================================================================
