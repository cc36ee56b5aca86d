-------------------------- MODULE ProverServerProofs -------------------------
(***************************************************************************)
(* Theorems on the prover, for every number of requests, slots, threads    *)
(* and restarts, and whatever the payloads are.                            *)
(***************************************************************************)
EXTENDS ProverServer, FiniteSetTheorems, SequenceTheorems, TLAPS

-----------------------------------------------------------------------------
(* What the environment answers. *)

RequestSet == {Ping, TeePublicKey} \cup {GenerateProof(key, call) : key \in Nat, call \in Calls}

\* The answer to a request under some key the environment has had.
Answers(request, response, last) ==
  \E key \in 1..last : response = HandleRequest(request, key) /\ response # Failure

\* The requests of clients, told apart by their kinds.
LEMMA RequestKinds ==
  ASSUME NEW q \in RequestSet
  PROVE  \/ q = Ping /\ q.kind = "Ping"
         \/ q = TeePublicKey /\ q.kind = "TeePublicKey"
         \/ q.kind = "GenerateProof" /\ q.call \in Calls /\ q.payload = payload(q.call)
  BY DEF RequestSet, Ping, TeePublicKey, GenerateProof

\* Converting public inputs to bytes and back loses nothing.
LEMMA PublicInputsConvert ==
  ASSUME NEW instance, instance = [i \in DOMAIN instance |-> instance[i]],
         NEW satisfied \in BOOLEAN, NEW bytes,
         bytes = [i \in DOMAIN instance |-> field_to_bytes(instance[i])]
  PROVE  Verified(bytes, generate_proof(instance, satisfied)) <=> satisfied
  <1> DEFINE proof == generate_proof(instance, satisfied)
  <1>1. DOMAIN bytes = DOMAIN instance
    OBVIOUS
  <1>2. ASSUME NEW i \in DOMAIN instance
        PROVE  ConvertsToField(bytes[i]) /\ vec_to_f(bytes[i]) = instance[i]
    BY DEF field_to_bytes, ConvertsToField, vec_to_f
  <1>3. proof.sound = satisfied /\ proof.instance = instance
    BY DEF generate_proof
  <1> HIDE DEF proof
  <1>4. [i \in DOMAIN bytes |-> vec_to_f(bytes[i])] = instance
    BY <1>1, <1>2
  <1> QED
    BY <1>1, <1>2, <1>3, <1>4 DEF Verified, proof

\* What a client computes by itself, and what it gets from the environment.
Local(circuit, v) == WasmProve(circuit, v)
Remote(circuit, v) ==
  [proof |-> prove(circuit, witness(circuit, v)),
   pubInputs |-> TeePubInputs(circuit, pub_inputs(circuit, witness(circuit, v)))]

GoodAnswer(circuit, v, answer) ==
  /\ answer = Local(circuit, v)
  /\ WasmVerify(circuit, answer.proof, answer.pubInputs) <=> Satisfies(circuit, v)
  /\ \A f \in Chosen(circuit) : answer.pubInputs[f].value = v[f].value

\* What a client gets for a deposit is good.
LEMMA DepositGood ==
  ASSUME NEW v
  PROVE  GoodAnswer("Deposit", v, Remote("Deposit", v))
  <1> DEFINE k == [id |-> vec_to_f(v.id), nullifier_old |-> vec_to_f(v.nullifierOld),
                     account_old_balance |-> vec_to_f(v.accountBalanceOld),
                     token_address |-> vec_to_f(v.tokenAddress), path |-> vec_to_path(v.path),
                     deposit_value |-> vec_to_f(v.value), commitment |-> vec_to_f(v.commitment),
                     nullifier_new |-> vec_to_f(v.nullifierNew), mac_salt |-> vec_to_f(v.macSalt)]
             instance == DepositInstance(k)
             proof == DepositProof(k)
             given == TeeDepositPubInputs(DepositPubInputsBytes(k))
             bytes == [i \in DOMAIN instance |-> field_to_bytes(instance[i])]
  <1>1. /\ DepositToProve(DepositWitness(v)) = k
        /\ DepositToPublish(DepositWitness(v)) = k
    BY DEF DepositToProve, DepositToPublish, DepositWitness
  <1>2. Remote("Deposit", v) = [proof |-> proof, pubInputs |-> given]
    BY <1>1 DEF Remote, prove, pub_inputs, witness, TeePubInputs
  <1>3. Local("Deposit", v) = [proof |-> proof, pubInputs |-> given]
    <2>1. Local("Deposit", v) = [proof |-> proof,
                               pubInputs |-> WasmDepositPubInputs(DepositPubInputs(k))]
      BY DEF Local, WasmProve, WasmDeposit, deposit_prove, deposit_pub_inputs
    <2>2. DepositPubInputs(k) = DepositPubInputsBytes(k)
      BY DEF DepositPubInputs, DepositPubInputsBytes
    <2> HIDE DEF k
    <2>3. WasmDepositPubInputs(DepositPubInputsBytes(k)) = given
      BY DEF WasmDepositPubInputs, TeeDepositPubInputs
    <2> QED
      BY <2>1, <2>2, <2>3
  <1>4. WasmVerify("Deposit", proof, given) <=> Verified(bytes, proof)
    <2> HIDE DEF k
    <2>1. WasmVerify("Deposit", proof, given) <=> WasmDepositVerify(proof, given)
      BY DEF WasmVerify
    <2>2. WasmDepositVerify(proof, given) <=> Verified(bytes, proof)
      <3> DEFINE args == [MerkleRoot |-> given.merkleRoot,
                          HashedOldNullifier |-> given.hNullifierOld,
                          HashedNewNote |-> given.hNoteNew, DepositValue |-> given.value,
                          Commitment |-> given.commitment, TokenAddress |-> given.tokenAddress,
                          MacSalt |-> given.macSalt, MacCommitment |-> given.macCommitment]
      <3>1. args = [MerkleRoot |-> field_to_bytes(instance.MerkleRoot),
                    HashedOldNullifier |-> field_to_bytes(instance.HashedOldNullifier),
                    HashedNewNote |-> field_to_bytes(instance.HashedNewNote),
                    DepositValue |-> field_to_bytes(instance.DepositValue),
                    Commitment |-> field_to_bytes(instance.Commitment),
                    TokenAddress |-> field_to_bytes(instance.TokenAddress),
                    MacSalt |-> field_to_bytes(instance.MacSalt),
                    MacCommitment |-> field_to_bytes(instance.MacCommitment)]
        BY DEF TeeDepositPubInputs, DepositPubInputsBytes
      <3>2. DOMAIN instance = {"MerkleRoot", "HashedOldNullifier", "HashedNewNote",
                               "DepositValue", "Commitment", "TokenAddress", "MacSalt",
                               "MacCommitment"}
        BY DEF DepositInstance
      <3>3. WasmDepositVerify(proof, given) <=> Verified(args, proof)
        BY DEF WasmDepositVerify, deposit_verify
      <3> HIDE DEF instance, args, proof, given
      <3>4. args = bytes
        BY <3>1, <3>2
      <3> QED
        BY <3>3, <3>4
    <2> QED
      BY <2>1, <2>2
  <1>5. Verified(bytes, proof) <=> (OnPath(k))
    <2>1. instance = [i \in DOMAIN instance |-> instance[i]]
      BY DEF DepositInstance
    <2>2. proof = generate_proof(instance, OnPath(k))
      BY DEF DepositProof
    <2>3. (OnPath(k)) \in BOOLEAN
      BY DEF OnPath, Covered
    <2> HIDE DEF instance, proof, k
    <2> QED
      BY <2>1, <2>2, <2>3, PublicInputsConvert
  <1>6. (OnPath(k)) <=> Satisfies("Deposit", v)
    BY DEF Satisfies, OnPath, NoteOf, vec_to_f, vec_to_path
  <1>7. /\ given.value.value = v.value.value
        /\ given.commitment.value = v.commitment.value
        /\ given.tokenAddress.value = v.tokenAddress.value
        /\ given.macSalt.value = v.macSalt.value
    BY DEF TeeDepositPubInputs, DepositPubInputsBytes, DepositInstance, field_to_bytes, vec_to_f
  <1>8. \A f \in Chosen("Deposit") : given[f].value = v[f].value
    <2> HIDE DEF given
    <2> QED
      BY <1>7 DEF Chosen
  <1> HIDE DEF k, instance, proof, given, bytes
  <1> QED
    BY <1>2, <1>3, <1>4, <1>5, <1>6, <1>8 DEF GoodAnswer

\* What a client gets for a withdrawal is good.
LEMMA WithdrawGood ==
  ASSUME NEW v
  PROVE  GoodAnswer("Withdraw", v, Remote("Withdraw", v))
  <1> DEFINE k == [id |-> vec_to_f(v.id), nullifier_old |-> vec_to_f(v.nullifierOld),
                     account_old_balance |-> vec_to_f(v.accountBalanceOld),
                     token_address |-> vec_to_f(v.tokenAddress), path |-> vec_to_path(v.path),
                     withdrawal_value |-> vec_to_f(v.value),
                     nullifier_new |-> vec_to_f(v.nullifierNew),
                     commitment |-> vec_to_f(v.commitment), mac_salt |-> vec_to_f(v.macSalt)]
             instance == WithdrawInstance(k)
             proof == WithdrawProof(k)
             given == TeeWithdrawPubInputs(WithdrawPubInputsBytes(k))
             bytes == [i \in DOMAIN instance |-> field_to_bytes(instance[i])]
  <1>1. /\ WithdrawToProve(WithdrawWitness(v)) = k
        /\ WithdrawToPublish(WithdrawWitness(v)) = k
    BY DEF WithdrawToProve, WithdrawToPublish, WithdrawWitness
  <1>2. Remote("Withdraw", v) = [proof |-> proof, pubInputs |-> given]
    BY <1>1 DEF Remote, prove, pub_inputs, witness, TeePubInputs
  <1>3. Local("Withdraw", v) = [proof |-> proof, pubInputs |-> given]
    <2>1. Local("Withdraw", v) = [proof |-> proof,
                               pubInputs |-> WasmWithdrawPubInputs(WithdrawPubInputs(k))]
      BY DEF Local, WasmProve, WasmWithdraw, withdraw_prove, withdraw_pub_inputs
    <2>2. WithdrawPubInputs(k) = WithdrawPubInputsBytes(k)
      BY DEF WithdrawPubInputs, WithdrawPubInputsBytes
    <2> HIDE DEF k
    <2>3. WasmWithdrawPubInputs(WithdrawPubInputsBytes(k)) = given
      BY DEF WasmWithdrawPubInputs, TeeWithdrawPubInputs
    <2> QED
      BY <2>1, <2>2, <2>3
  <1>4. WasmVerify("Withdraw", proof, given) <=> Verified(bytes, proof)
    <2> HIDE DEF k
    <2>1. WasmVerify("Withdraw", proof, given) <=> WasmWithdrawVerify(proof, given)
      BY DEF WasmVerify
    <2>2. WasmWithdrawVerify(proof, given) <=> Verified(bytes, proof)
      <3> DEFINE args == [MerkleRoot |-> given.merkleRoot,
                          HashedOldNullifier |-> given.hNullifierOld,
                          HashedNewNote |-> given.hNoteNew, WithdrawalValue |-> given.value,
                          Commitment |-> given.commitment, TokenAddress |-> given.tokenAddress,
                          MacSalt |-> given.macSalt, MacCommitment |-> given.macCommitment]
      <3>1. args = [MerkleRoot |-> field_to_bytes(instance.MerkleRoot),
                    HashedOldNullifier |-> field_to_bytes(instance.HashedOldNullifier),
                    HashedNewNote |-> field_to_bytes(instance.HashedNewNote),
                    WithdrawalValue |-> field_to_bytes(instance.WithdrawalValue),
                    Commitment |-> field_to_bytes(instance.Commitment),
                    TokenAddress |-> field_to_bytes(instance.TokenAddress),
                    MacSalt |-> field_to_bytes(instance.MacSalt),
                    MacCommitment |-> field_to_bytes(instance.MacCommitment)]
        BY DEF TeeWithdrawPubInputs, WithdrawPubInputsBytes
      <3>2. DOMAIN instance = {"MerkleRoot", "HashedOldNullifier", "HashedNewNote",
                               "WithdrawalValue", "Commitment", "TokenAddress", "MacSalt",
                               "MacCommitment"}
        BY DEF WithdrawInstance
      <3>3. WasmWithdrawVerify(proof, given) <=> Verified(args, proof)
        BY DEF WasmWithdrawVerify, withdraw_verify
      <3> HIDE DEF instance, args, proof, given
      <3>4. args = bytes
        BY <3>1, <3>2
      <3> QED
        BY <3>3, <3>4
    <2> QED
      BY <2>1, <2>2
  <1>5. Verified(bytes, proof) <=> (OnPath(k) /\ Covered(k))
    <2>1. instance = [i \in DOMAIN instance |-> instance[i]]
      BY DEF WithdrawInstance
    <2>2. proof = generate_proof(instance, OnPath(k) /\ Covered(k))
      BY DEF WithdrawProof
    <2>3. (OnPath(k) /\ Covered(k)) \in BOOLEAN
      BY DEF OnPath, Covered
    <2> HIDE DEF instance, proof, k
    <2> QED
      BY <2>1, <2>2, <2>3, PublicInputsConvert
  <1>6. (OnPath(k) /\ Covered(k)) <=> Satisfies("Withdraw", v)
    BY DEF Satisfies, OnPath, Covered, NoteOf, vec_to_f, vec_to_path
  <1>7. /\ given.value.value = v.value.value
        /\ given.commitment.value = v.commitment.value
        /\ given.tokenAddress.value = v.tokenAddress.value
        /\ given.macSalt.value = v.macSalt.value
    BY DEF TeeWithdrawPubInputs, WithdrawPubInputsBytes, WithdrawInstance, field_to_bytes, vec_to_f
  <1>8. \A f \in Chosen("Withdraw") : given[f].value = v[f].value
    <2> HIDE DEF given
    <2> QED
      BY <1>7 DEF Chosen
  <1> HIDE DEF k, instance, proof, given, bytes
  <1> QED
    BY <1>2, <1>3, <1>4, <1>5, <1>6, <1>8 DEF GoodAnswer

\* What a client gets for a new account is good.
LEMMA NewAccountGood ==
  ASSUME NEW v
  PROVE  GoodAnswer("NewAccount", v, Remote("NewAccount", v))
  <1> DEFINE k == [id |-> vec_to_f(v.id), nullifier |-> vec_to_f(v.nullifier),
                     initial_deposit |-> vec_to_f(v.initialDeposit),
                     commitment |-> vec_to_f(v.commitment),
                     token_address |-> vec_to_f(v.tokenAddress),
                     encryption_salt |-> field_element_to_le_bits(vec_to_f(v.encryptionSalt)),
                     mac_salt |-> vec_to_f(v.macSalt),
                     anonymity_revoker_public_key |->
                       [x |-> vec_to_f(v.anonymityRevokerPublicKeyX),
                        y |-> vec_to_f(v.anonymityRevokerPublicKeyY)]]
             instance == NewAccountInstance(k)
             proof == NewAccountProof(k)
             given == TeeNewAccountPubInputs(NewAccountPubInputsBytes(k))
             bytes == [i \in DOMAIN instance |-> field_to_bytes(instance[i])]
  <1>1. /\ NewAccountToProve(NewAccountWitness(v)) = k
        /\ NewAccountToPublish(NewAccountWitness(v)) = k
    BY DEF NewAccountToProve, NewAccountToPublish, NewAccountWitness
  <1>2. Remote("NewAccount", v) = [proof |-> proof, pubInputs |-> given]
    BY <1>1 DEF Remote, prove, pub_inputs, witness, TeePubInputs
  <1>3. Local("NewAccount", v) = [proof |-> proof, pubInputs |-> given]
    <2>1. Local("NewAccount", v) = [proof |-> proof,
                               pubInputs |-> WasmNewAccountPubInputs(NewAccountPubInputs(k))]
      BY DEF Local, WasmProve, WasmNewAccount, new_account_prove, new_account_pub_inputs
    <2>2. NewAccountPubInputs(k) = NewAccountPubInputsBytes(k)
      BY DEF NewAccountPubInputs, NewAccountPubInputsBytes
    <2> HIDE DEF k
    <2>3. WasmNewAccountPubInputs(NewAccountPubInputsBytes(k)) = given
      BY DEF WasmNewAccountPubInputs, TeeNewAccountPubInputs
    <2> QED
      BY <2>1, <2>2, <2>3
  <1>4. WasmVerify("NewAccount", proof, given) <=> Verified(bytes, proof)
    <2> HIDE DEF k
    <2>1. WasmVerify("NewAccount", proof, given) <=> WasmNewAccountVerify(proof, given)
      BY DEF WasmVerify
    <2>2. WasmNewAccountVerify(proof, given) <=> Verified(bytes, proof)
      <3> DEFINE args == [Prenullifier |-> given.prenullifier, HashedNote |-> given.hNote,
                          InitialDeposit |-> given.initialDeposit,
                          Commitment |-> given.commitment, TokenAddress |-> given.tokenAddress,
                          AnonymityRevokerPublicKeyX |-> given.anonymityRevokerPublicKeyX,
                          AnonymityRevokerPublicKeyY |-> given.anonymityRevokerPublicKeyY,
                          EncryptedKeyCiphertext1X |-> given.symKeyEncryption1X,
                          EncryptedKeyCiphertext1Y |-> given.symKeyEncryption1Y,
                          EncryptedKeyCiphertext2X |-> given.symKeyEncryption2X,
                          EncryptedKeyCiphertext2Y |-> given.symKeyEncryption2Y,
                          MacSalt |-> given.macSalt, MacCommitment |-> given.macCommitment]
      <3>1. args = [Prenullifier |-> field_to_bytes(instance.Prenullifier),
                    HashedNote |-> field_to_bytes(instance.HashedNote),
                    InitialDeposit |-> field_to_bytes(instance.InitialDeposit),
                    Commitment |-> field_to_bytes(instance.Commitment),
                    TokenAddress |-> field_to_bytes(instance.TokenAddress),
                    AnonymityRevokerPublicKeyX |-> field_to_bytes(instance.AnonymityRevokerPublicKeyX),
                    AnonymityRevokerPublicKeyY |-> field_to_bytes(instance.AnonymityRevokerPublicKeyY),
                    EncryptedKeyCiphertext1X |-> field_to_bytes(instance.EncryptedKeyCiphertext1X),
                    EncryptedKeyCiphertext1Y |-> field_to_bytes(instance.EncryptedKeyCiphertext1Y),
                    EncryptedKeyCiphertext2X |-> field_to_bytes(instance.EncryptedKeyCiphertext2X),
                    EncryptedKeyCiphertext2Y |-> field_to_bytes(instance.EncryptedKeyCiphertext2Y),
                    MacSalt |-> field_to_bytes(instance.MacSalt),
                    MacCommitment |-> field_to_bytes(instance.MacCommitment)]
        BY DEF TeeNewAccountPubInputs, NewAccountPubInputsBytes
      <3>2. DOMAIN instance = {"Prenullifier", "HashedNote", "InitialDeposit", "Commitment",
                               "TokenAddress", "AnonymityRevokerPublicKeyX",
                               "AnonymityRevokerPublicKeyY", "EncryptedKeyCiphertext1X",
                               "EncryptedKeyCiphertext1Y", "EncryptedKeyCiphertext2X",
                               "EncryptedKeyCiphertext2Y", "MacSalt", "MacCommitment"}
        BY DEF NewAccountInstance
      <3>3. WasmNewAccountVerify(proof, given) <=> Verified(args, proof)
        BY DEF WasmNewAccountVerify, new_account_verify
      <3> HIDE DEF instance, args, proof, given
      <3>4. args = bytes
        BY <3>1, <3>2
      <3> QED
        BY <3>3, <3>4
    <2> QED
      BY <2>1, <2>2
  <1>5. Verified(bytes, proof) <=> (TRUE)
    <2>1. instance = [i \in DOMAIN instance |-> instance[i]]
      BY DEF NewAccountInstance
    <2>2. proof = generate_proof(instance, TRUE)
      BY DEF NewAccountProof
    <2>3. (TRUE) \in BOOLEAN
      BY DEF OnPath, Covered
    <2> HIDE DEF instance, proof, k
    <2> QED
      BY <2>1, <2>2, <2>3, PublicInputsConvert
  <1>6. (TRUE) <=> Satisfies("NewAccount", v)
    BY DEF Satisfies
  <1>7. /\ given.initialDeposit.value = v.initialDeposit.value
        /\ given.commitment.value = v.commitment.value
        /\ given.tokenAddress.value = v.tokenAddress.value
        /\ given.macSalt.value = v.macSalt.value
        /\ given.anonymityRevokerPublicKeyX.value = v.anonymityRevokerPublicKeyX.value
        /\ given.anonymityRevokerPublicKeyY.value = v.anonymityRevokerPublicKeyY.value
    <2>1. /\ k.initial_deposit = v.initialDeposit.value
          /\ k.commitment = v.commitment.value
          /\ k.token_address = v.tokenAddress.value
          /\ k.mac_salt = v.macSalt.value
          /\ k.anonymity_revoker_public_key.x = v.anonymityRevokerPublicKeyX.value
          /\ k.anonymity_revoker_public_key.y = v.anonymityRevokerPublicKeyY.value
      BY DEF vec_to_f
    <2> HIDE DEF k
    <2>2. /\ instance.InitialDeposit = k.initial_deposit
          /\ instance.Commitment = k.commitment
          /\ instance.TokenAddress = k.token_address
          /\ instance.MacSalt = k.mac_salt
          /\ instance.AnonymityRevokerPublicKeyX = k.anonymity_revoker_public_key.x
          /\ instance.AnonymityRevokerPublicKeyY = k.anonymity_revoker_public_key.y
      BY DEF NewAccountInstance
    <2>3. /\ given.initialDeposit = field_to_bytes(instance.InitialDeposit)
          /\ given.commitment = field_to_bytes(instance.Commitment)
          /\ given.tokenAddress = field_to_bytes(instance.TokenAddress)
          /\ given.macSalt = field_to_bytes(instance.MacSalt)
          /\ given.anonymityRevokerPublicKeyX = field_to_bytes(instance.AnonymityRevokerPublicKeyX)
          /\ given.anonymityRevokerPublicKeyY = field_to_bytes(instance.AnonymityRevokerPublicKeyY)
      BY DEF TeeNewAccountPubInputs, NewAccountPubInputsBytes
    <2> HIDE DEF instance, given
    <2> QED
      BY <2>1, <2>2, <2>3 DEF field_to_bytes
  <1>8. \A f \in Chosen("NewAccount") : given[f].value = v[f].value
    <2> HIDE DEF given
    <2> QED
      BY <1>7 DEF Chosen
  <1> HIDE DEF k, instance, proof, given, bytes
  <1> QED
    BY <1>2, <1>3, <1>4, <1>5, <1>6, <1>8 DEF GoodAnswer

\* For every circuit the answer of the environment is good.
LEMMA ProofsVerify ==
  ASSUME NEW circuit \in CircuitTypes, NEW v
  PROVE  GoodAnswer(circuit, v, Remote(circuit, v))
  BY DepositGood, WithdrawGood, NewAccountGood DEF CircuitTypes

\* What an answer to a request to prove holds.
LEMMA ProofAnswer ==
  ASSUME NEW q \in RequestSet, q.kind = "GenerateProof", NEW response, NEW last \in Nat,
         Answers(q, response, last)
  PROVE  /\ response.kind = "EncryptedProof"
         /\ response.proof = encrypt_bytes(q.payload.user_public_key,
                               prove(q.payload.circuit_type, q.payload.circuit_inputs))
         /\ response.pub_inputs = encrypt_bytes(q.payload.user_public_key,
                               pub_inputs(q.payload.circuit_type, q.payload.circuit_inputs))
  <1>1. PICK key \in 1..last : response = HandleRequest(q, key) /\ response # Failure
    BY DEF Answers
  <1>2. response = encrypted_proof_response(q, key)
    BY <1>1 DEF HandleRequest
  <1> QED
    BY <1>1, <1>2 DEF encrypted_proof_response

\* What an answer to a request for the public key holds.
LEMMA KeyAnswer ==
  ASSUME NEW q, q.kind = "TeePublicKey", NEW response, NEW last \in Nat,
         Answers(q, response, last)
  PROVE  response.kind = "TeePublicKey" /\ response.public_key \in 1..last
  BY DEF Answers, HandleRequest, public_key_response

\* What an answer to a ping holds.
LEMMA PingAnswer ==
  ASSUME NEW q, q.kind = "Ping", NEW response, NEW last \in Nat, Answers(q, response, last)
  PROVE  response.kind = "Pong"
  BY DEF Answers, HandleRequest

\* A restart adds a key and takes none away.
LEMMA AnswersKept ==
  ASSUME NEW q, NEW response, NEW last \in Nat, NEW later \in Nat, last <= later,
         Answers(q, response, last)
  PROVE  Answers(q, response, later)
  BY DEF Answers

-----------------------------------------------------------------------------
(* The invariant. *)

ResponseSet == {NoResponse} \cup {HandleRequest(q, key) : q \in RequestSet, key \in Nat}
AnswerSet ==
  {NoAnswer, Error("GATEWAY_TIMEOUT"), Error("INTERNAL_SERVER_ERROR")}
  \cup {Ok(response) : response \in ResponseSet}

HttpState ==
  [stage : {"none", "queued", "spawned", "connected", "over"}, request : RequestSet, conn : Nat,
   gone : BOOLEAN, answer : AnswerSet]
ConnState ==
  [host : BOOLEAN, tee : {"sent", "busy", "waiting", "closed"}, request : RequestSet,
   response : ResponseSet]

TypeOK ==
  /\ http \in [Requests -> HttpState]
  /\ queue \in Seq(Requests)
  /\ conns \in Seq(ConnState)
  /\ tee \in [up : BOOLEAN, key : Nat \ {0}]

NoRepeats(q) == \A i, j \in 1..Len(q) : q[i] = q[j] => i = j

\* The queue holds each request that waits for a slot, once.
Queued ==
  /\ NoRepeats(queue)
  /\ \A r \in Requests : http[r].stage = "queued" <=> Contains(queue, r)

\* A connection that is open at the host belongs to a task that runs, and carries
\* the request of that task.
Linked ==
  /\ \A r \in Requests :
       /\ http[r].stage \in {"none", "queued", "spawned"} => http[r].conn = 0
       /\ http[r].stage = "connected" => /\ http[r].conn \in 1..Len(conns)
                                         /\ conns[http[r].conn].request = http[r].request
  /\ \A c \in 1..Len(conns) :
       conns[c].host => \E r \in Requests : http[r].stage = "connected" /\ http[r].conn = c

\* What stands on a connection, or was given to a client, is the answer to the
\* request there; a request that is not over has none.
Answered ==
  /\ \A c \in 1..Len(conns) :
       conns[c].response # NoResponse => Answers(conns[c].request, conns[c].response, tee.key)
  /\ \A r \in Requests :
       http[r].answer.status = "OK" => /\ http[r].stage = "over"
                                       /\ Answers(http[r].request, http[r].answer.response, tee.key)

Slots == Cardinality(Running) <= Capacity

Inv == TypeOK /\ Queued /\ Linked /\ Answered /\ Slots

\* The tasks that run are finitely many.
LEMMA RunningFinite == IsFiniteSet(Running) /\ Cardinality(Running) \in Nat
  <1>1. IsFiniteSet(Requests)
    BY FS_Interval, ProverAssumption DEF Requests
  <1>2. Running \in SUBSET Requests
    BY DEF Running
  <1> QED
    BY <1>1, <1>2, FS_Subset, FS_CardinalityType

\* A set of tasks within another takes no more slots.
LEMMA FewerSlots ==
  ASSUME Slots, NEW S \in SUBSET Running
  PROVE  Cardinality(S) <= Capacity
  <1>1. IsFiniteSet(S) /\ Cardinality(S) <= Cardinality(Running)
    BY RunningFinite, FS_Subset
  <1>2. Cardinality(S) \in Nat
    BY <1>1, FS_CardinalityType
  <1> QED
    BY <1>1, <1>2, RunningFinite, ProverAssumption DEF Slots

\* Dropping the host's end leaves the requests and the responses as they are.
LEMMA DroppedEffect ==
  ASSUME NEW cs \in Seq(ConnState), NEW c \in 0..Len(cs)
  PROVE  /\ Dropped(cs, c) \in Seq(ConnState)
         /\ Len(Dropped(cs, c)) = Len(cs)
         /\ \A i \in 1..Len(cs) : /\ Dropped(cs, c)[i].request = cs[i].request
                                  /\ Dropped(cs, c)[i].response = cs[i].response
                                  /\ Dropped(cs, c)[i].host => cs[i].host /\ i # c
  <1>1. CASE c = 0
    BY <1>1 DEF Dropped
  <1>2. CASE c # 0
    <2> DEFINE new == [cs[c] EXCEPT !.host = FALSE,
                                    !.tee = IF @ = "waiting" THEN "closed" ELSE @]
    <2>1. c \in 1..Len(cs) /\ cs[c] \in ConnState
      BY <1>2
    <2>2. Dropped(cs, c) = [cs EXCEPT ![c] = new]
      BY <1>2, <2>1 DEF Dropped, ConnState
    <2>3. new \in ConnState /\ new.request = cs[c].request /\ new.response = cs[c].response
          /\ ~new.host
      BY <2>1 DEF ConnState
    <2> HIDE DEF new
    <2> QED
      BY <2>1, <2>2, <2>3
  <1> QED
    BY <1>1, <1>2

\* Taking a request out of the queue keeps the others.
LEMMA RemoveQueued ==
  ASSUME NEW q \in Seq(Requests), NoRepeats(q), NEW i \in 1..Len(q)
  PROVE  /\ RemoveAt(q, i) \in Seq(Requests)
         /\ NoRepeats(RemoveAt(q, i))
         /\ \A r \in Requests : Contains(RemoveAt(q, i), r) <=> r # q[i] /\ Contains(q, r)
  <1> DEFINE p == RemoveAt(q, i)
  <1>1. /\ p \in Seq(Requests) /\ Len(p) = Len(q) - 1 /\ Len(q) \in Nat
        /\ \A j \in 1..Len(p) : p[j] = IF j < i THEN q[j] ELSE q[j + 1]
    <2> DEFINE front == SubSeq(q, 1, i - 1)
               back == SubSeq(q, i + 1, Len(q))
    <2>1. /\ front \in Seq(Requests) /\ Len(front) = i - 1
          /\ \A j \in 1..(i - 1) : front[j] = q[j]
      OBVIOUS
    <2>2. /\ back \in Seq(Requests) /\ Len(back) = Len(q) - i
          /\ \A j \in 1..(Len(q) - i) : back[j] = q[i + j]
      OBVIOUS
    <2>3. p = front \o back
      BY DEF RemoveAt
    <2> HIDE DEF front, back, p
    <2>4. p \in Seq(Requests) /\ Len(p) = Len(q) - 1 /\ Len(q) \in Nat
      BY <2>1, <2>2, <2>3
    <2>5. ASSUME NEW j \in 1..Len(p) PROVE p[j] = IF j < i THEN q[j] ELSE q[j + 1]
      <3>1. CASE j < i
        BY <2>1, <2>2, <2>3, <2>4, <3>1
      <3>2. CASE ~(j < i)
        <4>1. p[j] = back[j - (i - 1)]
          BY <2>1, <2>2, <2>3, <2>4, <3>2
        <4>2. j - (i - 1) \in 1..(Len(q) - i) /\ i + (j - (i - 1)) = j + 1
          BY <2>4, <3>2
        <4> QED
          BY <2>2, <3>2, <4>1, <4>2
      <3> QED
        BY <3>1, <3>2
    <2> QED
      BY <2>4, <2>5
  <1> HIDE DEF p
  <1>2. NoRepeats(p)
    BY <1>1 DEF NoRepeats
  <1>3. ASSUME NEW r \in Requests, Contains(p, r) PROVE r # q[i] /\ Contains(q, r)
    <2>1. PICK j \in 1..Len(p) : p[j] = r
      BY <1>3 DEF Contains
    <2>2. PICK k \in 1..Len(q) : k # i /\ q[k] = r
      BY <1>1, <2>1
    <2> QED
      BY <2>2 DEF Contains, NoRepeats
  <1>4. ASSUME NEW r \in Requests, r # q[i], Contains(q, r) PROVE Contains(p, r)
    <2>1. PICK k \in 1..Len(q) : k # i /\ q[k] = r
      BY <1>4 DEF Contains
    <2>2. CASE k < i
      BY <1>1, <2>1, <2>2 DEF Contains
    <2>3. CASE k > i
      <3>1. k - 1 \in 1..Len(p) /\ p[k - 1] = r
        BY <1>1, <2>1, <2>3
      <3> QED
        BY <3>1 DEF Contains
    <2> QED
      BY <2>1, <2>2, <2>3
  <1> QED
    BY <1>1, <1>2, <1>3, <1>4 DEF p

-----------------------------------------------------------------------------
(* The steps of the host. *)

\* What the fields of a request are.
LEMMA HttpFields ==
  ASSUME TypeOK, NEW r \in Requests
  PROVE  /\ http[r] \in HttpState
         /\ http[r].stage \in {"none", "queued", "spawned", "connected", "over"}
         /\ http[r].request \in RequestSet /\ http[r].conn \in Nat
         /\ http[r].gone \in BOOLEAN /\ http[r].answer \in AnswerSet
  BY DEF TypeOK, HttpState

\* The keys clients have are keys the environment has had.
LEMMA KnownKeys ==
  ASSUME Inv
  PROVE  Known \subseteq Nat
  <1> SUFFICES ASSUME NEW r \in Requests, http[r].answer.status = "OK",
                      http[r].request.kind = "TeePublicKey"
               PROVE  http[r].answer.response.public_key \in Nat
    BY DEF Known
  <1>1. tee.key \in Nat /\ Answers(http[r].request, http[r].answer.response, tee.key)
    BY DEF Inv, TypeOK, Answered
  <1>2. http[r].answer.response.public_key \in 1..tee.key
    BY <1>1, KeyAnswer
  <1> QED
    BY <1>1, <1>2

\* The end of a task, with an answer to its request if there is one.
LEMMA FinishKeeps ==
  ASSUME Inv, NEW r \in Requests, http[r].stage \in {"spawned", "connected"},
         NEW answer \in AnswerSet,
         answer.status = "OK" => Answers(http[r].request, answer.response, tee.key),
         Finish(r, answer), UNCHANGED <<queue, tee>>
  PROVE  Inv'
  <1> DEFINE given == IF http[r].gone THEN NoAnswer ELSE answer
             new == [http[r] EXCEPT !.stage = "over", !.answer = given]
             c == http[r].conn
  <1>0. TypeOK /\ Queued /\ Linked /\ Answered /\ Slots
    BY DEF Inv
  <1>1. http' = [http EXCEPT ![r] = new] /\ conns' = Dropped(conns, c)
    BY <1>0 DEF Finish, TypeOK, HttpState
  <1>2. /\ new \in HttpState /\ new.stage = "over" /\ new.conn = c
        /\ new.request = http[r].request /\ new.answer = given
    <2>1. given \in AnswerSet
      BY DEF AnswerSet
    <2> QED
      BY <1>0, <2>1, HttpFields DEF HttpState
  <1>3. given.status = "OK" => Answers(http[r].request, given.response, tee.key)
    BY DEF NoAnswer
  <1>4. conns \in Seq(ConnState) /\ c \in 0..Len(conns)
    BY <1>0, HttpFields DEF TypeOK, Linked
  <1>5. /\ conns' \in Seq(ConnState) /\ Len(conns') = Len(conns)
        /\ \A i \in 1..Len(conns) : /\ conns'[i].request = conns[i].request
                                    /\ conns'[i].response = conns[i].response
                                    /\ conns'[i].host => conns[i].host /\ i # c
    BY <1>1, <1>4, DroppedEffect
  <1>6. http'[r] = new /\ \A q \in Requests \ {r} : http'[q] = http[q]
    BY <1>0, <1>1 DEF TypeOK
  <1> HIDE DEF given, new, c
  <1>7. TypeOK'
    BY <1>0, <1>1, <1>2, <1>5 DEF TypeOK
  <1>8. Queued'
    BY <1>0, <1>2, <1>6 DEF Queued
  <1>9. Linked'
    <2>1. ASSUME NEW q \in Requests
          PROVE  /\ http'[q].stage \in {"none", "queued", "spawned"} => http'[q].conn = 0
                 /\ http'[q].stage = "connected" =>
                      /\ http'[q].conn \in 1..Len(conns')
                      /\ conns'[http'[q].conn].request = http'[q].request
      <3>1. CASE q = r
        BY <1>2, <1>6, <3>1
      <3>2. CASE q # r
        BY <1>0, <1>5, <1>6, <3>2 DEF Linked
      <3> QED
        BY <3>1, <3>2
    <2>2. ASSUME NEW i \in 1..Len(conns'), conns'[i].host
          PROVE  \E q \in Requests : http'[q].stage = "connected" /\ http'[q].conn = i
      <3>1. conns[i].host /\ i # c
        BY <1>5, <2>2
      <3>2. PICK q \in Requests : http[q].stage = "connected" /\ http[q].conn = i
        BY <1>0, <1>5, <3>1 DEF Linked
      <3>3. q # r
        BY <3>1, <3>2 DEF c
      <3> QED
        BY <1>6, <3>2, <3>3
    <2> QED
      BY <2>1, <2>2 DEF Linked
  <1>10. Answered'
    <2>1. ASSUME NEW q \in Requests, http'[q].answer.status = "OK"
          PROVE  /\ http'[q].stage = "over"
                 /\ Answers(http'[q].request, http'[q].answer.response, tee.key)
      <3>1. CASE q = r
        BY <1>2, <1>3, <1>6, <2>1, <3>1
      <3>2. CASE q # r
        BY <1>0, <1>6, <2>1, <3>2 DEF Answered
      <3> QED
        BY <3>1, <3>2
    <2>2. ASSUME NEW i \in 1..Len(conns), conns'[i].response # NoResponse
          PROVE  Answers(conns'[i].request, conns'[i].response, tee.key)
      BY <1>0, <1>5, <2>2 DEF Answered
    <2> QED
      BY <1>5, <2>1, <2>2 DEF Answered
  <1>11. Slots'
    <2>1. Running' \in SUBSET Running
      BY <1>2, <1>6 DEF Running
    <2> QED
      BY <1>0, <2>1, FewerSlots DEF Slots
  <1> QED
    BY <1>7, <1>8, <1>9, <1>10, <1>11 DEF Inv

\* Steps that end a task.
LEMMA EndOfTask ==
  ASSUME Inv, NEW r \in Requests, ConnectFails(r) \/ Receive(r) \/ RunTimeout(r)
  PROVE  Inv'
  <1>0. TypeOK /\ Linked /\ Answered
    BY DEF Inv
  <1> DEFINE timeout == Error("GATEWAY_TIMEOUT")
             failed == Error("INTERNAL_SERVER_ERROR")
  <1>1. timeout \in AnswerSet /\ failed \in AnswerSet /\ timeout.status # "OK" /\ failed.status # "OK"
    BY DEF AnswerSet, Error
  <1>2. CASE ConnectFails(r)
    BY <1>1, <1>2, FinishKeeps DEF ConnectFails
  <1>3. CASE RunTimeout(r)
    BY <1>1, <1>3, FinishKeeps DEF RunTimeout
  <1>4. CASE Receive(r)
    <2> DEFINE c == conns[http[r].conn]
    <2>1. /\ http[r].stage = "connected" /\ UNCHANGED <<queue, tee>>
          /\ \/ c.response # NoResponse /\ Finish(r, Ok(c.response))
             \/ Finish(r, failed)
      BY <1>4 DEF Receive
    <2>2. c \in ConnState /\ http[r].conn \in 1..Len(conns) /\ c.request = http[r].request
      BY <1>0, <2>1 DEF Linked, TypeOK
    <2>3. CASE c.response # NoResponse /\ Finish(r, Ok(c.response))
      <3>1. Ok(c.response) \in AnswerSet /\ Ok(c.response).response = c.response
        BY <2>2 DEF AnswerSet, Ok, ConnState
      <3>2. Answers(http[r].request, c.response, tee.key)
        BY <1>0, <2>2, <2>3 DEF Answered
      <3> HIDE DEF c
      <3> QED
        BY <2>1, <2>3, <3>1, <3>2, FinishKeeps
    <2>4. CASE Finish(r, failed)
      BY <1>1, <2>1, <2>4, FinishKeeps
    <2> QED
      BY <2>1, <2>3, <2>4
  <1> QED
    BY <1>2, <1>3, <1>4

\* A request gets another state, and has no connection and no answer then.
LEMMA WaitingKeeps ==
  ASSUME Inv, NEW r \in Requests, http[r].stage \in {"none", "queued"},
         NEW new \in HttpState, new.stage \in {"queued", "spawned", "over"}, new.conn = 0,
         new.answer.status # "OK",
         http' = [http EXCEPT ![r] = new], UNCHANGED <<conns, tee>>,
         queue' \in Seq(Requests), Queued',
         new.stage = "spawned" => FreeSlots > 0
  PROVE  Inv'
  <1>0. TypeOK /\ Linked /\ Answered /\ Slots
    BY DEF Inv
  <1>1. http'[r] = new /\ \A q \in Requests \ {r} : http'[q] = http[q]
    BY <1>0 DEF TypeOK
  <1>2. TypeOK'
    BY <1>0 DEF TypeOK
  <1>3. Linked'
    <2>1. ASSUME NEW q \in Requests
          PROVE  /\ http'[q].stage \in {"none", "queued", "spawned"} => http'[q].conn = 0
                 /\ http'[q].stage = "connected" =>
                      /\ http'[q].conn \in 1..Len(conns)
                      /\ conns[http'[q].conn].request = http'[q].request
      <3>1. CASE q = r
        BY <1>1, <3>1
      <3>2. CASE q # r
        BY <1>0, <1>1, <3>2 DEF Linked
      <3> QED
        BY <3>1, <3>2
    <2>2. ASSUME NEW i \in 1..Len(conns), conns[i].host
          PROVE  \E q \in Requests : http'[q].stage = "connected" /\ http'[q].conn = i
      <3>1. PICK q \in Requests : http[q].stage = "connected" /\ http[q].conn = i
        BY <1>0, <2>2 DEF Linked
      <3>2. http'[q] = http[q]
        BY <1>1, <3>1
      <3> QED
        BY <3>1, <3>2
    <2> QED
      BY <2>1, <2>2 DEF Linked
  <1>4. Answered'
    BY <1>0, <1>1 DEF Answered
  <1>5. Slots'
    <2>1. CASE new.stage = "spawned"
      <3>1. Running' \in SUBSET (Running \cup {r})
        BY <1>1 DEF Running
      <3>2. Cardinality(Running) < Capacity
        BY <2>1, RunningFinite, ProverAssumption DEF FreeSlots
      <3>3. IsFiniteSet(Running \cup {r})
            /\ Cardinality(Running \cup {r}) <= Cardinality(Running) + 1
        <4>1. IsFiniteSet(Running) /\ Cardinality(Running) \in Nat
          BY RunningFinite
        <4>2. /\ IsFiniteSet(Running \cup {r})
              /\ Cardinality(Running \cup {r})
                 = IF r \in Running THEN Cardinality(Running) ELSE Cardinality(Running) + 1
          BY <4>1, FS_AddElement
        <4> QED
          BY <4>1, <4>2
      <3>4. Cardinality(Running') <= Cardinality(Running \cup {r})
            /\ Cardinality(Running') \in Nat /\ Cardinality(Running \cup {r}) \in Nat
        BY <3>1, <3>3, FS_Subset, FS_CardinalityType
      <3> QED
        BY <3>2, <3>3, <3>4, RunningFinite, ProverAssumption DEF Slots
    <2>2. CASE new.stage # "spawned"
      <3>1. Running' \in SUBSET Running
        BY <1>1, <2>2 DEF Running
      <3> QED
        BY <1>0, <3>1, FewerSlots DEF Slots
    <2> QED
      BY <2>1, <2>2
  <1> QED
    BY <1>2, <1>3, <1>4, <1>5 DEF Inv

\* The places of a request in the queue.
LEMMA QueuedAt ==
  ASSUME Inv, NEW r \in Requests, http[r].stage = "queued"
  PROVE  Position(r) \in 1..Len(queue) /\ queue[Position(r)] = r
  BY DEF Inv, Queued, Contains, Position

\* A request that leaves the queue without a slot.
LEMMA LeavesQueue ==
  ASSUME Inv, NEW r \in Requests, http[r].stage = "queued",
         NEW new \in HttpState, new.stage = "over", http' = [http EXCEPT ![r] = new],
         queue' = RemoveAt(queue, Position(r))
  PROVE  queue' \in Seq(Requests) /\ Queued'
  <1>1. TypeOK /\ Queued
    BY DEF Inv
  <1>2. http'[r] = new /\ \A q \in Requests \ {r} : http'[q] = http[q]
    BY <1>1 DEF TypeOK
  <1>3. Position(r) \in 1..Len(queue) /\ queue[Position(r)] = r
    BY QueuedAt
  <1>4. /\ queue' \in Seq(Requests) /\ NoRepeats(queue')
        /\ \A q \in Requests : Contains(queue', q) <=> q # r /\ Contains(queue, q)
    BY <1>1, <1>3, RemoveQueued DEF TypeOK, Queued
  <1> QED
    BY <1>1, <1>2, <1>4 DEF Queued

\* Steps of a request that has no slot yet.
LEMMA WaitingSteps ==
  ASSUME Inv, NEW r \in Requests,
         Arrive(r) \/ SpawnTimeout(r) \/ (Spawn /\ r = Head(queue))
         \/ (Disconnect(r) /\ http[r].stage = "queued")
  PROVE  Inv'
  <1>0. TypeOK /\ Queued /\ Linked /\ Answered /\ http[r] \in HttpState
    BY HttpFields DEF Inv
  <1>1. CASE Arrive(r)
    <2>1. PICK request \in ClientRequests :
             http' = [http EXCEPT ![r].stage = "queued", ![r].request = request]
      BY <1>1 DEF Arrive
    <2>2. request \in RequestSet
      BY <2>1, KnownKeys DEF RequestSet, ClientRequests
    <2> DEFINE new == [http[r] EXCEPT !.stage = "queued", !.request = request]
    <2>3. http' = [http EXCEPT ![r] = new]
      BY <1>0, <2>1 DEF TypeOK, HttpState
    <2>4. new \in HttpState /\ new.stage = "queued" /\ new.conn = http[r].conn
          /\ new.answer = http[r].answer
      BY <1>0, <2>2 DEF HttpState
    <2>5. http[r].stage = "none" /\ http[r].conn = 0 /\ http[r].answer.status # "OK"
      BY <1>0, <1>1 DEF Arrive, Linked, Answered
    <2>6. queue' = Append(queue, r) /\ UNCHANGED <<conns, tee>>
      BY <1>1 DEF Arrive
    <2> HIDE DEF new
    <2>7. queue' \in Seq(Requests) /\ Queued'
      <3>1. http'[r] = new /\ \A q \in Requests \ {r} : http'[q] = http[q]
        BY <1>0, <2>3 DEF TypeOK
      <3>2. /\ queue \in Seq(Requests) /\ queue' \in Seq(Requests) /\ Len(queue') = Len(queue) + 1
            /\ Len(queue) \in Nat
            /\ queue'[Len(queue) + 1] = r /\ \A i \in 1..Len(queue) : queue'[i] = queue[i]
        BY <1>0, <2>6 DEF TypeOK
      <3>3. ~Contains(queue, r)
        BY <1>0, <2>5 DEF Queued
      <3>4. NoRepeats(queue')
        BY <1>0, <3>2, <3>3 DEF Queued, NoRepeats, Contains
      <3>5. ASSUME NEW q \in Requests PROVE Contains(queue', q) <=> Contains(queue, q) \/ q = r
        BY <3>2 DEF Contains
      <3> QED
        BY <1>0, <2>4, <3>1, <3>2, <3>4, <3>5 DEF Queued
    <2> QED
      BY <2>3, <2>4, <2>5, <2>6, <2>7, WaitingKeeps
  <1>2. CASE Spawn /\ r = Head(queue)
    <2> DEFINE new == [http[r] EXCEPT !.stage = "spawned"]
    <2>1. /\ queue # <<>> /\ FreeSlots > 0 /\ queue' = Tail(queue) /\ UNCHANGED <<conns, tee>>
          /\ http' = [http EXCEPT ![r] = new]
      BY <1>2 DEF Spawn
    <2>2. /\ queue \in Seq(Requests) /\ Len(queue) \in Nat /\ Len(queue) > 0 /\ r = queue[1]
          /\ queue' \in Seq(Requests) /\ Len(queue') = Len(queue) - 1
          /\ \A i \in 1..Len(queue') : queue'[i] = queue[i + 1]
      BY <1>0, <1>2, <2>1 DEF TypeOK
    <2>3. Contains(queue, r)
      BY <2>2 DEF Contains
    <2>4. http[r].stage = "queued" /\ http[r].conn = 0 /\ http[r].answer.status # "OK"
      BY <1>0, <2>3 DEF Queued, Linked, Answered
    <2>5. new \in HttpState /\ new.stage = "spawned" /\ new.conn = 0 /\ new.answer.status # "OK"
      BY <1>0, <2>4 DEF HttpState
    <2> HIDE DEF new
    <2>6. Queued'
      <3>1. http'[r] = new /\ \A q \in Requests \ {r} : http'[q] = http[q]
        BY <1>0, <2>1 DEF TypeOK
      <3>2. NoRepeats(queue')
        BY <1>0, <2>2 DEF Queued, NoRepeats
      <3>3. ~Contains(queue', r)
        BY <1>0, <2>2 DEF Queued, NoRepeats, Contains
      <3>4. ASSUME NEW q \in Requests, Contains(queue', q) PROVE Contains(queue, q)
        <4>1. PICK i \in 1..Len(queue') : queue'[i] = q
          BY <3>4 DEF Contains
        <4>2. i + 1 \in 1..Len(queue) /\ queue[i + 1] = q
          BY <2>2, <4>1
        <4> QED
          BY <4>2 DEF Contains
      <3>5. ASSUME NEW q \in Requests, q # r, Contains(queue, q) PROVE Contains(queue', q)
        <4>1. PICK i \in 1..Len(queue) : queue[i] = q
          BY <3>5 DEF Contains
        <4>2. i - 1 \in 1..Len(queue') /\ queue'[i - 1] = q
          BY <2>2, <3>5, <4>1
        <4> QED
          BY <4>2 DEF Contains
      <3> QED
        BY <1>0, <2>5, <3>1, <3>2, <3>3, <3>4, <3>5 DEF Queued
    <2> QED
      BY <2>1, <2>2, <2>4, <2>5, <2>6, WaitingKeeps
  <1>3. CASE SpawnTimeout(r)
    <2> DEFINE new == [http[r] EXCEPT !.stage = "over", !.answer = Error("GATEWAY_TIMEOUT")]
    <2>1. /\ http[r].stage = "queued" /\ queue' = RemoveAt(queue, Position(r))
          /\ UNCHANGED <<conns, tee>> /\ http' = [http EXCEPT ![r] = new]
      BY <1>0, <1>3 DEF SpawnTimeout, TypeOK, HttpState
    <2>2. new \in HttpState /\ new.stage = "over" /\ new.conn = 0 /\ new.answer.status # "OK"
      <3>1. Error("GATEWAY_TIMEOUT") \in AnswerSet /\ Error("GATEWAY_TIMEOUT").status # "OK"
        BY DEF AnswerSet, Error
      <3>2. http[r].conn = 0
        BY <1>0, <2>1 DEF Linked
      <3> QED
        BY <1>0, <3>1, <3>2 DEF HttpState
    <2> HIDE DEF new
    <2>3. queue' \in Seq(Requests) /\ Queued'
      BY <2>1, <2>2, LeavesQueue
    <2> QED
      BY <2>1, <2>2, <2>3, WaitingKeeps
  <1>4. CASE Disconnect(r) /\ http[r].stage = "queued"
    <2> DEFINE new == [http[r] EXCEPT !.gone = TRUE, !.stage = "over"]
    <2>1. /\ queue' = RemoveAt(queue, Position(r))
          /\ UNCHANGED <<conns, tee>> /\ http' = [http EXCEPT ![r] = new]
      BY <1>0, <1>4 DEF Disconnect, TypeOK, HttpState
    <2>2. new \in HttpState /\ new.stage = "over" /\ new.conn = 0 /\ new.answer.status # "OK"
      <3>1. http[r].conn = 0 /\ http[r].answer.status # "OK"
        BY <1>0, <1>4 DEF Linked, Answered
      <3> QED
        BY <1>0, <3>1 DEF HttpState
    <2> HIDE DEF new
    <2>3. queue' \in Seq(Requests) /\ Queued'
      BY <1>4, <2>1, <2>2, LeavesQueue
    <2> QED
      BY <1>4, <2>1, <2>2, <2>3, WaitingKeeps
  <1> QED
    BY <1>1, <1>2, <1>3, <1>4

\* A task opens a connection of its own.
LEMMA ConnectKeeps ==
  ASSUME Inv, NEW r \in Requests, Connect(r)
  PROVE  Inv'
  <1>0. TypeOK /\ Queued /\ Linked /\ Answered /\ Slots /\ http[r] \in HttpState
    BY HttpFields DEF Inv
  <1> DEFINE n == Len(conns) + 1
             new == [http[r] EXCEPT !.stage = "connected", !.conn = n]
             conn == [host |-> TRUE, tee |-> "sent", request |-> http[r].request,
                      response |-> NoResponse]
  <1>1. /\ http[r].stage = "spawned" /\ http' = [http EXCEPT ![r] = new]
        /\ conns' = Append(conns, conn) /\ UNCHANGED <<queue, tee>>
    BY <1>0 DEF Connect, ProverClient, TypeOK, HttpState
  <1>2. /\ new \in HttpState /\ new.stage = "connected" /\ new.conn = n
        /\ new.request = http[r].request /\ new.answer = http[r].answer
    <2>1. n \in Nat
      BY <1>0 DEF TypeOK
    <2> HIDE DEF n
    <2> QED
      BY <1>0, <2>1 DEF HttpState
  <1>3. conn \in ConnState /\ conn.request = http[r].request /\ conn.response = NoResponse
    BY <1>0, HttpFields DEF ConnState, ResponseSet
  <1>4. conns \in Seq(ConnState)
    BY <1>0 DEF TypeOK
  <1> HIDE DEF new, conn
  <1>5. /\ conns' \in Seq(ConnState) /\ Len(conns') = n /\ Len(conns) \in Nat
        /\ conns'[n] = conn /\ \A i \in 1..Len(conns) : conns'[i] = conns[i]
    BY <1>1, <1>3, <1>4
  <1>6. http'[r] = new /\ \A q \in Requests \ {r} : http'[q] = http[q]
    BY <1>0, <1>1 DEF TypeOK
  <1>7. TypeOK'
    BY <1>0, <1>1, <1>2, <1>5 DEF TypeOK
  <1>8. Queued'
    BY <1>0, <1>1, <1>2, <1>6 DEF Queued
  <1>9. Linked'
    <2>1. ASSUME NEW q \in Requests
          PROVE  /\ http'[q].stage \in {"none", "queued", "spawned"} => http'[q].conn = 0
                 /\ http'[q].stage = "connected" =>
                      /\ http'[q].conn \in 1..Len(conns')
                      /\ conns'[http'[q].conn].request = http'[q].request
      <3>1. CASE q = r
        BY <1>2, <1>3, <1>5, <1>6, <3>1
      <3>2. CASE q # r
        BY <1>0, <1>5, <1>6, <3>2 DEF Linked
      <3> QED
        BY <3>1, <3>2
    <2>2. ASSUME NEW i \in 1..Len(conns'), conns'[i].host
          PROVE  \E q \in Requests : http'[q].stage = "connected" /\ http'[q].conn = i
      <3>1. CASE i = n
        BY <1>2, <1>6, <3>1
      <3>2. CASE i # n
        <4>1. i \in 1..Len(conns) /\ conns[i].host
          BY <1>5, <2>2, <3>2
        <4>2. PICK q \in Requests : http[q].stage = "connected" /\ http[q].conn = i
          BY <1>0, <4>1 DEF Linked
        <4>3. http'[q] = http[q]
          BY <1>1, <1>6, <4>2
        <4> QED
          BY <4>2, <4>3
      <3> QED
        BY <3>1, <3>2
    <2> QED
      BY <2>1, <2>2 DEF Linked
  <1>10. Answered'
    <2>1. ASSUME NEW i \in 1..Len(conns'), conns'[i].response # NoResponse
          PROVE  Answers(conns'[i].request, conns'[i].response, tee.key)
      <3>1. i \in 1..Len(conns) /\ conns'[i] = conns[i]
        BY <1>3, <1>5, <2>1
      <3> QED
        BY <1>0, <2>1, <3>1 DEF Answered
    <2>2. ASSUME NEW q \in Requests, http'[q].answer.status = "OK"
          PROVE  /\ http'[q].stage = "over"
                 /\ Answers(http'[q].request, http'[q].answer.response, tee.key)
      <3>1. q # r
        BY <1>0, <1>1, <1>2, <1>6, <2>2 DEF Answered
      <3> QED
        BY <1>0, <1>6, <2>2, <3>1 DEF Answered
    <2> QED
      BY <1>1, <2>1, <2>2 DEF Answered
  <1>11. Slots'
    <2>1. Running' \in SUBSET Running
      BY <1>1, <1>2, <1>6 DEF Running
    <2> QED
      BY <1>0, <2>1, FewerSlots DEF Slots
  <1> QED
    BY <1>7, <1>8, <1>9, <1>10, <1>11 DEF Inv

\* The client of a running task goes away.
LEMMA GoneKeeps ==
  ASSUME Inv, NEW r \in Requests, Disconnect(r), http[r].stage # "queued"
  PROVE  Inv'
  <1>0. TypeOK /\ Queued /\ Linked /\ Answered /\ Slots /\ http[r] \in HttpState
    BY HttpFields DEF Inv
  <1> DEFINE new == [http[r] EXCEPT !.gone = TRUE]
  <1>1. http' = [http EXCEPT ![r] = new] /\ UNCHANGED <<queue, conns, tee>>
    BY DEF Disconnect
  <1>2. /\ new \in HttpState /\ new.stage = http[r].stage /\ new.conn = http[r].conn
        /\ new.request = http[r].request /\ new.answer = http[r].answer
    BY <1>0 DEF HttpState
  <1> HIDE DEF new
  <1>3. ASSUME NEW q \in Requests
        PROVE  /\ http'[q].stage = http[q].stage /\ http'[q].conn = http[q].conn
               /\ http'[q].request = http[q].request /\ http'[q].answer = http[q].answer
    BY <1>0, <1>1, <1>2 DEF TypeOK
  <1>4. TypeOK'
    BY <1>0, <1>1, <1>2 DEF TypeOK
  <1>5. Queued'
    BY <1>0, <1>1, <1>3 DEF Queued
  <1>6. Linked'
    BY <1>0, <1>1, <1>3 DEF Linked
  <1>7. Answered'
    BY <1>0, <1>1, <1>3 DEF Answered
  <1>8. Slots'
    <2>1. Running' \in SUBSET Running
      BY <1>3 DEF Running
    <2> QED
      BY <1>0, <2>1, FewerSlots DEF Slots
  <1> QED
    BY <1>4, <1>5, <1>6, <1>7, <1>8 DEF Inv

-----------------------------------------------------------------------------
(* The steps of the environment. *)

\* Connections keep their requests, none is opened, and what is new on them
\* is an answer under a key the environment has had.
LEMMA EnvironmentKeeps ==
  ASSUME Inv, UNCHANGED <<http, queue>>,
         conns' \in Seq(ConnState), Len(conns') = Len(conns),
         \A i \in 1..Len(conns) :
            /\ conns'[i].request = conns[i].request
            /\ conns'[i].host => conns[i].host
            /\ conns'[i].response # NoResponse
               => Answers(conns[i].request, conns'[i].response, tee'.key),
         tee' \in [up : BOOLEAN, key : Nat \ {0}], tee.key <= tee'.key
  PROVE  Inv'
  <1>0. TypeOK /\ Queued /\ Linked /\ Answered /\ Slots
    BY DEF Inv
  <1>1. TypeOK' /\ Queued'
    BY <1>0 DEF TypeOK, Queued
  <1>2. Linked'
    BY <1>0 DEF Linked
  <1>3. Answered'
    <2>1. ASSUME NEW q \in Requests, http[q].answer.status = "OK"
          PROVE  Answers(http[q].request, http[q].answer.response, tee'.key)
      BY <1>0, <2>1, AnswersKept DEF Answered, TypeOK
    <2> QED
      BY <1>0, <2>1 DEF Answered
  <1>4. Slots'
    BY <1>0 DEF Slots, Running
  <1> QED
    BY <1>1, <1>2, <1>3, <1>4 DEF Inv

\* Steps of the environment.
LEMMA EnvironmentSteps ==
  ASSUME Inv, (\E c \in DOMAIN conns : Take(c) \/ Answer(c)) \/ Crash \/ NewServer
  PROVE  Inv'
  <1>0. /\ TypeOK /\ Answered /\ conns \in Seq(ConnState) /\ Len(conns) \in Nat
        /\ tee \in [up : BOOLEAN, key : Nat \ {0}] /\ DOMAIN conns = 1..Len(conns)
        /\ \A i \in 1..Len(conns) :
              /\ conns[i] \in ConnState
              /\ conns[i].response # NoResponse
                 => Answers(conns[i].request, conns[i].response, tee.key)
    BY DEF Inv, TypeOK, Answered
  <1>1. ASSUME NEW c \in 1..Len(conns), NEW new \in ConnState,
               new.request = conns[c].request, new.host = conns[c].host,
               new.response # NoResponse => Answers(conns[c].request, new.response, tee.key),
               conns' = [conns EXCEPT ![c] = new], UNCHANGED <<http, queue, tee>>
        PROVE  Inv'
    <2>1. conns' \in Seq(ConnState) /\ Len(conns') = Len(conns)
      BY <1>0, <1>1
    <2>2. conns'[c] = new /\ \A i \in 1..Len(conns) : i # c => conns'[i] = conns[i]
      BY <1>0, <1>1
    <2>3. ASSUME NEW i \in 1..Len(conns)
          PROVE  /\ conns'[i].request = conns[i].request
                 /\ conns'[i].host => conns[i].host
                 /\ conns'[i].response # NoResponse
                    => Answers(conns[i].request, conns'[i].response, tee.key)
      <3>1. CASE i = c
        BY <1>1, <2>2, <3>1
      <3>2. CASE i # c
        BY <1>0, <2>2, <3>2
      <3> QED
        BY <3>1, <3>2
    <2>4. tee' = tee /\ tee.key <= tee'.key
      BY <1>0, <1>1
    <2> QED
      BY <1>0, <1>1, <2>1, <2>3, <2>4, EnvironmentKeeps
  <1>2. ASSUME NEW c \in 1..Len(conns), NEW state \in {"busy", "closed"},
               conns' = [conns EXCEPT ![c].tee = state], UNCHANGED <<http, queue, tee>>
        PROVE  Inv'
    <2> DEFINE new == [conns[c] EXCEPT !.tee = state]
    <2>1. /\ new \in ConnState /\ new.request = conns[c].request /\ new.host = conns[c].host
          /\ new.response = conns[c].response
      BY <1>0 DEF ConnState
    <2>2. conns' = [conns EXCEPT ![c] = new]
      BY <1>2
    <2> HIDE DEF new
    <2> QED
      BY <1>0, <1>1, <1>2, <2>1, <2>2
  <1>3. ASSUME NEW c \in 1..Len(conns), Take(c) PROVE Inv'
    BY <1>2, <1>3 DEF Take
  <1>4. ASSUME NEW c \in 1..Len(conns), Answer(c) PROVE Inv'
    <2> DEFINE response == HandleRequest(conns[c].request, tee.key)
               new == [conns[c] EXCEPT !.tee = "waiting", !.response = response]
    <2>1. CASE response = Failure \/ ~conns[c].host
      BY <1>2, <1>4, <2>1 DEF Answer
    <2>2. CASE ~(response = Failure \/ ~conns[c].host)
      <3>1. conns' = [conns EXCEPT ![c] = new] /\ UNCHANGED <<http, queue, tee>>
        BY <1>0, <1>4, <2>2 DEF Answer, ConnState
      <3>2. response \in ResponseSet
        BY <1>0 DEF ResponseSet, ConnState
      <3>3. Answers(conns[c].request, response, tee.key)
        BY <1>0, <2>2 DEF Answers
      <3> HIDE DEF response
      <3>4. /\ new \in ConnState /\ new.request = conns[c].request /\ new.host = conns[c].host
            /\ new.response = response
        BY <1>0, <3>2 DEF ConnState
      <3> HIDE DEF new
      <3> QED
        BY <1>1, <3>1, <3>3, <3>4
    <2> QED
      BY <2>1, <2>2
  <1>5. CASE Crash
    <2>1. /\ conns' = [c \in 1..Len(conns) |-> [conns[c] EXCEPT !.tee = "closed"]]
          /\ tee' = [tee EXCEPT !.up = FALSE] /\ UNCHANGED <<http, queue>>
      BY <1>0, <1>5 DEF Crash
    <2>2. ASSUME NEW i \in 1..Len(conns)
          PROVE  /\ conns'[i] \in ConnState /\ conns'[i].request = conns[i].request
                 /\ conns'[i].host = conns[i].host /\ conns'[i].response = conns[i].response
      BY <1>0, <2>1 DEF ConnState
    <2>3. conns' \in [1..Len(conns) -> ConnState]
      BY <2>1, <2>2
    <2>4. conns' \in Seq(ConnState) /\ Len(conns') = Len(conns)
      <3>1. Len(conns) \in Nat
        BY <1>0
      <3>2. conns' \in Seq(ConnState)
        BY <2>3, <3>1, SeqDef
      <3>3. DOMAIN conns' = 1..Len(conns) /\ DOMAIN conns' = 1..Len(conns') /\ Len(conns') \in Nat
        BY <2>3, <3>2, LenProperties
      <3>4. /\ Len(conns) # 0 => Len(conns) \in DOMAIN conns'
            /\ Len(conns') # 0 => Len(conns') \in DOMAIN conns'
        BY <3>1, <3>3
      <3>5. Len(conns') <= Len(conns)
        BY <3>1, <3>3, <3>4
      <3>6. Len(conns) <= Len(conns')
        BY <3>1, <3>3, <3>4
      <3> QED
        BY <3>1, <3>2, <3>3, <3>5, <3>6
    <2>5. tee' \in [up : BOOLEAN, key : Nat \ {0}] /\ tee'.key = tee.key /\ tee.key <= tee'.key
      <3>1. tee \in [up : BOOLEAN, key : Nat \ {0}] /\ tee' = [tee EXCEPT !.up = FALSE]
        BY <1>0, <2>1
      <3>2. tee' = [up |-> FALSE, key |-> tee.key] /\ tee.key \in Nat \ {0}
        BY <3>1
      <3>3. tee'.key = tee.key /\ tee.key <= tee'.key
        BY <3>2
      <3> QED
        BY <3>2, <3>3
    <2> QED
      BY <1>0, <2>1, <2>2, <2>4, <2>5, EnvironmentKeeps
  <1>6. CASE NewServer
    <2>1. tee' \in [up : BOOLEAN, key : Nat \ {0}] /\ tee.key <= tee'.key
          /\ tee.key \in Nat /\ tee'.key \in Nat
      BY <1>0, <1>6 DEF NewServer
    <2>2. conns' = conns /\ UNCHANGED <<http, queue>>
      BY <1>6 DEF NewServer
    <2>3. ASSUME NEW i \in 1..Len(conns), conns[i].response # NoResponse
          PROVE  Answers(conns[i].request, conns[i].response, tee'.key)
      BY <1>0, <2>1, <2>3, AnswersKept
    <2> QED
      BY <1>0, <2>1, <2>2, <2>3, EnvironmentKeeps
  <1> QED
    BY <1>0, <1>3, <1>4, <1>5, <1>6

-----------------------------------------------------------------------------
(* The theorems. *)

\* The invariant holds in every state.
LEMMA Invariance == Spec => []Inv
  <1>1. Init => Inv
    <2> SUFFICES ASSUME Init PROVE Inv
      OBVIOUS
    <2> DEFINE new == [stage |-> "none", request |-> Ping, conn |-> 0,
                       gone |-> FALSE, answer |-> NoAnswer]
    <2>1. new \in HttpState /\ new.stage = "none" /\ new.conn = 0 /\ new.answer.status = "none"
      BY DEF HttpState, RequestSet, AnswerSet, NoAnswer
    <2>2. http = [r \in Requests |-> new] /\ queue = <<>> /\ conns = <<>>
          /\ tee = [up |-> TRUE, key |-> 1]
      BY DEF Init
    <2> HIDE DEF new
    <2>3. TypeOK
      BY <2>1, <2>2 DEF TypeOK
    <2>4. Queued
      BY <2>1, <2>2 DEF Queued, NoRepeats, Contains
    <2>5. Linked /\ Answered
      BY <2>1, <2>2 DEF Linked, Answered
    <2>6. Slots
      <3>1. Running = {}
        BY <2>1, <2>2 DEF Running
      <3>2. Cardinality({}) = 0
        BY FS_EmptySet
      <3> QED
        BY <3>1, <3>2, ProverAssumption DEF Slots
    <2> QED
      BY <2>3, <2>4, <2>5, <2>6 DEF Inv
  <1>2. Inv /\ [Next]_vars => Inv'
    <2> SUFFICES ASSUME Inv, [Next]_vars PROVE Inv'
      OBVIOUS
    <2>1. ASSUME NEW r \in Requests,
                 Arrive(r) \/ SpawnTimeout(r) \/ HostStep(r) \/ RunTimeout(r) \/ Disconnect(r)
          PROVE  Inv'
      BY <2>1, WaitingSteps, EndOfTask, ConnectKeeps, GoneKeeps DEF HostStep
    <2>2. CASE Spawn
      <3>1. Head(queue) \in Requests
        BY <2>2 DEF Spawn, Inv, TypeOK
      <3> QED
        BY <2>2, <3>1, WaitingSteps
    <2>3. CASE (\E c \in DOMAIN conns : Take(c) \/ Answer(c)) \/ Crash \/ NewServer
      BY <2>3, EnvironmentSteps
    <2>4. CASE UNCHANGED vars
      BY <2>4 DEF vars, Inv, TypeOK, Queued, Linked, Answered, Slots, Running
    <2> QED
      BY <2>1, <2>2, <2>3, <2>4 DEF Next, Over
  <1> QED
    BY <1>1, <1>2, PTL DEF Spec

\* Each answer is the answer to the very request of the client that gets it.
THEOREM AnswersAreOwn == Spec => []AnswersOwnRequest
  <1>1. Inv => AnswersOwnRequest
    <2> SUFFICES ASSUME Inv, NEW r \in Requests, http[r].answer.status = "OK"
                 PROVE  LET q == http[r].request
                            a == http[r].answer
                        IN CASE q.kind = "Ping" -> a.response.kind = "Pong"
                             [] q.kind = "TeePublicKey" ->
                                  /\ a.response.kind = "TeePublicKey"
                                  /\ a.response.public_key \in 1..tee.key
                             [] q.kind = "GenerateProof" ->
                                  /\ a.response.kind = "EncryptedProof"
                                  /\ a.response.proof.for = q.payload.user_public_key
                                  /\ a.response.pub_inputs =
                                       encrypt_bytes(q.payload.user_public_key,
                                         pub_inputs(q.payload.circuit_type,
                                                    q.payload.circuit_inputs))
      BY DEF AnswersOwnRequest
    <2> DEFINE q == http[r].request
               response == http[r].answer.response
    <2>1. q \in RequestSet /\ tee.key \in Nat /\ Answers(q, response, tee.key)
      BY HttpFields DEF Inv, Answered, TypeOK
    <2> HIDE DEF q, response
    <2>2. CASE q.kind = "Ping"
      BY <2>1, <2>2, PingAnswer DEF q, response
    <2>3. CASE q.kind = "TeePublicKey"
      BY <2>1, <2>3, KeyAnswer DEF q, response
    <2>4. CASE q.kind = "GenerateProof"
      <3>1. /\ response.kind = "EncryptedProof"
            /\ response.proof =
                 encrypt_bytes(q.payload.user_public_key,
                   prove(q.payload.circuit_type, q.payload.circuit_inputs))
            /\ response.pub_inputs =
                 encrypt_bytes(q.payload.user_public_key,
                   pub_inputs(q.payload.circuit_type, q.payload.circuit_inputs))
        BY <2>1, <2>4, ProofAnswer
      <3>2. response.proof.for = q.payload.user_public_key
        BY <3>1 DEF encrypt_bytes
      <3> QED
        BY <2>4, <3>1, <3>2 DEF q, response
    <2> QED
      BY <2>1, <2>2, <2>3, <2>4, RequestKinds
  <1> QED
    BY <1>1, Invariance, PTL

\* What a client gets from the environment is what it would have computed by itself,
\* and verifies by position exactly if its values satisfy the circuit.
THEOREM ProofsAreGood == Spec => []AnsweredProofsVerify
  <1>1. Inv => AnsweredProofsVerify
    <2> SUFFICES ASSUME Inv, NEW r \in Requests, http[r].answer.status = "OK",
                        http[r].request.kind = "GenerateProof"
                 PROVE  LET circuit == http[r].request.call.circuit_type
                            values == http[r].request.call.values
                            proof == http[r].answer.response.proof.bytes
                            pubInputs == TeePubInputs(circuit,
                                           http[r].answer.response.pub_inputs.bytes)
                        IN /\ [proof |-> proof, pubInputs |-> pubInputs]
                                = WasmProve(circuit, values)
                           /\ WasmVerify(circuit, proof, pubInputs) <=> Satisfies(circuit, values)
                           /\ \A f \in Chosen(circuit) : pubInputs[f].value = values[f].value
      BY DEF AnsweredProofsVerify
    <2> DEFINE q == http[r].request
               response == http[r].answer.response
               circuit == q.call.circuit_type
               values == q.call.values
               b == witness(circuit, values)
               given == [proof |-> response.proof.bytes,
                         pubInputs |-> TeePubInputs(circuit, response.pub_inputs.bytes)]
    <2>1. q \in RequestSet /\ tee.key \in Nat /\ Answers(q, response, tee.key)
      BY HttpFields DEF Inv, Answered, TypeOK
    <2>2. q.call \in Calls /\ q.payload = payload(q.call)
      BY <2>1, RequestKinds
    <2>3. /\ circuit \in CircuitTypes /\ q.payload.circuit_type = circuit
          /\ q.payload.circuit_inputs = b
      BY <2>2, ProverAssumption DEF payload
    <2> HIDE DEF response
    <2>4. /\ response.proof.bytes = prove(circuit, b)
          /\ response.pub_inputs.bytes = pub_inputs(circuit, b)
      <3>1. /\ response.proof = encrypt_bytes(q.payload.user_public_key, prove(circuit, b))
            /\ response.pub_inputs
               = encrypt_bytes(q.payload.user_public_key, pub_inputs(circuit, b))
        BY <2>1, <2>3, ProofAnswer
      <3> HIDE DEF q, circuit, b
      <3> QED
        BY <3>1 DEF encrypt_bytes
    <2>5. given = Remote(circuit, values)
      BY <2>4 DEF Remote
    <2> HIDE DEF circuit, values
    <2>6. GoodAnswer(circuit, values, given)
      BY <2>3, <2>5, ProofsVerify
    <2> QED
      BY <2>6 DEF GoodAnswer, Local, response, circuit, values
  <1> QED
    BY <1>1, Invariance, PTL

\* The host never has more connections open than the pool has slots.
THEOREM PoolBoundsConnections == Spec => []ConnectionsBounded
  <1>1. Inv => ConnectionsBounded
    <2> SUFFICES ASSUME Inv PROVE ConnectionsBounded
      OBVIOUS
    <2> DEFINE open == {c \in DOMAIN conns : conns[c].host}
               task == [c \in open |-> CHOOSE r \in Running : http[r].conn = c]
    <2>1. ASSUME NEW c \in open PROVE task[c] \in Running /\ http[task[c]].conn = c
      <3>1. \E r \in Running : http[r].conn = c
        BY DEF Inv, TypeOK, Linked, Running
      <3> QED
        BY <3>1
    <2>2. task \in [open -> Running] /\ DOMAIN task = open
      BY <2>1
    <2>3. \A c, d \in open : task[c] = task[d] => c = d
      BY <2>1
    <2> HIDE DEF task
    <2>4. task \in Injection(open, Running)
      BY <2>2, <2>3 DEF Injection, IsInjective
    <2>5. IsFiniteSet(open) /\ Cardinality(open) <= Cardinality(Running)
      BY <2>4, RunningFinite, FS_Injection
    <2>6. Cardinality(open) \in Nat
      BY <2>5, FS_CardinalityType
    <2> HIDE DEF open
    <2>7. Cardinality(open) <= Capacity
      BY <2>5, <2>6, RunningFinite, ProverAssumption DEF Inv, Slots
    <2> QED
      BY <2>7 DEF open, ConnectionsBounded
  <1> QED
    BY <1>1, Invariance, PTL

=============================================================================
