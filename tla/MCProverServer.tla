--------------------------- MODULE MCProverServer ---------------------------
\* A withdrawal, a deposit from a note that is not on its path, a new account, and a
\* withdrawal whose path is too short.  All values differ, so that no two can be swapped
\* unnoticed.
EXTENDS ProverServer, TLC

Spend(noted, balance, value, path_size) ==
  [id |-> field_to_bytes(7), nullifierOld |-> field_to_bytes(1),
   accountBalanceOld |-> field_to_bytes(balance), tokenAddress |-> field_to_bytes(0),
   path |-> [value |-> [leaf |-> Hash(<<7, 1, noted, 0>>), root |-> 13],
             size |-> path_size, canonical |-> TRUE],
   value |-> field_to_bytes(value), nullifierNew |-> field_to_bytes(2),
   commitment |-> field_to_bytes(5), macSalt |-> field_to_bytes(9)]

NewAccountValues ==
  [id |-> field_to_bytes(7), nullifier |-> field_to_bytes(1),
   initialDeposit |-> field_to_bytes(4), commitment |-> field_to_bytes(5),
   tokenAddress |-> field_to_bytes(0), encryptionSalt |-> field_to_bytes(6),
   macSalt |-> field_to_bytes(9), anonymityRevokerPublicKeyX |-> field_to_bytes(8),
   anonymityRevokerPublicKeyY |-> field_to_bytes(11)]

Call(circuit, user, values) ==
  [circuit_type |-> circuit, user_public_key |-> user, values |-> values]

MCCalls ==
  {Call("Withdraw", "alice", Spend(6, 6, 4, PathSize)),
   Call("Deposit", "bob", Spend(6, 8, 4, PathSize)),
   Call("NewAccount", "bob", NewAccountValues),
   Call("Withdraw", "alice", Spend(6, 6, 4, PathSize - 1))}
=============================================================================
