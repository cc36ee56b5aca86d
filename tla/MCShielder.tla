----------------------------- MODULE MCShielder -----------------------------
(* Small instances of Shielder for TLC. *)
EXTENDS ShielderLedger, TLC

CONSTANTS f1, f2, f3, f4, native, erc20, alice, refuser, this, key1, key2

MCAmounts == 0..MAX_TRANSACTION_AMOUNT \cup {FIELD_MODULUS - 1}
NullifierSymmetry == Permutations({f3, f4})
\* Where no nullifier is an id, ids can be swapped as well.
IdSymmetry == {ids @@ nullifier : ids \in Permutations({f1, f2}), nullifier \in NullifierSymmetry}
=============================================================================
