---------------------------- MODULE MCMerkleTree ----------------------------
(* A ternary tree of nine leaves, the smallest in which the offset ARITY - 2
   and two levels of siblings play a part. *)
EXTENDS MerkleTree

CONSTANTS c1, c2
=============================================================================
