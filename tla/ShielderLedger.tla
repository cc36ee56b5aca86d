--------------------------- MODULE ShielderLedger ---------------------------
(***************************************************************************)
(* Shielder implements ShieldedLedger: the purse of an id is what its most *)
(* recent note says, the till is what the contract holds.                  *)
(***************************************************************************)
EXTENDS Shielder

CONSTANT NoToken
ASSUME NoTokenAssumption == NoToken \notin Tokens

LeavesOf(id) == {leaf \in 1..Len(notes) : notes[leaf].id = id}
Latest(leaves) == CHOOSE leaf \in leaves : \A other \in leaves : other <= leaf
LatestNote(id) == notes[Latest(LeavesOf(id))]

PurseOf(id) ==
    IF LeavesOf(id) = {} THEN [token |-> NoToken, balance |-> 0]
    ELSE [token |-> LatestNote(id).token, balance |-> LatestNote(id).balance]

Ledger == INSTANCE ShieldedLedger
            WITH purse <- [id \in Ids |-> PurseOf(id)],
                 till <- balance,
                 Values <- 0..MAX_TRANSACTION_AMOUNT

\* The contract keeps accounts: an id is opened once and for one token, its
\* balance grows by no more than what the same call brings in, a withdrawal
\* takes out of the contract no more than it takes from the latest balance and
\* never more than is there (no wrap in the field of the circuits), and no step,
\* by any caller with any proof, revives an older note or touches another id.
ImplementsLedger == Ledger!Spec
=============================================================================
