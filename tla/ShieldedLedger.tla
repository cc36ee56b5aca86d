--------------------------- MODULE ShieldedLedger ---------------------------
(***************************************************************************)
(* What the Shielder promises to the holder of an account, without notes,  *)
(* nullifiers, roots or proofs: every id is a purse that is opened once,   *)
(* for one token.  A purse grows only by what comes into the common till,  *)
(* and the till shrinks only by what is taken from a purse that has it.    *)
(***************************************************************************)
EXTENDS Integers

CONSTANTS
    Ids,        \* account ids
    Tokens,     \* tokens an account can hold
    NoToken,    \* what a purse holds before it is opened
    Values      \* amounts that move in one step

VARIABLES
    purse,      \* id -> the token and the balance of the account
    till        \* token -> what is there to pay from

Unopened == [token |-> NoToken, balance |-> 0]

Init ==
    /\ purse = [id \in Ids |-> Unopened]
    /\ till = [token \in Tokens |-> 0]

\* At least value comes into the till; a negative value is the most that goes.
Receives(token, value) ==
    /\ till[token] + value <= till'[token]
    /\ \A other \in Tokens \ {token} : till'[other] = till[other]

Open(id, token, value) ==
    /\ purse[id].token = NoToken
    /\ purse' = [purse EXCEPT ![id] = [token |-> token, balance |-> value]]
    /\ Receives(token, value)

Add(id, value) ==
    /\ purse[id].token # NoToken
    /\ purse' = [purse EXCEPT ![id].balance = @ + value]
    /\ Receives(purse[id].token, value)

Take(id, value) ==
    /\ purse[id].token # NoToken
    /\ value <= purse[id].balance
    /\ purse' = [purse EXCEPT ![id].balance = @ - value]
    /\ Receives(purse[id].token, -value)

\* Anybody may put something into the till.
Gift ==
    /\ \A token \in Tokens : till[token] <= till'[token]
    /\ UNCHANGED purse

Next ==
    \/ \E id \in Ids, value \in Values :
          \/ \E token \in Tokens : Open(id, token, value)
          \/ Add(id, value)
          \/ Take(id, value)
    \/ Gift

Spec == Init /\ [][Next]_<<purse, till>>
=============================================================================
