------------------------------ MODULE Shielder ------------------------------
(***************************************************************************)
(* The Shielder contract (contracts/Shielder.sol with the contracts it     *)
(* inherits: MerkleTree, Nullifiers, ProtocolFee, AnonymityRevoker).       *)
(*                                                                         *)
(* A note is a commitment to (id, nullifier, token, balance).  Hashes are  *)
(* collision free, so a note is that record, a nullifier hash is the       *)
(* nullifier, a prenullifier is the id, and a Merkle root is the number of *)
(* leaves it was computed over (module MerkleTree checks that reading).    *)
(* The circuits are not in this repository: the relation each one proves   *)
(* is external, over field elements, so additions and subtractions wrap.   *)
(* A proof stays valid forever (roots are never forgotten), so a call with *)
(* a proof made earlier, or replayed by somebody else, is a call with a    *)
(* proof made now.  A call that reverts changes nothing and is no step.    *)
(***************************************************************************)
EXTENDS Integers, Sequences, FiniteSets

CONSTANTS
    Ids,                    \* account ids (field elements)
    NoteNullifiers,         \* nullifiers a prover may choose, ids included
    Tokens,                 \* token addresses used in notes
    NativeToken,            \* NATIVE_TOKEN_NOTE_ADDRESS
    Addresses,              \* accounts of the chain
    ShielderAddress,        \* address(this)
    RejectsNative,          \* addresses to which a plain native transfer fails
    Owners,                 \* addresses that may come to own the contract
    ARPubkeys,              \* points of the Grumpkin curve offered as AR key
    MAX_TRANSACTION_AMOUNT, \* 2^112 - 1 in the code
    FIELD_MODULUS,          \* r, the modulus of the circuits' field
    MAX_BPS,                \* 10000 in the code
    MAX_FEE_BPS,            \* 500 in the code
    MaxLeaves,              \* ARITY ^ TREE_HEIGHT leaves of the tree
    IsArbitrumChain,        \* the flag given to __Nullifiers_init
    MaxBlock,               \* bound on the block numbers explored
    Amounts,                \* amounts callers try
    Recipients,             \* addresses offered as withdrawal, relayer or fee address
    RelayerFees,            \* relayer fees callers try
    PocketMoneys,           \* native values sent along with an ERC20 withdrawal
    Donations,              \* amounts sent to the contract outside any call
    MaxDonatedBalance       \* bound on the balance that donations build up

\* MAX_CONTRACT_BALANCE = MAX_TRANSACTION_AMOUNT in the code.
MAX_CONTRACT_BALANCE == MAX_TRANSACTION_AMOUNT

\* pendingOwner when no transfer of ownership is under way.
NoPending == "none"

\* What the proofs need of the constants.  Two amounts in range never wrap in
\* the field (2^113 is far below r) and a fee never exceeds the amount.
ASSUME ConstantsAssumption ==
    /\ MAX_TRANSACTION_AMOUNT \in Nat
    /\ FIELD_MODULUS \in Nat
    /\ 2 * MAX_TRANSACTION_AMOUNT < FIELD_MODULUS
    /\ MAX_BPS \in Nat \ {0}
    /\ MAX_FEE_BPS \in 0..MAX_BPS
    /\ MaxLeaves \in Nat
    /\ MaxBlock \in Nat
    /\ IsArbitrumChain \in BOOLEAN
    /\ NativeToken \in Tokens
    /\ ShielderAddress \in Addresses
    \* The contract has no receive function.
    /\ ShielderAddress \in RejectsNative
    /\ Owners \subseteq Addresses
    /\ Recipients \subseteq Addresses
    /\ NoPending \notin Addresses
    /\ Amounts \subseteq 0..(FIELD_MODULUS - 1)
    /\ RelayerFees \subseteq Nat
    /\ PocketMoneys \subseteq Nat
    /\ Donations \subseteq Nat
    /\ MaxDonatedBalance \in Nat

VARIABLES
    notes,          \* the leaves of the Merkle tree, in order of insertion
    merkleRoots,    \* the root history
    nullifiers,     \* nullifier -> block number + 1, or 0
    balance,        \* token -> what the contract holds of it
    feeBps,         \* [deposit, withdraw] protocol fees
    feeReceiver,    \* protocolFeeReceiver
    arPubkey,       \* anonymityRevokerPubkey
    paused,         \* PausableUpgradeable
    owner,          \* [owner, pending] of Ownable2StepUpgradeable
    block,          \* [rpc, evm]: the number clients see, and block.number
    events          \* the log: one NewAccount, Deposit or Withdraw per leaf

coreVars == <<notes, merkleRoots, nullifiers, balance, events>>
adminVars == <<feeBps, feeReceiver, arPubkey, paused, owner>>
vars == <<coreVars, adminVars, block>>

Field == Ids \cup NoteNullifiers
FieldElement == 0..(FIELD_MODULUS - 1)
Note == [id : Ids, nullifier : Field, token : Tokens, balance : FieldElement]
Event == [kind : {"NewAccount", "Deposit", "Withdraw"}, token : Tokens,
          nullifier : Field, block : Nat]

-----------------------------------------------------------------------------
(* Field arithmetic of the circuits, on elements of FieldElement. *)

FieldAdd(a, b) ==
    IF a + b < FIELD_MODULUS THEN a + b ELSE a + b - FIELD_MODULUS

FieldSub(a, b) ==
    IF b <= a THEN a - b ELSE a - b + FIELD_MODULUS

\* The two comparisons of the circuits fit 112 bits.
InRange(a) == a <= MAX_TRANSACTION_AMOUNT

-----------------------------------------------------------------------------
(* The statements the three circuits prove. *)

\* A new note of account id holding value, bound to its prenullifier.
NewAccountRelation(id, prenullifier, newNote, value, token) ==
    /\ prenullifier = id
    /\ newNote.id = id
    /\ newNote.token = token
    /\ newNote.balance = value

\* The old note is the leaf of some tree of the root history; the new note
\* is of the same account and token.
SpendsLeaf(leaf, merkleRoot, oldNullifier, newNote, token) ==
    /\ leaf \in 1..merkleRoot
    /\ notes[leaf].nullifier = oldNullifier
    /\ notes[leaf].token = token
    /\ newNote.id = notes[leaf].id
    /\ newNote.token = token

DepositRelation(leaf, merkleRoot, oldNullifier, newNote, value, token) ==
    /\ SpendsLeaf(leaf, merkleRoot, oldNullifier, newNote, token)
    /\ newNote.balance = FieldAdd(notes[leaf].balance, value)

\* The withdrawal circuit range-checks the balance that is left.
WithdrawRelation(leaf, merkleRoot, oldNullifier, newNote, value, token) ==
    /\ SpendsLeaf(leaf, merkleRoot, oldNullifier, newNote, token)
    /\ newNote.balance = FieldSub(notes[leaf].balance, value)
    /\ InRange(newNote.balance)

-----------------------------------------------------------------------------
(* Protocol fees: amount * bps / MAX_BPS, rounded up. *)

CeilDiv(a, b) == (a + b - 1) \div b
ComputeProtocolFee(amount, bps) == CeilDiv(amount * bps, MAX_BPS)
ComputeProtocolDepositFee(amount) == ComputeProtocolFee(amount, feeBps.deposit)
ComputeProtocolWithdrawFee(amount) == ComputeProtocolFee(amount, feeBps.withdraw)

(* Transfers out of the contract; held is what the contract has of token. *)

CanTransfer(held, token, to, amount) ==
    amount # 0 => /\ amount <= held
                  /\ token = NativeToken => to \notin RejectsNative

AfterTransfer(held, to, amount) ==
    IF to = ShielderAddress THEN held ELSE held - amount

-----------------------------------------------------------------------------
(* The parts shared by the entry points. *)

\* Mutant: the number of the L1 block on Arbitrum.
BlockNumberEvm == block.evm

\* On Arbitrum chains block.number is the number of an L1 block; ArbSys gives
\* the number of the block that clients see.
BlockNumber == IF IsArbitrumChain THEN block.rpc ELSE block.evm

\* Mutant: the root of the new tree is not recorded.
AddNoteWithoutRoot(newNote) ==
    /\ Len(notes) < MaxLeaves
    /\ notes' = Append(notes, newNote)
    /\ UNCHANGED merkleRoots

\* _addNote and _registerNullifier, which every operation ends with.
AddNote(newNote) ==
    /\ Len(notes) < MaxLeaves
    /\ notes' = Append(notes, newNote)
    /\ merkleRoots' = merkleRoots \cup {Len(notes) + 1}

RegisterNullifier(nullifier) ==
    nullifiers' = [nullifiers EXCEPT ![nullifier] = BlockNumber + 1]

Emit(kind, token, nullifier) ==
    events' = Append(events, [kind |-> kind, token |-> token,
                              nullifier |-> nullifier, block |-> block.rpc])

\* Mutant: the limit is not checked.
WithinContractLimitUnchecked(token, amount) == TRUE

\* The balance limit: native value has arrived before it is looked at, an
\* ERC20 amount is added to balanceOf; both compare the same sum.
WithinContractLimit(token, amount) ==
    balance[token] + amount <= MAX_CONTRACT_BALANCE

\* Mutant: the prenullifier may be registered already.
NewAccountChecksAnyPrenullifier(token, amount, newNote, prenullifier) ==
    NewAccountRelation(newNote.id, prenullifier, newNote,
                       amount - ComputeProtocolDepositFee(amount), token)

NewAccountChecks(token, amount, newNote, prenullifier) ==
    LET protocolFee == ComputeProtocolDepositFee(amount) IN
    /\ nullifiers[prenullifier] = 0
    /\ NewAccountRelation(newNote.id, prenullifier, newNote,
                          amount - protocolFee, token)

\* Mutant: a spent note may be deposited to again.
DepositChecksAnyNullifier(token, amount, leaf, oldNullifier, newNote, merkleRoot) ==
    /\ amount # 0
    /\ merkleRoot \in merkleRoots
    /\ DepositRelation(leaf, merkleRoot, oldNullifier, newNote,
                       amount - ComputeProtocolDepositFee(amount), token)

DepositChecks(token, amount, leaf, oldNullifier, newNote, merkleRoot) ==
    LET protocolFee == ComputeProtocolDepositFee(amount) IN
    /\ amount # 0
    /\ nullifiers[oldNullifier] = 0
    /\ merkleRoot \in merkleRoots
    /\ DepositRelation(leaf, merkleRoot, oldNullifier, newNote,
                       amount - protocolFee, token)

WithdrawChecks(token, amount, relayerFee, leaf, oldNullifier, newNote, merkleRoot) ==
    LET protocolFee == ComputeProtocolWithdrawFee(amount) IN
    /\ amount # 0
    /\ amount <= MAX_TRANSACTION_AMOUNT
    /\ amount - protocolFee > relayerFee
    /\ merkleRoot \in merkleRoots
    /\ nullifiers[oldNullifier] = 0
    /\ WithdrawRelation(leaf, merkleRoot, oldNullifier, newNote, amount, token)

\* The incoming amount, then the protocol fee out.
PayIn(token, amount) ==
    LET fee == ComputeProtocolDepositFee(amount)
        held == balance[token] + amount
    IN  /\ CanTransfer(held, token, feeReceiver, fee)
        /\ balance' = [balance EXCEPT ![token] = AfterTransfer(held, feeReceiver, fee)]

\* Mutant: the fee is paid on top of the amount.
WithdrawTransfersFeeOnTop(token, amount, to, relayer, relayerFee) ==
    LET fee == ComputeProtocolWithdrawFee(amount)
        held1 == AfterTransfer(balance[token], to, amount - relayerFee)
        held2 == AfterTransfer(held1, feeReceiver, fee)
    IN  [possible |-> /\ CanTransfer(balance[token], token, to, amount - relayerFee)
                      /\ CanTransfer(held1, token, feeReceiver, fee)
                      /\ CanTransfer(held2, token, relayer, relayerFee),
         held |-> AfterTransfer(held2, relayer, relayerFee)]

\* The three transfers of a withdrawal, in the order of the code.
WithdrawTransfers(token, amount, to, relayer, relayerFee) ==
    LET fee == ComputeProtocolWithdrawFee(amount)
        net == amount - fee - relayerFee
        held1 == AfterTransfer(balance[token], to, net)
        held2 == AfterTransfer(held1, feeReceiver, fee)
        held3 == AfterTransfer(held2, relayer, relayerFee)
    IN  [possible |-> /\ CanTransfer(balance[token], token, to, net)
                      /\ CanTransfer(held1, token, feeReceiver, fee)
                      /\ CanTransfer(held2, token, relayer, relayerFee),
         held |-> held3]

PayOut(token, amount, to, relayer, relayerFee) ==
    LET transfers == WithdrawTransfers(token, amount, to, relayer, relayerFee) IN
    /\ transfers.possible
    /\ balance' = [balance EXCEPT ![token] = transfers.held]

-----------------------------------------------------------------------------
(* Operations anybody may call. *)

NewAccount(token, amount, newNote, prenullifier) ==
    /\ ~paused
    /\ WithinContractLimit(token, amount)
    /\ NewAccountChecks(token, amount, newNote, prenullifier)
    /\ AddNote(newNote)
    /\ RegisterNullifier(prenullifier)
    /\ PayIn(token, amount)
    /\ Emit("NewAccount", token, prenullifier)
    /\ UNCHANGED <<adminVars, block>>

newAccountNative(amount, newNote, prenullifier) ==
    NewAccount(NativeToken, amount, newNote, prenullifier)

newAccountERC20(token, amount, newNote, prenullifier) ==
    /\ token # NativeToken
    /\ NewAccount(token, amount, newNote, prenullifier)

Deposit(token, amount, leaf, newNote, merkleRoot) ==
    LET oldNullifier == notes[leaf].nullifier IN
    /\ ~paused
    /\ WithinContractLimit(token, amount)
    /\ DepositChecks(token, amount, leaf, oldNullifier, newNote, merkleRoot)
    /\ AddNote(newNote)
    /\ RegisterNullifier(oldNullifier)
    /\ PayIn(token, amount)
    /\ Emit("Deposit", token, oldNullifier)
    /\ UNCHANGED <<adminVars, block>>

depositNative(amount, leaf, newNote, merkleRoot) ==
    Deposit(NativeToken, amount, leaf, newNote, merkleRoot)

depositERC20(token, amount, leaf, newNote, merkleRoot) ==
    /\ token # NativeToken
    /\ Deposit(token, amount, leaf, newNote, merkleRoot)

Withdraw(token, amount, to, relayer, relayerFee, leaf, newNote, merkleRoot) ==
    LET oldNullifier == notes[leaf].nullifier IN
    /\ ~paused
    /\ WithdrawChecks(token, amount, relayerFee, leaf, oldNullifier, newNote, merkleRoot)
    /\ AddNote(newNote)
    /\ RegisterNullifier(oldNullifier)
    /\ PayOut(token, amount, to, relayer, relayerFee)
    /\ Emit("Withdraw", token, oldNullifier)
    /\ UNCHANGED <<adminVars, block>>

withdrawNative(amount, to, relayer, relayerFee, leaf, newNote, merkleRoot) ==
    Withdraw(NativeToken, amount, to, relayer, relayerFee, leaf, newNote, merkleRoot)

\* Pocket money is the native value of the call and leaves again at once, so
\* only a refusal by the receiver shows.
withdrawERC20(token, amount, to, relayer, relayerFee, leaf, newNote, merkleRoot, pocketMoney) ==
    /\ token # NativeToken
    /\ CanTransfer(balance[NativeToken] + pocketMoney, NativeToken, to, pocketMoney)
    /\ Withdraw(token, amount, to, relayer, relayerFee, leaf, newNote, merkleRoot)

-----------------------------------------------------------------------------
(* Operations of the owner. *)

pause(caller) ==
    /\ caller = owner.owner
    /\ ~paused
    /\ paused' = TRUE
    /\ UNCHANGED <<coreVars, feeBps, feeReceiver, arPubkey, owner, block>>

unpause(caller) ==
    /\ caller = owner.owner
    /\ paused
    /\ paused' = FALSE
    /\ UNCHANGED <<coreVars, feeBps, feeReceiver, arPubkey, owner, block>>

setProtocolFeeReceiver(caller, newReceiver) ==
    /\ caller = owner.owner
    /\ feeReceiver' = newReceiver
    /\ UNCHANGED <<coreVars, feeBps, arPubkey, paused, owner, block>>

\* Mutant: the fee is not capped.
setProtocolDepositFeeBpsUncapped(caller, bps) ==
    /\ caller = owner.owner
    /\ feeBps' = [feeBps EXCEPT !.deposit = bps]
    /\ UNCHANGED <<coreVars, feeReceiver, arPubkey, paused, owner, block>>

setProtocolDepositFeeBps(caller, bps) ==
    /\ caller = owner.owner
    /\ bps <= MAX_FEE_BPS
    /\ feeBps' = [feeBps EXCEPT !.deposit = bps]
    /\ UNCHANGED <<coreVars, feeReceiver, arPubkey, paused, owner, block>>

setProtocolWithdrawFeeBps(caller, bps) ==
    /\ caller = owner.owner
    /\ bps <= MAX_FEE_BPS
    /\ feeBps' = [feeBps EXCEPT !.withdraw = bps]
    /\ UNCHANGED <<coreVars, feeReceiver, arPubkey, paused, owner, block>>

\* The key is part of the statement of a new account only, and a proof is
\* always one for the present key, so the operations above do not mention it.
setAnonymityRevokerPubkey(caller, pubkey) ==
    /\ caller = owner.owner
    /\ arPubkey' = pubkey
    /\ UNCHANGED <<coreVars, feeBps, feeReceiver, paused, owner, block>>

\* Ownable2StepUpgradeable; renounceOwnership is overridden to do nothing.
transferOwnership(caller, newOwner) ==
    /\ caller = owner.owner
    /\ owner' = [owner EXCEPT !.pending = newOwner]
    /\ UNCHANGED <<coreVars, feeBps, feeReceiver, arPubkey, paused, block>>

acceptOwnership(caller) ==
    /\ caller = owner.pending
    /\ owner' = [owner |-> caller, pending |-> NoPending]
    /\ UNCHANGED <<coreVars, feeBps, feeReceiver, arPubkey, paused, block>>

-----------------------------------------------------------------------------
(* The chain. *)

\* A block is mined.  On Arbitrum block.number may stay the same.
MineBlock ==
    /\ block.rpc < MaxBlock
    /\ \E evm \in IF IsArbitrumChain THEN {block.evm, block.evm + 1}
                  ELSE {block.rpc + 1} :
          block' = [rpc |-> block.rpc + 1, evm |-> evm]
    /\ UNCHANGED <<coreVars, adminVars>>

\* Anybody may send tokens to the contract without calling it.
Donate(token, amount) ==
    /\ balance[token] + amount <= MaxDonatedBalance
    /\ balance' = [balance EXCEPT ![token] = @ + amount]
    /\ UNCHANGED <<notes, merkleRoots, nullifiers, events, adminVars, block>>

-----------------------------------------------------------------------------
\* The state after initialize: empty tree, paused, given fees.
Init ==
    /\ notes = <<>>
    /\ merkleRoots = {}
    /\ nullifiers = [n \in Field |-> 0]
    /\ balance = [t \in Tokens |-> 0]
    /\ feeBps \in [deposit : 0..MAX_FEE_BPS, withdraw : 0..MAX_FEE_BPS]
    /\ feeReceiver \in Recipients
    /\ arPubkey \in ARPubkeys
    /\ paused = TRUE
    /\ owner \in [owner : Owners, pending : {NoPending}]
    /\ block = [rpc |-> 0, evm |-> 0]
    /\ events = <<>>

\* What a caller chooses: the account or the leaf, the next nullifier, the
\* amount, a root of the history, and for a withdrawal who is paid what.
FreshNote(id, nullifier, token, value) ==
    [id |-> id, nullifier |-> nullifier, token |-> token, balance |-> value]

NewAccountCall ==
    \E id \in Ids, nullifier \in NoteNullifiers, amount \in Amounts, token \in Tokens :
       LET value == amount - ComputeProtocolDepositFee(amount)
           newNote == FreshNote(id, nullifier, token, value)
       IN  \/ token = NativeToken /\ newAccountNative(amount, newNote, id)
           \/ newAccountERC20(token, amount, newNote, id)

DepositCall ==
    \E leaf \in 1..Len(notes), nullifier \in NoteNullifiers, amount \in Amounts,
       merkleRoot \in merkleRoots :
       LET old == notes[leaf]
           value == FieldAdd(old.balance, amount - ComputeProtocolDepositFee(amount))
           newNote == FreshNote(old.id, nullifier, old.token, value)
       IN  \/ old.token = NativeToken /\ depositNative(amount, leaf, newNote, merkleRoot)
           \/ depositERC20(old.token, amount, leaf, newNote, merkleRoot)

WithdrawCall ==
    \E leaf \in 1..Len(notes), nullifier \in NoteNullifiers, amount \in Amounts,
       merkleRoot \in merkleRoots, to \in Recipients, relayer \in Recipients,
       relayerFee \in RelayerFees :
       LET old == notes[leaf]
           newNote == FreshNote(old.id, nullifier, old.token, FieldSub(old.balance, amount))
       IN  \/ /\ old.token = NativeToken
              /\ withdrawNative(amount, to, relayer, relayerFee, leaf, newNote, merkleRoot)
           \/ \E pocketMoney \in PocketMoneys :
                 withdrawERC20(old.token, amount, to, relayer, relayerFee, leaf, newNote,
                               merkleRoot, pocketMoney)

OwnerCall ==
    \E caller \in Owners :
       \/ pause(caller)
       \/ unpause(caller)
       \/ \E receiver \in Recipients : setProtocolFeeReceiver(caller, receiver)
       \/ \E bps \in 0..MAX_BPS : setProtocolDepositFeeBps(caller, bps)
       \/ \E bps \in 0..MAX_BPS : setProtocolWithdrawFeeBps(caller, bps)
       \/ \E pubkey \in ARPubkeys : setAnonymityRevokerPubkey(caller, pubkey)
       \/ \E newOwner \in Owners : transferOwnership(caller, newOwner)
       \/ acceptOwnership(caller)

Next ==
    \/ NewAccountCall
    \/ DepositCall
    \/ WithdrawCall
    \/ OwnerCall
    \/ MineBlock
    \/ \E token \in Tokens, amount \in Donations : Donate(token, amount)

Spec == Init /\ [][Next]_vars

-----------------------------------------------------------------------------
(* Properties. *)

\* Type correctness; in particular no balance of a note or of the contract is
\* ever negative, and the stored fees never exceed MAX_FEE_BPS.
TypeOK ==
    /\ notes \in Seq(Note)
    /\ merkleRoots \subseteq 1..Len(notes)
    /\ nullifiers \in [Field -> Nat]
    /\ balance \in [Tokens -> Nat]
    /\ feeBps \in [deposit : 0..MAX_FEE_BPS, withdraw : 0..MAX_FEE_BPS]
    /\ feeReceiver \in Addresses
    /\ arPubkey \in ARPubkeys
    /\ paused \in BOOLEAN
    /\ owner \in [owner : Owners, pending : Owners \cup {NoPending}]
    /\ block \in [rpc : Nat, evm : Nat]
    /\ events \in Seq(Event)

\* What a leaf can still bring out of the contract in a token: its balance
\* until its nullifier is registered, nothing after.  The tree and the
\* nullifiers are parameters, so that the lemmas on them are about values.
Spendable(leaves, used, leaf, token) ==
    IF leaves[leaf].token = token /\ used[leaves[leaf].nullifier] = 0
    THEN leaves[leaf].balance ELSE 0

\* total is a running total of the spendable value of the leaves, or more.
RunningTotal(total, leaves, used, token) ==
    /\ total[0] = 0
    /\ \A leaf \in 1..Len(leaves) :
          total[leaf - 1] + Spendable(leaves, used, leaf, token) <= total[leaf]
    /\ \A i, j \in 0..Len(leaves) : i <= j => total[i] <= total[j]

\* All spendable notes of a token together are worth at most bound.
SpendableAtMost(leaves, used, token, bound) ==
    \E total \in [0..Len(leaves) -> 0..bound] : RunningTotal(total, leaves, used, token)

\* Solvency: whatever the order of deposits, withdrawals, fee changes and
\* replays, and whatever nullifiers the provers choose, the contract holds at
\* least what all unspent notes together can still withdraw (the transfers of
\* newAccount*, deposit* and withdraw* against the balances in the notes).
Solvency == \A token \in Tokens : SpendableAtMost(notes, nullifiers, token, balance[token])

\* The comment on MAX_CONTRACT_BALANCE: the sum of the shielded balances is
\* controlled, so that none fails the range check of the withdrawal circuit.
SumOfBalancesInRange ==
    \A token \in Tokens :
       SpendableAtMost(notes, nullifiers, token, MAX_TRANSACTION_AMOUNT)

\* Every operation consumes exactly one nullifier never seen before and adds
\* exactly one note: the registered nullifiers are as many as the leaves.
OneNullifierPerNote ==
    Cardinality({n \in Field : nullifiers[n] # 0}) = Len(notes)

\* Clients look up the block of a nullifier and search its log for the event
\* (recovery): the block stored is the one in which the event was emitted, the
\* offset by one included, on Arbitrum chains as well.
NullifierBlockHoldsItsEvent ==
    \A i \in 1..Len(events) : nullifiers[events[i].nullifier] = events[i].block + 1

\* No unspent value is locked in: as long as the contract is not paused, the
\* tree has room and the fee receiver takes the fee, the owner of an unspent
\* note can withdraw its whole balance in one call without a relayer, unless
\* the fee leaves nothing of it.
FundsCanLeave ==
    \A leaf \in 1..Len(notes), to \in Addresses \ RejectsNative :
       LET old == notes[leaf]
           rest == FreshNote(old.id, old.nullifier, old.token, 0)
       IN  /\ nullifiers[old.nullifier] = 0
           /\ old.balance > ComputeProtocolWithdrawFee(old.balance)
           /\ feeReceiver \notin RejectsNative
           => /\ WithdrawChecks(old.token, old.balance, 0, leaf, old.nullifier, rest, Len(notes))
              /\ WithdrawTransfers(old.token, old.balance, to, to, 0).possible

\* A nullifier, once registered, keeps its block: nothing is spent twice and
\* nothing that was spent becomes spendable again.
NullifiersWriteOnce ==
    [][\A n \in Field : nullifiers[n] # 0 => nullifiers'[n] = nullifiers[n]]_vars

\* While the contract is paused neither the tree nor the nullifiers nor the
\* log move, and no token leaves (every entry point is whenNotPaused).
PausedMovesNothing ==
    [][paused => /\ UNCHANGED <<notes, merkleRoots, nullifiers, events>>
                 /\ \A token \in Tokens : balance'[token] >= balance[token]]_vars

=============================================================================
