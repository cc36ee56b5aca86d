----------------------------- MODULE ShielderSdk -----------------------------
(***************************************************************************)
(* The account state of the TypeScript SDK (ts/shielder-sdk): storage,     *)
(* account registry, synchronizer, and the operations that send            *)
(* transactions.  Devices share one seed and have a storage each; a device *)
(* runs several asynchronous calls, which interleave at every await.       *)
(*                                                                         *)
(* All secrets of an account derive from the seed, its index and a nonce:  *)
(* the nullifier of (index, nonce) is used up by the transaction that      *)
(* makes the note with that nonce, so the contract takes a transaction     *)
(* exactly when its nonce is the next of its account (module Shielder).    *)
(***************************************************************************)
EXTENDS Integers, Sequences, FiniteSets

CONSTANTS
    Devices,
    Calls,          \* asynchronous calls that may be under way
    DeviceOf,       \* call -> the device it runs on
    Tokens,
    None,           \* no token
    Stranger,       \* the account of events that are somebody else's
    MaxEvents,      \* bound on the events on chain
    MaxStrangers,   \* bound on the events of other users
    MaxOrphans,     \* bound on the transactions no call waits for
    Crashes,        \* whether a device may stop and start again
    Failures,       \* whether storage, node and callback may fail
    Initialized     \* whether every device has used its storage before

\* AccountState: what is kept of an account.
AccountStates == [index : Nat, token : Tokens, nonce : Nat, balance : Int]

ASSUME SdkAssumption ==
    /\ DeviceOf \in [Calls -> Devices]
    /\ Stranger \notin Nat
    /\ None \notin Tokens /\ None \notin AccountStates /\ None \notin Seq(AccountStates)
    /\ MaxEvents \in Nat /\ MaxStrangers \in Nat /\ MaxOrphans \in Nat
    /\ Crashes \in BOOLEAN /\ Failures \in BOOLEAN /\ Initialized \in BOOLEAN

VARIABLES
    log,        \* note events: account, nonce, token, new balance, block
    mined,      \* how many events are in blocks that clients can see
    orphans,    \* transactions under way that no call waits for any more
    storage,    \* device -> None, or its accounts (index i at position i + 1)
    lock,       \* device -> calls at singleTokenMutex, in order; the first holds it
    call,       \* call -> where it stands
    reported    \* device -> calls of onNewTransaction, without those whose
                \* transaction was not saved after all

vars == <<log, mined, orphans, storage, lock, call, reported>>

Idle == [pc |-> "idle", op |-> "none", token |-> None, cursor |-> 0,
         state |-> None, start |-> None]

-----------------------------------------------------------------------------
(* The chain. *)

CurrentBlock == IF log = <<>> THEN 1
                ELSE log[Len(log)].block + (IF mined = Len(log) THEN 1 ELSE 0)

EventsOf(account) == {i \in 1..Len(log) : log[i].account = account}
Mined == 1..mined

\* The contract accepts the next note of an account and no other.
Accepts(tx) == tx.nonce = Cardinality(EventsOf(tx.account))

Event(tx) == [account |-> tx.account, nonce |-> tx.nonce, token |-> tx.token,
              balance |-> tx.balance, block |-> CurrentBlock]

MinedCount(account) == Cardinality(EventsOf(account) \cap Mined)

-----------------------------------------------------------------------------
(* Storage and registry. *)

\* getStorage, once ensureInitialized has run.
Stored(device) == IF storage[device] = None THEN <<>> ELSE storage[device]

\* findAccountByTokenAddress: the first account of the token, or none.
StoredAt(device, token) ==
    {i \in 1..Len(Stored(device)) :
        /\ Stored(device)[i].token = token
        /\ \A j \in 1..(i - 1) : Stored(device)[j].token # token}

\* getAccountState
AccountState(device, token) ==
    IF StoredAt(device, token) = {} THEN None
    ELSE Stored(device)[CHOOSE i \in StoredAt(device, token) : TRUE]

\* createEmptyAccountState, at the next free index.
EmptyAccountState(device, token) ==
    [index |-> Len(Stored(device)), token |-> token, nonce |-> 0, balance |-> 0]

\* updateAccountState: in place, or at the next index.
UpdatedStorage(device, token, state) ==
    LET at == IF StoredAt(device, token) = {} THEN Len(Stored(device)) + 1
              ELSE CHOOSE i \in StoredAt(device, token) : TRUE
        entry == [state EXCEPT !.index = at - 1]
    IN  IF at = Len(Stored(device)) + 1 THEN Append(Stored(device), entry)
        ELSE [Stored(device) EXCEPT ![at] = entry]

-----------------------------------------------------------------------------
(* Chain state transitions. *)

\* The event that used up the nullifier of a state, if its block is mined.
Successor(state) ==
    {i \in Mined : log[i].account = state.index /\ log[i].nonce = state.nonce}

\* getNoteEventsFromBlock, for the block of that nullifier.
BlockEvents(state) ==
    {i \in Mined : \E s \in Successor(state) : log[i].block = log[s].block}

\* An event of another token in that block makes the search fail.
TokenMismatch(state) == \E i \in BlockEvents(state) : log[i].token # state.token

\* Mutant: the balance before the event.
NewStateOldBalance(state) == [state EXCEPT !.nonce = @ + 1]

\* newStateByEvent, for the event whose note the state leads to.
NewState(state) ==
    LET event == log[CHOOSE i \in Successor(state) : TRUE]
    IN  [state EXCEPT !.nonce = @ + 1, !.balance = event.balance]

-----------------------------------------------------------------------------
(* Steps of a call. *)

Goto(c, pc) == call' = [call EXCEPT ![c].pc = pc]
Return(c) == call' = [call EXCEPT ![c] = Idle]
Throw(c) == Return(c)

\* What is on chain for each account when a call begins, to compare with later.
ChainNow == [i \in 0..(MaxEvents - 1) |-> MinedCount(i)]

\* A call of shield, withdraw or syncShielder begins with an access to the
\* storage, and finds it there or not.
Start(c, op, token) ==
    /\ call[c].pc = "idle"
    /\ call' = [call EXCEPT ![c] =
                  [Idle EXCEPT !.op = op, !.token = token,
                               !.start = IF op = "sync" THEN ChainNow ELSE None,
                               !.pc = IF storage[DeviceOf[c]] = None THEN "init"
                                      ELSE IF op = "sync" THEN "next" ELSE "read"]]
    /\ UNCHANGED <<log, mined, orphans, storage, lock, reported>>

\* ensureInitialized writes an empty storage, and the call goes on with that.
InitStorage(c) ==
    /\ call[c].pc = "init"
    /\ storage' = [storage EXCEPT ![DeviceOf[c]] = <<>>]
    /\ \/ call[c].op = "sync" /\ Goto(c, "probe")
       \/ call[c].op = "shield" /\ Goto(c, "create")
       \/ call[c].op = "withdraw" /\ Throw(c)
    /\ UNCHANGED <<log, mined, orphans, lock, reported>>

\* shield and withdraw read the account; without one, shield opens it.
Read(c) ==
    LET state == AccountState(DeviceOf[c], call[c].token) IN
    /\ call[c].pc = "read"
    /\ \/ state = None /\ call[c].op = "shield" /\ Goto(c, "create")
       \/ state = None /\ call[c].op = "withdraw" /\ Throw(c)
       \/ /\ state # None
          /\ call' = [call EXCEPT ![c].pc = "send", ![c].state = state]
    /\ UNCHANGED <<log, mined, orphans, storage, lock, reported>>

\* newAccount reads the next index in a second access to the storage.
Create(c) ==
    /\ call[c].pc = "create"
    /\ call' = [call EXCEPT ![c].pc = "send",
                            ![c].state = EmptyAccountState(DeviceOf[c], call[c].token)]
    /\ UNCHANGED <<log, mined, orphans, storage, lock, reported>>

Change(op) == IF op = "shield" THEN 1 ELSE -1

TxOf(c) == [account |-> call[c].state.index, nonce |-> call[c].state.nonce,
            token |-> call[c].state.token,
            balance |-> call[c].state.balance + Change(call[c].op)]

\* generateCalldata refuses to withdraw more than there is.
Sendable(c) == TxOf(c).balance >= 0

\* generateCalldata and sendCalldata: in the end the transaction is in a block,
\* or there is none and the call throws.
Include(c) ==
    /\ call[c].pc = "send"
    /\ \/ /\ Sendable(c) /\ Accepts(TxOf(c))
          /\ Len(log) < MaxEvents
          /\ log' = Append(log, Event(TxOf(c)))
          /\ Goto(c, "receipt")
       \/ Throw(c) /\ UNCHANGED log
    /\ UNCHANGED <<mined, orphans, storage, lock, reported>>

\* The wait for the receipt runs out of time; the transaction may still come.
GiveUp(c) ==
    /\ \/ call[c].pc = "send" /\ Sendable(c) /\ orphans' = orphans \cup {TxOf(c)}
       \/ call[c].pc = "receipt" /\ UNCHANGED orphans
    /\ Cardinality(orphans') <= MaxOrphans
    /\ Throw(c)
    /\ UNCHANGED <<log, mined, storage, lock, reported>>

\* Mutant: nobody waits for the mutex.
EnqueueAtOnce(c) == lock' = [lock EXCEPT ![DeviceOf[c]] = <<c>> \o @]

\* syncSingleAccount enters singleTokenMutex.runExclusive, first come first served.
Enqueue(c) == lock' = [lock EXCEPT ![DeviceOf[c]] = Append(@, c)]

\* waitForTransactionReceipt: the block of the transaction is there.
Receipt(c) ==
    /\ call[c].pc = "receipt"
    /\ \E i \in Mined : /\ log[i].account = call[c].state.index
                        /\ log[i].nonce = call[c].state.nonce
    /\ Enqueue(c)
    /\ Goto(c, "load")
    /\ UNCHANGED <<log, mined, orphans, storage, reported>>

\* The account at the cursor is of this token: sync it, and move the cursor.
SyncNext(c, token) ==
    /\ Enqueue(c)
    /\ call' = [call EXCEPT ![c].pc = "load", ![c].cursor = @ + 1, ![c].token = token]

\* syncAllAccounts: the token of the account at the cursor, from the storage.
NextAccount(c) ==
    LET accounts == Stored(DeviceOf[c]) IN
    /\ call[c].pc = "next"
    /\ IF call[c].cursor < Len(accounts)
       THEN SyncNext(c, accounts[call[c].cursor + 1].token)
       ELSE Goto(c, "probe") /\ UNCHANGED lock
    /\ UNCHANGED <<log, mined, orphans, storage, reported>>

\* Mutant: accounts that are not stored are not looked for.
ProbeNothing(c) ==
    /\ call[c].pc = "probe"
    /\ Goto(c, "synced")
    /\ UNCHANGED <<log, mined, orphans, storage, lock, reported>>

\* findTokenByAccountIndex: the same from the chain.
Probe(c) ==
    LET opened == {i \in Mined : log[i].account = call[c].cursor /\ log[i].nonce = 0} IN
    /\ call[c].pc = "probe"
    /\ \/ opened = {} /\ Goto(c, "synced") /\ UNCHANGED lock
       \/ \E i \in opened : SyncNext(c, log[i].token)
    /\ UNCHANGED <<log, mined, orphans, storage, reported>>

\* syncShielder returns.
Synced(c) ==
    /\ call[c].pc = "synced"
    /\ Return(c)
    /\ UNCHANGED <<log, mined, orphans, storage, lock, reported>>

Holds(c) == lock[DeviceOf[c]] # <<>> /\ Head(lock[DeviceOf[c]]) = c

\* Only the holder writes, so its reads of the storage are one step.
\* validateAccountState succeeds: no block is undone.
Load(c) ==
    LET existing == AccountState(DeviceOf[c], call[c].token) IN
    /\ call[c].pc = "load"
    /\ Holds(c)
    /\ call' = [call EXCEPT ![c].pc = "find",
                            ![c].state = IF existing # None THEN existing
                                         ELSE EmptyAccountState(DeviceOf[c], call[c].token)]
    /\ UNCHANGED <<log, mined, orphans, storage, lock, reported>>

Release(c) == lock' = [lock EXCEPT ![DeviceOf[c]] = Tail(@)]

\* Mutant: an error leaves the mutex locked.
FailWithoutRelease(c) == Throw(c) /\ UNCHANGED lock

\* runExclusive releases whether the sync returns or throws.
Fail(c) == Throw(c) /\ Release(c)

\* findStateTransition, and the callback for what it found.
Find(c) ==
    LET state == call[c].state IN
    /\ call[c].pc = "find"
    /\ \/ /\ Successor(state) = {}
          /\ IF call[c].op = "sync"
             THEN call' = [call EXCEPT ![c].pc = "next", ![c].token = None, ![c].state = None]
             ELSE Return(c)
          /\ Release(c)
          /\ UNCHANGED reported
       \/ /\ Successor(state) # {} /\ TokenMismatch(state)
          /\ Fail(c)
          /\ UNCHANGED reported
       \/ /\ Successor(state) # {} /\ ~TokenMismatch(state)
          /\ reported' = [reported EXCEPT ![DeviceOf[c]] =
                            Append(@, <<state.index, state.nonce>>)]
          /\ call' = [call EXCEPT ![c].pc = "save", ![c].state = NewState(state)]
          /\ UNCHANGED lock
    /\ UNCHANGED <<log, mined, orphans, storage>>

\* updateAccountState, after which the search goes on from the new state.
Save(c) ==
    /\ call[c].pc = "save"
    /\ storage' = [storage EXCEPT ![DeviceOf[c]] =
                     UpdatedStorage(DeviceOf[c], call[c].token, call[c].state)]
    /\ Goto(c, "find")
    /\ UNCHANGED <<log, mined, orphans, lock, reported>>

\* The last report, which is that of the holder of the mutex, goes unsaved.
Unsaved(device) == reported' = [reported EXCEPT ![device] = SubSeq(@, 1, Len(@) - 1)]

\* Storage or node reject what the call awaits, or onNewTransaction throws, and
\* with it the call: in the second case while it has the mutex, in the third
\* after the report and before the save.
Rejected(c) ==
    /\ Failures
    /\ \/ /\ call[c].pc \in {"init", "read", "create", "next", "probe"}
          /\ Throw(c)
          /\ UNCHANGED <<lock, reported>>
       \/ /\ call[c].pc = "find" \/ (call[c].pc = "load" /\ Holds(c))
          /\ Fail(c)
          /\ UNCHANGED reported
       \/ /\ call[c].pc = "save"
          /\ Fail(c)
          /\ Unsaved(DeviceOf[c])
    /\ UNCHANGED <<log, mined, orphans, storage>>

-----------------------------------------------------------------------------
(* The environment. *)

\* The block under construction is mined.
SealBlock ==
    /\ mined < Len(log)
    /\ mined' = Len(log)
    /\ UNCHANGED <<log, orphans, storage, lock, call, reported>>

\* Somebody else's transaction.
StrangerEvent(token) ==
    /\ Len(log) < MaxEvents
    /\ Cardinality(EventsOf(Stranger)) < MaxStrangers
    /\ log' = Append(log, Event([account |-> Stranger,
                                 nonce |-> Cardinality(EventsOf(Stranger)),
                                 token |-> token, balance |-> 1]))
    /\ UNCHANGED <<mined, orphans, storage, lock, call, reported>>

\* A device stops: its calls are gone, what they sent is not.
Crash(device) ==
    LET mine == {c \in Calls : DeviceOf[c] = device} IN
    /\ Crashes
    /\ \E c \in mine : call[c].pc # "idle"
    /\ call' = [c \in Calls |-> IF c \in mine THEN Idle ELSE call[c]]
    /\ lock' = [lock EXCEPT ![device] = <<>>]
    /\ orphans' = orphans \cup {TxOf(c) : c \in {d \in mine : call[d].pc = "send" /\ Sendable(d)}}
    /\ Cardinality(orphans') <= MaxOrphans
    /\ IF \E c \in mine : call[c].pc = "save" THEN Unsaved(device) ELSE UNCHANGED reported
    /\ UNCHANGED <<log, mined, storage>>

IncludeOrphan(tx) ==
    /\ orphans' = orphans \ {tx}
    /\ \/ Accepts(tx) /\ Len(log) < MaxEvents /\ log' = Append(log, Event(tx))
       \/ UNCHANGED log
    /\ UNCHANGED <<mined, storage, lock, call, reported>>

-----------------------------------------------------------------------------
Init ==
    /\ log = <<>>
    /\ mined = 0
    /\ orphans = {}
    /\ storage = [d \in Devices |-> IF Initialized THEN <<>> ELSE None]
    /\ lock = [d \in Devices |-> <<>>]
    /\ call = [c \in Calls |-> Idle]
    /\ reported = [d \in Devices |-> <<>>]

Step(c) ==
    \/ InitStorage(c) \/ Read(c) \/ Create(c) \/ Include(c) \/ Receipt(c)
    \/ NextAccount(c) \/ Probe(c) \/ Synced(c) \/ Load(c) \/ Find(c) \/ Save(c)

Next ==
    \/ \E c \in Calls :
          \/ \E token \in Tokens, op \in {"shield", "withdraw"} : Start(c, op, token)
          \/ Start(c, "sync", None)
          \/ Step(c)
          \/ GiveUp(c)
          \/ Rejected(c)
    \/ SealBlock
    \/ \E token \in Tokens : StrangerEvent(token)
    \/ \E device \in Devices : Crash(device)
    \/ \E tx \in orphans : IncludeOrphan(tx)

Spec == Init /\ [][Next]_vars

\* A started call goes on, and blocks are mined.
Fairness == /\ \A c \in Calls : WF_vars(Step(c))
            /\ WF_vars(SealBlock)

FairSpec == Spec /\ Fairness

-----------------------------------------------------------------------------
(* Properties. *)

\* What a device stores for an account is a note of that account on chain, with
\* its nonce, token and balance, whoever of the devices made it, however calls
\* interleave, wherever a device stopped.
StoredStateIsOnChain ==
    \A d \in Devices : \A i \in 1..Len(Stored(d)) :
       LET state == Stored(d)[i] IN
       /\ state.index = i - 1
       /\ \E e \in Mined : /\ log[e].account = state.index
                           /\ log[e].nonce + 1 = state.nonce
                           /\ log[e].token = state.token
                           /\ log[e].balance = state.balance

\* A sync never takes an account back to an earlier note, drops one or turns it
\* into one of another token (the mutex of syncSingleAccount).
StorageOnlyAdvances ==
    [][\A d \in Devices :
          /\ Len(Stored(d)) <= Len(Stored(d)')
          /\ \A i \in 1..Len(Stored(d)) :
                /\ Stored(d)[i].token = Stored(d)'[i].token
                /\ Stored(d)[i].nonce <= Stored(d)'[i].nonce]_vars

\* onNewTransaction was called for every transaction up to the stored states
\* ("Emits callbacks for the newly synced transaction").  It is called again for a
\* transaction only if the call before was not followed by the save: the callback
\* threw, the storage rejected the write or the device stopped.
ReportedOnce ==
    \A d \in Devices :
       /\ \A i, j \in 1..Len(reported[d]) : i # j => reported[d][i] # reported[d][j]
       /\ \A i \in 1..Len(Stored(d)) : \A n \in 0..(Stored(d)[i].nonce - 1) :
             \E k \in 1..Len(reported[d]) : reported[d][k] = <<i - 1, n>>

\* When syncShielder returns, the storage has everything that was on chain when
\* it was called ("Sync the local state with blockchain for all tokens").
SyncCoversChain ==
    \A c \in Calls : call[c].pc = "synced" =>
       \A i \in DOMAIN call[c].start : call[c].start[i] > 0 =>
          /\ i < Len(Stored(DeviceOf[c]))
          /\ Stored(DeviceOf[c])[i + 1].nonce >= call[c].start[i]

\* A sync refuses an account for its token only if the transaction that changed
\* the account is of another token than the account is taken for.
OnlyOwnEventsRefused ==
    [][\A c \in Calls :
          call[c].pc = "find" /\ Successor(call[c].state) # {} /\ call'[c].pc = "idle"
          => \E i \in Successor(call[c].state) : log[i].token # call[c].state.token]_vars

\* Every call returns or throws: no error leaves the mutex locked.
CallsEnd == \A c \in Calls : []<>(call[c].pc = "idle")

=============================================================================
