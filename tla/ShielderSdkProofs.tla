-------------------------- MODULE ShielderSdkProofs --------------------------
(***************************************************************************)
(* Theorems on the account state of the SDK, for every set of devices,     *)
(* calls and tokens and every number of transactions.                      *)
(***************************************************************************)
EXTENDS ShielderSdk, FiniteSetTheorems, TLAPS

-----------------------------------------------------------------------------
(* The invariant. *)

\* Every device has used its storage before, or runs one call at a time.  Otherwise a
\* call that found no storage may write the empty one over what another has stored.
StorageFoundOrOneCall ==
    Initialized \/ \A c, d \in Calls : DeviceOf[c] = DeviceOf[d] => c = d

Events == [account : Nat \cup {Stranger}, nonce : Nat, token : Tokens, balance : Int, block : Nat]
Transactions == [account : Nat, nonce : Nat, token : Tokens, balance : Int]

CallStates ==
    [pc : {"idle", "init", "read", "create", "send", "receipt", "next", "probe", "synced",
           "load", "find", "save"},
     op : {"none", "shield", "withdraw", "sync"},
     token : Tokens \cup {None}, cursor : Nat, state : AccountStates \cup {None},
     start : [0..(MaxEvents - 1) -> Nat] \cup {None}]

\* A call has its token and its state where it uses them.
WellFormed(k) ==
    /\ k.pc \in {"read", "create", "send", "receipt", "load", "find", "save"} => k.token \in Tokens
    /\ k.pc = "init" /\ k.op # "sync" => k.token \in Tokens
    /\ k.pc \in {"send", "receipt", "find", "save"} => k.state \in AccountStates

TypeOK ==
    /\ log \in Seq(Events)
    /\ mined \in 0..Len(log)
    /\ orphans \in SUBSET Transactions
    /\ storage \in [Devices -> Seq(AccountStates) \cup {None}]
    /\ lock \in [Devices -> Seq(Calls)]
    /\ call \in [Calls -> CallStates]
    /\ reported \in [Devices -> Seq(Nat \X Nat)]
    /\ \A c \in Calls : WellFormed(call[c])

\* The state is a note on chain.
OnChain(state) ==
    \E e \in Mined : /\ log[e].account = state.index
                     /\ log[e].nonce + 1 = state.nonce
                     /\ log[e].token = state.token
                     /\ log[e].balance = state.balance

\* What is stored for a token, or the state an account of it starts from.
Current(device, token) ==
    IF StoredAt(device, token) = {} THEN EmptyAccountState(device, token)
    ELSE Stored(device)[CHOOSE i \in StoredAt(device, token) : TRUE]

\* A call works on an account only while it holds the mutex.
Exclusive == \A c \in Calls : call[c].pc \in {"find", "save"} => Holds(c)

\* The state a call works on is the stored one, or its successor on chain.
Working(k, device) ==
    /\ k.pc = "find" => k.state = Current(device, k.token)
    /\ k.pc = "save" => /\ k.state.index = Current(device, k.token).index
                        /\ k.state.token = k.token
                        /\ k.state.nonce = Current(device, k.token).nonce + 1
                        /\ OnChain(k.state)

InStep == \A c \in Calls : Working(call[c], DeviceOf[c])

\* No storage is written anew over one that is in use.
InitOnce ==
    /\ Initialized => \A d \in Devices : storage[d] # None
    /\ \A c \in Calls : call[c].pc = "init" => storage[DeviceOf[c]] = None

Inv ==
    TypeOK /\ StoredStateIsOnChain /\ Exclusive /\ InStep /\ InitOnce

-----------------------------------------------------------------------------
(* Lemmas on the operators. *)

\* A set of numbers has a least one: of the intervals up to its elements, one has none
\* of the others within it.
LEMMA Least ==
    ASSUME NEW T \in SUBSET Nat, T # {}
    PROVE  \E x \in T : \A y \in T : x <= y
    <1> DEFINE upTo == {0..n : n \in T}
    <1>1. upTo \subseteq FiniteSubsetsOf(Nat)
        <2>1. ASSUME NEW n \in T PROVE 0..n \in FiniteSubsetsOf(Nat)
            BY FS_Interval DEF FiniteSubsetsOf
        <2> QED
            BY <2>1
    <1>2. IsWellFoundedOn(StrictSubsetOrdering(Nat), FiniteSubsetsOf(Nat))
        BY FS_StrictSubsetOrderingWellFounded
    <1>3. upTo # {}
        OBVIOUS
    <1> HIDE DEF upTo
    <1>4. PICK b \in upTo : \A c \in upTo : <<c, b>> \notin StrictSubsetOrdering(Nat)
        BY <1>1, <1>2, <1>3, WFMin
    <1>5. PICK x \in T : b = 0..x
        BY DEF upTo
    <1>6. ASSUME NEW y \in T, y < x PROVE FALSE
        <2>1. 0..y \in upTo
            BY DEF upTo
        <2>2. /\ 0..y \in SUBSET Nat /\ 0..x \in SUBSET Nat
              /\ 0..y \subseteq 0..x /\ x \in 0..x /\ x \notin 0..y
            BY <1>6
        <2>3. <<0..y, b>> \in StrictSubsetOrdering(Nat)
            BY <1>5, <2>2 DEF StrictSubsetOrdering
        <2> QED
            BY <1>4, <2>1, <2>3
    <1> QED
        BY <1>6

LEMMA StoredSeq ==
    ASSUME TypeOK, NEW d \in Devices
    PROVE  /\ Stored(d) \in Seq(AccountStates) /\ Len(Stored(d)) \in Nat
           /\ \A i \in 1..Len(Stored(d)) : Stored(d)[i] \in AccountStates
    <1>1. Stored(d) \in Seq(AccountStates)
        BY DEF TypeOK, Stored
    <1> QED
        BY <1>1

LEMMA CallFields ==
    ASSUME TypeOK, NEW c \in Calls
    PROVE  /\ call[c] \in CallStates /\ WellFormed(call[c]) /\ DeviceOf[c] \in Devices
    BY SdkAssumption DEF TypeOK

LEMMA IdleCall == Idle \in CallStates /\ WellFormed(Idle) /\ Idle.pc = "idle"
    BY DEF Idle, CallStates, WellFormed

\* The one place of a token that is stored.
LEMMA PlaceOfStored ==
    ASSUME TypeOK, NEW d \in Devices, NEW token, StoredAt(d, token) # {}
    PROVE  LET at == CHOOSE i \in StoredAt(d, token) : TRUE
           IN /\ at \in 1..Len(Stored(d)) /\ Stored(d)[at].token = token
              /\ \A j \in 1..(at - 1) : Stored(d)[j].token # token
    BY DEF StoredAt

LEMMA PlaceIsOne ==
    ASSUME TypeOK, NEW d \in Devices, NEW token, NEW i \in StoredAt(d, token),
           NEW j \in StoredAt(d, token)
    PROVE  i = j
    BY StoredSeq DEF StoredAt

\* What is stored for a token, and where.
LEMMA CurrentFacts ==
    ASSUME TypeOK, StoredStateIsOnChain, NEW d \in Devices, NEW token \in Tokens
    PROVE  /\ Current(d, token) \in AccountStates /\ Current(d, token).token = token
           /\ \/ /\ StoredAt(d, token) = {} /\ Current(d, token).index = Len(Stored(d))
                 /\ Current(d, token).nonce = 0
                 /\ \A i \in 1..Len(Stored(d)) : Stored(d)[i].token # token
              \/ /\ StoredAt(d, token) # {} /\ Current(d, token).index < Len(Stored(d))
                 /\ (CHOOSE i \in StoredAt(d, token) : TRUE) = Current(d, token).index + 1
                 /\ Stored(d)[Current(d, token).index + 1] = Current(d, token)
                 /\ \A j \in 1..Current(d, token).index : Stored(d)[j].token # token
    <1>1. /\ Len(Stored(d)) \in Nat
          /\ \A i \in 1..Len(Stored(d)) : Stored(d)[i] \in AccountStates
        BY StoredSeq
    <1>2. CASE StoredAt(d, token) = {}
        <2>1. Current(d, token) = [index |-> Len(Stored(d)), token |-> token, nonce |-> 0, balance |-> 0]
            BY <1>2 DEF Current, EmptyAccountState
        <2>2. ASSUME NEW i \in 1..Len(Stored(d)), Stored(d)[i].token = token PROVE FALSE
            <3> DEFINE T == {j \in 1..Len(Stored(d)) : Stored(d)[j].token = token}
            <3>1. T \in SUBSET Nat /\ T # {}
                BY <1>1, <2>2
            <3>2. PICK x \in T : \A y \in T : x <= y
                BY <3>1, Least
            <3>3. x \in StoredAt(d, token)
                BY <1>1, <3>2 DEF StoredAt
            <3> QED
                BY <1>2, <3>3
        <2> QED
            BY <1>1, <1>2, <2>1, <2>2 DEF AccountStates
    <1>3. CASE StoredAt(d, token) # {}
        <2> DEFINE at == CHOOSE i \in StoredAt(d, token) : TRUE
        <2>1. /\ at \in 1..Len(Stored(d)) /\ Stored(d)[at].token = token
              /\ \A j \in 1..(at - 1) : Stored(d)[j].token # token
            BY <1>3, PlaceOfStored
        <2>2. Current(d, token) = Stored(d)[at]
            BY <1>3 DEF Current
        <2> HIDE DEF at
        <2>3. Stored(d)[at].index = at - 1 /\ Stored(d)[at] \in AccountStates
            BY <1>1, <2>1 DEF StoredStateIsOnChain
        <2>4. Current(d, token).index = at - 1 /\ Current(d, token).index + 1 = at
            BY <1>1, <2>1, <2>2, <2>3
        <2> QED
            BY <1>1, <1>3, <2>1, <2>2, <2>3, <2>4 DEF at
    <1> QED
        BY <1>2, <1>3

-----------------------------------------------------------------------------
(* What the steps have in common. *)

\* The chain grows, and what clients have seen of it stays.
Grows ==
    /\ log' \in Seq(Events) /\ mined' \in 0..Len(log') /\ mined <= mined'
    /\ \A i \in 1..mined : log'[i] = log[i]

LEMMA SameChain ==
    ASSUME TypeOK, UNCHANGED <<log, mined>>
    PROVE  Grows
    BY DEF TypeOK, Grows

\* A note on chain stays there.
LEMMA OnChainStays ==
    ASSUME TypeOK, Grows, NEW state, OnChain(state)
    PROVE  OnChain(state)'
    <1>1. mined \in Nat /\ mined' \in Nat /\ mined <= mined' /\ \A i \in 1..mined : log'[i] = log[i]
        BY DEF TypeOK, Grows
    <1>2. PICK e \in 1..mined : /\ log[e].account = state.index
                                /\ log[e].nonce + 1 = state.nonce
                                /\ log[e].token = state.token
                                /\ log[e].balance = state.balance
        BY DEF OnChain, Mined
    <1>3. e \in 1..mined' /\ log'[e] = log[e]
        BY <1>1, <1>2
    <1> QED
        BY <1>2, <1>3 DEF OnChain, Mined

LEMMA SameStored ==
    ASSUME NEW d, Stored(d)' = Stored(d), NEW token
    PROVE  StoredAt(d, token)' = StoredAt(d, token) /\ Current(d, token)' = Current(d, token)
    <1>1. StoredAt(d, token)' = StoredAt(d, token)
        BY DEF StoredAt
    <1> QED
        BY <1>1 DEF Current, EmptyAccountState

LEMMA StoredStays ==
    ASSUME TypeOK, StoredStateIsOnChain, Grows, \A d \in Devices : Stored(d)' = Stored(d)
    PROVE  StoredStateIsOnChain'
    <1> SUFFICES ASSUME NEW d \in Devices, NEW i \in 1..Len(Stored(d))
                 PROVE  Stored(d)[i].index = i - 1 /\ OnChain(Stored(d)[i])'
        BY DEF StoredStateIsOnChain, OnChain
    <1>1. Stored(d)[i].index = i - 1 /\ OnChain(Stored(d)[i])
        BY DEF StoredStateIsOnChain, OnChain
    <1> DEFINE state == Stored(d)[i]
    <1>2. state' = state
        OBVIOUS
    <1> QED
        BY <1>1, <1>2, OnChainStays

\* A call that does not work on an account moves on.
LEMMA CallMoves ==
    ASSUME Inv, Grows, NEW c \in Calls, NEW k \in CallStates, WellFormed(k),
           call' = [call EXCEPT ![c] = k], k.pc \notin {"find", "save"},
           storage' \in [Devices -> Seq(AccountStates) \cup {None}],
           \A d \in Devices : Stored(d)' = Stored(d),
           InitOnce', UNCHANGED reported \/ reported' \in [Devices -> Seq(Nat \X Nat)], orphans' \in SUBSET Transactions,
           lock' \in [Devices -> Seq(Calls)],
           \A e \in Calls \ {c} : call[e].pc \in {"find", "save"} => Holds(e)'
    PROVE  Inv'
    <1>1. call'[c] = k /\ \A e \in Calls \ {c} : call'[e] = call[e]
        BY DEF Inv, TypeOK
    <1>2. TypeOK'
        BY <1>1 DEF Inv, TypeOK, Grows
    <1>3. StoredStateIsOnChain'
        BY StoredStays DEF Inv
    <1>4. Exclusive'
        BY <1>1 DEF Exclusive
    <1>5. InStep'
        <2> SUFFICES ASSUME NEW e \in Calls PROVE Working(call[e], DeviceOf[e])'
            BY DEF InStep
        <2>1. CASE e = c
            BY <1>1, <2>1 DEF Working
        <2>2. CASE e # c
            <3>1. PICK r : r = call[e]
                OBVIOUS
            <3>2. PICK d \in Devices : d = DeviceOf[e]
                BY CallFields DEF Inv
            <3>3. call[e] = r /\ call'[e] = r /\ Working(r, d)
                BY <1>1, <2>2, <3>1, <3>2 DEF Inv, InStep
            <3>4. Current(d, r.token)' = Current(d, r.token)
                BY <3>2, SameStored
            <3>5. OnChain(r.state) => OnChain(r.state)'
                BY OnChainStays DEF Inv
            <3>6. Working(r, d)'
                BY <3>3, <3>4, <3>5 DEF Working
            <3> QED
                BY <3>2, <3>3, <3>6
        <2> QED
            BY <2>1, <2>2
    <1> QED
        BY <1>2, <1>3, <1>4, <1>5 DEF Inv

\* Nobody but the holder loses the mutex.
LEMMA LockSteps ==
    ASSUME Inv, NEW c \in Calls, UNCHANGED lock \/ Enqueue(c) \/ (Release(c) /\ Holds(c))
    PROVE  /\ lock' \in [Devices -> Seq(Calls)]
           /\ \A e \in Calls \ {c} : call[e].pc \in {"find", "save"} => Holds(e)'
    <1>0. lock \in [Devices -> Seq(Calls)] /\ DeviceOf \in [Calls -> Devices]
        BY SdkAssumption DEF Inv, TypeOK
    <1>1. \A e \in Calls : call[e].pc \in {"find", "save"} => Holds(e)
        BY DEF Inv, Exclusive
    <1>2. PICK d \in Devices : d = DeviceOf[c]
        BY <1>0
    <1>3. CASE UNCHANGED lock
        BY <1>0, <1>1, <1>3 DEF Holds
    <1>4. CASE Enqueue(c)
        <2>1. lock' = [lock EXCEPT ![d] = Append(lock[d], c)] /\ lock[d] \in Seq(Calls)
            BY <1>0, <1>2, <1>4 DEF Enqueue
        <2>2. lock' \in [Devices -> Seq(Calls)]
            BY <1>0, <2>1
        <2>3. ASSUME NEW e \in Calls, Holds(e) PROVE Holds(e)'
            <3>1. lock[DeviceOf[e]] \in Seq(Calls) /\ lock[DeviceOf[e]] # <<>> /\ Head(lock[DeviceOf[e]]) = e
                BY <1>0, <2>3 DEF Holds
            <3>2. CASE DeviceOf[e] = d
                <4>1. lock'[DeviceOf[e]] = Append(lock[DeviceOf[e]], c)
                    BY <1>0, <2>1, <3>2
                <4>2. Append(lock[DeviceOf[e]], c) # <<>> /\ Head(Append(lock[DeviceOf[e]], c)) = e
                    BY <3>1
                <4> QED
                    BY <4>1, <4>2 DEF Holds
            <3>3. CASE DeviceOf[e] # d
                BY <1>0, <2>1, <3>1, <3>3 DEF Holds
            <3> QED
                BY <3>2, <3>3
        <2> QED
            BY <1>1, <2>2, <2>3
    <1>5. CASE Release(c) /\ Holds(c)
        <2>1. /\ lock' = [lock EXCEPT ![d] = Tail(lock[d])] /\ lock[d] \in Seq(Calls)
              /\ lock[d] # <<>> /\ Head(lock[d]) = c
            BY <1>0, <1>2, <1>5 DEF Release, Holds
        <2>2. lock' \in [Devices -> Seq(Calls)]
            BY <1>0, <2>1
        <2>3. ASSUME NEW e \in Calls, e # c, Holds(e) PROVE Holds(e)'
            <3>1. DeviceOf[e] # d
                BY <2>1, <2>3 DEF Holds
            <3> QED
                BY <1>0, <2>1, <2>3, <3>1 DEF Holds
        <2> QED
            BY <1>1, <2>2, <2>3
    <1> QED
        BY <1>3, <1>4, <1>5

\* The same, where no storage is written.
LEMMA CallGoes ==
    ASSUME Inv, Grows, NEW c \in Calls, NEW k \in CallStates, WellFormed(k),
           call' = [call EXCEPT ![c] = k], k.pc \notin {"find", "save"},
           k.pc = "init" => storage[DeviceOf[c]] = None,
           UNCHANGED storage, UNCHANGED reported \/ reported' \in [Devices -> Seq(Nat \X Nat)], orphans' \in SUBSET Transactions,
           UNCHANGED lock \/ Enqueue(c) \/ (Release(c) /\ Holds(c))
    PROVE  Inv'
    <1>1. call'[c] = k /\ \A e \in Calls \ {c} : call'[e] = call[e]
        BY DEF Inv, TypeOK
    <1>2. InitOnce'
        BY <1>1 DEF Inv, InitOnce
    <1>3. \A d \in Devices : Stored(d)' = Stored(d)
        BY DEF Stored
    <1>4. /\ lock' \in [Devices -> Seq(Calls)]
          /\ \A e \in Calls \ {c} : call[e].pc \in {"find", "save"} => Holds(e)'
        BY LockSteps
    <1>5. storage' \in [Devices -> Seq(AccountStates) \cup {None}]
        BY DEF Inv, TypeOK
    <1> QED
        BY <1>2, <1>3, <1>4, <1>5, CallMoves

-----------------------------------------------------------------------------
(* Each action keeps the invariant. *)

LEMMA Counts ==
    ASSUME TypeOK, NEW account
    PROVE  Cardinality(EventsOf(account)) \in Nat /\ MinedCount(account) \in Nat
    <1>1. IsFiniteSet(1..Len(log)) /\ EventsOf(account) \in SUBSET (1..Len(log))
        BY FS_Interval DEF TypeOK, EventsOf
    <1>2. IsFiniteSet(EventsOf(account))
        BY <1>1, FS_Subset
    <1>3. (EventsOf(account) \cap Mined) \in SUBSET EventsOf(account)
        OBVIOUS
    <1>4. IsFiniteSet(EventsOf(account) \cap Mined)
        BY <1>2, <1>3, FS_Subset
    <1> QED
        BY <1>2, <1>4, FS_CardinalityType DEF MinedCount

LEMMA Appended ==
    ASSUME TypeOK, NEW tx, tx.account \in Nat \cup {Stranger}, tx.nonce \in Nat, tx.token \in Tokens,
           tx.balance \in Int, log' = Append(log, Event(tx)), UNCHANGED mined
    PROVE  Grows
    <1>1. log \in Seq(Events) /\ Len(log) \in Nat /\ mined \in 0..Len(log)
        BY DEF TypeOK
    <1>2. CurrentBlock \in Nat
        <2>1. CASE log = <<>>
            BY <2>1 DEF CurrentBlock
        <2>2. CASE log # <<>>
            <3>1. log[Len(log)] \in Events
                BY <1>1, <2>2
            <3> QED
                BY <2>2, <3>1 DEF CurrentBlock, Events
        <2> QED
            BY <2>1, <2>2
    <1>3. Event(tx) \in Events
        BY <1>2 DEF Event, Events
    <1> QED
        BY <1>1, <1>3 DEF Grows

LEMMA Sent ==
    ASSUME TypeOK, NEW c \in Calls, call[c].pc = "send"
    PROVE  TxOf(c) \in Transactions
    <1>1. call[c].state \in AccountStates
        BY CallFields DEF WellFormed
    <1>2. Change(call[c].op) \in Int
        BY DEF Change
    <1> QED
        BY <1>1, <1>2 DEF TxOf, Transactions, AccountStates

\* A call moves on with what it has.
LEMMA Moved ==
    ASSUME TypeOK, NEW c \in Calls, NEW pc,
           pc \in {"create", "receipt", "probe", "synced", "load", "find"},
           Goto(c, pc)
    PROVE  LET k == [call[c] EXCEPT !.pc = pc]
           IN /\ k \in CallStates /\ k.pc = pc /\ k.token = call[c].token /\ k.state = call[c].state
              /\ call' = [call EXCEPT ![c] = k]
    <1>1. call[c] \in CallStates
        BY CallFields
    <1> QED
        BY <1>1 DEF Goto, CallStates, TypeOK

LEMMA StartKeeps ==
    ASSUME Inv, NEW c \in Calls, NEW op, NEW token, Start(c, op, token),
           \/ op \in {"shield", "withdraw"} /\ token \in Tokens
           \/ op = "sync" /\ token = None
    PROVE  Inv'
    <1> DEFINE start == IF op = "sync" THEN ChainNow ELSE None
               pc == IF storage[DeviceOf[c]] = None THEN "init"
                     ELSE IF op = "sync" THEN "next" ELSE "read"
               k == [Idle EXCEPT !.op = op, !.token = token, !.start = start, !.pc = pc]
    <1>1. /\ call[c].pc = "idle" /\ call' = [call EXCEPT ![c] = k]
          /\ UNCHANGED <<log, mined, orphans, storage, lock, reported>>
        BY DEF Start
    <1>2. start \in [0..(MaxEvents - 1) -> Nat] \cup {None}
        BY Counts DEF ChainNow, Inv
    <1> HIDE DEF start
    <1>3. k \in CallStates /\ k.pc = pc /\ k.token = token /\ k.op = op
        BY <1>2 DEF CallStates, Idle
    <1> HIDE DEF k
    <1>4. WellFormed(k) /\ (k.pc = "init" => storage[DeviceOf[c]] = None) /\ k.pc \notin {"find", "save"}
        BY <1>3 DEF WellFormed
    <1>5. orphans' \in SUBSET Transactions /\ Grows
        BY <1>1, SameChain DEF Inv, TypeOK
    <1> QED
        BY <1>1, <1>3, <1>4, <1>5, CallGoes

\* A call that ends.
LEMMA ThrowKeeps ==
    ASSUME Inv, Grows, NEW c \in Calls, Throw(c), UNCHANGED storage,
           UNCHANGED reported \/ reported' \in [Devices -> Seq(Nat \X Nat)], orphans' \in SUBSET Transactions,
           UNCHANGED lock \/ (Release(c) /\ Holds(c))
    PROVE  Inv'
    BY IdleCall, CallGoes DEF Throw, Return

LEMMA InitKeeps ==
    ASSUME Inv, StorageFoundOrOneCall, NEW c \in Calls, InitStorage(c)
    PROVE  Inv'
    <1>1. /\ call[c].pc = "init" /\ storage' = [storage EXCEPT ![DeviceOf[c]] = <<>>]
          /\ UNCHANGED <<log, mined, orphans, lock, reported>>
        BY DEF InitStorage
    <1>2. TypeOK /\ call[c] \in CallStates /\ WellFormed(call[c]) /\ DeviceOf[c] \in Devices
          /\ storage[DeviceOf[c]] = None
        BY <1>1, CallFields DEF Inv, InitOnce
    <1>3. PICK k \in CallStates : /\ WellFormed(k) /\ call' = [call EXCEPT ![c] = k]
                                 /\ k.pc \in {"idle", "create", "probe"}
        <2>1. CASE call[c].op = "sync" /\ Goto(c, "probe")
            BY <1>2, <2>1, Moved DEF WellFormed
        <2>2. CASE call[c].op = "shield" /\ Goto(c, "create")
            BY <1>1, <1>2, <2>2, Moved DEF WellFormed
        <2>3. CASE call[c].op = "withdraw" /\ Throw(c)
            BY <2>3, IdleCall DEF Throw, Return
        <2> QED
            BY <2>1, <2>2, <2>3 DEF InitStorage
    <1>4. storage' \in [Devices -> Seq(AccountStates) \cup {None}]
        BY <1>1, <1>2 DEF TypeOK
    <1>5. ASSUME NEW d \in Devices PROVE Stored(d)' = Stored(d)
        BY <1>1, <1>2 DEF Stored, TypeOK
    <1>6. call'[c] = k /\ \A e \in Calls \ {c} : call'[e] = call[e]
        BY <1>3 DEF Inv, TypeOK
    <1>7. InitOnce'
        <2>1. ~Initialized
            BY <1>2 DEF Inv, InitOnce
        <2>2. ASSUME NEW e \in Calls, call'[e].pc = "init" PROVE storage'[DeviceOf[e]] = None
            <3>1. e # c
                BY <1>3, <1>6, <2>2
            <3>2. DeviceOf[e] # DeviceOf[c]
                BY <2>1, <3>1 DEF StorageFoundOrOneCall
            <3>3. DeviceOf[e] \in Devices /\ storage[DeviceOf[e]] = None
                BY <1>6, <2>2, <3>1, CallFields DEF Inv, InitOnce
            <3> QED
                BY <1>1, <3>2, <3>3 DEF Inv, TypeOK
        <2> QED
            BY <2>1, <2>2 DEF InitOnce
    <1>8. /\ lock' \in [Devices -> Seq(Calls)]
          /\ \A e \in Calls \ {c} : call[e].pc \in {"find", "save"} => Holds(e)'
        BY <1>1, LockSteps
    <1>9. orphans' \in SUBSET Transactions /\ Grows
        BY <1>1, SameChain DEF Inv, TypeOK
    <1>10. k.pc \notin {"find", "save"} /\ call[c].pc # "save" /\ UNCHANGED reported
        BY <1>1, <1>3
    <1> QED
        BY <1>3, <1>4, <1>5, <1>7, <1>8, <1>9, <1>10, CallMoves

\* What the registry answers for a token.
LEMMA Answered ==
    ASSUME Inv, NEW d \in Devices, NEW token \in Tokens
    PROVE  /\ AccountState(d, token) \in AccountStates \cup {None}
           /\ Current(d, token) = IF AccountState(d, token) # None THEN AccountState(d, token)
                                  ELSE EmptyAccountState(d, token)
           /\ Current(d, token) \in AccountStates
           /\ EmptyAccountState(d, token) \in AccountStates
    <1>1. EmptyAccountState(d, token) \in AccountStates
        BY StoredSeq DEF Inv, EmptyAccountState, AccountStates
    <1>2. CASE StoredAt(d, token) = {}
        BY <1>1, <1>2 DEF AccountState, Current
    <1>3. CASE StoredAt(d, token) # {}
        <2>1. Current(d, token) = AccountState(d, token) /\ Current(d, token) \in AccountStates
            BY <1>3, CurrentFacts DEF Inv, Current, AccountState
        <2> QED
            BY <1>1, <2>1, SdkAssumption
    <1> QED
        BY <1>2, <1>3

\* Before the transaction of a call is sent.
LEMMA BeforeSending ==
    ASSUME Inv, NEW c \in Calls, Read(c) \/ Create(c)
    PROVE  Inv'
    <1>0. TypeOK /\ call[c] \in CallStates /\ WellFormed(call[c]) /\ DeviceOf[c] \in Devices
        BY CallFields DEF Inv
    <1>1. /\ call[c].pc \in {"read", "create"}
          /\ UNCHANGED <<log, mined, orphans, storage, lock, reported>>
        BY DEF Read, Create
    <1>2. call[c].token \in Tokens /\ orphans' \in SUBSET Transactions /\ Grows
        BY <1>0, <1>1, SameChain DEF WellFormed, TypeOK
    <1>3. ASSUME NEW state \in AccountStates,
                 call' = [call EXCEPT ![c].pc = "send", ![c].state = state]
          PROVE  Inv'
        <2> DEFINE k == [call[c] EXCEPT !.pc = "send", !.state = state]
        <2>1. k \in CallStates /\ k.pc = "send" /\ k.token = call[c].token /\ k.state = state
            BY <1>0 DEF CallStates
        <2>2. call' = [call EXCEPT ![c] = k]
            BY <1>0, <1>3 DEF TypeOK, CallStates
        <2> HIDE DEF k
        <2>3. WellFormed(k)
            BY <1>2, <2>1 DEF WellFormed
        <2> QED
            BY <1>1, <1>2, <2>1, <2>2, <2>3, CallGoes
    <1>4. ASSUME Goto(c, "create") PROVE Inv'
        <2> DEFINE k == [call[c] EXCEPT !.pc = "create"]
        <2>1. /\ k \in CallStates /\ k.pc = "create" /\ k.token = call[c].token
              /\ call' = [call EXCEPT ![c] = k]
            BY <1>0, <1>4, Moved
        <2> HIDE DEF k
        <2>2. WellFormed(k)
            BY <1>2, <2>1 DEF WellFormed
        <2> QED
            BY <1>1, <1>2, <2>1, <2>2, CallGoes
    <1>5. CASE Read(c)
        <2> DEFINE state == AccountState(DeviceOf[c], call[c].token)
        <2>1. state \in AccountStates \cup {None}
            BY <1>0, <1>2, Answered
        <2>2. \/ Goto(c, "create") \/ Throw(c)
              \/ state # None /\ call' = [call EXCEPT ![c].pc = "send", ![c].state = state]
            BY <1>5 DEF Read
        <2> HIDE DEF state
        <2> QED
            BY <1>1, <1>2, <1>3, <1>4, <2>1, <2>2, ThrowKeeps
    <1>6. CASE Create(c)
        BY <1>0, <1>2, <1>3, <1>6, Answered DEF Create
    <1> QED
        BY <1>5, <1>6

\* The transaction of a call is sent, and waited for.
LEMMA Sending ==
    ASSUME Inv, NEW c \in Calls, Include(c) \/ GiveUp(c) \/ Receipt(c) \/ Synced(c)
    PROVE  Inv'
    <1>0. TypeOK /\ call[c] \in CallStates /\ WellFormed(call[c]) /\ DeviceOf[c] \in Devices
          /\ orphans \in SUBSET Transactions
        BY CallFields DEF Inv, TypeOK
    <1>1. CASE Include(c)
        <2>1. call[c].pc = "send" /\ UNCHANGED <<mined, orphans, storage, lock, reported>>
            BY <1>1 DEF Include
        <2>2. CASE log' = Append(log, Event(TxOf(c))) /\ Goto(c, "receipt")
            <3> DEFINE k == [call[c] EXCEPT !.pc = "receipt"]
            <3>1. /\ k \in CallStates /\ k.pc = "receipt" /\ k.token = call[c].token
                  /\ k.state = call[c].state /\ call' = [call EXCEPT ![c] = k]
                BY <1>0, <2>2, Moved
            <3> HIDE DEF k
            <3>2. WellFormed(k)
                BY <1>0, <2>1, <3>1 DEF WellFormed
            <3>3. Grows
                <4>1. TxOf(c) \in Transactions
                    BY <1>0, <2>1, Sent
                <4> QED
                    BY <1>0, <2>1, <2>2, <4>1, Appended DEF Transactions
            <3> QED
                BY <1>0, <2>1, <3>1, <3>2, <3>3, CallGoes
        <2>3. CASE Throw(c) /\ UNCHANGED log
            BY <1>0, <2>1, <2>3, SameChain, ThrowKeeps
        <2> QED
            BY <1>1, <2>2, <2>3 DEF Include
    <1>2. CASE GiveUp(c)
        <2>1. /\ call[c].pc \in {"send", "receipt"} /\ Throw(c)
              /\ UNCHANGED <<log, mined, storage, lock, reported>>
            BY <1>2 DEF GiveUp
        <2>2. orphans' \in SUBSET Transactions
            BY <1>0, <1>2, Sent DEF GiveUp
        <2> QED
            BY <1>0, <2>1, <2>2, SameChain, ThrowKeeps
    <1>3. CASE Receipt(c)
        <2> DEFINE k == [call[c] EXCEPT !.pc = "load"]
        <2>1. /\ call[c].pc = "receipt" /\ Enqueue(c) /\ Goto(c, "load")
              /\ UNCHANGED <<log, mined, orphans, storage, reported>>
            BY <1>3 DEF Receipt
        <2>2. /\ k \in CallStates /\ k.pc = "load" /\ k.token = call[c].token
              /\ call' = [call EXCEPT ![c] = k]
            BY <1>0, <2>1, Moved
        <2> HIDE DEF k
        <2>3. WellFormed(k)
            BY <1>0, <2>1, <2>2 DEF WellFormed
        <2> QED
            BY <1>0, <2>1, <2>2, <2>3, SameChain, CallGoes
    <1>4. CASE Synced(c)
        <2>1. /\ call[c].pc = "synced" /\ Throw(c)
              /\ UNCHANGED <<log, mined, orphans, storage, lock, reported>>
            BY <1>4 DEF Synced, Throw
        <2> QED
            BY <1>0, <2>1, SameChain, ThrowKeeps
    <1> QED
        BY <1>1, <1>2, <1>3, <1>4

\* syncShielder goes to the next account.
LEMMA NextKeeps ==
    ASSUME Inv, NEW c \in Calls, NextAccount(c) \/ Probe(c)
    PROVE  Inv'
    <1>0. TypeOK /\ call[c] \in CallStates /\ WellFormed(call[c]) /\ DeviceOf[c] \in Devices
          /\ orphans \in SUBSET Transactions
        BY CallFields DEF Inv, TypeOK
    <1>1. call[c].pc \in {"next", "probe"} /\ UNCHANGED <<log, mined, orphans, storage, reported>>
        BY DEF NextAccount, Probe
    <1>2. ASSUME NEW token \in Tokens, SyncNext(c, token) PROVE Inv'
        <2> DEFINE k == [call[c] EXCEPT !.pc = "load", !.cursor = @ + 1, !.token = token]
        <2>1. k \in CallStates /\ k.pc = "load" /\ k.token = token
            <3>1. call[c].cursor + 1 \in Nat
                BY <1>0 DEF CallStates
            <3>2. k = [call[c] EXCEPT !.pc = "load", !.cursor = call[c].cursor + 1, !.token = token]
                BY <1>0 DEF CallStates
            <3> QED
                BY <1>0, <3>1, <3>2 DEF CallStates
        <2>2. call' = [call EXCEPT ![c] = k] /\ Enqueue(c)
            BY <1>0, <1>2 DEF SyncNext, TypeOK, CallStates
        <2> HIDE DEF k
        <2>3. WellFormed(k)
            BY <2>1 DEF WellFormed
        <2> QED
            BY <1>0, <1>1, <2>1, <2>2, <2>3, SameChain, CallGoes
    <1>3. ASSUME NEW pc \in {"probe", "synced"}, Goto(c, pc), UNCHANGED lock PROVE Inv'
        <2> DEFINE k == [call[c] EXCEPT !.pc = pc]
        <2>1. k \in CallStates /\ k.pc = pc /\ call' = [call EXCEPT ![c] = k]
            BY <1>0, <1>3, Moved
        <2> HIDE DEF k
        <2>2. WellFormed(k)
            BY <2>1 DEF WellFormed
        <2> QED
            BY <1>0, <1>1, <1>3, <2>1, <2>2, SameChain, CallGoes
    <1>4. CASE NextAccount(c)
        <2> DEFINE accounts == Stored(DeviceOf[c])
        <2>1. Len(accounts) \in Nat /\ \A i \in 1..Len(accounts) : accounts[i] \in AccountStates
            BY <1>0, StoredSeq
        <2>2. \/ call[c].cursor < Len(accounts) /\ SyncNext(c, accounts[call[c].cursor + 1].token)
              \/ Goto(c, "probe") /\ UNCHANGED lock
            BY <1>4 DEF NextAccount
        <2> HIDE DEF accounts
        <2>3. ASSUME call[c].cursor < Len(accounts) PROVE accounts[call[c].cursor + 1].token \in Tokens
            <3>1. call[c].cursor + 1 \in 1..Len(accounts)
                BY <1>0, <2>1, <2>3 DEF CallStates
            <3> QED
                BY <2>1, <3>1 DEF AccountStates
        <2>4. CASE call[c].cursor < Len(accounts) /\ SyncNext(c, accounts[call[c].cursor + 1].token)
            <3>1. PICK token \in Tokens : token = accounts[call[c].cursor + 1].token
                BY <2>3, <2>4
            <3>2. SyncNext(c, token)
                BY <2>4, <3>1 DEF SyncNext
            <3> QED
                BY <1>2, <3>2
        <2>5. CASE Goto(c, "probe") /\ UNCHANGED lock
            BY <1>3, <2>5
        <2> QED
            BY <2>2, <2>4, <2>5
    <1>5. CASE Probe(c)
        <2>1. ASSUME NEW i \in Mined PROVE log[i].token \in Tokens
            <3>1. i \in 1..Len(log) /\ log \in Seq(Events)
                BY <1>0 DEF TypeOK, Mined
            <3>2. log[i] \in Events
                BY <3>1
            <3> QED
                BY <3>2 DEF Events
        <2>2. \/ Goto(c, "synced") /\ UNCHANGED lock
              \/ \E i \in Mined : SyncNext(c, log[i].token)
            BY <1>5 DEF Probe
        <2>3. ASSUME NEW i \in Mined, SyncNext(c, log[i].token) PROVE Inv'
            <3>1. PICK token \in Tokens : token = log[i].token
                BY <2>1
            <3>2. SyncNext(c, token)
                BY <2>3, <3>1 DEF SyncNext
            <3> QED
                BY <1>2, <3>2
        <2>4. CASE Goto(c, "synced") /\ UNCHANGED lock
            BY <1>3, <2>4
        <2> QED
            BY <2>2, <2>3, <2>4
    <1> QED
        BY <1>4, <1>5

\* Two holders of one mutex are one.
LEMMA OneHolder ==
    ASSUME NEW c \in Calls, NEW e \in Calls, DeviceOf[c] = DeviceOf[e], Holds(c), Holds(e)
    PROVE  c = e
    BY DEF Holds

\* The holder goes on with its account.
LEMMA WorkMoves ==
    ASSUME Inv, NEW c \in Calls, NEW k \in CallStates, WellFormed(k),
           call' = [call EXCEPT ![c] = k], k.pc \in {"find", "save"},
           Holds(c), Working(k, DeviceOf[c]),
           UNCHANGED <<log, mined, orphans, storage, lock>>,
           reported' \in [Devices -> Seq(Nat \X Nat)]
    PROVE  Inv'
    <1>1. call'[c] = k /\ \A e \in Calls \ {c} : call'[e] = call[e]
        BY DEF Inv, TypeOK
    <1>2. TypeOK'
        BY <1>1 DEF Inv, TypeOK
    <1>3. StoredStateIsOnChain'
        BY DEF Inv, StoredStateIsOnChain, Stored, Mined
    <1>4. Exclusive'
        BY <1>1 DEF Inv, Exclusive, Holds
    <1>5. InStep'
        <2> SUFFICES ASSUME NEW e \in Calls PROVE Working(call[e], DeviceOf[e])'
            BY DEF InStep
        <2>1. PICK r : r = call'[e]
            OBVIOUS
        <2>2. PICK d : d = DeviceOf[e]
            OBVIOUS
        <2>3. Working(r, d)
            BY <1>1, <2>1, <2>2 DEF Inv, InStep
        <2>4. Current(d, r.token)' = Current(d, r.token)
            BY SameStored DEF Stored
        <2>5. OnChain(r.state)' <=> OnChain(r.state)
            BY DEF OnChain, Mined
        <2>6. Working(r, d)'
            BY <2>3, <2>4, <2>5 DEF Working
        <2> QED
            BY <2>1, <2>2, <2>6
    <1>6. InitOnce'
        BY <1>1 DEF Inv, InitOnce
    <1> QED
        BY <1>2, <1>3, <1>4, <1>5, <1>6 DEF Inv

LEMMA LoadKeeps ==
    ASSUME Inv, NEW c \in Calls, Load(c)
    PROVE  Inv'
    <1> DEFINE k == [call[c] EXCEPT !.pc = "find", !.state = Current(DeviceOf[c], call[c].token)]
    <1>0. /\ TypeOK /\ call[c] \in CallStates /\ WellFormed(call[c]) /\ DeviceOf[c] \in Devices
          /\ call \in [Calls -> CallStates]
        BY CallFields DEF Inv, TypeOK
    <1>1. call[c].pc = "load" /\ Holds(c) /\ UNCHANGED <<log, mined, orphans, storage, lock, reported>>
        BY DEF Load
    <1>2. call[c].token \in Tokens
        BY <1>0, <1>1 DEF WellFormed
    <1>3. Current(DeviceOf[c], call[c].token) \in AccountStates
        BY <1>0, <1>2, Answered
    <1>4. call' = [call EXCEPT ![c] = k]
        <2> DEFINE existing == AccountState(DeviceOf[c], call[c].token)
                   empty == EmptyAccountState(DeviceOf[c], call[c].token)
        <2>1. Current(DeviceOf[c], call[c].token) = IF existing # None THEN existing ELSE empty
            BY <1>0, <1>2, Answered
        <2>2. call' = [call EXCEPT ![c].pc = "find", ![c].state = IF existing # None THEN existing ELSE empty]
            BY DEF Load
        <2> HIDE DEF existing, empty
        <2> QED
            BY <1>0, <2>1, <2>2 DEF CallStates
    <1>5. /\ k \in CallStates /\ k.pc = "find" /\ k.token = call[c].token
          /\ k.state = Current(DeviceOf[c], call[c].token)
        BY <1>0, <1>3 DEF CallStates
    <1> HIDE DEF k
    <1>6. WellFormed(k) /\ Working(k, DeviceOf[c])
        BY <1>2, <1>3, <1>5 DEF WellFormed, Working
    <1>7. reported' \in [Devices -> Seq(Nat \X Nat)]
        BY <1>0, <1>1 DEF TypeOK
    <1> QED
        BY <1>1, <1>4, <1>5, <1>6, <1>7, WorkMoves

\* The state that an event of the same token leads to is on chain.
LEMMA NewStateOnChain ==
    ASSUME TypeOK, NEW state \in AccountStates, Successor(state) # {}, ~TokenMismatch(state)
    PROVE  /\ NewState(state) \in AccountStates /\ OnChain(NewState(state))
           /\ NewState(state).index = state.index /\ NewState(state).token = state.token
           /\ NewState(state).nonce = state.nonce + 1
    <1> DEFINE e == CHOOSE i \in Successor(state) : TRUE
    <1>1. e \in Successor(state)
        OBVIOUS
    <1>2. NewState(state) = [state EXCEPT !.nonce = state.nonce + 1, !.balance = log[e].balance]
        BY DEF NewState, AccountStates
    <1> HIDE DEF e
    <1>3. e \in Mined /\ log[e].account = state.index /\ log[e].nonce = state.nonce
        BY <1>1 DEF Successor
    <1>4. log[e].token = state.token
        BY <1>1, <1>3 DEF TokenMismatch, BlockEvents
    <1>5. log[e].balance \in Int
        <2>1. e \in 1..Len(log) /\ log \in Seq(Events)
            BY <1>3 DEF TypeOK, Mined
        <2>2. log[e] \in Events
            BY <2>1
        <2> QED
            BY <2>2 DEF Events
    <1>6. /\ NewState(state) \in AccountStates /\ NewState(state).index = state.index
          /\ NewState(state).token = state.token /\ NewState(state).nonce = state.nonce + 1
          /\ NewState(state).balance = log[e].balance
        <2>1. state.nonce + 1 \in Nat
            BY DEF AccountStates
        <2> QED
            BY <1>2, <1>5, <2>1 DEF AccountStates
    <1> QED
        BY <1>3, <1>4, <1>6 DEF OnChain

LEMMA FindKeeps ==
    ASSUME Inv, NEW c \in Calls, Find(c)
    PROVE  Inv'
    <1>0. /\ TypeOK /\ call[c] \in CallStates /\ WellFormed(call[c]) /\ DeviceOf[c] \in Devices
          /\ call \in [Calls -> CallStates] /\ orphans \in SUBSET Transactions
        BY CallFields DEF Inv, TypeOK
    <1>1. /\ call[c].pc = "find" /\ Holds(c) /\ UNCHANGED <<log, mined, orphans, storage>> /\ Grows
        BY <1>0, SameChain DEF Find, Inv, Exclusive
    <1>2. CASE Throw(c) /\ Release(c) /\ UNCHANGED reported
        BY <1>0, <1>1, <1>2, ThrowKeeps
    <1>3. CASE /\ call' = [call EXCEPT ![c].pc = "next", ![c].token = None, ![c].state = None]
               /\ Release(c) /\ UNCHANGED reported
        <2> DEFINE k == [call[c] EXCEPT !.pc = "next", !.token = None, !.state = None]
        <2>1. k \in CallStates /\ k.pc = "next" /\ call' = [call EXCEPT ![c] = k]
            BY <1>0, <1>3 DEF CallStates
        <2> HIDE DEF k
        <2>2. WellFormed(k)
            BY <2>1 DEF WellFormed
        <2> QED
            BY <1>0, <1>1, <1>3, <2>1, <2>2, CallGoes
    <1>4. CASE /\ Successor(call[c].state) # {} /\ ~TokenMismatch(call[c].state)
               /\ reported' = [reported EXCEPT ![DeviceOf[c]] =
                                 Append(@, <<call[c].state.index, call[c].state.nonce>>)]
               /\ call' = [call EXCEPT ![c].pc = "save", ![c].state = NewState(call[c].state)]
               /\ UNCHANGED lock
        <2>1. PICK state \in AccountStates : state = call[c].state
            BY <1>0, <1>1 DEF WellFormed
        <2>2. PICK d \in Devices : d = DeviceOf[c]
            BY <1>0
        <2> DEFINE new == NewState(state)
                   k == [call[c] EXCEPT !.pc = "save", !.state = new]
                   tx == <<state.index, state.nonce>>
        <2>3. /\ new \in AccountStates /\ OnChain(new) /\ new.index = state.index
              /\ new.token = state.token /\ new.nonce = state.nonce + 1
            BY <1>0, <1>4, <2>1, NewStateOnChain
        <2>4. state.nonce \in Nat /\ tx \in Nat \X Nat /\ tx[1] = state.index /\ tx[2] = state.nonce
            BY <2>1 DEF AccountStates
        <2>5. reported' = [reported EXCEPT ![d] = Append(reported[d], tx)] /\ reported[d] \in Seq(Nat \X Nat)
              /\ reported \in [Devices -> Seq(Nat \X Nat)]
            BY <1>0, <1>4, <2>1, <2>2 DEF TypeOK
        <2>6. state = Current(d, call[c].token) /\ call[c].token \in Tokens
              /\ Current(d, call[c].token).token = call[c].token
            BY <1>0, <1>1, <2>1, <2>2, CurrentFacts DEF Inv, InStep, Working, WellFormed
        <2>7. call' = [call EXCEPT ![c] = k] /\ k \in CallStates /\ k.pc = "save"
              /\ k.token = call[c].token /\ k.state = new
            <3> HIDE DEF new
            <3>1. call' = [call EXCEPT ![c].pc = "save", ![c].state = new]
                BY <1>4, <2>1 DEF new
            <3> QED
                BY <1>0, <2>3, <3>1 DEF CallStates
        <2> HIDE DEF new, k, tx
        <2>8. WellFormed(k) /\ Working(k, DeviceOf[c])
            BY <2>2, <2>3, <2>6, <2>7 DEF WellFormed, Working
        <2>9. reported' \in [Devices -> Seq(Nat \X Nat)]
            BY <2>4, <2>5
        <2> QED
            BY <1>1, <1>4, <2>7, <2>8, <2>9, WorkMoves
    <1> QED
        BY <1>2, <1>3, <1>4 DEF Find, Fail, Throw

\* A state is written in its place, and the others stay.
LEMMA Updated ==
    ASSUME TypeOK, StoredStateIsOnChain, NEW d \in Devices, NEW token \in Tokens,
           NEW state \in AccountStates, state.index = Current(d, token).index, state.token = token
    PROVE  LET S == Stored(d)
               T == UpdatedStorage(d, token, state)
               n == state.index + 1
           IN /\ T \in Seq(AccountStates) /\ Len(S) \in Nat /\ Len(T) \in Nat /\ Len(S) <= Len(T)
              /\ n \in 1..Len(T) /\ T[n] = state
              /\ n <= Len(S) => S[n] = Current(d, token)
              /\ n > Len(S) => n = Len(S) + 1 /\ Len(T) = n
              /\ n <= Len(S) => Len(T) = Len(S)
              /\ \A i \in 1..Len(T) : i # n => i \in 1..Len(S) /\ T[i] = S[i]
              /\ \A j \in 1..(n - 1) : T[j].token # token
    <1> DEFINE S == Stored(d)
               T == UpdatedStorage(d, token, state)
               n == state.index + 1
               at == IF StoredAt(d, token) = {} THEN Len(S) + 1
                     ELSE CHOOSE i \in StoredAt(d, token) : TRUE
    <1>1. /\ S \in Seq(AccountStates) /\ Len(S) \in Nat /\ state.index \in Nat
        BY StoredSeq DEF AccountStates
    <1>2. n \in Nat \ {0} /\ n - 1 = state.index /\ n = Current(d, token).index + 1
        BY <1>1
    <1>3. /\ at = n
          /\ \/ n = Len(S) + 1 /\ \A i \in 1..Len(S) : S[i].token # token
             \/ /\ n \in 1..Len(S) /\ S[n] = Current(d, token)
                /\ \A j \in 1..(n - 1) : S[j].token # token
        <2>1. CASE StoredAt(d, token) = {}
            <3>1. /\ Current(d, token).index = Len(S)
                  /\ \A i \in 1..Len(S) : S[i].token # token
                BY <2>1, CurrentFacts
            <3> QED
                BY <1>1, <1>2, <2>1, <3>1
        <2>2. CASE StoredAt(d, token) # {}
            <3>1. /\ Current(d, token).index < Len(S)
                  /\ at = Current(d, token).index + 1
                  /\ S[Current(d, token).index + 1] = Current(d, token)
                  /\ \A j \in 1..Current(d, token).index : S[j].token # token
                BY <2>2, CurrentFacts
            <3> HIDE DEF S, at
            <3> QED
                BY <1>1, <1>2, <3>1
        <2> QED
            BY <2>1, <2>2
    <1>4. [state EXCEPT !.index = at - 1] = state
        <2> HIDE DEF n, at
        <2>1. at - 1 = state.index
            BY <1>2, <1>3
        <2> QED
            BY <2>1 DEF AccountStates
    <1>5. T = IF at = Len(S) + 1 THEN Append(S, state) ELSE [S EXCEPT ![at] = state]
        BY <1>4 DEF UpdatedStorage
    <1> HIDE DEF S, T, n, at
    <1>6. CASE n = Len(S) + 1
        <2>1. T = Append(S, state) /\ \A i \in 1..Len(S) : S[i].token # token
            BY <1>1, <1>3, <1>5, <1>6
        <2>2. /\ T \in Seq(AccountStates) /\ Len(T) = n /\ T[n] = state
              /\ \A i \in 1..Len(S) : T[i] = S[i]
            BY <1>1, <1>6, <2>1
        <2>3. ASSUME NEW j \in 1..(n - 1) PROVE T[j].token # token
            <3>1. j \in 1..Len(S)
                BY <1>1, <1>6
            <3> QED
                BY <2>1, <2>2, <3>1
        <2>4. /\ n \in 1..Len(T) /\ Len(S) <= Len(T) /\ Len(T) \in Nat /\ n > Len(S)
              /\ \A i \in 1..Len(T) : i # n => i \in 1..Len(S)
            BY <1>1, <1>6, <2>2
        <2> QED
            BY <1>1, <1>6, <2>1, <2>2, <2>3, <2>4 DEF S, T, n
    <1>7. CASE n # Len(S) + 1
        <2>1. /\ T = [S EXCEPT ![n] = state] /\ n \in 1..Len(S) /\ S[n] = Current(d, token)
              /\ \A j \in 1..(n - 1) : S[j].token # token
            BY <1>1, <1>3, <1>5, <1>7
        <2>2. /\ T \in Seq(AccountStates) /\ Len(T) = Len(S) /\ T[n] = state
              /\ \A i \in 1..Len(S) : i # n => T[i] = S[i]
            BY <1>1, <2>1
        <2>3. ASSUME NEW j \in 1..(n - 1) PROVE T[j].token # token
            <3>1. j \in 1..Len(S) /\ j # n
                BY <1>1, <1>2, <2>1
            <3> QED
                BY <2>1, <2>2, <3>1
        <2>4. n <= Len(S) /\ n \in 1..Len(T) /\ Len(S) <= Len(T) /\ Len(T) \in Nat
            BY <1>1, <2>1, <2>2
        <2> QED
            BY <1>1, <2>1, <2>2, <2>3, <2>4 DEF S, T, n
    <1> QED
        BY <1>6, <1>7

\* The state of a call is written: what is stored, and what the call works on then.
LEMMA Saved ==
    ASSUME Inv, NEW c \in Calls, Save(c), NEW d, d = DeviceOf[c],
           NEW state, state = call[c].state, NEW token, token = call[c].token
    PROVE  /\ d \in Devices /\ state \in AccountStates /\ token \in Tokens /\ Holds(c)
           /\ state.index = Current(d, token).index /\ state.token = token
           /\ state.nonce = Current(d, token).nonce + 1 /\ OnChain(state)
           /\ Stored(d)' = UpdatedStorage(d, token, state)
           /\ storage' \in [Devices -> Seq(AccountStates) \cup {None}] /\ storage'[d] # None
           /\ \A b \in Devices \ {d} : Stored(b)' = Stored(b) /\ storage'[b] = storage[b]
           /\ Current(d, token)' = state
    <1>1. /\ TypeOK /\ StoredStateIsOnChain /\ d \in Devices /\ state \in AccountStates
          /\ token \in Tokens /\ Holds(c) /\ call[c].pc = "save"
        BY CallFields DEF Inv, Save, WellFormed, Exclusive
    <1>2. /\ state.index = Current(d, token).index /\ state.token = token
          /\ state.nonce = Current(d, token).nonce + 1 /\ OnChain(state)
        BY <1>1 DEF Inv, InStep, Working
    <1> DEFINE T == UpdatedStorage(d, token, state)
               n == state.index + 1
    <1>3. /\ T \in Seq(AccountStates) /\ Len(T) \in Nat /\ n \in 1..Len(T) /\ T[n] = state
          /\ \A j \in 1..(n - 1) : T[j].token # token
        BY <1>1, <1>2, Updated
    <1>4. storage' = [storage EXCEPT ![d] = T]
        BY DEF Save
    <1> HIDE DEF T, n
    <1>5. /\ storage' \in [Devices -> Seq(AccountStates) \cup {None}] /\ storage'[d] = T
          /\ T # None /\ \A b \in Devices \ {d} : storage'[b] = storage[b]
        BY <1>1, <1>3, <1>4, SdkAssumption DEF TypeOK
    <1>6. Stored(d)' = T /\ \A b \in Devices \ {d} : Stored(b)' = Stored(b)
        BY <1>5 DEF Stored
    <1>7. Current(d, token)' = state
        <2>1. StoredAt(d, token)' = {i \in 1..Len(T) : T[i].token = token /\ \A j \in 1..(i - 1) : T[j].token # token}
            BY <1>6 DEF StoredAt
        <2>2. n \in StoredAt(d, token)'
            BY <1>2, <1>3, <2>1
        <2>3. ASSUME NEW i \in StoredAt(d, token)' PROVE i = n
            <3>1. i \in 1..Len(T) /\ T[i].token = token /\ \A j \in 1..(i - 1) : T[j].token # token
                BY <2>1, <2>3
            <3>2. CASE i < n
                BY <1>3, <3>1, <3>2
            <3>3. CASE n < i
                BY <1>2, <1>3, <3>1, <3>3
            <3> QED
                BY <1>3, <3>1, <3>2, <3>3
        <2>4. (CHOOSE i \in StoredAt(d, token)' : TRUE) = n
            BY <2>2, <2>3
        <2>5. Current(d, token)' = T[CHOOSE i \in StoredAt(d, token)' : TRUE]
            BY <1>6, <2>2 DEF Current
        <2> QED
            BY <1>3, <2>4, <2>5
    <1> QED
        BY <1>1, <1>2, <1>5, <1>6, <1>7 DEF T

LEMMA SaveKeeps ==
    ASSUME Inv, StorageFoundOrOneCall, NEW c \in Calls, Save(c)
    PROVE  Inv'
    <1> PICK d : d = DeviceOf[c]
        OBVIOUS
    <1> PICK state : state = call[c].state
        OBVIOUS
    <1> PICK token : token = call[c].token
        OBVIOUS
    <1>0. /\ TypeOK /\ call[c] \in CallStates /\ call \in [Calls -> CallStates]
          /\ StoredStateIsOnChain /\ reported \in [Devices -> Seq(Nat \X Nat)]
        BY CallFields DEF Inv, TypeOK
    <1>1. /\ call[c].pc = "save" /\ Goto(c, "find") /\ UNCHANGED <<log, mined, orphans, lock, reported>>
        BY DEF Save
    <1>2. /\ d \in Devices /\ state \in AccountStates /\ token \in Tokens /\ Holds(c)
          /\ state.index = Current(d, token).index /\ state.token = token
          /\ state.nonce = Current(d, token).nonce + 1 /\ OnChain(state)
          /\ Stored(d)' = UpdatedStorage(d, token, state)
          /\ storage' \in [Devices -> Seq(AccountStates) \cup {None}] /\ storage'[d] # None
          /\ \A b \in Devices \ {d} : Stored(b)' = Stored(b) /\ storage'[b] = storage[b]
          /\ Current(d, token)' = state
        BY Saved
    <1> DEFINE S == Stored(d)
               T == UpdatedStorage(d, token, state)
               n == state.index + 1
               k == [call[c] EXCEPT !.pc = "find"]
    <1>3. /\ Len(S) \in Nat /\ Len(T) \in Nat /\ Len(S) <= Len(T)
          /\ n \in 1..Len(T) /\ T[n] = state
          /\ n <= Len(S) => S[n] = Current(d, token)
          /\ \A i \in 1..Len(T) : i # n => i \in 1..Len(S) /\ T[i] = S[i]
        BY <1>0, <1>2, Updated
    <1>4. /\ k \in CallStates /\ k.pc = "find" /\ k.token = token /\ k.state = state
          /\ call' = [call EXCEPT ![c] = k]
        BY <1>0, <1>1, Moved
    <1> HIDE DEF S, T, n, k
    <1>5. call'[c] = k /\ \A e \in Calls \ {c} : call'[e] = call[e]
        BY <1>0, <1>4
    <1>6. TypeOK'
        <2>1. WellFormed(k)
            BY <1>2, <1>4 DEF WellFormed
        <2>2. \A e \in Calls : WellFormed(call'[e])
            BY <1>0, <1>5, <2>1 DEF TypeOK
        <2> QED
            BY <1>0, <1>1, <1>2, <1>4, <2>2 DEF TypeOK
    <1>7. ASSUME NEW e \in Calls \ {c}, call[e].pc \in {"find", "save"} PROVE DeviceOf[e] # d
        BY <1>2, <1>7, OneHolder DEF Inv, Exclusive
    <1>8. StoredStateIsOnChain'
        <2> SUFFICES ASSUME NEW b \in Devices, NEW i \in 1..Len(Stored(b)')
                     PROVE  (Stored(b)')[i].index = i - 1 /\ OnChain((Stored(b)')[i])
            BY <1>1 DEF StoredStateIsOnChain, OnChain, Mined
        <2>1. CASE b # d
            <3>1. Stored(b)' = Stored(b)
                BY <1>2, <2>1
            <3>2. i \in 1..Len(Stored(b))
                BY <3>1
            <3>3. Stored(b)[i].index = i - 1 /\ OnChain(Stored(b)[i])
                BY <1>0, <3>2 DEF StoredStateIsOnChain, OnChain
            <3> QED
                BY <3>1, <3>3
        <2>2. CASE b = d
            <3>1. Stored(b)' = T
                BY <1>2, <2>2 DEF T
            <3>2. CASE i = n
                <4>1. state.index = n - 1
                    BY <1>2 DEF n, AccountStates
                <4> QED
                    BY <1>2, <1>3, <3>1, <3>2, <4>1
            <3>3. CASE i # n
                <4>1. i \in 1..Len(S) /\ T[i] = S[i]
                    BY <1>3, <3>1, <3>3
                <4>2. S[i].index = i - 1 /\ OnChain(S[i])
                    BY <1>0, <1>2, <4>1 DEF StoredStateIsOnChain, OnChain, S
                <4> QED
                    BY <3>1, <4>1, <4>2
            <3> QED
                BY <3>2, <3>3
        <2> QED
            BY <2>1, <2>2
    <1>9. Exclusive'
        BY <1>1, <1>2, <1>5 DEF Inv, Exclusive, Holds
    <1>10. InStep'
        <2> SUFFICES ASSUME NEW e \in Calls PROVE Working(call[e], DeviceOf[e])'
            BY DEF InStep
        <2>1. CASE e = c
            <3>1. PICK r : r = call'[c]
                OBVIOUS
            <3>2. r.pc = "find" /\ r.token = token /\ r.state = state
                BY <1>4, <1>5, <3>1
            <3>3. Working(r, d)'
                BY <1>2, <3>2 DEF Working
            <3> QED
                BY <2>1, <3>1, <3>3
        <2>2. CASE e # c /\ call[e].pc \notin {"find", "save"}
            BY <1>5, <2>2 DEF Working
        <2>3. CASE e # c /\ call[e].pc \in {"find", "save"}
            <3>1. PICK r : r = call[e]
                OBVIOUS
            <3>2. PICK b \in Devices : b = DeviceOf[e]
                BY <1>0, CallFields
            <3>3. Stored(b)' = Stored(b) /\ call'[e] = r
                BY <1>2, <1>5, <1>7, <2>3, <3>1, <3>2
            <3>4. Current(b, r.token)' = Current(b, r.token)
                BY <3>3, SameStored
            <3>5. OnChain(r.state)' <=> OnChain(r.state)
                BY <1>1 DEF OnChain, Mined
            <3>6. Working(r, b)
                BY <3>1, <3>2 DEF Inv, InStep
            <3>7. Working(r, b)'
                BY <3>4, <3>5, <3>6 DEF Working
            <3> QED
                BY <3>2, <3>3, <3>7
        <2> QED
            BY <2>1, <2>2, <2>3
    <1>11. InitOnce'
        <2>1. Initialized => \A b \in Devices : storage'[b] # None
            BY <1>2 DEF Inv, InitOnce
        <2>2. ASSUME NEW e \in Calls, call'[e].pc = "init" PROVE storage'[DeviceOf[e]] = None
            <3>1. e # c
                BY <1>4, <1>5, <2>2
            <3>2. DeviceOf[e] \in Devices /\ storage[DeviceOf[e]] = None
                BY <1>0, <1>5, <2>2, <3>1, CallFields DEF Inv, InitOnce
            <3>3. ~Initialized
                BY <3>2 DEF Inv, InitOnce
            <3>4. DeviceOf[e] # d
                BY <3>1, <3>3 DEF StorageFoundOrOneCall
            <3> QED
                BY <1>2, <3>2, <3>4
        <2> QED
            BY <2>1, <2>2 DEF InitOnce
    <1> QED
        BY <1>6, <1>8, <1>9, <1>10, <1>11 DEF Inv

\* A step of the chain, which no device sees before it asks.
LEMMA ChainMoves ==
    ASSUME Inv, Grows, UNCHANGED <<storage, lock, call, reported>>, orphans' \in SUBSET Transactions
    PROVE  Inv'
    <1>1. \A d : Stored(d)' = Stored(d)
        BY DEF Stored
    <1>2. TypeOK'
        BY DEF Inv, TypeOK, Grows
    <1>3. StoredStateIsOnChain'
        BY <1>1, StoredStays DEF Inv
    <1>4. InStep'
        <2> SUFFICES ASSUME NEW e \in Calls PROVE Working(call[e], DeviceOf[e])'
            BY DEF InStep
        <2>1. PICK r : r = call[e]
            OBVIOUS
        <2>2. PICK d : d = DeviceOf[e]
            OBVIOUS
        <2>3. Working(r, d)
            BY <2>1, <2>2 DEF Inv, InStep
        <2>4. Current(d, r.token)' = Current(d, r.token)
            BY <1>1, SameStored
        <2>5. OnChain(r.state) => OnChain(r.state)'
            BY OnChainStays DEF Inv
        <2>6. Working(r, d)'
            BY <2>3, <2>4, <2>5 DEF Working
        <2> QED
            BY <2>1, <2>2, <2>6
    <1>5. Exclusive' /\ InitOnce'
        BY DEF Inv, Exclusive, Holds, InitOnce
    <1> QED
        BY <1>2, <1>3, <1>4, <1>5 DEF Inv

LEMMA ChainKeeps ==
    ASSUME Inv,
           \/ SealBlock
           \/ \E token \in Tokens : StrangerEvent(token)
           \/ \E tx \in orphans : IncludeOrphan(tx)
    PROVE  Inv'
    <1>0. TypeOK /\ orphans \in SUBSET Transactions /\ Len(log) \in Nat /\ mined \in 0..Len(log)
          /\ log \in Seq(Events)
        BY DEF Inv, TypeOK
    <1>1. CASE SealBlock
        <2>1. Grows
            BY <1>0, <1>1 DEF SealBlock, Grows
        <2> QED
            BY <1>0, <1>1, <2>1, ChainMoves DEF SealBlock
    <1>2. ASSUME NEW token \in Tokens, StrangerEvent(token) PROVE Inv'
        <2> DEFINE tx == [account |-> Stranger, nonce |-> Cardinality(EventsOf(Stranger)),
                          token |-> token, balance |-> 1]
        <2>1. /\ tx.account = Stranger /\ tx.nonce \in Nat /\ tx.token \in Tokens /\ tx.balance \in Int
            BY <1>0, Counts
        <2>2. log' = Append(log, Event(tx)) /\ UNCHANGED <<mined, orphans, storage, lock, call, reported>>
            BY <1>2 DEF StrangerEvent
        <2> HIDE DEF tx
        <2>3. PICK t : t = tx
            OBVIOUS
        <2>4. Grows
            BY <1>0, <2>1, <2>2, <2>3, Appended
        <2> QED
            BY <1>0, <2>2, <2>4, ChainMoves
    <1>3. ASSUME NEW tx \in orphans, IncludeOrphan(tx) PROVE Inv'
        <2>1. tx \in Transactions /\ orphans' \in SUBSET Transactions
              /\ UNCHANGED <<mined, storage, lock, call, reported>>
            BY <1>0, <1>3 DEF IncludeOrphan
        <2>2. CASE log' = Append(log, Event(tx))
            <3>1. Grows
                BY <1>0, <2>1, <2>2, Appended DEF Transactions
            <3> QED
                BY <2>1, <3>1, ChainMoves
        <2>3. CASE UNCHANGED log
            BY <1>0, <2>1, <2>3, SameChain, ChainMoves
        <2> QED
            BY <1>3, <2>2, <2>3 DEF IncludeOrphan
    <1> QED
        BY <1>1, <1>2, <1>3

\* A report that goes unsaved is the last one.
LEMMA UnsavedType ==
    ASSUME TypeOK, NEW d \in Devices, Unsaved(d)
    PROVE  reported' \in [Devices -> Seq(Nat \X Nat)]
    <1>1. /\ reported \in [Devices -> Seq(Nat \X Nat)] /\ reported[d] \in Seq(Nat \X Nat)
          /\ reported' = [reported EXCEPT ![d] = SubSeq(reported[d], 1, Len(reported[d]) - 1)]
        BY DEF TypeOK, Unsaved
    <1>2. SubSeq(reported[d], 1, Len(reported[d]) - 1) \in Seq(Nat \X Nat)
        BY <1>1
    <1> QED
        BY <1>1, <1>2

\* A call whose storage, node or callback fails leaves the storage as it is.
LEMMA RejectedKeeps ==
    ASSUME Inv, NEW c \in Calls, Rejected(c)
    PROVE  Inv'
    <1>0. TypeOK /\ DeviceOf[c] \in Devices /\ orphans \in SUBSET Transactions
        BY CallFields DEF Inv, TypeOK
    <1>1. Throw(c) /\ UNCHANGED <<log, mined, orphans, storage>> /\ Grows
        BY <1>0, SameChain DEF Rejected, Fail
    <1>2. UNCHANGED lock \/ (Release(c) /\ Holds(c))
        BY DEF Rejected, Fail, Inv, Exclusive
    <1>3. UNCHANGED reported \/ reported' \in [Devices -> Seq(Nat \X Nat)]
        BY <1>0, UnsavedType DEF Rejected
    <1> QED
        BY <1>0, <1>1, <1>2, <1>3, ThrowKeeps

\* A device that stops forgets its calls.
LEMMA CrashKeeps ==
    ASSUME Inv, NEW device \in Devices, Crash(device)
    PROVE  Inv'
    <1> DEFINE mine == {c \in Calls : DeviceOf[c] = device}
    <1>0. /\ TypeOK /\ orphans \in SUBSET Transactions /\ call \in [Calls -> CallStates]
          /\ lock \in [Devices -> Seq(Calls)] /\ reported \in [Devices -> Seq(Nat \X Nat)]
          /\ storage \in [Devices -> Seq(AccountStates) \cup {None}]
          /\ \A c \in Calls : WellFormed(call[c])
        BY DEF Inv, TypeOK
    <1>1. /\ call' = [c \in Calls |-> IF c \in mine THEN Idle ELSE call[c]]
          /\ lock' = [lock EXCEPT ![device] = <<>>]
          /\ orphans' = orphans \cup {TxOf(c) : c \in {d \in mine : call[d].pc = "send" /\ Sendable(d)}}
          /\ Unsaved(device) \/ UNCHANGED reported
          /\ UNCHANGED <<log, mined, storage>>
        BY DEF Crash
    <1>2. \A c \in Calls : call'[c] = IF DeviceOf[c] = device THEN Idle ELSE call[c]
        BY <1>1
    <1>3. /\ lock'[device] = <<>> /\ \A b \in Devices \ {device} : lock'[b] = lock[b]
          /\ lock' \in [Devices -> Seq(Calls)]
        BY <1>0, <1>1
    <1>4. reported' \in [Devices -> Seq(Nat \X Nat)]
        BY <1>0, <1>1, UnsavedType
    <1>5. orphans' \in SUBSET Transactions
        <2>1. ASSUME NEW c \in Calls, call[c].pc = "send" PROVE TxOf(c) \in Transactions
            BY <1>0, <2>1, Sent
        <2> QED
            BY <1>0, <1>1, <2>1
    <1> HIDE DEF mine
    <1>6. \A d : Stored(d)' = Stored(d)
        BY <1>1 DEF Stored
    <1>7. Grows
        BY <1>0, <1>1, SameChain
    <1>8. TypeOK'
        <2>1. call' \in [Calls -> CallStates]
            <3>1. call' = [c \in Calls |-> call'[c]]
                BY <1>1
            <3>2. \A c \in Calls : call'[c] \in CallStates
                BY <1>0, <1>2, IdleCall
            <3> QED
                BY <3>1, <3>2
        <2>2. \A c \in Calls : WellFormed(call'[c])
            BY <1>0, <1>2, IdleCall
        <2> QED
            BY <1>0, <1>1, <1>3, <1>4, <1>5, <2>1, <2>2 DEF TypeOK
    <1>9. StoredStateIsOnChain'
        BY <1>0, <1>6, <1>7, StoredStays DEF Inv
    <1>10. ASSUME NEW e \in Calls, call'[e].pc # "idle"
           PROVE  DeviceOf[e] \in Devices \ {device} /\ call'[e] = call[e]
        BY <1>0, <1>2, <1>10, IdleCall, CallFields
    <1>11. Exclusive'
        <2> SUFFICES ASSUME NEW e \in Calls, call'[e].pc \in {"find", "save"} PROVE Holds(e)'
            BY DEF Exclusive
        <2>1. DeviceOf[e] \in Devices \ {device} /\ call'[e] = call[e]
            BY <1>10
        <2>2. Holds(e)
            BY <2>1 DEF Inv, Exclusive
        <2> QED
            BY <1>3, <2>1, <2>2 DEF Holds
    <1>12. InStep'
        <2> SUFFICES ASSUME NEW e \in Calls PROVE Working(call[e], DeviceOf[e])'
            BY DEF InStep
        <2>1. CASE call'[e].pc = "idle"
            BY <2>1 DEF Working
        <2>2. CASE call'[e].pc # "idle"
            <3>1. PICK r : r = call[e]
                OBVIOUS
            <3>2. PICK d : d = DeviceOf[e]
                OBVIOUS
            <3>3. Working(r, d) /\ call'[e] = r
                BY <1>10, <2>2, <3>1, <3>2 DEF Inv, InStep
            <3>4. Current(d, r.token)' = Current(d, r.token)
                BY <1>6, SameStored
            <3>5. OnChain(r.state) => OnChain(r.state)'
                BY <1>0, <1>7, OnChainStays
            <3>6. Working(r, d)'
                BY <3>3, <3>4, <3>5 DEF Working
            <3> QED
                BY <3>2, <3>3, <3>6
        <2> QED
            BY <2>1, <2>2
    <1>13. InitOnce'
        BY <1>1, <1>10 DEF Inv, InitOnce
    <1> QED
        BY <1>8, <1>9, <1>11, <1>12, <1>13 DEF Inv

-----------------------------------------------------------------------------
(* The theorems. *)

LEMMA InitInv == Init => Inv
    <1> SUFFICES ASSUME Init PROVE Inv
        OBVIOUS
    <1>1. /\ log = <<>> /\ mined = 0 /\ orphans = {}
          /\ storage = [d \in Devices |-> IF Initialized THEN <<>> ELSE None]
          /\ lock = [d \in Devices |-> <<>>] /\ call = [c \in Calls |-> Idle]
          /\ reported = [d \in Devices |-> <<>>]
        BY DEF Init
    <1>2. TypeOK
        BY <1>1, IdleCall DEF TypeOK
    <1>3. \A d \in Devices : Stored(d) = <<>> /\ reported[d] = <<>>
        BY <1>1 DEF Stored
    <1>4. \A c \in Calls : call[c].pc = "idle"
        BY <1>1, IdleCall
    <1>5. InitOnce
        <2>1. <<>> # None
            <3>1. <<>> \in Seq(AccountStates)
                OBVIOUS
            <3> QED
                BY <3>1, SdkAssumption
        <2> QED
            BY <1>1, <1>4, <2>1 DEF InitOnce
    <1> QED
        BY <1>2, <1>3, <1>4, <1>5 DEF Inv, StoredStateIsOnChain, Exclusive, InStep, Working

\* Every step keeps the invariant.
LEMMA NextInv ==
    ASSUME Inv, StorageFoundOrOneCall, [Next]_vars
    PROVE  Inv'
    <1>1. ASSUME NEW c \in Calls, NEW token \in Tokens, NEW op \in {"shield", "withdraw"}, Start(c, op, token)
          PROVE  Inv'
        BY <1>1, StartKeeps
    <1>2. ASSUME NEW c \in Calls, Start(c, "sync", None) PROVE Inv'
        BY <1>2, StartKeeps
    <1>3. ASSUME NEW c \in Calls, Step(c) \/ GiveUp(c) \/ Rejected(c) PROVE Inv'
        BY <1>3, InitKeeps, BeforeSending, Sending, NextKeeps, LoadKeeps, FindKeeps, SaveKeeps,
           RejectedKeeps DEF Step
    <1>4. CASE SealBlock \/ (\E token \in Tokens : StrangerEvent(token))
               \/ \E tx \in orphans : IncludeOrphan(tx)
        BY <1>4, ChainKeeps
    <1>5. CASE \E device \in Devices : Crash(device)
        BY <1>5, CrashKeeps
    <1>6. CASE UNCHANGED vars
        <2>1. Grows /\ orphans' \in SUBSET Transactions
            BY <1>6, SameChain DEF vars, Inv, TypeOK
        <2> QED
            BY <1>6, <2>1, ChainMoves DEF vars
    <1> QED
        BY <1>1, <1>2, <1>3, <1>4, <1>5, <1>6 DEF Next

LEMMA Invariance ==
    ASSUME StorageFoundOrOneCall
    PROVE  Spec => []Inv
    <1>1. Init => Inv
        BY InitInv
    <1>2. Inv /\ [Next]_vars => Inv'
        BY NextInv
    <1> QED
        BY <1>1, <1>2, PTL DEF Spec

\* Whatever calls of however many devices do, and wherever one of them stops, what a device
\* stores of an account is a note of it on chain.
THEOREM StorageIsOnChain ==
    ASSUME StorageFoundOrOneCall
    PROVE  Spec => []StoredStateIsOnChain
    <1>1. Inv => StoredStateIsOnChain
        BY DEF Inv
    <1> QED
        BY <1>1, Invariance, PTL

-----------------------------------------------------------------------------
(* What was reported. *)

\* The transactions up to the stored states, and the one that a call has reported and not
\* saved yet.
Kept(d, r) == \E i \in 1..Len(Stored(d)) : \E n \in 0..(Stored(d)[i].nonce - 1) : r = <<i - 1, n>>
Pending(c) == <<call[c].state.index, call[c].state.nonce - 1>>
Saving(c, d) == DeviceOf[c] = d /\ call[c].pc = "save"

Told(d, r) == \E k \in 1..Len(reported[d]) : reported[d][k] = r
Distinct(d) == \A i, j \in 1..Len(reported[d]) : i # j => reported[d][i] # reported[d][j]

\* The reports are those of the stored transactions, and last that of a call about to save.
ReportsAre(d) ==
    /\ Distinct(d)
    /\ (\A c \in Calls : ~Saving(c, d)) => \A r : Told(d, r) <=> Kept(d, r)
    /\ \A c \in Calls : Saving(c, d) =>
          /\ reported[d] # <<>> /\ reported[d][Len(reported[d])] = Pending(c)
          /\ ~Kept(d, Pending(c))
          /\ \A r : Told(d, r) <=> Kept(d, r) \/ r = Pending(c)

ReportInv == \A d \in Devices : ReportsAre(d)

\* Nothing happens at a device that its reports depend on.
Quiet(d) ==
    /\ reported'[d] = reported[d] /\ Stored(d)' = Stored(d)
    /\ \A c \in Calls : DeviceOf[c] = d /\ "save" \in {call[c].pc, call'[c].pc} => call'[c] = call[c]

LEMMA QuietReports ==
    ASSUME NEW d, ReportsAre(d), Quiet(d)
    PROVE  ReportsAre(d)'
    <1>1. reported'[d] = reported[d] /\ Stored(d)' = Stored(d)
        BY DEF Quiet
    <1>2. Distinct(d)' /\ \A r : (Told(d, r)' <=> Told(d, r)) /\ (Kept(d, r)' <=> Kept(d, r))
        BY <1>1 DEF ReportsAre, Distinct, Told, Kept
    <1>3. ASSUME NEW c \in Calls
          PROVE  /\ Saving(c, d)' <=> Saving(c, d)
                 /\ Saving(c, d) => Pending(c)' = Pending(c)
        BY DEF Quiet, Saving, Pending
    <1>4. (\A c \in Calls : ~Saving(c, d)') => \A r : Told(d, r)' <=> Kept(d, r)'
        BY <1>2, <1>3 DEF ReportsAre
    <1>5. ASSUME NEW c \in Calls, Saving(c, d)'
          PROVE  /\ reported'[d] # <<>> /\ reported'[d][Len(reported'[d])] = Pending(c)'
                 /\ ~Kept(d, Pending(c))'
                 /\ \A r : Told(d, r)' <=> Kept(d, r)' \/ r = Pending(c)'
        <2>1. PICK p : p = Pending(c)
            OBVIOUS
        <2>2. Saving(c, d) /\ Pending(c)' = p
            BY <1>3, <1>5, <2>1
        <2>3. /\ reported[d] # <<>> /\ reported[d][Len(reported[d])] = p /\ ~Kept(d, p)
              /\ \A r : Told(d, r) <=> Kept(d, r) \/ r = p
            BY <2>1, <2>2 DEF ReportsAre
        <2>4. ~Kept(d, p)'
            BY <1>2, <2>3
        <2> QED
            BY <1>1, <1>2, <2>2, <2>3, <2>4
    <1> QED
        BY <1>2, <1>4, <1>5 DEF ReportsAre

\* A report and the transactions it may be of.
LEMMA KeptBelow ==
    ASSUME TypeOK, NEW d \in Devices, NEW i \in Nat, NEW n \in Nat
    PROVE  Kept(d, <<i, n>>) <=> i < Len(Stored(d)) /\ n < Stored(d)[i + 1].nonce
    <1>1. Len(Stored(d)) \in Nat /\ \A j \in 1..Len(Stored(d)) : Stored(d)[j].nonce \in Nat
        BY StoredSeq DEF AccountStates
    <1>2. ASSUME Kept(d, <<i, n>>) PROVE i < Len(Stored(d)) /\ n < Stored(d)[i + 1].nonce
        <2>1. PICK j \in 1..Len(Stored(d)) :
                 \E m \in 0..(Stored(d)[j].nonce - 1) : <<i, n>> = <<j - 1, m>>
            BY <1>2 DEF Kept
        <2>2. i = j - 1 /\ n \in 0..(Stored(d)[j].nonce - 1)
            BY <2>1
        <2>3. j = i + 1
            BY <1>1, <2>1, <2>2
        <2> QED
            BY <1>1, <2>1, <2>2, <2>3
    <1>3. ASSUME i < Len(Stored(d)), n < Stored(d)[i + 1].nonce PROVE Kept(d, <<i, n>>)
        <2>1. /\ i + 1 \in 1..Len(Stored(d)) /\ (i + 1) - 1 = i
            BY <1>1, <1>3
        <2>2. n \in 0..(Stored(d)[i + 1].nonce - 1)
            BY <1>1, <1>3, <2>1
        <2> QED
            BY <2>1, <2>2 DEF Kept
    <1> QED
        BY <1>2, <1>3

\* What is found from the stored state is not stored.
LEMMA NextNotKept ==
    ASSUME TypeOK, StoredStateIsOnChain, NEW d \in Devices, NEW token \in Tokens,
           NEW state, state = Current(d, token)
    PROVE  ~Kept(d, <<state.index, state.nonce>>)
    <1>1. /\ state \in AccountStates /\ Len(Stored(d)) \in Nat
          /\ state.index = Len(Stored(d)) \/ Stored(d)[state.index + 1] = state
        BY CurrentFacts, StoredSeq
    <1>2. state.index \in Nat /\ state.nonce \in Nat
        BY <1>1 DEF AccountStates
    <1> QED
        BY <1>1, <1>2, KeptBelow

\* One report more.
IsOneMore(A, R, tx, n) ==
    /\ Len(A) = n + 1 /\ A[n + 1] = tx /\ A # <<>>
    /\ \A i \in 1..n : A[i] = R[i]

\* Append makes one more.
LEMMA OneMore ==
    ASSUME NEW R \in Seq(Nat \X Nat), NEW tx \in Nat \X Nat, NEW n \in Nat, n = Len(R)
    PROVE  IsOneMore(Append(R, tx), R, tx, n)
    BY DEF IsOneMore

\* The callback is called: by the holder of the mutex, for a transaction that is not stored.
LEMMA ReportMade ==
    ASSUME Inv, ReportInv, NEW c \in Calls, call[c].pc = "find", NEW state, state = call[c].state,
           state \in AccountStates,
           NEW new \in AccountStates, new.index = state.index, new.nonce = state.nonce + 1,
           NEW d \in Devices, d = DeviceOf[c],
           reported'[d] = Append(reported[d], <<state.index, state.nonce>>),
           call'[c].pc = "save", call'[c].state = new,
           \A e \in Calls \ {c} : call'[e] = call[e], UNCHANGED storage
    PROVE  ReportsAre(d)'
    <1>1. /\ TypeOK /\ StoredStateIsOnChain /\ Holds(c) /\ call[c].token \in Tokens
          /\ state = Current(d, call[c].token)
        BY CallFields DEF Inv, Exclusive, InStep, Working, WellFormed
    <1>2. PICK tx : tx = <<state.index, state.nonce>>
        OBVIOUS
    <1>3. state.index \in Nat /\ state.nonce \in Nat /\ tx \in Nat \X Nat
        BY <1>2 DEF AccountStates
    <1>4. ~Kept(d, tx)
        BY <1>1, <1>2, NextNotKept
    <1>5. \A e \in Calls : ~Saving(e, d)
        BY <1>1, OneHolder DEF Saving, Inv, Exclusive
    <1>6. Distinct(d) /\ \A r : Told(d, r) <=> Kept(d, r)
        BY <1>5 DEF ReportInv, ReportsAre
    <1>7. PICK R \in Seq(Nat \X Nat) : R = reported[d]
        BY <1>1 DEF TypeOK
    <1>8. reported'[d] = Append(R, tx)
        BY <1>1, <1>2, <1>7 DEF TypeOK
    <1>9. PICK n \in Nat : n = Len(R)
        BY <1>7
    <1>10. /\ Len(Append(R, tx)) = n + 1 /\ Append(R, tx)[n + 1] = tx /\ Append(R, tx) # <<>>
           /\ \A i \in 1..n : Append(R, tx)[i] = R[i]
        <2>1. tx \in Nat \X Nat /\ n = Len(R)
            BY <1>3, <1>9
        <2>2. IsOneMore(Append(R, tx), R, tx, n)
            BY <2>1, OneMore
        <2> QED
            BY <2>2, Zenon DEF IsOneMore
    <1>11. n + 1 \in 1..(n + 1) /\ \A i \in 1..(n + 1) : i # n + 1 => i \in 1..n
        BY <1>9
    <1>12. Distinct(d)'
        <2>1. \A i, j \in 1..n : i # j => R[i] # R[j]
            BY <1>6, <1>7, <1>9 DEF Distinct
        <2>2. \A i \in 1..n : R[i] # tx
            BY <1>4, <1>6, <1>7, <1>9 DEF Told
        <2>3. PICK A : A = Append(R, tx)
            OBVIOUS
        <2>4. /\ Len(A) = n + 1 /\ A[n + 1] = tx /\ \A i \in 1..n : A[i] = R[i]
            BY <1>10, <2>3
        <2>5. ASSUME NEW i \in 1..(n + 1), NEW j \in 1..(n + 1), i # j PROVE A[i] # A[j]
            BY <1>11, <2>1, <2>2, <2>4, <2>5
        <2>6. reported'[d] = A
            BY <1>8, <2>3
        <2>7. ASSUME NEW i \in 1..Len(A), NEW j \in 1..Len(A), i # j PROVE A[i] # A[j]
            <3>1. i \in 1..(n + 1) /\ j \in 1..(n + 1)
                BY <2>4
            <3> QED
                BY <2>5, <2>7, <3>1
        <2>8. Distinct(d)' <=> \A i, j \in 1..Len(A) : i # j => A[i] # A[j]
            BY <2>6 DEF Distinct
        <2> QED
            BY <2>7, <2>8, Zenon
    <1>13. ASSUME NEW r PROVE Told(d, r)' <=> Kept(d, r)' \/ r = tx
        <2>1. Kept(d, r)' <=> Kept(d, r)
            BY DEF Kept, Stored
        <2>2. Told(d, r)' <=> \E k \in 1..(n + 1) : Append(R, tx)[k] = r
            BY <1>8, <1>10 DEF Told
        <2>3. Told(d, r) <=> \E k \in 1..n : R[k] = r
            BY <1>7, <1>9 DEF Told
        <2>4. (\E k \in 1..(n + 1) : Append(R, tx)[k] = r) <=> (\E k \in 1..n : R[k] = r) \/ r = tx
            <3>1. 1..n \subseteq 1..(n + 1)
                BY <1>9
            <3> QED
                BY <1>10, <1>11, <3>1
        <2> QED
            BY <1>6, <2>1, <2>2, <2>3, <2>4
    <1>14. Pending(c)' = tx /\ ~Kept(d, tx)'
        <2>1. new.nonce - 1 = state.nonce
            BY <1>3
        <2> QED
            BY <1>2, <1>4, <2>1 DEF Pending, Kept, Stored
    <1>15. \A e \in Calls : Saving(e, d)' => e = c
        BY <1>5 DEF Saving
    <1>16. \E e \in Calls : Saving(e, d)'
        BY DEF Saving
    <1>17. ASSUME NEW e \in Calls, Saving(e, d)'
           PROVE  /\ reported'[d] # <<>> /\ reported'[d][Len(reported'[d])] = Pending(e)'
                  /\ ~Kept(d, Pending(e))'
                  /\ \A r : Told(d, r)' <=> Kept(d, r)' \/ r = Pending(e)'
        <2>1. e = c /\ Pending(e)' = tx
            BY <1>14, <1>15, <1>17
        <2> QED
            BY <1>8, <1>10, <1>13, <1>14, <2>1
    <1> QED
        BY <1>12, <1>16, <1>17 DEF ReportsAre

\* The save adds to what is stored the transaction that was reported last.
LEMMA ReportSaved ==
    ASSUME Inv, Inv', ReportInv, NEW c \in Calls, Save(c), NEW d, d = DeviceOf[c]
    PROVE  ReportsAre(d)'
    <1> PICK state : state = call[c].state
        OBVIOUS
    <1> PICK token : token = call[c].token
        OBVIOUS
    <1>0. /\ TypeOK /\ TypeOK' /\ StoredStateIsOnChain /\ call[c].pc = "save" /\ Goto(c, "find")
          /\ UNCHANGED reported
        BY DEF Inv, Save
    <1>1. /\ d \in Devices /\ state \in AccountStates /\ token \in Tokens /\ Holds(c)
          /\ state.index = Current(d, token).index /\ state.token = token
          /\ state.nonce = Current(d, token).nonce + 1
          /\ Stored(d)' = UpdatedStorage(d, token, state)
        BY Saved
    <1> DEFINE S == Stored(d)
               T == UpdatedStorage(d, token, state)
               n == state.index + 1
    <1>2. /\ Len(S) \in Nat /\ Len(T) \in Nat /\ Len(S) <= Len(T)
          /\ n \in 1..Len(T) /\ T[n] = state
          /\ n <= Len(S) => S[n] = Current(d, token)
          /\ n > Len(S) => n = Len(S) + 1
          /\ \A i \in 1..Len(T) : i # n => i \in 1..Len(S) /\ T[i] = S[i]
        BY <1>0, <1>1, Updated
    <1>3. /\ state.index \in Nat /\ state.nonce \in Nat /\ Current(d, token).nonce \in Nat
          /\ Current(d, token).nonce = state.nonce - 1
        BY <1>0, <1>1, CurrentFacts DEF AccountStates
    <1>4. n > Len(S) => Current(d, token).nonce = 0
        <2>1. \/ Current(d, token).nonce = 0
              \/ Current(d, token).index < Len(S)
            BY <1>0, <1>1, CurrentFacts
        <2> QED
            BY <1>1, <1>2, <1>3, <2>1
    <1> HIDE DEF S, T, n
    <1>5. \A i \in 1..Len(S) : S[i].nonce \in Nat
        BY <1>0, <1>1, StoredSeq DEF S, AccountStates
    <1>6. Pending(c) = <<n - 1, state.nonce - 1>>
        BY <1>3 DEF Pending, n
    <1>7. ASSUME NEW r PROVE Kept(d, r)' <=> Kept(d, r) \/ r = <<n - 1, state.nonce - 1>>
        <2>1. Kept(d, r)' <=> \E i \in 1..Len(T) : \E m \in 0..(T[i].nonce - 1) : r = <<i - 1, m>>
            BY <1>1 DEF Kept, T
        <2>2. Kept(d, r) <=> \E i \in 1..Len(S) : \E m \in 0..(S[i].nonce - 1) : r = <<i - 1, m>>
            BY DEF Kept, S
        <2>3. ASSUME NEW i \in 1..Len(T), NEW m \in 0..(T[i].nonce - 1), r = <<i - 1, m>>,
                     r # <<n - 1, state.nonce - 1>>
              PROVE  Kept(d, r)
            <3>1. CASE i # n
                BY <1>2, <2>2, <2>3, <3>1
            <3>2. CASE i = n
                <4>1. m \in 0..(state.nonce - 2)
                    BY <1>2, <1>3, <2>3, <3>2
                <4>2. n <= Len(S) /\ S[n].nonce = state.nonce - 1
                    BY <1>2, <1>3, <1>4, <4>1
                <4>3. n \in 1..Len(S) /\ m \in 0..(S[n].nonce - 1)
                    BY <1>2, <1>3, <4>1, <4>2
                <4> QED
                    BY <2>2, <2>3, <3>2, <4>3
            <3> QED
                BY <3>1, <3>2
        <2>4. ASSUME NEW i \in 1..Len(S), NEW m \in 0..(S[i].nonce - 1), r = <<i - 1, m>>
              PROVE  Kept(d, r)'
            <3>1. i \in 1..Len(T)
                BY <1>2
            <3>2. m \in 0..(T[i].nonce - 1)
                <4>1. CASE i # n
                    BY <1>2, <3>1, <4>1
                <4>2. CASE i = n
                    BY <1>2, <1>3, <4>2
                <4> QED
                    BY <4>1, <4>2
            <3> QED
                BY <2>1, <2>4, <3>1, <3>2
        <2>5. ASSUME r = <<n - 1, state.nonce - 1>> PROVE Kept(d, r)'
            <3>1. state.nonce - 1 \in 0..(T[n].nonce - 1)
                BY <1>2, <1>3
            <3> QED
                BY <1>2, <2>1, <2>5, <3>1
        <2> QED
            BY <2>1, <2>2, <2>3, <2>4, <2>5
    <1>8. Saving(c, d)
        BY <1>0 DEF Saving
    <1>9. Distinct(d) /\ \A r : Told(d, r) <=> Kept(d, r) \/ r = <<n - 1, state.nonce - 1>>
        BY <1>1, <1>6, <1>8 DEF ReportInv, ReportsAre
    <1>10. Distinct(d)' /\ \A r : Told(d, r)' <=> Told(d, r)
        BY <1>0, <1>9 DEF Distinct, Told
    <1>11. \A e \in Calls : ~Saving(e, d)'
        <2>1. call'[c].pc = "find" /\ \A e \in Calls \ {c} : call'[e] = call[e]
            BY <1>0 DEF Goto, TypeOK, CallStates
        <2> QED
            BY <1>1, <2>1, OneHolder DEF Saving, Inv, Exclusive
    <1> QED
        BY <1>7, <1>9, <1>10, <1>11 DEF ReportsAre

\* A report that is not followed by the save is the last one, and the others are stored.
LEMMA ReportUnsaved ==
    ASSUME Inv, ReportInv, NEW c \in Calls, NEW d \in Devices, Saving(c, d), Unsaved(d),
           \A e \in Calls : ~Saving(e, d)', UNCHANGED storage
    PROVE  ReportsAre(d)'
    <1>1. PICK tx : tx = Pending(c)
        OBVIOUS
    <1>2. /\ Distinct(d) /\ reported[d] # <<>> /\ reported[d][Len(reported[d])] = tx
          /\ ~Kept(d, tx) /\ \A r : Told(d, r) <=> Kept(d, r) \/ r = tx
        BY <1>1 DEF ReportInv, ReportsAre
    <1>3. PICK R \in Seq(Nat \X Nat) : R = reported[d]
        BY DEF Inv, TypeOK
    <1>4. PICK n \in Nat : n = Len(R) - 1
        <2>1. Len(R) \in Nat /\ R # <<>>
            BY <1>2, <1>3
        <2>2. Len(R) - 1 \in Nat
            BY <1>3, <2>1
        <2> QED
            BY <2>2
    <1>5. Len(R) = n + 1 /\ R[n + 1] = tx
        BY <1>2, <1>3, <1>4
    <1>6. reported'[d] = SubSeq(R, 1, n)
        BY <1>3, <1>4 DEF Unsaved, Inv, TypeOK
    <1>7. Len(SubSeq(R, 1, n)) = n /\ \A i \in 1..n : SubSeq(R, 1, n)[i] = R[i]
        BY <1>3, <1>5
    <1>8. /\ n + 1 \in 1..(n + 1) /\ 1..n \subseteq 1..(n + 1) /\ n + 1 \notin 1..n
          /\ \A i \in 1..(n + 1) : i # n + 1 => i \in 1..n
        OBVIOUS
    <1>9. \A i, j \in 1..(n + 1) : i # j => R[i] # R[j]
        BY <1>2, <1>3, <1>5 DEF Distinct
    <1>10. Distinct(d)'
        BY <1>6, <1>7, <1>8, <1>9 DEF Distinct
    <1>11. ASSUME NEW r PROVE Told(d, r)' <=> Kept(d, r)'
        <2>1. Kept(d, r)' <=> Kept(d, r)
            BY DEF Kept, Stored
        <2>2. Told(d, r)' <=> \E k \in 1..n : R[k] = r
            BY <1>6, <1>7 DEF Told
        <2>3. Told(d, r) <=> \E k \in 1..(n + 1) : R[k] = r
            BY <1>3, <1>5 DEF Told
        <2>4. (\E k \in 1..n : R[k] = r) <=> (\E k \in 1..(n + 1) : R[k] = r) /\ r # tx
            BY <1>5, <1>8, <1>9
        <2> QED
            BY <1>2, <2>1, <2>2, <2>3, <2>4
    <1> QED
        BY <1>10, <1>11 DEF ReportsAre

\* A call that neither saves before nor after a step disturbs no reports.
LEMMA CallQuiet ==
    ASSUME NEW c, \A e \in Calls \ {c} : call'[e] = call[e], call[c].pc # "save",
           call'[c].pc # "save", UNCHANGED reported, \A d \in Devices : Stored(d)' = Stored(d),
           ReportInv
    PROVE  ReportInv'
    <1> SUFFICES ASSUME NEW d \in Devices PROVE ReportsAre(d)'
        BY DEF ReportInv
    <1>1. Quiet(d)
        BY DEF Quiet
    <1> QED
        BY <1>1, QuietReports DEF ReportInv

\* Of another device than the one whose call works nothing changes.
LEMMA OthersQuiet ==
    ASSUME TypeOK, ReportInv, NEW c \in Calls, \A e \in Calls \ {c} : call'[e] = call[e],
           \A d \in Devices \ {DeviceOf[c]} : reported'[d] = reported[d] /\ Stored(d)' = Stored(d),
           ReportsAre(DeviceOf[c])'
    PROVE  ReportInv'
    <1>1. ASSUME NEW d \in Devices, d # DeviceOf[c] PROVE ReportsAre(d)'
        <2>1. Quiet(d)
            BY <1>1 DEF Quiet
        <2> QED
            BY <2>1, QuietReports DEF ReportInv
    <1> QED
        BY <1>1 DEF ReportInv

LEMMA FindReports ==
    ASSUME Inv, ReportInv, NEW c \in Calls, Find(c)
    PROVE  ReportInv'
    <1>0. /\ TypeOK /\ call[c] \in CallStates /\ WellFormed(call[c]) /\ call \in [Calls -> CallStates]
          /\ call[c].pc = "find" /\ UNCHANGED storage /\ \A d \in Devices : Stored(d)' = Stored(d)
        BY CallFields DEF Inv, TypeOK, Find, Stored
    <1>1. CASE UNCHANGED reported /\ (Throw(c) \/ call' = [call EXCEPT ![c].pc = "next",
                                                    ![c].token = None, ![c].state = None])
        <2>1. call'[c].pc # "save" /\ \A e \in Calls \ {c} : call'[e] = call[e]
            BY <1>0, <1>1, IdleCall DEF Throw, Return, CallStates
        <2> QED
            BY <1>0, <1>1, <2>1, CallQuiet
    <1>2. CASE /\ Successor(call[c].state) # {} /\ ~TokenMismatch(call[c].state)
               /\ reported' = [reported EXCEPT ![DeviceOf[c]] =
                                 Append(@, <<call[c].state.index, call[c].state.nonce>>)]
               /\ call' = [call EXCEPT ![c].pc = "save", ![c].state = NewState(call[c].state)]
        <2>1. PICK state \in AccountStates : state = call[c].state
            BY <1>0 DEF WellFormed
        <2>2. PICK d \in Devices : d = DeviceOf[c]
            BY <1>0, CallFields
        <2>3. PICK new \in AccountStates : /\ new = NewState(state) /\ new.index = state.index
                                           /\ new.nonce = state.nonce + 1
            BY <1>0, <1>2, <2>1, NewStateOnChain
        <2>4. reported'[d] = Append(reported[d], <<state.index, state.nonce>>)
              /\ \A b \in Devices \ {d} : reported'[b] = reported[b]
            BY <1>0, <1>2, <2>1, <2>2 DEF TypeOK
        <2>5. /\ call'[c].pc = "save" /\ call'[c].state = new
              /\ \A e \in Calls \ {c} : call'[e] = call[e]
            BY <1>0, <1>2, <2>1, <2>3 DEF CallStates
        <2>6. ReportsAre(d)'
            BY <1>0, <2>1, <2>2, <2>3, <2>4, <2>5, ReportMade
        <2> QED
            BY <1>0, <2>2, <2>4, <2>5, <2>6, OthersQuiet
    <1> QED
        BY <1>1, <1>2 DEF Find, Fail, Throw

LEMMA SaveReports ==
    ASSUME Inv, Inv', ReportInv, NEW c \in Calls, Save(c)
    PROVE  ReportInv'
    <1>1. TypeOK /\ UNCHANGED reported /\ \A e \in Calls \ {c} : call'[e] = call[e]
        BY DEF Save, Goto, Inv, TypeOK
    <1>2. PICK d : d = DeviceOf[c]
        OBVIOUS
    <1>3. \A b \in Devices \ {d} : Stored(b)' = Stored(b)
        BY <1>2, Saved
    <1>4. ReportsAre(d)'
        BY <1>2, ReportSaved
    <1> QED
        BY <1>1, <1>2, <1>3, <1>4, OthersQuiet

LEMMA RejectedReports ==
    ASSUME Inv, ReportInv, NEW c \in Calls, Rejected(c)
    PROVE  ReportInv'
    <1>0. TypeOK /\ DeviceOf[c] \in Devices /\ Throw(c) /\ UNCHANGED storage
        BY CallFields DEF Inv, Rejected, Fail
    <1>1. /\ call'[c].pc = "idle" /\ \A e \in Calls \ {c} : call'[e] = call[e]
          /\ \A d \in Devices : Stored(d)' = Stored(d)
        BY <1>0, IdleCall DEF Throw, Return, TypeOK, Stored
    <1>2. CASE call[c].pc # "save"
        <2>1. UNCHANGED reported
            BY <1>2 DEF Rejected
        <2> QED
            BY <1>1, <1>2, <2>1, CallQuiet
    <1>3. CASE call[c].pc = "save"
        <2>1. PICK d \in Devices : d = DeviceOf[c]
            BY <1>0
        <2>2. Unsaved(d)
            BY <1>3, <2>1 DEF Rejected
        <2>3. Saving(c, d) /\ Holds(c)
            BY <1>3, <2>1 DEF Saving, Inv, Exclusive
        <2>4. \A e \in Calls : ~Saving(e, d)'
            BY <1>1, <2>1, <2>3, OneHolder DEF Saving, Inv, Exclusive
        <2>5. ReportsAre(d)'
            BY <1>0, <2>2, <2>3, <2>4, ReportUnsaved
        <2>6. \A b \in Devices \ {d} : reported'[b] = reported[b]
            BY <1>0, <2>2 DEF Unsaved, TypeOK
        <2> QED
            BY <1>0, <1>1, <2>1, <2>5, <2>6, OthersQuiet
    <1> QED
        BY <1>2, <1>3

\* A device that stops before a save has a report that goes unsaved.
LEMMA CrashReports ==
    ASSUME Inv, ReportInv, NEW device \in Devices, Crash(device)
    PROVE  ReportInv'
    <1> DEFINE mine == {c \in Calls : DeviceOf[c] = device}
    <1>0. /\ TypeOK /\ UNCHANGED storage /\ \A d \in Devices : Stored(d)' = Stored(d)
        BY DEF Inv, Crash, Stored
    <1>1. \A c \in Calls : call'[c] = IF DeviceOf[c] = device THEN Idle ELSE call[c]
        BY DEF Crash
    <1>2. \A c \in Calls : ~Saving(c, device)'
        BY <1>1, IdleCall DEF Saving
    <1>3. CASE \E c \in mine : call[c].pc = "save"
        <2>1. Unsaved(device)
            BY <1>3 DEF Crash
        <2>2. PICK c \in Calls : Saving(c, device)
            BY <1>3 DEF Saving
        <2>3. ReportsAre(device)'
            BY <1>0, <1>2, <2>1, <2>2, ReportUnsaved
        <2>4. ASSUME NEW d \in Devices, d # device PROVE ReportsAre(d)'
            <3>1. Quiet(d)
                BY <1>0, <1>1, <2>1, <2>4 DEF Quiet, Unsaved, TypeOK
            <3> QED
                BY <3>1, QuietReports DEF ReportInv
        <2> QED
            BY <2>3, <2>4 DEF ReportInv
    <1>4. CASE ~\E c \in mine : call[c].pc = "save"
        <2>1. UNCHANGED reported
            BY <1>4 DEF Crash
        <2>2. ASSUME NEW d \in Devices PROVE ReportsAre(d)'
            <3>1. ASSUME NEW c \in Calls, DeviceOf[c] = d, "save" \in {call[c].pc, call'[c].pc}
                  PROVE  call'[c] = call[c]
                BY <1>1, <1>4, <3>1, IdleCall
            <3>2. Quiet(d)
                BY <1>0, <2>1, <3>1 DEF Quiet
            <3> QED
                BY <3>2, QuietReports DEF ReportInv
        <2> QED
            BY <2>2 DEF ReportInv
    <1> QED
        BY <1>3, <1>4

LEMMA NextReports ==
    ASSUME Inv, Inv', ReportInv, [Next]_vars
    PROVE  ReportInv'
    <1>0. TypeOK /\ TypeOK'
        BY DEF Inv
    <1>1. ASSUME NEW c \in Calls,
                 \/ \E token \in Tokens, op \in {"shield", "withdraw"} : Start(c, op, token)
                 \/ Start(c, "sync", None)
                 \/ InitStorage(c) \/ Read(c) \/ Create(c) \/ Include(c) \/ Receipt(c)
                 \/ NextAccount(c) \/ Probe(c) \/ Synced(c) \/ Load(c) \/ GiveUp(c)
          PROVE  ReportInv'
        <2>1. UNCHANGED reported /\ call[c].pc # "save"
            BY <1>1 DEF Start, InitStorage, Read, Create, Include, Receipt, NextAccount, Probe, Synced,
                        Load, GiveUp
        <2>2. \A d \in Devices : Stored(d)' = Stored(d)
            <3>1. CASE InitStorage(c)
                BY <1>0, <3>1 DEF InitStorage, Inv, InitOnce, Stored, TypeOK
            <3>2. CASE ~InitStorage(c)
                BY <1>1, <3>2 DEF Start, Read, Create, Include, Receipt, NextAccount, Probe,
                                  Synced, Load, GiveUp, Stored
            <3> QED
                BY <3>1, <3>2
        <2>3. call'[c].pc # "save" /\ \A e \in Calls \ {c} : call'[e] = call[e]
            <3>1. call \in [Calls -> CallStates] /\ call[c] \in CallStates
                BY <1>0 DEF TypeOK
            <3>2. CASE \/ \E token \in Tokens, op \in {"shield", "withdraw"} : Start(c, op, token)
                       \/ Start(c, "sync", None)
                <4>1. ASSUME NEW token, NEW op, Start(c, op, token)
                      PROVE  call'[c].pc # "save" /\ \A e \in Calls \ {c} : call'[e] = call[e]
                    <5>1. PICK pc : pc = IF storage[DeviceOf[c]] = None THEN "init"
                                         ELSE IF op = "sync" THEN "next" ELSE "read"
                        OBVIOUS
                    <5>2. PICK start : start = IF op = "sync" THEN ChainNow ELSE None
                        OBVIOUS
                    <5>3. pc # "save" /\ call' = [call EXCEPT ![c] =
                             [Idle EXCEPT !.op = op, !.token = token, !.start = start, !.pc = pc]]
                        BY <4>1, <5>1, <5>2 DEF Start
                    <5> QED
                        BY <3>1, <5>3 DEF Idle
                <4> QED
                    BY <3>2, <4>1
            <3>3. CASE InitStorage(c) \/ Read(c) \/ Create(c)
                BY <3>1, <3>3 DEF InitStorage, Read, Create, Goto, Throw, Return, Idle, CallStates
            <3>4. CASE Include(c) \/ Receipt(c) \/ Synced(c) \/ GiveUp(c)
                BY <3>1, <3>4 DEF Include, Receipt, Synced, GiveUp, Goto, Throw, Return, Idle, CallStates
            <3>5. CASE NextAccount(c) \/ Probe(c) \/ Load(c)
                BY <3>1, <3>5 DEF NextAccount, Probe, Load, SyncNext, Goto, CallStates
            <3> QED
                BY <1>1, <3>2, <3>3, <3>4, <3>5
        <2> QED
            BY <2>1, <2>2, <2>3, CallQuiet
    <1>2. ASSUME NEW c \in Calls, Find(c) \/ Save(c) \/ Rejected(c) PROVE ReportInv'
        BY <1>2, FindReports, SaveReports, RejectedReports
    <1>3. CASE \/ SealBlock \/ (\E token \in Tokens : StrangerEvent(token))
               \/ (\E tx \in orphans : IncludeOrphan(tx)) \/ UNCHANGED vars
        <2>1. UNCHANGED <<storage, call, reported>>
            BY <1>3 DEF SealBlock, StrangerEvent, IncludeOrphan, vars
        <2>2. ASSUME NEW d \in Devices PROVE Quiet(d)
            BY <2>1 DEF Quiet, Stored
        <2> QED
            BY <2>2, QuietReports DEF ReportInv
    <1>4. CASE \E device \in Devices : Crash(device)
        BY <1>4, CrashReports
    <1> QED
        BY <1>1, <1>2, <1>3, <1>4 DEF Next, Step

\* The callback was called for every transaction that the storage of a device has, and for
\* none again after its state was saved: neither a second call that syncs the same account,
\* nor a callback that throws, a write that is rejected or a device that stops makes it miss
\* one, or repeat one that was saved.
THEOREM ReportsComeOnce ==
    ASSUME StorageFoundOrOneCall
    PROVE  Spec => []ReportedOnce
    <1>1. Init => ReportInv
        <2> SUFFICES ASSUME Init, NEW d \in Devices PROVE ReportsAre(d)
            BY DEF ReportInv
        <2>1. Len(reported[d]) = 0 /\ Len(Stored(d)) = 0 /\ \A c \in Calls : ~Saving(c, d)
            BY DEF Init, Stored, Saving, Idle
        <2> QED
            BY <2>1 DEF ReportsAre, Distinct, Told, Kept
    <1>2. Inv /\ Inv' /\ ReportInv /\ [Next]_vars => ReportInv'
        BY NextReports
    <1>3. ReportInv => ReportedOnce
        <2> SUFFICES ASSUME ReportInv, NEW d \in Devices
                     PROVE  /\ Distinct(d)
                            /\ \A i \in 1..Len(Stored(d)) : \A n \in 0..(Stored(d)[i].nonce - 1) :
                                  Told(d, <<i - 1, n>>)
            BY DEF ReportedOnce, Distinct, Told
        <2>1. Distinct(d) /\ \A r : Kept(d, r) => Told(d, r)
            BY DEF ReportInv, ReportsAre
        <2> QED
            BY <2>1 DEF Kept
    <1> QED
        BY <1>1, <1>2, <1>3, Invariance, PTL DEF Spec

\* One step takes no stored account back, drops none and keeps its token.
LEMMA StepAdvances ==
    ASSUME Inv, [Next]_vars, NEW d \in Devices, NEW i \in 1..Len(Stored(d))
    PROVE  /\ Len(Stored(d)) <= Len(Stored(d)')
           /\ Stored(d)[i].token = Stored(d)'[i].token
           /\ Stored(d)[i].nonce <= Stored(d)'[i].nonce
    <1>0. TypeOK /\ StoredStateIsOnChain
        BY DEF Inv
    <1>1. Len(Stored(d)) \in Nat /\ Stored(d)[i] \in AccountStates
        BY <1>0, StoredSeq
    <1>2. Stored(d)[i].nonce \in Nat
        BY <1>1 DEF AccountStates
    <1>3. CASE Stored(d)' = Stored(d)
        BY <1>1, <1>2, <1>3
    <1>4. ASSUME NEW c \in Calls, InitStorage(c) PROVE Stored(d)' = Stored(d)
        BY <1>0, <1>4 DEF InitStorage, Inv, InitOnce, Stored, TypeOK
    <1>5. ASSUME NEW c \in Calls, Save(c), DeviceOf[c] # d PROVE Stored(d)' = Stored(d)
        BY <1>0, <1>5 DEF Save, Stored, TypeOK
    <1>6. ASSUME NEW c \in Calls, Save(c), DeviceOf[c] = d
          PROVE  /\ Len(Stored(d)) <= Len(Stored(d)')
                 /\ Stored(d)[i].token = Stored(d)'[i].token
                 /\ Stored(d)[i].nonce <= Stored(d)'[i].nonce
        <2> PICK state : state = call[c].state
            OBVIOUS
        <2> PICK token : token = call[c].token
            OBVIOUS
        <2>1. /\ state \in AccountStates /\ token \in Tokens
              /\ state.index = Current(d, token).index /\ state.token = token
              /\ state.nonce = Current(d, token).nonce + 1
              /\ Stored(d)' = UpdatedStorage(d, token, state)
            BY <1>6, Saved
        <2> DEFINE S == Stored(d)
                   T == UpdatedStorage(d, token, state)
                   n == state.index + 1
        <2>2. /\ Len(S) \in Nat /\ Len(T) \in Nat /\ Len(S) <= Len(T) /\ T[n] = state
              /\ n <= Len(S) => S[n] = Current(d, token)
              /\ \A j \in 1..Len(T) : j # n => T[j] = S[j]
            BY <1>0, <2>1, Updated
        <2>3. Current(d, token).nonce \in Nat /\ Current(d, token).token = token
            BY <1>0, <2>1, CurrentFacts DEF AccountStates
        <2> HIDE DEF S, T, n
        <2>4. i \in 1..Len(S) /\ i \in 1..Len(T)
            BY <2>2 DEF S
        <2>5. S[i].token = T[i].token /\ S[i].nonce <= T[i].nonce
            <3>1. CASE i = n
                BY <2>1, <2>2, <2>3, <2>4, <3>1
            <3>2. CASE i # n
                BY <1>2, <2>2, <2>4, <3>2 DEF S
            <3> QED
                BY <3>1, <3>2
        <2> QED
            BY <2>1, <2>2, <2>5 DEF S, T
    <1>7. UNCHANGED storage => Stored(d)' = Stored(d)
        BY DEF Stored
    <1>8. CASE \E c \in Calls : InitStorage(c) \/ Save(c)
        BY <1>3, <1>4, <1>5, <1>6, <1>8
    <1>9. CASE ~\E c \in Calls : InitStorage(c) \/ Save(c)
        <2>1. UNCHANGED storage
            BY <1>9 DEF Next, Step, vars, Start, Read, Create, Include, Receipt, NextAccount, Probe,
                        Synced, Load, Find, GiveUp, Rejected, SealBlock, StrangerEvent, Crash, IncludeOrphan
        <2> QED
            BY <1>3, <1>7, <2>1
    <1> QED
        BY <1>8, <1>9

\* However the calls of a device interleave, no account it stores is taken back to an earlier
\* note, dropped or turned into one of another token.
THEOREM StorageAdvances ==
    ASSUME StorageFoundOrOneCall
    PROVE  Spec => StorageOnlyAdvances
    <1>1. Inv /\ [Next]_vars =>
             [\A d \in Devices :
                 /\ Len(Stored(d)) <= Len(Stored(d)')
                 /\ \A i \in 1..Len(Stored(d)) :
                       /\ Stored(d)[i].token = Stored(d)'[i].token
                       /\ Stored(d)[i].nonce <= Stored(d)'[i].nonce]_vars
        <2> SUFFICES ASSUME Inv, [Next]_vars, NEW d \in Devices
                     PROVE  /\ Len(Stored(d)) <= Len(Stored(d)')
                            /\ \A i \in 1..Len(Stored(d)) :
                                  /\ Stored(d)[i].token = Stored(d)'[i].token
                                  /\ Stored(d)[i].nonce <= Stored(d)'[i].nonce
            OBVIOUS
        <2>1. Len(Stored(d)) \in Nat /\ Len(Stored(d)') \in Nat
            <3>1. TypeOK /\ TypeOK'
                BY NextInv DEF Inv
            <3>2. storage[d] \in Seq(AccountStates) \cup {None}
                  /\ storage'[d] \in Seq(AccountStates) \cup {None}
                BY <3>1 DEF TypeOK
            <3> QED
                BY <3>2 DEF Stored
        <2> QED
            BY <2>1, StepAdvances
    <1> QED
        BY <1>1, Invariance, PTL DEF Spec, StorageOnlyAdvances

-----------------------------------------------------------------------------
(* What a sync has covered. *)

\* Each device runs one call at a time.  Otherwise two calls of shield may open two
\* accounts of one token, of which the storage finds one only.
OneCallPerDevice == \A c, d \in Calls : DeviceOf[c] = DeviceOf[d] => c = d

\* The notes of an account among the first m of a log.
NotesOf(account, events, m) == {e \in 1..m : events[e].account = account}

\* The notes of an account are numbered from 0, without gaps, in the order of the log.
Numbered ==
    \A e \in 1..Len(log) :
       /\ log[e].nonce < Cardinality(NotesOf(log[e].account, log, Len(log)))
       /\ \A f \in 1..Len(log) :
             log[f].account = log[e].account /\ log[f].nonce = log[e].nonce => f = e
       /\ \A n \in 0..(log[e].nonce - 1) : \E f \in 1..(e - 1) :
             log[f].account = log[e].account /\ log[f].nonce = n

\* The accounts of the user have one token each and different ones, whichever device
\* opened them, and they were opened in the order of their indices.
OneToken ==
    \A e, f \in 1..Len(log) : log[e].account \in Nat /\ log[f].account \in Nat
       => (log[e].account = log[f].account <=> log[e].token = log[f].token)

InOrder ==
    \A e \in 1..Len(log) : log[e].account \in Nat
       => \A b \in 0..(log[e].account - 1) : \E f \in 1..(e - 1) : log[f].account = b

\* What is sent fits the chain: it opens an account of a token that no account before it
\* has, or goes on with an account of its token.
Backed(account, nonce, token) ==
    IF nonce = 0
    THEN \A b \in 0..(account - 1) : \E f \in 1..Len(log) : log[f].account = b /\ log[f].token # token
    ELSE \E f \in 1..Len(log) : log[f].account = account /\ log[f].token = token

OrphansBacked == \A tx \in orphans : Backed(tx.account, tx.nonce, tx.token)

\* A device stores one account for a token.
DistinctTokens(d) ==
    \A i, j \in 1..Len(Stored(d)) : Stored(d)[i].token = Stored(d)[j].token => i = j

\* The first n accounts have what was on chain when the sync began.
Covered(k, d, n) ==
    \A i \in 0..(MaxEvents - 1) : i < n /\ k.start[i] > 0
       => i < Len(Stored(d)) /\ Stored(d)[i + 1].nonce >= k.start[i]

\* The account a sync works on is the one before its cursor: it is stored, or it is the
\* next one and on chain.
AtCursor(k, d) ==
    /\ k.cursor > 0
    /\ \/ k.cursor <= Len(Stored(d)) /\ Stored(d)[k.cursor].token = k.token
       \/ /\ k.cursor = Len(Stored(d)) + 1
          /\ \E e \in Mined : /\ log[e].account = k.cursor - 1 /\ log[e].nonce = 0
                              /\ log[e].token = k.token

\* What was on chain when a sync began still is.
Begun(k) ==
    /\ k.start \in [0..(MaxEvents - 1) -> Nat]
    /\ \A i \in 0..(MaxEvents - 1) : k.start[i] <= MinedCount(i)

\* How far a call has come.
Progress(k, d) ==
    /\ k.pc = "create" => \A i \in 1..Len(Stored(d)) : Stored(d)[i].token # k.token
    /\ k.pc = "send" => Backed(k.state.index, k.state.nonce, k.state.token)
    /\ k.pc \in {"read", "create", "send", "receipt"} => k.op # "sync"
    /\ k.pc \in {"next", "probe", "synced"} => k.op = "sync"
    /\ k.op = "sync" => Begun(k)
    /\ k.pc = "init" => k.cursor = 0
    /\ k.pc = "next" => k.cursor <= Len(Stored(d)) /\ Covered(k, d, k.cursor)
    /\ k.pc = "probe" => k.cursor = Len(Stored(d)) /\ Covered(k, d, k.cursor)
    /\ k.pc \in {"load", "find", "save"} /\ k.op = "sync"
       => AtCursor(k, d) /\ Covered(k, d, k.cursor - 1)
    /\ k.pc = "synced" => Covered(k, d, MaxEvents)

ChainInv == Numbered /\ OneToken /\ InOrder

SyncInv ==
    /\ ChainInv /\ OrphansBacked
    /\ \A d \in Devices : DistinctTokens(d)
    /\ \A c \in Calls : Progress(call[c], DeviceOf[c])

\* The fields of an event.
LEMMA EventFields ==
    ASSUME TypeOK
    PROVE  /\ Len(log) \in Nat /\ mined \in 0..Len(log)
           /\ \A e \in 1..Len(log) : /\ log[e] \in Events /\ log[e].nonce \in Nat
                                    /\ log[e].token \in Tokens
    <1>1. log \in Seq(Events) /\ mined \in 0..Len(log)
        BY DEF TypeOK
    <1>2. \A e \in 1..Len(log) : log[e] \in Events
        BY <1>1
    <1> QED
        BY <1>1, <1>2 DEF Events

\* While the notes of an account have no gaps, as many as are not there are missing at the
\* end: up to a place in the log, an account has at most n notes if note n is not there.
LEMMA CountAtMost ==
    ASSUME TypeOK, Numbered, NEW m \in 0..Len(log), NEW account, NEW n \in Nat,
           \A e \in 1..m : log[e].account = account => log[e].nonce # n
    PROVE  Cardinality(NotesOf(account, log, m)) <= n
    <1> DEFINE S == NotesOf(account, log, m)
               f == [e \in S |-> log[e].nonce]
    <1>1. Len(log) \in Nat /\ \A e \in 1..m : log[e].nonce \in Nat
        BY EventFields
    <1>2. ASSUME NEW e \in S PROVE log[e].nonce \in 0..(n - 1)
        <2>1. e \in 1..m /\ log[e].account = account /\ log[e].nonce # n /\ log[e].nonce \in Nat
            BY <1>1 DEF NotesOf
        <2>2. CASE log[e].nonce > n
            <3>1. n \in 0..(log[e].nonce - 1) /\ e \in 1..Len(log)
                BY <1>1, <2>1, <2>2
            <3>2. PICK g \in 1..(e - 1) : log[g].account = account /\ log[g].nonce = n
                BY <2>1, <3>1 DEF Numbered
            <3>3. g \in 1..m
                BY <2>1, <3>2
            <3> QED
                BY <3>2, <3>3
        <2> QED
            BY <2>1, <2>2
    <1>3. ASSUME NEW e \in S, NEW g \in S, f[e] = f[g] PROVE e = g
        <2>1. e \in 1..Len(log) /\ g \in 1..Len(log) /\ log[e].account = log[g].account
              /\ log[e].nonce = log[g].nonce
            BY <1>1, <1>3 DEF NotesOf
        <2> QED
            BY <2>1 DEF Numbered
    <1>4. f \in [S -> 0..(n - 1)]
        BY <1>2
    <1> HIDE DEF f, S
    <1>5. f \in Injection(S, 0..(n - 1))
        BY <1>3, <1>4 DEF Injection, IsInjective
    <1>6. IsFiniteSet(0..(n - 1)) /\ Cardinality(0..(n - 1)) = n
        BY FS_Interval
    <1>7. Cardinality(S) <= Cardinality(0..(n - 1))
        BY <1>5, <1>6, FS_Injection
    <1> QED
        BY <1>6, <1>7 DEF S

\* What clients see of an account, if they do not see its note n.
LEMMA SeenAtMost ==
    ASSUME TypeOK, Numbered, NEW account, NEW n \in Nat,
           \A e \in Mined : log[e].account = account => log[e].nonce # n
    PROVE  MinedCount(account) <= n
    <1>1. mined \in 0..Len(log) /\ Len(log) \in Nat
        BY EventFields
    <1>2. EventsOf(account) \cap Mined = NotesOf(account, log, mined)
        <2>1. \A e \in 1..mined : e \in 1..Len(log)
            BY <1>1
        <2> QED
            BY <2>1 DEF EventsOf, Mined, NotesOf
    <1>3. Cardinality(NotesOf(account, log, mined)) <= n
        BY <1>1, CountAtMost DEF Mined
    <1> QED
        BY <1>2, <1>3 DEF MinedCount

\* An account of which a client sees a note shows it how it was opened.
LEMMA OpeningSeen ==
    ASSUME TypeOK, Numbered, NEW e \in Mined
    PROVE  \E f \in Mined : log[f].account = log[e].account /\ log[f].nonce = 0
    <1>1. e \in 1..mined /\ e \in 1..Len(log) /\ log[e].nonce \in Nat /\ mined \in Nat
        BY EventFields DEF Mined
    <1>2. CASE log[e].nonce = 0
        BY <1>2
    <1>3. CASE log[e].nonce # 0
        <2>1. 0 \in 0..(log[e].nonce - 1)
            BY <1>1, <1>3
        <2>2. PICK f \in 1..(e - 1) : log[f].account = log[e].account /\ log[f].nonce = 0
            BY <1>1, <2>1 DEF Numbered
        <2>3. f \in Mined
            BY <1>1, <2>2 DEF Mined
        <2> QED
            BY <2>2, <2>3
    <1> QED
        BY <1>2, <1>3

\* The log is only added to.
Extends ==
    /\ log' \in Seq(Events) /\ Len(log) <= Len(log') /\ mined <= mined'
    /\ \A i \in 1..Len(log) : log'[i] = log[i]

\* What fits the chain fits it when it has grown.
LEMMA BackedStays ==
    ASSUME TypeOK, Extends, NEW account, NEW nonce, NEW token, Backed(account, nonce, token)
    PROVE  Backed(account, nonce, token)'
    <1>1. Len(log) \in Nat /\ Len(log') \in Nat /\ 1..Len(log) \subseteq 1..Len(log')
        BY DEF TypeOK, Extends
    <1>2. \A f \in 1..Len(log) : f \in 1..Len(log') /\ log'[f] = log[f]
        BY <1>1 DEF Extends
    <1>3. CASE nonce = 0
        <2> SUFFICES ASSUME NEW b \in 0..(account - 1)
                     PROVE  \E f \in 1..Len(log') : log'[f].account = b /\ log'[f].token # token
            BY <1>3 DEF Backed
        <2>1. PICK f \in 1..Len(log) : log[f].account = b /\ log[f].token # token
            BY <1>3 DEF Backed
        <2> QED
            BY <1>2, <2>1
    <1>4. CASE nonce # 0
        BY <1>2, <1>4 DEF Backed
    <1> QED
        BY <1>3, <1>4

\* Clients see no fewer notes of an account later.
LEMMA CountStays ==
    ASSUME TypeOK, TypeOK', Extends, NEW account
    PROVE  /\ MinedCount(account) <= MinedCount(account)'
           /\ MinedCount(account) \in Nat /\ MinedCount(account)' \in Nat
    <1>1. /\ Len(log) \in Nat /\ Len(log') \in Nat /\ mined \in 0..Len(log) /\ mined' \in 0..Len(log')
          /\ \A f \in 1..Len(log) : log'[f] = log[f]
        BY DEF TypeOK, Extends
    <1> DEFINE S == EventsOf(account) \cap Mined
               T == (EventsOf(account) \cap Mined)'
    <1>2. S \in SUBSET T
        BY <1>1 DEF EventsOf, Mined, Extends
    <1>3. IsFiniteSet(1..mined') /\ T \in SUBSET (1..mined')
        BY <1>1, FS_Interval DEF EventsOf, Mined
    <1> HIDE DEF S, T
    <1>4. IsFiniteSet(T)
        BY <1>3, FS_Subset
    <1>5. Cardinality(S) <= Cardinality(T)
        BY <1>2, <1>4, FS_Subset
    <1>6. IsFiniteSet(S)
        BY <1>2, <1>4, FS_Subset
    <1>7. Cardinality(S) \in Nat /\ Cardinality(T) \in Nat
        BY <1>4, <1>6, FS_CardinalityType
    <1> QED
        BY <1>5, <1>7 DEF S, T, MinedCount

\* A transaction that the contract accepts leaves the log in order.
LEMMA AppendedInOrder ==
    ASSUME TypeOK, TypeOK', ChainInv, NEW tx, tx.nonce \in Nat, Accepts(tx),
           tx.account \in Nat => Backed(tx.account, tx.nonce, tx.token),
           log' = Append(log, Event(tx)), UNCHANGED mined
    PROVE  ChainInv' /\ Extends
    <1> DEFINE n == Len(log) + 1
    <1>0. tx.nonce = Cardinality(NotesOf(tx.account, log, Len(log)))
        BY DEF Accepts, EventsOf, NotesOf
    <1>1. /\ Len(log) \in Nat /\ Len(log') = n /\ n \in Nat
          /\ \A i \in 1..Len(log) : i \in 1..n /\ log'[i] = log[i]
          /\ log'[n].account = tx.account /\ log'[n].nonce = tx.nonce /\ log'[n].token = tx.token
          /\ log' \in Seq(Events)
        <2>1. log \in Seq(Events) /\ log' \in Seq(Events) /\ Len(log) \in Nat
            BY DEF TypeOK
        <2>2. Len(log') = n /\ log'[n] = Event(tx) /\ \A i \in 1..Len(log) : log'[i] = log[i]
            BY <2>1
        <2> QED
            BY <2>1, <2>2 DEF Event
    <1>2. ASSUME NEW e \in 1..n PROVE e = n \/ e \in 1..Len(log)
        BY <1>1
    <1>3. \A e \in 1..Len(log) : log[e].nonce \in Nat
        BY EventFields
    <1> HIDE DEF n
    <1>4. Extends
        <2>1. mined \in Nat
            BY EventFields
        <2>2. Len(log) <= n
            BY <1>1 DEF n
        <2> QED
            BY <1>1, <2>1, <2>2 DEF Extends
    <1>5. ASSUME NEW e \in 1..Len(log), log[e].account = tx.account PROVE log[e].nonce < tx.nonce
        BY <1>0, <1>5 DEF ChainInv, Numbered
    <1>6. ASSUME NEW k \in 0..(tx.nonce - 1)
          PROVE  \E f \in 1..Len(log) : log[f].account = tx.account /\ log[f].nonce = k
        <2> SUFFICES ASSUME \A f \in 1..Len(log) : log[f].account = tx.account => log[f].nonce # k
                     PROVE  FALSE
            OBVIOUS
        <2>1. k \in Nat /\ Len(log) \in 0..Len(log)
            BY <1>1
        <2>2. Cardinality(NotesOf(tx.account, log, Len(log))) <= k
            BY <2>1, CountAtMost DEF ChainInv
        <2>3. tx.nonce <= k
            BY <1>0, <2>2
        <2> QED
            BY <2>3
    <1>7. Numbered'
        <2> SUFFICES ASSUME NEW e \in 1..n
                     PROVE  /\ log'[e].nonce < Cardinality(NotesOf(log'[e].account, log', n))
                            /\ \A f \in 1..n : log'[f].account = log'[e].account
                                               /\ log'[f].nonce = log'[e].nonce => f = e
                            /\ \A k \in 0..(log'[e].nonce - 1) : \E f \in 1..(e - 1) :
                                  log'[f].account = log'[e].account /\ log'[f].nonce = k
            BY <1>1 DEF Numbered
        <2>1. log'[e].nonce < Cardinality(NotesOf(log'[e].account, log', n))
            <3> PICK a : a = log'[e].account
                OBVIOUS
            <3> DEFINE S == NotesOf(a, log, Len(log))
                       T == NotesOf(a, log', n)
            <3>1. /\ IsFiniteSet(1..Len(log)) /\ S \in SUBSET (1..Len(log)) /\ IsFiniteSet(1..n)
                  /\ T \in SUBSET (1..n) /\ S \in SUBSET T
                <4>1. IsFiniteSet(1..Len(log)) /\ IsFiniteSet(1..n)
                    <5>1. 1 \in Int /\ Len(log) \in Int /\ n \in Int
                        BY <1>1
                    <5> QED
                        BY <5>1, FS_Interval
                <4>2. S \in SUBSET (1..Len(log)) /\ T \in SUBSET (1..n) /\ S \in SUBSET T
                    BY <1>1 DEF NotesOf
                <4> QED
                    BY <4>1, <4>2
            <3>2. IsFiniteSet(S) /\ IsFiniteSet(T) /\ Cardinality(S) <= Cardinality(T)
                <4>1. IsFiniteSet(S) /\ IsFiniteSet(T)
                    BY <3>1, FS_Subset
                <4> QED
                    BY <3>1, <4>1, FS_Subset
            <3>3. Cardinality(S) \in Nat /\ Cardinality(T) \in Nat
                BY <3>2, FS_CardinalityType
            <3>4. CASE e \in 1..Len(log)
                <4>1. log'[e] = log[e] /\ log[e].nonce \in Nat /\ log[e].account = a
                    BY <1>1, <1>3, <3>4
                <4>2. log[e].nonce < Cardinality(S)
                    BY <3>4, <4>1 DEF ChainInv, Numbered
                <4>3. log[e].nonce < Cardinality(T)
                    BY ONLY <3>2, <3>3, <4>1, <4>2
                <4> QED
                    BY <4>1, <4>3
            <3>5. CASE e = n
                <4>1. a = tx.account /\ log'[e].nonce = tx.nonce /\ tx.nonce = Cardinality(S)
                    BY <1>0, <1>1, <3>5
                <4>2. n \in T /\ n \notin S
                    BY <1>1, <3>5, <4>1 DEF NotesOf, n
                <4>3. Cardinality(S) # Cardinality(T)
                    BY <3>1, <3>2, <4>2, FS_Subset
                <4>4. Cardinality(S) < Cardinality(T)
                    BY ONLY <3>2, <3>3, <4>3
                <4> QED
                    BY <4>1, <4>4
            <3> QED
                BY <1>2, <3>4, <3>5
        <2>2. ASSUME NEW f \in 1..n, log'[f].account = log'[e].account, log'[f].nonce = log'[e].nonce
              PROVE  f = e
            <3>1. CASE e \in 1..Len(log) /\ f \in 1..Len(log)
                BY <1>1, <2>2, <3>1 DEF ChainInv, Numbered
            <3>2. CASE e = n /\ f \in 1..Len(log)
                BY <1>1, <1>3, <1>5, <2>2, <3>2
            <3>3. CASE f = n /\ e \in 1..Len(log)
                BY <1>1, <1>3, <1>5, <2>2, <3>3
            <3> QED
                BY <1>2, <3>1, <3>2, <3>3
        <2>3. ASSUME NEW k \in 0..(log'[e].nonce - 1)
              PROVE  \E f \in 1..(e - 1) : log'[f].account = log'[e].account /\ log'[f].nonce = k
            <3>1. CASE e \in 1..Len(log)
                <4>1. log'[e] = log[e]
                    BY <1>1, <3>1
                <4>2. PICK f \in 1..(e - 1) : log[f].account = log[e].account /\ log[f].nonce = k
                    BY <2>3, <3>1, <4>1 DEF ChainInv, Numbered
                <4>3. log'[f] = log[f]
                    BY <1>1, <3>1, <4>2
                <4> QED
                    BY <4>1, <4>2, <4>3
            <3>2. CASE e = n
                <4>1. k \in 0..(tx.nonce - 1) /\ log'[e].account = tx.account
                    BY <1>1, <2>3, <3>2
                <4>2. PICK f \in 1..Len(log) : log[f].account = tx.account /\ log[f].nonce = k
                    BY <1>6, <4>1
                <4>3. f \in 1..(e - 1) /\ log'[f] = log[f]
                    BY <1>1, <3>2, <4>2 DEF n
                <4> QED
                    BY <4>1, <4>2, <4>3
            <3> QED
                BY <1>2, <3>1, <3>2
        <2> QED
            BY <2>1, <2>2, <2>3
    <1>8. ASSUME tx.nonce = 0, NEW e \in 1..Len(log) PROVE log[e].account # tx.account
        BY <1>3, <1>5, <1>8
    <1>9. ASSUME tx.account \in Nat, NEW e \in 1..Len(log), log[e].account \in Nat
          PROVE  log[e].account = tx.account <=> log[e].token = tx.token
        <2>1. CASE tx.nonce # 0
            <3>1. PICK f \in 1..Len(log) : log[f].account = tx.account /\ log[f].token = tx.token
                BY <1>9, <2>1 DEF Backed
            <3> QED
                BY <1>9, <3>1 DEF ChainInv, OneToken
        <2>2. CASE tx.nonce = 0
            <3>1. log[e].account # tx.account
                BY <1>8, <2>2
            <3>2. CASE log[e].account < tx.account
                <4>1. log[e].account \in 0..(tx.account - 1)
                    BY <1>9, <3>2
                <4>2. PICK f \in 1..Len(log) : log[f].account = log[e].account /\ log[f].token # tx.token
                    BY <1>9, <2>2, <4>1 DEF Backed
                <4>3. log[f].token = log[e].token
                    BY <1>9, <4>2 DEF ChainInv, OneToken
                <4> QED
                    BY <3>1, <4>2, <4>3
            <3>3. CASE log[e].account > tx.account
                <4>1. tx.account \in 0..(log[e].account - 1)
                    BY <1>9, <3>3
                <4>2. PICK f \in 1..(e - 1) : log[f].account = tx.account
                    BY <1>9, <4>1 DEF ChainInv, InOrder
                <4>3. f \in 1..Len(log)
                    BY <1>1, <4>2
                <4> QED
                    BY <1>8, <2>2, <4>2, <4>3
            <3> QED
                BY <1>9, <3>1, <3>2, <3>3
        <2> QED
            BY <2>1, <2>2
    <1>10. OneToken'
        <2> SUFFICES ASSUME NEW e \in 1..n, NEW f \in 1..n, log'[e].account \in Nat, log'[f].account \in Nat
                     PROVE  log'[e].account = log'[f].account <=> log'[e].token = log'[f].token
            BY <1>1 DEF OneToken
        <2>1. CASE e \in 1..Len(log) /\ f \in 1..Len(log)
            BY <1>1, <2>1 DEF ChainInv, OneToken
        <2>2. CASE e = n /\ f \in 1..Len(log)
            BY <1>1, <1>9, <2>2
        <2>3. CASE f = n /\ e \in 1..Len(log)
            BY <1>1, <1>9, <2>3
        <2> QED
            BY <1>2, <2>1, <2>2, <2>3
    <1>11. InOrder'
        <2> SUFFICES ASSUME NEW e \in 1..n, log'[e].account \in Nat, NEW b \in 0..(log'[e].account - 1)
                     PROVE  \E f \in 1..(e - 1) : log'[f].account = b
            BY <1>1 DEF InOrder
        <2>1. CASE e \in 1..Len(log)
            <3>1. PICK f \in 1..(e - 1) : log[f].account = b
                BY <1>1, <2>1 DEF ChainInv, InOrder
            <3>2. log'[f] = log[f]
                BY <1>1, <2>1, <3>1
            <3> QED
                BY <3>1, <3>2
        <2>2. CASE e = n
            <3>1. tx.account \in Nat /\ b \in 0..(tx.account - 1) /\ \A f \in 1..Len(log) : f \in 1..(e - 1)
                BY <1>1, <2>2 DEF n
            <3>2. PICK f \in 1..Len(log) : log[f].account = b
                <4>1. CASE tx.nonce = 0
                    BY <3>1, <4>1 DEF Backed
                <4>2. CASE tx.nonce # 0
                    <5>1. PICK g \in 1..Len(log) : log[g].account = tx.account
                        BY <3>1, <4>2 DEF Backed
                    <5>2. PICK f \in 1..(g - 1) : log[f].account = b
                        BY <3>1, <5>1 DEF ChainInv, InOrder
                    <5>3. f \in 1..Len(log)
                        BY <1>1, <5>1, <5>2
                    <5> QED
                        BY <5>2, <5>3
                <4> QED
                    BY <4>1, <4>2
            <3> QED
                BY <1>1, <3>1, <3>2
        <2> QED
            BY <1>2, <2>1, <2>2
    <1> QED
        BY <1>4, <1>7, <1>10, <1>11 DEF ChainInv

\* What a call has come to is not lost while its device stores the same.
LEMMA ProgressStays ==
    ASSUME TypeOK, TypeOK', Extends, NEW k \in CallStates, NEW d, Stored(d)' = Stored(d), Progress(k, d)
    PROVE  Progress(k, d)'
    <1>1. \A n : Covered(k, d, n)' <=> Covered(k, d, n)
        BY DEF Covered
    <1>2. AtCursor(k, d) => AtCursor(k, d)'
        <2>1. mined \in 0..Len(log) /\ mined' \in Nat /\ mined <= mined' /\ Len(log) \in Nat
            BY EventFields DEF TypeOK, Extends
        <2>2. \A e \in Mined : e \in Mined' /\ log'[e] = log[e]
            BY <2>1 DEF Mined, Extends
        <2>3. ASSUME NEW e \in Mined, log[e].account = k.cursor - 1 /\ log[e].nonce = 0, log[e].token = k.token
              PROVE  \E f \in Mined' : /\ log'[f].account = k.cursor - 1 /\ log'[f].nonce = 0
                                       /\ log'[f].token = k.token
            BY <2>2, <2>3
        <2> QED
            BY <2>3 DEF AtCursor
    <1>3. Begun(k) => Begun(k)'
        <2> SUFFICES ASSUME Begun(k), NEW i \in 0..(MaxEvents - 1) PROVE k.start[i] <= MinedCount(i)'
            BY DEF Begun
        <2>1. k.start[i] \in Nat /\ k.start[i] <= MinedCount(i)
            BY DEF Begun
        <2>2. /\ MinedCount(i) <= MinedCount(i)'
              /\ MinedCount(i) \in Nat /\ MinedCount(i)' \in Nat
            BY CountStays
        <2> QED
            BY <2>1, <2>2
    <1>4. k.pc = "send" => Backed(k.state.index, k.state.nonce, k.state.token)'
        <2> SUFFICES ASSUME k.pc = "send" PROVE Backed(k.state.index, k.state.nonce, k.state.token)'
            OBVIOUS
        <2>1. PICK s : s = k.state
            OBVIOUS
        <2>2. Backed(s.index, s.nonce, s.token)
            BY <2>1 DEF Progress
        <2> QED
            BY <2>1, <2>2, BackedStays
    <1> QED
        BY <1>1, <1>2, <1>3, <1>4 DEF Progress

\* The other calls run on other devices.
LEMMA OthersStay ==
    ASSUME TypeOK, TypeOK', SyncInv, OneCallPerDevice, Extends, NEW c \in Calls,
           \A e \in Calls \ {c} : call'[e] = call[e],
           \A b \in Devices \ {DeviceOf[c]} : Stored(b)' = Stored(b),
           ChainInv', OrphansBacked', DistinctTokens(DeviceOf[c])', NEW k, k = call'[c],
           Progress(k, DeviceOf[c])'
    PROVE  SyncInv'
    <1>1. ASSUME NEW b \in Devices PROVE DistinctTokens(b)'
        <2>1. CASE b = DeviceOf[c]
            BY <2>1
        <2>2. CASE b # DeviceOf[c]
            <3>1. Stored(b)' = Stored(b) /\ DistinctTokens(b)
                BY <2>2 DEF SyncInv
            <3> QED
                BY <3>1 DEF DistinctTokens
        <2> QED
            BY <2>1, <2>2
    <1>2. ASSUME NEW e \in Calls PROVE Progress(call[e], DeviceOf[e])'
        <2>1. CASE e = c
            BY <2>1
        <2>2. CASE e # c
            <3>1. PICK r : r = call[e]
                OBVIOUS
            <3>2. PICK d \in Devices : d = DeviceOf[e]
                BY CallFields
            <3>3. r \in CallStates /\ r = call'[e] /\ d # DeviceOf[c]
                BY <2>2, <3>1, <3>2, CallFields DEF OneCallPerDevice
            <3>4. Stored(d)' = Stored(d) /\ Progress(r, d)
                BY <3>1, <3>2, <3>3 DEF SyncInv
            <3>5. Progress(r, d)'
                BY <3>3, <3>4, ProgressStays
            <3> QED
                BY <3>2, <3>3, <3>5
        <2> QED
            BY <2>1, <2>2
    <1> QED
        BY <1>1, <1>2 DEF SyncInv

\* While the log stays as it is, so does what is said of it.
LEMMA SameLog ==
    ASSUME TypeOK, UNCHANGED <<log, mined>>
    PROVE  /\ Extends /\ (ChainInv => ChainInv')
           /\ \A account, nonce, token : Backed(account, nonce, token) <=> Backed(account, nonce, token)'
    <1>1. Extends
        BY EventFields DEF TypeOK, Extends
    <1>2. ChainInv => ChainInv'
        BY DEF ChainInv, Numbered, OneToken, InOrder
    <1>3. ASSUME NEW account, NEW nonce, NEW token
          PROVE  Backed(account, nonce, token) <=> Backed(account, nonce, token)'
        BY DEF Backed
    <1> QED
        BY <1>1, <1>2, <1>3

\* A call goes on while chain and storage stay as they are.
LEMMA CallProgress ==
    ASSUME TypeOK, TypeOK', SyncInv, OneCallPerDevice, NEW c \in Calls,
           UNCHANGED <<log, mined>>, \A d \in Devices : Stored(d)' = Stored(d),
           \A e \in Calls \ {c} : call'[e] = call[e],
           \A tx \in orphans' : Backed(tx.account, tx.nonce, tx.token),
           NEW k, k = call'[c], Progress(k, DeviceOf[c])
    PROVE  SyncInv'
    <1>1. Extends /\ ChainInv'
        BY SameLog DEF SyncInv
    <1>2. OrphansBacked'
        <2> SUFFICES ASSUME NEW tx \in orphans' PROVE Backed(tx.account, tx.nonce, tx.token)'
            BY DEF OrphansBacked
        <2>1. Backed(tx.account, tx.nonce, tx.token)
            OBVIOUS
        <2> QED
            BY <2>1, SameLog
    <1>3. PICK d \in Devices : d = DeviceOf[c]
        BY CallFields
    <1>4. k \in CallStates
        BY DEF TypeOK
    <1>5. DistinctTokens(d)' /\ Progress(k, d)'
        <2>1. Stored(d)' = Stored(d) /\ DistinctTokens(d) /\ Progress(k, d)
            BY <1>3 DEF SyncInv
        <2>2. DistinctTokens(d)'
            BY <2>1 DEF DistinctTokens
        <2> QED
            BY <1>1, <1>4, <2>1, <2>2, ProgressStays
    <1>6. \A b \in Devices \ {DeviceOf[c]} : Stored(b)' = Stored(b)
        OBVIOUS
    <1> QED
        BY <1>1, <1>2, <1>3, <1>5, <1>6, OthersStay

-----------------------------------------------------------------------------
(* Each action keeps what a sync has covered. *)

\* A call that is not under way has nothing to keep.
LEMMA IdleProgress == \A d : Progress(Idle, d)
    BY DEF Progress, Idle

\* A call that ends.
LEMMA ThrowProgress ==
    ASSUME TypeOK, TypeOK', SyncInv, OneCallPerDevice, NEW c \in Calls, Throw(c),
           UNCHANGED <<log, mined>>, \A d \in Devices : Stored(d)' = Stored(d),
           \A tx \in orphans' : Backed(tx.account, tx.nonce, tx.token)
    PROVE  SyncInv'
    <1>1. call'[c] = Idle /\ \A e \in Calls \ {c} : call'[e] = call[e]
        BY DEF Throw, Return, TypeOK
    <1> QED
        BY <1>1, IdleProgress, CallProgress

\* What Goto changes.
LEMMA GotoFields ==
    ASSUME TypeOK, NEW c \in Calls, NEW pc, Goto(c, pc)
    PROVE  /\ \A e \in Calls \ {c} : call'[e] = call[e]
           /\ call'[c].pc = pc /\ call'[c].op = call[c].op /\ call'[c].token = call[c].token
           /\ call'[c].cursor = call[c].cursor /\ call'[c].state = call[c].state
           /\ call'[c].start = call[c].start
    <1>1. call \in [Calls -> CallStates] /\ call[c] \in CallStates
        BY DEF TypeOK
    <1>2. call'[c] = [call[c] EXCEPT !.pc = pc] /\ \A e \in Calls \ {c} : call'[e] = call[e]
        BY <1>1 DEF Goto
    <1> QED
        BY <1>1, <1>2 DEF CallStates

\* A sync begins: nothing is covered, and what it compares with is on chain now.
LEMMA StartProgress ==
    ASSUME Inv, Inv', SyncInv, OneCallPerDevice, NEW c \in Calls, NEW op, NEW token,
           op \in {"shield", "withdraw", "sync"}, Start(c, op, token)
    PROVE  SyncInv'
    <1>1. PICK k : k = call'[c]
        OBVIOUS
    <1>2. TypeOK /\ TypeOK' /\ call \in [Calls -> CallStates]
        BY DEF Inv, TypeOK
    <1> DEFINE start == IF op = "sync" THEN ChainNow ELSE None
               pc == IF storage[DeviceOf[c]] = None THEN "init"
                     ELSE IF op = "sync" THEN "next" ELSE "read"
    <1>3. /\ call' = [call EXCEPT ![c] = [Idle EXCEPT !.op = op, !.token = token, !.start = start, !.pc = pc]]
          /\ UNCHANGED <<log, mined, orphans, storage>>
        BY DEF Start
    <1>4. pc \in {"init", "next", "read"} /\ (op = "sync" => pc # "read") /\ (pc = "next" => op = "sync")
        OBVIOUS
    <1>5. op = "sync" => start = [i \in 0..(MaxEvents - 1) |-> MinedCount(i)]
        BY DEF ChainNow
    <1> HIDE DEF start, pc
    <1>6. /\ k.pc = pc /\ k.op = op /\ k.cursor = 0 /\ k.start = start
          /\ \A e \in Calls \ {c} : call'[e] = call[e]
        BY <1>1, <1>2, <1>3 DEF Idle
    <1>7. PICK d \in Devices : d = DeviceOf[c]
        BY <1>2, CallFields
    <1>8. Len(Stored(d)) \in Nat
        BY <1>2, StoredSeq
    <1>9. op = "sync" => Begun(k)
        <2> SUFFICES ASSUME op = "sync"
                     PROVE  Begun(k)
            OBVIOUS
        <2>1. \A i \in 0..(MaxEvents - 1) : MinedCount(i) \in Nat
            BY <1>2, Counts
        <2>2. \A i \in 0..(MaxEvents - 1) : k.start[i] <= MinedCount(i)
            BY <1>5, <1>6, <2>1
        <2>3. k.start \in [0..(MaxEvents - 1) -> Nat]
            BY <1>5, <1>6, <2>1
        <2> QED
            BY <2>2, <2>3 DEF Begun
    <1>10. Covered(k, d, 0)
        BY DEF Covered
    <1>11. Progress(k, d)
        BY <1>4, <1>6, <1>8, <1>9, <1>10 DEF Progress
    <1>12. /\ \A b \in Devices : Stored(b)' = Stored(b)
           /\ \A tx \in orphans' : Backed(tx.account, tx.nonce, tx.token)
        BY <1>3 DEF Stored, SyncInv, OrphansBacked
    <1> QED
        BY <1>1, <1>2, <1>3, <1>6, <1>7, <1>11, <1>12, CallProgress

\* A storage that is not there has no account of any token, so the cursor is at its end.
LEMMA InitProgress ==
    ASSUME Inv, Inv', SyncInv, OneCallPerDevice, NEW c \in Calls, InitStorage(c)
    PROVE  SyncInv'
    <1>1. /\ call[c].pc = "init" /\ storage' = [storage EXCEPT ![DeviceOf[c]] = <<>>]
          /\ UNCHANGED <<log, mined, orphans, lock, reported>>
        BY DEF InitStorage
    <1>2. /\ TypeOK /\ TypeOK' /\ call[c] \in CallStates /\ DeviceOf[c] \in Devices
          /\ storage[DeviceOf[c]] = None
        BY <1>1, CallFields DEF Inv, InitOnce
    <1>3. PICK d \in Devices : d = DeviceOf[c]
        BY <1>2
    <1>4. /\ \A b \in Devices : Stored(b)' = Stored(b)
          /\ \A tx \in orphans' : Backed(tx.account, tx.nonce, tx.token)
          /\ Stored(d) = <<>> /\ Progress(call[c], d)
        BY <1>1, <1>2, <1>3 DEF Stored, TypeOK, SyncInv, OrphansBacked
    <1>5. Len(Stored(d)) = 0
        BY <1>4
    <1>6. ASSUME NEW pc, Goto(c, pc), \/ pc = "probe" /\ call[c].op = "sync"
                                      \/ pc = "create" /\ call[c].op = "shield"
          PROVE  SyncInv'
        <2>1. PICK k : k = call'[c]
            OBVIOUS
        <2>2. /\ \A e \in Calls \ {c} : call'[e] = call[e]
              /\ k.pc = pc /\ k.op = call[c].op /\ k.cursor = call[c].cursor /\ k.start = call[c].start
            BY <1>2, <1>6, <2>1, GotoFields
        <2>3. k.op = "sync" => Begun(k)
            BY <1>1, <1>4, <2>2 DEF Progress, Begun
        <2>4. k.cursor = 0
            BY <1>1, <1>4, <2>2 DEF Progress
        <2>5. Covered(k, d, 0)
            BY DEF Covered
        <2>6. Progress(k, d)
            BY <1>5, <1>6, <2>2, <2>3, <2>4, <2>5 DEF Progress
        <2> QED
            BY <1>1, <1>2, <1>3, <1>4, <2>1, <2>2, <2>6, CallProgress
    <1>7. CASE Throw(c)
        BY <1>1, <1>2, <1>4, <1>7, ThrowProgress
    <1> QED
        BY <1>6, <1>7 DEF InitStorage

\* A stored account is a reason to go on with it.
LEMMA StoredBacked ==
    ASSUME TypeOK, StoredStateIsOnChain, NEW d \in Devices, NEW i \in 1..Len(Stored(d))
    PROVE  \E e \in Mined : /\ e \in 1..Len(log) /\ log[e].account = i - 1
                            /\ log[e].token = Stored(d)[i].token /\ Stored(d)[i].index = i - 1
                            /\ Stored(d)[i].nonce \in Nat \ {0}
    <1>1. PICK e \in Mined : /\ log[e].account = Stored(d)[i].index /\ log[e].token = Stored(d)[i].token
                             /\ log[e].nonce + 1 = Stored(d)[i].nonce /\ Stored(d)[i].index = i - 1
        BY DEF StoredStateIsOnChain
    <1>2. e \in 1..Len(log) /\ log[e].nonce \in Nat
        BY EventFields DEF Mined
    <1> QED
        BY <1>1, <1>2

\* A call sends for the account that is stored, or for a new one of a token that no
\* stored account has.
LEMMA ReadProgress ==
    ASSUME Inv, Inv', SyncInv, OneCallPerDevice, NEW c \in Calls, Read(c) \/ Create(c)
    PROVE  SyncInv'
    <1>0. /\ TypeOK /\ TypeOK' /\ StoredStateIsOnChain /\ call \in [Calls -> CallStates]
          /\ call[c] \in CallStates /\ WellFormed(call[c])
        BY CallFields DEF Inv, TypeOK
    <1>1. call[c].pc \in {"read", "create"} /\ UNCHANGED <<log, mined, orphans, storage>>
        BY DEF Read, Create
    <1>2. PICK d \in Devices : d = DeviceOf[c]
        BY <1>0, CallFields
    <1>3. PICK token \in Tokens : token = call[c].token
        BY <1>0, <1>1 DEF WellFormed
    <1>4. /\ \A b \in Devices : Stored(b)' = Stored(b)
          /\ \A tx \in orphans' : Backed(tx.account, tx.nonce, tx.token)
          /\ Progress(call[c], d)
        BY <1>1, <1>2 DEF Stored, SyncInv, OrphansBacked
    <1>5. call[c].op # "sync"
        BY <1>1, <1>4 DEF Progress
    <1>6. ASSUME NEW state \in AccountStates, Backed(state.index, state.nonce, state.token),
                 call' = [call EXCEPT ![c].pc = "send", ![c].state = state]
          PROVE  SyncInv'
        <2>1. PICK k : k = call'[c]
            OBVIOUS
        <2>2. k = [call[c] EXCEPT !.pc = "send", !.state = state] /\ \A e \in Calls \ {c} : call'[e] = call[e]
            BY <1>0, <1>6, <2>1 DEF CallStates
        <2>3. k.pc = "send" /\ k.op = call[c].op /\ k.state = state
            BY <1>0, <2>2 DEF CallStates
        <2>4. Progress(k, d)
            BY <1>5, <1>6, <2>3 DEF Progress
        <2> QED
            BY <1>0, <1>1, <1>2, <1>4, <2>1, <2>2, <2>4, CallProgress
    <1>7. ASSUME Goto(c, "create"), \A i \in 1..Len(Stored(d)) : Stored(d)[i].token # token
          PROVE  SyncInv'
        <2>1. PICK k : k = call'[c]
            OBVIOUS
        <2>2. /\ \A e \in Calls \ {c} : call'[e] = call[e]
              /\ k.pc = "create" /\ k.op = call[c].op /\ k.token = token
            BY <1>0, <1>3, <1>7, <2>1, GotoFields
        <2>3. Progress(k, d)
            BY <1>5, <1>7, <2>2 DEF Progress
        <2> QED
            BY <1>0, <1>1, <1>2, <1>4, <2>1, <2>2, <2>3, CallProgress
    <1>8. CASE Throw(c)
        BY <1>0, <1>1, <1>4, <1>8, ThrowProgress
    <1>9. CASE Read(c)
        <2>1. PICK state : state = AccountState(d, token)
            OBVIOUS
        <2>2. CASE state = None
            <3>1. StoredAt(d, token) = {}
                <4> SUFFICES ASSUME StoredAt(d, token) # {} PROVE FALSE
                    OBVIOUS
                <4>1. state = Current(d, token)
                    BY <2>1 DEF AccountState, Current
                <4> QED
                    BY <1>0, <2>2, <4>1, CurrentFacts, SdkAssumption
            <3>2. \A i \in 1..Len(Stored(d)) : Stored(d)[i].token # token
                BY <1>0, <3>1, CurrentFacts
            <3>3. Goto(c, "create") \/ Throw(c)
                BY <1>2, <1>3, <1>9, <2>1, <2>2 DEF Read
            <3> QED
                BY <1>7, <1>8, <3>2, <3>3
        <2>3. CASE state # None
            <3>1. StoredAt(d, token) # {}
                BY <2>1, <2>3 DEF AccountState
            <3>2. state = Current(d, token)
                BY <2>1, <3>1 DEF AccountState, Current
            <3>3. state \in AccountStates /\ state.index < Len(Stored(d)) /\ Stored(d)[state.index + 1] = state
                BY <1>0, <3>1, <3>2, CurrentFacts
            <3>4. state.index + 1 \in 1..Len(Stored(d)) /\ state.index + 1 - 1 = state.index
                BY <1>0, <3>3, StoredSeq DEF AccountStates
            <3>5. PICK e \in Mined : /\ e \in 1..Len(log) /\ log[e].account = state.index
                                     /\ log[e].token = state.token /\ state.nonce \in Nat \ {0}
                BY <1>0, <3>3, <3>4, StoredBacked
            <3>6. Backed(state.index, state.nonce, state.token)
                BY <3>5 DEF Backed
            <3>7. call' = [call EXCEPT ![c].pc = "send", ![c].state = state]
                BY <1>2, <1>3, <1>9, <2>1, <2>3 DEF Read
            <3> QED
                BY <1>6, <3>3, <3>6, <3>7
        <2> QED
            BY <2>2, <2>3
    <1>10. CASE Create(c)
        <2>1. PICK state : state = EmptyAccountState(d, token)
            OBVIOUS
        <2>2. /\ state \in AccountStates /\ state.index = Len(Stored(d)) /\ state.nonce = 0
              /\ state.token = token /\ Len(Stored(d)) \in Nat
            BY <1>0, <2>1, StoredSeq DEF EmptyAccountState, AccountStates
        <2>3. ASSUME NEW b \in 0..(Len(Stored(d)) - 1)
              PROVE  \E f \in 1..Len(log) : log[f].account = b /\ log[f].token # token
            <3>1. b + 1 \in 1..Len(Stored(d)) /\ b + 1 - 1 = b
                BY <2>2
            <3>2. Stored(d)[b + 1].token # token
                BY <1>2, <1>3, <1>4, <1>10, <3>1 DEF Progress, Create
            <3> QED
                BY <1>0, <3>1, <3>2, StoredBacked
        <2>4. Backed(state.index, state.nonce, state.token)
            BY <2>2, <2>3 DEF Backed
        <2>5. call' = [call EXCEPT ![c].pc = "send", ![c].state = state]
            BY <1>2, <1>3, <1>10, <2>1 DEF Create
        <2> QED
            BY <1>6, <2>2, <2>4, <2>5
    <1> QED
        BY <1>9, <1>10

\* The transaction of a call fits the chain.
LEMMA TxBacked ==
    ASSUME TypeOK, SyncInv, NEW c \in Calls, call[c].pc = "send", NEW tx, tx = TxOf(c)
    PROVE  tx.nonce \in Nat /\ tx.account \in Nat /\ Backed(tx.account, tx.nonce, tx.token)
    <1>1. tx \in Transactions
        BY Sent
    <1>2. tx.account = call[c].state.index /\ tx.nonce = call[c].state.nonce /\ tx.token = call[c].state.token
        BY DEF TxOf
    <1>3. Progress(call[c], DeviceOf[c])
        BY DEF SyncInv
    <1> QED
        BY <1>1, <1>2, <1>3 DEF Progress, Transactions

\* A transaction goes into the log, or nobody waits for it any more.
LEMMA SendProgress ==
    ASSUME Inv, Inv', SyncInv, OneCallPerDevice, NEW c \in Calls,
           Include(c) \/ GiveUp(c) \/ Receipt(c) \/ Synced(c)
    PROVE  SyncInv'
    <1>0. TypeOK /\ TypeOK' /\ call[c] \in CallStates
        BY CallFields DEF Inv
    <1>1. PICK d \in Devices : d = DeviceOf[c]
        BY <1>0, CallFields
    <1>2. Progress(call[c], d) /\ \A tx \in orphans : Backed(tx.account, tx.nonce, tx.token)
        BY <1>1 DEF SyncInv, OrphansBacked
    <1>3. UNCHANGED storage /\ \A b \in Devices : Stored(b)' = Stored(b)
        BY DEF Include, GiveUp, Receipt, Synced, Stored
    <1>4. PICK k : k = call'[c]
        OBVIOUS
    <1>5. CASE Include(c)
        <2>1. call[c].pc = "send" /\ UNCHANGED <<mined, orphans>> /\ call[c].op # "sync"
            BY <1>2, <1>5 DEF Include, Progress
        <2>2. CASE Accepts(TxOf(c)) /\ log' = Append(log, Event(TxOf(c))) /\ Goto(c, "receipt")
            <3>1. PICK tx : tx = TxOf(c)
                OBVIOUS
            <3>2. tx.nonce \in Nat /\ tx.account \in Nat /\ Backed(tx.account, tx.nonce, tx.token)
                BY <1>0, <2>1, <3>1, TxBacked
            <3>3. Accepts(tx) /\ log' = Append(log, Event(tx)) /\ ChainInv
                BY <2>2, <3>1 DEF SyncInv
            <3>4. ChainInv' /\ Extends
                BY <1>0, <2>1, <3>2, <3>3, AppendedInOrder
            <3>5. OrphansBacked'
                BY <1>0, <1>2, <2>1, <3>4, BackedStays DEF OrphansBacked
            <3>6. /\ \A e \in Calls \ {c} : call'[e] = call[e]
                  /\ k.pc = "receipt" /\ k.op = call[c].op
                BY <1>0, <1>4, <2>2, GotoFields
            <3>7. Progress(k, d)'
                BY <2>1, <3>6 DEF Progress
            <3>8. DistinctTokens(d)'
                <4>1. Stored(d)' = Stored(d) /\ DistinctTokens(d)
                    BY <1>3 DEF SyncInv
                <4> QED
                    BY <4>1 DEF DistinctTokens
            <3> QED
                BY <1>0, <1>1, <1>3, <1>4, <3>4, <3>5, <3>6, <3>7, <3>8, OthersStay
        <2>3. CASE Throw(c) /\ UNCHANGED log
            BY <1>0, <1>2, <1>3, <2>1, <2>3, ThrowProgress
        <2> QED
            BY <1>5, <2>2, <2>3 DEF Include
    <1>6. CASE GiveUp(c)
        <2>1. Throw(c) /\ UNCHANGED <<log, mined>>
            BY <1>6 DEF GiveUp
        <2>2. \/ call[c].pc = "send" /\ orphans' = orphans \cup {TxOf(c)}
              \/ UNCHANGED orphans
            BY <1>6 DEF GiveUp
        <2>3. ASSUME NEW tx \in orphans' PROVE Backed(tx.account, tx.nonce, tx.token)
            <3>1. CASE tx \in orphans
                BY <1>2, <3>1
            <3>2. CASE tx \notin orphans
                <4>1. call[c].pc = "send" /\ tx = TxOf(c)
                    BY <2>2, <3>2
                <4> QED
                    BY <1>0, <4>1, TxBacked
            <3> QED
                BY <3>1, <3>2
        <2> QED
            BY <1>0, <1>3, <2>1, <2>3, ThrowProgress
    <1>7. CASE Receipt(c)
        <2>1. call[c].pc = "receipt" /\ Goto(c, "load") /\ UNCHANGED <<log, mined, orphans>>
            BY <1>7 DEF Receipt
        <2>2. /\ \A e \in Calls \ {c} : call'[e] = call[e]
              /\ k.pc = "load" /\ k.op = call[c].op
            BY <1>0, <1>4, <2>1, GotoFields
        <2>3. Progress(k, d)
            BY <1>2, <2>1, <2>2 DEF Progress
        <2> QED
            BY <1>0, <1>1, <1>2, <1>3, <1>4, <2>1, <2>2, <2>3, CallProgress
    <1>8. CASE Synced(c)
        BY <1>0, <1>2, <1>3, <1>8, ThrowProgress DEF Synced, Throw
    <1> QED
        BY <1>5, <1>6, <1>7, <1>8

\* What is covered depends on where the sync began, not on where it is.
LEMMA CoveredBySame ==
    ASSUME NEW k, NEW r, k.start = r.start, NEW d, NEW n, Covered(r, d, n)
    PROVE  Covered(k, d, n)
    BY DEF Covered

\* A sync goes to an account that is stored, or that it has found on chain.
LEMMA SyncNextProgress ==
    ASSUME Inv, Inv', SyncInv, OneCallPerDevice, NEW c \in Calls, NEW token, SyncNext(c, token),
           UNCHANGED <<log, mined, orphans, storage>>, call[c].pc \in {"next", "probe"},
           NEW d, d = DeviceOf[c],
           \/ call[c].cursor < Len(Stored(d)) /\ Stored(d)[call[c].cursor + 1].token = token
           \/ /\ call[c].cursor = Len(Stored(d))
              /\ \E e \in Mined : /\ log[e].account = call[c].cursor /\ log[e].nonce = 0
                                  /\ log[e].token = token
    PROVE  SyncInv'
    <1>0. TypeOK /\ TypeOK' /\ call \in [Calls -> CallStates] /\ call[c] \in CallStates /\ d \in Devices
        BY CallFields DEF Inv, TypeOK
    <1>1. PICK k : k = call'[c]
        OBVIOUS
    <1>2. Progress(call[c], d)
        BY DEF SyncInv
    <1>3. PICK n \in Nat : n = call[c].cursor
        BY <1>0 DEF CallStates
    <1>4. /\ k = [call[c] EXCEPT !.pc = "load", !.cursor = n + 1, !.token = token]
          /\ \A e \in Calls \ {c} : call'[e] = call[e]
        BY <1>0, <1>1, <1>3 DEF SyncNext, CallStates
    <1>5. k.pc = "load" /\ k.cursor = n + 1 /\ k.token = token /\ k.op = call[c].op /\ k.start = call[c].start
        BY <1>0, <1>4 DEF CallStates
    <1>6. k.op = "sync" /\ Begun(k) /\ Covered(k, d, n)
        <2>1. call[c].op = "sync" /\ Begun(call[c]) /\ Covered(call[c], d, n)
            BY <1>2, <1>3 DEF Progress
        <2> QED
            BY <1>5, <2>1, CoveredBySame DEF Begun
    <1>7. n + 1 > 0 /\ n + 1 - 1 = n /\ Len(Stored(d)) \in Nat /\ (n < Len(Stored(d)) => n + 1 <= Len(Stored(d)))
        BY <1>0, StoredSeq
    <1>8. AtCursor(k, d)
        BY <1>3, <1>5, <1>7 DEF AtCursor
    <1>9. Covered(k, d, k.cursor - 1)
        BY <1>5, <1>6, <1>7
    <1>10. Progress(k, d)
        BY <1>5, <1>6, <1>8, <1>9 DEF Progress
    <1>11. /\ \A b \in Devices : Stored(b)' = Stored(b)
           /\ \A tx \in orphans' : Backed(tx.account, tx.nonce, tx.token)
        BY DEF Stored, SyncInv, OrphansBacked
    <1> QED
        BY <1>0, <1>1, <1>4, <1>10, <1>11, CallProgress

\* The cursor moves past the stored accounts, then along the accounts on chain.
LEMMA NextProgress ==
    ASSUME Inv, Inv', SyncInv, OneCallPerDevice, NEW c \in Calls, NextAccount(c) \/ Probe(c)
    PROVE  SyncInv'
    <1>0. /\ TypeOK /\ TypeOK' /\ call[c] \in CallStates /\ ChainInv
        BY CallFields DEF Inv, SyncInv
    <1>1. call[c].pc \in {"next", "probe"} /\ UNCHANGED <<log, mined, orphans, storage>>
        BY DEF NextAccount, Probe
    <1>2. PICK d \in Devices : d = DeviceOf[c]
        BY <1>0, CallFields
    <1>3. PICK n \in Nat : n = call[c].cursor
        BY <1>0 DEF CallStates
    <1>4. /\ \A b \in Devices : Stored(b)' = Stored(b)
          /\ \A tx \in orphans' : Backed(tx.account, tx.nonce, tx.token)
          /\ Progress(call[c], d) /\ Len(Stored(d)) \in Nat
        BY <1>0, <1>1, <1>2, StoredSeq DEF Stored, SyncInv, OrphansBacked
    <1>5. /\ call[c].op = "sync" /\ Begun(call[c]) /\ Covered(call[c], d, n)
          /\ call[c].pc = "next" => n <= Len(Stored(d))
          /\ call[c].pc = "probe" => n = Len(Stored(d))
        BY <1>1, <1>3, <1>4 DEF Progress
    <1>6. PICK k : k = call'[c]
        OBVIOUS
    <1>7. ASSUME NEW pc, Goto(c, pc), \/ pc = "probe" /\ n = Len(Stored(d))
                                      \/ pc = "synced" /\ Covered(call[c], d, MaxEvents)
          PROVE  SyncInv'
        <2>1. /\ \A e \in Calls \ {c} : call'[e] = call[e]
              /\ k.pc = pc /\ k.op = "sync" /\ k.cursor = n /\ k.start = call[c].start
            BY <1>0, <1>3, <1>5, <1>6, <1>7, GotoFields
        <2>2. Begun(k) /\ Covered(k, d, n) /\ (Covered(call[c], d, MaxEvents) => Covered(k, d, MaxEvents))
            BY <1>5, <2>1, CoveredBySame DEF Begun
        <2>3. Progress(k, d)
            BY <1>7, <2>1, <2>2 DEF Progress
        <2> QED
            BY <1>0, <1>1, <1>2, <1>4, <1>6, <2>1, <2>3, CallProgress
    <1>8. CASE NextAccount(c)
        <2>1. CASE n < Len(Stored(d))
            <3>1. PICK token : token = Stored(d)[n + 1].token
                OBVIOUS
            <3>2. SyncNext(c, token)
                BY <1>2, <1>3, <1>8, <2>1, <3>1 DEF NextAccount, SyncNext
            <3> QED
                BY <1>1, <1>2, <1>3, <2>1, <3>1, <3>2, SyncNextProgress
        <2>2. CASE ~(n < Len(Stored(d)))
            <3>1. Goto(c, "probe") /\ call[c].pc = "next"
                BY <1>2, <1>3, <1>8, <2>2 DEF NextAccount
            <3>2. n = Len(Stored(d))
                BY <1>4, <1>5, <2>2, <3>1
            <3> QED
                BY <1>7, <3>1, <3>2
        <2> QED
            BY <2>1, <2>2
    <1>9. CASE Probe(c)
        <2> DEFINE opened == {i \in Mined : log[i].account = n /\ log[i].nonce = 0}
        <2>1. /\ n = Len(Stored(d))
              /\ \/ opened = {} /\ Goto(c, "synced")
                 \/ \E i \in opened : SyncNext(c, log[i].token)
            BY <1>3, <1>5, <1>9 DEF Probe
        <2>2. ASSUME NEW i \in opened, SyncNext(c, log[i].token) PROVE SyncInv'
            <3>1. PICK token : token = log[i].token
                OBVIOUS
            <3>2. SyncNext(c, token)
                BY <2>2, <3>1 DEF SyncNext
            <3> QED
                BY <1>1, <1>2, <1>3, <2>1, <3>1, <3>2, SyncNextProgress
        <2>3. CASE opened = {} /\ Goto(c, "synced")
            <3>1. ASSUME NEW i \in 0..(MaxEvents - 1), call[c].start[i] > 0 PROVE i < n
                <4> SUFFICES ASSUME n <= i PROVE FALSE
                    OBVIOUS
                <4>1. call[c].start[i] \in Nat /\ call[c].start[i] <= MinedCount(i) /\ MinedCount(i) \in Nat
                    BY <1>0, <1>5, Counts DEF Begun
                <4>2. ~(MinedCount(i) <= 0)
                    BY <3>1, <4>1
                <4>3. PICK e \in Mined : log[e].account = i
                    BY <1>0, <4>2, SeenAtMost DEF ChainInv
                <4>4. \E f \in Mined : log[f].account = n
                    <5>1. CASE i = n
                        BY <4>3, <5>1
                    <5>2. CASE i # n
                        <6>1. n \in 0..(i - 1) /\ i \in Nat /\ e \in 1..mined /\ e \in 1..Len(log)
                            BY <1>0, <5>2, EventFields DEF Mined
                        <6>2. PICK f \in 1..(e - 1) : log[f].account = n
                            BY <1>0, <4>3, <6>1 DEF ChainInv, InOrder
                        <6>3. f \in Mined
                            BY <1>0, <6>1, <6>2, EventFields DEF Mined
                        <6> QED
                            BY <6>2, <6>3
                    <5> QED
                        BY <5>1, <5>2
                <4>5. opened # {}
                    BY <1>0, <4>4, OpeningSeen DEF ChainInv
                <4> QED
                    BY <2>3, <4>5
            <3>2. Covered(call[c], d, MaxEvents)
                BY <1>5, <3>1 DEF Covered
            <3> QED
                BY <1>7, <2>3, <3>2
        <2> QED
            BY <2>1, <2>2, <2>3
    <1> QED
        BY <1>8, <1>9

\* The account that the storage or the chain has at the cursor is the one that the registry
\* finds by its token.
LEMMA CursorAccount ==
    ASSUME TypeOK, StoredStateIsOnChain, SyncInv, NEW d \in Devices, NEW token \in Tokens,
           NEW k \in CallStates, AtCursor(k, d), k.token = token
    PROVE  /\ Current(d, token).index = k.cursor - 1
           /\ \/ k.cursor \in 1..Len(Stored(d)) /\ Stored(d)[k.cursor] = Current(d, token)
              \/ /\ k.cursor = Len(Stored(d)) + 1 /\ Current(d, token).nonce = 0
                 /\ Successor(Current(d, token)) # {}
    <1>1. PICK n \in Nat : n = k.cursor
        BY DEF CallStates
    <1>2. PICK state : state = Current(d, token)
        OBVIOUS
    <1>3. /\ Len(Stored(d)) \in Nat /\ state.index \in Nat /\ state.token = token
          /\ \/ /\ StoredAt(d, token) = {} /\ state.index = Len(Stored(d)) /\ state.nonce = 0
                /\ \A i \in 1..Len(Stored(d)) : Stored(d)[i].token # token
             \/ state.index < Len(Stored(d)) /\ Stored(d)[state.index + 1] = state
        BY <1>2, StoredSeq, CurrentFacts DEF AccountStates
    <1>4. CASE n <= Len(Stored(d)) /\ Stored(d)[n].token = token
        <2>1. n \in 1..Len(Stored(d))
            BY <1>1, <1>3, <1>4 DEF AtCursor
        <2>2. state.index < Len(Stored(d)) /\ Stored(d)[state.index + 1] = state
            BY <1>3, <1>4, <2>1
        <2>3. state.index + 1 \in 1..Len(Stored(d))
            BY <1>3, <2>2
        <2>4. state.index + 1 = n
            BY <1>3, <1>4, <2>1, <2>2, <2>3 DEF SyncInv, DistinctTokens
        <2>5. state.index = n - 1
            BY <1>3, <2>4
        <2> QED
            BY <1>1, <1>2, <2>1, <2>2, <2>4, <2>5
    <1>5. CASE /\ n = Len(Stored(d)) + 1
               /\ \E e \in Mined : /\ log[e].account = n - 1 /\ log[e].nonce = 0
                                   /\ log[e].token = token
        <2>1. n - 1 = Len(Stored(d))
            BY <1>3, <1>5
        <2>2. PICK e \in Mined : log[e].account = Len(Stored(d)) /\ log[e].nonce = 0 /\ log[e].token = token
            BY <1>5, <2>1
        <2>3. e \in 1..Len(log)
            BY EventFields DEF Mined
        <2>4. ASSUME state.index < Len(Stored(d)), Stored(d)[state.index + 1] = state PROVE FALSE
            <3>1. state.index + 1 \in 1..Len(Stored(d)) /\ state.index + 1 - 1 = state.index
                BY <1>3, <2>4
            <3>2. PICK f \in 1..Len(log) : log[f].account = state.index /\ log[f].token = token
                BY <1>3, <2>4, <3>1, StoredBacked
            <3>3. log[f].account = log[e].account
                BY <1>3, <2>2, <2>3, <3>2 DEF SyncInv, ChainInv, OneToken
            <3> QED
                BY <1>3, <2>2, <2>4, <3>2, <3>3
        <2>5. state.index = Len(Stored(d)) /\ state.nonce = 0
            BY <1>3, <2>4
        <2>6. e \in Successor(state)
            BY <2>2, <2>5 DEF Successor
        <2> QED
            BY <1>1, <1>2, <1>5, <2>1, <2>5, <2>6
    <1> QED
        BY <1>1, <1>4, <1>5 DEF AtCursor

\* The holder of the mutex works on its account.
LEMMA WorkProgress ==
    ASSUME Inv, Inv', SyncInv, OneCallPerDevice, NEW c \in Calls, NEW pc, NEW state,
           call' = [call EXCEPT ![c].pc = pc, ![c].state = state],
           \/ call[c].pc = "load" /\ pc = "find"
           \/ call[c].pc = "find" /\ pc = "save",
           UNCHANGED <<log, mined, orphans, storage>>
    PROVE  SyncInv'
    <1>0. TypeOK /\ TypeOK' /\ call \in [Calls -> CallStates] /\ call[c] \in CallStates
        BY CallFields DEF Inv, TypeOK
    <1>1. PICK d \in Devices : d = DeviceOf[c]
        BY <1>0, CallFields
    <1>2. PICK k : k = call'[c]
        OBVIOUS
    <1>3. k = [call[c] EXCEPT !.pc = pc, !.state = state] /\ \A e \in Calls \ {c} : call'[e] = call[e]
        BY <1>0, <1>2 DEF CallStates
    <1>4. /\ k.pc = pc /\ k.op = call[c].op /\ k.token = call[c].token /\ k.cursor = call[c].cursor
          /\ k.start = call[c].start
        BY <1>0, <1>3 DEF CallStates
    <1>5. /\ \A b \in Devices : Stored(b)' = Stored(b)
          /\ \A tx \in orphans' : Backed(tx.account, tx.nonce, tx.token)
          /\ Progress(call[c], d)
        BY <1>1 DEF Stored, SyncInv, OrphansBacked
    <1>6. k.op = "sync" => Begun(k) /\ AtCursor(k, d) /\ Covered(k, d, k.cursor - 1)
        <2> SUFFICES ASSUME k.op = "sync" PROVE Begun(k) /\ AtCursor(k, d) /\ Covered(k, d, k.cursor - 1)
            OBVIOUS
        <2>1. Begun(call[c]) /\ AtCursor(call[c], d) /\ Covered(call[c], d, call[c].cursor - 1)
            BY <1>4, <1>5 DEF Progress
        <2>2. Covered(k, d, k.cursor - 1)
            BY <1>4, <2>1 DEF Covered
        <2> QED
            BY <1>4, <2>1, <2>2 DEF Begun, AtCursor
    <1>7. Progress(k, d)
        BY <1>4, <1>6 DEF Progress
    <1> QED
        BY <1>0, <1>1, <1>2, <1>3, <1>5, <1>7, CallProgress

\* A sync leaves an account when the chain has no more of it.
LEMMA FindProgress ==
    ASSUME Inv, Inv', SyncInv, OneCallPerDevice, NEW c \in Calls, Find(c)
    PROVE  SyncInv'
    <1>0. /\ TypeOK /\ TypeOK' /\ StoredStateIsOnChain /\ call \in [Calls -> CallStates]
          /\ call[c] \in CallStates /\ ChainInv
        BY CallFields DEF Inv, TypeOK, SyncInv
    <1>1. call[c].pc = "find" /\ UNCHANGED <<log, mined, orphans, storage>>
        BY DEF Find
    <1>2. PICK d \in Devices : d = DeviceOf[c]
        BY <1>0, CallFields
    <1>3. /\ \A b \in Devices : Stored(b)' = Stored(b)
          /\ \A tx \in orphans' : Backed(tx.account, tx.nonce, tx.token)
          /\ Progress(call[c], d)
        BY <1>1, <1>2 DEF Stored, SyncInv, OrphansBacked
    <1>4. CASE Throw(c)
        BY <1>0, <1>1, <1>3, <1>4, ThrowProgress
    <1>5. CASE /\ call[c].op = "sync" /\ Successor(call[c].state) = {}
               /\ call' = [call EXCEPT ![c].pc = "next", ![c].token = None, ![c].state = None]
        <2>1. PICK k : k = call'[c]
            OBVIOUS
        <2>2. /\ k = [call[c] EXCEPT !.pc = "next", !.token = None, !.state = None]
              /\ \A e \in Calls \ {c} : call'[e] = call[e]
            BY <1>0, <1>5, <2>1 DEF CallStates
        <2>3. k.pc = "next" /\ k.op = "sync" /\ k.cursor = call[c].cursor /\ k.start = call[c].start
            BY <1>0, <1>5, <2>2 DEF CallStates
        <2>4. PICK token \in Tokens : token = call[c].token
            BY <1>0, <1>1, CallFields DEF WellFormed
        <2>5. PICK state : state = call[c].state
            OBVIOUS
        <2>6. PICK n \in Nat : n = call[c].cursor
            BY <1>0 DEF CallStates
        <2>7. state = Current(d, token) /\ state \in AccountStates /\ state.nonce \in Nat
            <3>1. state = Current(d, token)
                BY <1>1, <1>2, <2>4, <2>5 DEF Inv, InStep, Working
            <3> QED
                BY <1>0, <3>1, CurrentFacts DEF AccountStates
        <2>8. /\ AtCursor(call[c], d) /\ Begun(call[c]) /\ Covered(call[c], d, n - 1)
            BY <1>1, <1>3, <1>5, <2>6 DEF Progress
        <2>9. state.index = n - 1 /\ n \in 1..Len(Stored(d)) /\ Stored(d)[n] = state
            BY <1>0, <1>5, <2>4, <2>5, <2>6, <2>7, <2>8, CursorAccount
        <2>10. MinedCount(n - 1) <= state.nonce
            BY <1>0, <1>5, <2>5, <2>7, <2>9, SeenAtMost DEF Successor, ChainInv
        <2>11. MinedCount(n - 1) \in Nat /\ Len(Stored(d)) \in Nat
            BY <1>0, Counts, StoredSeq
        <2>12. Covered(k, d, n)
            <3> SUFFICES ASSUME NEW i \in 0..(MaxEvents - 1), i < n, k.start[i] > 0
                         PROVE  i < Len(Stored(d)) /\ Stored(d)[i + 1].nonce >= k.start[i]
                BY DEF Covered
            <3>1. CASE i = n - 1
                <4>1. k.start[i] \in Nat /\ k.start[i] <= MinedCount(n - 1)
                    BY <2>3, <2>8, <3>1 DEF Begun
                <4>2. i + 1 = n /\ i < Len(Stored(d))
                    BY <2>9, <2>11, <3>1
                <4>3. Stored(d)[n].nonce >= k.start[i]
                    BY <2>7, <2>9, <2>10, <2>11, <4>1
                <4> QED
                    BY <4>2, <4>3
            <3>2. CASE i # n - 1
                <4>1. i < n - 1
                    BY <3>2
                <4> QED
                    BY <2>3, <2>8, <4>1 DEF Covered
            <3> QED
                BY <3>1, <3>2
        <2>13. Begun(k) /\ n <= Len(Stored(d))
            BY <2>3, <2>8, <2>9 DEF Begun
        <2>14. Progress(k, d)
            BY <2>3, <2>6, <2>12, <2>13 DEF Progress
        <2> QED
            BY <1>0, <1>1, <1>2, <1>3, <2>1, <2>2, <2>14, CallProgress
    <1>6. ASSUME NEW state, call' = [call EXCEPT ![c].pc = "save", ![c].state = state]
          PROVE  SyncInv'
        BY <1>1, <1>6, WorkProgress
    <1>7. \/ Throw(c)
          \/ /\ call[c].op = "sync" /\ Successor(call[c].state) = {}
             /\ call' = [call EXCEPT ![c].pc = "next", ![c].token = None, ![c].state = None]
          \/ \E state : call' = [call EXCEPT ![c].pc = "save", ![c].state = state]
        BY DEF Find, Fail, Throw
    <1> QED
        BY <1>4, <1>5, <1>6, <1>7

\* What is saved is the account at the cursor, and a later note of it.
LEMMA SaveProgress ==
    ASSUME Inv, Inv', SyncInv, OneCallPerDevice, NEW c \in Calls, Save(c)
    PROVE  SyncInv'
    <1> PICK d : d = DeviceOf[c]
        OBVIOUS
    <1> PICK state : state = call[c].state
        OBVIOUS
    <1> PICK token : token = call[c].token
        OBVIOUS
    <1> PICK k : k = call'[c]
        OBVIOUS
    <1>0. TypeOK /\ TypeOK' /\ StoredStateIsOnChain /\ call[c] \in CallStates /\ k \in CallStates
        BY CallFields DEF Inv, TypeOK
    <1>1. call[c].pc = "save" /\ Goto(c, "find") /\ UNCHANGED <<log, mined, orphans>>
        BY DEF Save
    <1>2. /\ d \in Devices /\ state \in AccountStates /\ token \in Tokens
          /\ state.index = Current(d, token).index /\ state.token = token
          /\ Stored(d)' = UpdatedStorage(d, token, state)
          /\ \A b \in Devices \ {d} : Stored(b)' = Stored(b)
        BY Saved
    <1> DEFINE S == Stored(d)
               T == UpdatedStorage(d, token, state)
               n == state.index + 1
    <1>3. /\ Len(S) \in Nat /\ Len(T) \in Nat /\ Len(S) <= Len(T)
          /\ n \in 1..Len(T) /\ T[n] = state
          /\ n <= Len(S) => S[n] = Current(d, token)
          /\ \A i \in 1..Len(T) : i # n => i \in 1..Len(S) /\ T[i] = S[i]
          /\ \A j \in 1..(n - 1) : T[j].token # token
          /\ n > Len(S) => Len(T) = n
        BY <1>0, <1>2, Updated
    <1>4. Current(d, token).token = token /\ state.index \in Nat
        BY <1>0, <1>2, CurrentFacts DEF AccountStates
    <1>5. DistinctTokens(d) /\ Progress(call[c], d)
        BY <1>2 DEF SyncInv
    <1>6. /\ \A e \in Calls \ {c} : call'[e] = call[e]
          /\ k.pc = "find" /\ k.op = call[c].op /\ k.token = token
          /\ k.cursor = call[c].cursor /\ k.start = call[c].start
        BY <1>0, <1>1, GotoFields
    <1>7. n \in Nat /\ n - 1 = state.index
        BY <1>4
    <1>8. \A i, j \in 1..Len(S) : S[i].token = S[j].token => i = j
        BY <1>5 DEF DistinctTokens
    <1> HIDE DEF S, T, n
    <1>9. ASSUME NEW j \in 1..Len(T), T[j].token = token PROVE j = n
        <2> SUFFICES ASSUME j # n PROVE FALSE
            OBVIOUS
        <2>1. j \in 1..Len(S) /\ T[j] = S[j]
            BY <1>3
        <2>2. CASE n <= Len(S)
            <3>1. n \in 1..Len(S) /\ S[n].token = token
                BY <1>3, <1>4, <2>2
            <3> QED
                BY <1>8, <1>9, <2>1, <3>1
        <2>3. CASE n > Len(S)
            <3>1. j \in 1..(n - 1)
                BY <1>3, <1>7, <2>1, <2>3
            <3> QED
                BY <1>3, <1>9, <3>1
        <2> QED
            BY <1>3, <1>7, <2>2, <2>3
    <1>10. DistinctTokens(d)'
        <2> SUFFICES ASSUME NEW i \in 1..Len(T), NEW j \in 1..Len(T), T[i].token = T[j].token
                     PROVE  i = j
            BY <1>2 DEF DistinctTokens, T
        <2>1. CASE i = n \/ j = n
            BY <1>2, <1>3, <1>9, <2>1
        <2>2. CASE i # n /\ j # n
            BY <1>3, <1>8, <2>2
        <2> QED
            BY <2>1, <2>2
    <1>11. k.op = "sync" => Begun(k)' /\ AtCursor(k, d)' /\ Covered(k, d, k.cursor - 1)'
        <2> SUFFICES ASSUME k.op = "sync"
                     PROVE  Begun(k)' /\ AtCursor(k, d)' /\ Covered(k, d, k.cursor - 1)'
            OBVIOUS
        <2>1. AtCursor(call[c], d) /\ Begun(call[c]) /\ Covered(call[c], d, call[c].cursor - 1)
            BY <1>1, <1>5, <1>6 DEF Progress
        <2>2. state.index = k.cursor - 1 /\ k.cursor \in Nat /\ k.cursor > 0
            <3>1. state.index = call[c].cursor - 1
                BY <1>0, <1>2, <2>1, CursorAccount
            <3> QED
                BY <1>0, <1>6, <2>1, <3>1 DEF AtCursor, CallStates
        <2>3. k.cursor = n
            BY <1>7, <2>2 DEF n
        <2>4. Begun(k)'
            BY <1>1, <1>6, <2>1 DEF Begun, MinedCount, EventsOf, Mined
        <2>5. AtCursor(k, d)'
            BY <1>2, <1>3, <1>6, <2>2, <2>3 DEF AtCursor, T
        <2>6. Covered(k, d, n - 1)'
            <3> SUFFICES ASSUME NEW i \in 0..(MaxEvents - 1), i < n - 1, k.start[i] > 0
                         PROVE  i < Len(T) /\ T[i + 1].nonce >= k.start[i]
                BY <1>2 DEF Covered, T
            <3>1. i < Len(S) /\ S[i + 1].nonce >= k.start[i]
                BY <1>6, <2>1, <2>3 DEF Covered, S
            <3>2. i < Len(T) /\ i + 1 \in 1..Len(T) /\ i + 1 # n
                BY <1>3, <1>7, <3>1
            <3> QED
                BY <1>3, <3>1, <3>2
        <2> QED
            BY <2>3, <2>4, <2>5, <2>6
    <1>12. Progress(k, d)'
        BY <1>6, <1>11 DEF Progress
    <1>13. Extends /\ ChainInv' /\ OrphansBacked'
        <2>1. Extends /\ ChainInv'
            BY <1>0, <1>1, SameLog DEF SyncInv
        <2> QED
            BY <1>0, <1>1, <2>1, BackedStays DEF SyncInv, OrphansBacked
    <1> QED
        BY <1>0, <1>2, <1>6, <1>10, <1>12, <1>13, OthersStay

-----------------------------------------------------------------------------
(* What happens around the calls. *)

\* The chain grows and devices stop: what their storages have stays, and so does what the
\* calls have come to that go on.
LEMMA AroundCalls ==
    ASSUME TypeOK, TypeOK', SyncInv, Extends, ChainInv', OrphansBacked', UNCHANGED storage,
           \A c \in Calls : call'[c] = call[c] \/ call'[c] = Idle
    PROVE  SyncInv'
    <1>1. \A d \in Devices : Stored(d)' = Stored(d)
        BY DEF Stored
    <1>2. ASSUME NEW d \in Devices PROVE DistinctTokens(d)'
        <2>1. Stored(d)' = Stored(d) /\ DistinctTokens(d)
            BY <1>1 DEF SyncInv
        <2> QED
            BY <2>1 DEF DistinctTokens
    <1>3. ASSUME NEW c \in Calls PROVE Progress(call[c], DeviceOf[c])'
        <2>1. PICK k : k = call'[c]
            OBVIOUS
        <2>2. PICK d \in Devices : d = DeviceOf[c]
            BY CallFields
        <2>3. k \in CallStates
            BY <2>1 DEF TypeOK
        <2>4. Progress(call[c], d)
            BY <2>2 DEF SyncInv
        <2>5. Progress(k, d)
            BY <2>1, <2>4, IdleProgress
        <2>6. Progress(k, d)'
            BY <1>1, <2>3, <2>5, ProgressStays
        <2> QED
            BY <2>1, <2>2, <2>6
    <1> QED
        BY <1>2, <1>3 DEF SyncInv

\* Blocks are mined, and transactions come that no call waits for.
LEMMA ChainProgress ==
    ASSUME Inv, Inv', SyncInv,
           \/ SealBlock
           \/ \E token \in Tokens : StrangerEvent(token)
           \/ \E tx \in orphans : IncludeOrphan(tx)
    PROVE  SyncInv'
    <1>0. TypeOK /\ TypeOK' /\ ChainInv /\ OrphansBacked
        BY DEF Inv, SyncInv
    <1>1. orphans' \subseteq orphans /\ UNCHANGED <<storage, call>>
        BY DEF SealBlock, StrangerEvent, IncludeOrphan
    <1>2. ASSUME Extends, ChainInv' PROVE SyncInv'
        <2>1. OrphansBacked'
            BY <1>0, <1>1, <1>2, BackedStays DEF OrphansBacked
        <2> QED
            BY <1>0, <1>1, <1>2, <2>1, AroundCalls
    <1>3. ASSUME NEW tx, tx.nonce \in Nat, Accepts(tx), UNCHANGED mined,
                 tx.account \in Nat => Backed(tx.account, tx.nonce, tx.token),
                 log' = Append(log, Event(tx))
          PROVE  SyncInv'
        BY <1>0, <1>2, <1>3, AppendedInOrder
    <1>4. CASE SealBlock
        <2>1. Extends
            BY <1>0, <1>4, EventFields DEF SealBlock, Extends, TypeOK
        <2>2. ChainInv'
            BY <1>0, <1>4 DEF SealBlock, ChainInv, Numbered, OneToken, InOrder
        <2> QED
            BY <1>2, <2>1, <2>2
    <1>5. ASSUME NEW token \in Tokens, StrangerEvent(token) PROVE SyncInv'
        <2>1. PICK n : n = Cardinality(EventsOf(Stranger))
            OBVIOUS
        <2>2. PICK tx : tx = [account |-> Stranger, nonce |-> n, token |-> token, balance |-> 1]
            OBVIOUS
        <2>3. tx.nonce = n /\ tx.account = Stranger /\ log' = Append(log, Event(tx)) /\ UNCHANGED mined
            BY <1>5, <2>1, <2>2 DEF StrangerEvent
        <2>4. n \in Nat
            BY <1>0, <2>1, Counts
        <2>5. Accepts(tx) /\ tx.account \notin Nat
            BY <2>1, <2>3, SdkAssumption DEF Accepts
        <2> QED
            BY <1>3, <2>3, <2>4, <2>5
    <1>6. ASSUME NEW tx \in orphans, IncludeOrphan(tx) PROVE SyncInv'
        <2>1. CASE UNCHANGED log
            <3>1. UNCHANGED <<log, mined>>
                BY <1>6, <2>1 DEF IncludeOrphan
            <3> QED
                BY <1>0, <1>2, <3>1, SameLog
        <2>2. CASE Accepts(tx) /\ log' = Append(log, Event(tx))
            <3>1. Backed(tx.account, tx.nonce, tx.token) /\ tx.nonce \in Nat /\ UNCHANGED mined
                BY <1>0, <1>6 DEF OrphansBacked, TypeOK, Transactions, IncludeOrphan
            <3> QED
                BY <1>3, <2>2, <3>1
        <2> QED
            BY <1>6, <2>1, <2>2 DEF IncludeOrphan
    <1> QED
        BY <1>4, <1>5, <1>6

\* A device stops: what its calls have sent still fits the chain.
LEMMA CrashProgress ==
    ASSUME Inv, Inv', SyncInv, NEW device \in Devices, Crash(device)
    PROVE  SyncInv'
    <1>0. TypeOK /\ TypeOK' /\ ChainInv /\ OrphansBacked
        BY DEF Inv, SyncInv
    <1>1. /\ UNCHANGED <<log, mined, storage>>
          /\ \A c \in Calls : call'[c] = call[c] \/ call'[c] = Idle
          /\ \A tx \in orphans' : tx \in orphans \/ \E c \in Calls : call[c].pc = "send" /\ tx = TxOf(c)
        BY DEF Crash
    <1>2. ASSUME NEW tx \in orphans' PROVE Backed(tx.account, tx.nonce, tx.token)
        BY <1>0, <1>1, TxBacked DEF OrphansBacked
    <1>3. Extends /\ ChainInv'
        BY <1>0, <1>1, SameLog
    <1>4. OrphansBacked'
        BY <1>0, <1>2, <1>3, BackedStays DEF OrphansBacked
    <1> QED
        BY <1>0, <1>1, <1>3, <1>4, AroundCalls

\* The holder of the mutex starts from what is stored.
LEMMA LoadProgress ==
    ASSUME Inv, Inv', SyncInv, OneCallPerDevice, NEW c \in Calls, Load(c)
    PROVE  SyncInv'
    <1>1. PICK state : state = IF AccountState(DeviceOf[c], call[c].token) # None
                               THEN AccountState(DeviceOf[c], call[c].token)
                               ELSE EmptyAccountState(DeviceOf[c], call[c].token)
        OBVIOUS
    <1>2. /\ call[c].pc = "load" /\ call' = [call EXCEPT ![c].pc = "find", ![c].state = state]
          /\ UNCHANGED <<log, mined, orphans, storage>>
        BY <1>1 DEF Load
    <1> QED
        BY <1>2, WorkProgress

\* A call that throws leaves what the others have come to.
LEMMA RejectedProgress ==
    ASSUME Inv, Inv', SyncInv, OneCallPerDevice, NEW c \in Calls, Rejected(c)
    PROVE  SyncInv'
    <1>1. Throw(c) /\ UNCHANGED <<log, mined, orphans, storage>> /\ \A d \in Devices : Stored(d)' = Stored(d)
        BY DEF Rejected, Fail, Stored
    <1>2. TypeOK /\ TypeOK' /\ \A tx \in orphans' : Backed(tx.account, tx.nonce, tx.token)
        BY <1>1 DEF Inv, SyncInv, OrphansBacked
    <1> QED
        BY <1>1, <1>2, ThrowProgress

\* At first there is nothing to cover.
LEMMA InitSync == Init => SyncInv
    <1> SUFFICES ASSUME Init PROVE SyncInv
        OBVIOUS
    <1>1. Len(log) = 0 /\ orphans = {} /\ \A c \in Calls : call[c] = Idle
        BY DEF Init
    <1>2. ChainInv /\ OrphansBacked
        BY <1>1 DEF ChainInv, Numbered, OneToken, InOrder, OrphansBacked
    <1>3. ASSUME NEW d \in Devices PROVE DistinctTokens(d)
        <2>1. Len(Stored(d)) = 0
            BY DEF Init, Stored
        <2> QED
            BY <2>1 DEF DistinctTokens
    <1> QED
        BY <1>1, <1>2, <1>3, IdleProgress DEF SyncInv

\* Every step keeps the invariant.
LEMMA NextSync ==
    ASSUME Inv, Inv', SyncInv, OneCallPerDevice, [Next]_vars
    PROVE  SyncInv'
    <1>1. ASSUME NEW c \in Calls, NEW token \in Tokens, NEW op \in {"shield", "withdraw"}, Start(c, op, token)
          PROVE  SyncInv'
        BY <1>1, StartProgress
    <1>2. ASSUME NEW c \in Calls, Start(c, "sync", None) PROVE SyncInv'
        BY <1>2, StartProgress
    <1>3. ASSUME NEW c \in Calls, Step(c) \/ GiveUp(c) \/ Rejected(c) PROVE SyncInv'
        BY <1>3, InitProgress, ReadProgress, SendProgress, NextProgress, LoadProgress, FindProgress,
           SaveProgress, RejectedProgress DEF Step
    <1>4. CASE SealBlock \/ (\E token \in Tokens : StrangerEvent(token))
               \/ \E tx \in orphans : IncludeOrphan(tx)
        BY <1>4, ChainProgress
    <1>5. CASE \E device \in Devices : Crash(device)
        BY <1>5, CrashProgress
    <1>6. CASE UNCHANGED vars
        <2>1. TypeOK /\ TypeOK' /\ ChainInv /\ OrphansBacked /\ UNCHANGED <<log, mined, orphans, storage, call>>
            BY <1>6 DEF vars, Inv, SyncInv
        <2>2. Extends /\ ChainInv'
            BY <2>1, SameLog
        <2>3. OrphansBacked'
            BY <2>1, <2>2, BackedStays DEF OrphansBacked
        <2> QED
            BY <2>1, <2>2, <2>3, AroundCalls
    <1> QED
        BY <1>1, <1>2, <1>3, <1>4, <1>5, <1>6 DEF Next

\* When syncShielder returns, the device stores of every account at least what clients could
\* see on chain when it was called: syncAllAccounts misses no account that another device
\* opened, and leaves none before its last note, whatever other devices do meanwhile and
\* whatever became of transactions that nobody waits for.
THEOREM SyncsCoverChain ==
    ASSUME OneCallPerDevice
    PROVE  Spec => []SyncCoversChain
    <1>0. StorageFoundOrOneCall
        BY DEF OneCallPerDevice, StorageFoundOrOneCall
    <1>1. Init => SyncInv
        BY InitSync
    <1>2. Inv /\ Inv' /\ SyncInv /\ [Next]_vars => SyncInv'
        BY NextSync
    <1>3. SyncInv => SyncCoversChain
        <2> SUFFICES ASSUME SyncInv, NEW c \in Calls, call[c].pc = "synced",
                            NEW i \in DOMAIN call[c].start, call[c].start[i] > 0
                     PROVE  /\ i < Len(Stored(DeviceOf[c]))
                            /\ Stored(DeviceOf[c])[i + 1].nonce >= call[c].start[i]
            BY DEF SyncCoversChain
        <2>1. Begun(call[c]) /\ Covered(call[c], DeviceOf[c], MaxEvents)
            BY DEF SyncInv, Progress
        <2>2. i \in 0..(MaxEvents - 1) /\ i < MaxEvents
            BY <2>1, SdkAssumption DEF Begun
        <2> QED
            BY <2>1, <2>2 DEF Covered
    <1>4. Spec => []Inv
        BY <1>0, Invariance
    <1> QED
        BY <1>1, <1>2, <1>3, <1>4, PTL DEF Spec
=============================================================================
