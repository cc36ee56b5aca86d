-------------------------- MODULE ShielderCliProofs --------------------------
(***************************************************************************)
(* Theorems on the command line client, for every number of processes and  *)
(* of state files, every set of commands, every fee and every bound on the *)
(* length of a behaviour.                                                  *)
(***************************************************************************)
EXTENDS ShielderCli, FiniteSetTheorems, TLAPS

-----------------------------------------------------------------------------
(* Numbers. *)

\* A set of numbers has a least one: of the intervals up to its elements, one has none
\* of the others within it.
LEMMA Least ==
    ASSUME NEW T \in SUBSET Nat, T # {}
    PROVE  \E x \in T : \A y \in T : x <= y
    <1> DEFINE upTo == {0..n : n \in T}
    <1>1. upTo \subseteq FiniteSubsetsOf(Nat)
        <2>1. ASSUME NEW n \in T PROVE 0..n \in FiniteSubsetsOf(Nat)
            BY FS_Interval DEF FiniteSubsetsOf
        <2> QED
            BY <2>1
    <1>2. IsWellFoundedOn(StrictSubsetOrdering(Nat), FiniteSubsetsOf(Nat))
        BY FS_StrictSubsetOrderingWellFounded
    <1>3. upTo # {}
        OBVIOUS
    <1> HIDE DEF upTo
    <1>4. PICK b \in upTo : \A c \in upTo : <<c, b>> \notin StrictSubsetOrdering(Nat)
        BY <1>1, <1>2, <1>3, WFMin
    <1>5. PICK x \in T : b = 0..x
        BY DEF upTo
    <1>6. ASSUME NEW y \in T, y < x PROVE FALSE
        <2>1. 0..y \in upTo
            BY DEF upTo
        <2>2. /\ 0..y \in SUBSET Nat /\ 0..x \in SUBSET Nat
              /\ 0..y \subseteq 0..x /\ x \in 0..x /\ x \notin 0..y
            BY <1>6
        <2>3. <<0..y, b>> \in StrictSubsetOrdering(Nat)
            BY <1>5, <2>2 DEF StrictSubsetOrdering
        <2> QED
            BY <1>4, <2>1, <2>3
    <1> QED
        BY <1>6

\* What is in a set at zero, and with a number also at the next one, is in it up to n.
LEMMA Induction ==
    ASSUME NEW n \in Nat, NEW S, 0 \in S, \A i \in 0..(n - 1) : i \in S => i + 1 \in S
    PROVE  \A i \in 0..n : i \in S
    <1> DEFINE T == {i \in 0..n : i \notin S}
    <1> SUFFICES ASSUME T # {} PROVE FALSE
        OBVIOUS
    <1>1. PICK x \in T : \A y \in T : x <= y
        <2>1. T \in SUBSET Nat
            OBVIOUS
        <2> HIDE DEF T
        <2> QED
            BY <2>1, Least
    <1>2. x # 0 /\ x \in 0..n
        OBVIOUS
    <1>3. x - 1 \in 0..(n - 1) /\ x - 1 + 1 = x
        BY <1>2
    <1>4. x - 1 \in S
        BY <1>1, <1>3
    <1> QED
        BY <1>3, <1>4

\* The minimum of a set of numbers.
LEMMA MinOf ==
    ASSUME NEW T \in SUBSET Nat, T # {}
    PROVE  Min(T) \in T /\ \A y \in T : Min(T) <= y
    BY Least DEF Min

-----------------------------------------------------------------------------
(* Replaying the actions of an account. *)

\* The recursive definition defines what it says.
LEMMA ReplayDef ==
    ASSUME NEW id, NEW token, NEW events, Len(events) \in Nat
    PROVE  /\ Replay(id, token, events)[0] = NewShielderAccount(id, token)
           /\ \A n \in 1..Len(events) :
                Replay(id, token, events)[n] =
                  register_action(Replay(id, token, events)[n - 1], events[n])
    <1> DEFINE P(g, m) == g = [n \in 0..m |-> IF n = 0 THEN NewShielderAccount(id, token)
                                              ELSE register_action(g[n - 1], events[n])]
               S == {m \in 0..Len(events) : \E g : P(g, m)}
    <1>1. 0 \in S
        <2>1. PICK g : g = [n \in 0..0 |-> NewShielderAccount(id, token)]
            OBVIOUS
        <2>2. \A n \in 0..0 : n = 0
            OBVIOUS
        <2>3. P(g, 0)
            BY <2>1, <2>2
        <2> QED
            BY <2>3
    <1>2. ASSUME NEW m \in 0..(Len(events) - 1), m \in S PROVE m + 1 \in S
        <2>1. PICK g : P(g, m)
            BY <1>2
        <2>2. PICK h : h = [n \in 0..(m + 1) |-> IF n = 0 THEN NewShielderAccount(id, token)
                                                 ELSE register_action(g[n - 1], events[n])]
            OBVIOUS
        <2>3. \A n \in 0..m : g[n] = h[n]
            BY <2>1, <2>2
        <2>4. \A n \in 0..(m + 1) : n = 0 \/ g[n - 1] = h[n - 1]
            <3>1. \A n \in 0..(m + 1) : n = 0 \/ n - 1 \in 0..m
                OBVIOUS
            <3> QED
                BY <2>3, <3>1
        <2>5. P(h, m + 1)
            BY <2>2, <2>4
        <2> QED
            BY <2>5
    <1>3. \A m \in 0..Len(events) : m \in S
        <2> HIDE DEF S
        <2> QED
            BY <1>1, <1>2, Induction
    <1>4. PICK g : P(g, Len(events))
        BY <1>3
    <1>5. Replay(id, token, events) = CHOOSE f : P(f, Len(events))
        BY DEF Replay
    <1>6. P(Replay(id, token, events), Len(events))
        <2> HIDE DEF P
        <2> QED
            BY <1>4, <1>5
    <1> QED
        BY <1>6

\* Events that come later change nothing of what the earlier ones gave.
LEMMA ReplayStable ==
    ASSUME NEW id, NEW token, NEW old, NEW new, Len(old) \in Nat, Len(new) \in Nat,
           Len(old) <= Len(new), \A n \in 1..Len(old) : new[n] = old[n]
    PROVE  \A n \in 0..Len(old) : Replay(id, token, new)[n] = Replay(id, token, old)[n]
    <1> DEFINE S == {n \in 0..Len(old) : Replay(id, token, new)[n] = Replay(id, token, old)[n]}
    <1>1. 0 \in S
        BY ReplayDef
    <1>2. ASSUME NEW n \in 0..(Len(old) - 1), n \in S PROVE n + 1 \in S
        <2>1. n + 1 \in 1..Len(old) /\ n + 1 \in 1..Len(new) /\ n + 1 - 1 = n
            OBVIOUS
        <2>2. Replay(id, token, old)[n + 1] = register_action(Replay(id, token, old)[n], old[n + 1])
            BY <2>1, ReplayDef
        <2>3. Replay(id, token, new)[n + 1] = register_action(Replay(id, token, new)[n], new[n + 1])
            BY <2>1, ReplayDef
        <2>4. new[n + 1] = old[n + 1]
            BY <2>1
        <2> QED
            BY <1>2, <2>1, <2>2, <2>3, <2>4
    <1>3. \A n \in 0..Len(old) : n \in S
        <2> HIDE DEF S
        <2> QED
            BY <1>1, <1>2, Induction
    <1> QED
        BY <1>3

-----------------------------------------------------------------------------
(* Sequences, the log of the accepted calls and the accounts in it. *)

IsSeq(s) == \E S : s \in Seq(S)

\* Of a sequence only its length and its elements are used.
LEMMA SeqFacts ==
    ASSUME NEW s, IsSeq(s)
    PROVE  Len(s) \in Nat /\ DOMAIN s = 1..Len(s)
    BY DEF IsSeq

\* What Append does.
LEMMA Appended ==
    ASSUME NEW s, NEW x, IsSeq(s)
    PROVE  /\ IsSeq(Append(s, x)) /\ Len(Append(s, x)) = Len(s) + 1
           /\ \A i \in 1..Len(s) : Append(s, x)[i] = s[i]
           /\ Append(s, x)[Len(s) + 1] = x
    <1>1. PICK S : s \in Seq(S)
        BY DEF IsSeq
    <1>2. s \in Seq(S \union {x}) /\ x \in S \union {x}
        BY <1>1
    <1>3. Append(s, x) \in Seq(S \union {x})
        BY <1>2
    <1> QED
        BY <1>2, <1>3 DEF IsSeq

\* The nullifier of an account's action number n + 1: the first one spends the
\* prenullifier.
NullifierAt(id, n) == Hashed([id |-> id, nonce |-> n - 1])

\* It is what the client computes, and it is of no other action.
LEMMA Nullifiers ==
    /\ \A id : Hashed(prenullifier(id)) = NullifierAt(id, 0)
    /\ \A a : a.nonce \in Nat => Hashed(previous_nullifier(a)) = NullifierAt(a.id, a.nonce)
    /\ \A id1, id2 : \A m, n \in Nat :
         NullifierAt(id1, m) = NullifierAt(id2, n) => id1 = id2 /\ m = n
    <1>1. \A id : Hashed(prenullifier(id)) = NullifierAt(id, 0)
        BY DEF NullifierAt, Hashed, prenullifier
    <1>2. \A a : a.nonce \in Nat => Hashed(previous_nullifier(a)) = NullifierAt(a.id, a.nonce)
        BY DEF NullifierAt, Hashed, previous_nullifier, prenullifier, derive_nullifier
    <1>3. ASSUME NEW id1, NEW id2, NEW m \in Nat, NEW n \in Nat,
                 NullifierAt(id1, m) = NullifierAt(id2, n)
          PROVE  id1 = id2 /\ m = n
        <2>1. [id |-> id1, nonce |-> m - 1] = [id |-> id2, nonce |-> n - 1]
            BY <1>3 DEF NullifierAt, Hashed
        <2>2. id1 = id2 /\ m - 1 = n - 1
            BY <2>1
        <2> QED
            BY <2>2
    <1> QED
        BY <1>1, <1>2, <1>3

IsLog(l) == \A id : IsSeq(EventsIn(l, id))

\* The log has only been added to.
Grows(l, m) ==
    \A id : /\ Len(EventsIn(l, id)) <= Len(EventsIn(m, id))
            /\ \A n \in 1..Len(EventsIn(l, id)) : EventsIn(m, id)[n] = EventsIn(l, id)[n]

IsAccount(a) ==
    a = [id |-> a.id, token |-> a.token, nonce |-> a.nonce,
         shielded_amount |-> a.shielded_amount, history |-> a.history]

\* The account is what the log gives after some number of its actions.
Local(a, token, l) ==
    /\ IsAccount(a)
    /\ a.nonce \in 0..Len(EventsIn(l, a.id))
    /\ a = Replay(a.id, token, EventsIn(l, a.id))[a.nonce]

\* Logging an event is appending it to those of its account.
LEMMA LoggedEvents ==
    ASSUME NEW l, NEW event, IsLog(l)
    PROVE  LET id == event.newNote.of.id
           IN  /\ EventsIn(Logged(l, event), id) = Append(EventsIn(l, id), event)
               /\ \A other : other # id => EventsIn(Logged(l, event), other) = EventsIn(l, other)
    BY DEF EventsIn, Logged, Extended

\* The log stays one, and is only added to.
LEMMA LoggedGrows ==
    ASSUME NEW l, NEW event, IsLog(l)
    PROVE  IsLog(Logged(l, event)) /\ Grows(l, Logged(l, event))
    <1> DEFINE id == event.newNote.of.id
    <1>1. /\ EventsIn(Logged(l, event), id) = Append(EventsIn(l, id), event)
          /\ \A other : other # id => EventsIn(Logged(l, event), other) = EventsIn(l, other)
        BY LoggedEvents
    <1>2. IsSeq(EventsIn(l, id)) /\ \A other : IsSeq(EventsIn(l, other))
        BY DEF IsLog
    <1>3. /\ IsSeq(EventsIn(Logged(l, event), id))
          /\ Len(EventsIn(Logged(l, event), id)) = Len(EventsIn(l, id)) + 1
          /\ \A n \in 1..Len(EventsIn(l, id)) : EventsIn(Logged(l, event), id)[n] = EventsIn(l, id)[n]
        BY <1>1, <1>2, Appended
    <1>4. \A other : Len(EventsIn(l, other)) \in Nat
        BY <1>2, SeqFacts
    <1> HIDE DEF id
    <1>5. ASSUME NEW other
          PROVE  /\ IsSeq(EventsIn(Logged(l, event), other))
                 /\ Len(EventsIn(l, other)) <= Len(EventsIn(Logged(l, event), other))
                 /\ \A n \in 1..Len(EventsIn(l, other)) :
                      EventsIn(Logged(l, event), other)[n] = EventsIn(l, other)[n]
        <2>1. CASE other = id
            BY <1>3, <1>4, <2>1
        <2>2. CASE other # id
            BY <1>1, <1>2, <1>4, <2>2
        <2> QED
            BY <2>1, <2>2
    <1> QED
        BY <1>5 DEF IsLog, Grows

\* An account a log gives, a longer one gives too.
LEMMA LocalGrows ==
    ASSUME NEW a, NEW token, NEW l, NEW m, IsLog(l), IsLog(m), Grows(l, m), Local(a, token, l)
    PROVE  Local(a, token, m)
    <1>1. /\ Len(EventsIn(l, a.id)) \in Nat /\ Len(EventsIn(m, a.id)) \in Nat
          /\ Len(EventsIn(l, a.id)) <= Len(EventsIn(m, a.id))
          /\ \A n \in 1..Len(EventsIn(l, a.id)) : EventsIn(m, a.id)[n] = EventsIn(l, a.id)[n]
        BY SeqFacts DEF IsLog, Grows
    <1>2. a.nonce \in 0..Len(EventsIn(l, a.id))
        BY DEF Local
    <1>3. Replay(a.id, token, EventsIn(m, a.id))[a.nonce] = Replay(a.id, token, EventsIn(l, a.id))[a.nonce]
        BY <1>1, <1>2, ReplayStable
    <1>4. a.nonce \in 0..Len(EventsIn(m, a.id))
        BY <1>1, <1>2
    <1> QED
        BY <1>3, <1>4 DEF Local

\* A new account is one no action of which is on the chain yet, or none the client knows.
LEMMA LocalNew ==
    ASSUME NEW id, NEW token, NEW l, IsLog(l)
    PROVE  /\ Local(NewShielderAccount(id, token), token, l)
           /\ NewShielderAccount(id, token).id = id /\ NewShielderAccount(id, token).nonce = 0
    <1>1. /\ NewShielderAccount(id, token).id = id /\ NewShielderAccount(id, token).nonce = 0
          /\ IsAccount(NewShielderAccount(id, token))
        BY DEF NewShielderAccount, IsAccount
    <1>2. Len(EventsIn(l, id)) \in Nat
        BY SeqFacts DEF IsLog
    <1>3. Replay(id, token, EventsIn(l, id))[0] = NewShielderAccount(id, token)
        BY <1>2, ReplayDef
    <1> QED
        BY <1>1, <1>2, <1>3 DEF Local

\* The record of an account after an action.
LEMMA RegisterShape ==
    ASSUME NEW a, NEW event,
           a = [id |-> a.id, token |-> a.token, nonce |-> a.nonce,
                shielded_amount |-> a.shielded_amount, history |-> a.history]
    PROVE  \E s, h : register_action(a, event) =
                        [id |-> a.id, token |-> a.token, nonce |-> a.nonce + 1,
                         shielded_amount |-> s, history |-> h]
    <1>1. PICK i, t, n, s, h : /\ i = a.id /\ t = a.token /\ n = a.nonce
                               /\ s = a.shielded_amount /\ h = a.history
        OBVIOUS
    <1>2. PICK s1 : s1 = IF event.kind = "Withdraw" THEN s - event.amount
                         ELSE s + (event.amount - event.protocolFee)
        OBVIOUS
    <1>3. PICK h1 : h1 = Append(h, ShielderAction(event))
        OBVIOUS
    <1>4. a = [id |-> i, token |-> t, nonce |-> n, shielded_amount |-> s, history |-> h]
        BY <1>1
    <1>5. register_action(a, event) =
            [a EXCEPT !.shielded_amount = s1, !.nonce = n + 1, !.history = h1]
        BY <1>1, <1>2, <1>3 DEF register_action
    <1>6. PICK m : m = n + 1
        OBVIOUS
    <1>7. register_action(a, event) =
            [id |-> i, token |-> t, nonce |-> m, shielded_amount |-> s1, history |-> h1]
        BY <1>4, <1>5, <1>6
    <1> QED
        BY <1>1, <1>6, <1>7

\* Registering the next action of an account, or one that differs from it in nothing
\* the client keeps, gives the account after it.
LEMMA LocalRegister ==
    ASSUME NEW a, NEW token, NEW l, NEW event, IsLog(l), Local(a, token, l),
           a.nonce < Len(EventsIn(l, a.id)),
           ShielderAction(event) = ShielderAction(EventsIn(l, a.id)[a.nonce + 1])
    PROVE  /\ Local(register_action(a, event), token, l)
           /\ register_action(a, event).id = a.id
           /\ register_action(a, event).nonce = a.nonce + 1
    <1> DEFINE next == EventsIn(l, a.id)[a.nonce + 1]
               b == register_action(a, event)
    <1>1. Len(EventsIn(l, a.id)) \in Nat
        BY SeqFacts DEF IsLog
    <1>2. a.nonce \in Nat /\ a.nonce + 1 \in 1..Len(EventsIn(l, a.id)) /\ a.nonce + 1 - 1 = a.nonce
        BY <1>1 DEF Local
    <1>3. /\ event.kind = next.kind /\ event.amount = next.amount
          /\ event.protocolFee = next.protocolFee
        BY DEF ShielderAction
    <1>4. b = register_action(a, next)
        BY <1>3 DEF register_action
    <1>5. IsAccount(b) /\ b.id = a.id /\ b.nonce = a.nonce + 1
        <2>1. a = [id |-> a.id, token |-> a.token, nonce |-> a.nonce,
                   shielded_amount |-> a.shielded_amount, history |-> a.history]
            BY DEF Local, IsAccount
        <2>2. PICK s, h : b = [id |-> a.id, token |-> a.token, nonce |-> a.nonce + 1,
                               shielded_amount |-> s, history |-> h]
            BY <2>1, RegisterShape
        <2> HIDE DEF b
        <2>3. b.id = a.id /\ b.token = a.token /\ b.nonce = a.nonce + 1
            BY <2>2
        <2> QED
            BY <2>2, <2>3 DEF IsAccount
    <1>6. Replay(a.id, token, EventsIn(l, a.id))[a.nonce + 1] = register_action(a, next)
        BY <1>1, <1>2, ReplayDef DEF Local
    <1> HIDE DEF b, next
    <1>7. Local(b, token, l)
        BY <1>1, <1>2, <1>4, <1>5, <1>6 DEF Local
    <1> QED
        BY <1>5, <1>7 DEF b

-----------------------------------------------------------------------------
(* What it means that the contract accepts a call. *)

Checks(ch, c, sender) ==
    CASE c.kind = "NewAccount" -> NewAccountChecks(ch, c, sender)
      [] c.kind = "Deposit" -> DepositChecks(ch, c, sender)
      [] c.kind = "Withdraw" -> WithdrawChecks(ch, c, sender)

\* A check that fails makes an error.
LEMMA ChecksAreErrors ==
    ASSUME NEW ch, NEW c, NEW sender, c.kind \in Contract,
           NEW i \in DOMAIN Checks(ch, c, sender)
    PROVE  i \in Nat /\ Checks(ch, c, sender)[i].error # "Ok"
    <1>1. CASE c.kind = "NewAccount"
        <2>1. Checks(ch, c, sender) = NewAccountChecks(ch, c, sender)
            BY <1>1 DEF Checks
        <2>2. DOMAIN NewAccountChecks(ch, c, sender) = 1..5
            BY DEF NewAccountChecks
        <2>3. \A k \in 1..5 : NewAccountChecks(ch, c, sender)[k].error # "Ok"
            BY DEF NewAccountChecks
        <2> QED
            BY <2>1, <2>2, <2>3
    <1>2. CASE c.kind = "Deposit"
        <2>1. Checks(ch, c, sender) = DepositChecks(ch, c, sender)
            BY <1>2 DEF Checks
        <2>2. DOMAIN DepositChecks(ch, c, sender) = 1..7
            BY DEF DepositChecks
        <2>3. \A k \in 1..7 : DepositChecks(ch, c, sender)[k].error # "Ok"
            BY DEF DepositChecks
        <2> QED
            BY <2>1, <2>2, <2>3
    <1>3. CASE c.kind = "Withdraw"
        <2>1. Checks(ch, c, sender) = WithdrawChecks(ch, c, sender)
            BY <1>3 DEF Checks
        <2>2. DOMAIN WithdrawChecks(ch, c, sender) = 1..8
            BY DEF WithdrawChecks
        <2>3. \A k \in 1..8 : WithdrawChecks(ch, c, sender)[k].error # "Ok"
            BY DEF WithdrawChecks
        <2> QED
            BY <2>1, <2>2, <2>3
    <1> QED
        BY <1>1, <1>2, <1>3 DEF Contract

\* An accepted call failed no check.
LEMMA NoCheckFails ==
    ASSUME NEW ch, NEW c, NEW sender, c.kind \in Contract, CallError(ch, c, sender) = "Ok"
    PROVE  \A i \in DOMAIN Checks(ch, c, sender) : ~Checks(ch, c, sender)[i].fails
    <1> DEFINE failed == {i \in DOMAIN Checks(ch, c, sender) : Checks(ch, c, sender)[i].fails}
    <1> SUFFICES ASSUME failed # {} PROVE FALSE
        OBVIOUS
    <1>1. failed \in SUBSET Nat
        BY ChecksAreErrors
    <1>2. Min(failed) \in failed
        <2> HIDE DEF failed
        <2> QED
            BY <1>1, MinOf
    <1>3. Checks(ch, c, sender)[Min(failed)].error # "Ok"
        BY <1>2, ChecksAreErrors
    <1>4. \/ CallError(ch, c, sender) = "EnforcedPause"
          \/ CallError(ch, c, sender) = Checks(ch, c, sender)[Min(failed)].error
        BY DEF CallError, Checks
    <1> QED
        BY <1>3, <1>4

\* The nullifier of an accepted call is new, and its proof is for the fee the contract
\* takes.
LEMMA CallAccepted ==
    ASSUME NEW ch, NEW c, NEW sender, c.kind \in Contract, CallError(ch, c, sender) = "Ok"
    PROVE  /\ ~Spent(ch, NullifierOf(c))
           /\ c.proof.input.commitment.protocol_fee = ProtocolFee(ch, c)
    <1>0. \A i \in DOMAIN Checks(ch, c, sender) : ~Checks(ch, c, sender)[i].fails
        BY NoCheckFails
    <1>1. CASE c.kind = "NewAccount"
        <2>1. \A i \in 1..5 : ~NewAccountChecks(ch, c, sender)[i].fails
            <3>1. DOMAIN NewAccountChecks(ch, c, sender) = 1..5
                BY DEF NewAccountChecks
            <3> QED
                BY <1>0, <1>1, <3>1 DEF Checks
        <2>2. ~NewAccountChecks(ch, c, sender)[4].fails /\ ~NewAccountChecks(ch, c, sender)[5].fails
            BY <2>1
        <2>3. /\ ~Spent(ch, c.prenullifier)
              /\ verifyProof(c.proof, NewAccountInput(c, ch.ar_key, c.amount - ProtocolFee(ch, c),
                                        DepositCommitment(sender, ProtocolFee(ch, c))))
            BY <2>2 DEF NewAccountChecks
        <2> QED
            BY <1>1, <2>3 DEF verifyProof, NewAccountInput, DepositCommitment, NullifierOf
    <1>2. CASE c.kind = "Deposit"
        <2>1. \A i \in 1..7 : ~DepositChecks(ch, c, sender)[i].fails
            <3>1. DOMAIN DepositChecks(ch, c, sender) = 1..7
                BY DEF DepositChecks
            <3> QED
                BY <1>0, <1>2, <3>1 DEF Checks
        <2>2. ~DepositChecks(ch, c, sender)[5].fails /\ ~DepositChecks(ch, c, sender)[7].fails
            BY <2>1
        <2>3. /\ ~Spent(ch, c.old_nullifier_hash)
              /\ verifyProof(c.proof, SpendInput(c, c.amount - ProtocolFee(ch, c),
                                        DepositCommitment(sender, ProtocolFee(ch, c))))
            BY <2>2 DEF DepositChecks
        <2> QED
            BY <1>2, <2>3 DEF verifyProof, SpendInput, DepositCommitment, NullifierOf
    <1>3. CASE c.kind = "Withdraw"
        <2> DEFINE seen == [c EXCEPT !.pocket_money = MsgValue(c)]
        <2>1. \A i \in 1..8 : ~WithdrawChecks(ch, c, sender)[i].fails
            <3>1. DOMAIN WithdrawChecks(ch, c, sender) = 1..8
                BY DEF WithdrawChecks
            <3> QED
                BY <1>0, <1>3, <3>1 DEF Checks
        <2>2. ~WithdrawChecks(ch, c, sender)[7].fails /\ ~WithdrawChecks(ch, c, sender)[8].fails
            BY <2>1
        <2>3. /\ ~Spent(ch, c.old_nullifier_hash)
              /\ verifyProof(c.proof, SpendInput(c, c.amount,
                               WithdrawCommitment(seen, ch.version, ch.chain_id, ProtocolFee(ch, c))))
            BY <2>2 DEF WithdrawChecks
        <2> QED
            BY <1>3, <2>3 DEF verifyProof, SpendInput, WithdrawCommitment, NullifierOf
    <1> QED
        BY <1>1, <1>2, <1>3 DEF Contract

\* What an event says of its call.
LEMMA EventFacts ==
    ASSUME NEW ch, NEW c, c.kind \in Contract
    PROVE  /\ EventOf(ch, c).kind = c.kind /\ EventOf(ch, c).amount = c.amount
           /\ EventOf(ch, c).token = c.token /\ EventOf(ch, c).newNote = c.new_note
           /\ EventOf(ch, c).protocolFee = ProtocolFee(ch, c)
    <1> DEFINE common == [kind |-> c.kind, contractVersion |-> ch.version, token |-> c.token,
                          amount |-> c.amount, newNote |-> c.new_note,
                          newNoteIndex |-> Len(ch.notes), mac |-> c.mac,
                          protocolFee |-> ProtocolFee(ch, c), memo |-> c.memo]
    <1>1. \E other : EventOf(ch, c) = Joined(common, other) \/ EventOf(ch, c) = common
        BY DEF EventOf, Contract
    <1>2. \A other, f : f \in DOMAIN common => Joined(common, other)[f] = common[f]
        BY DEF Joined
    <1>3. \A f \in DOMAIN common : EventOf(ch, c)[f] = common[f]
        BY <1>1, <1>2
    <1>4. \A f \in {"kind", "amount", "token", "newNote", "protocolFee"} : f \in DOMAIN common
        OBVIOUS
    <1>5. /\ EventOf(ch, c)["kind"] = common["kind"] /\ EventOf(ch, c)["amount"] = common["amount"]
          /\ EventOf(ch, c)["token"] = common["token"] /\ EventOf(ch, c)["newNote"] = common["newNote"]
          /\ EventOf(ch, c)["protocolFee"] = common["protocolFee"]
        BY <1>3, <1>4
    <1> QED
        BY <1>5

-----------------------------------------------------------------------------
(* The chain, its blocks and the log say the same of every action. *)

IsChain(c) ==
    c = [version |-> c.version, chain_id |-> c.chain_id, paused |-> c.paused,
         ar_key |-> c.ar_key, bps |-> c.bps, notes |-> c.notes, nullifiers |-> c.nullifiers,
         balance |-> c.balance, allowance |-> c.allowance, block |-> c.block]

OkCall(m, h) == m.kind = "call" /\ m.ok /\ m.nullifier = h

\* A nullifier is spent by an action that is in the log, and by no other.
Counted(c, l) ==
    \A id : \A n \in Nat : Spent(c, NullifierAt(id, n)) <=> n < Len(EventsIn(l, id))

\* A mined call that did not revert spent its nullifier in its block, and its event is
\* in the log at the place its nullifier says.
MinedRight(m, b, c, l) ==
    (m.kind = "call" /\ m.ok) =>
        /\ m.nullifier \in DOMAIN c.nullifiers /\ c.nullifiers[m.nullifier] = b + 1
        /\ m.event.kind = m.call
        /\ \E id : \E n \in Nat : /\ n < Len(EventsIn(l, id))
                                  /\ m.nullifier = NullifierAt(id, n)
                                  /\ m.event = EventsIn(l, id)[n + 1]

AllRight(c, B, l) == \A b \in DOMAIN B : \A i \in DOMAIN B[b] : MinedRight(B[b][i], b, c, l)

\* Every spent nullifier was spent by a call in some block, and by one.
Owned(c, B) ==
    \A h \in DOMAIN c.nullifiers : \E b \in DOMAIN B : \E i \in DOMAIN B[b] : OkCall(B[b][i], h)
Alone(B) ==
    \A b \in DOMAIN B : \A i, j \in DOMAIN B[b] : \A h :
        OkCall(B[b][i], h) /\ OkCall(B[b][j], h) => i = j

IsBlocks(B, n) == DOMAIN B = 1..n /\ \A b \in DOMAIN B : IsSeq(B[b])

ChainOK(c, B, l) ==
    /\ IsChain(c) /\ IsLog(l) /\ c.block \in Nat /\ IsBlocks(B, c.block)
    /\ Counted(c, l) /\ AllRight(c, B, l) /\ Owned(c, B) /\ Alone(B)

\* A transaction is added to block b.
BlockAdded(D, E, b, m) ==
    /\ b \in DOMAIN D /\ DOMAIN E = DOMAIN D
    /\ E[b] = Append(D[b], m)
    /\ \A x \in DOMAIN D : x # b => E[x] = D[x]

\* What the blocks hold then.
LEMMA BlockElements ==
    ASSUME NEW D, NEW E, NEW b, NEW m, NEW n, BlockAdded(D, E, b, m), IsBlocks(D, n)
    PROVE  /\ IsBlocks(E, n)
           /\ \A x \in DOMAIN E : \A i \in DOMAIN E[x] :
                \/ i \in DOMAIN D[x] /\ E[x][i] = D[x][i]
                \/ x = b /\ i = Len(D[b]) + 1 /\ E[x][i] = m
           /\ \A x \in DOMAIN D : \A i \in DOMAIN D[x] : i \in DOMAIN E[x] /\ E[x][i] = D[x][i]
           /\ Len(D[b]) + 1 \in DOMAIN E[b] /\ Len(D[b]) + 1 \notin DOMAIN D[b]
           /\ E[b][Len(D[b]) + 1] = m
    <1>1. /\ b \in DOMAIN D /\ DOMAIN E = DOMAIN D /\ E[b] = Append(D[b], m)
          /\ \A x \in DOMAIN D : x # b => E[x] = D[x]
        BY DEF BlockAdded
    <1>2. /\ IsSeq(D[b]) /\ \A x \in DOMAIN D : IsSeq(D[x])
        BY <1>1 DEF IsBlocks
    <1>3. /\ IsSeq(E[b]) /\ Len(E[b]) = Len(D[b]) + 1
          /\ \A i \in 1..Len(D[b]) : E[b][i] = D[b][i]
          /\ E[b][Len(D[b]) + 1] = m
        BY <1>1, <1>2, Appended
    <1>4. Len(D[b]) \in Nat /\ DOMAIN D[b] = 1..Len(D[b]) /\ DOMAIN E[b] = 1..(Len(D[b]) + 1)
        BY <1>2, <1>3, SeqFacts
    <1>5. IsBlocks(E, n)
        BY <1>1, <1>2, <1>3 DEF IsBlocks
    <1>6. \A i \in DOMAIN E[b] : i \in DOMAIN D[b] \/ i = Len(D[b]) + 1
        BY <1>4
    <1>7. /\ \A i \in DOMAIN D[b] : i \in DOMAIN E[b]
          /\ Len(D[b]) + 1 \in DOMAIN E[b] /\ Len(D[b]) + 1 \notin DOMAIN D[b]
        BY <1>4
    <1>8. \A i \in DOMAIN D[b] : E[b][i] = D[b][i]
        BY <1>3, <1>4
    <1> QED
        BY <1>1, <1>3, <1>5, <1>6, <1>7, <1>8

\* A transaction that is no accepted call changes nothing of this.
LEMMA PlainStep ==
    ASSUME NEW c, NEW d, NEW D, NEW E, NEW l, NEW m, NEW b,
           ChainOK(c, D, l), BlockAdded(D, E, b, m), ~(m.kind = "call" /\ m.ok),
           IsChain(d), d.nullifiers = c.nullifiers, d.block = c.block
    PROVE  ChainOK(d, E, l)
    <1>1. IsBlocks(D, c.block)
        BY DEF ChainOK
    <1>2. /\ IsBlocks(E, c.block)
          /\ \A x \in DOMAIN E : \A i \in DOMAIN E[x] :
               \/ i \in DOMAIN D[x] /\ E[x][i] = D[x][i]
               \/ x = b /\ i = Len(D[b]) + 1 /\ E[x][i] = m
          /\ \A x \in DOMAIN D : \A i \in DOMAIN D[x] : i \in DOMAIN E[x] /\ E[x][i] = D[x][i]
        BY <1>1, BlockElements
    <1>3. DOMAIN E = DOMAIN D
        BY DEF BlockAdded
    <1>4. Counted(d, l)
        BY DEF ChainOK, Counted, Spent
    <1>5. AllRight(d, E, l)
        <2> SUFFICES ASSUME NEW x \in DOMAIN E, NEW i \in DOMAIN E[x] PROVE MinedRight(E[x][i], x, d, l)
            BY DEF AllRight
        <2>1. CASE E[x][i] = m
            BY <2>1 DEF MinedRight
        <2>2. CASE i \in DOMAIN D[x] /\ E[x][i] = D[x][i]
            <3>1. MinedRight(D[x][i], x, c, l)
                BY <1>3, <2>2 DEF ChainOK, AllRight
            <3> QED
                BY <2>2, <3>1 DEF MinedRight
        <2> QED
            BY <1>2, <2>1, <2>2
    <1>6. Owned(d, E)
        <2> SUFFICES ASSUME NEW h \in DOMAIN d.nullifiers
                     PROVE  \E x \in DOMAIN E : \E i \in DOMAIN E[x] : OkCall(E[x][i], h)
            BY DEF Owned
        <2>1. PICK x \in DOMAIN D : \E i \in DOMAIN D[x] : OkCall(D[x][i], h)
            BY DEF ChainOK, Owned
        <2>2. PICK i \in DOMAIN D[x] : OkCall(D[x][i], h)
            BY <2>1
        <2>3. x \in DOMAIN E /\ i \in DOMAIN E[x] /\ OkCall(E[x][i], h)
            BY <1>2, <1>3, <2>2
        <2> QED
            BY <2>3
    <1>7. Alone(E)
        <2> SUFFICES ASSUME NEW x \in DOMAIN E, NEW i \in DOMAIN E[x], NEW j \in DOMAIN E[x], NEW h,
                            OkCall(E[x][i], h), OkCall(E[x][j], h)
                     PROVE  i = j
            BY DEF Alone
        <2>1. ~OkCall(m, h)
            BY DEF OkCall
        <2>2. i \in DOMAIN D[x] /\ E[x][i] = D[x][i] /\ j \in DOMAIN D[x] /\ E[x][j] = D[x][j]
            BY <1>2, <2>1
        <2> QED
            BY <1>3, <2>2 DEF ChainOK, Alone
    <1> QED
        BY <1>2, <1>4, <1>5, <1>6, <1>7 DEF ChainOK

\* A mined call stays right when more nullifiers are spent and more events are logged.
LEMMA RightGrows ==
    ASSUME NEW m, NEW b, NEW c, NEW d, NEW l, NEW k, MinedRight(m, b, c, l),
           DOMAIN c.nullifiers \subseteq DOMAIN d.nullifiers,
           \A h \in DOMAIN c.nullifiers : d.nullifiers[h] = c.nullifiers[h],
           IsLog(l), IsLog(k), Grows(l, k)
    PROVE  MinedRight(m, b, d, k)
    <1> SUFFICES ASSUME m.kind = "call" /\ m.ok
                 PROVE  /\ m.nullifier \in DOMAIN d.nullifiers /\ d.nullifiers[m.nullifier] = b + 1
                        /\ m.event.kind = m.call
                        /\ \E id : \E n \in Nat : /\ n < Len(EventsIn(k, id))
                                                  /\ m.nullifier = NullifierAt(id, n)
                                                  /\ m.event = EventsIn(k, id)[n + 1]
        BY DEF MinedRight
    <1>1. /\ m.nullifier \in DOMAIN c.nullifiers /\ c.nullifiers[m.nullifier] = b + 1
          /\ m.event.kind = m.call
        BY DEF MinedRight
    <1>2. PICK id : \E n \in Nat : /\ n < Len(EventsIn(l, id)) /\ m.nullifier = NullifierAt(id, n)
                                   /\ m.event = EventsIn(l, id)[n + 1]
        BY DEF MinedRight
    <1>3. PICK n \in Nat : /\ n < Len(EventsIn(l, id)) /\ m.nullifier = NullifierAt(id, n)
                           /\ m.event = EventsIn(l, id)[n + 1]
        BY <1>2
    <1>4. Len(EventsIn(l, id)) \in Nat /\ Len(EventsIn(k, id)) \in Nat
        BY SeqFacts DEF IsLog
    <1>5. n + 1 \in 1..Len(EventsIn(l, id))
        BY <1>3, <1>4
    <1>6. EventsIn(k, id)[n + 1] = EventsIn(l, id)[n + 1] /\ Len(EventsIn(l, id)) <= Len(EventsIn(k, id))
        BY <1>5 DEF Grows
    <1>7. n < Len(EventsIn(k, id)) /\ m.nullifier = NullifierAt(id, n) /\ m.event = EventsIn(k, id)[n + 1]
        BY <1>3, <1>4, <1>6
    <1> QED
        BY <1>1, <1>7

\* An accepted call spends the nullifier of the next action of its account, and its
\* event is logged as that action.
LEMMA AcceptedStep ==
    ASSUME NEW c, NEW d, NEW D, NEW E, NEW l, NEW m, NEW b, NEW id, NEW event,
           ChainOK(c, D, l), BlockAdded(D, E, b, m), IsChain(d), d.block = c.block,
           d.nullifiers = Extended(c.nullifiers, m.nullifier, b + 1),
           m.nullifier \notin DOMAIN c.nullifiers,
           m.nullifier = NullifierAt(id, Len(EventsIn(l, id))),
           m.kind = "call", m.ok, m.event = event, event.kind = m.call, event.newNote.of.id = id
    PROVE  ChainOK(d, E, Logged(l, event))
    <1> DEFINE h0 == m.nullifier
               k == Logged(l, event)
               n0 == Len(EventsIn(l, id))
    <1>1. IsBlocks(D, c.block) /\ IsLog(l)
        BY DEF ChainOK
    <1>2. /\ IsBlocks(E, c.block)
          /\ \A x \in DOMAIN E : \A i \in DOMAIN E[x] :
               \/ i \in DOMAIN D[x] /\ E[x][i] = D[x][i]
               \/ x = b /\ i = Len(D[b]) + 1 /\ E[x][i] = m
          /\ \A x \in DOMAIN D : \A i \in DOMAIN D[x] : i \in DOMAIN E[x] /\ E[x][i] = D[x][i]
          /\ Len(D[b]) + 1 \in DOMAIN E[b] /\ Len(D[b]) + 1 \notin DOMAIN D[b]
          /\ E[b][Len(D[b]) + 1] = m
        BY <1>1, BlockElements
    <1>3. DOMAIN E = DOMAIN D /\ b \in DOMAIN D
        BY DEF BlockAdded
    <1>4. /\ DOMAIN d.nullifiers = DOMAIN c.nullifiers \union {h0}
          /\ d.nullifiers[h0] = b + 1
          /\ \A h \in DOMAIN c.nullifiers : d.nullifiers[h] = c.nullifiers[h]
        BY DEF Extended
    <1>5. IsLog(k) /\ Grows(l, k)
        BY <1>1, LoggedGrows
    <1>6. /\ EventsIn(k, id) = Append(EventsIn(l, id), event)
          /\ \A other : other # id => EventsIn(k, other) = EventsIn(l, other)
        BY <1>1, LoggedEvents
    <1>7. /\ n0 \in Nat /\ Len(EventsIn(k, id)) = n0 + 1 /\ EventsIn(k, id)[n0 + 1] = event
        BY <1>1, <1>6, SeqFacts, Appended DEF IsLog
    <1> HIDE DEF h0, k, n0
    <1>8. Counted(d, k)
        <2> SUFFICES ASSUME NEW other, NEW n \in Nat
                     PROVE  Spent(d, NullifierAt(other, n)) <=> n < Len(EventsIn(k, other))
            BY DEF Counted
        <2>1. Spent(c, NullifierAt(other, n)) <=> n < Len(EventsIn(l, other))
            BY DEF ChainOK, Counted
        <2>2. Spent(d, NullifierAt(other, n)) <=> Spent(c, NullifierAt(other, n)) \/ NullifierAt(other, n) = h0
            BY <1>4 DEF Spent
        <2>3. NullifierAt(other, n) = h0 <=> other = id /\ n = n0
            BY <1>7, Nullifiers DEF h0, n0
        <2>4. CASE other = id
            BY <1>7, <2>1, <2>2, <2>3, <2>4 DEF n0
        <2>5. CASE other # id
            BY <1>6, <2>1, <2>2, <2>3, <2>5
        <2> QED
            BY <2>4, <2>5
    <1>9. AllRight(d, E, k)
        <2> SUFFICES ASSUME NEW x \in DOMAIN E, NEW i \in DOMAIN E[x] PROVE MinedRight(E[x][i], x, d, k)
            BY DEF AllRight
        <2>1. CASE x = b /\ E[x][i] = m
            <3>1. n0 < Len(EventsIn(k, id)) /\ m.nullifier = NullifierAt(id, n0)
                BY <1>7 DEF n0
            <3>2. m.nullifier \in DOMAIN d.nullifiers /\ d.nullifiers[m.nullifier] = b + 1
                BY <1>4 DEF h0
            <3>3. MinedRight(m, b, d, k)
                BY <1>7, <3>1, <3>2 DEF MinedRight
            <3> QED
                BY <2>1, <3>3
        <2>2. CASE i \in DOMAIN D[x] /\ E[x][i] = D[x][i]
            <3>1. MinedRight(D[x][i], x, c, l)
                BY <1>3, <2>2 DEF ChainOK, AllRight
            <3>2. DOMAIN c.nullifiers \subseteq DOMAIN d.nullifiers
                BY <1>4
            <3>3. MinedRight(D[x][i], x, d, k)
                BY <1>1, <1>4, <1>5, <3>1, <3>2, RightGrows
            <3> QED
                BY <2>2, <3>3
        <2> QED
            BY <1>2, <2>1, <2>2
    <1>10. Owned(d, E)
        <2> SUFFICES ASSUME NEW h \in DOMAIN d.nullifiers
                     PROVE  \E x \in DOMAIN E : \E i \in DOMAIN E[x] : OkCall(E[x][i], h)
            BY DEF Owned
        <2>1. CASE h = h0
            <3>1. OkCall(E[b][Len(D[b]) + 1], h)
                BY <1>2, <2>1 DEF OkCall, h0
            <3> QED
                BY <1>2, <1>3, <3>1
        <2>2. CASE h # h0
            <3>1. h \in DOMAIN c.nullifiers
                BY <1>4, <2>2
            <3>2. PICK x \in DOMAIN D : \E i \in DOMAIN D[x] : OkCall(D[x][i], h)
                BY <3>1 DEF ChainOK, Owned
            <3>3. PICK i \in DOMAIN D[x] : OkCall(D[x][i], h)
                BY <3>2
            <3>4. x \in DOMAIN E /\ i \in DOMAIN E[x] /\ OkCall(E[x][i], h)
                BY <1>2, <1>3, <3>3
            <3> QED
                BY <3>4
        <2> QED
            BY <2>1, <2>2
    <1>11. Alone(E)
        <2> SUFFICES ASSUME NEW x \in DOMAIN E, NEW i \in DOMAIN E[x], NEW j \in DOMAIN E[x], NEW h,
                            OkCall(E[x][i], h), OkCall(E[x][j], h)
                     PROVE  i = j
            BY DEF Alone
        <2>1. CASE h = h0
            <3>1. ASSUME NEW y \in DOMAIN D[x] PROVE ~OkCall(D[x][y], h0)
                <4>1. MinedRight(D[x][y], x, c, l)
                    BY <1>3 DEF ChainOK, AllRight
                <4> QED
                    BY <4>1 DEF MinedRight, OkCall, h0
            <3>2. /\ i \notin DOMAIN D[x] \/ E[x][i] # D[x][i]
                  /\ j \notin DOMAIN D[x] \/ E[x][j] # D[x][j]
                BY <2>1, <3>1
            <3>3. i = Len(D[b]) + 1 /\ j = Len(D[b]) + 1
                BY <1>2, <3>2
            <3> QED
                BY <3>3
        <2>2. CASE h # h0
            <3>1. ~OkCall(m, h)
                BY <2>2 DEF OkCall, h0
            <3>2. i \in DOMAIN D[x] /\ E[x][i] = D[x][i] /\ j \in DOMAIN D[x] /\ E[x][j] = D[x][j]
                BY <1>2, <3>1
            <3> QED
                BY <1>3, <3>2 DEF ChainOK, Alone
        <2> QED
            BY <2>1, <2>2
    <1>12. d.block \in Nat /\ IsBlocks(E, d.block)
        BY <1>2 DEF ChainOK
    <1> QED
        BY <1>5, <1>8, <1>9, <1>10, <1>11, <1>12 DEF ChainOK, k

\* A block is opened.
LEMMA OpenStep ==
    ASSUME NEW c, NEW d, NEW B, NEW l, ChainOK(c, B, l),
           IsChain(d), d.nullifiers = c.nullifiers, d.block = c.block + 1
    PROVE  ChainOK(d, Extended(B, c.block + 1, <<>>), l)
    <1> DEFINE D == Extended(B, c.block + 1, <<>>)
    <1>1. c.block \in Nat /\ DOMAIN B = 1..c.block /\ \A b \in DOMAIN B : IsSeq(B[b])
        BY DEF ChainOK, IsBlocks
    <1>2. c.block + 1 \notin DOMAIN B /\ DOMAIN D = 1..(c.block + 1)
        BY <1>1 DEF Extended
    <1>3. /\ \A b \in DOMAIN D : b \in DOMAIN B \/ b = c.block + 1
          /\ \A b \in DOMAIN B : b \in DOMAIN D /\ D[b] = B[b]
          /\ D[c.block + 1] = <<>>
        BY <1>1, <1>2 DEF Extended
    <1>4. IsSeq(<<>>) /\ DOMAIN <<>> = {}
        <2>1. <<>> \in Seq({})
            OBVIOUS
        <2>2. DOMAIN <<>> = 1..0 /\ 1..0 = {}
            OBVIOUS
        <2> QED
            BY <2>1, <2>2 DEF IsSeq
    <1> HIDE DEF D
    <1>5. IsBlocks(D, d.block) /\ d.block \in Nat
        BY <1>1, <1>2, <1>3, <1>4 DEF IsBlocks
    <1>6. Counted(d, l)
        BY DEF ChainOK, Counted, Spent
    <1>7. AllRight(d, D, l)
        <2> SUFFICES ASSUME NEW b \in DOMAIN D, NEW i \in DOMAIN D[b] PROVE MinedRight(D[b][i], b, d, l)
            BY DEF AllRight
        <2>1. b \in DOMAIN B /\ D[b] = B[b]
            BY <1>3, <1>4
        <2>2. MinedRight(B[b][i], b, c, l)
            BY <2>1 DEF ChainOK, AllRight
        <2> QED
            BY <2>1, <2>2 DEF MinedRight
    <1>8. Owned(d, D)
        <2> SUFFICES ASSUME NEW h \in DOMAIN c.nullifiers
                     PROVE  \E b \in DOMAIN D : \E i \in DOMAIN D[b] : OkCall(D[b][i], h)
            BY DEF Owned
        <2>1. PICK b \in DOMAIN B : \E i \in DOMAIN B[b] : OkCall(B[b][i], h)
            BY DEF ChainOK, Owned
        <2> QED
            BY <1>3, <2>1
    <1>9. Alone(D)
        <2> SUFFICES ASSUME NEW b \in DOMAIN D, NEW i \in DOMAIN D[b], NEW j \in DOMAIN D[b], NEW h,
                            OkCall(D[b][i], h), OkCall(D[b][j], h)
                     PROVE  i = j
            BY DEF Alone
        <2>1. b \in DOMAIN B /\ D[b] = B[b]
            BY <1>3, <1>4
        <2> QED
            BY <2>1 DEF ChainOK, Alone
    <1>10. IsLog(l)
        BY DEF ChainOK
    <1> QED
        BY <1>5, <1>6, <1>7, <1>8, <1>9, <1>10 DEF ChainOK, D

-----------------------------------------------------------------------------
(* Executing a transaction. *)

\* The record of the chain, whatever one of its fields is replaced by.
LEMMA ChainRecord ==
    ASSUME NEW v, NEW i, NEW p, NEW a, NEW f, NEW n, NEW u, NEW x, NEW w, NEW b, NEW c,
           c = [version |-> v, chain_id |-> i, paused |-> p, ar_key |-> a, bps |-> f, notes |-> n,
                nullifiers |-> u, balance |-> x, allowance |-> w, block |-> b]
    PROVE  IsChain(c) /\ c.nullifiers = u /\ c.block = b
    <1>1. /\ c.version = v /\ c.chain_id = i /\ c.paused = p /\ c.ar_key = a /\ c.bps = f
          /\ c.notes = n /\ c.nullifiers = u /\ c.balance = x /\ c.allowance = w /\ c.block = b
        OBVIOUS
    <1> QED
        BY <1>1 DEF IsChain

WithAllowance(c, y) == [c EXCEPT !.allowance = y]
WithBps(c, y) == [c EXCEPT !.bps = y]
WithBlock(c, y) == [c EXCEPT !.block = y]

\* What an approval, a change of the fees and a new block leave alone.
LEMMA ChainUpdates ==
    ASSUME NEW c, NEW y, IsChain(c)
    PROVE  /\ LET d == WithAllowance(c, y)
              IN  IsChain(d) /\ d.nullifiers = c.nullifiers /\ d.block = c.block
           /\ LET d == WithBps(c, y)
              IN  IsChain(d) /\ d.nullifiers = c.nullifiers /\ d.block = c.block
           /\ LET d == WithBlock(c, y)
              IN  IsChain(d) /\ d.nullifiers = c.nullifiers /\ d.block = y
    <1>1. PICK v, i, p, a, f, n, u, x, w, b :
            /\ c = [version |-> v, chain_id |-> i, paused |-> p, ar_key |-> a, bps |-> f, notes |-> n,
                    nullifiers |-> u, balance |-> x, allowance |-> w, block |-> b]
        BY DEF IsChain
    <1>2. c.nullifiers = u /\ c.block = b
        BY <1>1
    <1>3. [c EXCEPT !.allowance = y] =
            [version |-> v, chain_id |-> i, paused |-> p, ar_key |-> a, bps |-> f, notes |-> n,
             nullifiers |-> u, balance |-> x, allowance |-> y, block |-> b]
        BY <1>1
    <1>4. [c EXCEPT !.bps = y] =
            [version |-> v, chain_id |-> i, paused |-> p, ar_key |-> a, bps |-> y, notes |-> n,
             nullifiers |-> u, balance |-> x, allowance |-> w, block |-> b]
        BY <1>1
    <1>5. [c EXCEPT !.block = y] =
            [version |-> v, chain_id |-> i, paused |-> p, ar_key |-> a, bps |-> f, notes |-> n,
             nullifiers |-> u, balance |-> x, allowance |-> w, block |-> y]
        BY <1>1
    <1>6. PICK d1, d2, d3 : /\ d1 = WithAllowance(c, y) /\ d2 = WithBps(c, y)
                            /\ d3 = WithBlock(c, y)
        OBVIOUS
    <1>7. IsChain(d1) /\ d1.nullifiers = u /\ d1.block = b
        BY <1>3, <1>6, ChainRecord DEF WithAllowance
    <1>8. IsChain(d2) /\ d2.nullifiers = u /\ d2.block = b
        BY <1>4, <1>6, ChainRecord DEF WithBps
    <1>9. IsChain(d3) /\ d3.nullifiers = u /\ d3.block = y
        BY <1>5, <1>6, ChainRecord DEF WithBlock
    <1> QED
        BY <1>2, <1>6, <1>7, <1>8, <1>9

\* What an accepted call changes.
LEMMA ChainAccepted ==
    ASSUME NEW c, NEW call, NEW sender, IsChain(c)
    PROVE  LET d == Accepted(c, call, sender)
           IN  /\ IsChain(d) /\ d.block = c.block
               /\ d.nullifiers = Extended(c.nullifiers, NullifierOf(call), c.block + 1)
    <1>1. PICK v, i, p, a, f, n, u, x, w, b :
            /\ c = [version |-> v, chain_id |-> i, paused |-> p, ar_key |-> a, bps |-> f, notes |-> n,
                    nullifiers |-> u, balance |-> x, allowance |-> w, block |-> b]
        BY DEF IsChain
    <1>2. /\ c.nullifiers = u /\ c.block = b /\ c.notes = n /\ c.balance = x /\ c.allowance = w
        BY <1>1
    <1>3. PICK n2, u2, x2, w2 :
            /\ n2 = Append(n, call.new_note)
            /\ u2 = Extended(u, NullifierOf(call), b + 1)
            /\ x2 = AllMoved(x, Transfers(c, call, sender))
            /\ w2 = IF call.token # "native" /\ call.kind # "Withdraw"
                    THEN Drawn(w, sender, call.amount) ELSE w
        OBVIOUS
    <1>4. Accepted(c, call, sender) =
            [c EXCEPT !.notes = n2, !.nullifiers = u2, !.balance = x2, !.allowance = w2]
        BY <1>2, <1>3 DEF Accepted
    <1>5. PICK d : d = Accepted(c, call, sender)
        OBVIOUS
    <1>6. d = [version |-> v, chain_id |-> i, paused |-> p, ar_key |-> a, bps |-> f, notes |-> n2,
               nullifiers |-> u2, balance |-> x2, allowance |-> w2, block |-> b]
        <2>1. PICK c1 : c1 = [c EXCEPT !.notes = n2]
            OBVIOUS
        <2>2. c1 = [version |-> v, chain_id |-> i, paused |-> p, ar_key |-> a, bps |-> f, notes |-> n2,
                    nullifiers |-> u, balance |-> x, allowance |-> w, block |-> b]
            BY <1>1, <2>1
        <2>3. PICK c2 : c2 = [c1 EXCEPT !.nullifiers = u2]
            OBVIOUS
        <2>4. c2 = [version |-> v, chain_id |-> i, paused |-> p, ar_key |-> a, bps |-> f, notes |-> n2,
                    nullifiers |-> u2, balance |-> x, allowance |-> w, block |-> b]
            BY <2>2, <2>3
        <2>5. PICK c3 : c3 = [c2 EXCEPT !.balance = x2]
            OBVIOUS
        <2>6. c3 = [version |-> v, chain_id |-> i, paused |-> p, ar_key |-> a, bps |-> f, notes |-> n2,
                    nullifiers |-> u2, balance |-> x2, allowance |-> w, block |-> b]
            BY <2>4, <2>5
        <2>7. d = [c3 EXCEPT !.allowance = w2]
            BY <1>4, <1>5, <2>1, <2>3, <2>5
        <2> QED
            BY <2>6, <2>7
    <1>7. IsChain(d) /\ d.nullifiers = u2 /\ d.block = b
        BY <1>6, ChainRecord
    <1> QED
        BY <1>2, <1>3, <1>5, <1>7

\* A call made from an account of the log: it spends the nullifier of an action that has
\* been, or of the next one.
IsAccountCall(call, l) ==
    /\ call.kind \in Contract
    /\ \E n \in 0..Len(EventsIn(l, call.new_note.of.id)) :
         NullifierOf(call) = NullifierAt(call.new_note.of.id, n)

IsTx(tx, l) ==
    /\ tx.kind \in {"call", "approve", "fees"}
    /\ tx.kind = "call" => IsAccountCall(tx.call, l)

\* The event of an accepted call, next in the log of its account.
IsLogged(event, call, l, k) ==
    LET id == call.new_note.of.id
        n == Len(EventsIn(l, id))
    IN  /\ NullifierOf(call) = NullifierAt(id, n)
        /\ Len(EventsIn(k, id)) = n + 1 /\ EventsIn(k, id)[n + 1] = event
        /\ event.kind = call.kind /\ event.amount = call.amount /\ event.token = call.token
        /\ event.protocolFee = call.proof.input.commitment.protocol_fee

\* What is mined of a transaction, with the log before and after it.
IsOutcome(m, tx, l, k) ==
    /\ m.id = tx.id /\ m.kind = tx.kind
    /\ tx.kind = "call" => /\ m.call = tx.call.kind /\ m.ok \in BOOLEAN
                           /\ m.ok => IsLogged(m.event, tx.call, l, k)

\* Of a call from an account, only one that is its next action is accepted.
LEMMA AcceptedIsNext ==
    ASSUME NEW c, NEW B, NEW l, NEW call, NEW sender, ChainOK(c, B, l), IsAccountCall(call, l),
           CallError(c, call, sender) = "Ok"
    PROVE  LET id == call.new_note.of.id
           IN  NullifierOf(call) = NullifierAt(id, Len(EventsIn(l, id)))
    <1> DEFINE id == call.new_note.of.id
    <1>1. call.kind \in Contract
        BY DEF IsAccountCall
    <1>2. PICK n \in 0..Len(EventsIn(l, id)) : NullifierOf(call) = NullifierAt(id, n)
        BY DEF IsAccountCall
    <1>3. Len(EventsIn(l, id)) \in Nat
        BY SeqFacts DEF ChainOK, IsLog
    <1>4. ~Spent(c, NullifierAt(id, n))
        BY <1>1, <1>2, CallAccepted
    <1> HIDE DEF id
    <1>5. Spent(c, NullifierAt(id, n)) <=> n < Len(EventsIn(l, id))
        BY <1>3 DEF ChainOK, Counted
    <1>6. n = Len(EventsIn(l, id))
        BY <1>3, <1>4, <1>5
    <1> QED
        BY <1>2, <1>6 DEF id

\* Executing a transaction in a block keeps the chain, the blocks and the log in step.
LEMMA ExecutedStep ==
    ASSUME NEW done, NEW tx, NEW B, NEW b, b = done.chain.block, b \notin DOMAIN B,
           ChainOK(done.chain, Extended(B, b, done.txs), done.log), IsTx(tx, done.log)
    PROVE  LET r == Executed(done, tx)
           IN  /\ ChainOK(r.chain, Extended(B, b, r.txs), r.log)
               /\ r.chain.block = b /\ IsLog(r.log) /\ Grows(done.log, r.log)
               /\ \E m : r.txs = Append(done.txs, m) /\ IsOutcome(m, tx, done.log, r.log)
    <1> DEFINE D == Extended(B, b, done.txs)
               ok == tx.kind = "call" /\ CallError(done.chain, tx.call, tx.sender) = "Ok"
    <1>1. PICK c, l : c = done.chain /\ l = done.log
        OBVIOUS
    <1>2. PICK m : m = IF tx.kind = "call" THEN MinedCall(c, tx) ELSE [id |-> tx.id, kind |-> tx.kind]
        OBVIOUS
    <1>3. PICK r : r = Executed(done, tx)
        OBVIOUS
    <1>4. r.txs = Append(done.txs, m)
        BY <1>1, <1>2, <1>3 DEF Executed
    <1>5. BlockAdded(D, Extended(B, b, r.txs), b, m)
        BY <1>4 DEF BlockAdded, Extended
    <1>6. ChainOK(c, D, l) /\ IsChain(c) /\ IsLog(l)
        BY <1>1 DEF ChainOK
    <1>7. Grows(l, l)
        <2>1. \A id : Len(EventsIn(l, id)) \in Nat
            BY <1>6, SeqFacts DEF IsLog
        <2> QED
            BY <2>1 DEF Grows
    <1> HIDE DEF D
    <1>8. CASE ~ok
        <2>1. ~(m.kind = "call" /\ m.ok)
            BY <1>1, <1>2, <1>8 DEF MinedCall
        <2>2. r.log = l
            BY <1>1, <1>3, <1>8 DEF Executed, MinedCall
        <2>3. IsChain(r.chain) /\ r.chain.nullifiers = c.nullifiers /\ r.chain.block = c.block
            <3>1. CASE tx.kind = "approve"
                <4>1. r.chain = WithAllowance(c, Allowed(c.allowance, tx.sender))
                    BY <1>1, <1>3, <3>1 DEF Executed, WithAllowance
                <4> QED
                    BY <1>6, <4>1, ChainUpdates
            <3>2. CASE tx.kind = "fees"
                <4>1. r.chain = WithBps(c, [deposit |-> NewBps, withdraw |-> NewBps])
                    BY <1>1, <1>3, <3>2 DEF Executed, WithBps
                <4> QED
                    BY <1>6, <4>1, ChainUpdates
            <3>3. CASE tx.kind = "call"
                <4>1. r.chain = c
                    BY <1>1, <1>3, <1>8, <3>3 DEF Executed, MinedCall
                <4> QED
                    BY <1>6, <4>1
            <3> QED
                BY <3>1, <3>2, <3>3 DEF IsTx
        <2>4. ChainOK(r.chain, Extended(B, b, r.txs), r.log)
            BY <1>5, <1>6, <2>1, <2>2, <2>3, PlainStep
        <2>5. IsOutcome(m, tx, l, r.log)
            BY <1>1, <1>2, <1>8 DEF IsOutcome, MinedCall
        <2> QED
            BY <1>1, <1>3, <1>4, <1>6, <1>7, <2>2, <2>3, <2>4, <2>5
    <1>9. CASE ok
        <2> DEFINE id == tx.call.new_note.of.id
                   n == Len(EventsIn(l, id))
        <2>1. PICK event : event = EventOf(c, tx.call)
            OBVIOUS
        <2>2. m = [id |-> tx.id, kind |-> "call", call |-> tx.call.kind,
                   nullifier |-> NullifierOf(tx.call), ok |-> TRUE, event |-> event]
            BY <1>1, <1>2, <1>9, <2>1 DEF MinedCall
        <2>3. r.chain = Accepted(c, tx.call, tx.sender) /\ r.log = Logged(l, event)
            BY <1>1, <1>3, <1>9, <2>1 DEF Executed, MinedCall
        <2>4. IsAccountCall(tx.call, l) /\ tx.call.kind \in Contract
            BY <1>1, <1>9 DEF IsTx, IsAccountCall
        <2>5. /\ event.kind = tx.call.kind /\ event.amount = tx.call.amount
              /\ event.token = tx.call.token /\ event.newNote = tx.call.new_note
              /\ event.protocolFee = ProtocolFee(c, tx.call)
            BY <2>1, <2>4, EventFacts
        <2>6. CallError(c, tx.call, tx.sender) = "Ok"
            BY <1>1, <1>9
        <2>7. /\ ~Spent(c, NullifierOf(tx.call))
              /\ tx.call.proof.input.commitment.protocol_fee = ProtocolFee(c, tx.call)
            BY <2>4, <2>6, CallAccepted
        <2>8. NullifierOf(tx.call) = NullifierAt(id, n)
            BY <1>6, <2>4, <2>6, AcceptedIsNext
        <2>9. /\ IsChain(r.chain) /\ r.chain.block = c.block
              /\ r.chain.nullifiers = Extended(c.nullifiers, NullifierOf(tx.call), c.block + 1)
            BY <1>6, <2>3, ChainAccepted
        <2>10. /\ m.nullifier = NullifierOf(tx.call) /\ m.kind = "call" /\ m.ok /\ m.ok \in BOOLEAN
               /\ m.event = event /\ m.call = tx.call.kind /\ m.id = tx.id
            BY <2>2
        <2>11. event.newNote.of.id = id
            BY <2>5
        <2>12. /\ EventsIn(Logged(l, event), id) = Append(EventsIn(l, id), event)
               /\ IsSeq(EventsIn(l, id))
            BY <1>6, <2>11, LoggedEvents DEF IsLog
        <2>13. Len(EventsIn(r.log, id)) = n + 1 /\ EventsIn(r.log, id)[n + 1] = event
            BY <2>3, <2>12, Appended
        <2>14. IsOutcome(m, tx, l, r.log)
            BY <1>9, <2>5, <2>7, <2>8, <2>10, <2>13 DEF IsOutcome, IsLogged
        <2>15. IsLog(r.log) /\ Grows(l, r.log)
            BY <1>6, <2>3, LoggedGrows
        <2> HIDE DEF n, id
        <2>16. ChainOK(r.chain, Extended(B, b, r.txs), Logged(l, event))
            <3>1. m.nullifier \notin DOMAIN c.nullifiers
                BY <2>7, <2>10 DEF Spent
            <3>2. /\ r.chain.nullifiers = Extended(c.nullifiers, m.nullifier, b + 1)
                  /\ m.nullifier = NullifierAt(id, Len(EventsIn(l, id)))
                  /\ event.kind = m.call
                BY <1>1, <2>5, <2>8, <2>9, <2>10 DEF n
            <3> QED
                BY <1>5, <1>6, <2>9, <2>10, <2>11, <3>1, <3>2, AcceptedStep
        <2> QED
            BY <1>1, <1>3, <1>4, <2>3, <2>9, <2>14, <2>15, <2>16
    <1> QED
        BY <1>8, <1>9

-----------------------------------------------------------------------------
(* The search for the action that spent a nullifier. *)

\* A sequence with an element is not the empty one.
LEMMA NotEmpty == \A x : <<x>> # <<>> /\ Head(<<x>>) = x
    <1>1. ASSUME NEW x, <<x>> = <<>> PROVE FALSE
        <2>1. Len(<<x>>) = 1 /\ Len(<<>>) = 0
            OBVIOUS
        <2> QED
            BY <1>1, <2>1
    <1> QED
        BY <1>1

\* In the block of a spent nullifier the search ends at the call that spent it, or at a
\* call that reverted before it.
LEMMA SearchEnds ==
    ASSUME ChainOK(chain, blocks, log), NEW h \in DOMAIN chain.nullifiers
    PROVE  LET block == blocks[chain.nullifiers[h] - 1]
               found == get_shielder_action(h)
           IN  \E own \in DOMAIN block :
                 /\ OkCall(block[own], h) /\ \A i \in DOMAIN block : OkCall(block[i], h) => i = own
                 /\ MinedRight(block[own], chain.nullifiers[h] - 1, chain, log)
                 /\ (\E i \in 1..(own - 1) : block[i].kind = "call" /\ ~block[i].ok) =>
                      found.result = "Err"
                 /\ ~(\E i \in 1..(own - 1) : block[i].kind = "call" /\ ~block[i].ok) =>
                      found.result = "Some" /\ found.event = block[own].event
    <1>1. PICK b \in DOMAIN blocks : \E i \in DOMAIN blocks[b] : OkCall(blocks[b][i], h)
        BY DEF ChainOK, Owned
    <1>2. PICK own \in DOMAIN blocks[b] : OkCall(blocks[b][own], h)
        BY <1>1
    <1>3. MinedRight(blocks[b][own], b, chain, log) /\ \A i \in DOMAIN blocks[b] : MinedRight(blocks[b][i], b, chain, log)
        BY DEF ChainOK, AllRight
    <1>4. chain.nullifiers[h] = b + 1 /\ b \in Nat
        BY <1>2, <1>3 DEF MinedRight, OkCall, ChainOK, IsBlocks
    <1>5. chain.nullifiers[h] - 1 = b
        BY <1>4
    <1>6. \A i \in DOMAIN blocks[b] : OkCall(blocks[b][i], h) => i = own
        BY <1>2 DEF ChainOK, Alone
    <1> DEFINE block == blocks[b]
               stops == {i \in DOMAIN block : check_if_tx_is_shielder_action(block[i], h)}
               k == Min(stops)
    <1>7. IsSeq(block) /\ Len(block) \in Nat /\ DOMAIN block = 1..Len(block)
        BY SeqFacts DEF ChainOK, IsBlocks
    <1>8. ASSUME NEW i \in DOMAIN block
          PROVE  /\ i \in stops <=> block[i].kind = "call" /\ (~block[i].ok \/ block[i].nullifier = h)
                 /\ block[i].kind = "call" => (get_event(block[i], block[i].call) = <<>> <=> ~block[i].ok)
                 /\ block[i].kind = "call" /\ block[i].ok =>
                      get_event(block[i], block[i].call) = <<block[i].event>>
        <2>1. block[i].kind = "call" /\ block[i].ok => block[i].event.kind = block[i].call
            BY <1>3 DEF MinedRight
        <2>2. block[i].kind = "call" /\ block[i].ok =>
                get_event(block[i], block[i].call) = <<block[i].event>>
            BY <2>1 DEF get_event
        <2>3. ~block[i].ok => get_event(block[i], block[i].call) = <<>>
            BY DEF get_event
        <2>4. <<block[i].event>> # <<>>
            BY NotEmpty
        <2>5. block[i].kind = "call" => (get_event(block[i], block[i].call) = <<>> <=> ~block[i].ok)
            BY <2>2, <2>3, <2>4
        <2> QED
            BY <2>2, <2>5 DEF check_if_tx_is_shielder_action
    <1>9. own \in stops
        BY <1>2, <1>8 DEF OkCall
    <1>10. stops \in SUBSET Nat
        BY <1>7
    <1> HIDE DEF stops
    <1>11. k \in stops /\ \A y \in stops : k <= y
        BY <1>9, <1>10, MinOf
    <1>12. k \in DOMAIN block
        BY <1>11 DEF stops
    <1>13. get_shielder_action(h) =
             LET event == get_event(block[k], block[k].call)
             IN  IF event = <<>> THEN [result |-> "Err"]
                 ELSE [result |-> "Some", event |-> Head(event)]
        <2>1. get_block_of_nullifier_spending(h) = <<b>>
            BY <1>5 DEF get_block_of_nullifier_spending, Spent
        <2>2. <<b>> # <<>> /\ Head(<<b>>) = b
            BY NotEmpty
        <2>3. stops # {} /\ b \in DOMAIN blocks
            BY <1>9
        <2>4. stops = {i \in DOMAIN blocks[Head(<<b>>)] :
                         check_if_tx_is_shielder_action(blocks[Head(<<b>>)][i], h)}
            BY <2>2 DEF stops
        <2> QED
            BY <2>1, <2>2, <2>3, <2>4 DEF get_shielder_action
    <1> HIDE DEF k
    <1>14. CASE ~block[k].ok
        <2>1. get_shielder_action(h) = [result |-> "Err"]
            BY <1>8, <1>11, <1>12, <1>13, <1>14
        <2>2. k # own /\ k <= own /\ own \in Nat
            BY <1>2, <1>9, <1>10, <1>11, <1>14 DEF OkCall
        <2>3. k \in 1..(own - 1) /\ block[k].kind = "call" /\ ~block[k].ok
            BY <1>7, <1>8, <1>11, <1>12, <1>14, <2>2
        <2>4. get_shielder_action(h).result = "Err"
            BY <2>1
        <2> QED
            BY <1>2, <1>3, <1>5, <1>6, <2>3, <2>4
    <1>15. CASE block[k].ok
        <2>1. k = own
            BY <1>6, <1>8, <1>11, <1>12, <1>15 DEF OkCall
        <2>2. ASSUME NEW i \in 1..(own - 1), block[i].kind = "call", ~block[i].ok PROVE FALSE
            <3>1. i \in DOMAIN block /\ i < own
                BY <1>7
            <3>2. i \in stops
                BY <1>8, <2>2, <3>1
            <3> QED
                BY <1>7, <1>11, <2>1, <3>1, <3>2
        <2>3. get_event(block[k], block[k].call) = <<block[own].event>>
            BY <1>8, <1>11, <1>12, <1>15, <2>1
        <2>4. <<block[own].event>> # <<>> /\ Head(<<block[own].event>>) = block[own].event
            BY NotEmpty
        <2>5. get_shielder_action(h) = [result |-> "Some", event |-> block[own].event]
            BY <1>13, <2>3, <2>4
        <2>6. get_shielder_action(h).result = "Some" /\ get_shielder_action(h).event = block[own].event
            BY <2>5
        <2> QED
            BY <1>2, <1>3, <1>5, <1>6, <2>2, <2>6
    <1> QED
        BY <1>14, <1>15

\* So the search for a nullifier is what the property asks for.
LEMMA SearchIsRight ==
    ASSUME ChainOK(chain, blocks, log)
    PROVE  RecoveryFindsAction
    <1> SUFFICES ASSUME NEW h \in DOMAIN chain.nullifiers
                 PROVE  LET found == get_shielder_action(h)
                            block == blocks[chain.nullifiers[h] - 1]
                            own == CHOOSE i \in DOMAIN block :
                                     block[i].kind = "call" /\ block[i].ok /\ block[i].nullifier = h
                            reverted == \E i \in 1..(own - 1) : block[i].kind = "call" /\ ~block[i].ok
                        IN  IF reverted THEN found.result = "Err"
                            ELSE found.result = "Some" /\ found.event = block[own].event
        BY DEF RecoveryFindsAction
    <1> DEFINE block == blocks[chain.nullifiers[h] - 1]
    <1>1. PICK own \in DOMAIN block :
            /\ OkCall(block[own], h) /\ \A i \in DOMAIN block : OkCall(block[i], h) => i = own
            /\ (\E i \in 1..(own - 1) : block[i].kind = "call" /\ ~block[i].ok) =>
                 get_shielder_action(h).result = "Err"
            /\ ~(\E i \in 1..(own - 1) : block[i].kind = "call" /\ ~block[i].ok) =>
                 /\ get_shielder_action(h).result = "Some"
                 /\ get_shielder_action(h).event = block[own].event
        BY SearchEnds
    <1> HIDE DEF block
    <1>2. own = CHOOSE i \in DOMAIN block :
                  block[i].kind = "call" /\ block[i].ok /\ block[i].nullifier = h
        BY <1>1 DEF OkCall
    <1> QED
        BY <1>1, <1>2 DEF block

\* What the search finds for an account is its next action, and it finds nothing only
\* where there is none.
LEMMA SearchForNext ==
    ASSUME ChainOK(chain, blocks, log), NEW id, NEW n \in Nat
    PROVE  LET found == get_shielder_action(NullifierAt(id, n))
           IN  /\ found.result = "Some" => n < Len(EventsOf(id)) /\ found.event = EventsOf(id)[n + 1]
               /\ found.result = "None" => n >= Len(EventsOf(id))
    <1> DEFINE h == NullifierAt(id, n)
               found == get_shielder_action(h)
    <1>1. Len(EventsIn(log, id)) \in Nat
        BY SeqFacts DEF ChainOK, IsLog
    <1>2. Spent(chain, h) <=> n < Len(EventsIn(log, id))
        BY DEF ChainOK, Counted
    <1> HIDE DEF h
    <1>3. CASE Spent(chain, h)
        <2>1. h \in DOMAIN chain.nullifiers
            BY <1>3 DEF Spent
        <2> DEFINE block == blocks[chain.nullifiers[h] - 1]
        <2>2. PICK own \in DOMAIN block :
                /\ OkCall(block[own], h) /\ MinedRight(block[own], chain.nullifiers[h] - 1, chain, log)
                /\ \/ found.result = "Err"
                   \/ found.result = "Some" /\ found.event = block[own].event
            BY <2>1, SearchEnds
        <2>3. PICK other : \E m \in Nat : /\ m < Len(EventsIn(log, other)) /\ h = NullifierAt(other, m)
                                          /\ block[own].event = EventsIn(log, other)[m + 1]
            BY <2>2 DEF MinedRight, OkCall
        <2>4. PICK m \in Nat : /\ m < Len(EventsIn(log, other)) /\ h = NullifierAt(other, m)
                               /\ block[own].event = EventsIn(log, other)[m + 1]
            BY <2>3
        <2>5. other = id /\ m = n
            BY <2>4, Nullifiers DEF h
        <2> HIDE DEF block
        <2> QED
            BY <1>1, <2>2, <2>4, <2>5 DEF EventsOf, h
    <1>4. CASE ~Spent(chain, h)
        <2>1. get_shielder_action(h) = [result |-> "None"]
            <3>1. get_block_of_nullifier_spending(h) = <<>>
                BY <1>4 DEF get_block_of_nullifier_spending
            <3> QED
                BY <3>1 DEF get_shielder_action
        <2>2. found.result = "None"
            BY <2>1
        <2> QED
            BY <1>1, <1>2, <1>4, <2>2 DEF EventsOf, h
    <1> QED
        BY <1>3, <1>4

-----------------------------------------------------------------------------
(* The invariant of the client. *)

IsState(s) ==
    s = [accounts |-> s.accounts, settings |-> s.settings, protocol_fees |-> s.protocol_fees]

\* Every account of a state is one the log gives.
StateOK(s, l) == IsState(s) /\ \A t \in DOMAIN s.accounts : Local(s.accounts[t], t, l)

IsProc(q) ==
    q = [pc |-> q.pc, cmd |-> q.cmd, file |-> q.file, mem |-> q.mem, seen |-> q.seen,
         call |-> q.call, fee |-> q.fee, tx |-> q.tx]

\* The account an invocation works with.
Of(q) == q.mem.accounts[q.cmd.token]

Preparing == {"approve", "approving", "send", "relay"}
Waiting == {"watch", "receipt"}
Saving == {"save", "write"}

\* A call made from an account, with the fee the client computed.
IsCallFrom(call, a, fee) ==
    /\ call.kind \in Contract /\ call.new_note.of.id = a.id
    /\ NullifierOf(call) = NullifierAt(a.id, IF call.kind = "NewAccount" THEN 0 ELSE a.nonce)
    /\ call.proof.input.commitment.protocol_fee = fee

\* What holds of an invocation by itself, with the log.
Steady(q, l) ==
    /\ IsProc(q) /\ StateOK(q.mem, l)
    /\ q.pc \in Contract \union {"RecoverState"} \union Preparing \union Waiting =>
         q.cmd.token \in DOMAIN q.mem.accounts
    /\ q.pc \in Contract \union Settings \union Preparing \union Waiting \union {"create"} =>
         q.cmd.name # "RecoverState"
    /\ q.pc \in Preparing => IsCallFrom(q.call, Of(q), q.fee)
    /\ q.pc = "RecoverState" => q.seen <= Len(EventsIn(l, Of(q).id)) /\ q.seen \in Nat
    /\ q.pc \in Saving /\ q.cmd.name = "RecoverState" =>
         q.cmd.token \in DOMAIN q.mem.accounts /\ Of(q).nonce >= q.seen

\* The transaction it waits for is its call, and once that is mined and did not revert,
\* its event is the next action of the account.
IsAwaited(q, tx) ==
    /\ tx.kind = "call" /\ IsCallFrom(tx.call, Of(q), q.fee)
    /\ q.call = Action(tx.call)
IsAnswer(q, m, l) ==
    /\ m.kind = "call"
    /\ m.ok => LET a == Of(q)
               IN  /\ a.nonce < Len(EventsIn(l, a.id)) /\ m.event = EventsIn(l, a.id)[a.nonce + 1]
                   /\ m.event.kind = q.call.kind /\ m.event.amount = q.call.amount
                   /\ m.event.token = q.call.token /\ m.event.protocolFee = q.fee
Answered(q, l, B) == \A b \in DOMAIN B : \A i \in DOMAIN B[b] : B[b][i].id = q.tx => IsAnswer(q, B[b][i], l)
Waits(q, l, B, P, top) ==
    q.pc \in Waiting =>
        /\ q.tx \in 1..top
        /\ \A tx \in P : tx.id = q.tx => IsAwaited(q, tx)
        /\ Answered(q, l, B)

IsUsed(u) ==
    u = [commands |-> u.commands, stops |-> u.stops, foreign |-> u.foreign, fees |-> u.fees, txs |-> u.txs]

FilesOK(g, l) ==
    DOMAIN g = Files /\ \A f \in Files : g[f].status = "ok" => StateOK(g[f].state, l)
PendingOK(P, l, top) == \A tx \in P : tx.id \in 1..top /\ IsTx(tx, l)
MinedIds(B, top) == \A b \in DOMAIN B : \A i \in DOMAIN B[b] : B[b][i].id \in 0..top

CliInv ==
    /\ IsUsed(used) /\ used.txs \in Nat
    /\ ChainOK(chain, blocks, log)
    /\ PendingOK(pending, log, used.txs) /\ MinedIds(blocks, used.txs)
    /\ FilesOK(file, log)
    /\ DOMAIN proc = Processes
    /\ \A p \in Processes : Steady(proc[p], log) /\ Waits(proc[p], log, blocks, pending, used.txs)

-----------------------------------------------------------------------------
(* The invariant implies the properties. *)

\* The three properties, from the invariant.
LEMMA InvImplies ==
    ASSUME CliInv
    PROVE  LocalIsPrefix /\ RecoveryCoversChain /\ RecoveryFindsAction
    <1>1. LocalIsPrefix
        <2> SUFFICES ASSUME NEW state \in States, NEW t \in DOMAIN state.accounts
                     PROVE  LET account == state.accounts[t]
                                events == EventsOf(account.id)
                            IN  /\ account.nonce \in 0..Len(events)
                                /\ account = Replay(account.id, t, events)[account.nonce]
            BY DEF LocalIsPrefix
        <2>1. StateOK(state, log)
            BY DEF States, CliInv, FilesOK, Steady
        <2>2. Local(state.accounts[t], t, log)
            BY <2>1 DEF StateOK
        <2> QED
            BY <2>2 DEF Local, EventsOf
    <1>2. RecoveryCoversChain
        BY DEF RecoveryCoversChain, CliInv, Steady, Saving, Account, Of
    <1>3. RecoveryFindsAction
        BY SearchIsRight DEF CliInv
    <1> QED
        BY <1>1, <1>2, <1>3

-----------------------------------------------------------------------------
(* States and invocations that change. *)

\* The record of a state, with accounts that the log gives.
LEMMA StateRecord ==
    ASSUME NEW s, NEW a, NEW w, NEW f, NEW l, s = [accounts |-> a, settings |-> w, protocol_fees |-> f],
           \A t \in DOMAIN a : Local(a[t], t, l)
    PROVE  StateOK(s, l) /\ s.accounts = a
    <1>1. s.accounts = a /\ s.settings = w /\ s.protocol_fees = f
        OBVIOUS
    <1> QED
        BY <1>1 DEF StateOK, IsState

\* A new state, and one that is configured, has no accounts.
LEMMA NewStates ==
    ASSUME NEW l
    PROVE  /\ StateOK(NewAppState, l) /\ NewAppState.accounts = [t \in {} |-> {}]
           /\ StateOK(Configured, l) /\ Configured.accounts = [t \in {} |-> {}]
    <1>0. PICK e, w, f : /\ e = [t \in {} |-> {}] /\ w = {"node", "contract", "relayer"}
                         /\ f = [deposit |-> NoFee, withdraw |-> NoFee]
        OBVIOUS
    <1>1. DOMAIN e = {}
        BY <1>0
    <1>2. NewAppState = [accounts |-> e, settings |-> {}, protocol_fees |-> f]
        BY <1>0 DEF NewAppState
    <1>3. Configured = [accounts |-> e, settings |-> w, protocol_fees |-> f]
        <2>1. PICK n : n = NewAppState
            OBVIOUS
        <2>2. Configured = [n EXCEPT !.settings = w]
            BY <1>0, <2>1 DEF Configured
        <2>3. n = [accounts |-> e, settings |-> {}, protocol_fees |-> f]
            BY <1>2, <2>1
        <2>4. [n EXCEPT !.settings = w] = [accounts |-> e, settings |-> w, protocol_fees |-> f]
            BY <2>3
        <2> QED
            BY <2>2, <2>4
    <1> QED
        BY <1>0, <1>1, <1>2, <1>3, StateRecord

\* The account of a command is in the state it works with: it was, or is new.
LEMMA EnsuredState ==
    ASSUME NEW s, NEW token, NEW seed, NEW l, IsLog(l), StateOK(s, l)
    PROVE  LET e == ensure_account_exist(s, token, seed)
           IN  /\ StateOK(e, l) /\ token \in DOMAIN e.accounts
               /\ token \notin DOMAIN s.accounts =>
                    \E id : /\ e.accounts[token] = NewShielderAccount(id, token)
                            /\ (seed = "None" => id = default_zkid_seed(token))
    <1>1. PICK e : e = ensure_account_exist(s, token, seed)
        OBVIOUS
    <1>2. CASE token \in DOMAIN s.accounts
        BY <1>1, <1>2 DEF ensure_account_exist
    <1>3. CASE token \notin DOMAIN s.accounts
        <2>1. PICK id : id = IF seed = "None" THEN default_zkid_seed(token) ELSE <<"seed", seed>>
            OBVIOUS
        <2>2. PICK a, w, f : s = [accounts |-> a, settings |-> w, protocol_fees |-> f]
            BY DEF StateOK, IsState
        <2>3. PICK a2 : a2 = Extended(a, token, NewShielderAccount(id, token))
            OBVIOUS
        <2>4. s.accounts = a
            BY <2>2
        <2>5. e = [s EXCEPT !.accounts = a2]
            BY <1>1, <1>3, <2>1, <2>3, <2>4 DEF ensure_account_exist
        <2>6. e = [accounts |-> a2, settings |-> w, protocol_fees |-> f]
            BY <2>2, <2>5
        <2>7. /\ DOMAIN a2 = DOMAIN a \union {token} /\ a2[token] = NewShielderAccount(id, token)
              /\ \A t \in DOMAIN a : a2[t] = a[t]
            BY <1>3, <2>3, <2>4 DEF Extended
        <2>8. \A t \in DOMAIN a2 : Local(a2[t], t, l)
            BY <2>4, <2>7, LocalNew DEF StateOK
        <2>9. StateOK(e, l) /\ e.accounts = a2
            BY <2>6, <2>8, StateRecord
        <2>10. seed = "None" => id = default_zkid_seed(token)
            BY <2>1
        <2> QED
            BY <1>1, <2>7, <2>9, <2>10
    <1> QED
        BY <1>2, <1>3

WithSettings(s, w) == [s EXCEPT !.settings = w]
WithFees(s, f) == [s EXCEPT !.protocol_fees = f]

\* The accounts stay when a setting or a fee is kept.
LEMMA StateUpdates ==
    ASSUME NEW s, NEW y, NEW l, StateOK(s, l)
    PROVE  /\ StateOK(WithSettings(s, y), l) /\ WithSettings(s, y).accounts = s.accounts
           /\ StateOK(WithFees(s, y), l) /\ WithFees(s, y).accounts = s.accounts
    <1>1. PICK a, w, f : s = [accounts |-> a, settings |-> w, protocol_fees |-> f]
        BY DEF StateOK, IsState
    <1>2. WithSettings(s, y) = [accounts |-> a, settings |-> y, protocol_fees |-> f]
        BY <1>1 DEF WithSettings
    <1>3. WithFees(s, y) = [accounts |-> a, settings |-> w, protocol_fees |-> y]
        BY <1>1 DEF WithFees
    <1>4. s.accounts = a /\ \A t \in DOMAIN a : Local(a[t], t, l)
        BY <1>1 DEF StateOK
    <1> QED
        BY <1>2, <1>3, <1>4, StateRecord

\* The next action of an account is registered.
LEMMA ActionUpdate ==
    ASSUME NEW s, NEW token, NEW event, NEW l, IsLog(l), StateOK(s, l), token \in DOMAIN s.accounts,
           s.accounts[token].nonce < Len(EventsIn(l, s.accounts[token].id)),
           ShielderAction(event) =
             ShielderAction(EventsIn(l, s.accounts[token].id)[s.accounts[token].nonce + 1])
    PROVE  LET r == WithAction(s, token, event)
           IN  /\ StateOK(r, l) /\ DOMAIN r.accounts = DOMAIN s.accounts
               /\ r.accounts[token].id = s.accounts[token].id
               /\ r.accounts[token].nonce = s.accounts[token].nonce + 1
    <1>1. PICK a, w, f : s = [accounts |-> a, settings |-> w, protocol_fees |-> f]
        BY DEF StateOK, IsState
    <1>2. s.accounts = a
        BY <1>1
    <1>3. PICK a2 : a2 = After(a, token, event)
        OBVIOUS
    <1>4. PICK r : r = WithAction(s, token, event)
        OBVIOUS
    <1>5. r = [s EXCEPT !.accounts = a2]
        BY <1>2, <1>3, <1>4 DEF WithAction
    <1>6. r = [accounts |-> a2, settings |-> w, protocol_fees |-> f]
        BY <1>1, <1>5
    <1>7. PICK x : x = a[token]
        OBVIOUS
    <1>8. Local(x, token, l)
        BY <1>2, <1>7 DEF StateOK
    <1>9. /\ Local(register_action(x, event), token, l)
          /\ register_action(x, event).id = x.id /\ register_action(x, event).nonce = x.nonce + 1
        BY <1>2, <1>7, <1>8, LocalRegister
    <1>10. /\ DOMAIN a2 = DOMAIN a /\ a2[token] = register_action(x, event)
           /\ \A t \in DOMAIN a : t # token => a2[t] = a[t]
        BY <1>2, <1>3, <1>7 DEF After
    <1>11. \A t \in DOMAIN a2 : Local(a2[t], t, l)
        BY <1>2, <1>9, <1>10 DEF StateOK
    <1>12. StateOK(r, l) /\ r.accounts = a2
        BY <1>6, <1>11, StateRecord
    <1> QED
        BY <1>2, <1>4, <1>7, <1>9, <1>10, <1>12

\* The record of an invocation.
LEMMA ProcRecord ==
    ASSUME NEW a, NEW c, NEW f, NEW m, NEW n, NEW k, NEW e, NEW x, NEW q,
           q = [pc |-> a, cmd |-> c, file |-> f, mem |-> m, seen |-> n, call |-> k, fee |-> e, tx |-> x]
    PROVE  /\ IsProc(q) /\ q.pc = a /\ q.cmd = c /\ q.file = f /\ q.mem = m /\ q.seen = n
           /\ q.call = k /\ q.fee = e /\ q.tx = x
    <1>1. /\ q.pc = a /\ q.cmd = c /\ q.file = f /\ q.mem = m /\ q.seen = n
          /\ q.call = k /\ q.fee = e /\ q.tx = x
        OBVIOUS
    <1> QED
        BY <1>1 DEF IsProc

\* The ways an invocation goes on, and what it is then.
Moves(q, pc) == [q EXCEPT !.pc = pc]
Works(q, pc, mem) == [q EXCEPT !.pc = pc, !.mem = mem]
Prepares(q, pc, mem, call, fee) == [q EXCEPT !.pc = pc, !.mem = mem, !.call = call, !.fee = fee]
Sends(q, pc, tx) == [q EXCEPT !.pc = pc, !.tx = tx]
Asks(q, pc, tx, call) == [q EXCEPT !.pc = pc, !.tx = tx, !.call = call]
IsUpdate(r, q, pc, mem, call, fee, tx) ==
    /\ IsProc(r) /\ r.pc = pc /\ r.cmd = q.cmd /\ r.file = q.file /\ r.mem = mem
    /\ r.seen = q.seen /\ r.call = call /\ r.fee = fee /\ r.tx = tx

\* What each of them leaves alone.
LEMMA ProcUpdates ==
    ASSUME NEW q, NEW pc, NEW mem, NEW call, NEW fee, NEW tx, IsProc(q)
    PROVE  /\ IsUpdate(Moves(q, pc), q, pc, q.mem, q.call, q.fee, q.tx)
           /\ IsUpdate(Works(q, pc, mem), q, pc, mem, q.call, q.fee, q.tx)
           /\ IsUpdate(Prepares(q, pc, mem, call, fee), q, pc, mem, call, fee, q.tx)
           /\ IsUpdate(Sends(q, pc, tx), q, pc, q.mem, q.call, q.fee, tx)
           /\ IsUpdate(Asks(q, pc, tx, call), q, pc, q.mem, call, q.fee, tx)
    <1>1. PICK a, c, f, m, n, k, e, x :
            q = [pc |-> a, cmd |-> c, file |-> f, mem |-> m, seen |-> n, call |-> k, fee |-> e, tx |-> x]
        BY DEF IsProc
    <1>2. /\ q.pc = a /\ q.cmd = c /\ q.file = f /\ q.mem = m /\ q.seen = n
          /\ q.call = k /\ q.fee = e /\ q.tx = x
        BY <1>1, ProcRecord
    <1>3. Moves(q, pc) =
            [pc |-> pc, cmd |-> c, file |-> f, mem |-> m, seen |-> n, call |-> k, fee |-> e, tx |-> x]
        BY <1>1 DEF Moves
    <1>4. Works(q, pc, mem) =
            [pc |-> pc, cmd |-> c, file |-> f, mem |-> mem, seen |-> n, call |-> k, fee |-> e, tx |-> x]
        <2>1. PICK q1 : q1 = [q EXCEPT !.pc = pc]
            OBVIOUS
        <2>2. q1 =
                [pc |-> pc, cmd |-> c, file |-> f, mem |-> m, seen |-> n, call |-> k, fee |-> e, tx |-> x]
            BY <1>1, <2>1
        <2>3. Works(q, pc, mem) = [q1 EXCEPT !.mem = mem]
            BY <2>1 DEF Works
        <2> QED
            BY <2>2, <2>3
    <1>5. Prepares(q, pc, mem, call, fee) =
            [pc |-> pc, cmd |-> c, file |-> f, mem |-> mem, seen |-> n, call |-> call, fee |-> fee, tx |-> x]
        <2>1. PICK q1 : q1 = [q EXCEPT !.pc = pc]
            OBVIOUS
        <2>2. q1 =
                [pc |-> pc, cmd |-> c, file |-> f, mem |-> m, seen |-> n, call |-> k, fee |-> e, tx |-> x]
            BY <1>1, <2>1
        <2>3. PICK q2 : q2 = [q1 EXCEPT !.mem = mem]
            OBVIOUS
        <2>4. q2 =
                [pc |-> pc, cmd |-> c, file |-> f, mem |-> mem, seen |-> n, call |-> k, fee |-> e, tx |-> x]
            BY <2>2, <2>3
        <2>5. PICK q3 : q3 = [q2 EXCEPT !.call = call]
            OBVIOUS
        <2>6. q3 =
                [pc |-> pc, cmd |-> c, file |-> f, mem |-> mem, seen |-> n, call |-> call, fee |-> e, tx |-> x]
            BY <2>4, <2>5
        <2>7. Prepares(q, pc, mem, call, fee) = [q3 EXCEPT !.fee = fee]
            BY <2>1, <2>3, <2>5 DEF Prepares
        <2> QED
            BY <2>6, <2>7
    <1>6. Sends(q, pc, tx) =
            [pc |-> pc, cmd |-> c, file |-> f, mem |-> m, seen |-> n, call |-> k, fee |-> e, tx |-> tx]
        <2>1. PICK q1 : q1 = [q EXCEPT !.pc = pc]
            OBVIOUS
        <2>2. q1 =
                [pc |-> pc, cmd |-> c, file |-> f, mem |-> m, seen |-> n, call |-> k, fee |-> e, tx |-> x]
            BY <1>1, <2>1
        <2>3. Sends(q, pc, tx) = [q1 EXCEPT !.tx = tx]
            BY <2>1 DEF Sends
        <2> QED
            BY <2>2, <2>3
    <1>7. Asks(q, pc, tx, call) =
            [pc |-> pc, cmd |-> c, file |-> f, mem |-> m, seen |-> n, call |-> call, fee |-> e, tx |-> tx]
        <2>1. PICK q1 : q1 = [q EXCEPT !.pc = pc]
            OBVIOUS
        <2>2. q1 =
                [pc |-> pc, cmd |-> c, file |-> f, mem |-> m, seen |-> n, call |-> k, fee |-> e, tx |-> x]
            BY <1>1, <2>1
        <2>3. PICK q2 : q2 = [q1 EXCEPT !.tx = tx]
            OBVIOUS
        <2>4. q2 =
                [pc |-> pc, cmd |-> c, file |-> f, mem |-> m, seen |-> n, call |-> k, fee |-> e, tx |-> tx]
            BY <2>2, <2>3
        <2>5. Asks(q, pc, tx, call) = [q2 EXCEPT !.call = call]
            BY <2>1, <2>3 DEF Asks
        <2> QED
            BY <2>4, <2>5
    <1>8. IsUpdate(Moves(q, pc), q, pc, q.mem, q.call, q.fee, q.tx)
        BY <1>2, <1>3, ProcRecord DEF IsUpdate
    <1>9. IsUpdate(Works(q, pc, mem), q, pc, mem, q.call, q.fee, q.tx)
        BY <1>2, <1>4, ProcRecord DEF IsUpdate
    <1>10. IsUpdate(Prepares(q, pc, mem, call, fee), q, pc, mem, call, fee, q.tx)
        BY <1>2, <1>5, ProcRecord DEF IsUpdate
    <1>11. IsUpdate(Sends(q, pc, tx), q, pc, q.mem, q.call, q.fee, tx)
        BY <1>2, <1>6, ProcRecord DEF IsUpdate
    <1>12. IsUpdate(Asks(q, pc, tx, call), q, pc, q.mem, call, q.fee, tx)
        BY <1>2, <1>7, ProcRecord DEF IsUpdate
    <1> QED
        BY <1>8, <1>9, <1>10, <1>11, <1>12

\* An invocation that does not run.
LEMMA IdleOK ==
    ASSUME NEW l, NEW B, NEW P, NEW top
    PROVE  Steady(Idle, l) /\ Waits(Idle, l, B, P, top)
    <1>1. PICK n, c, s : n = [name |-> "none"] /\ c = NoCall /\ s = NewAppState
        OBVIOUS
    <1>2. Idle = [pc |-> "idle", cmd |-> n, file |-> "none", mem |-> s, seen |-> 0, call |-> c,
                  fee |-> 0, tx |-> 0]
        BY <1>1 DEF Idle
    <1>3. IsProc(Idle) /\ Idle.pc = "idle" /\ Idle.mem = NewAppState
        BY <1>1, <1>2, ProcRecord
    <1>4. StateOK(NewAppState, l)
        BY NewStates
    <1> QED
        BY <1>3, <1>4 DEF Steady, Waits, Contract, Settings, Preparing, Waiting, Saving

\* What holds of a state or an invocation holds with a longer log.
LEMMA StateGrows ==
    ASSUME NEW s, NEW l, NEW k, StateOK(s, l), IsLog(l), IsLog(k), Grows(l, k)
    PROVE  StateOK(s, k)
    BY LocalGrows DEF StateOK

\* So does what holds of an invocation by itself.
LEMMA SteadyGrows ==
    ASSUME NEW q, NEW l, NEW k, Steady(q, l), IsLog(l), IsLog(k), Grows(l, k)
    PROVE  Steady(q, k)
    <1>1. StateOK(q.mem, k)
        BY StateGrows DEF Steady
    <1>2. q.pc = "RecoverState" => q.seen <= Len(EventsIn(k, Of(q).id)) /\ q.seen \in Nat
        <2>1. /\ Len(EventsIn(l, Of(q).id)) \in Nat /\ Len(EventsIn(k, Of(q).id)) \in Nat
              /\ Len(EventsIn(l, Of(q).id)) <= Len(EventsIn(k, Of(q).id))
            BY SeqFacts DEF IsLog, Grows
        <2> QED
            BY <2>1 DEF Steady
    <1> QED
        BY <1>1, <1>2 DEF Steady

\* An answer stays one.
LEMMA AnswerGrows ==
    ASSUME NEW q, NEW m, NEW l, NEW k, IsAnswer(q, m, l), IsLog(l), IsLog(k), Grows(l, k),
           Of(q).nonce \in Nat
    PROVE  IsAnswer(q, m, k)
    <1>1. PICK a : a = Of(q)
        OBVIOUS
    <1>2. /\ Len(EventsIn(l, a.id)) \in Nat /\ Len(EventsIn(k, a.id)) \in Nat
          /\ Len(EventsIn(l, a.id)) <= Len(EventsIn(k, a.id))
          /\ \A n \in 1..Len(EventsIn(l, a.id)) : EventsIn(k, a.id)[n] = EventsIn(l, a.id)[n]
        BY SeqFacts DEF IsLog, Grows
    <1>3. ASSUME a.nonce < Len(EventsIn(l, a.id))
          PROVE  a.nonce < Len(EventsIn(k, a.id)) /\ EventsIn(k, a.id)[a.nonce + 1] = EventsIn(l, a.id)[a.nonce + 1]
        <2>1. a.nonce + 1 \in 1..Len(EventsIn(l, a.id))
            BY <1>1, <1>2, <1>3
        <2> QED
            BY <1>1, <1>2, <1>3, <2>1
    <1> QED
        BY <1>1, <1>3 DEF IsAnswer

\* A call from an account stays one.
LEMMA TxGrows ==
    ASSUME NEW tx, NEW l, NEW k, IsTx(tx, l), IsLog(l), IsLog(k), Grows(l, k)
    PROVE  IsTx(tx, k)
    <1> SUFFICES ASSUME tx.kind = "call" PROVE IsAccountCall(tx.call, k)
        BY DEF IsTx
    <1> DEFINE id == tx.call.new_note.of.id
    <1>1. /\ Len(EventsIn(l, id)) \in Nat /\ Len(EventsIn(k, id)) \in Nat
          /\ Len(EventsIn(l, id)) <= Len(EventsIn(k, id))
        BY SeqFacts DEF IsLog, Grows
    <1>2. PICK n \in 0..Len(EventsIn(l, id)) : NullifierOf(tx.call) = NullifierAt(id, n)
        BY DEF IsTx, IsAccountCall
    <1>3. n \in 0..Len(EventsIn(k, id))
        BY <1>1, <1>2
    <1>4. tx.call.kind \in Contract
        BY DEF IsTx, IsAccountCall
    <1> QED
        BY <1>2, <1>3, <1>4 DEF IsAccountCall

\* A step of one invocation that leaves the chain and the mempool alone.
LEMMA ProcStep ==
    ASSUME CliInv, NEW p \in Processes, NEW q, proc' = [proc EXCEPT ![p] = q],
           Steady(q, log), Waits(q, log, blocks, pending, used.txs), FilesOK(file', log),
           IsUsed(used'), used'.txs = used.txs,
           UNCHANGED <<chain, blocks, log, pending>>
    PROVE  CliInv'
    <1>1. \A o \in Processes : proc'[o] = IF o = p THEN q ELSE proc[o]
        BY DEF CliInv
    <1>2. DOMAIN proc' = Processes
        BY DEF CliInv
    <1>3. \A o \in Processes : Steady(proc'[o], log) /\ Waits(proc'[o], log, blocks, pending, used.txs)
        BY <1>1 DEF CliInv
    <1>4. /\ chain' = chain /\ blocks' = blocks /\ log' = log /\ pending' = pending
          /\ ChainOK(chain, blocks, log) /\ PendingOK(pending, log, used.txs)
          /\ MinedIds(blocks, used.txs) /\ used.txs \in Nat
        BY DEF CliInv
    <1> QED
        BY <1>2, <1>3, <1>4 DEF CliInv

\* It ends, and nothing is saved.
LEMMA EndStep ==
    ASSUME CliInv, NEW p \in Processes, End(p), IsUsed(used'), used'.txs = used.txs,
           FilesOK(file', log), UNCHANGED <<chain, blocks, log, pending>>
    PROVE  CliInv'
    <1>1. proc' = [proc EXCEPT ![p] = Idle]
        BY DEF End
    <1>2. Steady(Idle, log) /\ Waits(Idle, log, blocks, pending, used.txs)
        BY IdleOK
    <1> QED
        BY <1>1, <1>2, ProcStep

-----------------------------------------------------------------------------
(* The calls the client prepares. *)

\* A record in which the proof is replaced.
WithProof(c, y) == [c EXCEPT !.proof = y]

\* The call that creates an account.
LEMMA NewAccountCall ==
    ASSUME NEW a, NEW token, NEW amount, NEW extra
    PROVE  IsCallFrom(PrepareNewAccount(a, token, amount, extra), a, extra.protocol_fee)
    <1> DEFINE deposit == amount - extra.protocol_fee
    <1>1. PICK y, n, h, s, w, v, d : /\ y = deposit + extra.protocol_fee
                                  /\ n = NoteHash(a.id, next_nullifier(a), deposit, token)
                                  /\ h = Hashed(prenullifier(a.id))
                                  /\ s = [ar_key |-> extra.ar_key, key |-> a.id]
                                  /\ w = Mac(extra.mac_salt, a.id) /\ v = contract_version
                                  /\ d = extra.memo
        OBVIOUS
    <1>2. PICK c : c = [kind |-> "NewAccount", token |-> token, amount |-> y, version |-> v,
                        new_note |-> n, prenullifier |-> h, sym_key_encryption |-> s, mac |-> w,
                        memo |-> d, proof |-> NoProof]
        OBVIOUS
    <1>3. PICK g : g = generate_proof(TRUE, NewAccountInput(c, extra.ar_key, deposit,
                         DepositCommitment(extra.caller, extra.protocol_fee)))
        OBVIOUS
    <1>4. PICK call : call = PrepareNewAccount(a, token, amount, extra)
        OBVIOUS
    <1>5. call = WithProof(c, g)
        BY <1>1, <1>2, <1>3, <1>4 DEF PrepareNewAccount, WithProof
    <1>6. call = [kind |-> "NewAccount", token |-> token, amount |-> y, version |-> v,
                  new_note |-> n, prenullifier |-> h, sym_key_encryption |-> s, mac |-> w,
                  memo |-> d, proof |-> g]
        BY <1>2, <1>5 DEF WithProof
    <1>7. call.kind = "NewAccount" /\ call.new_note = n /\ call.prenullifier = h /\ call.proof = g
        BY <1>6
    <1>8. n.of.id = a.id
        BY <1>1 DEF NoteHash, Hashed
    <1>9. g.input.commitment.protocol_fee = extra.protocol_fee
        BY <1>3 DEF generate_proof, NewAccountInput, DepositCommitment
    <1>10. NullifierOf(call) = NullifierAt(a.id, 0)
        BY <1>1, <1>7, Nullifiers DEF NullifierOf
    <1> QED
        BY <1>4, <1>7, <1>8, <1>9, <1>10 DEF IsCallFrom, Contract

\* A deposit.
LEMMA DepositCall ==
    ASSUME NEW a, NEW token, NEW amount, NEW extra, a.nonce \in Nat
    PROVE  IsCallFrom(PrepareDeposit(a, token, amount, extra), a, extra.protocol_fee)
    <1> DEFINE value == amount - extra.protocol_fee
    <1>1. PICK y, n, h, r, w, v, d :
            /\ y = value + extra.protocol_fee
            /\ n = NoteHash(a.id, next_nullifier(a), a.shielded_amount + value, token)
            /\ h = Hashed(previous_nullifier(a)) /\ r = extra.merkle_path.root
            /\ w = Mac(extra.mac_salt, a.id) /\ v = contract_version /\ d = extra.memo
        OBVIOUS
    <1>2. PICK c : c = [kind |-> "Deposit", token |-> token, amount |-> y, version |-> v,
                        old_nullifier_hash |-> h, new_note |-> n, merkle_root |-> r, mac |-> w,
                        memo |-> d, proof |-> NoProof]
        OBVIOUS
    <1>3. PICK g : g = generate_proof(extra.merkle_path.leaf = OldNote(a, token),
                         SpendInput(c, value, DepositCommitment(extra.caller, extra.protocol_fee)))
        OBVIOUS
    <1>4. PICK call : call = PrepareDeposit(a, token, amount, extra)
        OBVIOUS
    <1>5. call = WithProof(c, g)
        BY <1>1, <1>2, <1>3, <1>4 DEF PrepareDeposit, WithProof
    <1>6. call = [kind |-> "Deposit", token |-> token, amount |-> y, version |-> v,
                  old_nullifier_hash |-> h, new_note |-> n, merkle_root |-> r, mac |-> w,
                  memo |-> d, proof |-> g]
        BY <1>2, <1>5 DEF WithProof
    <1>7. call.kind = "Deposit" /\ call.new_note = n /\ call.old_nullifier_hash = h /\ call.proof = g
        BY <1>6
    <1>8. n.of.id = a.id
        BY <1>1 DEF NoteHash, Hashed
    <1>9. g.input.commitment.protocol_fee = extra.protocol_fee
        BY <1>3 DEF generate_proof, SpendInput, DepositCommitment
    <1>10. NullifierOf(call) = NullifierAt(a.id, a.nonce)
        BY <1>1, <1>7, Nullifiers DEF NullifierOf
    <1> QED
        BY <1>4, <1>7, <1>8, <1>9, <1>10 DEF IsCallFrom, Contract

\* A withdrawal.
LEMMA WithdrawCall ==
    ASSUME NEW a, NEW token, NEW amount, NEW extra, a.nonce \in Nat
    PROVE  IsCallFrom(PrepareWithdraw(a, token, amount, extra), a, extra.protocol_fee)
    <1>1. PICK n, h, r, w, v, d, to, ra, rf, pm :
            /\ n = NoteHash(a.id, next_nullifier(a), a.shielded_amount - amount, token)
            /\ h = Hashed(previous_nullifier(a)) /\ r = extra.merkle_path.root
            /\ w = Mac(extra.mac_salt, a.id) /\ v = contract_version /\ d = extra.memo
            /\ to = extra.to /\ ra = extra.relayer_address /\ rf = extra.relayer_fee
            /\ pm = extra.pocket_money
        OBVIOUS
    <1>2. PICK c : c = [kind |-> "Withdraw", token |-> token, amount |-> amount, version |-> v,
                        withdrawal_address |-> to, relayer_address |-> ra, relayer_fee |-> rf,
                        merkle_root |-> r, old_nullifier_hash |-> h, new_note |-> n,
                        pocket_money |-> pm, mac |-> w, memo |-> d, proof |-> NoProof]
        OBVIOUS
    <1>3. PICK g : g = generate_proof(
                         extra.merkle_path.leaf = OldNote(a, token) /\ amount <= a.shielded_amount,
                         SpendInput(c, amount, WithdrawCommitment(c, extra.contract_version,
                                                 extra.chain_id, extra.protocol_fee)))
        OBVIOUS
    <1>4. PICK call : call = PrepareWithdraw(a, token, amount, extra)
        OBVIOUS
    <1>5. call = WithProof(c, g)
        BY <1>1, <1>2, <1>3, <1>4 DEF PrepareWithdraw, WithProof
    <1>6. call = [kind |-> "Withdraw", token |-> token, amount |-> amount, version |-> v,
                  withdrawal_address |-> to, relayer_address |-> ra, relayer_fee |-> rf,
                  merkle_root |-> r, old_nullifier_hash |-> h, new_note |-> n,
                  pocket_money |-> pm, mac |-> w, memo |-> d, proof |-> g]
        BY <1>2, <1>5 DEF WithProof
    <1>7. call.kind = "Withdraw" /\ call.new_note = n /\ call.old_nullifier_hash = h /\ call.proof = g
        BY <1>6
    <1>8. n.of.id = a.id
        BY <1>1 DEF NoteHash, Hashed
    <1>9. g.input.commitment.protocol_fee = extra.protocol_fee
        BY <1>3 DEF generate_proof, SpendInput, WithdrawCommitment
    <1>10. NullifierOf(call) = NullifierAt(a.id, a.nonce)
        BY <1>1, <1>7, Nullifiers DEF NullifierOf
    <1> QED
        BY <1>4, <1>7, <1>8, <1>9, <1>10 DEF IsCallFrom, Contract

\* A call from an account that the log gives is one of the contract's.
LEMMA CallFromAccount ==
    ASSUME NEW call, NEW a, NEW token, NEW fee, NEW l, IsLog(l), Local(a, token, l),
           IsCallFrom(call, a, fee)
    PROVE  IsAccountCall(call, l)
    <1>1. Len(EventsIn(l, a.id)) \in Nat /\ a.nonce \in 0..Len(EventsIn(l, a.id))
        BY SeqFacts DEF IsLog, Local
    <1>2. PICK n \in 0..Len(EventsIn(l, a.id)) : NullifierOf(call) = NullifierAt(a.id, n)
        BY <1>1 DEF IsCallFrom
    <1> QED
        BY <1>2 DEF IsCallFrom, IsAccountCall

\* If it is accepted, its event is the account's next action, and has the fee the client
\* computed.
LEMMA AcceptedFromAccount ==
    ASSUME NEW q, NEW tx, NEW m, NEW token, NEW l, NEW k, IsLog(l), Local(Of(q), token, l),
           IsAwaited(q, tx), IsOutcome(m, tx, l, k)
    PROVE  IsAnswer(q, m, k)
    <1>1. PICK a : a = Of(q)
        OBVIOUS
    <1>2. Len(EventsIn(l, a.id)) \in Nat /\ a.nonce \in 0..Len(EventsIn(l, a.id))
        BY <1>1, SeqFacts DEF IsLog, Local
    <1>3. tx.kind = "call" /\ m.kind = "call" /\ IsCallFrom(tx.call, a, q.fee) /\ q.call = Action(tx.call)
        BY <1>1 DEF IsAwaited, IsOutcome
    <1> SUFFICES ASSUME m.ok
                 PROVE  /\ a.nonce < Len(EventsIn(k, a.id)) /\ m.event = EventsIn(k, a.id)[a.nonce + 1]
                        /\ m.event.kind = q.call.kind /\ m.event.amount = q.call.amount
                        /\ m.event.token = q.call.token /\ m.event.protocolFee = q.fee
        BY <1>1, <1>3 DEF IsAnswer
    <1>4. IsLogged(m.event, tx.call, l, k)
        BY <1>3 DEF IsOutcome
    <1>5. tx.call.new_note.of.id = a.id
        BY <1>3 DEF IsCallFrom
    <1>6. PICK n : n = Len(EventsIn(l, a.id))
        OBVIOUS
    <1>7. /\ NullifierOf(tx.call) = NullifierAt(a.id, n)
          /\ Len(EventsIn(k, a.id)) = n + 1 /\ EventsIn(k, a.id)[n + 1] = m.event
          /\ m.event.kind = tx.call.kind /\ m.event.amount = tx.call.amount
          /\ m.event.token = tx.call.token
          /\ m.event.protocolFee = tx.call.proof.input.commitment.protocol_fee
        BY <1>4, <1>5, <1>6 DEF IsLogged
    <1>8. a.nonce = n
        <2>1. CASE tx.call.kind = "NewAccount"
            <3>1. NullifierAt(a.id, 0) = NullifierAt(a.id, n)
                BY <1>3, <1>7, <2>1 DEF IsCallFrom
            <3>2. n = 0
                BY <1>2, <1>6, <3>1, Nullifiers
            <3> QED
                BY <1>2, <1>6, <3>2
        <2>2. CASE tx.call.kind # "NewAccount"
            <3>1. NullifierAt(a.id, a.nonce) = NullifierAt(a.id, n)
                BY <1>3, <1>7, <2>2 DEF IsCallFrom
            <3> QED
                BY <1>2, <1>6, <3>1, Nullifiers
        <2> QED
            BY <2>1, <2>2
    <1>9. q.call.kind = tx.call.kind /\ q.call.amount = tx.call.amount /\ q.call.token = tx.call.token
        BY <1>3 DEF Action
    <1> QED
        BY <1>2, <1>3, <1>6, <1>7, <1>8, <1>9 DEF IsCallFrom

-----------------------------------------------------------------------------
(* The steps of an invocation. *)

\* The record of what the bounds were spent on.
LEMMA UsedRecord ==
    ASSUME NEW a, NEW b, NEW c, NEW d, NEW e, NEW u,
           u = [commands |-> a, stops |-> b, foreign |-> c, fees |-> d, txs |-> e]
    PROVE  IsUsed(u) /\ u.txs = e
    <1>1. u.commands = a /\ u.stops = b /\ u.foreign = c /\ u.fees = d /\ u.txs = e
        OBVIOUS
    <1> QED
        BY <1>1 DEF IsUsed

WithCommands(u, y) == [u EXCEPT !.commands = y]
WithStops(u, y) == [u EXCEPT !.stops = y]
WithTxs(u, y) == [u EXCEPT !.txs = y]
WithOthers(u, y, z) == [u EXCEPT !.foreign = y, !.fees = z]

\* What each change of it leaves alone.
LEMMA UsedUpdates ==
    ASSUME NEW u, NEW y, NEW z, IsUsed(u)
    PROVE  /\ IsUsed(WithCommands(u, y)) /\ WithCommands(u, y).txs = u.txs
           /\ IsUsed(WithStops(u, y)) /\ WithStops(u, y).txs = u.txs
           /\ IsUsed(WithTxs(u, y)) /\ WithTxs(u, y).txs = y
           /\ IsUsed(WithOthers(u, y, z)) /\ WithOthers(u, y, z).txs = u.txs
    <1>1. PICK a, b, c, d, e : u = [commands |-> a, stops |-> b, foreign |-> c, fees |-> d, txs |-> e]
        BY DEF IsUsed
    <1>2. u.txs = e
        BY <1>1
    <1>3. WithCommands(u, y) = [commands |-> y, stops |-> b, foreign |-> c, fees |-> d, txs |-> e]
        BY <1>1 DEF WithCommands
    <1>4. WithStops(u, y) = [commands |-> a, stops |-> y, foreign |-> c, fees |-> d, txs |-> e]
        BY <1>1 DEF WithStops
    <1>5. WithTxs(u, y) = [commands |-> a, stops |-> b, foreign |-> c, fees |-> d, txs |-> y]
        BY <1>1 DEF WithTxs
    <1>6. WithOthers(u, y, z) = [commands |-> a, stops |-> b, foreign |-> y, fees |-> z, txs |-> e]
        <2>1. PICK u1 : u1 = [u EXCEPT !.foreign = y]
            OBVIOUS
        <2>2. u1 = [commands |-> a, stops |-> b, foreign |-> y, fees |-> d, txs |-> e]
            BY <1>1, <2>1
        <2>3. WithOthers(u, y, z) = [u1 EXCEPT !.fees = z]
            BY <2>1 DEF WithOthers
        <2> QED
            BY <2>2, <2>3
    <1>7. IsUsed(WithCommands(u, y)) /\ WithCommands(u, y).txs = e
        BY <1>3, UsedRecord
    <1>8. IsUsed(WithStops(u, y)) /\ WithStops(u, y).txs = e
        BY <1>4, UsedRecord
    <1>9. IsUsed(WithTxs(u, y)) /\ WithTxs(u, y).txs = y
        BY <1>5, UsedRecord
    <1>10. IsUsed(WithOthers(u, y, z)) /\ WithOthers(u, y, z).txs = e
        BY <1>6, UsedRecord
    <1> QED
        BY <1>2, <1>7, <1>8, <1>9, <1>10

\* An invocation as it starts.
Starts(pc, cmd, f, mem, seen) ==
    [Idle EXCEPT !.pc = pc, !.cmd = cmd, !.file = f, !.mem = mem, !.seen = seen]
Creates(cmd, f) == [Idle EXCEPT !.pc = "create", !.cmd = cmd, !.file = f]

\* Its record.
LEMMA StartRecord ==
    ASSUME NEW pc, NEW cmd, NEW f, NEW mem, NEW seen
    PROVE  /\ LET q == Starts(pc, cmd, f, mem, seen)
              IN  IsProc(q) /\ q.pc = pc /\ q.cmd = cmd /\ q.mem = mem /\ q.seen = seen
           /\ LET q == Creates(cmd, f)
              IN  IsProc(q) /\ q.pc = "create" /\ q.cmd = cmd /\ q.mem = NewAppState
    <1>1. PICK n, c, s, q0 : n = [name |-> "none"] /\ c = NoCall /\ s = NewAppState /\ q0 = Idle
        OBVIOUS
    <1>2. q0 = [pc |-> "idle", cmd |-> n, file |-> "none", mem |-> s, seen |-> 0, call |-> c,
                fee |-> 0, tx |-> 0]
        BY <1>1 DEF Idle
    <1>3. PICK q1 : q1 = [q0 EXCEPT !.pc = pc]
        OBVIOUS
    <1>4. q1 = [pc |-> pc, cmd |-> n, file |-> "none", mem |-> s, seen |-> 0, call |-> c,
                fee |-> 0, tx |-> 0]
        BY <1>2, <1>3
    <1>5. PICK q2 : q2 = [q1 EXCEPT !.cmd = cmd]
        OBVIOUS
    <1>6. q2 = [pc |-> pc, cmd |-> cmd, file |-> "none", mem |-> s, seen |-> 0, call |-> c,
                fee |-> 0, tx |-> 0]
        BY <1>4, <1>5
    <1>7. PICK q3 : q3 = [q2 EXCEPT !.file = f]
        OBVIOUS
    <1>8. q3 = [pc |-> pc, cmd |-> cmd, file |-> f, mem |-> s, seen |-> 0, call |-> c,
                fee |-> 0, tx |-> 0]
        BY <1>6, <1>7
    <1>9. PICK q4 : q4 = [q3 EXCEPT !.mem = mem]
        OBVIOUS
    <1>10. q4 = [pc |-> pc, cmd |-> cmd, file |-> f, mem |-> mem, seen |-> 0, call |-> c,
                 fee |-> 0, tx |-> 0]
        BY <1>8, <1>9
    <1>11. PICK q5 : q5 = [q4 EXCEPT !.seen = seen]
        OBVIOUS
    <1>12. q5 = [pc |-> pc, cmd |-> cmd, file |-> f, mem |-> mem, seen |-> seen, call |-> c,
                 fee |-> 0, tx |-> 0]
        BY <1>10, <1>11
    <1>13. Starts(pc, cmd, f, mem, seen) = q5
        BY <1>1, <1>3, <1>5, <1>7, <1>9, <1>11 DEF Starts
    <1>14. IsProc(q5) /\ q5.pc = pc /\ q5.cmd = cmd /\ q5.mem = mem /\ q5.seen = seen
        BY <1>12, ProcRecord
    <1>15. PICK r1 : r1 = [q0 EXCEPT !.pc = "create"]
        OBVIOUS
    <1>16. r1 = [pc |-> "create", cmd |-> n, file |-> "none", mem |-> s, seen |-> 0, call |-> c,
                 fee |-> 0, tx |-> 0]
        BY <1>2, <1>15
    <1>17. PICK r2 : r2 = [r1 EXCEPT !.cmd = cmd]
        OBVIOUS
    <1>18. r2 = [pc |-> "create", cmd |-> cmd, file |-> "none", mem |-> s, seen |-> 0, call |-> c,
                 fee |-> 0, tx |-> 0]
        BY <1>16, <1>17
    <1>19. PICK r3 : r3 = [r2 EXCEPT !.file = f]
        OBVIOUS
    <1>20. r3 = [pc |-> "create", cmd |-> cmd, file |-> f, mem |-> s, seen |-> 0, call |-> c,
                 fee |-> 0, tx |-> 0]
        BY <1>18, <1>19
    <1>21. Creates(cmd, f) = r3
        BY <1>1, <1>15, <1>17, <1>19 DEF Creates
    <1>22. IsProc(r3) /\ r3.pc = "create" /\ r3.cmd = cmd /\ r3.mem = s
        BY <1>20, ProcRecord
    <1> QED
        BY <1>1, <1>13, <1>14, <1>21, <1>22

\* main: a command begins.
LEMMA StartInv ==
    ASSUME CliInv, NEW p \in Processes, Start(p)
    PROVE  CliInv'
    <1>0. ChainOK(chain, blocks, log) /\ IsLog(log) /\ FilesOK(file, log)
        BY DEF CliInv, ChainOK
    <1>1. IsUsed(used') /\ used'.txs = used.txs
        <2>1. PICK y : y = used.commands + 1
            OBVIOUS
        <2>2. used' = WithCommands(used, y)
            BY <2>1 DEF Start, WithCommands
        <2>3. IsUsed(used)
            BY DEF CliInv
        <2> QED
            BY <2>2, <2>3, UsedUpdates
    <1>2. UNCHANGED <<file, chain, blocks, log, pending>>
        BY DEF Start
    <1>3. FilesOK(file', log)
        BY <1>0, <1>2
    <1>4. PICK f \in Files, cmd \in Commands :
            LET ensured == ensure_account_exist(file[f].state, cmd.token, cmd.seed)
                mem == IF cmd.name \in Contract \union {"RecoverState"} THEN ensured
                       ELSE file[f].state
            IN \/ /\ cmd.name = "Initialize"
                  /\ proc' = [proc EXCEPT ![p] = [Idle EXCEPT !.pc = "create", !.cmd = cmd, !.file = f]]
               \/ /\ cmd.name # "Initialize" /\ file[f].status = "ok"
                  /\ proc' = [proc EXCEPT ![p] =
                       [Idle EXCEPT !.pc = cmd.name, !.cmd = cmd, !.file = f, !.mem = mem,
                                    !.seen = IF cmd.name = "RecoverState"
                                             THEN Len(EventsOf(mem.accounts[cmd.token].id)) ELSE 0]]
        BY DEF Start
    <1>5. PICK s : s = file[f].state
        OBVIOUS
    <1>6. PICK e : e = ensure_account_exist(s, cmd.token, cmd.seed)
        OBVIOUS
    <1>7. PICK mem : mem = IF cmd.name \in Contract \union {"RecoverState"} THEN e ELSE s
        OBVIOUS
    <1>8. PICK seen : seen = IF cmd.name = "RecoverState"
                             THEN Len(EventsOf(mem.accounts[cmd.token].id)) ELSE 0
        OBVIOUS
    <1>9. \/ cmd.name = "Initialize" /\ proc' = [proc EXCEPT ![p] = Creates(cmd, f)]
          \/ /\ cmd.name # "Initialize" /\ file[f].status = "ok"
             /\ proc' = [proc EXCEPT ![p] = Starts(cmd.name, cmd, f, mem, seen)]
        BY <1>4, <1>5, <1>6, <1>7, <1>8 DEF Creates, Starts
    <1>10. CASE cmd.name = "Initialize" /\ proc' = [proc EXCEPT ![p] = Creates(cmd, f)]
        <2>1. PICK q : q = Creates(cmd, f)
            OBVIOUS
        <2>2. IsProc(q) /\ q.pc = "create" /\ q.cmd = cmd /\ q.mem = NewAppState
            BY <2>1, StartRecord
        <2>3. StateOK(q.mem, log)
            BY <2>2, NewStates
        <2>4. Steady(q, log) /\ Waits(q, log, blocks, pending, used.txs)
            BY <1>10, <2>2, <2>3 DEF Steady, Waits, Contract, Settings, Preparing, Waiting, Saving
        <2> QED
            BY <1>1, <1>2, <1>3, <1>10, <2>1, <2>4, ProcStep
    <1>11. CASE /\ cmd.name # "Initialize" /\ file[f].status = "ok"
                /\ proc' = [proc EXCEPT ![p] = Starts(cmd.name, cmd, f, mem, seen)]
        <2>1. PICK q : q = Starts(cmd.name, cmd, f, mem, seen)
            OBVIOUS
        <2>2. IsProc(q) /\ q.pc = cmd.name /\ q.cmd = cmd /\ q.mem = mem /\ q.seen = seen
            BY <2>1, StartRecord
        <2>3. StateOK(s, log)
            BY <1>0, <1>5, <1>11 DEF FilesOK
        <2>4. StateOK(e, log) /\ cmd.token \in DOMAIN e.accounts
            BY <1>0, <1>6, <2>3, EnsuredState
        <2>5. StateOK(mem, log)
            BY <1>7, <2>3, <2>4
        <2>6. cmd.name \in Contract \union {"RecoverState"} => cmd.token \in DOMAIN mem.accounts
            BY <1>7, <2>4
        <2>7. cmd.name \in Contract \union Settings \union {"Read", "RecoverState"}
            BY <1>11, CliAssumption
        <2>8. cmd.name = "RecoverState" =>
                /\ seen = Len(EventsIn(log, Of(q).id)) /\ seen \in Nat /\ seen <= Len(EventsIn(log, Of(q).id))
            <3>1. Len(EventsIn(log, Of(q).id)) \in Nat
                BY <1>0, SeqFacts DEF IsLog
            <3> QED
                BY <1>8, <2>2, <3>1 DEF EventsOf, Of
        <2>9. Steady(q, log)
            BY <2>2, <2>5, <2>6, <2>7, <2>8
               DEF Steady, Contract, Settings, Preparing, Waiting, Saving
        <2>10. Waits(q, log, blocks, pending, used.txs)
            BY <2>2, <2>7 DEF Waits, Contract, Settings, Waiting
        <2> QED
            BY <1>1, <1>2, <1>3, <1>11, <2>1, <2>9, <2>10, ProcStep
    <1> QED
        BY <1>9, <1>10, <1>11

\* What the invariant says where an invocation takes a step.
LEMMA ProcFacts ==
    ASSUME CliInv, NEW p \in Processes
    PROVE  /\ IsProc(proc[p]) /\ StateOK(proc[p].mem, log)
           /\ Steady(proc[p], log) /\ Waits(proc[p], log, blocks, pending, used.txs)
           /\ ChainOK(chain, blocks, log) /\ IsLog(log) /\ FilesOK(file, log)
           /\ IsUsed(used) /\ used.txs \in Nat
    BY DEF CliInv, Steady, ChainOK

\* The file of an invocation is truncated or written.
LEMMA FileStep ==
    ASSUME FilesOK(file, log), NEW f, NEW y, file' = [file EXCEPT ![f] = y],
           y.status = "ok" => StateOK(y.state, log)
    PROVE  FilesOK(file', log)
    <1>1. DOMAIN file' = Files /\ \A g \in Files : file'[g] = file[g] \/ file'[g] = y
        BY DEF FilesOK
    <1> QED
        BY <1>1 DEF FilesOK

\* An invocation moves on, with what it has.
LEMMA MoveStep ==
    ASSUME CliInv, NEW p \in Processes, NEW pc, Goto(p, pc), FilesOK(file', log), IsUsed(used'),
           used'.txs = used.txs, UNCHANGED <<chain, blocks, log, pending>>,
           \/ /\ proc[p].pc \in Saving \union {"create"} /\ pc = "write"
           \/ /\ proc[p].pc = "approving" /\ pc = "send"
           \/ /\ proc[p].pc = "RecoverState" /\ pc = "save" /\ Account(p).nonce >= proc[p].seen
    PROVE  CliInv'
    <1>0. /\ IsProc(proc[p]) /\ StateOK(proc[p].mem, log) /\ Steady(proc[p], log)
        BY ProcFacts
    <1>1. PICK o, q : o = proc[p] /\ q = Moves(proc[p], pc)
        OBVIOUS
    <1>2. proc' = [proc EXCEPT ![p] = q]
        BY <1>1 DEF Goto, Moves
    <1>3. IsUpdate(q, o, pc, o.mem, o.call, o.fee, o.tx)
        BY <1>0, <1>1, ProcUpdates
    <1>4. Of(q) = Of(o) /\ Of(o) = Account(p)
        BY <1>1, <1>3 DEF IsUpdate, Of, Account
    <1>5. Steady(q, log)
        BY <1>0, <1>1, <1>3, <1>4
           DEF Steady, IsUpdate, Contract, Settings, Preparing, Waiting, Saving
    <1>6. Waits(q, log, blocks, pending, used.txs)
        BY <1>3 DEF Waits, IsUpdate, Waiting, Saving
    <1> QED
        BY <1>2, <1>5, <1>6, ProcStep

\* The step leaves the bounds and the file alone.
LEMMA Unchanged ==
    ASSUME CliInv, UNCHANGED <<file, used>>
    PROVE  FilesOK(file', log) /\ IsUsed(used') /\ used'.txs = used.txs
    <1>1. FilesOK(file, log) /\ IsUsed(used) /\ file' = file /\ used' = used
        BY DEF CliInv
    <1> QED
        BY <1>1

\* Initialize, and every save, truncates the file first.
LEMMA CreateInv ==
    ASSUME CliInv, NEW p \in Processes, create_and_save_new_state(p) \/ BeginSave(p)
    PROVE  CliInv'
    <1>1. /\ proc[p].pc \in Saving \union {"create"} /\ Goto(p, "write")
          /\ file' = [file EXCEPT ![proc[p].file] = Truncated]
          /\ UNCHANGED <<chain, blocks, log, pending, used>>
        BY DEF create_and_save_new_state, BeginSave, Saving
    <1>2. PICK f : f = proc[p].file
        OBVIOUS
    <1>3. Truncated.status # "ok"
        BY DEF Truncated
    <1>4. FilesOK(file', log)
        BY <1>1, <1>2, <1>3, ProcFacts, FileStep
    <1>5. IsUsed(used') /\ used'.txs = used.txs
        BY <1>1, ProcFacts
    <1> QED
        BY <1>1, <1>4, <1>5, MoveStep

\* An address is set.
LEMMA WriteActionInv ==
    ASSUME CliInv, NEW p \in Processes, perform_state_write_action(p)
    PROVE  CliInv'
    <1>0. /\ IsProc(proc[p]) /\ StateOK(proc[p].mem, log) /\ Steady(proc[p], log)
        BY ProcFacts
    <1>1. FilesOK(file', log) /\ IsUsed(used') /\ used'.txs = used.txs
        BY Unchanged DEF perform_state_write_action
    <1>2. PICK o, y : o = proc[p] /\ y = proc[p].mem.settings \union {Setting(proc[p].pc)}
        OBVIOUS
    <1>3. PICK mem : mem = WithSettings(o.mem, y)
        OBVIOUS
    <1>4. PICK q : q = Works(o, "save", mem)
        OBVIOUS
    <1>5. proc' = [proc EXCEPT ![p] = q]
        <2>1. WithSetting(o.mem, Setting(o.pc)) = mem
            BY <1>2, <1>3 DEF WithSetting, WithSettings
        <2>2. proc' = [proc EXCEPT ![p] =
                [o EXCEPT !.mem = WithSetting(o.mem, Setting(o.pc)), !.pc = "save"]]
            BY <1>2 DEF perform_state_write_action
        <2>3. [o EXCEPT !.mem = mem, !.pc = "save"] = Works(o, "save", mem)
            BY DEF Works
        <2> QED
            BY <1>4, <2>1, <2>2, <2>3
    <1>6. IsUpdate(q, o, "save", mem, o.call, o.fee, o.tx)
        BY <1>0, <1>2, <1>4, ProcUpdates
    <1>7. StateOK(mem, log)
        BY <1>0, <1>2, <1>3, StateUpdates
    <1>8. o.pc \in Settings /\ o.cmd.name # "RecoverState"
        BY <1>0, <1>2 DEF perform_state_write_action, Steady
    <1>9. Steady(q, log)
        BY <1>6, <1>7, <1>8 DEF Steady, IsUpdate, Contract, Settings, Preparing, Waiting, Saving
    <1>10. Waits(q, log, blocks, pending, used.txs)
        BY <1>6 DEF Waits, IsUpdate, Waiting
    <1>11. UNCHANGED <<chain, blocks, log, pending>>
        BY DEF perform_state_write_action
    <1> QED
        BY <1>1, <1>5, <1>9, <1>10, <1>11, ProcStep

\* A call is prepared: it comes from the account the invocation works with.
LEMMA ReadyStep ==
    ASSUME CliInv, NEW p \in Processes, NEW pc, NEW mem, NEW y, NEW call, NEW fee,
           proc[p].pc \in Contract, pc \in Preparing, mem = WithFees(proc[p].mem, y),
           IsCallFrom(call, Account(p), fee), Ready(p, pc, mem, call, fee),
           UNCHANGED <<file, chain, blocks, log, pending, used>>
    PROVE  CliInv'
    <1>0. /\ IsProc(proc[p]) /\ StateOK(proc[p].mem, log) /\ Steady(proc[p], log)
        BY ProcFacts
    <1>1. FilesOK(file', log) /\ IsUsed(used') /\ used'.txs = used.txs
        BY Unchanged
    <1>2. PICK o, q : o = proc[p] /\ q = Prepares(proc[p], pc, mem, call, fee)
        OBVIOUS
    <1>3. proc' = [proc EXCEPT ![p] = q]
        BY <1>2 DEF Ready, Prepares
    <1>4. IsUpdate(q, o, pc, mem, call, fee, o.tx)
        BY <1>0, <1>2, ProcUpdates
    <1>5. StateOK(mem, log) /\ mem.accounts = o.mem.accounts
        BY <1>0, <1>2, StateUpdates
    <1>6. Of(q) = Account(p)
        BY <1>2, <1>4, <1>5 DEF IsUpdate, Of, Account
    <1>7. o.cmd.name # "RecoverState" /\ o.cmd.token \in DOMAIN o.mem.accounts
        BY <1>0, <1>2 DEF Steady
    <1>8. Steady(q, log)
        BY <1>4, <1>5, <1>6, <1>7
           DEF Steady, IsUpdate, Contract, Settings, Preparing, Waiting, Saving
    <1>9. Waits(q, log, blocks, pending, used.txs)
        BY <1>4 DEF Waits, IsUpdate, Waiting, Preparing
    <1> QED
        BY <1>1, <1>3, <1>8, <1>9, ProcStep

\* An account that an invocation works with.
LEMMA AccountFacts ==
    ASSUME CliInv, NEW p \in Processes,
           proc[p].pc \in Contract \union {"RecoverState"} \union Preparing \union Waiting
    PROVE  /\ proc[p].cmd.token \in DOMAIN proc[p].mem.accounts
           /\ Local(Account(p), proc[p].cmd.token, log) /\ Account(p).nonce \in Nat
    <1>1. Steady(proc[p], log) /\ IsLog(log)
        BY ProcFacts
    <1>2. /\ proc[p].cmd.token \in DOMAIN proc[p].mem.accounts
          /\ Local(Account(p), proc[p].cmd.token, log)
        BY <1>1 DEF Steady, StateOK, Account
    <1>3. Len(EventsIn(log, Account(p).id)) \in Nat
        BY <1>1, SeqFacts DEF IsLog
    <1> QED
        BY <1>2, <1>3 DEF Local

\* new_account, deposit and withdraw, up to the call.
LEMMA PrepareInv ==
    ASSUME CliInv, NEW p \in Processes,
           PrepareNewAccountCall(p) \/ PrepareDepositCall(p) \/ PrepareWithdrawCall(p)
    PROVE  CliInv'
    <1>1. ASSUME PrepareNewAccountCall(p) PROVE CliInv'
        <2>1. PICK bps : bps = FeesOf(p, "deposit")
            OBVIOUS
        <2>2. PICK fee : fee = compute_protocol_fee_from_net(proc[p].cmd.amount, bps)
            OBVIOUS
        <2>3. PICK extra : extra = [ar_key |-> chain.ar_key, mac_salt |-> "salt", caller |-> "user",
                                    protocol_fee |-> fee, memo |-> "memo"]
            OBVIOUS
        <2>4. PICK call : call = PrepareNewAccount(Account(p), proc[p].cmd.token,
                                   proc[p].cmd.amount + fee, extra)
            OBVIOUS
        <2>5. PICK pc : pc = IF proc[p].cmd.token = "native" THEN "send" ELSE "approve"
            OBVIOUS
        <2>6. PICK y : y = Kept(proc[p].mem.protocol_fees, "deposit", bps)
            OBVIOUS
        <2>7. PICK mem : mem = WithFees(proc[p].mem, y)
            OBVIOUS
        <2>8. mem = WithFee(p, "deposit", bps)
            BY <2>6, <2>7 DEF WithFee, WithFees
        <2>9. /\ proc[p].pc = "NewAccount" /\ Ready(p, pc, mem, call, fee)
              /\ UNCHANGED <<file, chain, blocks, log, pending, used>>
            BY <1>1, <2>1, <2>2, <2>3, <2>4, <2>5, <2>8 DEF PrepareNewAccountCall
        <2>10. IsCallFrom(call, Account(p), fee)
            <3>1. extra.protocol_fee = fee
                BY <2>3
            <3> QED
                BY <2>4, <3>1, NewAccountCall
        <2>11. proc[p].pc \in Contract /\ pc \in Preparing
            BY <2>5, <2>9 DEF Contract, Preparing
        <2> QED
            BY <2>7, <2>9, <2>10, <2>11, ReadyStep
    <1>2. ASSUME PrepareDepositCall(p) PROVE CliInv'
        <2>1. PICK bps : bps = FeesOf(p, "deposit")
            OBVIOUS
        <2>2. PICK fee : fee = compute_protocol_fee_from_net(proc[p].cmd.amount, bps)
            OBVIOUS
        <2>3. PICK extra : extra = [merkle_path |-> GetMerklePath(chain, current_leaf_index(Account(p))),
                                    mac_salt |-> "salt", caller |-> "user", protocol_fee |-> fee,
                                    memo |-> "memo"]
            OBVIOUS
        <2>4. PICK call : call = PrepareDeposit(Account(p), proc[p].cmd.token,
                                   proc[p].cmd.amount + fee, extra)
            OBVIOUS
        <2>6. PICK y : y = Kept(proc[p].mem.protocol_fees, "deposit", bps)
            OBVIOUS
        <2>7. PICK mem : mem = WithFees(proc[p].mem, y)
            OBVIOUS
        <2>8. mem = WithFee(p, "deposit", bps)
            BY <2>6, <2>7 DEF WithFee, WithFees
        <2>9. /\ proc[p].pc = "Deposit" /\ Ready(p, "send", mem, call, fee)
              /\ UNCHANGED <<file, chain, blocks, log, pending, used>>
            BY <1>2, <2>1, <2>2, <2>3, <2>4, <2>8 DEF PrepareDepositCall
        <2>10. proc[p].pc \in Contract /\ "send" \in Preparing
            BY <2>9 DEF Contract, Preparing
        <2>11. IsCallFrom(call, Account(p), fee)
            <3>1. extra.protocol_fee = fee
                BY <2>3
            <3>2. Account(p).nonce \in Nat
                BY <2>10, AccountFacts
            <3> QED
                BY <2>4, <3>1, <3>2, DepositCall
        <2> QED
            BY <2>7, <2>9, <2>10, <2>11, ReadyStep
    <1>3. ASSUME PrepareWithdrawCall(p) PROVE CliInv'
        <2>1. PICK bps : bps = FeesOf(p, "withdraw")
            OBVIOUS
        <2>2. PICK net : net = proc[p].cmd.amount + RelayerFee
            OBVIOUS
        <2>3. PICK fee : fee = compute_protocol_fee_from_net(net, bps)
            OBVIOUS
        <2>4. PICK extra : extra = [merkle_path |-> GetMerklePath(chain, current_leaf_index(Account(p))),
                 to |-> "to", relayer_address |-> "relayer", relayer_fee |-> RelayerFee,
                 contract_version |-> contract_version, chain_id |-> chain.chain_id,
                 mac_salt |-> "salt",
                 pocket_money |-> IF proc[p].cmd.token = "native" THEN 0 ELSE 1,
                 protocol_fee |-> fee, memo |-> "memo"]
            OBVIOUS
        <2>5. PICK call : call = PrepareWithdraw(Account(p), proc[p].cmd.token, net + fee, extra)
            OBVIOUS
        <2>6. PICK y : y = Kept(proc[p].mem.protocol_fees, "withdraw", bps)
            OBVIOUS
        <2>7. PICK mem : mem = WithFees(proc[p].mem, y)
            OBVIOUS
        <2>8. mem = WithFee(p, "withdraw", bps)
            BY <2>6, <2>7 DEF WithFee, WithFees
        <2>9. /\ proc[p].pc = "Withdraw" /\ Ready(p, "relay", mem, call, fee)
              /\ UNCHANGED <<file, chain, blocks, log, pending, used>>
            BY <1>3, <2>1, <2>2, <2>3, <2>4, <2>5, <2>8 DEF PrepareWithdrawCall
        <2>10. proc[p].pc \in Contract /\ "relay" \in Preparing
            BY <2>9 DEF Contract, Preparing
        <2>11. IsCallFrom(call, Account(p), fee)
            <3>1. extra.protocol_fee = fee
                BY <2>4
            <3>2. Account(p).nonce \in Nat
                BY <2>10, AccountFacts
            <3> QED
                BY <2>5, <3>1, <3>2, WithdrawCall
        <2> QED
            BY <2>7, <2>9, <2>10, <2>11, ReadyStep
    <1> QED
        BY <1>1, <1>2, <1>3

\* A transaction is sent: its id is new.
LEMMA SendStep ==
    ASSUME CliInv, NEW p \in Processes, NEW q, NEW tx, NEW top, top = used.txs + 1,
           proc' = [proc EXCEPT ![p] = q], pending' = pending \union {tx},
           tx.id = top, IsTx(tx, log), used' = WithTxs(used, top), Steady(q, log),
           Waits(q, log, blocks, pending', top), UNCHANGED <<file, chain, blocks, log>>
    PROVE  CliInv'
    <1>0. /\ ChainOK(chain, blocks, log) /\ FilesOK(file, log) /\ IsUsed(used) /\ used.txs \in Nat
        BY DEF CliInv
    <1>1. IsUsed(used') /\ used'.txs = top /\ top \in Nat
        BY <1>0, UsedUpdates
    <1>2. PendingOK(pending', log, top)
        <2>1. ASSUME NEW x \in pending PROVE x.id \in 1..top /\ IsTx(x, log)
            BY <1>0 DEF CliInv, PendingOK
        <2>2. tx.id \in 1..top
            BY <1>0
        <2> QED
            BY <2>1, <2>2 DEF PendingOK
    <1>3. MinedIds(blocks, top)
        <2> SUFFICES ASSUME NEW b \in DOMAIN blocks, NEW i \in DOMAIN blocks[b]
                     PROVE  blocks[b][i].id \in 0..top
            BY DEF MinedIds
        <2>1. blocks[b][i].id \in 0..used.txs
            BY DEF CliInv, MinedIds
        <2> QED
            BY <1>0, <2>1
    <1>4. \A o \in Processes : proc'[o] = IF o = p THEN q ELSE proc[o]
        BY DEF CliInv
    <1>5. DOMAIN proc' = Processes
        BY DEF CliInv
    <1>6. ASSUME NEW o \in Processes PROVE Steady(proc'[o], log) /\ Waits(proc'[o], log, blocks, pending', top)
        <2>1. CASE o = p
            BY <1>4, <2>1
        <2>2. CASE o # p
            <3>1. PICK r : r = proc[o]
                OBVIOUS
            <3>2. Steady(r, log) /\ Waits(r, log, blocks, pending, used.txs) /\ proc'[o] = r
                BY <1>4, <2>2, <3>1 DEF CliInv
            <3>3. ASSUME r.pc \in Waiting
                  PROVE  /\ r.tx \in 1..top /\ Answered(r, log, blocks)
                         /\ \A x \in pending' : x.id = r.tx => IsAwaited(r, x)
                <4>1. /\ r.tx \in 1..used.txs /\ Answered(r, log, blocks)
                      /\ \A x \in pending : x.id = r.tx => IsAwaited(r, x)
                    BY <3>2, <3>3 DEF Waits
                <4>2. r.tx \in 1..top /\ r.tx # top
                    BY <1>0, <4>1
                <4> QED
                    BY <4>1, <4>2
            <3> QED
                BY <3>2, <3>3 DEF Waits
        <2> QED
            BY <2>1, <2>2
    <1>7. file' = file /\ chain' = chain /\ blocks' = blocks /\ log' = log
        OBVIOUS
    <1> QED
        BY <1>0, <1>1, <1>2, <1>3, <1>5, <1>6, <1>7 DEF CliInv

\* The token is approved.
LEMMA ApproveInv ==
    ASSUME CliInv, NEW p \in Processes, approve_erc20(p)
    PROVE  CliInv'
    <1>0. /\ IsProc(proc[p]) /\ StateOK(proc[p].mem, log) /\ Steady(proc[p], log)
        BY ProcFacts
    <1>1. PICK o, top : o = proc[p] /\ top = used.txs + 1
        OBVIOUS
    <1>2. PICK q : q = Sends(o, "approving", top)
        OBVIOUS
    <1>3. PICK tx : tx = [id |-> top, kind |-> "approve", sender |-> "user"]
        OBVIOUS
    <1>4. proc' = [proc EXCEPT ![p] = q]
        BY <1>1, <1>2 DEF approve_erc20, NextId, Sends
    <1>5. pending' = pending \union {tx}
        <2>1. PICK t0 : t0 = [id |-> 0, kind |-> "approve", sender |-> "user"]
            OBVIOUS
        <2>2. pending' = pending \union {[t0 EXCEPT !.id = top]}
            BY <1>1, <2>1 DEF approve_erc20, Send, NextId
        <2>3. [t0 EXCEPT !.id = top] = tx
            BY <1>3, <2>1
        <2> QED
            BY <2>2, <2>3
    <1>6. tx.id = top /\ IsTx(tx, log)
        BY <1>3 DEF IsTx
    <1>7. used' = WithTxs(used, top)
        BY <1>1 DEF approve_erc20, WithTxs
    <1>8. IsUpdate(q, o, "approving", o.mem, o.call, o.fee, top)
        BY <1>0, <1>1, <1>2, ProcUpdates
    <1>9. o.pc = "approve" /\ Of(q) = Of(o)
        BY <1>1, <1>8 DEF approve_erc20, IsUpdate, Of
    <1>10. Steady(q, log)
        BY <1>0, <1>1, <1>8, <1>9
           DEF Steady, IsUpdate, Contract, Settings, Preparing, Waiting, Saving
    <1>11. Waits(q, log, blocks, pending', top)
        BY <1>8 DEF Waits, IsUpdate, Waiting
    <1>12. UNCHANGED <<file, chain, blocks, log>>
        BY DEF approve_erc20
    <1> QED
        BY <1>1, <1>4, <1>5, <1>6, <1>7, <1>10, <1>11, <1>12, SendStep

\* The call is sent, by the client or by the relayer.
LEMMA SendCallInv ==
    ASSUME CliInv, NEW p \in Processes, SendCall(p)
    PROVE  CliInv'
    <1>0. /\ IsProc(proc[p]) /\ StateOK(proc[p].mem, log) /\ Steady(proc[p], log)
          /\ IsLog(log) /\ used.txs \in Nat
        BY ProcFacts
    <1>1. PICK o, top : o = proc[p] /\ top = used.txs + 1
        OBVIOUS
    <1>2. PICK sender : sender = IF o.pc = "send" THEN "user" ELSE "relayer"
        OBVIOUS
    <1>3. PICK pc : pc = IF sender = "user" THEN "watch" ELSE "receipt"
        OBVIOUS
    <1>4. PICK call : call = o.call
        OBVIOUS
    <1>5. PICK q : q = Asks(o, pc, top, Action(call))
        OBVIOUS
    <1>6. PICK tx : tx = [id |-> top, kind |-> "call", sender |-> sender, call |-> call]
        OBVIOUS
    <1>7. o.pc \in {"send", "relay"} /\ UNCHANGED <<file, chain, blocks, log>>
        BY <1>1 DEF SendCall
    <1>8. proc' = [proc EXCEPT ![p] = q]
        BY <1>1, <1>2, <1>3, <1>4, <1>5 DEF SendCall, NextId, Asks
    <1>9. pending' = pending \union {tx}
        <2>1. PICK t0 : t0 = CallTx(call, sender)
            OBVIOUS
        <2>2. t0 = [id |-> 0, kind |-> "call", sender |-> sender, call |-> call]
            BY <2>1 DEF CallTx
        <2>3. pending' = pending \union {[t0 EXCEPT !.id = top]}
            BY <1>1, <1>2, <1>4, <2>1 DEF SendCall, Send, NextId
        <2>4. [t0 EXCEPT !.id = top] = tx
            BY <1>6, <2>2
        <2> QED
            BY <2>3, <2>4
    <1>10. IsCallFrom(call, Of(o), o.fee) /\ o.cmd.token \in DOMAIN o.mem.accounts
        BY <1>0, <1>1, <1>4, <1>7 DEF Steady, Preparing
    <1>11. Local(Of(o), o.cmd.token, log)
        BY <1>0, <1>1, <1>10 DEF StateOK, Of
    <1>12. tx.id = top /\ tx.kind = "call" /\ tx.call = call
        BY <1>6
    <1>13. IsTx(tx, log)
        BY <1>0, <1>10, <1>11, <1>12, CallFromAccount DEF IsTx
    <1>14. used' = WithTxs(used, top)
        BY <1>1 DEF SendCall, WithTxs
    <1>15. IsUpdate(q, o, pc, o.mem, Action(call), o.fee, top)
        BY <1>0, <1>1, <1>5, ProcUpdates
    <1>16. Of(q) = Of(o) /\ q.fee = o.fee /\ q.call = Action(call) /\ q.tx = top /\ pc \in Waiting
        BY <1>3, <1>15 DEF IsUpdate, Of, Waiting
    <1>17. o.cmd.name # "RecoverState"
        BY <1>0, <1>1, <1>7 DEF Steady, Preparing
    <1>18. Steady(q, log)
        BY <1>0, <1>1, <1>10, <1>15, <1>16, <1>17
           DEF Steady, IsUpdate, Contract, Settings, Preparing, Waiting, Saving
    <1>19. Waits(q, log, blocks, pending', top)
        <2>1. top \in 1..top
            BY <1>0, <1>1
        <2>2. IsAwaited(q, tx)
            BY <1>10, <1>12, <1>16 DEF IsAwaited
        <2>3. ASSUME NEW x \in pending' , x.id = top PROVE IsAwaited(q, x)
            <3>1. x \in pending => x.id \in 1..used.txs
                BY DEF CliInv, PendingOK
            <3>2. x = tx
                BY <1>0, <1>1, <1>9, <2>3, <3>1
            <3> QED
                BY <2>2, <3>2
        <2>4. Answered(q, log, blocks)
            <3> SUFFICES ASSUME NEW b \in DOMAIN blocks, NEW i \in DOMAIN blocks[b],
                                blocks[b][i].id = top
                         PROVE  FALSE
                BY <1>16 DEF Answered
            <3>1. blocks[b][i].id \in 0..used.txs
                BY DEF CliInv, MinedIds
            <3> QED
                BY <1>0, <1>1, <3>1
        <2> QED
            BY <1>16, <2>1, <2>3, <2>4 DEF Waits
    <1> QED
        BY <1>1, <1>7, <1>8, <1>9, <1>12, <1>13, <1>14, <1>18, <1>19, SendStep

\* An action is registered: it is the next one of the account.
LEMMA RegisterStep ==
    ASSUME CliInv, NEW p \in Processes, NEW event, NEW pc, Register(p, event, pc),
           \/ proc[p].pc \in Waiting /\ pc = "save"
           \/ proc[p].pc = "RecoverState" /\ pc = "RecoverState",
           Account(p).nonce < Len(EventsOf(Account(p).id)),
           ShielderAction(event) = ShielderAction(EventsOf(Account(p).id)[Account(p).nonce + 1]),
           UNCHANGED <<file, chain, blocks, log, pending, used>>
    PROVE  CliInv'
    <1>0. /\ IsProc(proc[p]) /\ StateOK(proc[p].mem, log) /\ Steady(proc[p], log) /\ IsLog(log)
        BY ProcFacts
    <1>1. FilesOK(file', log) /\ IsUsed(used') /\ used'.txs = used.txs
        BY Unchanged
    <1>2. PICK o : o = proc[p]
        OBVIOUS
    <1>3. PICK mem : mem = WithAction(o.mem, o.cmd.token, event)
        OBVIOUS
    <1>4. PICK q : q = Works(o, pc, mem)
        OBVIOUS
    <1>5. proc' = [proc EXCEPT ![p] = q]
        BY <1>2, <1>3, <1>4 DEF Register, Works
    <1>6. IsUpdate(q, o, pc, mem, o.call, o.fee, o.tx)
        BY <1>0, <1>2, <1>4, ProcUpdates
    <1>7. o.cmd.token \in DOMAIN o.mem.accounts /\ Account(p) = o.mem.accounts[o.cmd.token]
        BY <1>2, AccountFacts DEF Account
    <1>8. /\ StateOK(mem, log) /\ DOMAIN mem.accounts = DOMAIN o.mem.accounts
          /\ mem.accounts[o.cmd.token].id = o.mem.accounts[o.cmd.token].id
        <2>1. PICK s, t : s = o.mem /\ t = o.cmd.token
            OBVIOUS
        <2>2. Account(p) = s.accounts[t]
            BY <1>7, <2>1
        <2>3. /\ s.accounts[t].nonce < Len(EventsIn(log, s.accounts[t].id))
              /\ ShielderAction(event) =
                   ShielderAction(EventsIn(log, s.accounts[t].id)[s.accounts[t].nonce + 1])
            BY <2>2 DEF EventsOf
        <2>4. StateOK(s, log) /\ t \in DOMAIN s.accounts /\ mem = WithAction(s, t, event)
            BY <1>0, <1>2, <1>3, <1>7, <2>1
        <2>5. /\ StateOK(mem, log) /\ DOMAIN mem.accounts = DOMAIN s.accounts
              /\ mem.accounts[t].id = s.accounts[t].id
            BY <1>0, <2>3, <2>4, ActionUpdate
        <2> QED
            BY <2>1, <2>5
    <1>9. Of(q).id = Of(o).id
        BY <1>6, <1>8 DEF IsUpdate, Of
    <1>10. Steady(q, log)
        <2>0. /\ q.pc = pc /\ q.cmd = o.cmd /\ q.mem = mem /\ q.seen = o.seen /\ IsProc(q)
            BY <1>6 DEF IsUpdate
        <2>1. CASE o.pc \in Waiting /\ pc = "save"
            <3>1. o.cmd.name # "RecoverState"
                BY <1>0, <1>2, <2>1 DEF Steady
            <3> QED
                BY <1>8, <2>0, <2>1, <3>1
                   DEF Steady, Contract, Settings, Preparing, Waiting, Saving
        <2>2. CASE o.pc = "RecoverState" /\ pc = "RecoverState"
            <3>1. o.seen <= Len(EventsIn(log, Of(o).id)) /\ o.seen \in Nat
                BY <1>0, <1>2, <2>2 DEF Steady
            <3> QED
                BY <1>7, <1>8, <1>9, <2>0, <2>2, <3>1
                   DEF Steady, Contract, Settings, Preparing, Waiting, Saving
        <2> QED
            BY <1>2, <2>1, <2>2
    <1>11. Waits(q, log, blocks, pending, used.txs)
        BY <1>6 DEF Waits, IsUpdate, Waiting
    <1> QED
        BY <1>1, <1>5, <1>10, <1>11, ProcStep

\* The receipt.
LEMMA ReceiptInv ==
    ASSUME CliInv, NEW p \in Processes, Receipt(p)
    PROVE  CliInv'
    <1>0. Waits(proc[p], log, blocks, pending, used.txs)
        BY ProcFacts
    <1>1. /\ proc[p].pc \in Waiting /\ IsMined(proc[p].tx)
          /\ UNCHANGED <<file, chain, blocks, log, pending, used>>
        BY DEF Receipt, Waiting
    <1>2. FilesOK(file', log) /\ IsUsed(used') /\ used'.txs = used.txs
        BY <1>1, Unchanged
    <1>3. PICK m : m = MinedTx(proc[p].tx)
        OBVIOUS
    <1>4. m \in Mined /\ m.id = proc[p].tx
        BY <1>1, <1>3 DEF IsMined, MinedTx
    <1>5. PICK b \in DOMAIN blocks : m \in Range(blocks[b])
        BY <1>4 DEF Mined
    <1>6. PICK i \in DOMAIN blocks[b] : m = blocks[b][i]
        BY <1>5 DEF Range
    <1>7. IsAnswer(proc[p], m, log)
        BY <1>0, <1>1, <1>4, <1>6 DEF Waits, Answered
    <1>8. PICK ev : ev = get_event(m, proc[p].call.kind)
        OBVIOUS
    <1>9. \/ /\ ev # <<>> /\ Register(p, LocalEvent(p, Head(ev)), "save")
          \/ End(p)
        BY <1>3, <1>8 DEF Receipt
    <1>10. CASE End(p)
        BY <1>1, <1>2, <1>10, EndStep
    <1>11. CASE ev # <<>> /\ Register(p, LocalEvent(p, Head(ev)), "save")
        <2>1. m.ok /\ ev = <<m.event>>
            BY <1>8, <1>11 DEF get_event
        <2>2. Head(ev) = m.event
            BY <2>1, NotEmpty
        <2>3. PICK a : a = Account(p)
            OBVIOUS
        <2>4. a = Of(proc[p])
            BY <2>3 DEF Account, Of
        <2>5. /\ a.nonce < Len(EventsIn(log, a.id)) /\ m.event = EventsIn(log, a.id)[a.nonce + 1]
              /\ m.event.kind = proc[p].call.kind /\ m.event.amount = proc[p].call.amount
              /\ m.event.token = proc[p].call.token /\ m.event.protocolFee = proc[p].fee
            BY <1>7, <2>1, <2>4 DEF IsAnswer
        <2>6. PICK le : le = LocalEvent(p, m.event)
            OBVIOUS
        <2>7. /\ le.kind = m.event.kind /\ le.amount = m.event.amount /\ le.token = m.event.token
              /\ le.newNoteIndex = m.event.newNoteIndex /\ le.protocolFee = m.event.protocolFee
            BY <2>5, <2>6 DEF LocalEvent
        <2>8. ShielderAction(le) = ShielderAction(EventsOf(a.id)[a.nonce + 1])
            BY <2>5, <2>7 DEF ShielderAction, EventsOf
        <2>9. Account(p).nonce < Len(EventsOf(Account(p).id))
            BY <2>3, <2>5 DEF EventsOf
        <2>10. Register(p, le, "save")
            BY <1>11, <2>2, <2>6
        <2>11. ShielderAction(le) = ShielderAction(EventsOf(Account(p).id)[Account(p).nonce + 1])
            BY <2>3, <2>8
        <2> QED
            BY <1>1, <2>9, <2>10, <2>11, RegisterStep
    <1> QED
        BY <1>9, <1>10, <1>11

\* recover_state: what it finds is the next action; where it finds none, it has them all.
LEMMA RecoverInv ==
    ASSUME CliInv, NEW p \in Processes, recover_state(p)
    PROVE  CliInv'
    <1>0. ChainOK(chain, blocks, log) /\ IsLog(log) /\ Steady(proc[p], log)
        BY ProcFacts
    <1>1. proc[p].pc = "RecoverState" /\ UNCHANGED <<file, chain, blocks, log, pending, used>>
        BY DEF recover_state
    <1>2. FilesOK(file', log) /\ IsUsed(used') /\ used'.txs = used.txs
        BY <1>1, Unchanged
    <1>3. PICK a : a = Account(p)
        OBVIOUS
    <1>4. a.nonce \in Nat
        BY <1>1, <1>3, AccountFacts
    <1>5. Hashed(previous_nullifier(Account(p))) = NullifierAt(a.id, a.nonce)
        BY <1>3, <1>4, Nullifiers
    <1>6. PICK found : found = get_shielder_action(NullifierAt(a.id, a.nonce))
        OBVIOUS
    <1>7. /\ found.result = "Some" =>
               a.nonce < Len(EventsOf(a.id)) /\ found.event = EventsOf(a.id)[a.nonce + 1]
          /\ found.result = "None" => a.nonce >= Len(EventsOf(a.id))
        BY <1>0, <1>4, <1>6, SearchForNext
    <1>8. \/ found.result = "Some" /\ Register(p, found.event, "RecoverState")
          \/ found.result = "None" /\ Goto(p, "save")
          \/ End(p)
        BY <1>5, <1>6 DEF recover_state
    <1>9. CASE End(p)
        BY <1>1, <1>2, <1>9, EndStep
    <1>10. CASE found.result = "Some" /\ Register(p, found.event, "RecoverState")
        <2>1. /\ Account(p).nonce < Len(EventsOf(Account(p).id))
              /\ found.event = EventsOf(Account(p).id)[Account(p).nonce + 1]
            BY <1>3, <1>7, <1>10
        <2>2. PICK ev : ev = found.event
            OBVIOUS
        <2>3. ShielderAction(ev) = ShielderAction(EventsOf(Account(p).id)[Account(p).nonce + 1])
            BY <2>1, <2>2
        <2> QED
            BY <1>1, <1>10, <2>1, <2>2, <2>3, RegisterStep
    <1>11. CASE found.result = "None" /\ Goto(p, "save")
        <2>1. proc[p].seen <= Len(EventsIn(log, Of(proc[p]).id)) /\ proc[p].seen \in Nat
            BY <1>0, <1>1 DEF Steady
        <2>2. Of(proc[p]) = a
            BY <1>3 DEF Of, Account
        <2>3. Len(EventsIn(log, a.id)) \in Nat
            BY <1>0, SeqFacts DEF IsLog
        <2>4. Account(p).nonce >= proc[p].seen
            BY <1>3, <1>4, <1>7, <1>11, <2>1, <2>2, <2>3 DEF EventsOf
        <2> QED
            BY <1>1, <1>2, <1>11, <2>4, MoveStep
    <1> QED
        BY <1>8, <1>9, <1>10, <1>11

\* The steps after which an invocation is over, and the others that keep what it has.
LEMMA OtherStepsInv ==
    ASSUME CliInv, NEW p \in Processes,
           \/ perform_state_read_action(p) \/ Approved(p) \/ NoReceipt(p) \/ Refused(p)
           \/ EndSave(p) \/ Stop(p)
    PROVE  CliInv'
    <1>1. CASE perform_state_read_action(p) \/ NoReceipt(p) \/ Refused(p)
        <2>1. End(p) /\ UNCHANGED <<file, chain, blocks, log, pending, used>>
            BY <1>1 DEF perform_state_read_action, NoReceipt, Refused
        <2>2. FilesOK(file', log) /\ IsUsed(used') /\ used'.txs = used.txs
            BY <2>1, Unchanged
        <2> QED
            BY <2>1, <2>2, EndStep
    <1>2. CASE Approved(p)
        <2>1. /\ proc[p].pc = "approving" /\ Goto(p, "send")
              /\ UNCHANGED <<file, chain, blocks, log, pending, used>>
            BY <1>2 DEF Approved
        <2>2. FilesOK(file', log) /\ IsUsed(used') /\ used'.txs = used.txs
            BY <2>1, Unchanged
        <2> QED
            BY <2>1, <2>2, MoveStep
    <1>3. CASE EndSave(p)
        <2>1. /\ End(p) /\ file' = [file EXCEPT ![proc[p].file] = Saved(proc[p].mem)]
              /\ UNCHANGED <<chain, blocks, log, pending, used>>
            BY <1>3 DEF EndSave
        <2>2. PICK f, y : f = proc[p].file /\ y = Saved(proc[p].mem)
            OBVIOUS
        <2>3. StateOK(y.state, log)
            BY <2>2, ProcFacts DEF Saved
        <2>4. FilesOK(file', log)
            BY <2>1, <2>2, <2>3, ProcFacts, FileStep
        <2>5. IsUsed(used') /\ used'.txs = used.txs
            BY <2>1, ProcFacts
        <2> QED
            BY <2>1, <2>4, <2>5, EndStep
    <1>4. CASE Stop(p)
        <2>1. End(p) /\ UNCHANGED <<file, chain, blocks, log, pending>>
            BY <1>4 DEF Stop
        <2>2. PICK y : y = used.stops + 1
            OBVIOUS
        <2>3. used' = WithStops(used, y)
            BY <1>4, <2>2 DEF Stop, WithStops
        <2>4. IsUsed(used') /\ used'.txs = used.txs
            BY <2>3, ProcFacts, UsedUpdates
        <2>5. FilesOK(file', log)
            BY <2>1, ProcFacts
        <2> QED
            BY <2>1, <2>4, <2>5, EndStep
    <1> QED
        BY <1>1, <1>2, <1>3, <1>4

-----------------------------------------------------------------------------
(* A block is mined. *)

\* The log is added to in steps.
LEMMA GrowsOn ==
    ASSUME NEW l, NEW k, NEW j, IsLog(l), IsLog(k), IsLog(j), Grows(l, k), Grows(k, j)
    PROVE  Grows(l, j)
    <1> SUFFICES ASSUME NEW id
                 PROVE  /\ Len(EventsIn(l, id)) <= Len(EventsIn(j, id))
                        /\ \A n \in 1..Len(EventsIn(l, id)) : EventsIn(j, id)[n] = EventsIn(l, id)[n]
        BY DEF Grows
    <1>1. Len(EventsIn(l, id)) \in Nat /\ Len(EventsIn(k, id)) \in Nat /\ Len(EventsIn(j, id)) \in Nat
        BY SeqFacts DEF IsLog
    <1>2. /\ Len(EventsIn(l, id)) <= Len(EventsIn(k, id))
          /\ \A n \in 1..Len(EventsIn(l, id)) : EventsIn(k, id)[n] = EventsIn(l, id)[n]
          /\ Len(EventsIn(k, id)) <= Len(EventsIn(j, id))
          /\ \A n \in 1..Len(EventsIn(k, id)) : EventsIn(j, id)[n] = EventsIn(k, id)[n]
        BY DEF Grows
    <1>3. \A n \in 1..Len(EventsIn(l, id)) : n \in 1..Len(EventsIn(k, id))
        BY <1>1, <1>2
    <1> QED
        BY <1>1, <1>2, <1>3

\* An invocation that waits while the block is mined.
IsWaiting(q) ==
    /\ Local(Of(q), q.cmd.token, log) /\ q.tx \in 1..used.txs
    /\ \A tx \in pending : tx.id = q.tx => IsAwaited(q, tx)

\* A block as far as it is executed: what it holds answers those who wait.
Partial(d) ==
    /\ d.chain.block = chain.block + 1
    /\ ChainOK(d.chain, Extended(blocks, chain.block + 1, d.txs), d.log)
    /\ Grows(log, d.log) /\ IsSeq(d.txs)
    /\ \A i \in DOMAIN d.txs :
         /\ d.txs[i].id \in 0..used.txs
         /\ \A q : IsWaiting(q) /\ q.tx = d.txs[i].id => IsAnswer(q, d.txs[i], d.log)

\* What may be in a block: a transaction of the mempool, or one of the others.
LEMMA BatchTx ==
    ASSUME CliInv, NEW tx \in pending \union Others
    PROVE  IsTx(tx, log) /\ tx.id \in 0..used.txs /\ (tx \in pending \/ tx.id = 0)
    <1>0. used.txs \in Nat /\ IsLog(log)
        BY DEF CliInv, ChainOK
    <1>1. CASE tx \in pending
        <2>1. tx.id \in 1..used.txs /\ IsTx(tx, log)
            BY <1>1 DEF CliInv, PendingOK
        <2> QED
            BY <1>0, <1>1, <2>1
    <1>2. CASE tx = FeesTx
        BY <1>0, <1>2 DEF FeesTx, IsTx
    <1>3. CASE tx = ForeignTx
        <2>1. PICK fee : fee = compute_protocol_fee_from_net(1, chain.bps.deposit)
            OBVIOUS
        <2>2. PICK a : a = NewShielderAccount(<<"foreign", "native">>, "native")
            OBVIOUS
        <2>3. PICK extra : extra = [ar_key |-> chain.ar_key, mac_salt |-> "salt", caller |-> "foreign",
                                    protocol_fee |-> fee, memo |-> "memo"]
            OBVIOUS
        <2>4. PICK call : call = PrepareNewAccount(a, "native", 1 + fee, extra)
            OBVIOUS
        <2>5. tx = CallTx(call, "foreign")
            BY <1>3, <2>1, <2>2, <2>3, <2>4 DEF ForeignTx
        <2>6. tx.id = 0 /\ tx.kind = "call" /\ tx.call = call
            BY <2>5 DEF CallTx
        <2>7. IsCallFrom(call, a, extra.protocol_fee)
            BY <2>4, NewAccountCall
        <2>8. Local(a, "native", log)
            BY <1>0, <2>2, LocalNew
        <2>9. IsAccountCall(call, log)
            BY <1>0, <2>7, <2>8, CallFromAccount
        <2> QED
            BY <1>0, <2>6, <2>9 DEF IsTx
    <1> QED
        BY <1>1, <1>2, <1>3 DEF Others

\* Executing the next transaction of the block.
LEMMA PartialStep ==
    ASSUME CliInv, NEW d, NEW tx \in pending \union Others, Partial(d)
    PROVE  Partial(Executed(d, tx))
    <1>0. /\ IsLog(log) /\ used.txs \in Nat /\ IsLog(d.log) /\ Grows(log, d.log) /\ IsSeq(d.txs)
          /\ chain.block \in Nat /\ DOMAIN blocks = 1..chain.block
        BY DEF CliInv, ChainOK, Partial, IsBlocks
    <1>1. IsTx(tx, log) /\ tx.id \in 0..used.txs /\ (tx \in pending \/ tx.id = 0)
        BY BatchTx
    <1>2. IsTx(tx, d.log)
        BY <1>0, <1>1, TxGrows
    <1>3. PICK b : b = chain.block + 1
        OBVIOUS
    <1>4. b = d.chain.block /\ b \notin DOMAIN blocks /\ ChainOK(d.chain, Extended(blocks, b, d.txs), d.log)
        BY <1>0, <1>3 DEF Partial
    <1>5. PICK B : B = blocks
        OBVIOUS
    <1>6. PICK r : r = Executed(d, tx)
        OBVIOUS
    <1>7. /\ ChainOK(r.chain, Extended(B, b, r.txs), r.log) /\ r.chain.block = b
          /\ IsLog(r.log) /\ Grows(d.log, r.log)
          /\ \E m : r.txs = Append(d.txs, m) /\ IsOutcome(m, tx, d.log, r.log)
        BY <1>2, <1>4, <1>5, <1>6, ExecutedStep
    <1>8. PICK m : r.txs = Append(d.txs, m) /\ IsOutcome(m, tx, d.log, r.log)
        BY <1>7
    <1>9. Grows(log, r.log)
        BY <1>0, <1>7, GrowsOn
    <1>10. /\ IsSeq(r.txs) /\ Len(r.txs) = Len(d.txs) + 1 /\ r.txs[Len(d.txs) + 1] = m
           /\ \A i \in 1..Len(d.txs) : r.txs[i] = d.txs[i]
        BY <1>0, <1>8, Appended
    <1>11. Len(d.txs) \in Nat /\ DOMAIN d.txs = 1..Len(d.txs) /\ DOMAIN r.txs = 1..(Len(d.txs) + 1)
        BY <1>0, <1>10, SeqFacts
    <1>12. ASSUME NEW i \in DOMAIN r.txs
           PROVE  /\ r.txs[i].id \in 0..used.txs
                  /\ \A q : IsWaiting(q) /\ q.tx = r.txs[i].id => IsAnswer(q, r.txs[i], r.log)
        <2>1. CASE i = Len(d.txs) + 1
            <3>1. r.txs[i] = m /\ m.id = tx.id
                BY <1>8, <1>10, <2>1 DEF IsOutcome
            <3>2. ASSUME NEW q, IsWaiting(q), q.tx = m.id PROVE IsAnswer(q, m, r.log)
                <4>1. tx \in pending
                    BY <1>0, <1>1, <3>1, <3>2 DEF IsWaiting
                <4>2. IsAwaited(q, tx)
                    BY <3>1, <3>2, <4>1 DEF IsWaiting
                <4>3. Local(Of(q), q.cmd.token, d.log)
                    BY <1>0, <3>2, LocalGrows DEF IsWaiting
                <4> QED
                    BY <1>0, <1>8, <4>2, <4>3, AcceptedFromAccount
            <3> QED
                BY <1>1, <3>1, <3>2
        <2>2. CASE i # Len(d.txs) + 1
            <3>1. i \in DOMAIN d.txs /\ r.txs[i] = d.txs[i]
                BY <1>10, <1>11, <2>2
            <3>2. /\ d.txs[i].id \in 0..used.txs
                  /\ \A q : IsWaiting(q) /\ q.tx = d.txs[i].id => IsAnswer(q, d.txs[i], d.log)
                BY <3>1 DEF Partial
            <3>3. ASSUME NEW q, IsWaiting(q), q.tx = d.txs[i].id PROVE IsAnswer(q, d.txs[i], r.log)
                <4>1. IsAnswer(q, d.txs[i], d.log)
                    BY <3>2, <3>3
                <4>2. Of(q).nonce \in Nat
                    <5>1. Len(EventsIn(log, Of(q).id)) \in Nat
                        BY <1>0, SeqFacts DEF IsLog
                    <5> QED
                        BY <3>3, <5>1 DEF IsWaiting, Local
                <4> QED
                    BY <1>0, <1>7, <4>1, <4>2, AnswerGrows
            <3> QED
                BY <3>1, <3>2, <3>3
        <2> QED
            BY <2>1, <2>2
    <1>13. Partial(r)
        BY <1>3, <1>5, <1>7, <1>9, <1>10, <1>12 DEF Partial
    <1> QED
        BY <1>6, <1>13

\* The block with nothing in it yet.
LEMMA PartialStart ==
    ASSUME CliInv
    PROVE  Partial([chain |-> [chain EXCEPT !.block = @ + 1], txs |-> <<>>, log |-> log])
    <1>1. PICK c, y : c = WithBlock(chain, y) /\ y = chain.block + 1
        OBVIOUS
    <1>2. PICK d : d = [chain |-> c, txs |-> <<>>, log |-> log]
        OBVIOUS
    <1>3. [chain EXCEPT !.block = @ + 1] = c
        BY <1>1 DEF WithBlock
    <1>4. ChainOK(chain, blocks, log) /\ IsChain(chain) /\ IsLog(log)
        BY DEF CliInv, ChainOK
    <1>5. IsChain(c) /\ c.nullifiers = chain.nullifiers /\ c.block = chain.block + 1
        BY <1>1, <1>4, ChainUpdates
    <1>6. PICK c0, B0, l0 : c0 = chain /\ B0 = blocks /\ l0 = log
        OBVIOUS
    <1>7. ChainOK(c, Extended(B0, c0.block + 1, <<>>), l0)
        BY <1>4, <1>5, <1>6, OpenStep
    <1>8. d.chain = c /\ d.txs = <<>> /\ d.log = log
        BY <1>2
    <1>9. IsSeq(<<>>) /\ DOMAIN <<>> = {}
        <2>1. <<>> \in Seq({}) /\ DOMAIN <<>> = 1..0 /\ 1..0 = {}
            OBVIOUS
        <2> QED
            BY <2>1 DEF IsSeq
    <1>10. Grows(log, log)
        <2>1. \A id : Len(EventsIn(log, id)) \in Nat
            BY <1>4, SeqFacts DEF IsLog
        <2> QED
            BY <2>1 DEF Grows
    <1>11. Partial(d)
        BY <1>5, <1>6, <1>7, <1>8, <1>9, <1>10 DEF Partial
    <1> QED
        BY <1>2, <1>3, <1>11

\* What a mined block does.
LEMMA BlockStep ==
    ASSUME CliInv, NEW d, Partial(d), chain' = d.chain, blocks' = Extended(blocks, chain.block + 1, d.txs),
           log' = d.log, pending' \subseteq pending, IsUsed(used'), used'.txs = used.txs,
           UNCHANGED <<file, proc>>
    PROVE  CliInv'
    <1>0. /\ IsLog(log) /\ used.txs \in Nat /\ IsLog(d.log) /\ Grows(log, d.log) /\ IsSeq(d.txs)
          /\ chain.block \in Nat /\ DOMAIN blocks = 1..chain.block
        BY DEF CliInv, ChainOK, Partial, IsBlocks
    <1>1. ChainOK(chain', blocks', log')
        BY DEF Partial
    <1>2. PendingOK(pending', log', used'.txs)
        <2> SUFFICES ASSUME NEW tx \in pending' PROVE tx.id \in 1..used.txs /\ IsTx(tx, d.log)
            BY DEF PendingOK
        <2>1. tx.id \in 1..used.txs /\ IsTx(tx, log)
            BY DEF CliInv, PendingOK
        <2> QED
            BY <1>0, <2>1, TxGrows
    <1>3. /\ DOMAIN blocks' = DOMAIN blocks \union {chain.block + 1}
          /\ \A b \in DOMAIN blocks : blocks'[b] = blocks[b]
          /\ blocks'[chain.block + 1] = d.txs
        BY <1>0 DEF Extended
    <1>4. MinedIds(blocks', used'.txs)
        <2> SUFFICES ASSUME NEW b \in DOMAIN blocks', NEW i \in DOMAIN blocks'[b]
                     PROVE  blocks'[b][i].id \in 0..used.txs
            BY DEF MinedIds
        <2>1. CASE b \in DOMAIN blocks
            BY <1>3, <2>1 DEF CliInv, MinedIds
        <2>2. CASE b = chain.block + 1
            BY <1>3, <2>2 DEF Partial
        <2> QED
            BY <1>3, <2>1, <2>2
    <1>5. FilesOK(file', log')
        <2>1. FilesOK(file, log) /\ file' = file
            BY DEF CliInv
        <2> QED
            BY <1>0, <2>1, StateGrows DEF FilesOK
    <1>6. ASSUME NEW p \in Processes
          PROVE  Steady(proc'[p], log') /\ Waits(proc'[p], log', blocks', pending', used'.txs)
        <2>1. PICK q : q = proc[p]
            OBVIOUS
        <2>2. proc'[p] = q /\ Steady(q, log) /\ Waits(q, log, blocks, pending, used.txs)
            BY <2>1 DEF CliInv
        <2>3. Steady(q, d.log)
            BY <1>0, <2>2, SteadyGrows
        <2>4. ASSUME q.pc \in Waiting
              PROVE  /\ q.tx \in 1..used.txs /\ \A tx \in pending' : tx.id = q.tx => IsAwaited(q, tx)
                     /\ \A b \in DOMAIN blocks' : \A i \in DOMAIN blocks'[b] :
                          blocks'[b][i].id = q.tx => IsAnswer(q, blocks'[b][i], d.log)
            <3>1. /\ q.tx \in 1..used.txs /\ \A tx \in pending : tx.id = q.tx => IsAwaited(q, tx)
                  /\ Answered(q, log, blocks)
                BY <2>2, <2>4 DEF Waits
            <3>2. q.cmd.token \in DOMAIN q.mem.accounts /\ StateOK(q.mem, log)
                BY <2>2, <2>4 DEF Steady
            <3>3. Local(Of(q), q.cmd.token, log)
                BY <3>2 DEF StateOK, Of
            <3>4. IsWaiting(q)
                BY <3>1, <3>3 DEF IsWaiting
            <3>5. Of(q).nonce \in Nat
                <4>1. Len(EventsIn(log, Of(q).id)) \in Nat
                    BY <1>0, SeqFacts DEF IsLog
                <4> QED
                    BY <3>3, <4>1 DEF Local
            <3>6. ASSUME NEW b \in DOMAIN blocks', NEW i \in DOMAIN blocks'[b], blocks'[b][i].id = q.tx
                  PROVE  IsAnswer(q, blocks'[b][i], d.log)
                <4>1. CASE b \in DOMAIN blocks
                    <5>1. PICK m : m = blocks[b][i]
                        OBVIOUS
                    <5>2. blocks'[b][i] = m /\ IsAnswer(q, m, log)
                        BY <1>3, <3>1, <3>6, <4>1, <5>1 DEF Answered
                    <5>3. IsAnswer(q, m, d.log)
                        BY <1>0, <3>5, <5>2, AnswerGrows
                    <5> QED
                        BY <5>2, <5>3
                <4>2. CASE b = chain.block + 1
                    <5>1. blocks'[b] = d.txs
                        BY <1>3, <4>2
                    <5>2. i \in DOMAIN d.txs /\ d.txs[i].id = q.tx
                        BY <3>6, <5>1
                    <5>3. IsAnswer(q, d.txs[i], d.log)
                        BY <3>4, <5>2 DEF Partial
                    <5> QED
                        BY <5>1, <5>3
                <4> QED
                    BY <1>3, <4>1, <4>2
            <3> QED
                BY <3>1, <3>6
        <2>5. Waits(q, d.log, blocks', pending', used.txs)
            BY <2>4 DEF Waits, Answered
        <2> QED
            BY <2>2, <2>3, <2>5
    <1>7. DOMAIN proc' = Processes
        BY DEF CliInv
    <1> QED
        BY <1>0, <1>1, <1>2, <1>4, <1>5, <1>6, <1>7 DEF CliInv

\* A block of one or two transactions.
LEMMA MineInv ==
    ASSUME CliInv, Mine
    PROVE  CliInv'
    <1>1. PICK d0 : d0 = [chain |-> [chain EXCEPT !.block = @ + 1], txs |-> <<>>, log |-> log]
        OBVIOUS
    <1>2. Partial(d0)
        BY <1>1, PartialStart
    <1>3. PICK batch \in Batches :
            /\ chain' = ExecutedBlock(batch).chain
            /\ blocks' = Extended(blocks, chain.block + 1, ExecutedBlock(batch).txs)
            /\ log' = ExecutedBlock(batch).log
            /\ pending' = pending \ Range(batch)
            /\ used' = [used EXCEPT !.foreign = @ + Sent(batch, "foreign"),
                                    !.fees = @ + Sent(batch, "owner")]
        BY DEF Mine
    <1>4. UNCHANGED <<file, proc>>
        BY DEF Mine
    <1>5. PICK first : first = Executed(d0, batch[1])
        OBVIOUS
    <1>6. PICK done : done = IF Len(batch) = 1 THEN first ELSE Executed(first, batch[2])
        OBVIOUS
    <1>7. /\ chain' = done.chain /\ blocks' = Extended(blocks, chain.block + 1, done.txs)
          /\ log' = done.log /\ pending' \subseteq pending
        <2>1. done = ExecutedBlock(batch)
            BY <1>1, <1>5, <1>6 DEF ExecutedBlock
        <2> QED
            BY <1>3, <2>1
    <1>8. IsUsed(used') /\ used'.txs = used.txs
        <2>1. PICK y, z :
                /\ y = used.foreign + Sent(batch, "foreign")
                /\ z = used.fees + Sent(batch, "owner")
            OBVIOUS
        <2>2. used' = WithOthers(used, y, z)
            BY <1>3, <2>1 DEF WithOthers
        <2>3. IsUsed(used)
            BY DEF CliInv
        <2> QED
            BY <2>2, <2>3, UsedUpdates
    <1>9. Partial(done)
        <2>1. CASE \E tx \in pending : batch = <<tx>>
            <3>1. PICK tx \in pending : batch = <<tx>>
                BY <2>1
            <3>2. Len(batch) = 1 /\ batch[1] = tx
                BY <3>1
            <3>3. Partial(Executed(d0, tx))
                BY <1>2, PartialStep
            <3> QED
                BY <1>5, <1>6, <3>2, <3>3
        <2>2. CASE \E tx1, tx2 \in pending \union Others : batch = <<tx1, tx2>>
            <3>1. PICK tx1 \in pending \union Others, tx2 \in pending \union Others : batch = <<tx1, tx2>>
                BY <2>2
            <3>2. Len(batch) = 2 /\ batch[1] = tx1 /\ batch[2] = tx2
                BY <3>1
            <3>3. Partial(first)
                BY <1>2, <1>5, <3>2, PartialStep
            <3>4. Partial(Executed(first, tx2))
                BY <3>3, PartialStep
            <3>5. done = Executed(first, tx2)
                BY <1>6, <3>2
            <3> QED
                BY <3>4, <3>5
        <2> QED
            BY <2>1, <2>2 DEF Batches
    <1> QED
        BY <1>4, <1>7, <1>8, <1>9, BlockStep

\* Every step keeps the invariant.
LEMMA NextInv ==
    ASSUME CliInv, [Next]_vars
    PROVE  CliInv'
    <1>1. CASE UNCHANGED vars
        <2>1. /\ file' = file /\ proc' = proc /\ chain' = chain /\ blocks' = blocks /\ log' = log
              /\ pending' = pending /\ used' = used
            BY <1>1 DEF vars
        <2> QED
            BY <2>1 DEF CliInv
    <1>2. CASE Mine
        BY <1>2, MineInv
    <1>3. ASSUME NEW p \in Processes, Start(p) \/ Step(p) \/ Stop(p) PROVE CliInv'
        <2>1. CASE Start(p)
            BY <2>1, StartInv
        <2>2. CASE Step(p)
            BY <2>2, CreateInv, WriteActionInv, PrepareInv, ApproveInv, SendCallInv, ReceiptInv,
               RecoverInv, OtherStepsInv DEF Step
        <2>3. CASE Stop(p)
            BY <2>3, OtherStepsInv
        <2> QED
            BY <1>3, <2>1, <2>2, <2>3
    <1>4. CASE Rest
        BY <1>1, <1>4 DEF Rest
    <1> QED
        BY <1>1, <1>2, <1>3, <1>4 DEF Next

-----------------------------------------------------------------------------
(* The states a behaviour starts in. *)

\* A quotient that is less than one.
LEMMA NoFeeTaken ==
    ASSUME NEW b \in Nat \ {0}
    PROVE  (3 * 0 + b - 1) \div b = 0
    <1>1. PICK a \in Nat : a = 3 * 0 + b - 1
        OBVIOUS
    <1>2. PICK q \in Nat, r \in 0..(b - 1) : q = a \div b /\ a = q * b + r
        OBVIOUS
    <1>3. ASSUME q # 0 PROVE FALSE
        <2>1. PICK d \in Nat : q = d + 1
            BY <1>3
        <2>2. q * b = d * b + b /\ d * b \in Nat
            BY <2>1
        <2> QED
            BY <1>1, <1>2, <2>2
    <1> QED
        BY <1>1, <1>2, <1>3

\* The chain on which the account was created.
IsFresh(c) ==
    /\ c.paused = FALSE /\ c.version = contract_version /\ c.ar_key = "key"
    /\ c.bps.deposit = 0 /\ c.nullifiers = [h \in {} |-> 0]
    /\ \A t \in Tokens : c.balance[t]["shielder"] = 0
    /\ c.allowance["user"] = 10 * MaxAmount

\* The contract accepts the call that creates it.
LEMMA FirstCallAccepted ==
    ASSUME NEW c, NEW id, NEW token \in Tokens, NEW call, IsFresh(c),
           call = PrepareNewAccount(NewShielderAccount(id, token), token, InitialAmount,
                    [ar_key |-> "key", mac_salt |-> "salt", caller |-> "user",
                     protocol_fee |-> 0, memo |-> "memo"])
    PROVE  CallError(c, call, "user") = "Ok"
    <1>1. PICK a : a = NewShielderAccount(id, token)
        OBVIOUS
    <1>2. PICK extra : extra = [ar_key |-> "key", mac_salt |-> "salt", caller |-> "user",
                                protocol_fee |-> 0, memo |-> "memo"]
        OBVIOUS
    <1>3. PICK n, h, s, w, v : /\ n = NoteHash(a.id, next_nullifier(a), 3, token)
                               /\ h = Hashed(prenullifier(a.id))
                               /\ s = [ar_key |-> "key", key |-> a.id]
                               /\ w = Mac("salt", a.id) /\ v = contract_version
        OBVIOUS
    <1>4. PICK d : d = [kind |-> "NewAccount", token |-> token, amount |-> 3, version |-> v,
                        new_note |-> n, prenullifier |-> h, sym_key_encryption |-> s, mac |-> w,
                        memo |-> "memo", proof |-> NoProof]
        OBVIOUS
    <1>5. PICK g : g = generate_proof(TRUE, NewAccountInput(d, "key", 3, DepositCommitment("user", 0)))
        OBVIOUS
    <1>6. call = WithProof(d, g)
        <2>1. /\ extra.protocol_fee = 0 /\ extra.ar_key = "key" /\ extra.caller = "user"
              /\ extra.mac_salt = "salt" /\ extra.memo = "memo"
            BY <1>2
        <2>2. call = PrepareNewAccount(a, token, 3, extra)
            BY <1>1, <1>2 DEF InitialAmount
        <2>3. PICK e, y : e = 3 - extra.protocol_fee /\ y = e + extra.protocol_fee
            OBVIOUS
        <2>4. e = 3 /\ y = 3
            BY <2>1, <2>3
        <2>5. /\ n = NoteHash(a.id, next_nullifier(a), e, token)
              /\ s = [ar_key |-> extra.ar_key, key |-> a.id] /\ w = Mac(extra.mac_salt, a.id)
              /\ d = [kind |-> "NewAccount", token |-> token, amount |-> y, version |-> v,
                      new_note |-> n, prenullifier |-> h, sym_key_encryption |-> s, mac |-> w,
                      memo |-> extra.memo, proof |-> NoProof]
              /\ g = generate_proof(TRUE, NewAccountInput(d, extra.ar_key, e,
                       DepositCommitment(extra.caller, extra.protocol_fee)))
            BY <1>3, <1>4, <1>5, <2>1, <2>4
        <2> QED
            BY <1>3, <2>2, <2>3, <2>5 DEF PrepareNewAccount, WithProof
    <1>7. call = [kind |-> "NewAccount", token |-> token, amount |-> 3, version |-> v,
                  new_note |-> n, prenullifier |-> h, sym_key_encryption |-> s, mac |-> w,
                  memo |-> "memo", proof |-> g]
        BY <1>4, <1>6 DEF WithProof
    <1>8. /\ call.kind = "NewAccount" /\ call.token = token /\ call.amount = 3 /\ call.version = v
          /\ call.new_note = n /\ call.prenullifier = h /\ call.sym_key_encryption = s
          /\ call.mac = w /\ call.proof = g
        BY <1>7
    <1>9. ProtocolFee(c, call) = 0
        <2>1. compute_protocol_fee_from_gross(3, 0) = 0
            BY NoFeeTaken, AmountsAssumption DEF compute_protocol_fee_from_gross
        <2> QED
            BY <1>8, <2>1 DEF ProtocolFee, IsFresh
    <1>10. /\ ~LimitReached(c, call) /\ call.version = c.version
           /\ FieldElement(call.new_note) /\ FieldElement(call.prenullifier)
           /\ ~Spent(c, call.prenullifier)
        <2>1. c.balance[token]["shielder"] = 0
            BY DEF IsFresh
        <2>2. ~LimitReached(c, call)
            BY <1>8, <2>1, CliAssumption, AmountsAssumption DEF LimitReached, InitialAmount
        <2>3. n.mark = "hash" /\ h.mark = "hash"
            BY <1>3 DEF NoteHash, Hashed
        <2> QED
            BY <1>3, <1>8, <2>2, <2>3 DEF IsFresh, FieldElement, Spent
    <1>11. verifyProof(call.proof, NewAccountInput(call, c.ar_key, call.amount - 0,
                                     DepositCommitment("user", 0)))
        <2>1. /\ d.new_note = n /\ d.prenullifier = h /\ d.token = token
              /\ d.sym_key_encryption = s /\ d.mac = w
            BY <1>4
        <2>2. c.ar_key = "key" /\ call.amount - 0 = 3
            BY <1>8 DEF IsFresh
        <2>3. NewAccountInput(call, "key", 3, DepositCommitment("user", 0)) =
                NewAccountInput(d, "key", 3, DepositCommitment("user", 0))
            BY <1>8, <2>1 DEF NewAccountInput
        <2>4. g.sound /\ g.input = NewAccountInput(d, "key", 3, DepositCommitment("user", 0))
            BY <1>5 DEF generate_proof
        <2> QED
            BY <1>8, <2>2, <2>3, <2>4 DEF verifyProof
    <1>12. \A i \in DOMAIN Checks(c, call, "user") : ~Checks(c, call, "user")[i].fails
        <2>1. Checks(c, call, "user") = NewAccountChecks(c, call, "user")
            BY <1>8 DEF Checks
        <2>2. DOMAIN NewAccountChecks(c, call, "user") = 1..5
            BY DEF NewAccountChecks
        <2>3. /\ ~NewAccountChecks(c, call, "user")[1].fails
              /\ ~NewAccountChecks(c, call, "user")[2].fails
              /\ ~NewAccountChecks(c, call, "user")[3].fails
              /\ ~NewAccountChecks(c, call, "user")[4].fails
              /\ ~NewAccountChecks(c, call, "user")[5].fails
            BY <1>9, <1>10, <1>11 DEF NewAccountChecks
        <2> QED
            BY <2>1, <2>2, <2>3
    <1>13. Refusals(Transfers(c, call, "user")) = {}
        <2>1. PICK f1, f2, f3 : /\ f1 = MsgValue(call) /\ f3 = ProtocolFee(c, call)
                                /\ f2 = IF token = "native" THEN 0 ELSE 3
            OBVIOUS
        <2>2. Transfers(c, call, "user") =
                <<Transfer("native", "user", "shielder", f1), Transfer(token, "user", "shielder", f2),
                  Transfer(token, "shielder", "fee_receiver", f3)>>
            BY <1>8, <2>1 DEF Transfers
        <2>3. PICK ts : ts = Transfers(c, call, "user")
            OBVIOUS
        <2>4. /\ DOMAIN ts = 1..3 /\ ts[1] = Transfer("native", "user", "shielder", f1)
              /\ ts[2] = Transfer(token, "user", "shielder", f2)
              /\ ts[3] = Transfer(token, "shielder", "fee_receiver", f3)
            BY <2>2, <2>3
        <2>5. ts[1].to = "shielder" /\ ts[2].to = "shielder" /\ ts[3].to = "fee_receiver"
            BY <2>4 DEF Transfer
        <2>6. \A i \in DOMAIN ts : ts[i].to # "reverting"
            BY <2>4, <2>5
        <2> QED
            BY <2>3, <2>6 DEF Refusals
    <1>14. ~(c.allowance["user"] < call.amount)
        BY <1>8, CliAssumption, AmountsAssumption DEF IsFresh, InitialAmount
    <1>15. c.paused = FALSE
        BY DEF IsFresh
    <1>16. {i \in DOMAIN Checks(c, call, "user") : Checks(c, call, "user")[i].fails} = {}
        BY <1>12
    <1> QED
        BY <1>13, <1>14, <1>15, <1>16 DEF CallError, Checks

\* The chain before anything was mined.
LEMMA EmptyOK ==
    ChainOK(EmptyChain, [b \in {} |-> <<>>], [id \in {} |-> <<>>])
    <1>1. PICK c : c = EmptyChain
        OBVIOUS
    <1>2. IsChain(c) /\ c.nullifiers = [h \in {} |-> 0] /\ c.block = 0
        <2>1. PICK v, f, u, x, w : /\ v = contract_version /\ f = [deposit |-> 0, withdraw |-> 0]
                                   /\ u = [h \in {} |-> 0]
                                   /\ x = [t \in Tokens |-> [a \in Addresses |-> 0]]
                                   /\ w = [a \in Addresses |-> 0]
            OBVIOUS
        <2>2. c = [version |-> v, chain_id |-> 1, paused |-> FALSE, ar_key |-> "key", bps |-> f,
                   notes |-> <<>>, nullifiers |-> u, balance |-> x, allowance |-> w, block |-> 0]
            BY <1>1, <2>1 DEF EmptyChain
        <2>3. IsChain(c) /\ c.nullifiers = u /\ c.block = 0
            BY <2>2, ChainRecord
        <2> QED
            BY <2>1, <2>3
    <1>3. PICK B, l : B = [b \in {} |-> <<>>] /\ l = [id \in {} |-> <<>>]
        OBVIOUS
    <1>4. \A id : EventsIn(l, id) = <<>>
        BY <1>3 DEF EventsIn
    <1>5. IsSeq(<<>>) /\ Len(<<>>) = 0
        <2>1. <<>> \in Seq({})
            OBVIOUS
        <2> QED
            BY <2>1 DEF IsSeq
    <1>6. IsLog(l)
        BY <1>4, <1>5 DEF IsLog
    <1>7. DOMAIN B = {} /\ DOMAIN c.nullifiers = {}
        BY <1>2, <1>3
    <1>8. IsBlocks(B, 0)
        BY <1>7 DEF IsBlocks
    <1>9. Counted(c, l)
        BY <1>4, <1>5, <1>7 DEF Counted, Spent
    <1>10. AllRight(c, B, l) /\ Owned(c, B) /\ Alone(B)
        BY <1>7 DEF AllRight, Owned, Alone
    <1>11. ChainOK(c, B, l)
        BY <1>2, <1>6, <1>8, <1>9, <1>10 DEF ChainOK
    <1> QED
        BY <1>1, <1>3, <1>11

\* The block in which an account was created, and the state files there may be of it.
LEMMA CreatedOK ==
    ASSUME NEW token \in Tokens
    PROVE  /\ ChainOK(Created(token).chain, [b \in 1..1 |-> Created(token).txs], Created(token).log)
           /\ MinedIds([b \in 1..1 |-> Created(token).txs], 0)
           /\ StateOK(CreatedState(token), Created(token).log)
           /\ StateOK(CreatedAndSaved(token), Created(token).log)
    <1>1. PICK B, l : B = [b \in {} |-> <<>>] /\ l = [id \in {} |-> <<>>]
        OBVIOUS
    <1>2. PICK c : c = [EmptyChain EXCEPT !.block = 1]
        OBVIOUS
    <1>3. ChainOK(EmptyChain, B, l) /\ IsChain(EmptyChain)
        BY <1>1, EmptyOK DEF ChainOK
    <1>4. EmptyChain.block = 0
        BY DEF EmptyChain
    <1>5. IsChain(c) /\ c.nullifiers = EmptyChain.nullifiers /\ c.block = 1
        <2>1. c = WithBlock(EmptyChain, 1)
            BY <1>2 DEF WithBlock
        <2> QED
            BY <1>3, <2>1, ChainUpdates
    <1>6. ChainOK(c, Extended(B, 1, <<>>), l)
        <2>1. PICK e : e = EmptyChain
            OBVIOUS
        <2>2. ChainOK(c, Extended(B, e.block + 1, <<>>), l)
            BY <1>3, <1>4, <1>5, <2>1, OpenStep
        <2>3. e.block + 1 = 1
            BY <1>4, <2>1
        <2> QED
            BY <2>2, <2>3
    <1>7. PICK d0 : d0 = [chain |-> c, txs |-> <<>>, log |-> l]
        OBVIOUS
    <1>8. d0.chain = c /\ d0.txs = <<>> /\ d0.log = l /\ 1 \notin DOMAIN B
        BY <1>1, <1>7
    <1>9. PICK tx1 : tx1 = [id |-> 0, kind |-> "approve", sender |-> "user"]
        OBVIOUS
    <1>10. PICK d1 : d1 = Executed(d0, tx1)
        OBVIOUS
    <1>11. /\ ChainOK(d1.chain, Extended(B, 1, d1.txs), d1.log)
           /\ d1.chain.block = 1 /\ IsLog(d1.log)
           /\ \E m : d1.txs = Append(d0.txs, m) /\ IsOutcome(m, tx1, d0.log, d1.log)
        <2>1. IsTx(tx1, d0.log)
            BY <1>9 DEF IsTx
        <2>2. ChainOK(d0.chain, Extended(B, 1, d0.txs), d0.log) /\ 1 = d0.chain.block
            BY <1>5, <1>6, <1>8
        <2> QED
            BY <1>8, <1>10, <2>1, <2>2, ExecutedStep
    <1>12. PICK m1 : d1.txs = Append(<<>>, m1) /\ m1.id = 0
        BY <1>8, <1>9, <1>11 DEF IsOutcome
    <1>13. PICK s : s = CreatedState(token)
        OBVIOUS
    <1>14. IsLog(l)
        BY <1>3 DEF ChainOK
    <1>15. PICK id : s.accounts[token] = NewShielderAccount(id, token)
        <2>1. StateOK(Configured, l) /\ token \notin DOMAIN Configured.accounts
            BY NewStates
        <2> QED
            BY <1>13, <1>14, <2>1, EnsuredState DEF CreatedState
    <1>16. PICK call : call = PrepareNewAccount(s.accounts[token], token, InitialAmount,
                         [ar_key |-> "key", mac_salt |-> "salt", caller |-> "user",
                          protocol_fee |-> 0, memo |-> "memo"])
        OBVIOUS
    <1>17. PICK tx2 : tx2 = CallTx(call, "user")
        OBVIOUS
    <1>18. PICK r : r = Created(token)
        OBVIOUS
    <1>19. r = Executed(d1, tx2)
        BY <1>1, <1>2, <1>7, <1>9, <1>10, <1>13, <1>16, <1>17, <1>18 DEF Created
    <1>20. IsCallFrom(call, s.accounts[token], 0)
        <2>1. PICK extra : extra = [ar_key |-> "key", mac_salt |-> "salt", caller |-> "user",
                                    protocol_fee |-> 0, memo |-> "memo"]
            OBVIOUS
        <2>2. extra.protocol_fee = 0
            BY <2>1
        <2>3. PICK a : a = s.accounts[token]
            OBVIOUS
        <2>4. call = PrepareNewAccount(a, token, InitialAmount, extra)
            BY <1>16, <2>1, <2>3
        <2> QED
            BY <2>2, <2>3, <2>4, NewAccountCall
    <1>21. /\ tx2.id = 0 /\ tx2.kind = "call" /\ tx2.call = call /\ tx2.sender = "user"
        BY <1>17 DEF CallTx
    <1>22. IsTx(tx2, d1.log)
        <2>1. Local(NewShielderAccount(id, token), token, d1.log)
            BY <1>11, LocalNew
        <2>2. IsAccountCall(call, d1.log)
            BY <1>11, <1>15, <1>20, <2>1, CallFromAccount
        <2> QED
            BY <1>21, <2>2 DEF IsTx
    <1>23. /\ ChainOK(r.chain, Extended(B, 1, r.txs), r.log) /\ IsLog(r.log)
           /\ \E m : r.txs = Append(d1.txs, m) /\ IsOutcome(m, tx2, d1.log, r.log)
        BY <1>8, <1>11, <1>19, <1>22, ExecutedStep
    <1>24. PICK m2 : r.txs = Append(d1.txs, m2) /\ IsOutcome(m2, tx2, d1.log, r.log)
        BY <1>23
    <1>25. IsSeq(d1.txs) /\ Len(d1.txs) = 1 /\ d1.txs[1] = m1
        <2>1. <<>> \in Seq({}) /\ Len(<<>>) = 0
            OBVIOUS
        <2>2. IsSeq(<<>>)
            BY <2>1 DEF IsSeq
        <2>3. PICK e : e = <<>>
            OBVIOUS
        <2>4. /\ IsSeq(Append(e, m1)) /\ Len(Append(e, m1)) = Len(e) + 1
              /\ Append(e, m1)[Len(e) + 1] = m1
            BY <2>2, <2>3, Appended
        <2>5. Len(e) = 0 /\ d1.txs = Append(e, m1)
            BY <1>12, <2>1, <2>3
        <2> QED
            BY <2>4, <2>5
    <1>26. DOMAIN r.txs = 1..2 /\ r.txs[1] = m1 /\ r.txs[2] = m2
        <2>1. /\ IsSeq(r.txs) /\ Len(r.txs) = 1 + 1
              /\ \A i \in 1..1 : r.txs[i] = d1.txs[i]
              /\ r.txs[1 + 1] = m2
            BY <1>24, <1>25, Appended
        <2>2. DOMAIN r.txs = 1..Len(r.txs)
            BY <2>1, SeqFacts
        <2> QED
            BY <1>25, <2>1, <2>2
    <1>27. [b \in 1..1 |-> r.txs] = Extended(B, 1, r.txs)
        BY <1>1 DEF Extended
    <1>28. MinedIds([b \in 1..1 |-> r.txs], 0)
        <2>1. m2.id = 0
            BY <1>21, <1>24 DEF IsOutcome
        <2>2. PICK E : E = [b \in 1..1 |-> r.txs]
            OBVIOUS
        <2>3. \A b \in DOMAIN E : \A i \in DOMAIN E[b] : E[b][i].id \in 0..0
            BY <1>12, <1>26, <2>1, <2>2
        <2> QED
            BY <2>2, <2>3 DEF MinedIds
    <1>29. StateOK(s, r.log) /\ token \in DOMAIN s.accounts
        <2>1. StateOK(Configured, r.log)
            BY NewStates
        <2> QED
            BY <1>13, <1>23, <2>1, EnsuredState DEF CreatedState
    <1>30. IsFresh(d1.chain)
        <2>1. PICK e, w : e = EmptyChain /\ w = Allowed(c.allowance, "user")
            OBVIOUS
        <2>2. d1.chain = [c EXCEPT !.allowance = w]
            BY <1>8, <1>9, <1>10, <2>1 DEF Executed
        <2>3. PICK v, f, u, x, y : /\ v = contract_version /\ f = [deposit |-> 0, withdraw |-> 0]
                                   /\ u = [h \in {} |-> 0]
                                   /\ x = [t \in Tokens |-> [a \in Addresses |-> 0]]
                                   /\ y = [a \in Addresses |-> 0]
            OBVIOUS
        <2>4. e = [version |-> v, chain_id |-> 1, paused |-> FALSE, ar_key |-> "key", bps |-> f,
                   notes |-> <<>>, nullifiers |-> u, balance |-> x, allowance |-> y, block |-> 0]
            BY <2>1, <2>3 DEF EmptyChain
        <2>5. c = [version |-> v, chain_id |-> 1, paused |-> FALSE, ar_key |-> "key", bps |-> f,
                   notes |-> <<>>, nullifiers |-> u, balance |-> x, allowance |-> y, block |-> 1]
            <3>1. c = [e EXCEPT !.block = 1]
                BY <1>2, <2>1
            <3> QED
                BY <2>4, <3>1
        <2>6. PICK g : g = d1.chain
            OBVIOUS
        <2>7. g = [version |-> v, chain_id |-> 1, paused |-> FALSE, ar_key |-> "key", bps |-> f,
                   notes |-> <<>>, nullifiers |-> u, balance |-> x, allowance |-> w, block |-> 1]
            BY <2>2, <2>5, <2>6
        <2>8. /\ g.version = v /\ g.paused = FALSE /\ g.ar_key = "key" /\ g.bps = f
              /\ g.nullifiers = u /\ g.balance = x /\ g.allowance = w
            BY <2>7
        <2>9. w["user"] = 10 * MaxAmount
            <3>1. c.allowance = y
                BY <2>5
            <3> QED
                BY <2>1, <2>3, <3>1 DEF Allowed, Allowance, Addresses
        <2>10. \A t \in Tokens : x[t]["shielder"] = 0
            BY <2>3 DEF Addresses
        <2>11. f.deposit = 0
            BY <2>3
        <2> QED
            BY <2>3, <2>6, <2>8, <2>9, <2>10, <2>11 DEF IsFresh
    <1>31. CallError(d1.chain, call, "user") = "Ok"
        <2>1. PICK g : g = d1.chain
            OBVIOUS
        <2> QED
            BY <1>15, <1>16, <1>30, <2>1, FirstCallAccepted
    <1>32. m2.ok
        <2>1. r.txs = Append(d1.txs, MinedCall(d1.chain, tx2))
            BY <1>19, <1>21 DEF Executed
        <2>2. PICK m : m = MinedCall(d1.chain, tx2)
            OBVIOUS
        <2>3. r.txs[1 + 1] = m
            BY <1>25, <2>1, <2>2, Appended
        <2>4. m = m2
            BY <1>26, <2>3
        <2>5. m.ok = TRUE
            BY <1>21, <1>31, <2>2 DEF MinedCall
        <2> QED
            BY <2>4, <2>5
    <1>33. LET a == s.accounts[token]
           IN  /\ a.nonce = 0 /\ 0 < Len(EventsIn(r.log, a.id))
               /\ m2.event = EventsIn(r.log, a.id)[1]
        <2>1. /\ s.accounts[token].nonce = 0 /\ s.accounts[token].id = id
            BY <1>14, <1>15, LocalNew
        <2>2. IsLogged(m2.event, call, d1.log, r.log)
            BY <1>21, <1>24, <1>32 DEF IsOutcome
        <2>3. call.new_note.of.id = id /\ NullifierOf(call) = NullifierAt(id, 0)
            <3>1. call.kind = "NewAccount"
                BY <1>16 DEF PrepareNewAccount
            <3> QED
                BY <1>20, <2>1, <3>1 DEF IsCallFrom
        <2>4. PICK n : n = Len(EventsIn(d1.log, id))
            OBVIOUS
        <2>5. n \in Nat
            BY <1>11, <2>4, SeqFacts DEF IsLog
        <2>6. /\ NullifierOf(call) = NullifierAt(id, n)
              /\ Len(EventsIn(r.log, id)) = n + 1 /\ EventsIn(r.log, id)[n + 1] = m2.event
            BY <2>2, <2>3, <2>4 DEF IsLogged
        <2>7. n = 0
            BY <2>3, <2>5, <2>6, Nullifiers
        <2> QED
            BY <2>1, <2>6, <2>7
    <1>34. StateOK(CreatedAndSaved(token), r.log)
        <2>1. PICK event : event = m2.event
            OBVIOUS
        <2>2. CreatedAndSaved(token) = WithAction(s, token, event)
            BY <1>13, <1>18, <1>26, <2>1 DEF CreatedAndSaved
        <2>3. /\ s.accounts[token].nonce < Len(EventsIn(r.log, s.accounts[token].id))
              /\ event = EventsIn(r.log, s.accounts[token].id)[s.accounts[token].nonce + 1]
            BY <1>33, <2>1
        <2>4. PICK k : k = r.log
            OBVIOUS
        <2>5. ShielderAction(event) =
                ShielderAction(EventsIn(k, s.accounts[token].id)[s.accounts[token].nonce + 1])
            BY <2>3, <2>4
        <2> QED
            BY <1>23, <1>29, <2>2, <2>3, <2>4, <2>5, ActionUpdate
    <1> QED
        BY <1>13, <1>18, <1>23, <1>27, <1>28, <1>29, <1>34

\* The invariant holds at first.
LEMMA InitInv ==
    ASSUME Init
    PROVE  CliInv
    <1>1. /\ proc = [p \in Processes |-> Idle] /\ pending = {}
          /\ used = [commands |-> 0, stops |-> 0, foreign |-> 0, fees |-> 0, txs |-> 0]
        BY DEF Init
    <1>2. IsUsed(used) /\ used.txs = 0
        <2>1. PICK u : u = used
            OBVIOUS
        <2>2. u = [commands |-> 0, stops |-> 0, foreign |-> 0, fees |-> 0, txs |-> 0]
            BY <1>1, <2>1
        <2>3. u.commands = 0 /\ u.stops = 0 /\ u.foreign = 0 /\ u.fees = 0 /\ u.txs = 0
            BY <2>2
        <2> QED
            BY <2>1, <2>2, <2>3 DEF IsUsed
    <1>3. /\ DOMAIN proc = Processes
          /\ \A p \in Processes : Steady(proc[p], log) /\ Waits(proc[p], log, blocks, pending, used.txs)
        <2>1. Steady(Idle, log) /\ Waits(Idle, log, blocks, pending, used.txs)
            <3>1. PICK l, B, P, top : l = log /\ B = blocks /\ P = pending /\ top = used.txs
                OBVIOUS
            <3> QED
                BY <3>1, IdleOK
        <2> QED
            BY <1>1, <2>1
    <1>4. ChainOK(chain, blocks, log) /\ MinedIds(blocks, 0) /\ FilesOK(file, log)
        <2>1. CASE /\ file \in [Files -> {Missing, Saved(Configured)}]
                   /\ chain = EmptyChain /\ blocks = [b \in {} |-> <<>>] /\ log = [id \in {} |-> <<>>]
            <3>1. ChainOK(chain, blocks, log)
                BY <2>1, EmptyOK
            <3>2. DOMAIN blocks = {}
                BY <2>1
            <3>3. MinedIds(blocks, 0)
                BY <3>2 DEF MinedIds
            <3>4. StateOK(Configured, log)
                <4>1. PICK l : l = log
                    OBVIOUS
                <4> QED
                    BY <4>1, NewStates
            <3>5. \A f \in Files : file[f].status = "ok" => StateOK(file[f].state, log)
                <4>1. SUFFICES ASSUME NEW f \in Files, file[f].status = "ok"
                               PROVE  StateOK(file[f].state, log)
                    OBVIOUS
                <4>2. file[f] = Missing \/ file[f] = Saved(Configured)
                    BY <2>1
                <4>3. Missing.status = "missing"
                    BY DEF Missing
                <4>4. file[f] = Saved(Configured)
                    BY <4>1, <4>2, <4>3
                <4>5. file[f].state = Configured
                    BY <4>4 DEF Saved
                <4> QED
                    BY <3>4, <4>5
            <3> QED
                BY <2>1, <3>1, <3>3, <3>5 DEF FilesOK
        <2>2. ASSUME NEW token \in Tokens,
                     /\ file \in [Files -> {Saved(CreatedState(token)), Saved(CreatedAndSaved(token))}]
                     /\ chain = Created(token).chain /\ blocks = [b \in 1..1 |-> Created(token).txs]
                     /\ log = Created(token).log
              PROVE  ChainOK(chain, blocks, log) /\ MinedIds(blocks, 0) /\ FilesOK(file, log)
            <3>1. /\ ChainOK(chain, blocks, log) /\ MinedIds(blocks, 0)
                  /\ StateOK(CreatedState(token), log) /\ StateOK(CreatedAndSaved(token), log)
                BY <2>2, CreatedOK
            <3>2. ASSUME NEW f \in Files PROVE StateOK(file[f].state, log)
                <4>1. file[f] = Saved(CreatedState(token)) \/ file[f] = Saved(CreatedAndSaved(token))
                    BY <2>2
                <4>2. file[f].state = CreatedState(token) \/ file[f].state = CreatedAndSaved(token)
                    BY <4>1 DEF Saved
                <4> QED
                    BY <3>1, <4>2
            <3> QED
                BY <2>2, <3>1, <3>2 DEF FilesOK
        <2> QED
            BY <2>1, <2>2 DEF Init
    <1>5. PendingOK(pending, log, used.txs)
        BY <1>1 DEF PendingOK
    <1> QED
        BY <1>2, <1>3, <1>4, <1>5 DEF CliInv

-----------------------------------------------------------------------------
(* The theorems. *)

\* The inductive invariant: the chain, its log, the files and the invocations agree.
THEOREM CliInvInvariant == Spec => []CliInv
    <1>1. Init => CliInv
        BY InitInv
    <1>2. CliInv /\ [Next]_vars => CliInv'
        BY NextInv
    <1> QED
        BY <1>1, <1>2, PTL DEF Spec

\* What a client keeps of an account, in a file or in memory, is the account after some
\* number of the actions the chain has of it, in their order, whatever runs at once,
\* stops half way or loses the answer to a transaction that is mined later
\* (new_account.rs, deposit.rs, withdraw.rs, recovery.rs: register_action).
THEOREM LocalIsPrefixInvariant == Spec => []LocalIsPrefix
    <1>1. CliInv => LocalIsPrefix
        BY InvImplies
    <1> QED
        BY <1>1, CliInvInvariant, PTL

\* A recovery that gets as far as saving has every action that was on the chain when it
\* began (recovery.rs, recover_state).
THEOREM RecoveryCoversChainInvariant == Spec => []RecoveryCoversChain
    <1>1. CliInv => RecoveryCoversChain
        BY InvImplies
    <1> QED
        BY <1>1, CliInvInvariant, PTL

\* A spent nullifier leads to the event of the call that spent it, or the search ends at
\* a reverted call of the same block (recovery.rs, get_shielder_action).
THEOREM RecoveryFindsActionInvariant == Spec => []RecoveryFindsAction
    <1>1. CliInv => RecoveryFindsAction
        BY InvImplies
    <1> QED
        BY <1>1, CliInvInvariant, PTL

=============================================================================
