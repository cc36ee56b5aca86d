--------------------------- MODULE ShielderProofs ---------------------------
(***************************************************************************)
(* Theorems on Shielder, for every value of its constants.                 *)
(***************************************************************************)
EXTENDS ShielderLedger, FiniteSetTheorems, TLAPS

-----------------------------------------------------------------------------
(* Notes and what one of them is worth. *)

\* The fields of a note.
LEMMA NoteFields ==
    ASSUME NEW note \in Note
    PROVE  /\ note.id \in Ids
           /\ note.nullifier \in Field
           /\ note.token \in Tokens
           /\ note.balance \in Nat
           /\ note.balance < FIELD_MODULUS
  BY ConstantsAssumption DEF Note, FieldElement

\* The spendable value of a leaf is a natural number.
LEMMA SpendableNat ==
    ASSUME NEW leaves \in Seq(Note), NEW used, NEW token,
           NEW leaf \in 1..Len(leaves)
    PROVE  Spendable(leaves, used, leaf, token) \in Nat
  <1>1. leaves[leaf] \in Note
    OBVIOUS
  <1> QED
    BY <1>1, NoteFields DEF Spendable

\* One spendable note is worth no more than all of them together.
LEMMA OneWithinTotal ==
    ASSUME NEW leaves \in Seq(Note), NEW used \in [Field -> Nat],
           NEW token \in Tokens, NEW bound \in Nat,
           SpendableAtMost(leaves, used, token, bound),
           NEW leaf \in 1..Len(leaves),
           leaves[leaf].token = token, used[leaves[leaf].nullifier] = 0
    PROVE  leaves[leaf].balance <= bound
  <1>1. PICK total \in [0..Len(leaves) -> 0..bound] : RunningTotal(total, leaves, used, token)
    BY DEF SpendableAtMost
  <1>2. Len(leaves) \in Nat /\ leaf \in 0..Len(leaves) /\ leaf - 1 \in 0..Len(leaves)
    OBVIOUS
  <1>3. Spendable(leaves, used, leaf, token) = leaves[leaf].balance
    BY DEF Spendable
  <1>4. leaves[leaf].balance \in Nat
    <2>1. leaves[leaf] \in Note
      OBVIOUS
    <2> QED
      BY <2>1, NoteFields
  <1>5. total[leaf - 1] + leaves[leaf].balance <= total[leaf]
    BY <1>1, <1>3 DEF RunningTotal
  <1>6. total[leaf] \in 0..bound /\ total[leaf - 1] \in 0..bound
    BY <1>1, <1>2
  <1> QED
    BY <1>4, <1>5, <1>6

-----------------------------------------------------------------------------
(* Running totals of any list of numbers; the lemmas know nothing of notes, so
   that the provers have little to look at. *)

RunningSum(total, n, value) ==
    /\ total[0] = 0
    /\ \A k \in 1..n : total[k - 1] + value[k] <= total[k]
    /\ \A i, j \in 0..n : i <= j => total[i] <= total[j]

\* A number at the end of the list adds itself to the bound of the total.
LEMMA SumGrows ==
    ASSUME NEW n \in Nat, NEW bound \in Nat, NEW newBound \in Nat,
           NEW value \in [1..(n + 1) -> Nat], bound + value[n + 1] <= newBound,
           NEW total \in [0..n -> 0..bound], RunningSum(total, n, value)
    PROVE  \E total2 \in [0..(n + 1) -> 0..newBound] : RunningSum(total2, n + 1, value)
  <1> DEFINE gain == value[n + 1]
             total2 == [k \in 0..(n + 1) |-> IF k = n + 1 THEN total[n] + gain ELSE total[k]]
  <1>1. gain \in Nat /\ bound + gain <= newBound
    OBVIOUS
  <1>2. total2[n + 1] = total[n] + gain /\ \A k \in 0..n : total2[k] = total[k]
    OBVIOUS
  <1>3. \A k \in 0..n : total[k] \in Nat /\ total[k] <= bound
    OBVIOUS
  <1>4. ASSUME NEW k \in 0..(n + 1)
        PROVE  IF k = n + 1 THEN total[n] + gain \in 0..newBound ELSE total[k] \in 0..newBound
    <2>1. CASE k = n + 1
      <3>1. total[n] \in Nat /\ total[n] <= bound
        BY <1>3
      <3> QED
        BY <3>1, <2>1, <1>1
    <2>2. CASE k \in 0..n
      <3>1. total[k] \in Nat /\ total[k] <= bound
        BY <2>2, <1>3
      <3> QED
        BY <3>1, <2>2, <1>1
    <2> QED
      BY <2>1, <2>2
  <1>5. total2 \in [0..(n + 1) -> 0..newBound]
    BY <1>4
  <1> HIDE DEF gain, total2
  <1>6. ASSUME NEW k \in 1..(n + 1)
        PROVE  total2[k - 1] + value[k] <= total2[k]
    <2>1. CASE k = n + 1
      BY <2>1, <1>1, <1>2, <1>3 DEF gain
    <2>2. CASE k \in 1..n
      <3>1. total[k - 1] + value[k] <= total[k]
        BY <2>2 DEF RunningSum
      <3> QED
        BY <3>1, <2>2, <1>2
    <2> QED
      BY <2>1, <2>2
  <1>7. ASSUME NEW i \in 0..(n + 1), NEW j \in 0..(n + 1), i <= j
        PROVE  total2[i] <= total2[j]
    <2>1. CASE i \in 0..n /\ j \in 0..n
      BY <2>1, <1>2, <1>7 DEF RunningSum
    <2>2. CASE i \in 0..n /\ j = n + 1
      <3>1. total[i] <= total[n]
        BY <2>2 DEF RunningSum
      <3> QED
        BY <3>1, <2>2, <1>1, <1>2, <1>3
    <2>3. CASE i = n + 1 /\ j = n + 1
      BY <2>3, <1>5
    <2> QED
      BY <2>1, <2>2, <2>3, <1>7
  <1>8. total2[0] = 0
    BY <1>2 DEF RunningSum
  <1>9. RunningSum(total2, n + 1, value)
    BY <1>6, <1>7, <1>8 DEF RunningSum
  <1> QED
    BY <1>5, <1>9

\* A number of the list that becomes zero takes itself from the bound.
LEMMA SumDrops ==
    ASSUME NEW n \in Nat, NEW bound \in Nat, NEW spent \in 1..n,
           NEW value \in [1..n -> Nat], NEW value2, \A k \in 1..n : value2[k] \in Nat,
           value2[spent] = 0, \A k \in 1..n : value2[k] <= value[k],
           NEW total \in [0..n -> 0..bound], RunningSum(total, n, value)
    PROVE  /\ bound - value[spent] \in Nat
           /\ \E total2 \in [0..n -> 0..(bound - value[spent])] : RunningSum(total2, n, value2)
  <1> DEFINE loss == value[spent]
             total2 == [k \in 0..n |-> IF k < spent THEN total[k] ELSE total[k] - loss]
  <1>1. loss \in Nat
    OBVIOUS
  <1>2. /\ \A k \in 0..(spent - 1) : total2[k] = total[k]
        /\ \A k \in spent..n : total2[k] = total[k] - loss
    OBVIOUS
  <1>3. \A k \in 0..n : total[k] \in Nat /\ total[k] <= bound
    OBVIOUS
  <1>4. /\ total[0] = 0
        /\ \A k \in 1..n : total[k - 1] + value[k] <= total[k]
        /\ \A i, j \in 0..n : i <= j => total[i] <= total[j]
    BY DEF RunningSum
  <1>5. ASSUME NEW i \in 0..(spent - 1), NEW j \in spent..n
        PROVE  total[i] <= total[j] - loss
    <2>1. /\ i \in 0..n /\ j \in 0..n /\ spent \in 0..n /\ spent - 1 \in 0..n
          /\ i <= spent - 1 /\ spent <= j
      OBVIOUS
    <2>2. total[spent - 1] + loss <= total[spent]
      BY <1>4
    <2>3. total[i] <= total[spent - 1] /\ total[spent] <= total[j]
      BY <2>1, <1>4, Zenon
    <2>4. {total[i], total[spent - 1], total[spent], total[j], loss} \subseteq Nat
      BY <2>1, <1>1, <1>3
    <2>5. \A a, b, c, d, l \in Nat : a <= b /\ b + l <= c /\ c <= d => a <= d - l
      OBVIOUS
    <2> HIDE DEF loss
    <2> QED
      BY <2>2, <2>3, <2>4, <2>5, Zenon
  <1>6. \A k \in spent..n : total[k] - loss \in Nat
    <2> SUFFICES ASSUME NEW k \in spent..n PROVE total[k] - loss \in Nat
      OBVIOUS
    <2>1. total[0] <= total[k] - loss
      BY <1>5
    <2>2. total[k] \in Nat
      BY <1>3
    <2> HIDE DEF loss
    <2> QED
      BY <2>1, <2>2, <1>1, <1>4
  <1>7. bound - loss \in Nat
    <2>1. total[n] - loss \in Nat /\ total[n] \in Nat /\ total[n] <= bound
      BY <1>3, <1>6
    <2> HIDE DEF loss
    <2> QED
      BY <2>1, <1>1
  <1>8. ASSUME NEW k \in 0..n
        PROVE  IF k < spent THEN total[k] \in 0..(bound - loss)
               ELSE total[k] - loss \in 0..(bound - loss)
    <2>1. CASE k \in 0..(spent - 1)
      <3>1. total[k] <= total[n] - loss /\ total[n] <= bound
        BY <2>1, <1>3, <1>5
      <3>2. total[k] \in Nat /\ total[n] \in Nat
        BY <1>3
      <3> HIDE DEF loss
      <3> QED
        BY <3>1, <3>2, <2>1, <1>1
    <2>2. CASE k \in spent..n
      <3>1. total[k] - loss \in Nat /\ total[k] <= bound /\ total[k] \in Nat
        BY <2>2, <1>3, <1>6
      <3> HIDE DEF loss
      <3> QED
        BY <3>1, <2>2, <1>1
    <2> QED
      BY <2>1, <2>2
  <1>9. total2 \in [0..n -> 0..(bound - loss)]
    BY <1>8
  <1> HIDE DEF loss, total2
  <1>10. ASSUME NEW k \in 1..n
         PROVE  total2[k - 1] + value2[k] <= total2[k]
    <2>1. total[k - 1] + value[k] <= total[k] /\ value2[k] <= value[k]
      BY <1>4
    <2>2. total[k - 1] \in Nat /\ total[k] \in Nat /\ value[k] \in Nat /\ value2[k] \in Nat
      BY <1>3
    <2>3. total[k - 1] + value2[k] <= total[k]
      BY <2>1, <2>2
    <2>4. CASE k < spent
      <3>1. total2[k] = total[k] /\ total2[k - 1] = total[k - 1]
        BY <2>4, <1>2
      <3> QED
        BY <3>1, <2>3
    <2>5. CASE k = spent
      <3>1. total2[k] = total[k] - loss /\ total2[k - 1] = total[k - 1] /\ value2[k] = 0
        BY <2>5, <1>2
      <3>2. total[k - 1] <= total[k] - loss
        BY <2>5, <1>5
      <3> QED
        BY <3>1, <3>2, <2>2
    <2>6. CASE k > spent
      <3>1. total2[k] = total[k] - loss /\ total2[k - 1] = total[k - 1] - loss
        BY <2>6, <1>2
      <3> QED
        BY <3>1, <2>2, <2>3, <1>1
    <2> QED
      BY <2>4, <2>5, <2>6
  <1>11. ASSUME NEW i \in 0..n, NEW j \in 0..n, i <= j
         PROVE  total2[i] <= total2[j]
    <2>1. total[i] <= total[j] /\ total[i] \in Nat /\ total[j] \in Nat
      BY <1>3, <1>4, <1>11
    <2>2. CASE j < spent
      BY <2>1, <2>2, <1>2, <1>11
    <2>3. CASE i < spent /\ j >= spent
      <3>1. total2[i] = total[i] /\ total2[j] = total[j] - loss
        BY <2>3, <1>2
      <3>2. total[i] <= total[j] - loss
        BY <2>3, <1>5
      <3> QED
        BY <3>1, <3>2
    <2>4. CASE i >= spent
      <3>1. total2[i] = total[i] - loss /\ total2[j] = total[j] - loss
        BY <2>4, <1>2, <1>11
      <3> QED
        BY <3>1, <2>1, <1>1
    <2> QED
      BY <2>2, <2>3, <2>4
  <1>12. total2[0] = 0
    BY <1>2, <1>4
  <1>13. RunningSum(total2, n, value2)
    BY <1>10, <1>11, <1>12 DEF RunningSum
  <1> QED
    BY <1>7, <1>9, <1>13 DEF loss

\* A running total of some numbers is one of smaller numbers.
LEMMA SumOfLess ==
    ASSUME NEW n \in Nat, NEW bound \in Nat, NEW total \in [0..n -> 0..bound],
           NEW value, NEW value2,
           \A k \in 1..n : value[k] \in Nat /\ value2[k] \in Nat /\ value2[k] <= value[k],
           RunningSum(total, n, value)
    PROVE  RunningSum(total, n, value2)
  <1>1. ASSUME NEW k \in 1..n
        PROVE  total[k - 1] + value2[k] <= total[k]
    <2>1. total[k - 1] + value[k] <= total[k]
      BY DEF RunningSum
    <2>2. total[k - 1] \in Nat /\ total[k] \in Nat
      OBVIOUS
    <2> QED
      BY <2>1, <2>2
  <1> QED
    BY <1>1 DEF RunningSum

-----------------------------------------------------------------------------
(* The spendable value of a tree. *)

ValueOf(leaves, used, token) ==
    [leaf \in 1..Len(leaves) |-> Spendable(leaves, used, leaf, token)]

\* SpendableAtMost speaks of the running totals of those values.
LEMMA AtMostIsSum ==
    ASSUME NEW leaves \in Seq(Note), NEW used, NEW token, NEW bound \in Nat
    PROVE  /\ ValueOf(leaves, used, token) \in [1..Len(leaves) -> Nat]
           /\ SpendableAtMost(leaves, used, token, bound)
              <=> \E total \in [0..Len(leaves) -> 0..bound] :
                     RunningSum(total, Len(leaves), ValueOf(leaves, used, token))
  <1>1. \A leaf \in 1..Len(leaves) : Spendable(leaves, used, leaf, token) \in Nat
    BY SpendableNat
  <1>2. \A leaf \in 1..Len(leaves) :
           ValueOf(leaves, used, token)[leaf] = Spendable(leaves, used, leaf, token)
    BY DEF ValueOf
  <1>3. \A total : RunningTotal(total, leaves, used, token)
                   <=> RunningSum(total, Len(leaves), ValueOf(leaves, used, token))
    BY <1>2 DEF RunningTotal, RunningSum
  <1> QED
    BY <1>1, <1>3 DEF SpendableAtMost, ValueOf

\* What an operation does to the values: no leaf gains, those of the registered
\* nullifier lose everything, the new one has at most its balance, in its token.
ValuesMove(value, value2, leaves, newNote, nullifier, token) ==
    /\ \A leaf \in 1..Len(leaves) :
          /\ value2[leaf] <= value[leaf]
          /\ leaves[leaf].nullifier = nullifier => value2[leaf] = 0
    /\ value2[Len(leaves) + 1] <= IF newNote.token = token THEN newNote.balance ELSE 0

\* Appending a note and registering a nullifier does that.
LEMMA ValueAfter ==
    ASSUME NEW leaves \in Seq(Note), NEW used \in [Field -> Nat], NEW token \in Tokens,
           NEW newNote \in Note, NEW nullifier \in Field, NEW mark \in Nat \ {0}
    PROVE  ValuesMove(ValueOf(leaves, used, token),
                      ValueOf(Append(leaves, newNote), [used EXCEPT ![nullifier] = mark], token),
                      leaves, newNote, nullifier, token)
  <1> DEFINE leaves2 == Append(leaves, newNote)
             used2 == [used EXCEPT ![nullifier] = mark]
  <1>1. leaves2 \in Seq(Note) /\ Len(leaves2) = Len(leaves) + 1
    OBVIOUS
  <1>2. ASSUME NEW leaf \in 1..Len(leaves)
        PROVE  /\ Spendable(leaves2, used2, leaf, token) <= Spendable(leaves, used, leaf, token)
               /\ leaves[leaf].nullifier = nullifier
                  => Spendable(leaves2, used2, leaf, token) = 0
    <2>1. leaves2[leaf] = leaves[leaf] /\ leaves[leaf] \in Note
      OBVIOUS
    <2>2. leaves[leaf].balance \in Nat /\ leaves[leaf].nullifier \in Field
      BY <2>1, NoteFields
    <2>3. /\ used2[leaves[leaf].nullifier] = 0 => used[leaves[leaf].nullifier] = 0
          /\ leaves[leaf].nullifier = nullifier => used2[leaves[leaf].nullifier] # 0
      BY <2>2
    <2> QED
      BY <2>1, <2>2, <2>3 DEF Spendable
  <1>3. Spendable(leaves2, used2, Len(leaves) + 1, token)
           <= IF newNote.token = token THEN newNote.balance ELSE 0
    <2>1. leaves2[Len(leaves) + 1] = newNote
      OBVIOUS
    <2>2. newNote.balance \in Nat
      BY NoteFields
    <2> QED
      BY <2>1, <2>2 DEF Spendable
  <1>4. /\ \A leaf \in 1..Len(leaves) :
              /\ ValueOf(leaves, used, token)[leaf] = Spendable(leaves, used, leaf, token)
              /\ ValueOf(leaves2, used2, token)[leaf] = Spendable(leaves2, used2, leaf, token)
        /\ ValueOf(leaves2, used2, token)[Len(leaves) + 1]
              = Spendable(leaves2, used2, Len(leaves) + 1, token)
    BY <1>1 DEF ValueOf
  <1> HIDE DEF leaves2, used2
  <1>5. ValuesMove(ValueOf(leaves, used, token), ValueOf(leaves2, used2, token),
                   leaves, newNote, nullifier, token)
    BY <1>2, <1>3, <1>4 DEF ValuesMove
  <1> QED
    BY <1>5 DEF leaves2, used2

\* Adding a note adds at most its balance, in its own token.
LEMMA TotalAfterNewNote ==
    ASSUME NEW leaves \in Seq(Note), NEW used \in [Field -> Nat],
           NEW token \in Tokens, NEW bound \in Nat,
           SpendableAtMost(leaves, used, token, bound),
           NEW newNote \in Note, NEW nullifier \in Field, NEW mark \in Nat \ {0},
           NEW newBound \in Nat,
           bound + (IF newNote.token = token THEN newNote.balance ELSE 0) <= newBound
    PROVE  SpendableAtMost(Append(leaves, newNote), [used EXCEPT ![nullifier] = mark],
                           token, newBound)
  <1> DEFINE n == Len(leaves)
             leaves2 == Append(leaves, newNote)
             used2 == [used EXCEPT ![nullifier] = mark]
             value == ValueOf(leaves, used, token)
             value2 == ValueOf(leaves2, used2, token)
             gain == IF newNote.token = token THEN newNote.balance ELSE 0
  <1>1. gain \in Nat /\ bound + gain <= newBound /\ n \in Nat
    BY NoteFields
  <1>2. /\ leaves2 \in Seq(Note) /\ Len(leaves2) = n + 1
        /\ \A leaf \in 1..n : value2[leaf] <= value[leaf]
        /\ value2[n + 1] <= gain
    <2>1. ValuesMove(value, value2, leaves, newNote, nullifier, token)
      BY ValueAfter
    <2>2. leaves2 \in Seq(Note) /\ Len(leaves2) = n + 1
      OBVIOUS
    <2> HIDE DEF leaves2, used2, value, value2
    <2> QED
      BY <2>1, <2>2 DEF ValuesMove
  <1> HIDE DEF n, leaves2, used2, value, value2, gain
  <1>3. value \in [1..n -> Nat] /\ value2 \in [1..(n + 1) -> Nat]
    BY <1>2, AtMostIsSum DEF n, value, value2
  <1>4. PICK total \in [0..n -> 0..bound] : RunningSum(total, n, value)
    BY AtMostIsSum DEF n, value
  <1>5. RunningSum(total, n, value2)
    <2>1. \A k \in 1..n : value[k] \in Nat /\ value2[k] \in Nat /\ value2[k] <= value[k]
      BY <1>1, <1>2, <1>3
    <2> QED
      BY <2>1, <1>1, <1>4, SumOfLess
  <1>6. bound + value2[n + 1] <= newBound
    <2>1. value2[n + 1] \in Nat
      BY <1>1, <1>3
    <2> QED
      BY <2>1, <1>1, <1>2
  <1>7. \E total2 \in [0..(n + 1) -> 0..newBound] : RunningSum(total2, n + 1, value2)
    BY <1>1, <1>3, <1>4, <1>5, <1>6, SumGrows
  <1>8. SpendableAtMost(leaves2, used2, token, newBound)
    <2>1. \E total2 \in [0..Len(leaves2) -> 0..newBound] :
             RunningSum(total2, Len(leaves2), ValueOf(leaves2, used2, token))
      BY <1>2, <1>7 DEF value2
    <2> QED
      BY <2>1, <1>2, AtMostIsSum
  <1> QED
    BY <1>8 DEF leaves2, used2

\* Spending a leaf and adding the note that replaces it moves the total by the
\* difference of the two balances; a leaf with the same nullifier dies along.
LEMMA TotalAfterSpend ==
    ASSUME NEW leaves \in Seq(Note), NEW used \in [Field -> Nat],
           NEW token \in Tokens, NEW bound \in Nat,
           SpendableAtMost(leaves, used, token, bound),
           NEW spent \in 1..Len(leaves),
           leaves[spent].token = token, used[leaves[spent].nullifier] = 0,
           NEW newNote \in Note, NEW mark \in Nat \ {0}, NEW newBound \in Nat,
           bound - leaves[spent].balance + newNote.balance <= newBound
    PROVE  SpendableAtMost(Append(leaves, newNote),
                           [used EXCEPT ![leaves[spent].nullifier] = mark],
                           token, newBound)
  <1> DEFINE n == Len(leaves)
             leaves2 == Append(leaves, newNote)
             used2 == [used EXCEPT ![leaves[spent].nullifier] = mark]
             value == ValueOf(leaves, used, token)
             value2 == ValueOf(leaves2, used2, token)
             loss == leaves[spent].balance
             gain == newNote.balance
  <1>1. n \in Nat /\ spent \in 1..n /\ leaves[spent] \in Note
    OBVIOUS
  <1>2. gain \in Nat /\ loss \in Nat /\ leaves[spent].nullifier \in Field
    BY <1>1, NoteFields
  <1>3. bound - loss + gain <= newBound
    OBVIOUS
  <1>4. value[spent] = loss
    BY DEF ValueOf, Spendable
  <1>5. /\ leaves2 \in Seq(Note) /\ Len(leaves2) = n + 1
        /\ \A leaf \in 1..n : value2[leaf] <= value[leaf]
        /\ value2[spent] = 0
        /\ value2[n + 1] <= IF newNote.token = token THEN newNote.balance ELSE 0
    <2>1. ValuesMove(value, value2, leaves, newNote, leaves[spent].nullifier, token)
      BY <1>2, ValueAfter
    <2>2. leaves2 \in Seq(Note) /\ Len(leaves2) = n + 1
      OBVIOUS
    <2> HIDE DEF leaves2, used2, value, value2
    <2> QED
      BY <2>1, <2>2 DEF ValuesMove
  <1> HIDE DEF n, leaves2, used2, value, value2, loss
  <1>6. value2[n + 1] <= gain
    <2>1. CASE newNote.token = token
      BY <2>1, <1>5
    <2>2. CASE newNote.token # token
      <3>1. value2[n + 1] <= 0
        BY <2>2, <1>5
      <3>2. value2[n + 1] \in Nat
        <4>1. value2 \in [1..Len(leaves2) -> Nat]
          BY <1>5, AtMostIsSum DEF value2
        <4> QED
          BY <4>1, <1>1, <1>5
      <3> HIDE DEF gain
      <3> QED
        BY <3>1, <3>2, <1>2
    <2> QED
      BY <2>1, <2>2
  <1> HIDE DEF gain
  <1>7. value \in [1..n -> Nat] /\ value2 \in [1..(n + 1) -> Nat]
    <2>1. value2 \in [1..Len(leaves2) -> Nat]
      BY <1>5, AtMostIsSum DEF value2
    <2> QED
      BY <2>1, <1>5, AtMostIsSum DEF n, value
  <1>8. PICK total \in [0..n -> 0..bound] : RunningSum(total, n, value)
    BY AtMostIsSum DEF n, value
  <1>9. \A k \in 1..n : value2[k] \in Nat
    BY <1>1, <1>7
  <1>10. /\ bound - loss \in Nat
         /\ \E total1 \in [0..n -> 0..(bound - loss)] : RunningSum(total1, n, value2)
    <2>1. /\ bound - value[spent] \in Nat
          /\ \E total1 \in [0..n -> 0..(bound - value[spent])] : RunningSum(total1, n, value2)
      BY <1>1, <1>5, <1>7, <1>8, <1>9, SumDrops
    <2> QED
      BY <2>1, <1>4
  <1>11. PICK total1 \in [0..n -> 0..(bound - loss)] : RunningSum(total1, n, value2)
    BY <1>10
  <1>12. bound - loss + value2[n + 1] <= newBound
    <2>1. value2[n + 1] \in Nat
      BY <1>1, <1>7
    <2> QED
      BY <2>1, <1>2, <1>3, <1>6, <1>10
  <1>13. \E total2 \in [0..(n + 1) -> 0..newBound] : RunningSum(total2, n + 1, value2)
    <2> DEFINE rest == bound - loss
    <2>1. rest \in Nat /\ total1 \in [0..n -> 0..rest] /\ rest + value2[n + 1] <= newBound
      BY <1>10, <1>11, <1>12
    <2> HIDE DEF rest
    <2> QED
      BY <2>1, <1>1, <1>7, <1>11, SumGrows
  <1>14. SpendableAtMost(leaves2, used2, token, newBound)
    <2>1. \E total2 \in [0..Len(leaves2) -> 0..newBound] :
             RunningSum(total2, Len(leaves2), ValueOf(leaves2, used2, token))
      BY <1>5, <1>13 DEF value2
    <2> QED
      BY <2>1, <1>5, AtMostIsSum
  <1> QED
    BY <1>14 DEF leaves2, used2

-----------------------------------------------------------------------------
(* Fees and payments. *)

\* Rounding up does not pass a bound that is a multiple of the divisor.
LEMMA CeilDivBound ==
    ASSUME NEW x \in Nat, NEW m \in Nat \ {0}, NEW y \in Nat, x <= y * m
    PROVE  CeilDiv(x, m) \in Nat /\ CeilDiv(x, m) <= y
  <1> DEFINE q == (x + m - 1) \div m
             z == x + m - 1
  <1>1. z \in Nat
    OBVIOUS
  <1>2. q \in Int /\ m * q <= z /\ z < m * (q + 1)
    BY <1>1
  <1>3. y * m \in Int /\ m * q \in Int
    BY <1>2
  <1>4. q >= 0
    <2>1. CASE q < 0
      <3>1. m * (q + 1) <= 0
        BY <2>1, <1>2
      <3> QED
        BY <3>1, <1>1, <1>2
    <2> QED
      BY <2>1, <1>2
  <1>5. q <= y
    <2>1. CASE q > y
      <3>1. m * q >= m * (y + 1)
        BY <2>1, <1>2
      <3>2. m * (y + 1) = y * m + m
        OBVIOUS
      <3> QED
        BY <3>1, <3>2, <1>2, <1>3
    <2> QED
      BY <2>1, <1>2
  <1> QED
    BY <1>2, <1>4, <1>5 DEF CeilDiv

\* A fee is a natural number and never more than the amount.
LEMMA FeeWithinAmount ==
    ASSUME NEW amount \in Nat, NEW bps \in 0..MAX_FEE_BPS
    PROVE  /\ ComputeProtocolFee(amount, bps) \in Nat
           /\ ComputeProtocolFee(amount, bps) <= amount
  <1>1. bps \in Nat /\ bps <= MAX_BPS /\ MAX_BPS \in Nat \ {0}
    BY ConstantsAssumption
  <1>2. amount * bps \in Nat /\ amount * bps <= amount * MAX_BPS
    BY <1>1
  <1> QED
    BY <1>1, <1>2, CeilDivBound DEF ComputeProtocolFee

\* A transfer out of the contract takes at most the amount from what it holds.
LEMMA TransferTakes ==
    ASSUME NEW held \in Nat, NEW token, NEW to, NEW amount \in Nat,
           CanTransfer(held, token, to, amount)
    PROVE  /\ AfterTransfer(held, to, amount) \in Nat
           /\ held - amount <= AfterTransfer(held, to, amount)
  BY DEF CanTransfer, AfterTransfer

\* The fees of a deposit and of a withdrawal are between zero and the amount.
LEMMA FeesAreNat ==
    ASSUME TypeOK, NEW amount \in Nat
    PROVE  /\ ComputeProtocolDepositFee(amount) \in Nat
           /\ ComputeProtocolDepositFee(amount) <= amount
           /\ ComputeProtocolWithdrawFee(amount) \in Nat
           /\ ComputeProtocolWithdrawFee(amount) <= amount
  <1>1. feeBps.deposit \in 0..MAX_FEE_BPS /\ feeBps.withdraw \in 0..MAX_FEE_BPS
    BY DEF TypeOK
  <1> QED
    BY <1>1, FeeWithinAmount DEF ComputeProtocolDepositFee, ComputeProtocolWithdrawFee

\* What comes in, less the fee, stays.
LEMMA PayInKeeps ==
    ASSUME TypeOK, NEW token \in Tokens, NEW amount \in Nat, PayIn(token, amount)
    PROVE  /\ balance' \in [Tokens -> Nat]
           /\ balance[token] + (amount - ComputeProtocolDepositFee(amount)) <= balance'[token]
           /\ \A other \in Tokens \ {token} : balance'[other] = balance[other]
  <1> DEFINE fee == ComputeProtocolDepositFee(amount)
             held == balance[token] + amount
             after == AfterTransfer(held, feeReceiver, fee)
  <1>1. fee \in Nat /\ balance \in [Tokens -> Nat] /\ held \in Nat
    <2>1. fee \in Nat
      BY FeesAreNat
    <2>2. balance \in [Tokens -> Nat]
      BY DEF TypeOK
    <2> QED
      BY <2>1, <2>2
  <1>2. CanTransfer(held, token, feeReceiver, fee) /\ balance' = [balance EXCEPT ![token] = after]
    BY DEF PayIn
  <1> HIDE DEF fee, held, after
  <1>3. after \in Nat /\ held - fee <= after
    BY <1>1, <1>2, TransferTakes DEF after
  <1>4. /\ balance' \in [Tokens -> Nat]
        /\ balance'[token] = after
        /\ \A other \in Tokens \ {token} : balance'[other] = balance[other]
    BY <1>1, <1>2, <1>3
  <1>5. balance[token] \in Nat /\ held = balance[token] + amount
    BY <1>1 DEF held
  <1>6. balance[token] + (amount - fee) <= balance'[token]
    BY <1>1, <1>3, <1>4, <1>5
  <1> QED
    BY <1>4, <1>6 DEF fee

\* A withdrawal takes at most its amount from what the contract holds.
LEMMA PayOutTakes ==
    ASSUME TypeOK, NEW token \in Tokens, NEW amount \in Nat, NEW to, NEW relayer,
           NEW relayerFee \in Nat,
           relayerFee < amount - ComputeProtocolWithdrawFee(amount),
           PayOut(token, amount, to, relayer, relayerFee)
    PROVE  /\ balance' \in [Tokens -> Nat]
           /\ balance[token] - amount <= balance'[token]
           /\ \A other \in Tokens \ {token} : balance'[other] = balance[other]
  <1> DEFINE fee == ComputeProtocolWithdrawFee(amount)
             net == amount - fee - relayerFee
             held1 == AfterTransfer(balance[token], to, net)
             held2 == AfterTransfer(held1, feeReceiver, fee)
             held3 == AfterTransfer(held2, relayer, relayerFee)
  <1>1. fee \in Nat /\ net \in Nat
    <2>1. fee \in Nat /\ relayerFee < amount - fee
      BY FeesAreNat
    <2> HIDE DEF fee
    <2> QED
      BY <2>1
  <1>2. balance \in [Tokens -> Nat] /\ balance[token] \in Nat
    BY DEF TypeOK
  <1>3. /\ CanTransfer(balance[token], token, to, net)
        /\ CanTransfer(held1, token, feeReceiver, fee)
        /\ CanTransfer(held2, token, relayer, relayerFee)
        /\ balance' = [balance EXCEPT ![token] = held3]
    BY DEF PayOut, WithdrawTransfers
  <1>4. net = amount - fee - relayerFee
    OBVIOUS
  <1> HIDE DEF fee, net, held1, held2, held3
  <1>5. held1 \in Nat /\ balance[token] - net <= held1
    BY <1>1, <1>2, <1>3, TransferTakes DEF held1
  <1>6. held2 \in Nat /\ held1 - fee <= held2
    BY <1>1, <1>3, <1>5, TransferTakes DEF held2
  <1>7. held3 \in Nat /\ held2 - relayerFee <= held3
    BY <1>3, <1>6, TransferTakes DEF held3
  <1>8. balance[token] - amount <= held3
    BY <1>1, <1>2, <1>4, <1>5, <1>6, <1>7
  <1> QED
    BY <1>2, <1>3, <1>7, <1>8

-----------------------------------------------------------------------------
(* Type correctness and solvency are proved together: an amount fits its   *)
(* type because the notes are backed, and they stay backed because no      *)
(* amount wraps.  Solvency bounds a deposit (the limit is on what the      *)
(* contract holds), the sum in range bounds a withdrawal.                  *)

IInv == TypeOK /\ Solvency /\ SumOfBalancesInRange

\* What NewAccount, Deposit and Withdraw have in common.
LEMMA NoteAddedTypes ==
    ASSUME TypeOK, NEW newNote \in Note, NEW nullifier \in Field,
           NEW kind \in {"NewAccount", "Deposit", "Withdraw"}, NEW token \in Tokens,
           AddNote(newNote), RegisterNullifier(nullifier), Emit(kind, token, nullifier),
           balance' \in [Tokens -> Nat], UNCHANGED <<adminVars, block>>
    PROVE  /\ TypeOK'
           /\ BlockNumber + 1 \in Nat \ {0}
  <1>1. BlockNumber + 1 \in Nat \ {0}
    BY ConstantsAssumption DEF TypeOK, BlockNumber
  <1>2. notes' \in Seq(Note) /\ Len(notes') = Len(notes) + 1 /\ Len(notes) \in Nat
    BY DEF TypeOK, AddNote
  <1>3. merkleRoots' \subseteq 1..Len(notes')
    <2>1. merkleRoots \subseteq 1..Len(notes) /\ merkleRoots' = merkleRoots \cup {Len(notes) + 1}
      BY DEF TypeOK, AddNote
    <2>2. 1..Len(notes) \subseteq 1..Len(notes') /\ Len(notes) + 1 \in 1..Len(notes')
      BY <1>2
    <2> QED
      BY <2>1, <2>2
  <1>4. nullifiers' \in [Field -> Nat]
    BY <1>1 DEF TypeOK, RegisterNullifier
  <1>5. events' \in Seq(Event)
    <2>1. block.rpc \in Nat
      BY DEF TypeOK
    <2>2. [kind |-> kind, token |-> token, nullifier |-> nullifier, block |-> block.rpc] \in Event
      BY <2>1 DEF Event
    <2>3. events \in Seq(Event)
      BY DEF TypeOK
    <2> QED
      BY <2>2, <2>3 DEF Emit
  <1>6. UNCHANGED <<feeBps, feeReceiver, arPubkey, paused, owner, block>>
    BY DEF adminVars
  <1> QED
    BY <1>1, <1>2, <1>3, <1>4, <1>5, <1>6 DEF TypeOK

\* Opening an account preserves the invariant: the new note is worth what came
\* in less the fee, and the limit keeps the sum in range.
LEMMA NewAccountPreserves ==
    ASSUME IInv, NEW token \in Tokens, NEW amount \in Amounts, NEW newNote,
           NEW nullifier \in NoteNullifiers, NEW id \in Ids,
           newNote = FreshNote(id, nullifier, token, amount - ComputeProtocolDepositFee(amount)),
           NewAccount(token, amount, newNote, id)
    PROVE  /\ IInv'
           /\ newNote \in Note
           /\ newNote.balance = amount - ComputeProtocolDepositFee(amount)
           /\ amount - ComputeProtocolDepositFee(amount) \in 0..MAX_TRANSACTION_AMOUNT
  <1> DEFINE fee == ComputeProtocolDepositFee(amount)
  <1>1. TypeOK /\ Solvency /\ SumOfBalancesInRange
    BY DEF IInv
  <1>2. amount \in Nat /\ amount < FIELD_MODULUS
    BY ConstantsAssumption
  <1>3. fee \in Nat /\ fee <= amount
    BY <1>1, <1>2, FeesAreNat
  <1> HIDE DEF fee
  <1>4. newNote \in Note /\ newNote.token = token /\ newNote.balance = amount - fee
    <2>1. amount - fee \in FieldElement
      BY <1>2, <1>3, ConstantsAssumption DEF FieldElement
    <2> QED
      BY <2>1 DEF FreshNote, Note, Field, fee
  <1>5. /\ WithinContractLimit(token, amount)
        /\ AddNote(newNote)
        /\ RegisterNullifier(id)
        /\ PayIn(token, amount)
        /\ Emit("NewAccount", token, id)
        /\ UNCHANGED <<adminVars, block>>
    BY DEF NewAccount
  <1>6. id \in Field
    BY DEF Field
  <1>7. /\ balance' \in [Tokens -> Nat]
        /\ balance[token] + (amount - fee) <= balance'[token]
        /\ \A other \in Tokens \ {token} : balance'[other] = balance[other]
    BY <1>1, <1>2, <1>5, PayInKeeps DEF fee
  <1>8. TypeOK' /\ BlockNumber + 1 \in Nat \ {0}
    BY <1>1, <1>4, <1>5, <1>6, <1>7, NoteAddedTypes
  <1>9. /\ notes' = Append(notes, newNote)
        /\ nullifiers' = [nullifiers EXCEPT ![id] = BlockNumber + 1]
    BY <1>5 DEF AddNote, RegisterNullifier
  <1>10. /\ notes \in Seq(Note) /\ nullifiers \in [Field -> Nat]
         /\ balance \in [Tokens -> Nat]
    BY <1>1 DEF TypeOK
  <1>11. ASSUME NEW t \in Tokens
         PROVE  SpendableAtMost(notes', nullifiers', t, balance'[t])
    <2>1. SpendableAtMost(notes, nullifiers, t, balance[t])
      BY <1>1 DEF Solvency
    <2>2. balance[t] + (IF newNote.token = t THEN newNote.balance ELSE 0) <= balance'[t]
      BY <1>4, <1>7, <1>10
    <2>3. balance[t] \in Nat /\ balance'[t] \in Nat
      BY <1>7, <1>10
    <2> QED
      BY <2>1, <2>2, <2>3, <1>4, <1>6, <1>8, <1>9, <1>10, TotalAfterNewNote
  <1>12. ASSUME NEW t \in Tokens
         PROVE  SpendableAtMost(notes', nullifiers', t, MAX_TRANSACTION_AMOUNT)
    <2>1. CASE t = token
      <3>1. SpendableAtMost(notes, nullifiers, t, balance[t])
        BY <1>1 DEF Solvency
      <3>2. balance[t] \in Nat /\ MAX_TRANSACTION_AMOUNT \in Nat
        BY <1>10, ConstantsAssumption
      <3>3. balance[t] + amount <= MAX_TRANSACTION_AMOUNT
        BY <2>1, <1>5 DEF WithinContractLimit, MAX_CONTRACT_BALANCE
      <3>4. balance[t] + (amount - fee) <= MAX_TRANSACTION_AMOUNT
        BY <3>2, <3>3, <1>2, <1>3
      <3> QED
        BY <3>1, <3>2, <3>4, <2>1, <1>4, <1>6, <1>8, <1>9, <1>10, TotalAfterNewNote
    <2>2. CASE t # token
      <3>1. SpendableAtMost(notes, nullifiers, t, MAX_TRANSACTION_AMOUNT)
        BY <1>1 DEF SumOfBalancesInRange
      <3>2. MAX_TRANSACTION_AMOUNT \in Nat
        BY ConstantsAssumption
      <3>3. MAX_TRANSACTION_AMOUNT + (IF newNote.token = t THEN newNote.balance ELSE 0)
               <= MAX_TRANSACTION_AMOUNT
        BY <3>2, <2>2, <1>4
      <3> QED
        BY <3>1, <3>2, <3>3, <1>4, <1>6, <1>8, <1>9, <1>10, TotalAfterNewNote
    <2> QED
      BY <2>1, <2>2
  <1>13. amount - fee \in 0..MAX_TRANSACTION_AMOUNT
    <2>1. balance[token] \in Nat /\ balance[token] + amount <= MAX_TRANSACTION_AMOUNT
      BY <1>5, <1>10 DEF WithinContractLimit, MAX_CONTRACT_BALANCE
    <2> QED
      BY <2>1, <1>2, <1>3, ConstantsAssumption
  <1> QED
    BY <1>4, <1>8, <1>11, <1>12, <1>13 DEF IInv, Solvency, SumOfBalancesInRange, fee

\* A deposit preserves the invariant: no balance wraps in the field.
LEMMA DepositPreserves ==
    ASSUME IInv, NEW amount \in Amounts, NEW leaf \in 1..Len(notes), NEW newNote,
           NEW nullifier \in NoteNullifiers, NEW merkleRoot,
           newNote = FreshNote(notes[leaf].id, nullifier, notes[leaf].token,
                               FieldAdd(notes[leaf].balance,
                                        amount - ComputeProtocolDepositFee(amount))),
           Deposit(notes[leaf].token, amount, leaf, newNote, merkleRoot)
    PROVE  /\ IInv'
           /\ newNote \in Note
           /\ newNote.balance = notes[leaf].balance + (amount - ComputeProtocolDepositFee(amount))
           /\ amount - ComputeProtocolDepositFee(amount) \in 0..MAX_TRANSACTION_AMOUNT
  <1> DEFINE fee == ComputeProtocolDepositFee(amount)
             token == notes[leaf].token
             old == notes[leaf].balance
             spent == notes[leaf].nullifier
  <1>1. TypeOK /\ Solvency /\ SumOfBalancesInRange
    BY DEF IInv
  <1>2. amount \in Nat
    BY ConstantsAssumption
  <1>3. fee \in Nat /\ fee <= amount
    BY <1>1, <1>2, FeesAreNat
  <1>4. /\ notes \in Seq(Note) /\ nullifiers \in [Field -> Nat]
        /\ balance \in [Tokens -> Nat]
    BY <1>1 DEF TypeOK
  <1>5. notes[leaf] \in Note
    BY <1>4
  <1>6. token \in Tokens /\ old \in Nat /\ spent \in Field /\ notes[leaf].id \in Ids
    BY <1>5, NoteFields
  <1>7. /\ WithinContractLimit(token, amount)
        /\ nullifiers[spent] = 0
        /\ AddNote(newNote)
        /\ RegisterNullifier(spent)
        /\ PayIn(token, amount)
        /\ Emit("Deposit", token, spent)
        /\ UNCHANGED <<adminVars, block>>
    BY DEF Deposit, DepositChecks
  <1>8. newNote = FreshNote(notes[leaf].id, nullifier, token, FieldAdd(old, amount - fee))
    OBVIOUS
  <1> HIDE DEF fee, token, old, spent
  <1>9. SpendableAtMost(notes, nullifiers, token, balance[token]) /\ balance[token] \in Nat
    BY <1>1, <1>4, <1>6 DEF Solvency
  <1>10. old <= balance[token]
    BY <1>4, <1>6, <1>7, <1>9, OneWithinTotal DEF old, token, spent
  <1>11. balance[token] + amount <= MAX_TRANSACTION_AMOUNT
    BY <1>7 DEF WithinContractLimit, MAX_CONTRACT_BALANCE
  <1>12. MAX_TRANSACTION_AMOUNT \in Nat /\ FIELD_MODULUS \in Nat
         /\ MAX_TRANSACTION_AMOUNT < FIELD_MODULUS
    BY ConstantsAssumption
  <1>13. old + (amount - fee) < FIELD_MODULUS
    BY <1>2, <1>3, <1>6, <1>9, <1>10, <1>11, <1>12
  <1>14. FieldAdd(old, amount - fee) = old + (amount - fee)
    BY <1>13 DEF FieldAdd
  <1>15. newNote \in Note /\ newNote.token = token /\ newNote.balance = old + (amount - fee)
    <2>1. old + (amount - fee) \in FieldElement
      BY <1>2, <1>3, <1>6, <1>12, <1>13 DEF FieldElement
    <2> QED
      BY <2>1, <1>6, <1>8, <1>14 DEF FreshNote, Note, Field
  <1>16. /\ balance' \in [Tokens -> Nat]
         /\ balance[token] + (amount - fee) <= balance'[token]
         /\ \A other \in Tokens \ {token} : balance'[other] = balance[other]
    BY <1>1, <1>2, <1>6, <1>7, PayInKeeps DEF fee
  <1>17. TypeOK' /\ BlockNumber + 1 \in Nat \ {0}
    BY <1>1, <1>6, <1>7, <1>15, <1>16, NoteAddedTypes
  <1>18. /\ notes' = Append(notes, newNote)
         /\ nullifiers' = [nullifiers EXCEPT ![spent] = BlockNumber + 1]
    BY <1>7 DEF AddNote, RegisterNullifier
  <1>19. notes[leaf].token = token /\ notes[leaf].balance = old /\ notes[leaf].nullifier = spent
    BY DEF token, old, spent
  <1>20. ASSUME NEW bound \in Nat, balance[token] + (amount - fee) <= bound
         PROVE  SpendableAtMost(notes', nullifiers', token, bound)
    <2>1. balance[token] - old + newNote.balance <= bound
      BY <1>2, <1>3, <1>6, <1>9, <1>15, <1>20
    <2> QED
      BY <2>1, <1>4, <1>6, <1>7, <1>9, <1>15, <1>17, <1>18, <1>19, TotalAfterSpend
  <1>21. ASSUME NEW t \in Tokens \ {token}, NEW bound \in Nat,
                SpendableAtMost(notes, nullifiers, t, bound)
         PROVE  SpendableAtMost(notes', nullifiers', t, bound)
    <2>1. bound + (IF newNote.token = t THEN newNote.balance ELSE 0) <= bound
      BY <1>15
    <2> QED
      BY <2>1, <1>4, <1>6, <1>15, <1>17, <1>18, <1>21, TotalAfterNewNote
  <1>22. Solvency'
    <2>1. ASSUME NEW t \in Tokens
          PROVE  SpendableAtMost(notes', nullifiers', t, balance'[t])
      <3>1. balance'[t] \in Nat
        BY <1>16
      <3>2. CASE t = token
        BY <3>1, <3>2, <1>16, <1>20
      <3>3. CASE t # token
        <4>1. SpendableAtMost(notes, nullifiers, t, balance[t]) /\ balance'[t] = balance[t]
          BY <3>3, <1>1, <1>16 DEF Solvency
        <4> QED
          BY <4>1, <3>1, <3>3, <1>21
      <3> QED
        BY <3>2, <3>3
    <2> QED
      BY <2>1 DEF Solvency
  <1>23. SumOfBalancesInRange'
    <2>1. ASSUME NEW t \in Tokens
          PROVE  SpendableAtMost(notes', nullifiers', t, MAX_TRANSACTION_AMOUNT)
      <3>1. CASE t = token
        <4>1. balance[token] + (amount - fee) <= MAX_TRANSACTION_AMOUNT
          BY <1>2, <1>3, <1>9, <1>11, <1>12
        <4> QED
          BY <4>1, <3>1, <1>12, <1>20
      <3>2. CASE t # token
        <4>1. SpendableAtMost(notes, nullifiers, t, MAX_TRANSACTION_AMOUNT)
          BY <1>1 DEF SumOfBalancesInRange
        <4> QED
          BY <4>1, <3>2, <1>12, <1>21
      <3> QED
        BY <3>1, <3>2
    <2> QED
      BY <2>1 DEF SumOfBalancesInRange
  <1>24. amount - fee \in 0..MAX_TRANSACTION_AMOUNT
    BY <1>2, <1>3, <1>9, <1>11, <1>12
  <1> QED
    BY <1>15, <1>17, <1>19, <1>22, <1>23, <1>24 DEF IInv, fee

\* In the field of the circuits a withdrawal cannot take more than is there:
\* the wrapped difference would fail the range check.
LEMMA NoWrapBelowZero ==
    ASSUME NEW old \in Nat, NEW amount \in Nat,
           old <= MAX_TRANSACTION_AMOUNT, amount <= MAX_TRANSACTION_AMOUNT,
           InRange(FieldSub(old, amount))
    PROVE  amount <= old /\ FieldSub(old, amount) = old - amount
  BY ConstantsAssumption DEF InRange, FieldSub

\* A withdrawal preserves the invariant and takes no more than the note holds.
LEMMA WithdrawPreserves ==
    ASSUME IInv, NEW amount \in Amounts, NEW leaf \in 1..Len(notes), NEW newNote,
           NEW nullifier \in NoteNullifiers, NEW merkleRoot,
           NEW to, NEW relayer, NEW relayerFee \in RelayerFees,
           newNote = FreshNote(notes[leaf].id, nullifier, notes[leaf].token,
                               FieldSub(notes[leaf].balance, amount)),
           Withdraw(notes[leaf].token, amount, to, relayer, relayerFee, leaf, newNote,
                    merkleRoot)
    PROVE  /\ IInv'
           /\ newNote \in Note
           /\ newNote.balance = notes[leaf].balance - amount
           /\ amount <= notes[leaf].balance
           /\ amount \in 0..MAX_TRANSACTION_AMOUNT
  <1> DEFINE token == notes[leaf].token
             old == notes[leaf].balance
             spent == notes[leaf].nullifier
  <1>1. TypeOK /\ Solvency /\ SumOfBalancesInRange
    BY DEF IInv
  <1>2. amount \in Nat /\ relayerFee \in Nat
    BY ConstantsAssumption
  <1>3. /\ notes \in Seq(Note) /\ nullifiers \in [Field -> Nat]
        /\ balance \in [Tokens -> Nat]
    BY <1>1 DEF TypeOK
  <1>4. notes[leaf] \in Note
    BY <1>3
  <1>5. token \in Tokens /\ old \in Nat /\ spent \in Field /\ notes[leaf].id \in Ids
    BY <1>4, NoteFields
  <1>6. /\ WithdrawChecks(token, amount, relayerFee, leaf, spent, newNote, merkleRoot)
        /\ AddNote(newNote)
        /\ RegisterNullifier(spent)
        /\ PayOut(token, amount, to, relayer, relayerFee)
        /\ Emit("Withdraw", token, spent)
        /\ UNCHANGED <<adminVars, block>>
    BY DEF Withdraw
  <1>7. newNote = FreshNote(notes[leaf].id, nullifier, token, FieldSub(old, amount))
    OBVIOUS
  <1> HIDE DEF token, old, spent
  <1>8. /\ nullifiers[spent] = 0
        /\ amount <= MAX_TRANSACTION_AMOUNT
        /\ relayerFee < amount - ComputeProtocolWithdrawFee(amount)
        /\ InRange(newNote.balance)
    <2>1. ComputeProtocolWithdrawFee(amount) \in Nat
      BY <1>1, <1>2, FeesAreNat
    <2> QED
      BY <2>1, <1>2, <1>6 DEF WithdrawChecks, WithdrawRelation
  <1>9. MAX_TRANSACTION_AMOUNT \in Nat /\ MAX_TRANSACTION_AMOUNT < FIELD_MODULUS
        /\ FIELD_MODULUS \in Nat
    BY ConstantsAssumption
  <1>10. notes[leaf].token = token /\ notes[leaf].balance = old /\ notes[leaf].nullifier = spent
    BY DEF token, old, spent
  <1>11. SpendableAtMost(notes, nullifiers, token, MAX_TRANSACTION_AMOUNT)
    BY <1>1, <1>5 DEF SumOfBalancesInRange
  <1>12. old <= MAX_TRANSACTION_AMOUNT
    BY <1>3, <1>5, <1>8, <1>9, <1>10, <1>11, OneWithinTotal
  <1>13. newNote.balance = FieldSub(old, amount)
    BY <1>7 DEF FreshNote
  <1>14. amount <= old /\ newNote.balance = old - amount
    BY <1>2, <1>5, <1>8, <1>12, <1>13, NoWrapBelowZero
  <1>15. newNote \in Note /\ newNote.token = token
    <2>1. FieldSub(old, amount) = old - amount /\ old - amount \in FieldElement
      BY <1>2, <1>5, <1>9, <1>12, <1>13, <1>14 DEF FieldElement
    <2> QED
      BY <2>1, <1>5, <1>7 DEF FreshNote, Note, Field
  <1>16. /\ balance' \in [Tokens -> Nat]
         /\ balance[token] - amount <= balance'[token]
         /\ \A other \in Tokens \ {token} : balance'[other] = balance[other]
    BY <1>1, <1>2, <1>5, <1>6, <1>8, PayOutTakes
  <1>17. TypeOK' /\ BlockNumber + 1 \in Nat \ {0}
    BY <1>1, <1>5, <1>6, <1>15, <1>16, NoteAddedTypes
  <1>18. /\ notes' = Append(notes, newNote)
         /\ nullifiers' = [nullifiers EXCEPT ![spent] = BlockNumber + 1]
    BY <1>6 DEF AddNote, RegisterNullifier
  <1>19. ASSUME NEW bound \in Nat, NEW newBound \in Nat, bound - amount <= newBound,
                SpendableAtMost(notes, nullifiers, token, bound)
         PROVE  SpendableAtMost(notes', nullifiers', token, newBound)
    <2>1. bound - old + newNote.balance <= newBound
      BY <1>2, <1>5, <1>14, <1>19
    <2> QED
      BY <2>1, <1>3, <1>5, <1>8, <1>10, <1>15, <1>17, <1>18, <1>19, TotalAfterSpend
  <1>20. ASSUME NEW t \in Tokens \ {token}, NEW bound \in Nat,
                SpendableAtMost(notes, nullifiers, t, bound)
         PROVE  SpendableAtMost(notes', nullifiers', t, bound)
    <2>1. bound + (IF newNote.token = t THEN newNote.balance ELSE 0) <= bound
      BY <1>15
    <2> QED
      BY <2>1, <1>3, <1>5, <1>15, <1>17, <1>18, <1>20, TotalAfterNewNote
  <1>21. Solvency'
    <2>1. ASSUME NEW t \in Tokens
          PROVE  SpendableAtMost(notes', nullifiers', t, balance'[t])
      <3>1. balance'[t] \in Nat /\ balance[t] \in Nat
        BY <1>3, <1>16
      <3>2. SpendableAtMost(notes, nullifiers, t, balance[t])
        BY <1>1 DEF Solvency
      <3>3. CASE t = token
        BY <3>1, <3>2, <3>3, <1>16, <1>19
      <3>4. CASE t # token
        BY <3>1, <3>2, <3>4, <1>16, <1>20
      <3> QED
        BY <3>3, <3>4
    <2> QED
      BY <2>1 DEF Solvency
  <1>22. SumOfBalancesInRange'
    <2>1. ASSUME NEW t \in Tokens
          PROVE  SpendableAtMost(notes', nullifiers', t, MAX_TRANSACTION_AMOUNT)
      <3>1. SpendableAtMost(notes, nullifiers, t, MAX_TRANSACTION_AMOUNT)
        BY <1>1 DEF SumOfBalancesInRange
      <3>2. MAX_TRANSACTION_AMOUNT - amount <= MAX_TRANSACTION_AMOUNT
        BY <1>2, <1>9
      <3>3. CASE t = token
        BY <3>1, <3>2, <3>3, <1>9, <1>19
      <3>4. CASE t # token
        BY <3>1, <3>4, <1>9, <1>20
      <3> QED
        BY <3>3, <3>4
    <2> QED
      BY <2>1 DEF SumOfBalancesInRange
  <1> QED
    BY <1>2, <1>8, <1>9, <1>10, <1>14, <1>15, <1>17, <1>21, <1>22 DEF IInv

\* The other steps leave the notes alone and take nothing.
LEMMA OtherStepsPreserve ==
    ASSUME IInv, UNCHANGED <<notes, nullifiers>>, TypeOK',
           \A token \in Tokens : balance[token] <= balance'[token]
    PROVE  IInv'
  <1>1. TypeOK /\ Solvency /\ SumOfBalancesInRange
    BY DEF IInv
  <1>2. ASSUME NEW token \in Tokens
        PROVE  SpendableAtMost(notes', nullifiers', token, balance'[token])
    <2>1. SpendableAtMost(notes, nullifiers, token, balance[token])
      BY <1>1 DEF Solvency
    <2>2. PICK total \in [0..Len(notes) -> 0..balance[token]] :
             RunningTotal(total, notes, nullifiers, token)
      BY <2>1 DEF SpendableAtMost
    <2>3. balance[token] \in Nat /\ balance'[token] \in Nat /\ balance[token] <= balance'[token]
      BY <1>1 DEF TypeOK
    <2>4. total \in [0..Len(notes) -> 0..balance'[token]]
      BY <2>3
    <2> QED
      BY <2>2, <2>4 DEF SpendableAtMost
  <1>3. SumOfBalancesInRange'
    BY <1>1 DEF SumOfBalancesInRange
  <1> QED
    BY <1>2, <1>3 DEF IInv, Solvency

-----------------------------------------------------------------------------
(* All steps. *)

IsNewAccount(token, amount, id, nullifier) ==
    NewAccount(token, amount,
               FreshNote(id, nullifier, token, amount - ComputeProtocolDepositFee(amount)), id)

IsDeposit(amount, leaf, nullifier, merkleRoot) ==
    Deposit(notes[leaf].token, amount, leaf,
            FreshNote(notes[leaf].id, nullifier, notes[leaf].token,
                      FieldAdd(notes[leaf].balance, amount - ComputeProtocolDepositFee(amount))),
            merkleRoot)

IsWithdraw(amount, to, relayer, relayerFee, leaf, nullifier, merkleRoot) ==
    Withdraw(notes[leaf].token, amount, to, relayer, relayerFee, leaf,
             FreshNote(notes[leaf].id, nullifier, notes[leaf].token,
                       FieldSub(notes[leaf].balance, amount)),
             merkleRoot)

\* The native and the ERC20 entry points come down to one operation each.
LEMMA NewAccountCallIs ==
    ASSUME NewAccountCall
    PROVE  \E token \in Tokens, amount \in Amounts, id \in Ids, nullifier \in NoteNullifiers :
              IsNewAccount(token, amount, id, nullifier)
  BY DEF NewAccountCall, newAccountNative, newAccountERC20, IsNewAccount

\* The same of deposits.
LEMMA DepositCallIs ==
    ASSUME DepositCall
    PROVE  \E amount \in Amounts, leaf \in 1..Len(notes), nullifier \in NoteNullifiers,
              merkleRoot \in merkleRoots : IsDeposit(amount, leaf, nullifier, merkleRoot)
  BY DEF DepositCall, depositNative, depositERC20, IsDeposit

\* The same of withdrawals.
LEMMA WithdrawCallIs ==
    ASSUME WithdrawCall
    PROVE  \E amount \in Amounts, to \in Recipients, relayer \in Recipients,
              relayerFee \in RelayerFees, leaf \in 1..Len(notes),
              nullifier \in NoteNullifiers, merkleRoot \in merkleRoots :
              IsWithdraw(amount, to, relayer, relayerFee, leaf, nullifier, merkleRoot)
  BY DEF WithdrawCall, withdrawNative, withdrawERC20, IsWithdraw

\* What the owner, the miners and the donors do touches no note, no nullifier
\* and no event, and takes nothing out of the contract.
LEMMA QuietSteps ==
    ASSUME TypeOK,
           \/ OwnerCall
           \/ MineBlock
           \/ \E token \in Tokens, amount \in Donations : Donate(token, amount)
           \/ UNCHANGED vars
    PROVE  /\ TypeOK'
           /\ UNCHANGED <<notes, merkleRoots, nullifiers, events>>
           /\ \A token \in Tokens : balance[token] <= balance'[token]
  <1>0. \A token \in Tokens : balance[token] \in Nat
    BY DEF TypeOK
  <1>1. CASE OwnerCall
    <2> PICK caller \in Owners :
           \/ pause(caller)
           \/ unpause(caller)
           \/ \E receiver \in Recipients : setProtocolFeeReceiver(caller, receiver)
           \/ \E bps \in 0..MAX_BPS : setProtocolDepositFeeBps(caller, bps)
           \/ \E bps \in 0..MAX_BPS : setProtocolWithdrawFeeBps(caller, bps)
           \/ \E pubkey \in ARPubkeys : setAnonymityRevokerPubkey(caller, pubkey)
           \/ \E newOwner \in Owners : transferOwnership(caller, newOwner)
           \/ acceptOwnership(caller)
      BY <1>1 DEF OwnerCall
    <2>0. SUFFICES /\ feeBps' \in [deposit : 0..MAX_FEE_BPS, withdraw : 0..MAX_FEE_BPS]
                   /\ feeReceiver' \in Addresses
                   /\ arPubkey' \in ARPubkeys
                   /\ paused' \in BOOLEAN
                   /\ owner' \in [owner : Owners, pending : Owners \cup {NoPending}]
                   /\ UNCHANGED <<notes, merkleRoots, nullifiers, balance, events, block>>
      BY <1>0 DEF TypeOK
    <2>1. CASE pause(caller)
      BY <2>1 DEF TypeOK, pause, coreVars
    <2>2. CASE unpause(caller)
      BY <2>2 DEF TypeOK, unpause, coreVars
    <2>3. CASE \E receiver \in Recipients : setProtocolFeeReceiver(caller, receiver)
      BY <2>3, ConstantsAssumption DEF TypeOK, setProtocolFeeReceiver, coreVars
    <2>4. CASE \E bps \in 0..MAX_BPS : setProtocolDepositFeeBps(caller, bps)
      <3> PICK bps \in 0..MAX_BPS : setProtocolDepositFeeBps(caller, bps)
        BY <2>4
      <3>1. bps \in 0..MAX_FEE_BPS /\ feeBps' = [feeBps EXCEPT !.deposit = bps]
        BY ConstantsAssumption DEF setProtocolDepositFeeBps
      <3>2. feeBps' \in [deposit : 0..MAX_FEE_BPS, withdraw : 0..MAX_FEE_BPS]
        BY <3>1 DEF TypeOK
      <3> QED
        BY <3>2 DEF TypeOK, setProtocolDepositFeeBps, coreVars
    <2>5. CASE \E bps \in 0..MAX_BPS : setProtocolWithdrawFeeBps(caller, bps)
      <3> PICK bps \in 0..MAX_BPS : setProtocolWithdrawFeeBps(caller, bps)
        BY <2>5
      <3>1. bps \in 0..MAX_FEE_BPS /\ feeBps' = [feeBps EXCEPT !.withdraw = bps]
        BY ConstantsAssumption DEF setProtocolWithdrawFeeBps
      <3>2. feeBps' \in [deposit : 0..MAX_FEE_BPS, withdraw : 0..MAX_FEE_BPS]
        BY <3>1 DEF TypeOK
      <3> QED
        BY <3>2 DEF TypeOK, setProtocolWithdrawFeeBps, coreVars
    <2>6. CASE \E pubkey \in ARPubkeys : setAnonymityRevokerPubkey(caller, pubkey)
      BY <2>6 DEF TypeOK, setAnonymityRevokerPubkey, coreVars
    <2>7. CASE \E newOwner \in Owners : transferOwnership(caller, newOwner)
      BY <2>7 DEF TypeOK, transferOwnership, coreVars
    <2>8. CASE acceptOwnership(caller)
      BY <2>8 DEF TypeOK, acceptOwnership, coreVars
    <2> QED
      BY <2>1, <2>2, <2>3, <2>4, <2>5, <2>6, <2>7, <2>8
  <1>2. CASE MineBlock
    <2>1. block' \in [rpc : Nat, evm : Nat]
      BY <1>2 DEF MineBlock, TypeOK
    <2> QED
      BY <1>0, <1>2, <2>1 DEF MineBlock, TypeOK, coreVars, adminVars
  <1>3. CASE \E token \in Tokens, amount \in Donations : Donate(token, amount)
    <2> PICK token \in Tokens, amount \in Donations : Donate(token, amount)
      BY <1>3
    <2>1. amount \in Nat
      BY ConstantsAssumption
    <2>2. balance \in [Tokens -> Nat] /\ balance' = [balance EXCEPT ![token] = @ + amount]
      BY DEF Donate, TypeOK
    <2>3. balance' \in [Tokens -> Nat] /\ \A t \in Tokens : balance[t] <= balance'[t]
      BY <2>1, <2>2
    <2>4. UNCHANGED <<notes, merkleRoots, nullifiers, events, feeBps, feeReceiver,
                      arPubkey, paused, owner, block>>
      BY DEF Donate, adminVars
    <2> QED
      BY <2>3, <2>4 DEF TypeOK
  <1>4. CASE UNCHANGED vars
    BY <1>0, <1>4 DEF TypeOK, vars, coreVars, adminVars
  <1> QED
    BY <1>1, <1>2, <1>3, <1>4

\* The invariant holds of the freshly initialised contract.
LEMMA InitEstablishes ==
    ASSUME Init
    PROVE  IInv
  <1>1. TypeOK
    BY ConstantsAssumption DEF Init, TypeOK
  <1>2. ASSUME NEW token \in Tokens, NEW bound \in Nat
        PROVE  SpendableAtMost(notes, nullifiers, token, bound)
    <2> DEFINE total == [k \in 0..0 |-> 0]
    <2>1. Len(notes) = 0
      BY DEF Init
    <2>2. total \in [0..Len(notes) -> 0..bound]
      BY <2>1
    <2>3. RunningTotal(total, notes, nullifiers, token)
      BY <2>1 DEF RunningTotal
    <2> QED
      BY <2>2, <2>3 DEF SpendableAtMost
  <1>3. Solvency
    <2>1. \A token \in Tokens : balance[token] \in Nat
      BY <1>1 DEF TypeOK
    <2> QED
      BY <1>2, <2>1 DEF Solvency
  <1>4. SumOfBalancesInRange
    BY <1>2, ConstantsAssumption DEF SumOfBalancesInRange
  <1> QED
    BY <1>1, <1>3, <1>4 DEF IInv

\* Every step preserves the invariant.
LEMMA NextPreserves ==
    ASSUME IInv, [Next]_vars
    PROVE  IInv'
  <1>1. CASE NewAccountCall
    BY <1>1, NewAccountCallIs, NewAccountPreserves DEF IsNewAccount
  <1>2. CASE DepositCall
    BY <1>2, DepositCallIs, DepositPreserves DEF IsDeposit
  <1>3. CASE WithdrawCall
    BY <1>3, WithdrawCallIs, WithdrawPreserves DEF IsWithdraw
  <1>4. CASE \/ OwnerCall
             \/ MineBlock
             \/ \E token \in Tokens, amount \in Donations : Donate(token, amount)
             \/ UNCHANGED vars
    <2>1. TypeOK
      BY DEF IInv
    <2>2. TypeOK' /\ UNCHANGED <<notes, nullifiers>>
          /\ \A token \in Tokens : balance[token] <= balance'[token]
      BY <2>1, <1>4, QuietSteps
    <2> QED
      BY <2>2, OtherStepsPreserve
  <1> QED
    BY <1>1, <1>2, <1>3, <1>4 DEF Next

\* The invariant is one of the specification.
LEMMA Invariance == Spec => []IInv
  <1>1. Init => IInv
    BY InitEstablishes
  <1>2. IInv /\ [Next]_vars => IInv'
    BY NextPreserves
  <1> QED
    BY <1>1, <1>2, PTL DEF Spec

\* Every state of the contract is well typed: no subtraction in the balance of
\* a note or of the contract goes below zero.
THEOREM TypeCorrect == Spec => []TypeOK
  <1>1. IInv => TypeOK
    BY DEF IInv
  <1> QED
    BY <1>1, Invariance, PTL

\* The contract can always pay every unspent note, for any number of leaves,
\* accounts, tokens and callers, any amounts and any fees up to MAX_FEE_BPS.
THEOREM Solvent == Spec => []Solvency
  <1>1. IInv => Solvency
    BY DEF IInv
  <1> QED
    BY <1>1, Invariance, PTL

\* The comment on MAX_CONTRACT_BALANCE is right: limiting the balance of the
\* contract limits the sum of the shielded balances of a token.
THEOREM SumInRange == Spec => []SumOfBalancesInRange
  <1>1. IInv => SumOfBalancesInRange
    BY DEF IInv
  <1> QED
    BY <1>1, Invariance, PTL

-----------------------------------------------------------------------------
(* Nullifiers and the log. *)

\* A step that adds a note, as far as nullifiers and the log go.
Operation(kind, token, newNote, nullifier) ==
    /\ ~paused
    /\ nullifiers[nullifier] = 0
    /\ AddNote(newNote)
    /\ RegisterNullifier(nullifier)
    /\ Emit(kind, token, nullifier)
    /\ UNCHANGED block

\* Every step is an operation that uses up a fresh nullifier or leaves notes,
\* nullifiers and log alone and takes nothing.
LEMMA StepShape ==
    ASSUME IInv, [Next]_vars
    PROVE  \/ \E kind \in {"NewAccount", "Deposit", "Withdraw"}, token \in Tokens,
                 newNote \in Note, nullifier \in Field :
                 Operation(kind, token, newNote, nullifier)
           \/ /\ UNCHANGED <<notes, merkleRoots, nullifiers, events>>
              /\ \A token \in Tokens : balance[token] <= balance'[token]
  <1>0. notes \in Seq(Note) /\ TypeOK
    BY DEF IInv, TypeOK
  <1>1. CASE NewAccountCall
    <2> PICK token \in Tokens, amount \in Amounts, id \in Ids, nullifier \in NoteNullifiers :
           IsNewAccount(token, amount, id, nullifier)
      BY <1>1, NewAccountCallIs
    <2> DEFINE newNote == FreshNote(id, nullifier, token, amount - ComputeProtocolDepositFee(amount))
    <2>1. NewAccount(token, amount, newNote, id)
      BY DEF IsNewAccount
    <2>2. newNote \in Note
      BY <2>1, NewAccountPreserves
    <2>3. id \in Field
      BY DEF Field
    <2> HIDE DEF newNote
    <2>4. Operation("NewAccount", token, newNote, id)
      BY <2>1 DEF NewAccount, NewAccountChecks, Operation
    <2> QED
      BY <2>2, <2>3, <2>4
  <1>2. CASE DepositCall
    <2> PICK amount \in Amounts, leaf \in 1..Len(notes), nullifier \in NoteNullifiers,
             merkleRoot \in merkleRoots : IsDeposit(amount, leaf, nullifier, merkleRoot)
      BY <1>2, DepositCallIs
    <2> DEFINE newNote == FreshNote(notes[leaf].id, nullifier, notes[leaf].token,
                              FieldAdd(notes[leaf].balance,
                                       amount - ComputeProtocolDepositFee(amount)))
    <2>1. Deposit(notes[leaf].token, amount, leaf, newNote, merkleRoot)
      BY DEF IsDeposit
    <2>2. newNote \in Note
      BY <2>1, DepositPreserves
    <2>3. notes[leaf].nullifier \in Field /\ notes[leaf].token \in Tokens
      BY <1>0, NoteFields
    <2> HIDE DEF newNote
    <2>4. Operation("Deposit", notes[leaf].token, newNote, notes[leaf].nullifier)
      BY <2>1 DEF Deposit, DepositChecks, Operation
    <2> QED
      BY <2>2, <2>3, <2>4
  <1>3. CASE WithdrawCall
    <2> PICK amount \in Amounts, to \in Recipients, relayer \in Recipients,
             relayerFee \in RelayerFees, leaf \in 1..Len(notes),
             nullifier \in NoteNullifiers, merkleRoot \in merkleRoots :
             IsWithdraw(amount, to, relayer, relayerFee, leaf, nullifier, merkleRoot)
      BY <1>3, WithdrawCallIs
    <2> DEFINE newNote == FreshNote(notes[leaf].id, nullifier, notes[leaf].token,
                                    FieldSub(notes[leaf].balance, amount))
    <2>1. Withdraw(notes[leaf].token, amount, to, relayer, relayerFee, leaf, newNote, merkleRoot)
      BY DEF IsWithdraw
    <2>2. newNote \in Note
      BY <2>1, WithdrawPreserves
    <2>3. notes[leaf].nullifier \in Field /\ notes[leaf].token \in Tokens
      BY <1>0, NoteFields
    <2> HIDE DEF newNote
    <2>4. Operation("Withdraw", notes[leaf].token, newNote, notes[leaf].nullifier)
      BY <2>1 DEF Withdraw, WithdrawChecks, Operation
    <2> QED
      BY <2>2, <2>3, <2>4
  <1>4. CASE \/ OwnerCall
             \/ MineBlock
             \/ \E token \in Tokens, amount \in Donations : Donate(token, amount)
             \/ UNCHANGED vars
    BY <1>0, <1>4, QuietSteps
  <1> QED
    BY <1>1, <1>2, <1>3, <1>4 DEF Next

\* What an operation does to the nullifiers.
LEMMA OperationRegisters ==
    ASSUME TypeOK, NEW kind, NEW token, NEW newNote, NEW nullifier \in Field,
           Operation(kind, token, newNote, nullifier)
    PROVE  /\ nullifiers' = [nullifiers EXCEPT ![nullifier] = BlockNumber + 1]
           /\ nullifiers[nullifier] = 0
           /\ nullifiers'[nullifier] = BlockNumber + 1
           /\ BlockNumber + 1 # 0
           /\ \A n \in Field \ {nullifier} : nullifiers'[n] = nullifiers[n]
  <1>1. BlockNumber + 1 # 0
    BY ConstantsAssumption DEF TypeOK, BlockNumber
  <1>2. nullifiers \in [Field -> Nat]
    BY DEF TypeOK
  <1> QED
    BY <1>1, <1>2 DEF Operation, RegisterNullifier

\* Nothing is spent twice: a registered nullifier keeps its block.
THEOREM WrittenOnce == Spec => NullifiersWriteOnce
  <1>1. ASSUME IInv, [Next]_vars
        PROVE  \A n \in Field : nullifiers[n] # 0 => nullifiers'[n] = nullifiers[n]
    <2>1. TypeOK
      BY <1>1 DEF IInv
    <2> QED
      BY <1>1, <2>1, StepShape, OperationRegisters
  <1>2. IInv /\ [Next]_vars
           => [\A n \in Field : nullifiers[n] # 0 => nullifiers'[n] = nullifiers[n]]_vars
    BY <1>1
  <1> QED
    BY <1>2, Invariance, PTL DEF Spec, NullifiersWriteOnce

\* A paused contract keeps its notes, nullifiers and log, and its tokens.
THEOREM PauseHolds == Spec => PausedMovesNothing
  <1>1. ASSUME IInv, [Next]_vars, paused
        PROVE  /\ UNCHANGED <<notes, merkleRoots, nullifiers, events>>
               /\ \A token \in Tokens : balance'[token] >= balance[token]
    BY <1>1, StepShape DEF Operation
  <1>2. IInv /\ [Next]_vars
           => [paused => /\ UNCHANGED <<notes, merkleRoots, nullifiers, events>>
                         /\ \A token \in Tokens : balance'[token] >= balance[token]]_vars
    BY <1>1
  <1> QED
    BY <1>2, Invariance, PTL DEF Spec, PausedMovesNothing

\* The registered nullifiers, and the invariant that counts them.
Registered == {n \in Field : nullifiers[n] # 0}
CountInv == IsFiniteSet(Registered) /\ OneNullifierPerNote

\* Every leaf was paid for with one nullifier of its own.
THEOREM NullifiersCount == Spec => []OneNullifierPerNote
  <1>1. Init => CountInv
    <2> SUFFICES ASSUME Init PROVE CountInv
      OBVIOUS
    <2>1. Registered = {} /\ Len(notes) = 0
      BY DEF Init, Registered
    <2> QED
      BY <2>1, FS_EmptySet DEF CountInv, OneNullifierPerNote, Registered
  <1>2. IInv /\ CountInv /\ [Next]_vars => CountInv'
    <2> SUFFICES ASSUME IInv, CountInv, [Next]_vars PROVE CountInv'
      OBVIOUS
    <2>0. TypeOK /\ notes \in Seq(Note)
      BY DEF IInv, TypeOK
    <2>1. CASE UNCHANGED <<notes, nullifiers>>
      <3>1. Registered' = Registered
        BY <2>1 DEF Registered
      <3> QED
        BY <2>1, <3>1 DEF CountInv, OneNullifierPerNote, Registered
    <2>2. CASE \E kind \in {"NewAccount", "Deposit", "Withdraw"}, token \in Tokens,
                  newNote \in Note, nullifier \in Field :
                  Operation(kind, token, newNote, nullifier)
      <3> PICK kind \in {"NewAccount", "Deposit", "Withdraw"}, token \in Tokens,
               newNote \in Note, nullifier \in Field :
               Operation(kind, token, newNote, nullifier)
        BY <2>2
      <3>1. Registered' = Registered \cup {nullifier} /\ nullifier \notin Registered
        BY <2>0, OperationRegisters DEF Registered
      <3>2. IsFiniteSet(Registered) /\ Cardinality(Registered) = Len(notes)
        BY DEF CountInv, OneNullifierPerNote, Registered
      <3>3. IsFiniteSet(Registered') /\ Cardinality(Registered') = Len(notes) + 1
        BY <3>1, <3>2, FS_AddElement
      <3>4. Len(notes') = Len(notes) + 1
        BY <2>0 DEF Operation, AddNote
      <3> QED
        BY <3>3, <3>4 DEF CountInv, OneNullifierPerNote, Registered
    <2> QED
      BY <2>1, <2>2, StepShape
  <1>3. CountInv => OneNullifierPerNote
    BY DEF CountInv
  <1> QED
    BY <1>1, <1>2, <1>3, Invariance, PTL DEF Spec

\* Off Arbitrum the two block numbers agree.
BlocksAgree == ~IsArbitrumChain => block.evm = block.rpc
LogInv == BlocksAgree /\ NullifierBlockHoldsItsEvent

\* The block stored with a nullifier is the one whose log holds its event.
THEOREM BlockOfNullifier == Spec => []NullifierBlockHoldsItsEvent
  <1>1. Init => LogInv
    BY DEF Init, LogInv, BlocksAgree, NullifierBlockHoldsItsEvent
  <1>2. IInv /\ LogInv /\ [Next]_vars => LogInv'
    <2> SUFFICES ASSUME IInv, LogInv, [Next]_vars PROVE LogInv'
      OBVIOUS
    <2>0. /\ TypeOK /\ events \in Seq(Event) /\ BlocksAgree /\ NullifierBlockHoldsItsEvent
          /\ block \in [rpc : Nat, evm : Nat]
      BY DEF IInv, TypeOK, LogInv
    <2>1. BlocksAgree'
      <3>1. CASE MineBlock
        BY <3>1 DEF MineBlock, BlocksAgree
      <3>2. CASE UNCHANGED block
        BY <3>2, <2>0 DEF BlocksAgree
      <3>3. MineBlock \/ UNCHANGED block
        <4>1. CASE NewAccountCall
          BY <4>1, NewAccountCallIs DEF IsNewAccount, NewAccount
        <4>2. CASE DepositCall
          BY <4>2, DepositCallIs DEF IsDeposit, Deposit
        <4>3. CASE WithdrawCall
          BY <4>3, WithdrawCallIs DEF IsWithdraw, Withdraw
        <4>4. CASE OwnerCall
          BY <4>4 DEF OwnerCall, pause, unpause, setProtocolFeeReceiver,
               setProtocolDepositFeeBps, setProtocolWithdrawFeeBps,
               setAnonymityRevokerPubkey, transferOwnership, acceptOwnership
        <4>5. CASE \E token \in Tokens, amount \in Donations : Donate(token, amount)
          BY <4>5 DEF Donate
        <4>6. CASE UNCHANGED vars
          BY <4>6 DEF vars
        <4> QED
          BY <4>1, <4>2, <4>3, <4>4, <4>5, <4>6 DEF Next
      <3> QED
        BY <3>1, <3>2, <3>3
    <2>2. CASE UNCHANGED <<nullifiers, events>>
      BY <2>0, <2>1, <2>2 DEF LogInv, NullifierBlockHoldsItsEvent
    <2>3. CASE \E kind \in {"NewAccount", "Deposit", "Withdraw"}, token \in Tokens,
                  newNote \in Note, nullifier \in Field :
                  Operation(kind, token, newNote, nullifier)
      <3> PICK kind \in {"NewAccount", "Deposit", "Withdraw"}, token \in Tokens,
               newNote \in Note, nullifier \in Field :
               Operation(kind, token, newNote, nullifier)
        BY <2>3
      <3> DEFINE event == [kind |-> kind, token |-> token,
                           nullifier |-> nullifier, block |-> block.rpc]
      <3>1. events' = Append(events, event)
        BY DEF Operation, Emit
      <3>2. BlockNumber = block.rpc
        BY <2>0, ConstantsAssumption DEF BlockNumber, BlocksAgree
      <3>3. ASSUME NEW i \in 1..Len(events')
            PROVE  nullifiers'[events'[i].nullifier] = events'[i].block + 1
        <4>1. CASE i = Len(events) + 1
          <5>1. events'[i] = event
            BY <4>1, <3>1, <2>0
          <5> QED
            BY <5>1, <3>2, <2>0, OperationRegisters
        <4>2. CASE i \in 1..Len(events)
          <5>1. events'[i] = events[i] /\ events[i] \in Event
            BY <4>2, <3>1, <2>0
          <5>2. events[i].nullifier \in Field /\ events[i].block \in Nat
            BY <5>1 DEF Event
          <5>3. nullifiers[events[i].nullifier] = events[i].block + 1
            BY <4>2, <2>0 DEF NullifierBlockHoldsItsEvent
          <5>4. events[i].nullifier # nullifier
            <6>1. nullifiers[nullifier] = 0
              BY DEF Operation
            <6> QED
              BY <6>1, <5>2, <5>3
          <5> QED
            BY <5>1, <5>2, <5>3, <5>4, <2>0, OperationRegisters
        <4> QED
          BY <4>1, <4>2, <3>1, <2>0
      <3> QED
        BY <3>3, <2>1 DEF LogInv, NullifierBlockHoldsItsEvent
    <2> QED
      BY <2>2, <2>3, StepShape
  <1>3. LogInv => NullifierBlockHoldsItsEvent
    BY DEF LogInv
  <1> QED
    BY <1>1, <1>2, <1>3, Invariance, PTL DEF Spec

-----------------------------------------------------------------------------
(* Unspent value can leave. *)

\* The root of the tree as it stands is in the history: a proof against it is accepted.
LastRootKnown == notes # <<>> => Len(notes) \in merkleRoots

LEMMA LastRootStays ==
    ASSUME IInv, LastRootKnown, [Next]_vars
    PROVE  LastRootKnown'
  <1>1. notes \in Seq(Note)
    BY DEF IInv, TypeOK
  <1>2. CASE UNCHANGED <<notes, merkleRoots, nullifiers, events>>
    BY <1>2 DEF LastRootKnown
  <1>3. ASSUME NEW kind, NEW token, NEW newNote, NEW nullifier,
               Operation(kind, token, newNote, nullifier)
        PROVE  LastRootKnown'
    <2>1. notes' = Append(notes, newNote) /\ merkleRoots' = merkleRoots \cup {Len(notes) + 1}
      BY <1>3 DEF Operation, AddNote
    <2>2. Len(notes') = Len(notes) + 1
      BY <1>1, <2>1
    <2> QED
      BY <2>1, <2>2 DEF LastRootKnown
  <1> QED
    BY <1>2, <1>3, StepShape

\* The two transfers of a withdrawal without a relayer, when the balance is covered.
LEMMA TransfersPossible ==
    ASSUME TypeOK, NEW token \in Tokens, NEW amount \in Nat, amount <= balance[token],
           NEW to \in Addresses \ RejectsNative, feeReceiver \notin RejectsNative
    PROVE  WithdrawTransfers(token, amount, to, to, 0).possible
  <1> DEFINE fee == ComputeProtocolWithdrawFee(amount)
             net == amount - fee - 0
             held1 == AfterTransfer(balance[token], to, net)
             held2 == AfterTransfer(held1, feeReceiver, fee)
  <1>1. fee \in Nat /\ fee <= amount
    BY FeesAreNat
  <1>2. balance[token] \in Nat
    BY DEF TypeOK
  <1>3. to # ShielderAddress
    BY ConstantsAssumption
  <1> HIDE DEF fee
  <1>4. net \in Nat /\ net + fee = amount
    BY <1>1
  <1>5. held1 = balance[token] - net
    BY <1>3 DEF AfterTransfer
  <1> HIDE DEF net, held1
  <1>6. CanTransfer(balance[token], token, to, net)
    BY <1>1, <1>2, <1>4 DEF CanTransfer
  <1>7. CanTransfer(held1, token, feeReceiver, fee)
    BY <1>1, <1>2, <1>4, <1>5 DEF CanTransfer
  <1>8. CanTransfer(held2, token, to, 0)
    BY DEF CanTransfer
  <1> QED
    BY <1>6, <1>7, <1>8 DEF WithdrawTransfers, held1, net, fee

\* No unspent value is locked in: whatever was done to the contract before, whoever holds an
\* unspent note can take out all of it, less the fee, in one call that the contract accepts.
THEOREM FundsAlwaysLeave == Spec => []FundsCanLeave
  <1>1. Init => LastRootKnown
    BY DEF Init, LastRootKnown
  <1>2. IInv /\ LastRootKnown /\ [Next]_vars => LastRootKnown'
    BY LastRootStays
  <1>3. IInv /\ LastRootKnown => FundsCanLeave
    <2> SUFFICES ASSUME IInv, LastRootKnown, NEW leaf \in 1..Len(notes),
                        NEW to \in Addresses \ RejectsNative,
                        nullifiers[notes[leaf].nullifier] = 0,
                        notes[leaf].balance > ComputeProtocolWithdrawFee(notes[leaf].balance),
                        feeReceiver \notin RejectsNative
                 PROVE  LET old == notes[leaf]
                            rest == FreshNote(old.id, old.nullifier, old.token, 0)
                        IN  /\ WithdrawChecks(old.token, old.balance, 0, leaf, old.nullifier,
                                              rest, Len(notes))
                            /\ WithdrawTransfers(old.token, old.balance, to, to, 0).possible
      BY DEF FundsCanLeave
    <2> DEFINE old == notes[leaf]
               rest == FreshNote(old.id, old.nullifier, old.token, 0)
    <2>1. /\ TypeOK /\ notes \in Seq(Note) /\ nullifiers \in [Field -> Nat]
          /\ balance \in [Tokens -> Nat] /\ MAX_TRANSACTION_AMOUNT \in Nat
      BY ConstantsAssumption DEF IInv, TypeOK
    <2>2. old.token \in Tokens /\ old.balance \in Nat /\ balance[old.token] \in Nat
      BY <2>1, NoteFields
    <2>3. old.balance <= balance[old.token]
      BY <2>1, <2>2, OneWithinTotal DEF IInv, Solvency
    <2>4. old.balance <= MAX_TRANSACTION_AMOUNT
      BY <2>1, <2>2, OneWithinTotal DEF IInv, SumOfBalancesInRange
    <2>5. /\ ComputeProtocolWithdrawFee(old.balance) \in Nat
          /\ old.balance - ComputeProtocolWithdrawFee(old.balance) > 0 /\ old.balance # 0
      <3>1. PICK fee : fee = ComputeProtocolWithdrawFee(old.balance)
        OBVIOUS
      <3>2. fee \in Nat /\ old.balance > fee
        BY <2>1, <2>2, <3>1, FeesAreNat
      <3> QED
        BY <2>2, <3>1, <3>2
    <2>6. leaf \in 1..Len(notes) /\ Len(notes) \in merkleRoots
      BY <2>1 DEF LastRootKnown
    <2>7. WithdrawRelation(leaf, Len(notes), old.nullifier, rest, old.balance, old.token)
      <3>1. FieldSub(old.balance, old.balance) = 0 /\ InRange(0)
        BY <2>1, <2>2 DEF FieldSub, InRange
      <3>2. rest.id = old.id /\ rest.token = old.token /\ rest.balance = 0
        BY DEF FreshNote
      <3> QED
        BY <2>6, <3>1, <3>2 DEF WithdrawRelation, SpendsLeaf
    <2>8. WithdrawChecks(old.token, old.balance, 0, leaf, old.nullifier, rest, Len(notes))
      BY <2>4, <2>5, <2>6, <2>7 DEF WithdrawChecks
    <2>9. WithdrawTransfers(old.token, old.balance, to, to, 0).possible
      BY <2>1, <2>2, <2>3, TransfersPossible
    <2> QED
      BY <2>8, <2>9
  <1> QED
    BY <1>1, <1>2, <1>3, Invariance, PTL DEF Spec

-----------------------------------------------------------------------------
(* Shielder implements ShieldedLedger. *)

\* Only the latest leaf of an account can be unspent.
OlderSpent ==
    \A i, j \in 1..Len(notes) :
       i < j /\ notes[i].id = notes[j].id => nullifiers[notes[i].nullifier] # 0

\* The prenullifier of an opened account is registered.
OpenedOnce == \A i \in 1..Len(notes) : nullifiers[notes[i].id] # 0

\* Opened accounts have a latest leaf.
HasLatest ==
    \A id \in Ids : LeavesOf(id) # {} =>
       \E leaf \in LeavesOf(id) : \A other \in LeavesOf(id) : other <= leaf

\* The invariant of the chains of notes that accounts form.
ChainInv == OlderSpent /\ OpenedOnce /\ HasLatest

-----------------------------------------------------------------------------
(* The latest leaf. *)

\* The choice is determined: there is one greatest element.
LEMMA LatestIs ==
    ASSUME NEW leaves \in SUBSET Int, NEW leaf \in leaves,
           \A other \in leaves : other <= leaf
    PROVE  Latest(leaves) = leaf
  <1>1. /\ Latest(leaves) \in leaves
        /\ \A other \in leaves : other <= Latest(leaves)
    BY DEF Latest
  <1>2. Latest(leaves) <= leaf /\ leaf <= Latest(leaves)
    BY <1>1
  <1>3. Latest(leaves) \in Int /\ leaf \in Int
    BY <1>1
  <1> HIDE DEF Latest
  <1> QED
    BY <1>2, <1>3

\* An unspent leaf is the latest of its account.
LEMMA UnspentIsLatest ==
    ASSUME TypeOK, OlderSpent, NEW leaf \in 1..Len(notes),
           nullifiers[notes[leaf].nullifier] = 0
    PROVE  /\ leaf \in LeavesOf(notes[leaf].id)
           /\ Latest(LeavesOf(notes[leaf].id)) = leaf
           /\ \A other \in LeavesOf(notes[leaf].id) : other <= leaf
  <1>1. leaf \in LeavesOf(notes[leaf].id) /\ LeavesOf(notes[leaf].id) \subseteq Int
    BY DEF LeavesOf
  <1>2. ASSUME NEW other \in LeavesOf(notes[leaf].id)
        PROVE  other <= leaf
    <2>1. other \in 1..Len(notes) /\ notes[other].id = notes[leaf].id
      BY DEF LeavesOf
    <2>2. ~(leaf < other)
      BY <2>1 DEF OlderSpent
    <2> QED
      BY <2>1, <2>2
  <1> QED
    BY <1>1, <1>2, LatestIs

\* Adding a note makes it the latest of its account and changes no other.
LEMMA LeavesAfterAdd ==
    ASSUME TypeOK, NEW newNote \in Note, notes' = Append(notes, newNote)
    PROVE  /\ Len(notes) \in Nat
           /\ Len(notes') = Len(notes) + 1
           /\ notes'[Len(notes) + 1] = newNote
           /\ \A leaf \in 1..Len(notes) : notes'[leaf] = notes[leaf]
           /\ LeavesOf(newNote.id)' = LeavesOf(newNote.id) \cup {Len(notes) + 1}
           /\ \A id \in Ids : id # newNote.id => LeavesOf(id)' = LeavesOf(id)
           /\ \A leaf \in LeavesOf(newNote.id)' : leaf <= Len(notes) + 1
           /\ Latest(LeavesOf(newNote.id)') = Len(notes) + 1
  <1>1. notes \in Seq(Note)
    BY DEF TypeOK
  <1>2. /\ Len(notes) \in Nat
        /\ Len(notes') = Len(notes) + 1
        /\ notes'[Len(notes) + 1] = newNote
        /\ \A leaf \in 1..Len(notes) : notes'[leaf] = notes[leaf]
    BY <1>1
  <1>3. \A leaf : leaf \in 1..Len(notes') <=> leaf \in 1..Len(notes) \/ leaf = Len(notes) + 1
    BY <1>2
  <1>4. LeavesOf(newNote.id)' = LeavesOf(newNote.id) \cup {Len(notes) + 1}
    BY <1>2, <1>3 DEF LeavesOf
  <1>5. \A id \in Ids : id # newNote.id => LeavesOf(id)' = LeavesOf(id)
    BY <1>2, <1>3 DEF LeavesOf
  <1>6. /\ LeavesOf(newNote.id)' \in SUBSET Int
        /\ \A leaf \in LeavesOf(newNote.id)' : leaf <= Len(notes) + 1
    BY <1>2 DEF LeavesOf
  <1>7. Latest(LeavesOf(newNote.id)') = Len(notes) + 1
    BY <1>4, <1>6, LatestIs
  <1> QED
    BY <1>2, <1>4, <1>5, <1>6, <1>7

\* The purse of the account of a new note is the new note, the others stay.
LEMMA PursesAfterAdd ==
    ASSUME TypeOK, HasLatest, NEW newNote \in Note, notes' = Append(notes, newNote)
    PROVE  /\ PurseOf(newNote.id)' = [token |-> newNote.token, balance |-> newNote.balance]
           /\ \A id \in Ids : id # newNote.id => PurseOf(id)' = PurseOf(id)
  <1>1. PurseOf(newNote.id)' = [token |-> newNote.token, balance |-> newNote.balance]
    <2>1. /\ LeavesOf(newNote.id)' # {}
          /\ LatestNote(newNote.id)' = newNote
      BY LeavesAfterAdd DEF LatestNote
    <2> QED
      BY <2>1 DEF PurseOf
  <1>2. ASSUME NEW id \in Ids, id # newNote.id
        PROVE  PurseOf(id)' = PurseOf(id)
    <2>1. LeavesOf(id)' = LeavesOf(id)
      BY <1>2, LeavesAfterAdd
    <2>2. CASE LeavesOf(id) = {}
      BY <2>1, <2>2 DEF PurseOf
    <2>3. CASE LeavesOf(id) # {}
      <3>1. PICK leaf \in LeavesOf(id) : \A other \in LeavesOf(id) : other <= leaf
        BY <2>3 DEF HasLatest
      <3>2. leaf \in 1..Len(notes) /\ LeavesOf(id) \in SUBSET Int
        BY DEF LeavesOf
      <3>3. Latest(LeavesOf(id)) = leaf
        BY <3>1, <3>2, LatestIs
      <3>4. notes'[leaf] = notes[leaf]
        BY <3>2, LeavesAfterAdd
      <3>5. LatestNote(id)' = LatestNote(id)
        BY <2>1, <3>3, <3>4 DEF LatestNote
      <3> QED
        BY <2>1, <2>3, <3>5 DEF PurseOf
    <2> QED
      BY <2>2, <2>3
  <1> QED
    BY <1>1, <1>2

-----------------------------------------------------------------------------
(* The invariant of the chains of notes. *)

\* Adding a note keeps the chains, provided all older notes of its account are
\* spent and its prenullifier is registered once the step is over.
LEMMA AddKeepsChains ==
    ASSUME TypeOK, ChainInv, NEW newNote \in Note, NEW nullifier \in Field,
           notes' = Append(notes, newNote),
           \A n \in Field : nullifiers[n] # 0 => nullifiers'[n] # 0,
           nullifiers'[newNote.id] # 0,
           \A leaf \in LeavesOf(newNote.id) : nullifiers'[notes[leaf].nullifier] # 0
    PROVE  ChainInv'
  <1>0. /\ notes \in Seq(Note)
        /\ \A leaf \in 1..Len(notes) : notes[leaf] \in Note
    BY DEF TypeOK
  <1>1. \A leaf \in 1..Len(notes) : notes[leaf].nullifier \in Field /\ notes[leaf].id \in Field
    BY <1>0, NoteFields DEF Field
  <1>2. /\ Len(notes) \in Nat
        /\ Len(notes') = Len(notes) + 1
        /\ notes'[Len(notes) + 1] = newNote
        /\ \A leaf \in 1..Len(notes) : notes'[leaf] = notes[leaf]
    BY LeavesAfterAdd
  <1>3. OlderSpent'
    <2> SUFFICES ASSUME NEW i \in 1..Len(notes'), NEW j \in 1..Len(notes'),
                        i < j, notes'[i].id = notes'[j].id
                 PROVE  nullifiers'[notes'[i].nullifier] # 0
      BY DEF OlderSpent
    <2>1. i \in 1..Len(notes) /\ notes'[i] = notes[i]
      BY <1>2
    <2>2. CASE j \in 1..Len(notes)
      <3>1. nullifiers[notes[i].nullifier] # 0
        BY <2>1, <2>2, <1>2 DEF ChainInv, OlderSpent
      <3> QED
        BY <3>1, <2>1, <1>1
    <2>3. CASE j = Len(notes) + 1
      <3>1. i \in LeavesOf(newNote.id)
        BY <2>1, <2>3, <1>2 DEF LeavesOf
      <3> QED
        BY <3>1, <2>1
    <2> QED
      BY <2>2, <2>3, <1>2
  <1>4. OpenedOnce'
    <2> SUFFICES ASSUME NEW i \in 1..Len(notes')
                 PROVE  nullifiers'[notes'[i].id] # 0
      BY DEF OpenedOnce
    <2>1. CASE i \in 1..Len(notes)
      BY <2>1, <1>1, <1>2 DEF ChainInv, OpenedOnce
    <2>2. CASE i = Len(notes) + 1
      BY <2>2, <1>2
    <2> QED
      BY <2>1, <2>2, <1>2
  <1>5. HasLatest'
    <2> SUFFICES ASSUME NEW id \in Ids, LeavesOf(id)' # {}
                 PROVE  \E leaf \in LeavesOf(id)' : \A other \in LeavesOf(id)' : other <= leaf
      BY DEF HasLatest
    <2>1. CASE id = newNote.id
      BY <2>1, LeavesAfterAdd
    <2>2. CASE id # newNote.id
      BY <2>2, LeavesAfterAdd DEF ChainInv, HasLatest
    <2> QED
      BY <2>1, <2>2
  <1> QED
    BY <1>3, <1>4, <1>5 DEF ChainInv

Accounts == [id \in Ids |-> PurseOf(id)]

\* Opening an account opens its purse.
LEMMA NewAccountOpens ==
    ASSUME IInv, ChainInv, NEW token \in Tokens, NEW amount \in Amounts, NEW id \in Ids,
           NEW nullifier \in NoteNullifiers, IsNewAccount(token, amount, id, nullifier)
    PROVE  ChainInv' /\ Ledger!Next
  <1> DEFINE value == amount - ComputeProtocolDepositFee(amount)
             newNote == FreshNote(id, nullifier, token, value)
  <1>1. TypeOK /\ NewAccount(token, amount, newNote, id)
    BY DEF IInv, IsNewAccount
  <1>2. newNote \in Note /\ value \in 0..MAX_TRANSACTION_AMOUNT
    BY <1>1, NewAccountPreserves
  <1>3. newNote.id = id /\ newNote.token = token /\ newNote.balance = value
    BY DEF FreshNote
  <1> HIDE DEF value, newNote
  <1>4. /\ notes' = Append(notes, newNote) /\ id \in Field
        /\ Operation("NewAccount", token, newNote, id)
    BY <1>1 DEF NewAccount, NewAccountChecks, AddNote, Operation, Field
  <1>5. /\ nullifiers[id] = 0 /\ nullifiers'[id] # 0
        /\ \A n \in Field : nullifiers[n] # 0 => nullifiers'[n] # 0
    BY <1>1, <1>4, OperationRegisters
  <1>6. LeavesOf(id) = {}
    BY <1>5 DEF ChainInv, OpenedOnce, LeavesOf
  <1>7. ChainInv'
    BY <1>1, <1>2, <1>3, <1>4, <1>5, <1>6, AddKeepsChains
  <1>8. PurseOf(id).token = NoToken
    BY <1>6 DEF PurseOf
  <1>9. /\ PurseOf(id)' = [token |-> token, balance |-> value]
        /\ \A other \in Ids : other # id => PurseOf(other)' = PurseOf(other)
    BY <1>1, <1>2, <1>3, <1>4, PursesAfterAdd DEF ChainInv
  <1>10. Ledger!Receives(token, value)
    BY <1>1, PayInKeeps, ConstantsAssumption DEF NewAccount, Ledger!Receives, value
  <1>11. Ledger!Open(id, token, value)
    BY <1>8, <1>9, <1>10 DEF Ledger!Open
  <1> QED
    BY <1>2, <1>7, <1>11 DEF Ledger!Next

\* No purse but that of id changes.
OtherPursesStay(id) == \A other \in Ids : other # id => PurseOf(other)' = PurseOf(other)

\* A step that replaces an unspent leaf by a note of the same account keeps the
\* chains, and starts from the purse that the leaf stands for.
LEMMA SpendMovesPurse ==
    ASSUME IInv, ChainInv, NEW leaf \in 1..Len(notes), NEW newNote \in Note,
           NEW id, id = notes[leaf].id, newNote.id = id,
           newNote.token = notes[leaf].token, NEW kind, NEW token,
           Operation(kind, token, newNote, notes[leaf].nullifier)
    PROVE  /\ ChainInv'
           /\ id \in Ids /\ notes[leaf].token \in Tokens
           /\ PurseOf(id) = [token |-> notes[leaf].token,
                                         balance |-> notes[leaf].balance]
           /\ PurseOf(id)' = [token |-> notes[leaf].token,
                                          balance |-> newNote.balance]
           /\ OtherPursesStay(id)
  <1>1. TypeOK /\ notes[leaf] \in Note
    BY DEF IInv, TypeOK
  <1>2. /\ id \in Ids /\ notes[leaf].token \in Tokens
        /\ notes[leaf].nullifier \in Field
    BY <1>1, NoteFields
  <1>3. notes' = Append(notes, newNote) /\ nullifiers[notes[leaf].nullifier] = 0
    BY DEF Operation, AddNote
  <1>4. /\ leaf \in LeavesOf(id)
        /\ Latest(LeavesOf(id)) = leaf
        /\ \A other \in LeavesOf(id) : other <= leaf
    BY <1>1, <1>3, UnspentIsLatest DEF ChainInv
  <1>5. PurseOf(id) = [token |-> notes[leaf].token,
                                   balance |-> notes[leaf].balance]
    BY <1>4 DEF PurseOf, LatestNote
  <1>6. /\ nullifiers'[notes[leaf].nullifier] # 0
        /\ \A n \in Field : nullifiers[n] # 0 => nullifiers'[n] # 0
    BY <1>1, <1>2, OperationRegisters
  <1>7. ASSUME NEW other \in LeavesOf(newNote.id)
        PROVE  nullifiers'[notes[other].nullifier] # 0
    <2>1. /\ other \in 1..Len(notes) /\ notes[other].id = id /\ other <= leaf
          /\ notes[other] \in Note
      BY <1>1, <1>4 DEF LeavesOf, TypeOK
    <2>2. notes[other].nullifier \in Field
      BY <2>1, NoteFields
    <2>3. CASE other = leaf
      BY <2>3, <1>6
    <2>4. CASE other < leaf
      <3>1. nullifiers[notes[other].nullifier] # 0
        BY <2>1, <2>4 DEF ChainInv, OlderSpent
      <3> QED
        BY <3>1, <2>2, <1>6
    <2> QED
      BY <2>1, <2>3, <2>4
  <1>8. nullifiers'[newNote.id] # 0
    BY <1>2, <1>6 DEF ChainInv, OpenedOnce, Field
  <1>9. ChainInv'
    BY <1>1, <1>2, <1>3, <1>6, <1>7, <1>8, AddKeepsChains
  <1>10. /\ PurseOf(id)' = [token |-> newNote.token, balance |-> newNote.balance]
         /\ \A other \in Ids : other # id => PurseOf(other)' = PurseOf(other)
    BY <1>1, <1>3, PursesAfterAdd DEF ChainInv
  <1> QED
    BY <1>2, <1>5, <1>9, <1>10 DEF OtherPursesStay

\* A deposit adds to the purse what came in less the fee.
LEMMA DepositAdds ==
    ASSUME IInv, ChainInv, NEW amount \in Amounts, NEW leaf \in 1..Len(notes),
           NEW nullifier \in NoteNullifiers, NEW merkleRoot,
           IsDeposit(amount, leaf, nullifier, merkleRoot)
    PROVE  ChainInv' /\ Ledger!Next
  <1>0. PICK id, value, newNote :
           /\ id = notes[leaf].id
           /\ value = amount - ComputeProtocolDepositFee(amount)
           /\ newNote = FreshNote(notes[leaf].id, nullifier, notes[leaf].token,
                                  FieldAdd(notes[leaf].balance, value))
    OBVIOUS
  <1>1. Deposit(notes[leaf].token, amount, leaf, newNote, merkleRoot)
    BY <1>0 DEF IsDeposit
  <1>2. /\ newNote \in Note /\ newNote.balance = notes[leaf].balance + value
        /\ value \in 0..MAX_TRANSACTION_AMOUNT
    BY <1>0, <1>1, DepositPreserves
  <1>3. newNote.id = id /\ newNote.token = notes[leaf].token
    BY <1>0 DEF FreshNote
  <1>4. Operation("Deposit", notes[leaf].token, newNote, notes[leaf].nullifier)
    BY <1>1 DEF Deposit, DepositChecks, Operation
  <1>5. PICK kind, token : Operation(kind, token, newNote, notes[leaf].nullifier)
    BY <1>4
  <1>6. /\ ChainInv'
        /\ id \in Ids /\ notes[leaf].token \in Tokens
        /\ PurseOf(id) = [token |-> notes[leaf].token, balance |-> notes[leaf].balance]
        /\ PurseOf(id)' = [token |-> notes[leaf].token, balance |-> newNote.balance]
    BY <1>0, <1>2, <1>3, <1>5, SpendMovesPurse
  <1>7. OtherPursesStay(id)
    BY <1>0, <1>2, <1>3, <1>5, SpendMovesPurse
  <1>8. PICK after : after = [token |-> notes[leaf].token, balance |-> newNote.balance]
    OBVIOUS
  <1>9. Accounts' = [Accounts EXCEPT ![id] = after]
    <2>1. PurseOf(id)' = after
      BY <1>6, <1>8
    <2> QED
      BY <2>1, <1>6, <1>7 DEF Accounts, OtherPursesStay
  <1>10. /\ Accounts[id] = [token |-> notes[leaf].token, balance |-> notes[leaf].balance]
         /\ Accounts[id].token # NoToken /\ Accounts[id].balance = notes[leaf].balance
    BY <1>6, NoTokenAssumption DEF Accounts
  <1>11. after = [Accounts[id] EXCEPT !.balance = Accounts[id].balance + value]
    BY <1>2, <1>8, <1>10
  <1>12. Ledger!Receives(notes[leaf].token, value)
    BY <1>0, <1>1, <1>6, PayInKeeps, ConstantsAssumption
    DEF IInv, Deposit, Ledger!Receives
  <1>13. Ledger!Add(id, value)
    BY <1>2, <1>9, <1>10, <1>11, <1>12 DEF Ledger!Add, Accounts
  <1> QED
    BY <1>2, <1>6, <1>13 DEF Ledger!Next

\* A withdrawal takes its amount from the purse, which holds it.
LEMMA WithdrawTakes ==
    ASSUME IInv, ChainInv, NEW amount \in Amounts, NEW leaf \in 1..Len(notes),
           NEW nullifier \in NoteNullifiers, NEW merkleRoot, NEW to, NEW relayer,
           NEW relayerFee \in RelayerFees,
           IsWithdraw(amount, to, relayer, relayerFee, leaf, nullifier, merkleRoot)
    PROVE  ChainInv' /\ Ledger!Next
  <1>0. PICK id, newNote :
           /\ id = notes[leaf].id
           /\ newNote = FreshNote(notes[leaf].id, nullifier, notes[leaf].token,
                                  FieldSub(notes[leaf].balance, amount))
    OBVIOUS
  <1>1. Withdraw(notes[leaf].token, amount, to, relayer, relayerFee, leaf, newNote, merkleRoot)
    BY <1>0 DEF IsWithdraw
  <1>2. /\ newNote \in Note /\ newNote.balance = notes[leaf].balance - amount
        /\ amount <= notes[leaf].balance /\ amount \in 0..MAX_TRANSACTION_AMOUNT
    BY <1>0, <1>1, WithdrawPreserves
  <1>3. newNote.id = id /\ newNote.token = notes[leaf].token
    BY <1>0 DEF FreshNote
  <1>4. Operation("Withdraw", notes[leaf].token, newNote, notes[leaf].nullifier)
    BY <1>1 DEF Withdraw, WithdrawChecks, Operation
  <1>5. PICK kind, token : Operation(kind, token, newNote, notes[leaf].nullifier)
    BY <1>4
  <1>6. /\ ChainInv'
        /\ id \in Ids /\ notes[leaf].token \in Tokens
        /\ PurseOf(id) = [token |-> notes[leaf].token, balance |-> notes[leaf].balance]
        /\ PurseOf(id)' = [token |-> notes[leaf].token, balance |-> newNote.balance]
    BY <1>0, <1>2, <1>3, <1>5, SpendMovesPurse
  <1>7. OtherPursesStay(id)
    BY <1>0, <1>2, <1>3, <1>5, SpendMovesPurse
  <1>8. PICK after : after = [token |-> notes[leaf].token, balance |-> newNote.balance]
    OBVIOUS
  <1>9. Accounts' = [Accounts EXCEPT ![id] = after]
    <2>1. PurseOf(id)' = after
      BY <1>6, <1>8
    <2> QED
      BY <2>1, <1>6, <1>7 DEF Accounts, OtherPursesStay
  <1>10. /\ Accounts[id] = [token |-> notes[leaf].token, balance |-> notes[leaf].balance]
         /\ Accounts[id].token # NoToken /\ Accounts[id].balance = notes[leaf].balance
    BY <1>6, NoTokenAssumption DEF Accounts
  <1>11. after = [Accounts[id] EXCEPT !.balance = Accounts[id].balance - amount]
    BY <1>2, <1>8, <1>10
  <1>12. Ledger!Receives(notes[leaf].token, -amount)
    <2>1. /\ PayOut(notes[leaf].token, amount, to, relayer, relayerFee)
          /\ relayerFee < amount - ComputeProtocolWithdrawFee(amount)
          /\ amount \in Nat /\ relayerFee \in Nat /\ TypeOK
      <3>1. amount \in Nat /\ relayerFee \in Nat /\ TypeOK
        BY ConstantsAssumption DEF IInv
      <3>2. ComputeProtocolWithdrawFee(amount) \in Nat
        BY <3>1, FeesAreNat
      <3> QED
        BY <1>1, <3>1, <3>2 DEF Withdraw, WithdrawChecks
    <2>2. /\ balance[notes[leaf].token] - amount <= balance'[notes[leaf].token]
          /\ \A other \in Tokens \ {notes[leaf].token} : balance'[other] = balance[other]
      BY <2>1, <1>6, PayOutTakes
    <2>3. balance[notes[leaf].token] \in Nat
      BY <2>1, <1>6 DEF TypeOK
    <2> QED
      BY <2>1, <2>2, <2>3 DEF Ledger!Receives
  <1>13. Ledger!Take(id, amount)
    BY <1>2, <1>9, <1>10, <1>11, <1>12 DEF Ledger!Take, Accounts
  <1> QED
    BY <1>2, <1>6, <1>13 DEF Ledger!Next

\* The contract implements the ledger of purses: whoever calls with whatever
\* proof, an account is opened once, changes only by its own deposits and
\* withdrawals, and never pays out more than it holds.
THEOREM LedgerImplemented == Spec => ImplementsLedger
  <1>1. Init => ChainInv /\ Ledger!Init
    <2> SUFFICES ASSUME Init PROVE ChainInv /\ Ledger!Init
      OBVIOUS
    <2>1. Len(notes) = 0
      BY DEF Init
    <2>2. \A id \in Ids : LeavesOf(id) = {}
      BY <2>1 DEF LeavesOf
    <2>3. ChainInv
      BY <2>1, <2>2 DEF ChainInv, OlderSpent, OpenedOnce, HasLatest
    <2>4. Ledger!Init
      BY <2>2 DEF Init, Ledger!Init, Ledger!Unopened, PurseOf
    <2> QED
      BY <2>3, <2>4
  <1>2. IInv /\ ChainInv /\ [Next]_vars => ChainInv' /\ [Ledger!Next]_<<Accounts, balance>>
    <2> SUFFICES ASSUME IInv, ChainInv, [Next]_vars
                 PROVE  ChainInv' /\ [Ledger!Next]_<<Accounts, balance>>
      OBVIOUS
    <2>1. CASE NewAccountCall
      BY <2>1, NewAccountCallIs, NewAccountOpens
    <2>2. CASE DepositCall
      BY <2>2, DepositCallIs, DepositAdds
    <2>3. CASE WithdrawCall
      BY <2>3, WithdrawCallIs, WithdrawTakes
    <2>4. CASE \/ OwnerCall
               \/ MineBlock
               \/ \E token \in Tokens, amount \in Donations : Donate(token, amount)
               \/ UNCHANGED vars
      <3>1. UNCHANGED <<notes, nullifiers>>
        BY <2>4, QuietSteps DEF IInv
      <3>2. \A id \in Ids : LeavesOf(id)' = LeavesOf(id) /\ PurseOf(id)' = PurseOf(id)
        BY <3>1 DEF LeavesOf, PurseOf, LatestNote
      <3>3. ChainInv'
        BY <3>1, <3>2 DEF ChainInv, OlderSpent, OpenedOnce, HasLatest
      <3>4. UNCHANGED Accounts
        BY <3>2 DEF Accounts
      <3>5. Ledger!Gift
        BY <2>4, <3>4, QuietSteps DEF IInv, Ledger!Gift, Accounts
      <3> QED
        BY <3>3, <3>5 DEF Ledger!Next
    <2> QED
      BY <2>1, <2>2, <2>3, <2>4 DEF Next
  <1>3. Spec => Ledger!Init /\ [][Ledger!Next]_<<Accounts, balance>>
    BY <1>1, <1>2, Invariance, PTL DEF Spec
  <1> QED
    BY <1>3, PTL DEF ImplementsLedger, Ledger!Spec, Accounts

=============================================================================
