-------------------------- MODULE MerkleTreeProofs --------------------------
(***************************************************************************)
(* Theorems on the tree of notes, for every arity, every height and every  *)
(* sequence of notes.                                                      *)
(***************************************************************************)
EXTENDS MerkleTree, FiniteSetTheorems, TLAPS

-----------------------------------------------------------------------------
(* Induction, on sets of numbers: what holds is that a number is in one. *)

\* A set of numbers has a least one: of the intervals up to its elements, one has none
\* of the others within it.
LEMMA Least ==
    ASSUME NEW T \in SUBSET Nat, T # {}
    PROVE  \E x \in T : \A y \in T : x <= y
    <1> DEFINE upTo == {0..n : n \in T}
    <1>1. upTo \subseteq FiniteSubsetsOf(Nat)
        <2>1. ASSUME NEW n \in T PROVE 0..n \in FiniteSubsetsOf(Nat)
            BY FS_Interval DEF FiniteSubsetsOf
        <2> QED
            BY <2>1
    <1>2. IsWellFoundedOn(StrictSubsetOrdering(Nat), FiniteSubsetsOf(Nat))
        BY FS_StrictSubsetOrderingWellFounded
    <1>3. upTo # {}
        OBVIOUS
    <1> HIDE DEF upTo
    <1>4. PICK b \in upTo : \A c \in upTo : <<c, b>> \notin StrictSubsetOrdering(Nat)
        BY <1>1, <1>2, <1>3, WFMin
    <1>5. PICK x \in T : b = 0..x
        BY DEF upTo
    <1>6. ASSUME NEW y \in T, y < x PROVE FALSE
        <2>1. 0..y \in upTo
            BY DEF upTo
        <2>2. /\ 0..y \in SUBSET Nat /\ 0..x \in SUBSET Nat
              /\ 0..y \subseteq 0..x /\ x \in 0..x /\ x \notin 0..y
            BY <1>6
        <2>3. <<0..y, b>> \in StrictSubsetOrdering(Nat)
            BY <1>5, <2>2 DEF StrictSubsetOrdering
        <2> QED
            BY <1>4, <2>1, <2>3
    <1> QED
        BY <1>6

\* What is in a set at zero, and with a number also at the next one, is in it up to n.
LEMMA Induction ==
    ASSUME NEW n \in Nat, NEW S, 0 \in S, \A i \in 0..(n - 1) : i \in S => i + 1 \in S
    PROVE  \A i \in 0..n : i \in S
    <1> DEFINE T == {i \in 0..n : i \notin S}
    <1> SUFFICES ASSUME T # {} PROVE FALSE
        OBVIOUS
    <1>1. PICK x \in T : \A y \in T : x <= y
        <2>1. T \in SUBSET Nat
            OBVIOUS
        <2> HIDE DEF T
        <2> QED
            BY <2>1, Least
    <1>2. x # 0 /\ x \in 0..n
        OBVIOUS
    <1>3. x - 1 \in 0..(n - 1) /\ x - 1 + 1 = x
        BY <1>2
    <1>4. x - 1 \in S
        BY <1>1, <1>3
    <1> QED
        BY <1>3, <1>4

-----------------------------------------------------------------------------
(* The sizes of the tree. *)

\* The recursive definitions define what they say.
LEMMA PowerDef ==
    /\ DOMAIN Power = 0..TREE_HEIGHT /\ Power[0] = 1
    /\ \A i \in 1..TREE_HEIGHT : Power[i] = Power[i - 1] * ARITY
    <1> DEFINE P(g, n) == g = [i \in 0..n |-> IF i = 0 THEN 1 ELSE g[i - 1] * ARITY]
               S == {n \in 0..TREE_HEIGHT : \E g : P(g, n)}
    <1>0. TREE_HEIGHT \in Nat
        BY TreeAssumption
    <1>1. 0 \in S
        <2>1. PICK g : g = [i \in 0..0 |-> 1]
            OBVIOUS
        <2>2. \A i \in 0..0 : i = 0
            OBVIOUS
        <2>3. P(g, 0)
            BY <2>1, <2>2
        <2> QED
            BY <1>0, <2>3
    <1>2. ASSUME NEW n \in 0..(TREE_HEIGHT - 1), n \in S PROVE n + 1 \in S
        <2>1. PICK g : P(g, n)
            BY <1>2
        <2>2. PICK h : h = [i \in 0..(n + 1) |-> IF i = 0 THEN 1 ELSE g[i - 1] * ARITY]
            OBVIOUS
        <2>3. \A i \in 0..n : g[i] = h[i]
            BY <2>1, <2>2
        <2>4. \A i \in 0..(n + 1) : i = 0 \/ g[i - 1] = h[i - 1]
            BY <2>3
        <2>5. P(h, n + 1)
            BY <2>2, <2>4
        <2> QED
            BY <1>0, <2>5
    <1>3. \A i \in 0..TREE_HEIGHT : i \in S
        <2> HIDE DEF S
        <2> QED
            BY <1>0, <1>1, <1>2, Induction
    <1>4. PICK g : P(g, TREE_HEIGHT)
        BY <1>0, <1>3
    <1>5. Power = CHOOSE f : P(f, TREE_HEIGHT)
        BY DEF Power
    <1>6. P(Power, TREE_HEIGHT)
        <2> HIDE DEF P
        <2> QED
            BY <1>4, <1>5
    <1> QED
        BY <1>0, <1>6

\* Size is the function its definition says, like Power.
LEMMA SizeDef ==
    /\ DOMAIN Size = 0..TREE_HEIGHT /\ Size[0] = 1
    /\ \A i \in 1..TREE_HEIGHT : Size[i] = Size[i - 1] + Power[i]
    <1> DEFINE P(g, n) == g = [i \in 0..n |-> IF i = 0 THEN 1 ELSE g[i - 1] + Power[i]]
               S == {n \in 0..TREE_HEIGHT : \E g : P(g, n)}
    <1>0. TREE_HEIGHT \in Nat
        BY TreeAssumption
    <1>1. 0 \in S
        <2>1. PICK g : g = [i \in 0..0 |-> 1]
            OBVIOUS
        <2>2. \A i \in 0..0 : i = 0
            OBVIOUS
        <2>3. P(g, 0)
            BY <2>1, <2>2
        <2> QED
            BY <1>0, <2>3
    <1>2. ASSUME NEW n \in 0..(TREE_HEIGHT - 1), n \in S PROVE n + 1 \in S
        <2>1. PICK g : P(g, n)
            BY <1>2
        <2>2. PICK h : h = [i \in 0..(n + 1) |-> IF i = 0 THEN 1 ELSE g[i - 1] + Power[i]]
            OBVIOUS
        <2>3. \A i \in 0..n : g[i] = h[i]
            BY <2>1, <2>2
        <2>4. \A i \in 0..(n + 1) : i = 0 \/ g[i - 1] = h[i - 1]
            BY <2>3
        <2>5. P(h, n + 1)
            BY <2>2, <2>4
        <2> QED
            BY <1>0, <2>5
    <1>3. \A i \in 0..TREE_HEIGHT : i \in S
        <2> HIDE DEF S
        <2> QED
            BY <1>0, <1>1, <1>2, Induction
    <1>4. PICK g : P(g, TREE_HEIGHT)
        BY <1>0, <1>3
    <1>5. Size = CHOOSE f : P(f, TREE_HEIGHT)
        BY DEF Size
    <1>6. P(Size, TREE_HEIGHT)
        <2> HIDE DEF P
        <2> QED
            BY <1>4, <1>5
    <1> QED
        BY <1>0, <1>6

\* A level has at least one node.
LEMMA PowerNat == \A i \in 0..TREE_HEIGHT : Power[i] \in Nat \ {0}
    <1> DEFINE S == {i \in 0..TREE_HEIGHT : Power[i] \in Nat \ {0}}
    <1>0. TREE_HEIGHT \in Nat /\ ARITY \in Nat \ {0}
        BY TreeAssumption
    <1>1. 0 \in S
        BY <1>0, PowerDef
    <1>2. ASSUME NEW i \in 0..(TREE_HEIGHT - 1), i \in S PROVE i + 1 \in S
        <2>1. i + 1 \in 1..TREE_HEIGHT /\ i + 1 - 1 = i
            BY <1>0
        <2>2. Power[i + 1] = Power[i] * ARITY
            BY <2>1, PowerDef
        <2>3. PICK p \in Nat \ {0} : p = Power[i]
            BY <1>2
        <2>4. p * ARITY \in Nat \ {0}
            BY <1>0
        <2> QED
            BY <2>1, <2>2, <2>3, <2>4
    <1> HIDE DEF S
    <1>3. \A i \in 0..TREE_HEIGHT : i \in S
        BY <1>0, <1>1, <1>2, Induction
    <1> QED
        BY <1>3 DEF S

\* A tree that is one level higher has ARITY such trees under its root.
LEMMA SizeNat ==
    /\ \A i \in 0..TREE_HEIGHT : Size[i] \in Nat /\ Size[i] >= Power[i]
    /\ \A i \in 1..TREE_HEIGHT : Size[i] = Size[i - 1] * ARITY + 1
    <1> DEFINE S == {i \in 0..TREE_HEIGHT :
                       /\ Size[i] \in Nat /\ Size[i] >= Power[i]
                       /\ i # 0 => Size[i - 1] \in Nat /\ Size[i] = Size[i - 1] * ARITY + 1}
    <1>0. TREE_HEIGHT \in Nat /\ ARITY \in Nat \ {0}
        BY TreeAssumption
    <1>1. 0 \in S
        <2>1. Size[0] = 1 /\ Power[0] = 1 /\ 0 \in 0..TREE_HEIGHT
            BY <1>0, PowerDef, SizeDef
        <2> QED
            BY <2>1
    <1>2. ASSUME NEW i \in 0..(TREE_HEIGHT - 1), i \in S PROVE i + 1 \in S
        <2>1. i + 1 \in 1..TREE_HEIGHT /\ i + 1 - 1 = i /\ i + 1 \in 0..TREE_HEIGHT
            BY <1>0
        <2>2. PICK s \in Nat : s = Size[i]
            BY <1>2
        <2>3. PICK p \in Nat : p = Power[i]
            BY <1>0, PowerNat
        <2>4. Power[i + 1] = p * ARITY /\ p * ARITY \in Nat
            <3>1. Power[i + 1] = p * ARITY
                BY <2>1, <2>3, PowerDef
            <3>2. p * ARITY \in Nat
                BY <1>0
            <3> QED
                BY <3>1, <3>2
        <2>5. Size[i + 1] = s + p * ARITY
            BY <2>1, <2>2, <2>4, SizeDef
        <2>6. s + p * ARITY = s * ARITY + 1
            <3>1. CASE i = 0
                BY <1>0, <2>2, <2>3, <3>1, PowerDef, SizeDef
            <3>2. CASE i # 0
                <4>1. i \in 1..TREE_HEIGHT /\ i - 1 \in 0..TREE_HEIGHT
                    BY <1>0, <2>1, <3>2
                <4>2. s = Size[i - 1] + p /\ s = Size[i - 1] * ARITY + 1
                    BY <1>2, <2>2, <2>3, <3>2, <4>1, SizeDef
                <4>3. PICK r \in Nat : r = Size[i - 1]
                    BY <1>2, <3>2
                <4>4. (r + p) * ARITY = r * ARITY + p * ARITY
                    BY <1>0
                <4> QED
                    BY <1>0, <4>2, <4>3, <4>4
            <3> QED
                BY <3>1, <3>2
        <2> QED
            BY <1>0, <2>1, <2>2, <2>4, <2>5, <2>6
    <1> HIDE DEF S
    <1>3. \A i \in 0..TREE_HEIGHT : i \in S
        BY <1>0, <1>1, <1>2, Induction
    <1> QED
        BY <1>3 DEF S

-----------------------------------------------------------------------------
(* Node ids.  Levels count from the leaves. *)

\* The id of the first node of a level, and how many nodes the level has.
FirstAt(level) == Size[TREE_HEIGHT - level] - Power[TREE_HEIGHT - level] + 1
Width(level) == Power[TREE_HEIGHT - level]

\* The ids of a level start at FirstAt and end where the tree down to it does.
LEMMA LevelFacts ==
    ASSUME NEW level \in 0..TREE_HEIGHT
    PROVE  /\ TREE_HEIGHT - level \in 0..TREE_HEIGHT
           /\ FirstAt(level) \in Nat \ {0} /\ Width(level) \in Nat \ {0}
           /\ FirstAt(level) + Width(level) - 1 = Size[TREE_HEIGHT - level]
           /\ FirstAt(TREE_HEIGHT) = 1 /\ Width(TREE_HEIGHT) = 1
    <1>0. TREE_HEIGHT \in Nat /\ TREE_HEIGHT - TREE_HEIGHT = 0
        BY TreeAssumption
    <1>1. TREE_HEIGHT - level \in 0..TREE_HEIGHT
        BY <1>0
    <1>2. PICK d \in 0..TREE_HEIGHT : d = TREE_HEIGHT - level
        BY <1>1
    <1>3. Size[d] \in Nat /\ Size[d] >= Power[d] /\ Power[d] \in Nat \ {0}
        BY SizeNat, PowerNat
    <1>4. FirstAt(TREE_HEIGHT) = 1 /\ Width(TREE_HEIGHT) = 1
        BY <1>0, PowerDef, SizeDef DEF FirstAt, Width
    <1> QED
        BY <1>1, <1>2, <1>3, <1>4 DEF FirstAt, Width

\* The level below a level follows it, and is ARITY times as wide.
LEMMA LevelBelow ==
    ASSUME NEW level \in 1..TREE_HEIGHT
    PROVE  /\ level - 1 \in 0..TREE_HEIGHT /\ level \in 0..TREE_HEIGHT
           /\ FirstAt(level - 1) = FirstAt(level) + Width(level)
           /\ FirstAt(level - 1) = FirstAt(level) * ARITY - (ARITY - 2)
           /\ Width(level - 1) = Width(level) * ARITY
    <1>0. TREE_HEIGHT \in Nat /\ ARITY \in Nat
        BY TreeAssumption
    <1>1. PICK d \in 0..(TREE_HEIGHT - 1) : d = TREE_HEIGHT - level
        BY <1>0
    <1>2. /\ d + 1 = TREE_HEIGHT - (level - 1) /\ d + 1 \in 1..TREE_HEIGHT /\ d + 1 - 1 = d
          /\ d \in 0..TREE_HEIGHT
        BY <1>0, <1>1
    <1>3. PICK s \in Nat : s = Size[d]
        BY <1>2, SizeNat
    <1>4. PICK p \in Nat : p = Power[d]
        BY <1>2, PowerNat
    <1>5. Power[d + 1] = p * ARITY /\ Size[d + 1] = s + Power[d + 1] /\ Size[d + 1] = s * ARITY + 1
        BY <1>2, <1>3, <1>4, PowerDef, SizeDef, SizeNat
    <1>6. (s - p + 1) * ARITY = s * ARITY - p * ARITY + ARITY
        BY <1>0
    <1>7. /\ FirstAt(level) = s - p + 1 /\ Width(level) = p
          /\ FirstAt(level - 1) = Size[d + 1] - Power[d + 1] + 1 /\ Width(level - 1) = Power[d + 1]
        BY <1>1, <1>2, <1>3, <1>4 DEF FirstAt, Width
    <1>8. PICK sa \in Int : sa = s * ARITY
        BY <1>0
    <1>9. PICK pa \in Int : pa = p * ARITY
        BY <1>0
    <1>10. FirstAt(level - 1) = s + 1
        BY <1>5, <1>7, <1>9
    <1>11. s + pa = sa + 1
        BY <1>5, <1>8, <1>9
    <1>12. FirstAt(level) * ARITY - (ARITY - 2) = sa - pa + 2
        BY <1>0, <1>6, <1>7, <1>8, <1>9
    <1> QED
        BY <1>0, <1>2, <1>5, <1>7, <1>10, <1>11, <1>12

\* Division by a number that is not zero.
LEMMA Division ==
    ASSUME NEW a \in Nat, NEW b \in Nat \ {0}
    PROVE  /\ a \div b \in Nat /\ a % b \in 0..(b - 1)
           /\ a = (a \div b) * b + (a % b)
    OBVIOUS

\* The quotient is the one number that has a remainder.
LEMMA Quotient ==
    ASSUME NEW q \in Nat, NEW b \in Nat \ {0}, NEW r \in 0..(b - 1)
    PROVE  (q * b + r) \div b = q /\ (q * b + r) % b = r
    <1>1. PICK a \in Nat : a = q * b + r
        OBVIOUS
    <1>2. /\ a \div b \in Nat /\ a % b \in 0..(b - 1)
          /\ a = (a \div b) * b + (a % b)
        BY Division
    <1>3. PICK p \in Nat : p = a \div b
        BY <1>2
    <1>4. PICK s \in 0..(b - 1) : s = a % b
        BY <1>2
    <1>5. p * b + s = q * b + r
        BY <1>1, <1>2, <1>3, <1>4
    <1>6. ASSUME p < q PROVE FALSE
        <2>1. PICK d \in Nat : q = p + 1 + d
            <3>1. q - p - 1 \in Nat /\ q = p + 1 + (q - p - 1)
                BY <1>6
            <3> QED
                BY <3>1
        <2>2. q * b = p * b + b + d * b /\ d * b \in Nat /\ p * b \in Nat
            BY <2>1
        <2> QED
            BY <1>5, <2>2
    <1>7. ASSUME q < p PROVE FALSE
        <2>1. PICK d \in Nat : p = q + 1 + d
            <3>1. p - q - 1 \in Nat /\ p = q + 1 + (p - q - 1)
                BY <1>7
            <3> QED
                BY <3>1
        <2>2. p * b = q * b + b + d * b /\ d * b \in Nat /\ q * b \in Nat
            BY <2>1
        <2> QED
            BY <1>5, <2>2
    <1>8. p = q
        <2>1. p < q \/ q < p \/ p = q
            OBVIOUS
        <2> QED
            BY <1>6, <1>7, <2>1
    <1>9. r = s
        BY <1>5, <1>8
    <1> QED
        BY <1>1, <1>3, <1>4, <1>8, <1>9

\* The children of a node are next to each other, and the parent of each is the node.
LEMMA ChildId ==
    ASSUME NEW level \in 1..TREE_HEIGHT, NEW k \in Nat, NEW j \in Int
    PROVE  Child(FirstAt(level) + k, j) = FirstAt(level - 1) + (k * ARITY + j)
    <1>0. ARITY \in Nat
        BY TreeAssumption
    <1>1. PICK f \in Nat : f = FirstAt(level)
        BY LevelBelow, LevelFacts
    <1>2. FirstAt(level - 1) = f * ARITY - (ARITY - 2)
        BY <1>1, LevelBelow
    <1>3. (f + k) * ARITY = f * ARITY + k * ARITY
        BY <1>0
    <1>4. PICK fa \in Int : fa = f * ARITY
        BY <1>0
    <1>5. PICK ka \in Int : ka = k * ARITY
        BY <1>0
    <1> QED
        BY <1>0, <1>1, <1>2, <1>3, <1>4, <1>5 DEF Child

\* The parent of a node of a level is the quotient of its place.
LEMMA ParentId ==
    ASSUME NEW level \in 1..TREE_HEIGHT, NEW k \in Nat
    PROVE  Parent(FirstAt(level - 1) + k) = FirstAt(level) + (k \div ARITY)
    <1>0. ARITY \in Nat \ {0}
        BY TreeAssumption
    <1>1. PICK f \in Nat : f = FirstAt(level)
        BY LevelBelow, LevelFacts
    <1>2. FirstAt(level - 1) = f * ARITY - (ARITY - 2)
        BY <1>1, LevelBelow
    <1>3. /\ k \div ARITY \in Nat /\ k % ARITY \in 0..(ARITY - 1)
          /\ k = (k \div ARITY) * ARITY + (k % ARITY)
        BY <1>0, Division
    <1>4. PICK q \in Nat : q = k \div ARITY
        BY <1>3
    <1>5. PICK r \in 0..(ARITY - 1) : r = k % ARITY
        BY <1>3
    <1>6. (f + q) * ARITY = f * ARITY + q * ARITY
        BY <1>0
    <1>7. PICK fa \in Int : fa = f * ARITY
        BY <1>0
    <1>8. PICK qa \in Int : qa = q * ARITY
        BY <1>0
    <1>9. FirstAt(level - 1) + k + ARITY - 2 = (f + q) * ARITY + r
        BY <1>0, <1>2, <1>3, <1>4, <1>5, <1>6, <1>7, <1>8
    <1>10. ((f + q) * ARITY + r) \div ARITY = f + q
        BY <1>0, Quotient
    <1> QED
        BY <1>1, <1>4, <1>9, <1>10 DEF Parent

\* The place on a level of the ancestor of a leaf.
Above(level, leaf) == leaf \div Power[level]

\* The ancestor of a leaf one level up is the parent of its ancestor below.
LEMMA AboveStep ==
    ASSUME NEW leaf \in Nat
    PROVE  /\ Above(0, leaf) = leaf
           /\ \A level \in 0..TREE_HEIGHT : Above(level, leaf) \in Nat
           /\ \A level \in 1..TREE_HEIGHT : Above(level, leaf) = Above(level - 1, leaf) \div ARITY
    <1>0. ARITY \in Nat \ {0} /\ TREE_HEIGHT \in Nat
        BY TreeAssumption
    <1>1. Above(0, leaf) = leaf
        BY PowerDef DEF Above
    <1>2. \A level \in 0..TREE_HEIGHT : Above(level, leaf) \in Nat
        BY PowerNat, Division DEF Above
    <1>3. ASSUME NEW level \in 1..TREE_HEIGHT
          PROVE  Above(level, leaf) = Above(level - 1, leaf) \div ARITY
        <2>1. level - 1 \in 0..TREE_HEIGHT
            BY <1>0
        <2>2. PICK p \in Nat \ {0} : p = Power[level - 1]
            BY <2>1, PowerNat
        <2>3. Power[level] = p * ARITY
            BY <2>2, PowerDef
        <2>4. PICK q \in Nat : q = leaf \div p
            BY Division
        <2>5. PICK r \in 0..(p - 1) : r = leaf % p
            BY Division
        <2>6. leaf = q * p + r
            BY <2>4, <2>5, Division
        <2>7. PICK t \in Nat : t = q \div ARITY
            BY <1>0, Division
        <2>8. PICK s \in 0..(ARITY - 1) : s = q % ARITY
            BY <1>0, Division
        <2>9. q = t * ARITY + s
            BY <1>0, <2>7, <2>8, Division
        <2>10. leaf = t * (p * ARITY) + (s * p + r)
            <3>1. (t * ARITY + s) * p = t * (p * ARITY) + s * p
                BY <1>0
            <3> QED
                BY <1>0, <2>6, <2>9, <3>1
        <2>11. s * p + r \in 0..(p * ARITY - 1) /\ p * ARITY \in Nat \ {0}
            <3>1. PICK d \in Nat : ARITY = s + 1 + d
                <4>1. ARITY - s - 1 \in Nat /\ ARITY = s + 1 + (ARITY - s - 1)
                    BY <1>0
                <4> QED
                    BY <4>1
            <3>2. p * ARITY = s * p + p + d * p /\ d * p \in Nat /\ s * p \in Nat
                BY <1>0, <3>1
            <3> QED
                BY <1>0, <3>2
        <2>12. leaf \div (p * ARITY) = t
            BY <2>10, <2>11, Quotient
        <2> QED
            BY <2>2, <2>3, <2>4, <2>7, <2>12 DEF Above
    <1> QED
        BY <1>1, <1>2, <1>3

\* A node of a level is at or before the ancestor of a leaf when its first leaf is at or
\* before that leaf.
LEMMA AboveOrder ==
    ASSUME NEW level \in 0..TREE_HEIGHT, NEW leaf \in Nat, NEW k \in Nat
    PROVE  k * Power[level] <= leaf <=> k <= Above(level, leaf)
    <1>1. PICK p \in Nat \ {0} : p = Power[level]
        BY PowerNat
    <1>2. PICK q \in Nat : q = leaf \div p
        BY Division
    <1>3. PICK r \in 0..(p - 1) : r = leaf % p
        BY Division
    <1>4. leaf = q * p + r
        BY <1>2, <1>3, Division
    <1>5. CASE k <= q
        <2>1. PICK d \in Nat : q = k + d
            <3>1. q - k \in Nat /\ q = k + (q - k)
                BY <1>5
            <3> QED
                BY <3>1
        <2>2. q * p = k * p + d * p /\ d * p \in Nat /\ k * p \in Nat
            BY <2>1
        <2>3. k * p <= leaf
            BY <1>4, <2>2
        <2> QED
            BY <1>1, <1>2, <1>5, <2>3 DEF Above
    <1>6. CASE k > q
        <2>1. PICK d \in Nat : k = q + 1 + d
            <3>1. k - q - 1 \in Nat /\ k = q + 1 + (k - q - 1)
                BY <1>6
            <3> QED
                BY <3>1
        <2>2. k * p = q * p + p + d * p /\ d * p \in Nat /\ q * p \in Nat
            BY <2>1
        <2>3. ~(k * p <= leaf)
            BY <1>4, <2>2
        <2> QED
            BY <1>1, <1>2, <1>6, <2>3 DEF Above
    <1> QED
        BY <1>5, <1>6

\* The ancestors of a leaf of the tree are in the tree.
LEMMA AboveWithin ==
    ASSUME NEW leaf \in 0..(Power[TREE_HEIGHT] - 1)
    PROVE  \A level \in 0..TREE_HEIGHT : Above(level, leaf) \in 0..(Width(level) - 1)
    <1> DEFINE S == {level \in 0..TREE_HEIGHT : Above(level, leaf) \in 0..(Width(level) - 1)}
    <1>0. ARITY \in Nat \ {0} /\ TREE_HEIGHT \in Nat /\ leaf \in Nat
        BY TreeAssumption
    <1>1. 0 \in S
        BY <1>0, AboveStep DEF Width
    <1>2. ASSUME NEW level \in 0..(TREE_HEIGHT - 1), level \in S PROVE level + 1 \in S
        <2>1. level + 1 \in 1..TREE_HEIGHT /\ level + 1 - 1 = level /\ level + 1 \in 0..TREE_HEIGHT
            BY <1>0
        <2>2. PICK w \in Nat : w = Width(level + 1)
            BY <2>1, LevelFacts
        <2>3. Width(level) = w * ARITY
            BY <2>1, <2>2, LevelBelow
        <2>4. PICK a \in Nat : a = Above(level, leaf)
            BY <1>0, AboveStep
        <2>5. a < w * ARITY
            <3>1. w * ARITY \in Int
                BY <1>0
            <3> QED
                BY <1>2, <2>3, <2>4, <3>1
        <2>6. Above(level + 1, leaf) = a \div ARITY
            BY <1>0, <2>1, <2>4, AboveStep
        <2>7. PICK q \in Nat : q = a \div ARITY
            BY <1>0, Division
        <2>8. q * ARITY <= a
            BY <1>0, <2>7, Division
        <2>9. q < w
            <3> SUFFICES ASSUME q >= w PROVE FALSE
                OBVIOUS
            <3>1. PICK d \in Nat : q = w + d
                <4>1. q - w \in Nat /\ q = w + (q - w)
                    OBVIOUS
                <4> QED
                    BY <4>1
            <3>2. q * ARITY = w * ARITY + d * ARITY /\ d * ARITY \in Nat /\ w * ARITY \in Nat
                BY <1>0, <3>1
            <3> QED
                BY <2>5, <2>8, <3>2
        <2> QED
            BY <2>1, <2>2, <2>6, <2>7, <2>9
    <1> HIDE DEF S
    <1>3. \A level \in 0..TREE_HEIGHT : level \in S
        BY <1>0, <1>1, <1>2, Induction
    <1> QED
        BY <1>3 DEF S

-----------------------------------------------------------------------------
(* The reference. *)

\* What a node of the reference is made from.
ReferenceNode(leaves, level, k, below) ==
    IF ~(k * Power[level] < Len(leaves)) THEN Zero
    ELSE IF level = 0 THEN NoteValue(leaves[k + 1])
    ELSE Hash([j \in 1..ARITY |-> below[k * ARITY + j - 1]])

\* The reference is the function its definition says.
LEMMA ReferenceDef ==
    ASSUME NEW leaves
    PROVE  \A level \in 0..TREE_HEIGHT : \A k \in 0..(Width(level) - 1) :
              ReferenceNodes(leaves)[level][k] =
                 ReferenceNode(leaves, level, k, ReferenceNodes(leaves)[level - 1])
    <1> DEFINE Row(level, below) ==
                  [k \in 0..(Power[TREE_HEIGHT - level] - 1) |-> ReferenceNode(leaves, level, k, below)]
               P(g, n) == g = [i \in 0..n |-> Row(i, g[i - 1])]
               S == {n \in 0..TREE_HEIGHT : \E g : P(g, n)}
    <1>0. TREE_HEIGHT \in Nat
        BY TreeAssumption
    <1>1. \A below, other : Row(0, below) = Row(0, other)
        BY DEF ReferenceNode
    <1>2. 0 \in S
        <2>1. PICK g : g = [i \in 0..0 |-> Row(0, 0)]
            OBVIOUS
        <2>2. \A i \in 0..0 : i = 0 /\ Row(i, 0) = Row(i, g[i - 1])
            BY <1>1
        <2> HIDE DEF Row
        <2>3. P(g, 0)
            BY <2>1, <2>2
        <2> QED
            BY <1>0, <2>3
    <1>3. ASSUME NEW n \in 0..(TREE_HEIGHT - 1), n \in S PROVE n + 1 \in S
        <2>1. PICK g : P(g, n)
            BY <1>3
        <2>2. PICK h : h = [i \in 0..(n + 1) |-> Row(i, g[i - 1])]
            OBVIOUS
        <2> HIDE DEF Row
        <2>3. \A i \in 0..n : g[i] = h[i]
            BY <2>1, <2>2
        <2>4. \A i \in 0..(n + 1) : i = 0 \/ g[i - 1] = h[i - 1]
            BY <2>3
        <2>5. \A i \in 0..(n + 1) : Row(i, g[i - 1]) = Row(i, h[i - 1])
            BY <1>1, <2>4
        <2>6. P(h, n + 1)
            BY <2>2, <2>5
        <2> QED
            BY <1>0, <2>6
    <1>4. \A i \in 0..TREE_HEIGHT : i \in S
        <2> HIDE DEF S
        <2> QED
            BY <1>0, <1>2, <1>3, Induction
    <1>5. PICK g : P(g, TREE_HEIGHT)
        BY <1>0, <1>4
    <1>6. ReferenceNodes(leaves) = CHOOSE f : P(f, TREE_HEIGHT)
        BY DEF ReferenceNodes, ReferenceNode
    <1>7. P(ReferenceNodes(leaves), TREE_HEIGHT)
        <2> HIDE DEF P
        <2> QED
            BY <1>5, <1>6
    <1>8. ASSUME NEW i \in 0..TREE_HEIGHT
          PROVE  ReferenceNodes(leaves)[i] = Row(i, ReferenceNodes(leaves)[i - 1])
        <2> HIDE DEF Row
        <2> QED
            BY <1>7
    <1> QED
        BY <1>8 DEF Width

-----------------------------------------------------------------------------
(* The loops of the contract. *)

\* What a round of the loop of _addNote does.
Round(w) ==
    [index |-> Parent(w.index),
     nodes |-> [w.nodes EXCEPT ![Parent(w.index)] = Hash(ChildrenIn(w.nodes, Parent(w.index)))]]

\* The loop of _addNote: its start, and each round from the one before.
LEMMA RoundsDef ==
    ASSUME NEW note
    PROVE  /\ Rounds(note)[0] = [index |-> nextFreeLeafId, nodes |-> [nodes EXCEPT ![nextFreeLeafId] = note]]
           /\ \A i \in 1..TREE_HEIGHT : Rounds(note)[i] = Round(Rounds(note)[i - 1])
    <1> DEFINE Start == [index |-> nextFreeLeafId, nodes |-> [nodes EXCEPT ![nextFreeLeafId] = note]]
               P(g, n) == g = [i \in 0..n |-> IF i = 0 THEN Start ELSE Round(g[i - 1])]
               S == {n \in 0..TREE_HEIGHT : \E g : P(g, n)}
    <1>0. TREE_HEIGHT \in Nat
        BY TreeAssumption
    <1>1. Rounds(note) = CHOOSE f : P(f, TREE_HEIGHT)
        BY DEF Rounds, Round
    <1> HIDE DEF Start
    <1>2. 0 \in S
        <2>1. PICK g : g = [i \in 0..0 |-> Start]
            OBVIOUS
        <2>2. \A i \in 0..0 : i = 0
            OBVIOUS
        <2>3. P(g, 0)
            BY <2>1, <2>2
        <2> QED
            BY <1>0, <2>3
    <1>3. ASSUME NEW n \in 0..(TREE_HEIGHT - 1), n \in S PROVE n + 1 \in S
        <2>1. PICK g : P(g, n)
            BY <1>3
        <2>2. PICK h : h = [i \in 0..(n + 1) |-> IF i = 0 THEN Start ELSE Round(g[i - 1])]
            OBVIOUS
        <2>3. \A i \in 0..n : g[i] = h[i]
            BY <2>1, <2>2
        <2>4. \A i \in 0..(n + 1) : i = 0 \/ g[i - 1] = h[i - 1]
            BY <2>3
        <2>5. P(h, n + 1)
            BY <2>2, <2>4
        <2> QED
            BY <1>0, <2>5
    <1>4. \A i \in 0..TREE_HEIGHT : i \in S
        <2> HIDE DEF S
        <2> QED
            BY <1>0, <1>2, <1>3, Induction
    <1>5. PICK g : P(g, TREE_HEIGHT)
        BY <1>0, <1>4
    <1>6. P(Rounds(note), TREE_HEIGHT)
        <2> HIDE DEF P
        <2> QED
            BY <1>1, <1>5
    <1>7. Rounds(note)[0] = Start
        BY <1>0, <1>6
    <1>8. \A i \in 1..TREE_HEIGHT : Rounds(note)[i] = Round(Rounds(note)[i - 1])
        BY <1>0, <1>6
    <1> QED
        BY <1>7, <1>8 DEF Start

\* The loop of getMerklePath: the leaf, and each parent from the node before.
LEMMA AncestorsDef ==
    ASSUME NEW id
    PROVE  /\ Ancestors(id)[0] = id
           /\ \A i \in 1..TREE_HEIGHT : Ancestors(id)[i] = Parent(Ancestors(id)[i - 1])
    <1> DEFINE P(g, n) == g = [i \in 0..n |-> IF i = 0 THEN id ELSE Parent(g[i - 1])]
               S == {n \in 0..TREE_HEIGHT : \E g : P(g, n)}
    <1>0. TREE_HEIGHT \in Nat
        BY TreeAssumption
    <1>1. 0 \in S
        <2>1. PICK g : g = [i \in 0..0 |-> id]
            OBVIOUS
        <2>2. \A i \in 0..0 : i = 0
            OBVIOUS
        <2>3. P(g, 0)
            BY <2>1, <2>2
        <2> QED
            BY <1>0, <2>3
    <1>2. ASSUME NEW n \in 0..(TREE_HEIGHT - 1), n \in S PROVE n + 1 \in S
        <2>1. PICK g : P(g, n)
            BY <1>2
        <2>2. PICK h : h = [i \in 0..(n + 1) |-> IF i = 0 THEN id ELSE Parent(g[i - 1])]
            OBVIOUS
        <2>3. \A i \in 0..n : g[i] = h[i]
            BY <2>1, <2>2
        <2>4. \A i \in 0..(n + 1) : i = 0 \/ g[i - 1] = h[i - 1]
            BY <2>3
        <2>5. P(h, n + 1)
            BY <2>2, <2>4
        <2> QED
            BY <1>0, <2>5
    <1>3. \A i \in 0..TREE_HEIGHT : i \in S
        <2> HIDE DEF S
        <2> QED
            BY <1>0, <1>1, <1>2, Induction
    <1>4. PICK g : P(g, TREE_HEIGHT)
        BY <1>0, <1>3
    <1>5. Ancestors(id) = CHOOSE f : P(f, TREE_HEIGHT)
        BY DEF Ancestors
    <1>6. P(Ancestors(id), TREE_HEIGHT)
        <2> HIDE DEF P
        <2> QED
            BY <1>4, <1>5
    <1> QED
        BY <1>0, <1>6


-----------------------------------------------------------------------------
(* The ids of the levels are apart. *)

\* A level ends before the levels below it.
LEMMA Levels ==
    \A level \in 0..TREE_HEIGHT : \A m \in 0..(level - 1) :
        FirstAt(level) + Width(level) <= FirstAt(m)
    <1> DEFINE S == {level \in 0..TREE_HEIGHT : \A m \in 0..(level - 1) :
                        FirstAt(level) + Width(level) <= FirstAt(m)}
    <1>0. TREE_HEIGHT \in Nat
        BY TreeAssumption
    <1>1. 0 \in S
        BY <1>0
    <1>2. ASSUME NEW level \in 0..(TREE_HEIGHT - 1), level \in S PROVE level + 1 \in S
        <2>1. level + 1 \in 1..TREE_HEIGHT /\ level + 1 - 1 = level /\ level + 1 \in 0..TREE_HEIGHT
            BY <1>0
        <2>2. FirstAt(level) = FirstAt(level + 1) + Width(level + 1)
            BY <2>1, LevelBelow
        <2>3. FirstAt(level) \in Nat /\ Width(level) \in Nat
            BY <1>0, LevelFacts
        <2>4. ASSUME NEW m \in 0..level PROVE FirstAt(level) <= FirstAt(m)
            <3>1. CASE m = level
                BY <2>3, <3>1
            <3>2. CASE m # level
                <4>1. m \in 0..(level - 1) /\ m \in 0..TREE_HEIGHT
                    BY <1>0, <3>2
                <4>2. FirstAt(level) + Width(level) <= FirstAt(m) /\ FirstAt(m) \in Nat
                    BY <1>2, <4>1, LevelFacts
                <4> QED
                    BY <2>3, <4>2
            <3> QED
                BY <3>1, <3>2
        <2> QED
            BY <2>1, <2>2, <2>4
    <1> HIDE DEF S
    <1>3. \A level \in 0..TREE_HEIGHT : level \in S
        BY <1>0, <1>1, <1>2, Induction
    <1> QED
        BY <1>3 DEF S

\* A node of a level has an id of the mapping, and two nodes have two ids.
LEMMA NodeId ==
    ASSUME NEW level \in 0..TREE_HEIGHT, NEW k \in 0..(Width(level) - 1)
    PROVE  /\ FirstAt(level) + k \in 1..Size[TREE_HEIGHT]
           /\ \A m \in 0..TREE_HEIGHT : \A j \in 0..(Width(m) - 1) :
                 FirstAt(level) + k = FirstAt(m) + j => level = m /\ k = j
    <1>0. TREE_HEIGHT \in Nat /\ 0 \in 0..TREE_HEIGHT /\ TREE_HEIGHT - 0 = TREE_HEIGHT
        BY TreeAssumption
    <1>1. PICK f \in Nat \ {0} : f = FirstAt(level)
        BY LevelFacts
    <1>2. PICK w \in Nat \ {0} : w = Width(level)
        BY LevelFacts
    <1>3. FirstAt(0) \in Nat \ {0} /\ Width(0) \in Nat \ {0} /\ FirstAt(0) + Width(0) - 1 = Size[TREE_HEIGHT]
        BY <1>0, LevelFacts
    <1>4. f + k \in 1..Size[TREE_HEIGHT]
        <2>1. CASE level = 0
            BY <1>1, <1>2, <1>3, <2>1
        <2>2. CASE level # 0
            <3>1. f + w <= FirstAt(0)
                <4>1. 0 \in 0..(level - 1)
                    BY <2>2
                <4> QED
                    BY <1>1, <1>2, <4>1, Levels
            <3>2. k < w /\ k \in Nat
                BY <1>2
            <3> QED
                BY <1>3, <3>1, <3>2
        <2> QED
            BY <2>1, <2>2
    <1>5. ASSUME NEW m \in 0..TREE_HEIGHT, NEW j \in 0..(Width(m) - 1), f + k = FirstAt(m) + j
          PROVE  level = m /\ k = j
        <2>1. PICK g \in Nat : g = FirstAt(m)
            BY LevelFacts
        <2>2. PICK v \in Nat : v = Width(m)
            BY LevelFacts
        <2>3. k \in 0..(w - 1) /\ j \in 0..(v - 1) /\ f + k = g + j
            BY <1>2, <1>5, <2>1, <2>2
        <2>4. ASSUME m < level PROVE FALSE
            <3>1. m \in 0..(level - 1)
                BY <2>4
            <3>2. f + w <= g
                BY <1>1, <1>2, <2>1, <3>1, Levels
            <3> QED
                BY <2>3, <3>2
        <2>5. ASSUME level < m PROVE FALSE
            <3>1. level \in 0..(m - 1)
                BY <2>5
            <3>2. g + v <= f
                BY <1>1, <2>1, <2>2, <3>1, Levels
            <3> QED
                BY <2>3, <3>2
        <2>6. level = m
            <3>1. m < level \/ level < m \/ level = m
                OBVIOUS
            <3> QED
                BY <2>4, <2>5, <3>1
        <2> QED
            BY <1>1, <2>1, <2>3, <2>6
    <1> QED
        BY <1>1, <1>4, <1>5

-----------------------------------------------------------------------------
(* The reference, when a note is added. *)

\* The child of a node at a place, among the nodes of the level below.
LEMMA Below ==
    ASSUME NEW level \in 1..TREE_HEIGHT, NEW k \in 0..(Width(level) - 1), NEW j \in 1..ARITY
    PROVE  /\ k * ARITY + j - 1 \in 0..(Width(level - 1) - 1)
           /\ (k * ARITY + j - 1) \div ARITY = k /\ (k * ARITY + j - 1) % ARITY = j - 1
    <1>0. ARITY \in Nat \ {0} /\ TREE_HEIGHT \in Nat
        BY TreeAssumption
    <1>1. PICK w \in Nat : w = Width(level)
        BY LevelBelow, LevelFacts
    <1>2. Width(level - 1) = w * ARITY
        BY <1>1, LevelBelow
    <1>3. k \in Nat /\ k < w /\ j - 1 \in 0..(ARITY - 1)
        BY <1>0, <1>1
    <1>4. PICK r \in 0..(ARITY - 1) : r = j - 1
        BY <1>3
    <1>5. (k * ARITY + r) \div ARITY = k /\ (k * ARITY + r) % ARITY = r
        BY <1>0, <1>3, Quotient
    <1>6. k * ARITY + r \in 0..(w * ARITY - 1)
        <2>1. PICK d \in Nat : w = k + 1 + d
            <3>1. w - k - 1 \in Nat /\ w = k + 1 + (w - k - 1)
                BY <1>3
            <3> QED
                BY <3>1
        <2>2. w * ARITY = k * ARITY + ARITY + d * ARITY /\ d * ARITY \in Nat /\ k * ARITY \in Nat
            BY <1>0, <1>3, <2>1
        <2> QED
            BY <1>0, <2>2
    <1>7. k * ARITY + j - 1 = k * ARITY + r
        <2>1. k * ARITY \in Int
            BY <1>0, <1>3
        <2> QED
            BY <1>4, <2>1
    <1> QED
        BY <1>2, <1>4, <1>5, <1>6, <1>7

\* A new leaf fills a node that had none only when it is the first leaf of the node.
LEMMA FirstLeaf ==
    ASSUME NEW level \in 0..TREE_HEIGHT, NEW leaf \in Nat, NEW k \in Nat, k # Above(level, leaf)
    PROVE  k * Power[level] < leaf <=> k * Power[level] < leaf + 1
    <1>1. PICK p \in Nat \ {0} : p = Power[level]
        BY PowerNat
    <1>2. ASSUME k * p = leaf PROVE FALSE
        <2>1. PICK r \in 0..(p - 1) : r = 0
            OBVIOUS
        <2>2. (k * p + r) \div p = k
            BY Quotient
        <2>3. k * p + r = leaf
            BY <1>2, <2>1
        <2> QED
            BY <1>1, <2>2, <2>3 DEF Above
    <1>3. PICK kp \in Nat : kp = k * p
        OBVIOUS
    <1> QED
        BY <1>1, <1>2, <1>3

\* The reference changes at the ancestors of the new leaf and nowhere else, and each of
\* them is then the hash of its children.
LEMMA ReferenceStep ==
    ASSUME NEW leaves \in Seq(Commitments), NEW commitment \in Commitments,
           Len(leaves) < Power[TREE_HEIGHT]
    PROVE  LET before == ReferenceNodes(leaves)
               after == ReferenceNodes(Append(leaves, commitment))
               leaf == Len(leaves)
           IN  /\ after[0][leaf] = NoteValue(commitment)
               /\ \A level \in 0..TREE_HEIGHT : \A k \in 0..(Width(level) - 1) :
                     k # Above(level, leaf) => after[level][k] = before[level][k]
               /\ \A level \in 1..TREE_HEIGHT :
                     after[level][Above(level, leaf)] =
                        Hash([j \in 1..ARITY |-> after[level - 1][Above(level, leaf) * ARITY + j - 1]])
    <1> DEFINE before == ReferenceNodes(leaves)
               after == ReferenceNodes(Append(leaves, commitment))
    <1>0. ARITY \in Nat \ {0} /\ TREE_HEIGHT \in Nat /\ 0 \in 0..TREE_HEIGHT
        BY TreeAssumption
    <1>1. PICK leaf \in Nat : leaf = Len(leaves)
        OBVIOUS
    <1>2. leaf \in 0..(Power[TREE_HEIGHT] - 1)
        BY <1>0, <1>1, PowerNat
    <1>3. \A level \in 0..TREE_HEIGHT : Above(level, leaf) \in 0..(Width(level) - 1)
        BY <1>2, AboveWithin
    <1>4. PICK longer : longer = Append(leaves, commitment)
        OBVIOUS
    <1>5. Len(longer) = leaf + 1 /\ longer[leaf + 1] = commitment /\ \A i \in 1..leaf : longer[i] = leaves[i]
        BY <1>1, <1>4
    <1>6. \A level \in 0..TREE_HEIGHT : \A k \in 0..(Width(level) - 1) :
             before[level][k] = ReferenceNode(leaves, level, k, before[level - 1])
        BY ReferenceDef
    <1>7. \A level \in 0..TREE_HEIGHT : \A k \in 0..(Width(level) - 1) :
             after[level][k] = ReferenceNode(longer, level, k, after[level - 1])
        BY <1>4, ReferenceDef
    <1> HIDE DEF before, after
    <1>8. after[0][leaf] = NoteValue(commitment)
        <2>1. Above(0, leaf) = leaf /\ leaf \in 0..(Width(0) - 1)
            BY <1>0, <1>3, AboveStep
        <2>2. leaf * Power[0] < leaf + 1
            BY PowerDef
        <2> QED
            BY <1>0, <1>5, <1>7, <2>1, <2>2 DEF ReferenceNode
    <1> DEFINE S == {level \in 0..TREE_HEIGHT : \A k \in 0..(Width(level) - 1) :
                        k # Above(level, leaf) => after[level][k] = before[level][k]}
    <1>9. 0 \in S
        <2>1. ASSUME NEW k \in 0..(Width(0) - 1), k # Above(0, leaf) PROVE after[0][k] = before[0][k]
            <3>1. k \in Nat /\ k * Power[0] = k
                BY PowerDef
            <3>2. k # leaf
                BY <2>1, AboveStep
            <3>3. k < leaf <=> k < leaf + 1
                BY <3>1, <3>2
            <3>4. k < leaf => longer[k + 1] = leaves[k + 1]
                BY <1>5, <3>1
            <3> QED
                BY <1>0, <1>1, <1>5, <1>6, <1>7, <3>1, <3>3, <3>4 DEF ReferenceNode
        <2> QED
            BY <1>0, <2>1
    <1>10. ASSUME NEW i \in 0..(TREE_HEIGHT - 1), i \in S PROVE i + 1 \in S
        <2>1. PICK level \in 1..TREE_HEIGHT : level = i + 1
            BY <1>0
        <2>2. level - 1 = i /\ level \in 0..TREE_HEIGHT /\ level # 0 /\ level - 1 \in 0..TREE_HEIGHT
            BY <1>0, <2>1
        <2>3. ASSUME NEW k \in 0..(Width(level) - 1), k # Above(level, leaf)
              PROVE  after[level][k] = before[level][k]
            <3>1. k \in Nat
                OBVIOUS
            <3>2. k * Power[level] < leaf <=> k * Power[level] < leaf + 1
                BY <2>2, <2>3, <3>1, FirstLeaf
            <3>3. ASSUME NEW j \in 1..ARITY
                  PROVE  after[i][k * ARITY + j - 1] = before[i][k * ARITY + j - 1]
                <4>1. /\ k * ARITY + j - 1 \in 0..(Width(i) - 1)
                      /\ (k * ARITY + j - 1) \div ARITY = k
                    BY <2>2, Below
                <4>2. Above(level, leaf) = Above(i, leaf) \div ARITY
                    BY <2>2, AboveStep
                <4>3. k * ARITY + j - 1 # Above(i, leaf)
                    BY <2>3, <4>1, <4>2
                <4> QED
                    BY <1>10, <4>1, <4>3
            <3>4. Hash([j \in 1..ARITY |-> after[i][k * ARITY + j - 1]]) =
                  Hash([j \in 1..ARITY |-> before[i][k * ARITY + j - 1]])
                BY <3>3 DEF Hash
            <3>5. after[level][k] = ReferenceNode(longer, level, k, after[i])
                BY <1>7, <2>2
            <3>6. before[level][k] = ReferenceNode(leaves, level, k, before[i])
                BY <1>6, <2>2
            <3> QED
                BY <1>1, <1>5, <2>2, <3>2, <3>4, <3>5, <3>6 DEF ReferenceNode
        <2> QED
            BY <2>1, <2>2, <2>3
    <1>11. \A level \in 0..TREE_HEIGHT : level \in S
        <2> HIDE DEF S
        <2> QED
            BY <1>0, <1>9, <1>10, Induction
    <1>12. ASSUME NEW level \in 1..TREE_HEIGHT
           PROVE  after[level][Above(level, leaf)] =
                     Hash([j \in 1..ARITY |-> after[level - 1][Above(level, leaf) * ARITY + j - 1]])
        <2>1. level \in 0..TREE_HEIGHT /\ level # 0
            BY <1>0
        <2>2. PICK k \in 0..(Width(level) - 1) : k = Above(level, leaf)
            BY <1>3, <2>1
        <2>3. k \in Nat /\ k * Power[level] \in Int
            BY <2>1, PowerNat
        <2>4. k * Power[level] <= leaf
            BY <2>1, <2>2, <2>3, AboveOrder
        <2>5. k * Power[level] < Len(longer)
            BY <1>5, <2>3, <2>4
        <2>6. after[level][k] = ReferenceNode(longer, level, k, after[level - 1])
            BY <1>7, <2>1
        <2> QED
            BY <2>1, <2>2, <2>5, <2>6 DEF ReferenceNode
    <1> QED
        BY <1>1, <1>8, <1>11, <1>12 DEF before, after

-----------------------------------------------------------------------------
(* Lists of different lengths have different roots. *)

\* Poseidon2 free of collisions: above the first leaf that only one of two trees has, the
\* nodes of the two differ up to the root.
LEMMA RootsDiffer ==
    ASSUME NEW s \in Seq(Commitments), NEW t \in Seq(Commitments),
           Len(s) < Len(t), Len(t) <= Power[TREE_HEIGHT]
    PROVE  ReferenceRoot(s) # ReferenceRoot(t)
    <1> DEFINE V == ReferenceNodes(s)
               W == ReferenceNodes(t)
    <1>0. ARITY \in Nat \ {0, 1} /\ TREE_HEIGHT \in Nat /\ 0 \in 0..TREE_HEIGHT
        BY TreeAssumption
    <1>1. PICK leaf \in Nat : leaf = Len(s)
        OBVIOUS
    <1>2. leaf < Len(t) /\ Len(t) \in Nat /\ leaf \in 0..(Power[TREE_HEIGHT] - 1)
        BY <1>0, <1>1, PowerNat
    <1>3. \A level \in 0..TREE_HEIGHT : Above(level, leaf) \in 0..(Width(level) - 1)
        BY <1>2, AboveWithin
    <1>4. \A level \in 0..TREE_HEIGHT : \A k \in 0..(Width(level) - 1) :
             V[level][k] = ReferenceNode(s, level, k, V[level - 1])
        BY ReferenceDef
    <1>5. \A level \in 0..TREE_HEIGHT : \A k \in 0..(Width(level) - 1) :
             W[level][k] = ReferenceNode(t, level, k, W[level - 1])
        BY ReferenceDef
    <1> HIDE DEF V, W
    <1> DEFINE S == {level \in 0..TREE_HEIGHT : V[level][Above(level, leaf)] # W[level][Above(level, leaf)]}
    <1>6. \A level \in 0..TREE_HEIGHT : Above(level, leaf) * Power[level] < Len(t)
        <2> TAKE level \in 0..TREE_HEIGHT
        <2>1. PICK k \in Nat : k = Above(level, leaf)
            BY AboveStep
        <2>2. k * Power[level] <= leaf /\ k * Power[level] \in Int
            BY <2>1, AboveOrder, PowerNat
        <2> QED
            BY <1>2, <2>1, <2>2
    <1>7. 0 \in S
        <2>1. Above(0, leaf) = leaf /\ leaf \in 0..(Width(0) - 1) /\ leaf * Power[0] = leaf
            BY <1>0, <1>3, AboveStep, PowerDef
        <2>2. V[0][leaf] = Zero
            <3>1. V[0][leaf] = ReferenceNode(s, 0, leaf, V[0 - 1])
                BY <1>0, <1>4, <2>1
            <3>2. ~(leaf * Power[0] < Len(s))
                BY <1>1, <2>1
            <3> QED
                BY <3>1, <3>2 DEF ReferenceNode
        <2>3. W[0][leaf] = NoteValue(t[leaf + 1])
            BY <1>0, <1>2, <1>5, <2>1 DEF ReferenceNode
        <2>4. \A x : NoteValue(x) # Zero
            <3> TAKE x
            <3>1. 1 \in DOMAIN NoteValue(x)
                BY DEF NoteValue
            <3>2. DOMAIN Zero = {}
                BY DEF Zero
            <3> QED
                BY <3>1, <3>2
        <2> QED
            BY <1>0, <2>1, <2>2, <2>3, <2>4
    <1>8. ASSUME NEW i \in 0..(TREE_HEIGHT - 1), i \in S PROVE i + 1 \in S
        <2>1. PICK level \in 1..TREE_HEIGHT : level = i + 1
            BY <1>0
        <2>2. level - 1 = i /\ level \in 0..TREE_HEIGHT /\ level # 0 /\ i \in 0..TREE_HEIGHT
            BY <1>0, <2>1
        <2>3. PICK k \in 0..(Width(level) - 1) : k = Above(level, leaf)
            BY <1>3, <2>2
        <2>4. PICK a \in Nat : a = Above(i, leaf)
            BY <2>2, AboveStep
        <2>5. k = a \div ARITY
            BY <2>2, <2>3, <2>4, AboveStep
        <2>6. PICK r \in 0..(ARITY - 1) : r = a % ARITY
            BY <1>0, Division
        <2>7. a = k * ARITY + r /\ k \in Nat
            BY <1>0, <2>5, <2>6, Division
        <2>8. PICK place \in 1..ARITY : place = r + 1
            BY <1>0
        <2>9. k * ARITY + place - 1 = a
            <3>1. k * ARITY \in Int
                BY <1>0
            <3> QED
                BY <2>7, <2>8, <3>1
        <2>10. W[level][k] = [j \in 1..ARITY |-> W[i][k * ARITY + j - 1]]
            <3>1. W[level][k] = ReferenceNode(t, level, k, W[i])
                BY <1>5, <2>2
            <3>2. k * Power[level] < Len(t)
                BY <1>6, <2>2, <2>3
            <3> QED
                BY <2>2, <3>1, <3>2 DEF ReferenceNode, Hash
        <2>11. V[level][k] = Zero \/ V[level][k] = [j \in 1..ARITY |-> V[i][k * ARITY + j - 1]]
            <3>1. V[level][k] = ReferenceNode(s, level, k, V[i])
                BY <1>4, <2>2
            <3> QED
                BY <2>2, <3>1 DEF ReferenceNode, Hash
        <2>12. ASSUME V[level][k] = Zero PROVE V[level][k] # W[level][k]
            <3>1. DOMAIN W[level][k] = 1..ARITY /\ 1 \in 1..ARITY
                BY <1>0, <2>10
            <3>2. DOMAIN Zero = {}
                BY DEF Zero
            <3> QED
                BY <2>12, <3>1, <3>2
        <2>13. ASSUME V[level][k] = [j \in 1..ARITY |-> V[i][k * ARITY + j - 1]]
               PROVE  V[level][k] # W[level][k]
            <3>1. V[level][k][place] = V[i][a] /\ W[level][k][place] = W[i][a]
                BY <2>9, <2>10, <2>13
            <3>2. V[i][a] # W[i][a]
                BY <1>8, <2>4
            <3> QED
                BY <3>1, <3>2
        <2> QED
            BY <2>1, <2>2, <2>3, <2>11, <2>12, <2>13
    <1>9. \A level \in 0..TREE_HEIGHT : level \in S
        <2> HIDE DEF S
        <2> QED
            BY <1>0, <1>7, <1>8, Induction
    <1>10. TREE_HEIGHT \in 0..TREE_HEIGHT
        BY <1>0
    <1>11. Above(TREE_HEIGHT, leaf) = 0
        <2>1. Above(TREE_HEIGHT, leaf) \in 0..(Width(TREE_HEIGHT) - 1)
            BY <1>3, <1>10
        <2>2. Width(TREE_HEIGHT) = 1
            BY <1>10, LevelFacts
        <2> QED
            BY <2>1, <2>2
    <1> QED
        BY <1>9, <1>10, <1>11 DEF ReferenceRoot, V, W

-----------------------------------------------------------------------------
(* The inductive invariant: the mapping holds the reference of the notes added. *)

\* The mapping has a node for every id, and each holds the reference's value.
Holds(values, leaves) ==
    /\ DOMAIN values = 1..Size[TREE_HEIGHT]
    /\ \A level \in 0..TREE_HEIGHT : \A k \in 0..(Width(level) - 1) :
          values[FirstAt(level) + k] = ReferenceNodes(leaves)[level][k]

TreeInv ==
    /\ added \in Seq(Commitments) /\ Len(added) <= Power[TREE_HEIGHT]
    /\ firstLeafId = FirstAt(0) /\ maxLeafId = Size[TREE_HEIGHT]
    /\ nextFreeLeafId = FirstAt(0) + Len(added)
    /\ Holds(nodes, added)
    /\ root = ReferenceRoot(added)
    /\ merkleRoots = {ReferenceRoot(SubSeq(added, 1, k)) : k \in 1..Len(added)}
    /\ added # <<>> => returned = Len(added) - 1

\* A mapping after a write to a node, and a mapping that holds the values of a level.
Writes(written, values, level, k, value) == written = [values EXCEPT ![FirstAt(level) + k] = value]
Written(written, values, level, k, value) ==
    /\ DOMAIN written = 1..Size[TREE_HEIGHT]
    /\ written[FirstAt(level) + k] = value
    /\ \A m \in 0..TREE_HEIGHT : \A j \in 0..(Width(m) - 1) :
          (m # level \/ j # k) => written[FirstAt(m) + j] = values[FirstAt(m) + j]
HasRow(values, level, row) == \A j \in 0..(Width(level) - 1) : values[FirstAt(level) + j] = row[j]

\* A write to a node is a write to that node only.
LEMMA Write ==
    ASSUME NEW values, DOMAIN values = 1..Size[TREE_HEIGHT], NEW value,
           NEW level \in 0..TREE_HEIGHT, NEW k \in 0..(Width(level) - 1),
           NEW written, Writes(written, values, level, k, value)
    PROVE  Written(written, values, level, k, value)
    <1>1. FirstAt(level) + k \in 1..Size[TREE_HEIGHT]
        BY NodeId
    <1>2. DOMAIN written = 1..Size[TREE_HEIGHT] /\ written[FirstAt(level) + k] = value
        BY <1>1 DEF Writes
    <1>3. ASSUME NEW m \in 0..TREE_HEIGHT, NEW j \in 0..(Width(m) - 1), m # level \/ j # k
          PROVE  written[FirstAt(m) + j] = values[FirstAt(m) + j]
        <2>1. FirstAt(m) + j \in 1..Size[TREE_HEIGHT]
            BY NodeId
        <2>2. FirstAt(level) + k # FirstAt(m) + j
            BY <1>3, NodeId
        <2> QED
            BY <2>1, <2>2 DEF Writes
    <1> QED
        BY <1>2, <1>3 DEF Written

\* The children of a node, in a mapping that holds the values of the level below it.
LEMMA ChildrenOf ==
    ASSUME NEW values, NEW row, NEW level \in 1..TREE_HEIGHT, NEW k \in 0..(Width(level) - 1),
           HasRow(values, level - 1, row)
    PROVE  ChildrenIn(values, FirstAt(level) + k) = [j \in 1..ARITY |-> row[k * ARITY + j - 1]]
    <1>0. ARITY \in Nat
        BY TreeAssumption
    <1>1. k \in Nat
        OBVIOUS
    <1>2. ASSUME NEW j \in 1..ARITY
          PROVE  values[Child(FirstAt(level) + k, j - 1)] = row[k * ARITY + j - 1]
        <2>1. PICK r \in Int : r = j - 1
            BY <1>0
        <2>2. Child(FirstAt(level) + k, r) = FirstAt(level - 1) + (k * ARITY + r)
            BY <1>1, ChildId
        <2>3. k * ARITY + j - 1 = k * ARITY + r
            <3>1. k * ARITY \in Int /\ j \in Int
                BY <1>0, <1>1
            <3> QED
                BY <2>1, <3>1
        <2>4. k * ARITY + j - 1 \in 0..(Width(level - 1) - 1)
            BY Below
        <2> QED
            BY <2>1, <2>2, <2>3, <2>4 DEF HasRow
    <1> QED
        BY <1>2 DEF ChildrenIn

\* The rounds of _addNote climb from the new leaf: after i of them the levels up to i are
\* those of the longer list, and those above are as they were.
LEMMA Climb ==
    ASSUME TreeInv, NEW commitment \in Commitments, nextFreeLeafId <= maxLeafId
    PROVE  /\ Len(added) < Power[TREE_HEIGHT]
           /\ \A i \in 0..TREE_HEIGHT :
                 LET round == Rounds(NoteValue(commitment))[i]
                     after == ReferenceNodes(Append(added, commitment))
                 IN  /\ round.index = FirstAt(i) + Above(i, Len(added))
                     /\ DOMAIN round.nodes = 1..Size[TREE_HEIGHT]
                     /\ \A level \in 0..TREE_HEIGHT : \A k \in 0..(Width(level) - 1) :
                           round.nodes[FirstAt(level) + k] =
                              IF level <= i THEN after[level][k] ELSE ReferenceNodes(added)[level][k]
    <1>0. ARITY \in Nat \ {0} /\ TREE_HEIGHT \in Nat /\ 0 \in 0..TREE_HEIGHT /\ TREE_HEIGHT - 0 = TREE_HEIGHT
        BY TreeAssumption
    <1>1. PICK leaf \in Nat : leaf = Len(added)
        BY DEF TreeInv
    <1>2. /\ FirstAt(0) \in Nat /\ FirstAt(0) + Width(0) - 1 = Size[TREE_HEIGHT]
          /\ Width(0) = Power[TREE_HEIGHT] /\ Power[TREE_HEIGHT] \in Nat
        <2>1. Width(0) = Power[TREE_HEIGHT] /\ TREE_HEIGHT \in 0..TREE_HEIGHT
            BY <1>0 DEF Width
        <2> QED
            BY <1>0, <2>1, LevelFacts, PowerNat
    <1>3. nextFreeLeafId = FirstAt(0) + leaf /\ maxLeafId = Size[TREE_HEIGHT]
        BY <1>1 DEF TreeInv
    <1>4. leaf < Power[TREE_HEIGHT]
        BY <1>2, <1>3
    <1>5. leaf \in 0..(Power[TREE_HEIGHT] - 1)
        BY <1>2, <1>4
    <1>6. \A level \in 0..TREE_HEIGHT : Above(level, leaf) \in 0..(Width(level) - 1)
        BY <1>5, AboveWithin
    <1>7. PICK before : before = ReferenceNodes(added)
        OBVIOUS
    <1>8. PICK after : after = ReferenceNodes(Append(added, commitment))
        OBVIOUS
    <1>9. /\ after[0][leaf] = NoteValue(commitment)
          /\ \A level \in 0..TREE_HEIGHT : \A k \in 0..(Width(level) - 1) :
                k # Above(level, leaf) => after[level][k] = before[level][k]
          /\ \A level \in 1..TREE_HEIGHT :
                after[level][Above(level, leaf)] =
                   Hash([j \in 1..ARITY |-> after[level - 1][Above(level, leaf) * ARITY + j - 1]])
        <2>1. PICK leaves \in Seq(Commitments) : leaves = added
            BY DEF TreeInv
        <2>2. Len(leaves) < Power[TREE_HEIGHT]
            BY <1>1, <1>4, <2>1
        <2> QED
            BY <1>1, <1>7, <1>8, <2>1, <2>2, ReferenceStep
    <1>10. PICK walk : walk = Rounds(NoteValue(commitment))
        OBVIOUS
    <1>11. walk[0] = [index |-> nextFreeLeafId, nodes |-> [nodes EXCEPT ![nextFreeLeafId] = NoteValue(commitment)]]
        BY <1>10, RoundsDef
    <1>12. ASSUME NEW i \in 1..TREE_HEIGHT
           PROVE  walk[i] = Round(walk[i - 1])
        BY <1>10, RoundsDef
    <1> DEFINE Climbed(i) ==
                  /\ walk[i].index = FirstAt(i) + Above(i, leaf)
                  /\ DOMAIN walk[i].nodes = 1..Size[TREE_HEIGHT]
                  /\ \A level \in 0..TREE_HEIGHT : \A k \in 0..(Width(level) - 1) :
                        walk[i].nodes[FirstAt(level) + k] =
                           IF level <= i THEN after[level][k] ELSE before[level][k]
               S == {i \in 0..TREE_HEIGHT : Climbed(i)}
    <1>13. Climbed(0)
        <2>1. Above(0, leaf) = leaf /\ leaf \in 0..(Width(0) - 1)
            BY <1>0, <1>6, AboveStep
        <2>2. walk[0].index = FirstAt(0) + leaf
            BY <1>3, <1>11
        <2>3. PICK written : written = walk[0].nodes
            OBVIOUS
        <2>4. PICK values : values = nodes
            OBVIOUS
        <2>5. Writes(written, values, 0, leaf, NoteValue(commitment))
            BY <1>3, <1>11, <2>3, <2>4 DEF Writes
        <2>6. /\ DOMAIN values = 1..Size[TREE_HEIGHT]
              /\ \A level \in 0..TREE_HEIGHT : \A k \in 0..(Width(level) - 1) :
                    values[FirstAt(level) + k] = before[level][k]
            BY <1>7, <2>4 DEF TreeInv, Holds
        <2>7. /\ DOMAIN written = 1..Size[TREE_HEIGHT]
              /\ written[FirstAt(0) + leaf] = NoteValue(commitment)
              /\ \A m \in 0..TREE_HEIGHT : \A j \in 0..(Width(m) - 1) :
                    (m # 0 \/ j # leaf) => written[FirstAt(m) + j] = values[FirstAt(m) + j]
            <3>1. Written(written, values, 0, leaf, NoteValue(commitment))
                BY <1>0, <2>1, <2>5, <2>6, Write
            <3> QED
                BY <3>1 DEF Written
        <2>8. ASSUME NEW level \in 0..TREE_HEIGHT, NEW k \in 0..(Width(level) - 1)
              PROVE  written[FirstAt(level) + k] =
                        IF level <= 0 THEN after[level][k] ELSE before[level][k]
            <3>1. CASE level = 0 /\ k = leaf
                BY <1>9, <2>7, <3>1
            <3>2. CASE level = 0 /\ k # leaf
                BY <1>9, <2>1, <2>6, <2>7, <3>2
            <3>3. CASE level # 0
                BY <2>6, <2>7, <3>3
            <3> QED
                BY <3>1, <3>2, <3>3
        <2> QED
            BY <2>1, <2>2, <2>3, <2>7, <2>8
    <1>14. ASSUME NEW i \in 0..(TREE_HEIGHT - 1), Climbed(i) PROVE Climbed(i + 1)
        <2>1. PICK up \in 1..TREE_HEIGHT : up = i + 1
            BY <1>0
        <2>2. up - 1 = i /\ up \in 0..TREE_HEIGHT /\ i \in 0..TREE_HEIGHT
            BY <1>0, <2>1
        <2>3. PICK values : values = walk[i].nodes
            OBVIOUS
        <2>4. /\ DOMAIN values = 1..Size[TREE_HEIGHT]
              /\ \A level \in 0..TREE_HEIGHT : \A k \in 0..(Width(level) - 1) :
                    values[FirstAt(level) + k] = IF level <= i THEN after[level][k] ELSE before[level][k]
            BY <1>14, <2>3
        <2>5. PICK a \in Nat : a = Above(i, leaf)
            BY <2>2, AboveStep
        <2>6. PICK place \in 0..(Width(up) - 1) : place = Above(up, leaf)
            BY <1>6, <2>2
        <2>7. place = a \div ARITY
            BY <2>2, <2>5, <2>6, AboveStep
        <2>8. Parent(walk[i].index) = FirstAt(up) + place
            <3>1. walk[i].index = FirstAt(i) + a
                BY <1>14, <2>5
            <3>2. Parent(FirstAt(up - 1) + a) = FirstAt(up) + (a \div ARITY)
                BY ParentId
            <3> QED
                BY <2>2, <2>7, <3>1, <3>2
        <2>9. Hash(ChildrenIn(values, FirstAt(up) + place)) = after[up][place]
            <3> PICK row : row = after[i]
                OBVIOUS
            <3>1. HasRow(values, up - 1, row)
                <4>1. i <= i
                    OBVIOUS
                <4> QED
                    BY <2>2, <2>4, <4>1 DEF HasRow
            <3>2. ChildrenIn(values, FirstAt(up) + place) = [j \in 1..ARITY |-> row[place * ARITY + j - 1]]
                BY <3>1, ChildrenOf
            <3> QED
                BY <1>9, <2>2, <2>6, <3>2
        <2>10. PICK written : written = walk[up].nodes
            OBVIOUS
        <2>11. /\ walk[up].index = FirstAt(up) + place
               /\ Writes(written, values, up, place, after[up][place])
            <3>1. walk[up] = Round(walk[i])
                BY <1>12, <2>2
            <3>2. /\ walk[up].index = Parent(walk[i].index)
                  /\ written = [values EXCEPT ![Parent(walk[i].index)] =
                                               Hash(ChildrenIn(values, Parent(walk[i].index)))]
                BY <2>3, <2>10, <3>1 DEF Round
            <3> QED
                BY <2>8, <2>9, <3>2 DEF Writes
        <2>12. /\ DOMAIN written = 1..Size[TREE_HEIGHT]
               /\ written[FirstAt(up) + place] = after[up][place]
               /\ \A m \in 0..TREE_HEIGHT : \A j \in 0..(Width(m) - 1) :
                     (m # up \/ j # place) => written[FirstAt(m) + j] = values[FirstAt(m) + j]
            <3>1. Written(written, values, up, place, after[up][place])
                BY <2>2, <2>4, <2>11, Write
            <3> QED
                BY <3>1 DEF Written
        <2>13. ASSUME NEW level \in 0..TREE_HEIGHT, NEW k \in 0..(Width(level) - 1)
               PROVE  written[FirstAt(level) + k] =
                         IF level <= up THEN after[level][k] ELSE before[level][k]
            <3>1. CASE level = up /\ k = place
                BY <2>12, <3>1
            <3>2. CASE level = up /\ k # place
                <4>1. written[FirstAt(level) + k] = values[FirstAt(level) + k]
                    BY <2>12, <3>2
                <4>2. ~(level <= i) /\ level <= up
                    BY <2>1, <3>2
                <4>3. after[level][k] = before[level][k]
                    BY <1>9, <2>6, <3>2
                <4> QED
                    BY <2>4, <4>1, <4>2, <4>3
            <3>3. CASE level # up
                <4>1. written[FirstAt(level) + k] = values[FirstAt(level) + k]
                    BY <2>12, <3>3
                <4>2. level <= i <=> level <= up
                    BY <2>1, <3>3
                <4> QED
                    BY <2>4, <4>1, <4>2
            <3> QED
                BY <3>1, <3>2, <3>3
        <2> QED
            BY <2>1, <2>6, <2>10, <2>11, <2>12, <2>13
    <1>15. \A i \in 0..TREE_HEIGHT : i \in S
        <2>1. 0 \in S
            BY <1>0, <1>13
        <2>2. ASSUME NEW i \in 0..(TREE_HEIGHT - 1), i \in S PROVE i + 1 \in S
            <3>1. Climbed(i)
                BY <2>2
            <3>2. i + 1 \in 0..TREE_HEIGHT
                BY <1>0
            <3> HIDE DEF Climbed
            <3> QED
                BY <1>14, <3>1, <3>2
        <2> HIDE DEF S
        <2> QED
            BY <1>0, <2>1, <2>2, Induction
    <1> QED
        BY <1>1, <1>4, <1>7, <1>8, <1>10, <1>15

\* The empty tree is the reference of no notes.
LEMMA TreeInvInit == Init => TreeInv
    <1> SUFFICES ASSUME Init PROVE TreeInv
        OBVIOUS
    <1>0. TREE_HEIGHT \in Nat /\ 0 \in 0..TREE_HEIGHT /\ TREE_HEIGHT - 0 = TREE_HEIGHT
          /\ TREE_HEIGHT \in 0..TREE_HEIGHT
        BY TreeAssumption
    <1>1. /\ nodes = [id \in 1..Size[TREE_HEIGHT] |-> Zero] /\ root = Zero
          /\ maxLeafId = Size[TREE_HEIGHT] /\ nextFreeLeafId = FirstAt(0) /\ firstLeafId = FirstAt(0)
          /\ merkleRoots = {} /\ added = <<>>
        BY <1>0 DEF Init, TreeBounds, FirstAt
    <1>2. FirstAt(0) \in Nat /\ Power[TREE_HEIGHT] \in Nat
        BY <1>0, LevelFacts, PowerNat
    <1>3. PICK none \in Seq(Commitments) : none = <<>>
        <2>1. <<>> \in Seq(Commitments)
            OBVIOUS
        <2> QED
            BY <2>1
    <1>4. ASSUME NEW level \in 0..TREE_HEIGHT, NEW k \in 0..(Width(level) - 1)
          PROVE  ReferenceNodes(none)[level][k] = Zero
        <2>1. ReferenceNodes(none)[level][k] = ReferenceNode(none, level, k, ReferenceNodes(none)[level - 1])
            BY ReferenceDef
        <2>2. ~(k * Power[level] < 0)
            <3>1. k \in Nat /\ Power[level] \in Nat
                BY PowerNat
            <3>2. k * Power[level] \in Nat
                BY <3>1
            <3> QED
                BY <3>2
        <2>3. Len(none) = 0
            BY <1>3
        <2> QED
            BY <2>1, <2>2, <2>3 DEF ReferenceNode
    <1>5. Holds(nodes, none)
        <2>1. ASSUME NEW level \in 0..TREE_HEIGHT, NEW k \in 0..(Width(level) - 1)
              PROVE  nodes[FirstAt(level) + k] = Zero
            BY <1>1, NodeId
        <2> QED
            BY <1>1, <1>4, <2>1 DEF Holds
    <1>6. root = ReferenceRoot(none)
        <2>1. 0 \in 0..(Width(TREE_HEIGHT) - 1)
            BY <1>0, LevelFacts
        <2> QED
            BY <1>0, <1>1, <1>4, <2>1 DEF ReferenceRoot
    <1>7. merkleRoots = {ReferenceRoot(SubSeq(added, 1, k)) : k \in 1..Len(added)}
        <2>1. Len(added) = 0
            BY <1>1
        <2>2. 1..0 = {}
            OBVIOUS
        <2> QED
            BY <1>1, <2>1, <2>2
    <1>8. added = none /\ added \in Seq(Commitments) /\ Len(added) = 0
        BY <1>1, <1>3
    <1>9. Len(added) <= Power[TREE_HEIGHT] /\ nextFreeLeafId = FirstAt(0) + Len(added)
        BY <1>1, <1>2, <1>8
    <1> QED
        BY <1>1, <1>3, <1>5, <1>6, <1>7, <1>8, <1>9 DEF TreeInv

\* An insertion climbs to the root of the longer list.
LEMMA TreeInvAddNote ==
    ASSUME TreeInv, NEW commitment \in Commitments, addNote(commitment)
    PROVE  TreeInv'
    <1>0. TREE_HEIGHT \in Nat /\ 0 \in 0..TREE_HEIGHT /\ TREE_HEIGHT \in 0..TREE_HEIGHT
        BY TreeAssumption
    <1>1. PICK end : end = Rehash(NoteValue(commitment))
        OBVIOUS
    <1>2. /\ nextFreeLeafId <= maxLeafId /\ nodes' = end.nodes /\ root' = end.nodes[end.index]
          /\ nextFreeLeafId' = nextFreeLeafId + 1 /\ merkleRoots' = merkleRoots \cup {root'}
          /\ returned' = nextFreeLeafId' - firstLeafId - 1 /\ added' = Append(added, commitment)
          /\ maxLeafId' = maxLeafId /\ firstLeafId' = firstLeafId
        BY <1>1 DEF addNote
    <1>3. PICK leaves \in Seq(Commitments) : leaves = added
        BY DEF TreeInv
    <1>4. PICK longer \in Seq(Commitments) : longer = Append(leaves, commitment)
        <2>1. Append(leaves, commitment) \in Seq(Commitments)
            OBVIOUS
        <2> QED
            BY <2>1
    <1>5. PICK leaf \in Nat : leaf = Len(leaves)
        OBVIOUS
    <1>6. added' = longer /\ Len(longer) = leaf + 1
        BY <1>2, <1>3, <1>4, <1>5
    <1>7. /\ leaf < Power[TREE_HEIGHT]
          /\ end.index = FirstAt(TREE_HEIGHT) + Above(TREE_HEIGHT, leaf)
          /\ DOMAIN end.nodes = 1..Size[TREE_HEIGHT]
          /\ \A level \in 0..TREE_HEIGHT : \A k \in 0..(Width(level) - 1) :
                end.nodes[FirstAt(level) + k] =
                   IF level <= TREE_HEIGHT THEN ReferenceNodes(longer)[level][k]
                                           ELSE ReferenceNodes(added)[level][k]
        <2>1. end = Rounds(NoteValue(commitment))[TREE_HEIGHT]
            BY <1>1 DEF Rehash
        <2> QED
            BY <1>0, <1>2, <1>3, <1>4, <1>5, <2>1, Climb
    <1>8. Holds(end.nodes, longer)
        BY <1>0, <1>7 DEF Holds
    <1>9. Above(TREE_HEIGHT, leaf) = 0 /\ FirstAt(TREE_HEIGHT) = 1 /\ Width(TREE_HEIGHT) = 1
        <2>1. leaf \in 0..(Power[TREE_HEIGHT] - 1)
            BY <1>0, <1>7, PowerNat
        <2>2. Above(TREE_HEIGHT, leaf) \in 0..(Width(TREE_HEIGHT) - 1)
            BY <1>0, <2>1, AboveWithin
        <2> QED
            BY <1>0, <2>2, LevelFacts
    <1>10. root' = ReferenceRoot(longer)
        <2>1. 0 \in 0..(Width(TREE_HEIGHT) - 1)
            BY <1>9
        <2>2. end.nodes[FirstAt(TREE_HEIGHT) + 0] = ReferenceNodes(longer)[TREE_HEIGHT][0]
            BY <1>0, <1>8, <2>1 DEF Holds
        <2> QED
            BY <1>2, <1>7, <1>9, <2>2 DEF ReferenceRoot
    <1>11. merkleRoots' = {ReferenceRoot(SubSeq(longer, 1, k)) : k \in 1..Len(longer)}
        <2>1. \A k \in 1..leaf : SubSeq(longer, 1, k) = SubSeq(leaves, 1, k)
            <3> TAKE k \in 1..leaf
            <3>1. \A i \in 1..k : longer[i] = leaves[i]
                BY <1>4, <1>5
            <3> QED
                BY <1>5, <1>6, <3>1
        <2>2. SubSeq(longer, 1, leaf + 1) = longer
            BY <1>6
        <2>3. 1..Len(longer) = 1..leaf \cup {leaf + 1}
            BY <1>6
        <2>4. merkleRoots = {ReferenceRoot(SubSeq(leaves, 1, k)) : k \in 1..leaf}
            BY <1>3, <1>5 DEF TreeInv
        <2>5. {ReferenceRoot(SubSeq(longer, 1, k)) : k \in 1..leaf} =
              {ReferenceRoot(SubSeq(leaves, 1, k)) : k \in 1..leaf}
            BY <2>1
        <2>6. {ReferenceRoot(SubSeq(longer, 1, k)) : k \in 1..Len(longer)} =
              {ReferenceRoot(SubSeq(longer, 1, k)) : k \in 1..leaf} \cup {ReferenceRoot(longer)}
            BY <2>2, <2>3
        <2> QED
            BY <1>2, <1>10, <2>4, <2>5, <2>6
    <1>12. /\ firstLeafId' = FirstAt(0) /\ maxLeafId' = Size[TREE_HEIGHT]
           /\ nextFreeLeafId' = FirstAt(0) + (leaf + 1) /\ returned' = leaf + 1 - 1
        <2>1. FirstAt(0) \in Nat
            BY <1>0, LevelFacts
        <2>2. /\ firstLeafId = FirstAt(0) /\ maxLeafId = Size[TREE_HEIGHT]
              /\ nextFreeLeafId = FirstAt(0) + leaf
            BY <1>3, <1>5 DEF TreeInv
        <2>3. firstLeafId' = FirstAt(0) /\ maxLeafId' = Size[TREE_HEIGHT]
            BY <1>2, <2>2
        <2>4. nextFreeLeafId' = FirstAt(0) + leaf + 1
            BY <1>2, <2>2
        <2>5. returned' = (FirstAt(0) + leaf + 1) - FirstAt(0) - 1
            BY <1>2, <2>2, <2>4
        <2> QED
            BY <2>1, <2>3, <2>4, <2>5
    <1>13. leaf + 1 <= Power[TREE_HEIGHT]
        BY <1>0, <1>7, PowerNat
    <1> QED
        <2>1. Holds(nodes', longer)
            BY <1>2, <1>8
        <2>2. added' \in Seq(Commitments) /\ Len(added') <= Power[TREE_HEIGHT]
            BY <1>6, <1>13
        <2>3. Holds(nodes, added)'
            BY <1>6, <2>1
        <2>4. (root = ReferenceRoot(added))'
            BY <1>6, <1>10
        <2>5. (merkleRoots = {ReferenceRoot(SubSeq(added, 1, k)) : k \in 1..Len(added)})'
            BY <1>6, <1>11
        <2>6. (nextFreeLeafId = FirstAt(0) + Len(added))' /\ (returned = Len(added) - 1)'
            BY <1>6, <1>12
        <2> QED
            BY <1>12, <2>2, <2>3, <2>4, <2>5, <2>6 DEF TreeInv

\* The mapping holds the reference of the notes added, and the history its prefixes' roots.
THEOREM TreeInvInvariant == Spec => []TreeInv
    <1>1. TreeInv /\ [Next]_vars => TreeInv'
        <2> SUFFICES ASSUME TreeInv, [Next]_vars PROVE TreeInv'
            OBVIOUS
        <2>1. CASE Next
            BY <2>1, TreeInvAddNote DEF Next
        <2>2. CASE UNCHANGED vars
            BY <2>2 DEF TreeInv, vars, Holds
        <2> QED
            BY <2>1, <2>2
    <1> QED
        BY <1>1, TreeInvInit, PTL DEF Spec

\* The root the loop of _addNote computes level by level is the root of all notes inserted,
\* for every arity, height and list of notes.
THEOREM RootIsReferenceInvariant == Spec => []RootIsReference
    <1>1. TreeInv => RootIsReference
        BY DEF TreeInv, RootIsReference
    <1> QED
        BY <1>1, TreeInvInvariant, PTL

\* The root history has the root of every prefix of the notes and nothing else, and no two
\* insertions ever give the same root.
THEOREM RootsArePrefixesInvariant == Spec => []RootsArePrefixes
    <1>1. ASSUME TreeInv PROVE RootsArePrefixes
        <2>1. PICK leaves \in Seq(Commitments) : leaves = added
            BY <1>1 DEF TreeInv
        <2>2. PICK n \in Nat : n = Len(leaves)
            OBVIOUS
        <2>3. /\ n <= Power[TREE_HEIGHT]
              /\ merkleRoots = {ReferenceRoot(SubSeq(leaves, 1, k)) : k \in 1..n}
            BY <1>1, <2>1, <2>2 DEF TreeInv
        <2> PICK roots : roots = merkleRoots
            OBVIOUS
        <2>4. PICK f : f = [k \in 1..n |-> ReferenceRoot(SubSeq(leaves, 1, k))]
            OBVIOUS
        <2>5. ASSUME NEW a \in 1..n, NEW b \in 1..n, a < b PROVE f[a] # f[b]
            <3>1. PICK s \in Seq(Commitments) : s = SubSeq(leaves, 1, a)
                <4>1. SubSeq(leaves, 1, a) \in Seq(Commitments)
                    BY <2>2
                <4> QED
                    BY <4>1
            <3>2. PICK t \in Seq(Commitments) : t = SubSeq(leaves, 1, b)
                <4>1. SubSeq(leaves, 1, b) \in Seq(Commitments)
                    BY <2>2
                <4> QED
                    BY <4>1
            <3>3. Len(s) = a /\ Len(t) = b
                BY <2>2, <3>1, <3>2
            <3>4. Len(s) < Len(t) /\ Len(t) <= Power[TREE_HEIGHT]
                <4>1. Power[TREE_HEIGHT] \in Nat
                    BY TreeAssumption, PowerNat
                <4> QED
                    BY <2>3, <2>5, <3>3, <4>1
            <3>5. ReferenceRoot(s) # ReferenceRoot(t)
                BY <3>4, RootsDiffer
            <3> QED
                BY <2>4, <3>1, <3>2, <3>5
        <2>6. f \in Bijection(1..n, roots)
            <3>1. \A a, b \in 1..n : f[a] = f[b] => a = b
                <4> TAKE a, b \in 1..n
                <4>1. a < b \/ b < a \/ a = b
                    OBVIOUS
                <4> QED
                    BY <2>5, <4>1
            <3>2. f \in [1..n -> roots]
                BY <2>3, <2>4
            <3>3. \A x \in roots : \E k \in 1..n : f[k] = x
                BY <2>3, <2>4
            <3> QED
                BY <3>1, <3>2, <3>3 DEF Bijection, Injection, Surjection, IsInjective
        <2>7. Cardinality(1..n) = n /\ IsFiniteSet(1..n)
            <3>1. 1 \in Int /\ n \in Int
                OBVIOUS
            <3> QED
                BY <3>1, FS_Interval
        <2>8. Cardinality(roots) = n
            <3>1. ExistsBijection(1..n, roots)
                BY <2>6 DEF ExistsBijection
            <3> QED
                BY <2>7, <3>1, FS_Bijection
        <2> QED
            BY <2>1, <2>2, <2>3, <2>8 DEF RootsArePrefixes
    <1> QED
        BY <1>1, TreeInvInvariant, PTL

-----------------------------------------------------------------------------
(* The paths the contract hands out. *)

\* The walk of getMerklePath goes through the ancestors of the leaf.
LEMMA AncestorIds ==
    ASSUME NEW leaf \in Nat, NEW id, id = FirstAt(0) + leaf
    PROVE  \A i \in 0..TREE_HEIGHT : Ancestors(id)[i] = FirstAt(i) + Above(i, leaf)
    <1> DEFINE S == {i \in 0..TREE_HEIGHT : Ancestors(id)[i] = FirstAt(i) + Above(i, leaf)}
    <1>0. TREE_HEIGHT \in Nat
        BY TreeAssumption
    <1>1. 0 \in S
        BY <1>0, AncestorsDef, AboveStep
    <1>2. ASSUME NEW i \in 0..(TREE_HEIGHT - 1), i \in S PROVE i + 1 \in S
        <2>1. PICK up \in 1..TREE_HEIGHT : up = i + 1
            BY <1>0
        <2>2. up - 1 = i /\ up \in 0..TREE_HEIGHT /\ i \in 0..TREE_HEIGHT
            BY <1>0, <2>1
        <2>3. PICK a \in Nat : a = Above(i, leaf)
            BY <2>2, AboveStep
        <2>4. Ancestors(id)[up] = Parent(FirstAt(i) + a)
            BY <1>2, <2>2, <2>3, AncestorsDef
        <2>5. Parent(FirstAt(up - 1) + a) = FirstAt(up) + (a \div ARITY)
            BY ParentId
        <2>6. Above(up, leaf) = a \div ARITY
            BY <2>2, <2>3, AboveStep
        <2> QED
            BY <2>1, <2>2, <2>4, <2>5, <2>6
    <1> HIDE DEF S
    <1>3. \A i \in 0..TREE_HEIGHT : i \in S
        BY <1>0, <1>1, <1>2, Induction
    <1> QED
        BY <1>3 DEF S

\* A group of a path is what its level's ancestor of the leaf hashes, and has the ancestor
\* of the level below at its place.
LEMMA PathGroup ==
    ASSUME TreeInv, NEW leaf \in 0..(Len(added) - 1), NEW i \in 1..TREE_HEIGHT
    PROVE  LET group == getMerklePath(leaf).groups[i]
           IN  /\ Hash(group) = ReferenceNodes(added)[i][Above(i, leaf)]
               /\ group[((leaf \div Power[i - 1]) % ARITY) + 1] =
                     ReferenceNodes(added)[i - 1][Above(i - 1, leaf)]
    <1>0. ARITY \in Nat \ {0} /\ TREE_HEIGHT \in Nat /\ i \in 0..TREE_HEIGHT /\ i - 1 \in 0..TREE_HEIGHT
          /\ i # 0
        BY TreeAssumption
    <1>1. PICK leaves \in Seq(Commitments) : leaves = added
        BY DEF TreeInv
    <1>2. leaf \in Nat /\ leaf < Len(leaves) /\ Len(leaves) \in Nat /\ Len(leaves) <= Power[TREE_HEIGHT]
          /\ Power[TREE_HEIGHT] \in Nat
        <2>1. TREE_HEIGHT \in 0..TREE_HEIGHT
            BY <1>0
        <2> QED
            BY <1>1, <2>1, PowerNat DEF TreeInv
    <1>3. leaf \in 0..(Power[TREE_HEIGHT] - 1)
        BY <1>2
    <1>4. PICK place \in 0..(Width(i) - 1) : place = Above(i, leaf)
        BY <1>0, <1>3, AboveWithin
    <1>5. PICK a \in Nat : a = Above(i - 1, leaf)
        BY <1>0, <1>2, AboveStep
    <1>6. place = a \div ARITY /\ place \in Nat
        BY <1>2, <1>4, <1>5, AboveStep
    <1>7. PICK V : V = ReferenceNodes(leaves)
        OBVIOUS
    <1>8. PICK group : group = getMerklePath(leaf).groups[i]
        OBVIOUS
    <1>9. group = [j \in 1..ARITY |-> V[i - 1][place * ARITY + j - 1]]
        <2>1. PICK id : id = leaf + firstLeafId
            OBVIOUS
        <2>2. id = FirstAt(0) + leaf
            <3>1. FirstAt(0) \in Nat
                BY <1>0, LevelFacts
            <3> QED
                BY <1>2, <2>1, <3>1 DEF TreeInv
        <2>3. Ancestors(id)[i] = FirstAt(i) + place
            BY <1>0, <1>2, <1>4, <2>2, AncestorIds
        <2>4. group = ChildrenIn(nodes, Ancestors(id)[i])
            BY <1>8, <2>1 DEF getMerklePath
        <2>5. PICK values : values = nodes
            OBVIOUS
        <2>6. PICK row : row = V[i - 1]
            OBVIOUS
        <2>7. HasRow(values, i - 1, row)
            BY <1>0, <1>1, <1>7, <2>5, <2>6 DEF TreeInv, Holds, HasRow
        <2>8. ChildrenIn(values, FirstAt(i) + place) = [j \in 1..ARITY |-> row[place * ARITY + j - 1]]
            BY <2>7, ChildrenOf
        <2> QED
            BY <2>3, <2>4, <2>5, <2>6, <2>8
    <1>10. Hash(group) = V[i][place]
        <2>1. V[i][place] = ReferenceNode(leaves, i, place, V[i - 1])
            BY <1>0, <1>7, ReferenceDef
        <2>2. place * Power[i] < Len(leaves)
            <3>1. place <= Above(i, leaf) /\ place * Power[i] \in Int
                BY <1>0, <1>4, <1>6, PowerNat
            <3>2. place * Power[i] <= leaf
                BY <1>0, <1>2, <1>6, <3>1, AboveOrder
            <3> QED
                BY <1>2, <3>1, <3>2
        <2> QED
            BY <1>0, <1>9, <2>1, <2>2 DEF ReferenceNode
    <1>11. group[(a % ARITY) + 1] = V[i - 1][a]
        <2>1. PICK r \in 0..(ARITY - 1) : r = a % ARITY
            BY <1>0, Division
        <2>2. a = place * ARITY + r
            BY <1>0, <1>6, <2>1, Division
        <2>3. PICK j \in 1..ARITY : j = r + 1
            BY <1>0
        <2>4. place * ARITY + j - 1 = a
            <3>1. place * ARITY \in Int
                BY <1>0, <1>6
            <3> QED
                BY <2>2, <2>3, <3>1
        <2> QED
            BY <1>9, <2>1, <2>3, <2>4
    <1> QED
        BY <1>1, <1>4, <1>5, <1>7, <1>8, <1>10, <1>11 DEF Above

\* Every path the contract hands out proves its leaf against the present root, which the
\* contract accepts, and the index in the event of a note leads to that note.
THEOREM PathsVerifyInvariant == Spec => []PathsVerify
    <1>1. ASSUME TreeInv PROVE PathsVerify
        <2>0. ARITY \in Nat \ {0} /\ TREE_HEIGHT \in Nat \ {0} /\ 0 \in 0..TREE_HEIGHT
              /\ TREE_HEIGHT \in 0..TREE_HEIGHT /\ TREE_HEIGHT \in 1..TREE_HEIGHT /\ 1 \in 1..TREE_HEIGHT
            BY TreeAssumption
        <2>1. added # <<>> => returned = Len(added) - 1
            BY <1>1 DEF TreeInv
        <2>2. ASSUME NEW leaf \in 0..(Len(added) - 1)
              PROVE  LET path == getMerklePath(leaf)
                         place(level) == ((leaf \div Power[level - 1]) % ARITY) + 1
                     IN  /\ path.groups[1][place(1)] = NoteValue(added[leaf + 1])
                         /\ \A level \in 2..TREE_HEIGHT :
                               path.groups[level][place(level)] = Hash(path.groups[level - 1])
                         /\ Hash(path.groups[TREE_HEIGHT]) = path.root
                         /\ path.root \in merkleRoots
            <3> DEFINE path == getMerklePath(leaf)
                       place(level) == ((leaf \div Power[level - 1]) % ARITY) + 1
            <3>1. PICK leaves \in Seq(Commitments) : leaves = added
                BY <1>1 DEF TreeInv
            <3>2. /\ leaf \in Nat /\ leaf < Len(leaves) /\ Len(leaves) \in Nat
                  /\ Len(leaves) <= Power[TREE_HEIGHT] /\ Power[TREE_HEIGHT] \in Nat
                BY <1>1, <2>0, <3>1, PowerNat DEF TreeInv
            <3>3. leaf \in 0..(Power[TREE_HEIGHT] - 1)
                BY <3>2
            <3>4. PICK V : V = ReferenceNodes(leaves)
                OBVIOUS
            <3>5. \A i \in 1..TREE_HEIGHT : /\ Hash(path.groups[i]) = V[i][Above(i, leaf)]
                                            /\ path.groups[i][place(i)] = V[i - 1][Above(i - 1, leaf)]
                BY <1>1, <3>1, <3>4, PathGroup
            <3>6. V[0][leaf] = NoteValue(leaves[leaf + 1])
                <4>1. leaf \in 0..(Width(0) - 1)
                    <5>1. TREE_HEIGHT - 0 = TREE_HEIGHT
                        BY <2>0
                    <5> QED
                        BY <3>3, <5>1 DEF Width
                <4>2. V[0][leaf] = ReferenceNode(leaves, 0, leaf, V[0 - 1])
                    BY <2>0, <3>4, <4>1, ReferenceDef
                <4>3. leaf * Power[0] < Len(leaves)
                    BY <3>2, PowerDef
                <4> QED
                    BY <4>2, <4>3 DEF ReferenceNode
            <3>7. root = V[TREE_HEIGHT][0]
                BY <1>1, <3>1, <3>4 DEF TreeInv, ReferenceRoot
            <3>8. Above(TREE_HEIGHT, leaf) = 0 /\ Above(0, leaf) = leaf
                <4>1. Above(TREE_HEIGHT, leaf) \in 0..(Width(TREE_HEIGHT) - 1)
                    BY <2>0, <3>3, AboveWithin
                <4> QED
                    BY <2>0, <3>2, <4>1, LevelFacts, AboveStep
            <3>9. root \in merkleRoots
                <4>1. Len(leaves) \in 1..Len(leaves) /\ SubSeq(leaves, 1, Len(leaves)) = leaves
                    BY <3>2
                <4>2. /\ merkleRoots = {ReferenceRoot(SubSeq(leaves, 1, k)) : k \in 1..Len(leaves)}
                      /\ root = ReferenceRoot(leaves)
                    BY <1>1, <3>1 DEF TreeInv
                <4> QED
                    BY <4>1, <4>2
            <3>10. path.root = root
                BY DEF getMerklePath
            <3> HIDE DEF path, place
            <3>11. path.groups[1][place(1)] = NoteValue(leaves[leaf + 1])
                <4>1. 1 - 1 = 0
                    OBVIOUS
                <4> QED
                    BY <2>0, <3>5, <3>6, <3>8, <4>1
            <3>12. ASSUME NEW level \in 2..TREE_HEIGHT
                   PROVE  path.groups[level][place(level)] = Hash(path.groups[level - 1])
                <4>1. level \in 1..TREE_HEIGHT /\ level - 1 \in 1..TREE_HEIGHT
                    BY <2>0
                <4> QED
                    BY <3>5, <4>1
            <3>13. Hash(path.groups[TREE_HEIGHT]) = path.root
                BY <2>0, <3>5, <3>7, <3>8, <3>10
            <3> QED
                BY <3>1, <3>9, <3>10, <3>11, <3>12, <3>13 DEF path, place
        <2> QED
            BY <2>1, <2>2 DEF PathsVerify
    <1> QED
        BY <1>1, TreeInvInvariant, PTL
=============================================================================
