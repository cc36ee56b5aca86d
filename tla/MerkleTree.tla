----------------------------- MODULE MerkleTree -----------------------------
(***************************************************************************)
(* contracts/MerkleTree.sol: a tree of fixed height in one mapping of node *)
(* ids, filled from the left.  The root has id 1, the children of a node   *)
(* follow those of the nodes before it, and a node never written is zero.  *)
(*                                                                         *)
(* Poseidon2 is collision free: the hash of ARITY values is the tuple of   *)
(* them.  A note is a tuple of length one and zero is the empty tuple, so  *)
(* neither is a hash.                                                      *)
(***************************************************************************)
EXTENDS Integers, Sequences, FiniteSets

CONSTANTS
    ARITY,          \* children of a node, 7 in the code
    TREE_HEIGHT,    \* levels above the leaves, 13 in the code
    Commitments     \* note commitments callers insert

ASSUME TreeAssumption == ARITY \in Nat \ {0, 1} /\ TREE_HEIGHT \in Nat \ {0}

VARIABLES
    nodes,          \* $.notes: node id -> value
    root,
    nextFreeLeafId,
    maxLeafId,
    firstLeafId,
    merkleRoots,
    returned,       \* what the last _addNote returned, emitted in its event
    added           \* the notes inserted so far, as the log shows them

vars == <<nodes, root, nextFreeLeafId, maxLeafId, firstLeafId, merkleRoots, returned, added>>

Zero == <<>>
NoteValue(commitment) == <<commitment>>
Hash(subtrees) == subtrees

-----------------------------------------------------------------------------
(* The nodes at a depth, the nodes down to it, and treeBounds: the last and the *)
(* first id of a leaf.                                                          *)

Power[depth \in 0..TREE_HEIGHT] == IF depth = 0 THEN 1 ELSE Power[depth - 1] * ARITY
Size[depth \in 0..TREE_HEIGHT] == IF depth = 0 THEN 1 ELSE Size[depth - 1] + Power[depth]

TreeBounds(treeHeight) ==
    [max |-> Size[treeHeight], first |-> Size[treeHeight] - Power[treeHeight] + 1]

Parent(index) == (index + ARITY - 2) \div ARITY

\* Mutant: one too far to the left.
ChildShifted(parent, j) == parent * ARITY + j - (ARITY - 1)

Child(parent, j) == parent * ARITY + j - (ARITY - 2)

ChildrenIn(values, parent) == [j \in 1..ARITY |-> values[Child(parent, j - 1)]]

-----------------------------------------------------------------------------
Init ==
    LET bounds == TreeBounds(TREE_HEIGHT) IN
    /\ nodes = [id \in 1..bounds.max |-> Zero]
    /\ root = Zero
    /\ maxLeafId = bounds.max
    /\ nextFreeLeafId = bounds.first
    /\ firstLeafId = bounds.first
    /\ merkleRoots = {}
    /\ returned = 0
    /\ added = <<>>

\* The loop of _addNote: after i rounds, the node written last and the mapping.
Rounds(note) ==
    LET walk[i \in 0..TREE_HEIGHT] ==
          IF i = 0
          THEN [index |-> nextFreeLeafId, nodes |-> [nodes EXCEPT ![nextFreeLeafId] = note]]
          ELSE LET parent == Parent(walk[i - 1].index)
                   hash == Hash(ChildrenIn(walk[i - 1].nodes, parent))
               IN  [index |-> parent, nodes |-> [walk[i - 1].nodes EXCEPT ![parent] = hash]]
    IN  walk

Rehash(note) == Rounds(note)[TREE_HEIGHT]

\* Mutant: the new root does not enter the history.
addNoteWithoutHistory(commitment) ==
    LET end == Rehash(NoteValue(commitment)) IN
    /\ nextFreeLeafId <= maxLeafId
    /\ nodes' = end.nodes
    /\ root' = end.nodes[end.index]
    /\ nextFreeLeafId' = nextFreeLeafId + 1
    /\ returned' = nextFreeLeafId' - firstLeafId - 1
    /\ added' = Append(added, commitment)
    /\ UNCHANGED <<maxLeafId, firstLeafId, merkleRoots>>

addNote(commitment) ==
    LET end == Rehash(NoteValue(commitment)) IN
    /\ nextFreeLeafId <= maxLeafId
    /\ nodes' = end.nodes
    /\ root' = end.nodes[end.index]
    /\ nextFreeLeafId' = nextFreeLeafId + 1
    /\ merkleRoots' = merkleRoots \cup {root'}
    /\ returned' = nextFreeLeafId' - firstLeafId - 1
    /\ added' = Append(added, commitment)
    /\ UNCHANGED <<maxLeafId, firstLeafId>>

Next == \E commitment \in Commitments : addNote(commitment)

Spec == Init /\ [][Next]_vars

\* The ancestors of a node, itself first.
Ancestors(id) ==
    LET ancestor[i \in 0..TREE_HEIGHT] == IF i = 0 THEN id ELSE Parent(ancestor[i - 1])
    IN  ancestor

\* Mutant: the path starts one leaf too far.
getMerklePathShifted(index) ==
    [groups |-> [i \in 1..TREE_HEIGHT |-> ChildrenIn(nodes, Ancestors(index + firstLeafId + 1)[i])],
     root |-> root]

\* getMerklePath, for an existing leaf: per level the group of ARITY siblings.
getMerklePath(index) ==
    [groups |-> [i \in 1..TREE_HEIGHT |-> ChildrenIn(nodes, Ancestors(index + firstLeafId)[i])],
     root |-> root]

-----------------------------------------------------------------------------
(* Reference: the root of a list of notes, computed from the leaves up. *)

\* The nodes of each level above the leaves, from the left.  A subtree without notes is
\* zero, not the hash of zeros.
ReferenceNodes(leaves) ==
    LET at(level, k) == k * Power[level] < Len(leaves)
        value[level \in 0..TREE_HEIGHT] ==
          [k \in 0..(Power[TREE_HEIGHT - level] - 1) |->
             IF ~at(level, k) THEN Zero
             ELSE IF level = 0 THEN NoteValue(leaves[k + 1])
             ELSE Hash([j \in 1..ARITY |-> value[level - 1][k * ARITY + j - 1]])]
    IN  value

ReferenceRoot(leaves) == ReferenceNodes(leaves)[TREE_HEIGHT][0]

-----------------------------------------------------------------------------
(* Properties. *)

\* The incremental update of _addNote computes the root of all notes inserted,
\* whatever the notes are, up to the last leaf.
RootIsReference == root = ReferenceRoot(added)

\* The root history holds one root per insertion, no two insertions give the
\* same root, and nothing else is in it: a root stands for a number of leaves.
RootsArePrefixes ==
    /\ merkleRoots = {ReferenceRoot(SubSeq(added, 1, k)) : k \in 1..Len(added)}
    /\ Cardinality(merkleRoots) = Len(added)

\* The path the contract hands out for a leaf proves that leaf to the circuits
\* against the present root: the note is in the lowest group at its place, the
\* hash of each group is in the next one at its place, the last is the root.
\* The index a client finds in the event of its note leads to that note.
PathsVerify ==
    /\ added # <<>> => returned = Len(added) - 1
    /\ \A index \in 0..(Len(added) - 1) :
          LET path == getMerklePath(index)
              place(level) == ((index \div Power[level - 1]) % ARITY) + 1
          IN  /\ path.groups[1][place(1)] = NoteValue(added[index + 1])
              /\ \A level \in 2..TREE_HEIGHT :
                    path.groups[level][place(level)] = Hash(path.groups[level - 1])
              /\ Hash(path.groups[TREE_HEIGHT]) = path.root
              /\ path.root \in merkleRoots

=============================================================================
