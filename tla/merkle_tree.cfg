SPECIFICATION Spec
CONSTANTS
    c1 = c1
    c2 = c2
    ARITY = 3
    TREE_HEIGHT = 2
    Commitments = {c1, c2}
INVARIANTS RootIsReference RootsArePrefixes PathsVerify
CHECK_DEADLOCK FALSE
