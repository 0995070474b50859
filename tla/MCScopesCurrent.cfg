CONSTANTS
    Nests <- MCTwiceNested
SPECIFICATION Spec
INVARIANT BuiltinsAreCurrent
