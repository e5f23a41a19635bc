CONSTANTS
    Trees <- MCTrees
    MaxSizes <- MCMaxSizes
    Root = "root"
SPECIFICATION Spec
INVARIANTS NothingOverlaps ImageIsTheTree RefusedIsTooLarge
CHECK_DEADLOCK FALSE
