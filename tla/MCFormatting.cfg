SPECIFICATION Spec
INVARIANTS FormatMatchesJoin
CHECK_DEADLOCK FALSE
