SPECIFICATION Spec
CONSTANT GameIds = {g57}
INVARIANT NewGameIsUnderstood
CHECK_DEADLOCK FALSE
