CONSTANT Contexts = {c1, c2}
SPECIFICATION Spec
INVARIANT AssertHolds
CHECK_DEADLOCK FALSE
