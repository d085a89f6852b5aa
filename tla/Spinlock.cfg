CONSTANT Contexts = {c1, c2, c3}
SPECIFICATION FairSpec
INVARIANTS TypeOK MutualExclusion NoLostLock
PROPERTY SpinnersProgress
CHECK_DEADLOCK FALSE
