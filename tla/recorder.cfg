\* Counters wrap around at the fourth record of a kind.
CONSTANT Inputs <- RecordedDumps
CONSTANT U32 = 4
CONSTANT MaxDepth = 5
SPECIFICATION Spec
INVARIANT TypeOK
INVARIANT MemoryUsageExact
INVARIANT OrderDeterministic
INVARIANT MissingReported
INVARIANT CountsAgree
INVARIANT FramesNamed
INVARIANT OverflowMeansCycle
PROPERTY EventuallyRendered
INVARIANT RecorderInv
