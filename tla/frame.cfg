SPECIFICATION Spec
CONSTANTS
    Packets <- AllPackets
    MaxPackets = 2
    MinGzipSize = 2
    Garbage <- Tails
INVARIANT ChunkingInvisible
INVARIANT FailsOnGarbage
INVARIANT WholeFrames
CHECK_DEADLOCK FALSE
