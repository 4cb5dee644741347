SPECIFICATION Spec
CONSTANTS
    Packets <- SignedPackets
    MaxPackets = 1
    MinGzipSize = 0
    Garbage <- NoTail
INVARIANT WholeFrames
CHECK_DEADLOCK FALSE
