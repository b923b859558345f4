CONSTANTS
    Byte <- MCByte
    Op <- MCOp
    Width <- MCWidth
    Match = "MATCH"
    HeaderLen = 4
    MaxLen = 0
    Images <- MixedImages
SPECIFICATION Spec
INVARIANT EveryProgramSegmented
