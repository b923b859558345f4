CONSTANTS
    Byte <- MCByte
    Op <- MCOp
    Width <- MCWidth
    Match = "MATCH"
    HeaderLen = 4
    MaxLen = 5
    Images <- MCImages
SPECIFICATION FairSpec
INVARIANTS
    TypeOK
    SegmentsTile
    SegmentsArePrograms
    DisassemblyStaysInSegment
    EveryProgramSegmented
PROPERTIES
    SegmentsSettle
    WalksEnd
