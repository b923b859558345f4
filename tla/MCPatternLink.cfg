CONSTANTS
    Byte <- MCByte
    Op <- MCOp
    Width <- MCWidth
    Match = "MATCH"
    HeaderLen = 4
    HexOp <- MCHexOp
    FoldOp <- MCFoldOp
    SizeofString = 2
    Files <- MCFiles
SPECIFICATION Spec
INVARIANTS
    TypeOK
    OwnProgramShown
    UnwarnedIsFaithful
    EveryLinkedPatternRendered
PROPERTY
    ImplementsReSection
CHECK_DEADLOCK FALSE
