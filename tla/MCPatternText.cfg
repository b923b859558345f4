CONSTANTS
    Char <- MCChar
    Newline = "newline"
    Inf = 19
    MaxRange = 9
    MaxWord = 4
    MaxTurns = 300
    MaxDepth = 4
    PairValues = 2
    Letter <- MCLetter
    Codes <- MCCodes
    Sources <- MCSources
    Given = "faithful"
SPECIFICATION Spec
INVARIANTS
    TypeOK
    PatternFaithful
    NoMixInvented
    PlaintextProven
    ModifiersKept
    TurnsAdvance
PROPERTIES
    ImplementsRegexRender
    RecoveryEnds
