CONSTANTS
    Word <- MCWord
    AllOnes = 65535
    Files <- MCFiles
    MaxMetas = 2
SPECIFICATION Spec
INVARIANTS
    TypeOK
    BuffersWhole
    LoadedAsSaved
    RelocationsSaved
    CompleteFileLoads
PROPERTY LoadEnds
