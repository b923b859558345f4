CONSTANTS
    ConditionOf <- MCConditionOf
    None = None
    Files <- MCFiles
    Invocations <- MCInvocations
SPECIFICATION MainSpec
INVARIANTS
    MainTypeOK
    BodiesDisjoint
    EachRuleItsCondition
    ReferencesPrecede
    NoSilentLoss
    StatusTells
PROPERTY
    MainEnds
CHECK_DEADLOCK FALSE
