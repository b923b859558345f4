CONSTANTS
    Dword <- MCDword
    SizeofString <- MCSizeofString
    StringName <- MCStringName
    RuleName <- MCRuleName
    SizedString <- MCSizedString
    CString <- MCCString
    Regexp <- MCRegexp
    Slot <- MCSlot
    Rules <- AllRules
SPECIFICATION Spec
INVARIANTS
    TypeOK
    Faithful
    LoopsNeverNest
    UnderflowNeverEmitted
    VariablesBound
PROPERTIES
    ConditionRecovered
    RecoveryEnds
