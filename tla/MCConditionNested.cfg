CONSTANTS
    Dword <- MCDword
    SizeofString <- MCSizeofString
    StringName <- MCStringName
    RuleName <- MCRuleName
    SizedString <- MCSizedString
    CString <- MCCString
    Regexp <- MCRegexp
    Slot <- MCSlot
    Rules <- NestedRules
SPECIFICATION Spec
PROPERTY
    ConditionRecovered
