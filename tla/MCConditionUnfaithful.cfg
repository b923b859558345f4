CONSTANTS
    Dword <- MCDword
    SizeofString <- MCSizeofString
    StringName <- MCStringName
    RuleName <- MCRuleName
    SizedString <- MCSizedString
    CString <- MCCString
    Regexp <- MCRegexp
    Slot <- MCSlot
    Rules <- UnfaithfulRules
SPECIFICATION Spec
INVARIANT
    Faithful
