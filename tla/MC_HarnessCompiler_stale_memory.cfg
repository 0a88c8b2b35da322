CONSTANTS
    Absent = Absent
    Junk = Junk
    FlagInputs <- MCFlagAbsent
    SeedInputs <- MCSeedOnOff
    Slugs <- MCSlugs
    Suffixes = {r1}
    Prefix <- MCPrefix
    ExplicitTags <- MCNoTag
    MaxRuns = 2
    RawTexts <- MCRawTexts
    MaxItems = 2
SPECIFICATION Spec
INVARIANT WorkspaceMatchesMetadata
CHECK_DEADLOCK FALSE
