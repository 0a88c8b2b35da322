CONSTANTS
    Absent = Absent
    Junk = Junk
    FlagInputs <- MCFlagInputs
    SeedInputs <- MCSeedInputs
    Slugs <- MCSlugs
    Suffixes = {r1, r2}
    Prefix <- MCPrefix
    ExplicitTags <- MCExplicitTags
    MaxRuns = 2
    RawTexts <- MCRawTexts
    MaxItems = 2
SPECIFICATION Spec
INVARIANT TypeOK
INVARIANT SecureDefaults
INVARIANT SuccessLeavesOneBundle
INVARIANT WrittenDocumentsWellFormed
\* The command runs end (runs = MaxRuns): the directory is left as it is.
CHECK_DEADLOCK FALSE
