CONSTANTS
    Packs = {k1, k2, k3}
    None = None
    MaxOps = 5
    PackSources <- MCPackSources
    SkillUrls <- MCSkillUrls
SPECIFICATION Spec
SYMMETRY MCSymmetry
INVARIANT TypeOK
INVARIANT SyncingIffRunning
INVARIANT SkillsLinkListsOnlyPackSkills
\* The page idles once its MaxOps clicks are spent and every request is in.
CHECK_DEADLOCK FALSE
