CONSTANTS
    Packs = {p1, p2}
    Revs = {0, 1}
    MaxLoads = 3
    MaxEdits = 2
    None = None
SPECIFICATION Spec
SYMMETRY MCSymmetry
INVARIANT TypeOK
INVARIANT SettledPageConsistent
\* The page stops once its MaxLoads loads and MaxEdits edits are spent.
CHECK_DEADLOCK FALSE
