CONSTANTS
    Skills = {s1, s2}
    g1 = g1
    g2 = g2
    Gateways = {g1, g2}
    GatewayOrder <- MCGatewayOrder
    MaxGatewayLists = 1
    None = None
    MaxSelects = 2
SYMMETRY MCSymmetry
SPECIFICATION Spec
INVARIANT TypeOK
INVARIANT StatusLoadMatchesSelection
\* The page stays idle once MaxSelects dialogs have been opened and closed.
CHECK_DEADLOCK FALSE
