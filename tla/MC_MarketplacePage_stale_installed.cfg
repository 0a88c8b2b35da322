CONSTANTS
    Skills = {s1, s2}
    g1 = g1
    g2 = g2
    Gateways = {g1, g2}
    GatewayOrder <- MCGatewayOrder
    MaxGatewayLists = 1
    None = None
    MaxSelects = 2
SPECIFICATION Spec
INVARIANT ShownInstalledIsInstalled
CHECK_DEADLOCK FALSE
