CONSTANTS
    Calls = {c1, c2}
    Tenants = {t1}
    Suffixes = {r1}
    Slugs <- MCSlugs
    Prefix <- MCPrefix
    Namespaces <- MCNamespaces
    ExternalIds <- MCExternalIds
    UserIds <- MCUserIds
SPECIFICATION Spec
INVARIANT NamespaceIsolation
CHECK_DEADLOCK FALSE
