CONSTANTS
    Calls = {c1, c2}
    Tenants = {t1, t2}
    Suffixes = {r1, r2}
    Slugs <- MCSlugs
    Prefix <- MCPrefix
    Namespaces <- MCNamespaces
    ExternalIds <- MCExternalIds
    UserIds <- MCUserIds
SPECIFICATION Spec
INVARIANT TypeOK
INVARIANT TimerArmedIffPending
INVARIANT TenantIsolation
INVARIANT ProfilePathRoundTrips
 
PROPERTY ClientImplementsCalls
\* Once callers stop calling and every call has settled, nothing is left to do.
CHECK_DEADLOCK FALSE
