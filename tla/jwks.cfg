SPECIFICATION FairSpec
CONSTANTS
    Requests = {r1, r2}
    Kids = {k1}
    TTL = 2
    Window = 1
    Expiries = {3}
    MaxTime = 4
INVARIANTS
    PublishedKeysAreFound
PROPERTIES
    WithdrawnKeysExpire
    ExpiryIsCheckedLast
    VerificationEnds
