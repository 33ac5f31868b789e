SPECIFICATION FairSpec
CONSTANTS
    Keys = {k1, k2}
    Missing = Missing
    Damaged = Damaged
    MaxCerts = 3
    MaxMishaps = 3
INVARIANTS
    IdentityTypeOK
    OneIdentity
    PinIsServed
    ValidPairMatches
PROPERTIES
    RestartHeals
    RenewalReloads
