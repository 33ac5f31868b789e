SPECIFICATION FairSpec
CONSTANTS
    Keys = {k1}
    Missing = Missing
    Damaged = Damaged
    MaxCerts = 2
    MaxMishaps = 1
PROPERTY
    ExpiryHotReloads
