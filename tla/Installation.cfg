SPECIFICATION FairInstallSpec
CONSTANTS
    Scripts = {s1, s2, m}
    SetupScripts = {s1, s2}
    HandRoles = {"bundle"}
    NoFile = NoFile
    NoCA = NoCA
    MaxDeletions = 1
    MaxMishaps = 1
CHECK_DEADLOCK FALSE
INVARIANTS
    OneGenerationOnDisk
    VerdictSound
PROPERTIES
    UploadsAccounted
    SetupSucceeds
    ServerComesBack
