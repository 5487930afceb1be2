SPECIFICATION Spec
CONSTANTS
    p = p
    v1 = v1
    v2 = v2
    net = net
    c1 = c1
    c2 = c2
    Containers = {c1, c2}
    NoContainer = NoContainer
    Addresses <- MCAddresses
    Parent <- MCParent
    Nets = {net}
    Whitelists <- MCWhitelists
    Asks <- MCAsks
    CanFail = {"host", "placement", "save", "lspci", "create"}
    SafeRemoval = TRUE
    MaxCrashes = 2
    MaxFails = 1
    MaxChanges = 1
SYMMETRY Symmetric
CHECK_DEADLOCK FALSE
INVARIANTS UsedExclusive  UsedAsRequested
