SPECIFICATION Spec
CONSTANTS
    c1 = c1 c2 = c2 n1 = n1 n2 = n2 u = u
    Containers = {c1, c2}
    Nets = {n1, n2}
    External = {}
    UserPorts = {u}
    NetOf <- MCNetOf
    ProjectOf <- MCProjectOf
    Exposed = {c2}
    CanFail = {"subnets", "mknet", "rule", "port", "create", "connect",
               "disconnect", "crash"}
    MaxFaults = 1
    MaxRequests <- MCMaxRequests
    MaxEvents = 4
    Wishes <- MCWishes
    MaxNets <- MCMaxNets
    MaxPorts = 4
    MaxIds = 4
CHECK_DEADLOCK FALSE
INVARIANTS OneDockerNetwork 
PROPERTY AddressesKept
