SPECIFICATION Spec
CONSTANTS
    k = k b = b
    Capsules = {k}
    Boxes = {b}
    Uuids = {k, b}
    Templates <- MCTemplates
    Ops = {"start", "stop", "reboot", "rebuild", "delete"}
    MaxNs = 2
    MaxCid = 2
    MaxLate = 1
    MaxFaults = 1
    MaxRequests = 2
CHECK_DEADLOCK FALSE
INVARIANTS InitFirst PodAccounted NetworkAsRecorded
