SPECIFICATION FairSpec
CONSTANTS
  small = small
  large = large
  other = other
  Containers = {small, large, other}
  Demand <- ContendingDemand
  Dedicated = {other}
  Sizes = {3}
  Limit = 3
  Faults = {"pull", "docker", "placement"}
  MaxEvents = 2
INVARIANTS ClaimHeld ClaimsFit
PROPERTY EventuallyAccurate
