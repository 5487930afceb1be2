SPECIFICATION FairSpec
CONSTANTS
  Ops = {"stop", "delete"}
  Faults = {"docker"}
  AutoRemove = {TRUE, FALSE}
  AutoHeal = FALSE
  HasResources = TRUE
  ResumeState = TRUE
  SyncEnabled = TRUE
  MaxRequests = 2
  MaxIds = 2
  MaxCrashes = 1
  MaxVanish = 1
PROPERTIES  EventuallyConsistent  DeletedEnds
