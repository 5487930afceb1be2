SPECIFICATION Spec
CONSTANTS
  Ops = {"start", "stop", "pause", "unpause", "kill", "reboot", "rebuild", "delete", "delete_force", "delete_after_stop", "add_security_group", "show"}
  Faults = {"schedule", "volume", "pull", "create", "docker", "network", "placement"}
  AutoRemove = {TRUE, FALSE}
  AutoHeal = FALSE
  HasResources = TRUE
  ResumeState = FALSE
  SyncEnabled = FALSE
  MaxRequests = 3
  MaxIds = 3
  MaxCrashes = 1
  MaxVanish = 0
INVARIANTS TypeOK TaskStateOwned  OperableHasId
