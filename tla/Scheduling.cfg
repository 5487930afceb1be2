SPECIFICATION FairSpec
CONSTANTS
  c1 = c1
  c2 = c2
  c3 = c3
  h1 = h1
  h2 = h2
  h3 = h3
  NoHost = NoHost
  Containers <- MCContainers
  Hosts <- MCHosts
  Cpu <- MCCpu
  DefaultCpu = 0
  Cpus <- MCCpus
  Ratio = 2
  Asks <- MCAsks
  Has <- MCHas
  Wanted <- MCWanted
  CPUFilter = TRUE
  ConfLimit <- MCConfLimit
  Limits = {1}
  Workers = 2
  MaxTries = 2
  Faults = {"claim", "image", "prepare", "docker", "release"}
  Removable <- MCRemovable
  MaxEvents = 1
CHECK_DEADLOCK FALSE
INVARIANTS  InServiceWhenChosen
PROPERTIES  KeepsPromise
