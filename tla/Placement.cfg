SPECIFICATION FairSpec
CONSTANTS
  Root = root
  Kids = {kid}
  Sharers = {pool}
  Shared = agg1
  Custom = {"custom"}
  Totals = {1, 2}
  Ratios = {4}
  ConfRatio = 0
  Faults = {"get", "put", "lost"}
  MaxTries = 2
  MaxWrites = 2
  MaxFaults = 1
PROPERTIES CustomTraitsKept Reported
