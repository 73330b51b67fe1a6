SPECIFICATION LiveSpec
CONSTANTS
  v2 = v2  v3 = v3  c2 = c2  r1 = r1  r2 = r2
  Package = {v3, c2}
  VersionOf <- MCVersionOf
  Component = {c2}
  FirstVersion = 1
  Request = {r1, r2}
  Patience = 0
INVARIANTS
  InstalledMeansApplied
  BackupBeforeInstall
PROPERTIES
  OnlyNewerIsInstalled
  InstallingIsSettled
