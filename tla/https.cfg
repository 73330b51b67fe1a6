SPECIFICATION HSpec
CONSTANTS
  c1 = c1  c2 = c2  ca = ca  None = None
  Cert = {c1, c2}
  CA = {ca}
  Issuer <- MCIssuer
  Covers = {c1, c2}
  MaxInstall = 2
  MaxStop = 1
INVARIANTS
  CaddyfileNamesInstalled
  OneAlertPerExpiry
PROPERTIES
  ExpiredIsReplaced
  NotServedIsReported
CHECK_DEADLOCK FALSE
