CONSTANTS
  ann = ann
  bob = bob
  eve = eve
  Users <- Person
  Admins <- AdminsOf
  support = support
  lead = lead
  Roles <- RoleSet
  GivenRoles <- Chain
  Identities = {i1, i2}
  Mail <- MailOf
  Attempts = 1
  None = None
  MaxInFlight = 2
  MaxRequest = 3
  MaxOther = 1

SPECIFICATION AccountsSpec
INVARIANTS AdministratorRemains SessionsEndWithPassword
PROPERTIES SavedOverSeen
SYMMETRY Either
CHECK_DEADLOCK FALSE
