CONSTANTS
  q1 = q1
  general = general
  Staff = {1, 2}
  Teams = {1}
  Rules = {1}
  Queues = {q1}
  Samples = {general}
  Home <- AtHome
  Skills <- SkillsOf
  DefaultTeam = 1
  Method = "least_active"
  GivenQueue <- QueueOf
  GivenRule <- RuleOf
  RuleEdits <- RuleSaves
  QueueEdits <- QueueSaves
  None = None
  Budgets <- Situations
  DayLength = 3
  Week = 2
  DayLimit = 5
  Prefixes = {"INC", "REQ"}
  Incident = "INC"
  Requests = {r1}
  Settings <- Published
  GivenSettings <- Start
  PortalMinutes = 2
  Connections = {c1, c2}
  Policy <- PolicyOf
  Calls = {k1}
  PhoneSample = general

SPECIFICATION Spec
INVARIANTS ActiveRulesResolve NumbersInSequence TargetMovesByWaits
PROPERTIES OneRegister
CHECK_DEADLOCK FALSE
