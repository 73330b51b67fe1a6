SPECIFICATION HFairSpec
CONSTANTS
  a1 = a1  a2 = a2  t1 = t1  g1 = g1  x1 = x1  x2 = x2  h1 = h1  h2 = h2
  Action = {a1, a2}
  Ticket = {t1}
  Agent = {g1}
  Target = {x1}
  TicketOf <- MCTicketOf
  AgentOf <- MCAgentOf
  TargetOf <- MCOneTarget
  Legacy = {a2}
  Thread = {h1}
  MaxAttempts = 2
  StaleAge = 1
  NoResponseAge = 3
  HttpLimit = 1
  ChildLimit = 2
INVARIANT OneOpenActionPerTarget
PROPERTY ApprovedIsSettled
