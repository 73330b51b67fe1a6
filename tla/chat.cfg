SPECIFICATION HSpec
CONSTANTS
  c1 = c1  c2 = c2  tech1 = tech1  tech2 = tech2  requester = requester
  m1 = m1  m2 = m2  h1 = h1  h2 = h2
  Session = {c1, c2}
  Tech = {tech1, tech2}
  Requester = requester
  Message = {m1, m2}
  AuthorOf <- MCAuthorOf
  Thread = {h1, h2}
SYMMETRY Symmetry
INVARIANTS
  StoredOnce
  AcceptedByTheOther
  EndedChatIsFinal
