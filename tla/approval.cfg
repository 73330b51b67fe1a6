SPECIFICATION HSpec
CONSTANTS
  h1 = h1  h2 = h2  h3 = h3
  Steps = 3
  Thread = {h1, h2, h3}
  MaxReopen = 1
SYMMETRY Symmetry
INVARIANTS
  ApprovedMeansEveryStep
  DecisionIsFinal
