SPECIFICATION HSpec
SYMMETRY Symmetry
CONSTANTS
  r1 = r1  r2 = r2  h1 = h1  h2 = h2  p1 = p1  p2 = p2
  i1 = i1  i2 = i2  i3 = i3  i4 = i4
  Runner = {r1, r2}
  Connection = {h1, h2}
  Person = {p1, p2}
  Nobody = Nobody
  Required = 2
  MaxInventory = 2
  MaxEnrolled = 1
  Installers = {i1, i2, i3, i4}
  VersionOf <- MCVersionOf
  Packaged = i1
  Absent = Absent
  Broken = Broken
INVARIANTS
  AssignmentIsKept
  StartsWhatWasPublished
PROPERTIES
  DurableUpload
