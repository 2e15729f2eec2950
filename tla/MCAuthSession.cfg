SPECIFICATION Spec
CONSTANTS
  r1 = r1
  r2 = r2
  s1 = s1
  j1 = j1
  j2 = j2
  j3 = j3
  Requests = {r1, r2}
  Sids = {s1}
  Jtis = {j1, j2, j3}
  MaxVersion = 3
INVARIANTS TypeOK OneCurrentToken ReportedIsRevoked
PROPERTY EndedStaysUnlessTorn
SYMMETRY Symmetry
CHECK_DEADLOCK FALSE
