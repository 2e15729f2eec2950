SPECIFICATION Spec
CONSTANTS
  r1 = r1
  r2 = r2
  s1 = s1
  j1 = j1
  j2 = j2
  j3 = j3
  p1 = p1
  p2 = p2
  p3 = p3
  Requests = {r1, r2}
  Sids = {s1}
  Jtis = {j1, j2, j3}
  MaxVersion = 1
  Pages = {p1, p2, p3}
  MaxLosses = 1
INVARIANTS TypeOK ReusedOnlyAfterSlip LoggedOutForCause CookieIsCurrent
SYMMETRY Symmetry
CHECK_DEADLOCK FALSE
