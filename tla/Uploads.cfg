SPECIFICATION Spec
CONSTANTS
  Req = {r1, r2}
  Name = {n1, n2}
  Upload = {u1, u2, u3}
  Absent = Absent
  Elsewhere = Elsewhere
  None = None
SYMMETRY Symmetry
INVARIANTS PhotoAvailable LogoMissingExplained OwnContent LeaksExplained
