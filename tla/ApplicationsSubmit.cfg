SPECIFICATION Spec
CONSTANTS
  Req = {r1, r2}
  Student = {s1, s2}
SYMMETRY Symmetry
PROPERTY SubmissionStores
