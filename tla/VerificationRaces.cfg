SPECIFICATION Spec
CONSTANTS
  Req = {r1, r2}
  Request = {q1, q2}
  Profile = profile
  Company = {c1}
  None = None
  MaxDocument = 2
SYMMETRY Symmetry
INVARIANTS VerdictAgrees ApprovalActivates PassedDocumentWasSeen PendingIsQueued PendingWithinOverlap
CONSTRAINT OneAccident
