CONSTANTS
  User = {u1, u2}
  Seed = {u1}
  Address = {a1, a2, a3}
  Req = {r1, r2}
  None = None
  Vouched = Vouched
SPECIFICATION Spec
SYMMETRY Symmetry
INVARIANT AdminImmunity
INVARIANT AdminsRemain
INVARIANT VerifiedKnown
PROPERTY ImplementsAccountLife
PROPERTY LiftsKnown
