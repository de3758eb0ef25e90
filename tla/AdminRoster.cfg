SPECIFICATION Spec
CONSTANTS
  User = {u1, u2, u3}
  Request = {r1, r2}
  Job = {j1}
  Body <- MCBody
  Nobody = Nobody
  MaxVersion = 2
SYMMETRY Symmetry
INVARIANTS IndInv AdminRemains ActorAuthorised
PROPERTY AdminsMakeAdmins
