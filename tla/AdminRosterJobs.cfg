SPECIFICATION Spec
CONSTANTS
  User = {u1, u2}
  Request = {r1, r2}
  Job = {j1}
  Body <- MCBody
  Nobody = Nobody
  MaxVersion = 1
SYMMETRY Symmetry
INVARIANT ActiveJobsOwned
