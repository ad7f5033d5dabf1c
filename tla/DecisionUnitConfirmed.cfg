SPECIFICATION Spec
CONSTANTS
  Requirements = {r1, r2}
  Total = 6
  Consequence = 90
  MaxAttempts = 2
  Window = 3
  Grades <- MCGrades
  Contexts <- MCContexts
SYMMETRY MCSymmetry
INVARIANT
  ConfirmedByLook
