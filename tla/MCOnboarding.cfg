CONSTANTS
  p1 = p1
  d1 = d1
  d2 = d2
  s1 = s1
  Rows <- MCRows
  MaxBills = 1
  MaxEdits = 1
  Nobody = Nobody
SPECIFICATION Spec
INVARIANTS TypeOK ScratchServesTheQuestion AskedExactlyTheRest
PROPERTY ProgressNeverFalls
