SPECIFICATION Spec
CONSTANTS
  Garbage = Garbage
  Quotes = {q1, q2}
  DayLen = 3
  Sentinel = 2
  MaxFuture = 1
  MaxAge = 3
  Gate = TRUE
  Manifest = TRUE
  MaxNow = 4
  MaxRecs = 3
  Failures <- OneFault
SYMMETRY QuoteSymmetry
INVARIANT
  Aligned
