SPECIFICATION Spec
CONSTANTS
  j1 = j1
  w1 = w1
  w2 = w2
  m1 = m1
  m2 = m2
  r1 = r1
  r2 = r2
  s1 = s1
  s2 = s2
  f1 = f1
  f2 = f2
  a1 = a1
  NoCode = NoCode
  None = None
  NoMember = NoMember
  Jobs = {j1}
  Workers = {w1, w2}
  Members = {m1, m2}
  Reviews = {r1, r2}
  Summaries = {s1, s2, NoCode}
  Reasons = {f1, f2}
  Remarks = {a1}
  Faults <- AllFaults
  MaxRuns = 2
  MaxLog = 2
  MaxFaults = 2
SYMMETRY Symmetry
INVARIANTS
  CompletedHasRecord
  StoreTellsLastReview
  LatestFeedback
CHECK_DEADLOCK FALSE
