CONSTANTS
  t1 = t1  t2 = t2  k1 = k1  k2 = k2  r1 = r1  r2 = r2
  Threads = {t1}
  Keys = {k1, k2}
  Requests = {r1, r2}
  Target <- MCOneTarget
  Absent = Absent
  CutLog = 1
  FailureLimit = 1
  Watermark = 2
  Never <- MCNever
  OwnExpiries <- MCTimed
  MaxSeq = 1
  MaxTick = 2
  MaxNow = 1
SPECIFICATION Spec
SYMMETRY KeySymmetry
INVARIANTS FailuresBounded
PROPERTIES NewerEntryKept KeepsPromise
