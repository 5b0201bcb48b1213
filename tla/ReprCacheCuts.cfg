CONSTANTS
  t1 = t1  t2 = t2  k1 = k1  k2 = k2  r1 = r1  r2 = r2
  Threads = {t1, t2}
  Keys = {k1, k2}
  Requests = {r1, r2}
  Target <- MCTarget
  Absent = Absent
  CutLog = 1
  FailureLimit = 1
  Watermark = 1
  Never <- MCNever
  OwnExpiries <- MCUntimed
  MaxSeq = 2
  MaxTick = 2
  MaxNow = 0
SPECIFICATION Spec
SYMMETRY Symmetry
INVARIANTS NoStaleLive CutLogExact
PROPERTIES CutIsForever
