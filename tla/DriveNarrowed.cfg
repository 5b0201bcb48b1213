SPECIFICATION LiveSpec
CONSTANTS
  Subjects = {"dynamic"}
  MaxWrites = 2
  HostInstalls = 0
  Verdict <- MCVerdict
  IsRoot = FALSE
  Cacheable = TRUE
  Faces = {"doors", "catalog"}
  None = None
  Threads = {"t1", "t2"}
  Keys = {"k1"}
  Partition <- InPartition
  Listeners = {"l1", "l2"}
  Wants <- Wanted
  Hearing <- HeardAs
  Everything = "all"
  Capacity <- Room
  Cutters = {"c1", "c2"}
  Waiters = {"w1"}
  Nobody = "nobody"
  MaxSeq = 2
  Names = {"n1"}
  Endpoints = {"e1", "e2", "e3"}
  Addresses = {"a1", "a2"}
  First <- FirstBound
  Declared <- DeclaredFirst
  Requests = {"r1", "r2"}
  Nothing = Nothing
  Caching <- AllKinds
  Age = 1
  MemoBound = 2
  MemoLow = 1
  MaxNow = 1
  Nodes <- Invocations
  Root = "r"
  NoAnswer = NoAnswer
  Kids <- Tree
  Way <- How
  Failing = {"a", "b", "e"}
  Keeping = {}
  Width = 1
PROPERTY DriveSettles
CHECK_DEADLOCK FALSE
