CONSTANTS
  Nodes = {n1}
  Streams = {s1}
  Handlers = {h1}
  Sites = {w1}
  NoStream = NoStream
  NotifyCap = 1
  FirstSeq = 1
  Seeded <- MCNew
  MayReject = TRUE
  LinkCap = 1
  Workload = {"rules"}
  MaxSeq = 3
  MaxRestarts = 0
  MaxDrops = 0
SYMMETRY Symmetry
SPECIFICATION Spec
PROPERTIES RefusedStaysPending
