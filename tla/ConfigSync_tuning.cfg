CONSTANTS
  Nodes = {n1, n2}
  Streams = {s1, s2}
  Handlers = {h1}
  Sites = {w1, w2}
  NoStream = NoStream
  NotifyCap = 1
  FirstSeq = 1
  Seeded <- MCNew
  MayReject = FALSE
  LinkCap = 1
  Workload = {"rules"}
  MaxSeq = 3
  MaxRestarts = 0
  MaxDrops = 0
SYMMETRY Symmetry
SPECIFICATION Spec
INVARIANTS SameTuning
