CONSTANTS
  Nodes = {n1}
  Streams = {s1, s2}
  Handlers = {h1}
  Sites = {w1}
  NoStream = NoStream
  NotifyCap = 1
  FirstSeq = 1
  Seeded <- MCNew
  MayReject = FALSE
  LinkCap = 1
  Workload = {"rules", "exceptions"}
  MaxSeq = 3
  MaxRestarts = 1
  MaxDrops = 0
SPECIFICATION FairSpec
PROPERTIES Convergence EdgeSpec
