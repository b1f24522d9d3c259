CONSTANTS
  Nodes = {n1}
  Streams = {s1, s2}
  Handlers = {h1, h2}
  Sites = {w1}
  NoStream = NoStream
  NotifyCap = 1
  FirstSeq = 1
  Seeded <- MCPending
  MayReject = FALSE
  LinkCap = 1
  Workload = {"rules"}
  MaxSeq = 3
  MaxRestarts = 0
  MaxDrops = 1
SYMMETRY Symmetry
SPECIFICATION Spec
INVARIANTS PushFresh
PROPERTIES NoRollback RecoveryHonest StaysCaughtUp
