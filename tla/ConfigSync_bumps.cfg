CONSTANTS
  Nodes = {n1}
  Streams = {s1}
  Handlers = {h1}
  Sites = {w1}
  NoStream = NoStream
  NotifyCap = 3
  FirstSeq = 1
  Seeded <- MCNew
  MayReject = FALSE
  LinkCap = 1
  Workload = {"rules", "exceptions"}
  MaxSeq = 2
  MaxRestarts = 0
  MaxDrops = 0
SYMMETRY Symmetry
SPECIFICATION Spec
INVARIANTS BumpsAfterAnyMutation
