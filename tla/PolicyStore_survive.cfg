CONSTANTS
  RuleIds = {1}
  Texts = {"t0", "t1"}
  Cidrs = {"net1", "net2"}
  Paths = {"p1", "p2"}
  SeedRules = {1}
  SeedText = "t0"
  SeedIps <- MCSeedIps
  SeedPaths <- MCSeedPaths
  MaxUuid = 4
  MaxEntries = 4
  MaxExceptions = 2
  MaxBoots = 1
SPECIFICATION Spec
PROPERTIES ExceptionsSurvive
