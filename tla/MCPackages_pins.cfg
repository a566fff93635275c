SPECIFICATION Spec
CONSTANTS
  Paths = {"a", "b", "c"}
  Outside = {}
  Urls = {"u"}
  Commits = {"c1", "c2"}
  CommitsOf <- Repositories
  Patterns = {"v"}
  Refs = {}
  NoVersion = ""
  NoPackage = NoPackage
  TagOverflow = FALSE
  MaxCrashes = 0
  Configs <- PairConfigs
  Arguments <- PlainArgs
  WriteErrors = {}
INVARIANT GeneratePins
