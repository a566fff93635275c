SPECIFICATION FairSpec
CONSTANTS
  Paths = {"a", "b", "c"}
  Outside = {"b"}
  Urls = {"u"}
  Commits = {"c1"}
  CommitsOf <- Repositories
  Patterns = {"v"}
  Refs = {}
  NoVersion = ""
  NoPackage = NoPackage
  TagOverflow = TRUE
  MaxCrashes = 1
  Configs <- OneConfig
  Arguments <- CrashArgs
  WriteErrors = {"open", "flush"}
PROPERTIES  CommandTerminates
