SPECIFICATION Spec
CONSTANTS
  Paths = {"a", "b", "c"}
  Outside = {}
  Urls = {"u", "w"}
  Commits = {"c1", "c2"}
  CommitsOf <- Repositories
  Patterns = {"v"}
  Refs = {}
  NoVersion = ""
  NoPackage = NoPackage
  TagOverflow = FALSE
  MaxCrashes = 0
  Configs <- TwoConfigs
  Arguments <- UnknownArgs
  WriteErrors = {"open"}
INVARIANTS CommandTypeOK GenerateRecords UpdateRecords RowNamesOrigin RowsAreUnique FailureKeepsPins CleanHistoryPinned GenerateIsIdempotent
PROPERTY AtomicLockSpec
