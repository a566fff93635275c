SPECIFICATION FairFetchSpec
CONSTANTS
  Paths = {a, out}
  Outside = {out}
  Urls = {u}
  Commits = {c1, c2}
  CommitsOf <- Repositories
  Patterns = {v}
  Refs = {r}
  NoVersion = NoVersion
  NoPackage = NoPackage
  TagOverflow = FALSE
  MaxCrashes = 0
INVARIANTS TypeOK FailedFetchRestores PinnedFetchExact Tidy
PROPERTIES AtomicSpec CallReturns
