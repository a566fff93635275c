SPECIFICATION FetchSpec
CONSTANTS
  Paths = {a, out}
  Outside = {out}
  Urls = {u}
  Commits = {c1, c2}
  CommitsOf <- Repositories
  Patterns = {v}
  Refs = {r}
  NoVersion = NoVersion
  NoPackage = NoPackage
  TagOverflow = TRUE
  MaxCrashes = 2
SYMMETRY Symmetry
INVARIANTS IInv NothingLost RestoreFindsFreeDestination
