SPECIFICATION Spec
CONSTANTS
  Star = Star
  Dash = Dash
  Plus = Plus
  Dot = Dot
  V = V
  R = R
  Other = {Dot, V, R}
  MaxInt = 8
  NoTag = NoTag
  Versions <- VersionsChosen
  TagLists <- AllLists
CHECK_DEADLOCK FALSE
INVARIANTS ResultIsGreatest MatchIsCover LessIsStrictWeakOrder LessIsPrecedence
