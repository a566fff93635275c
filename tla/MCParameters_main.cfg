SPECIFICATION Spec
CONSTANTS
  MaxLength = 7
  Chars <- MCChars
  Texts <- MCTexts
  params <- MCParams
INVARIANTS
  TypeOK
  ResultIsMeaning
  UndefinedIsReported
  EscapeIsUndone
  OnlyUnclosedAsserts
\* A call returns.
CHECK_DEADLOCK FALSE
