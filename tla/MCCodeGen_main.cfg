SPECIFICATION GSpec
CONSTANTS
  Trees <- MCTrees
  Configurations <- MCConfigurations
  Order <- MCOrder
INVARIANTS
  TypeOK
  WellNested
  DefinedBeforeUsed
  ValuesOfTree
  ConditionsOfTree
\* The text is complete.
CHECK_DEADLOCK FALSE
