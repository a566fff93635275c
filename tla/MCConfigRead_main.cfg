SPECIFICATION FairSpec
CONSTANTS
  Roots <- MCRoots
  FileSets <- Files
  merge <- node_merge
  replace_parameters <- node_replace_parameters
  missing_parameters <- undefined_params
  trim_attributes <- node_trim_attributes
INVARIANTS
  TypeOK
  PackagesInOrder
  LastSettingWins
  AcceptedIsComplete
  TargetSources
PROPERTY ConfigTerminates
\* Reading a configuration ends.
CHECK_DEADLOCK FALSE
