SPECIFICATION Spec
CONSTANTS
  Roots <- MCSplit
  FileSets <- Files
  merge <- node_merge
  replace_parameters <- node_replace_parameters
  missing_parameters <- undefined_params
  trim_attributes <- node_trim_attributes
INVARIANT NothingDropped
\* Reading a configuration ends.
CHECK_DEADLOCK FALSE
