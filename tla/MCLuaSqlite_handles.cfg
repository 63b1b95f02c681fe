\* The userdata of two scripts on one file, in every order of use and collection.
CONSTANTS
  s1 = s1
  s2 = s2
  Scripts <- MCScripts
  Paths <- MCPaths
  Missing <- MCMissing
  Values = {1, 2}
  Rows = {1, 2}
  MaxDbs = 2
  MaxStmts = 2
SPECIFICATION Spec
SYMMETRY Symmetry
CHECK_DEADLOCK FALSE
INVARIANTS HandlesReleased IterationRight
