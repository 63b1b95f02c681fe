CONSTANTS
  Scripts = {s1, s2}
  Names = {"a", "sub", "num"}
  TmpNames = {t1, t2}
  Data = {"d1"}
  PathArgs <- MCPathArgs
  MaxUploads = 2
  MaxCalls = 2
  MaxRequests = 2
SYMMETRY Symmetry
SPECIFICATION Spec
CHECK_DEADLOCK FALSE
INVARIANT NoTempLeft
PROPERTY FilesAsReported
