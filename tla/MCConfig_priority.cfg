\* Every combination of up to two option types with their sources, then every request.
CONSTANTS
  Handlers = {"script", "file"}
  HasRoutes = "script"
  FixedRoutes <- MCFixedRoutes
  DefaultSizes = {1, 200, 2048}
  RouteLists <- MCRouteLists
  Chars = {"/", "a", "b", "p", "x"}
  Uris <- MCUris
  MaxOptions = 2
SPECIFICATION Spec
CHECK_DEADLOCK FALSE
INVARIANTS OptionsAsPromised DispatchedToLongestRoute
