SPECIFICATION ScriptSpec
CONSTANTS
  Word = 65536
  LimitDim = 32000
  LeastSide = 2
  a = a
  b = b
  Names <- MCNames
  Regions <- MCRegions
  Sizes <- MCSizes
  Views <- MCViews
  Originals <- MCOriginals
  ParamSets <- MCParamSets
  Angles = {0, 90}
  Hashes = {"sha256", "md5"}
  MaxCalls = 4
SYMMETRY NamesSymmetry
PROPERTIES TopleftUpright ScaleCoversSource ReadsBack ChecksumDecides
