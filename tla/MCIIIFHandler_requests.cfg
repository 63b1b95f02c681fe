SPECIFICATION Spec
CONSTANTS
  Word = 65536
  LimitDim = 32000
  LeastSide = 2
  Requests <- MCRequests
  RegionOf <- MCRegionOf
  SizeOf <- MCSizeOf
  RotationOf <- MCRotationOf
  QualityFormatOf <- MCQualityFormatOf
  Specials = {"meta"}
  Masters <- MCMasters
  Scripts = {"run", "not there", "bad"}
  Limits <- MCLimits
  ScalingQuality <- MCScalingQuality
  MaxRequests = 2
INVARIANTS DeliveredAsAsked RestrictionHolds HitIsFresh RegionInside
