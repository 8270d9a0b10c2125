CONSTANTS
  RegionMaps <- MCRegionMaps
  kPageBytes = 4096
  kMaxPages = 8
  MaxStores = 2
SPECIFICATION Spec
INVARIANTS
  TypeOK
PROPERTIES
  SampleIsFirstPages
