CONSTANTS
  Regions = {us_east_1, us_east_2, ap_east_1}
  OptedIn = {us_east_1, us_east_2}
  HomeRegion = us_east_2
  Instances = {i1, i2, i3}
  Eips = {e1, e2}
  NoInstance = NoInstance
SPECIFICATION Spec
SYMMETRY AccountSymmetry
INVARIANTS
  TypeOK
  AtMostOneInstance
  LiveInRegion
  SuccessMeansRecorded
  AddressesReleased
  UnusableRegionIsEmpty
  LiveIsReachable
PROPERTIES
  ChangeIpKeepsInstance
  ImplementsOneInstance
