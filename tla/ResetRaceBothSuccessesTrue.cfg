CONSTANTS
  Regions = {us_east_1, us_east_2}
  OptedIn = {us_east_1, us_east_2}
  HomeRegion = us_east_2
  Instances = {i1, i2, i3}
  Eips = {e1}
  NoInstance = NoInstance
SPECIFICATION Spec
INVARIANTS
  BothSuccessesTrue
