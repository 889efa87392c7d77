CONSTANTS
  Loaders = {l1, l2}
  aws1 = aws1
  aws2 = aws2
  Sections <- TwoSections
  Keys = {whitelist}
  Vals = {blank, addr}
  Default = blank
  Absent = Absent
  NoLoader = NoLoader
SPECIFICATION Spec
INVARIANT SavedValuesKept
