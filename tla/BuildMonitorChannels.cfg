SPECIFICATION Spec
CONSTANTS
  Products = {p1, p2}
  Aware = {p1, p2}
  Regions = {us}
  MaxSeq = 1
  MaxRuns = 1
  MaxRows = 4
  NoProduct = NoProduct
INVARIANT AnnouncedOnItsChannels
