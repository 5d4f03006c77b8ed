SPECIFICATION FairSpec
CONSTANTS
  Products = {p1}
  Aware = {p1}
  Regions = {us, eu}
  MaxSeq = 2
  MaxRuns = 2
  MaxRows = 3
  NoProduct = NoProduct
INVARIANTS CaughtUpMeansRecorded RecordedBuildIsFound AnnouncedByDiscoverer
PROPERTIES PublicationsAreNoticed
