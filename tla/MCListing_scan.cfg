SPECIFICATION FairSpec
CONSTANTS
  Shippers = {1,2,3}
  SiteRows <- MCSiteRows
  ShipmentRows <- MCShipmentRows
  Requests <- MCRequests
  PageSizes <- MCPageSizes
  Limits <- MCLimits
INVARIANTS
  TypeOK
  PagesInOrder
  ScanComplete
  NothingPassed
PROPERTY ScanEnds
