SPECIFICATION Spec
CONSTANTS
  Shippers = {1}
  SiteRows <- MCSiteRows
  ShipmentRows = {}
  Requests <- LongitudeRequests
  PageSizes = {0}
  Limits <- MCLimits
INVARIANT ScanComplete
