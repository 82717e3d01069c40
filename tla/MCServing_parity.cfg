CONSTANTS
  Listings <- MCListings
  Catalogs <- MCCatalogs
  Completeness <- MCCompleteness
  MaxRuns = 3
  PageLimit = 2
  Times = {0}
  Cards <- MCCards
  Roots <- MCRoots
  Shelves <- MCShelves
  Replies = {"sold", "active"}
  Requests <- MCRequests
  PageSize = 1
  RowLimit = 2
  Support = 2
  Contexts <- MCContexts
  MaxEvents = 3
  MaxDuring = 1
SPECIFICATION ServingSpec
INVARIANT RoutesMatch
CHECK_DEADLOCK FALSE
