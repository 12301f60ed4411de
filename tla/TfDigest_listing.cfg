SPECIFICATION DigestSpec
CONSTANTS
  Items <- MCItems
  Listings <- MCListings
  Places <- MCPlaces
  PageSize = 2
  Backends <- MCBackends
  Declared = {"region", "size"}
  Defaults = {"size"}
  TfVars <- MCTfVars
  MaxChanges = 1
  MaxFaults = 1
  MaxRuns = 2
CHECK_DEADLOCK FALSE
INVARIANTS ListingComplete ConfigFollowsDigest
