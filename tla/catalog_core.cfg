\* Sites and crawlings come, change and go while a client pages through one listing.
CONSTANTS
  s1 = s1
  s2 = s2
  j1 = j1
  j2 = j2
  j3 = j3
  v1 = v1
  v2 = v2
  NoFilter = NoFilter
  Sites = {s1, s2}
  Crawlings = {j1, j2, j3}
  Fields = {"base_url", "url_source_type"}
  Values = {v1, v2}
  Statuses = {"pending", "running"}
  Times <- Stamps
  DefaultLimit = 1
  MaxLimit = 2
  Requested = {0, 2}
  Listings <- TwoListings
  Bodies <- Whole
  Puts <- Whole
  MaxDocs = 4
  MaxChanges = 1
SPECIFICATION CatalogSpec
INVARIANTS CatalogTypeOK JobsUseOneVersion WalksMissNothing WalksRepeatNothing
SYMMETRY Interchangeable
CHECK_DEADLOCK FALSE
