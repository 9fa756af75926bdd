SPECIFICATION SiteSpec
CONSTANTS
  Visitor = {v1, v2}
  Edited = {"post", "footer"}
  Addresses <- MCAddresses
  MaxBytes = 5
  MaxEntries = 2
  MaxRevision = 2
  MaxEdits = 2
  MaxRequests = 2
  MaxFaults = 1
  ShippedLinks <- LayoutLinks
  ShippedBlocks <- PrebuiltLayoutBlocks
INVARIANTS  MembersOnly CacheAccounts 
SYMMETRY MCSymmetry
CHECK_DEADLOCK FALSE
