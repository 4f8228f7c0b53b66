SPECIFICATION FairSpec
CONSTANTS
  core = core
  ab = ab
  a = a
  again = again
  None = None
  Conn = {core, ab, a, again}
  Order <- InOrder
  NameOf <- Names
  BuiltIn = {core}
  Tool <- Tools
  Exposed <- Catalog
  Lists <- ToolLists
  Uri <- Resources
  ServedBy <- Servers
  Values <- Contents
  MaxFaults = 1
INVARIANTS
  CatalogConsistent
PROPERTIES
  CatalogSettles
  UpdatesAnnounced
CHECK_DEADLOCK FALSE
