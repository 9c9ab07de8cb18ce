SPECIFICATION FairSpec
CONSTANTS
  Client = {c1, c2}
  Server = server
  MaxEvents = 3
CHECK_DEADLOCK FALSE
PROPERTY SitesSettle
