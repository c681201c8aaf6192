SPECIFICATION FairSpec
CONSTANTS
  Commands = {"all", "channel", "group", "route", "protocol", "yc"}
  MaxAsks = 2
  MaxFailures = 1
INVARIANTS LoadGuarded RoutesFollow RequestKept
PROPERTIES RequestLoaded
CHECK_DEADLOCK FALSE
