\* One group with three routes; a reload of the routes or a manual operation.
SPECIFICATION FairStateSpec
CONSTANTS
  GroupNum = 1
  RouteNum = 3
  GroupOf <- AllInOne
  Sending = {}
  MaxEvents = 1
INVARIANTS AtMostOneMain
PROPERTIES Converges
CHECK_DEADLOCK FALSE
