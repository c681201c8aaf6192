SPECIFICATION FairSpec
CONSTANTS
  RouteNum = 2
  Unloadable = {}
  Listening = {}
  Polls = {p1}
  First = p1
  Errands = {list}
  Control = yk
  Unused = {}
  Unanswered = {list}
  Retries = 2
  RTimeOut = 1
  SwitchTimeOut = 1
  ScanDue = {TRUE}
  RecvSize = 1
  MaxControls = 1
  MaxTroubles = 0
  TableChanges = FALSE
PROPERTIES EveryRouteTurns RequestSettles ControlCarried
