SPECIFICATION FairSpec
CONSTANTS
  RouteNum = 2
  Retries = 2
  PollNum = 2
  Timed = {0}
  SoeBlock = 2
  MaxSoe = 3
  PartNum = 1
  MaxRecords = 1
  MaxUdp = 2
  JobKinds = {"ykselect", "yk", "ykcancel", "ytselect", "yt", "constant", "soe", "records",
              "yc", "harm", "elec", "udp", "editpar", "time"}
  Commanded = {0}
  MaxJobs = 2
  MaxTroubles = 1
  MaxTogether = 2
INVARIANTS TurnHeld ControlOnce BlocksSettled
PROPERTIES EveryFeaturePolled
