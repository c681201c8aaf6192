SPECIFICATION FairSpec
CONSTANTS
  RouteNum = 2
  MaxFqcy = 2
  Goal = 2
  SdevTries = 2
  Retries = 2
  PollNum = 3
  Timed = {1}
  SoeBlock = 2
  MaxSoe = 3
  PartNum = 2
  MaxRecords = 1
  MaxUdp = 2
  JobKinds = {"ykselect", "yk", "ykcancel", "ytselect", "yt", "constant", "soe", "records", "yc", "udp", "editpar", "editudp", "time"}
  MaxJobs = 2
  MaxTroubles = 1
INVARIANTS PairedInTune BlocksSettled
PROPERTIES PairingCompletes EveryFeaturePolled
