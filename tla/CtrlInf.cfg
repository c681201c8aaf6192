CONSTANTS
  CtrlNum = 2
  Commands <- ThreeCommands
  Nothing = Nothing
  Adders <- TwoClients
  Adds <- ClientAdds
  Routes <- TwoRoutes
  GroupOf <- OneGroup
SPECIFICATION FairSpec
VIEW Promised
INVARIANTS AcceptedKept TakenOnce 
PROPERTIES ImplementsBox EveryCommandSettled
CHECK_DEADLOCK FALSE
