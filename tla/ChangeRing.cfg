SPECIFICATION FairRingSpec
CONSTANTS
  PointNum = 2
  Inverted = {0}
  Reversed = {0, 1}
  MaxChanges = 1
  MaxMarks = 1
  MaxCrashes = 1
INVARIANTS EventsFollow AlarmsAnnounced
PROPERTIES ValuesStored
