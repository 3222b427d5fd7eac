SPECIFICATION SchedSpec
CONSTANTS
  Jobs <- MCJobs
  MinuteTicks = 6
  Interval = 3
  MaxCall = 1
  MaxDown = 3
  LastSlot = 3
  MaxLives = 2
  NoSlot <- MCNoSlot
INVARIANTS
  OncePerProcess
  NoSlotLeftOut
CHECK_DEADLOCK FALSE
