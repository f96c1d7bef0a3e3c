SPECIFICATION FairSpec
CONSTANTS
  TickModulus = 8
  TaskPeriods <- MCTaskPeriods
  Timers <- MCTimers
  LinkTimer = "LINK"
  Period <- MCPeriod
  MaxElapsed = 9
INVARIANTS
  TypeOK
  NoTickForgotten
  ClockLosesOnlyMissedTicks
  EveryExpiryPolled
  TasksOnTime
PROPERTY TickTakenUp
