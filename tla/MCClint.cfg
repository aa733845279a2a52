CONSTANTS
  MaxTime = 3
  Deadlines <- MCDeadlines
SPECIFICATION FairSpec
INVARIANTS
  TypeOK
  TimerNeverEarly
  NoLostWakeup
PROPERTIES
  DeadlineFires
  ImplementsOneShotTimer
