SPECIFICATION SettledSpec
CONSTANTS
  u1 = u1
  u2 = u2
  Users = {u1, u2}
  Requests <- MCDeposits
  MaximumInputs = {0, 3}
  StartInputs = {1, 2}
  IntervalInputs = {0, 1, 2}
  InitialTime = 1
  MaxTime = 5
INVARIANTS
  NoRecordFromTheFuture
PROPERTIES
  LimitsImplementTally
  WithinEpochMaximum
  FreshEpochFreshAllowance
