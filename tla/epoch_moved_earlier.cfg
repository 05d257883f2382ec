SPECIFICATION EpochSpec
CONSTANTS
  u1 = u1
  u2 = u2
  Users = {u1}
  Requests <- MCDeposits
  MaximumInputs = {2}
  StartInputs = {1, 3, 4}
  IntervalInputs = {3}
  InitialTime = 2
  MaxTime = 6
PROPERTIES
  WithinEpochMaximum
