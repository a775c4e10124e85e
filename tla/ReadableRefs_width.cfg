SPECIFICATION RefsSpec
CONSTANTS
  clerk1 = clerk1
  Base = 10
  Width = 1
  Longest = 2
  MaxNumber = 11
  Creators <- OneCreator
INVARIANT SequentialWritersAreSafe
CHECK_DEADLOCK FALSE
