SPECIFICATION FairSpec
CONSTANTS
  ABSENT = ABSENT
  CUSTOM = "custom"
  Extensions = {}
  Client = {"values", "interleave"}
  FilterOf <- TwoFilters
  Script <- InterruptedRun
  Rounds = 1
  Attempts = 1
  Faults = {"drop", "start", "rotate", "close"}
  MaxFaults = 1
  Overlap = FALSE
INVARIANTS
  ChannelOrder
  Served
PROPERTIES
  RunEndReleases
  OutputResolves
\* a session may be over
CHECK_DEADLOCK FALSE
