SPECIFICATION WindowSpec
CONSTANTS
  None = None
  Malformed = Malformed
  HugeDir = 100
  Players = {p1}
  max_future_ticks = 2
  input_rate_limit_per_sec = 5
  tick_rate_hz = 2
  input_lead_ticks = 1
  InputTicks = {1, 2, 6}
  InputSeqs = {1, 2}
  MoveDirs <- MCMoveDirs
  LastTick = 3
INVARIANTS
  EntrySummarisesLog
  RateLimited
PROPERTIES
  ImplementsSelection
