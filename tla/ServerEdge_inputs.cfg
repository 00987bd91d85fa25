SPECIFICATION ServerSpec
CONSTANTS
  None = None
  Malformed = Malformed
  HugeDir = 100
  max_future_ticks = 2
  input_rate_limit_per_sec = 3
  tick_rate_hz = 2
  match_duration_ticks = 3
  input_lead_ticks = 1
  max_sessions = 2
  test_player_ids = None
  PlayerIdModulus = 1
  OverflowChecks = FALSE
  InputTicks = {0, 1, 2, 3, 4}
  InputSeqs = {1}
  MoveDirs <- MCMoveDirs
  Fingerprints = {}
  MaxAccepts = 2
INVARIANTS
  TypeOK
  BufferWithinWindow
  SameIntentPerStep
