SPECIFICATION LoopSpec
CONSTANTS
  None = None
  Malformed = Malformed
  HugeDir = 100
  max_future_ticks = 1
  input_rate_limit_per_sec = 1
  tick_rate_hz = 1
  match_duration_ticks = 2
  input_lead_ticks = 1
  max_sessions = 2
  test_player_ids = None
  PlayerIdModulus = 2
  OverflowChecks = FALSE
  InputTicks = {1}
  InputSeqs = {1}
  MoveDirs = {1}
  Fingerprints = {}
  MaxAccepts = 3
  MAX_CONSECUTIVE_SERVICE_ERRORS = 2
  MaxConnects = 3
INVARIANTS
  PlayerIdsNeverReused
