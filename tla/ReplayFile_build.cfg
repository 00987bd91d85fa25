SPECIFICATION ProcessSpec
CONSTANTS
  None = None
  Malformed = Malformed
  HugeDir = 100
  max_future_ticks = 2
  input_rate_limit_per_sec = 1
  tick_rate_hz = 1
  match_duration_ticks = 2
  input_lead_ticks = 1
  max_sessions = 2
  test_player_ids = None
  PlayerIdModulus = 3
  OverflowChecks = TRUE
  InputTicks = {1}
  InputSeqs = {1}
  MoveDirs = {1}
  Fingerprints = {}
  MaxAccepts = 3
  Paths = {t1}
  ForeignBuild = b3
INVARIANTS
  StrictRejectsOtherBuild
