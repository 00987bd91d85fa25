SPECIFICATION LoopSpec
CONSTANTS
  None = None
  Malformed = Malformed
  HugeDir = 100
  max_future_ticks = 2
  input_rate_limit_per_sec = 1
  tick_rate_hz = 1
  match_duration_ticks = 3
  input_lead_ticks = 1
  max_sessions = 2
  test_player_ids = None
  PlayerIdModulus = 8
  OverflowChecks = TRUE
  InputTicks = {0, 1, 2}
  InputSeqs = {1}
  MoveDirs = {1}
  Fingerprints = {}
  MaxAccepts = 4
  MAX_CONSECUTIVE_SERVICE_ERRORS = 2
  MaxConnects = 4
INVARIANTS
  NeverPanics
  PeerBindings
  WelcomedBeforeInput
  OnlyEarlyBindingsStale
  StartupNeutral
