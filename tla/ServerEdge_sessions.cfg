SPECIFICATION ServerSpec
CONSTANTS
  None = None
  Malformed = Malformed
  HugeDir = 100
  max_future_ticks = 2
  input_rate_limit_per_sec = 1
  tick_rate_hz = 2
  match_duration_ticks = 2
  input_lead_ticks = 1
  max_sessions = 2
  test_player_ids = None
  PlayerIdModulus = 4
  OverflowChecks = TRUE
  InputTicks = {0, 1, 2}
  InputSeqs = {1}
  MoveDirs = {1}
  Fingerprints = {}
  MaxAccepts = 4
INVARIANTS
  FloorCoherent
  PlayerIdsNeverReused
  SessionBindings
  OneAppliedInputPerTick
  IntentHeld
PROPERTIES
  OnlyLivePlayersBuffer
  FrozenStaysFrozen
