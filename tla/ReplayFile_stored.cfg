SPECIFICATION ProcessSpec
CONSTANTS
  None = None
  Malformed = Malformed
  HugeDir = 100
  max_future_ticks = 2
  input_rate_limit_per_sec = 1
  tick_rate_hz = 1
  match_duration_ticks = 2
  input_lead_ticks = 1
  max_sessions = 2
  test_player_ids <- MCTestPlayerIds
  PlayerIdModulus = 3
  OverflowChecks = TRUE
  InputTicks = {1}
  InputSeqs = {1}
  MoveDirs = {1}
  Fingerprints = {b1, b2}
  MaxAccepts = 3
  Paths = {t1, t2}
  ForeignBuild = b3
INVARIANTS
  VerifiesIffComplete
  SuccessMeansStored
  FilesVerifyAsPlayed
PROPERTIES
  NeverOverwritten
