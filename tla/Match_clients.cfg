SPECIFICATION MatchSpec
CONSTANTS
  None = None
  Malformed = Malformed
  HugeDir = 100
  max_future_ticks = 2
  input_rate_limit_per_sec = 2
  tick_rate_hz = 1
  match_duration_ticks = 2
  input_lead_ticks = 1
  max_sessions = 2
  test_player_ids = None
  PlayerIdModulus = 4
  OverflowChecks = TRUE
  InputTicks = {1}
  InputSeqs = {1}
  MoveDirs = {1}
  Fingerprints = {}
  MaxAccepts = 2
  MAX_CONSECUTIVE_SERVICE_ERRORS = 2
  MaxConnects = 2
  TestClients = {2}
  MaxInputs = 2
INVARIANTS
  OwnCharacterShown
  AimsAtTheFloor
  FloorFollowsView
  ClientsNeverTie
  PacketsUnambiguous
  BaselineNotLost
  SnapshotHasOwnEntity
PROPERTIES
  ViewNeverGoesBack
