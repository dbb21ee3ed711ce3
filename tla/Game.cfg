SPECIFICATION Spec
CONSTANTS
  d1 = d1
  d2 = d2
  d3 = d3
  f1 = f1
  f2 = f2
  tune = tune
  plain = plain
  lead = lead
  choir = choir
  drum = drum
  soloTune = soloTune
  soloPlain = soloPlain
  None = None
  Unlimited = Unlimited
  RoomRole = RoomRole
  SoloRole <- MCSoloRole
  NodeRoles <- MCNodeRoles
  Limit <- MCLimit
  Refused <- MCRefused
  UnscoredRole = {drum}
  ScoredRole = {lead, choir}
  Node = {"stage", "pit"}
  Dev = {d1, d2, d3}
  Instrument = {tune, plain}
  Fixture = {f1}
  MaxScored = 2
  AdminDev = {d3}
  StartAdminOnly = TRUE
  MinScored = 1
  Bindings <- MCUnbound
  MuteTargets = {f1}
  RoomHazards = {"rearm", "lapse"}
  MaxRounds = 2
INVARIANT CountsCover
INVARIANT LobbyHonest
PROPERTY SeatKept
PROPERTY TellsInTurn
