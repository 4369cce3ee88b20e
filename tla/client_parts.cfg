CONSTANTS
  Parts <- AllParts
  p = p
  Plugins = {p}
  Policies = {"allow", "deny"}
  Updates = {1, 2}
  MaxActs = 2
  m1 = m1
  m2 = m2
  Models = {m1, m2}
  MaxContext <- MaxContextC
  Requests = {1, 2}
  MinTokens = 1
  MinContext = 2
  TokensLimit = 5
  Presets <- PresetsC
  Typed = {9}
  Blank = 99
  MaxClicks = 5
  admin = admin
  bob = bob
  Users = {admin, bob}
  Admin = admin
  NoUser = NoUser
  MaxRefreshes = 3
  MaxSteps = 2
  Ports = {1, 2}
  Default = 1
  Lines <- LinesC
  Histories <- HistoriesC
  Counts <- CountsC
SPECIFICATION PartsSpec
CHECK_DEADLOCK FALSE
INVARIANTS
  PluginsPageIsTrue
  SelectedIsServed
  SettingsAgree
  NewerAuditStays
  ChoosesBest
  KeepsTheFrame
PROPERTIES
  BannerClears
  SavedAsSent
  RefreshesEnd
  StartEnds
