SPECIFICATION CoreSpec
CONSTANTS
  p1 = p1
  p2 = p2
  k1 = k1
  k2 = k2
  sor = sor
  alice = alice
  botx = botx
  xbot = xbot
  accAlice = accAlice
  accBotx = accBotx
  Threads = {t1, t2}
  Users = {u}
  NumBots = 2
  Plugins = {p1, p2}
  CommandsOf <- PluginCommands
  Fragile = {p1}
  Freeform = sor
  Sent = {k1}
  MaxCalls = 2
  NoPlugin = NoPlugin
  Handlers = {h1, h2}
  People = {alice, botx, xbot}
  AccountOf <- PeopleAccounts
  MaxRooms = 2
  Nobody = Nobody
  VoiceChannels = {v1, v2}
  NumCommands = 4
  NumSessions = 2
SYMMETRY Symmetry
INVARIANTS ServedIsEnabled LimiterIsSound OneRowPerAccount MembersAreInTheRooms QueuePlaysOn SessionHasItsRoom
CHECK_DEADLOCK FALSE
