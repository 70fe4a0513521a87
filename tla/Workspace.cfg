CONSTANTS
  ann = ann  all = all  api = api  cli = cli  api2 = api2
  home = home  other = other  shared = shared
  h1 = h1  h2 = h2  nohost = nohost  NO = NO  CL = CL
  Agent = {home, other}  Home = home  Shared = shared  Api = {api, api2}
  Traffic = {"tool", "fetch"}  Site = {"api", "docs", "mail"}  HostOf <- MCHostOf
  Rule <- MCRule  NoHost = nohost  None = NO  Closed = CL
  Policy <- MCPolicy  Gates <- MCGates  Guards <- MCGuards  Files <- MCFiles
  Server = {api}  Console = {cli}  Owner = {ann, all}  Common = all
  MaxRows = 2  MaxLogins = 2  MaxMints = 3  MaxResets = 2
  MaxOps = 3  MaxFaults = 1  MaxDeaths = 1
SPECIFICATION Spec
INVARIANTS KeysSound  TrailTellsAll
PROPERTIES ResealsKeepOrder AgentsApart
CHECK_DEADLOCK FALSE
