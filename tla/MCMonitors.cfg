SPECIFICATION MonitorFairSpec
CONSTANTS
  Phones = {p1}
  NoPhone = NoPhone
  Handlers = {h1, h2}
  MaxID = 3
  Requests = {"connect", "disconnect", "adbConnect", "adbDisconnect", "adbStatus"}
INVARIANTS
  CancelFollowsMonitor
PROPERTIES
  ReplacedMonitorsEnd
