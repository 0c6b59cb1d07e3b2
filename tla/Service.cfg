\* The D-Bus service, its clients, and other writers of config.toml.
SPECIFICATION Spec
CONSTANTS
  c1 = c1
  c2 = c2
  a = a
  b = b
  v = v
  w = w
  red = red
  slow = slow
  mid = mid
  fast = fast
  none = none
  Clients <- MCClients
  Layouts <- MCLayouts
  Vars <- MCVars
  Images <- MCImages
  Rates <- MCRates
  StreamRate = fast
  Firsts <- MCFirsts
  Ops <- MCOps
  None = none
  MaxCalls = 3
  MaxEdits = 1
  MaxDowns = 1
  MaxEvents = 3
INVARIANTS
    ModeAgrees
    SettingsAgree
PROPERTIES
    OthersEditsKept
    EveryCallReturns
CHECK_DEADLOCK FALSE
