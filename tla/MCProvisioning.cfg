SPECIFICATION CrewSpec
CONSTANTS
  home = home
  lab = lab
  phone = phone
  desk = desk
  Credentials = {home, lab}
  Blobs = {"key"}
  Owners = {phone, desk}
  MaxDelay = 1
  QueueDepth = 3
  Crews = {"station", "radio", "window", "again", "failing", "racing", "erase", "store", "button"}
  Budget <- MCBudget
  PressConfirm = 2
  ClickRelease = 2
  DoubleClick = 6
  Hold2 = 7
  Hold6 = 10
  Hold10 = 13
  ReleaseConfirm = 4
  StableRelease = 4
  SimulatedPress = 2
  SimulatedTail = 7
  Bindings <- MCBindings
SYMMETRY Symmetry
INVARIANTS
  ProvisionedHasWifi
  NeverStranded
  AppliedIsStored
  WindowAlwaysEnds
  WindowOwnsStation
  CommandIsDeliberate
PROPERTIES
  CommitsOnlyUndecided
  SimulationIsRecognised
CHECK_DEADLOCK FALSE
