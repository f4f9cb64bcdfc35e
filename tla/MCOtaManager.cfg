SPECIFICATION CrewSpec
CONSTANTS
  cable = cable
  peer = peer
  later = later
  net = net
  btn = btn
  Usb = cable
  Emits <- Silent
  Acquires <- Owns
  Selects <- Asks
  Controls = {}
  StartWords <- Started
  EpochModulus = 8
  Tasks = {cable, peer, later, net, btn}
  Clients = {cable, peer, later}
  Crews = {{cable, net, btn}, {cable, peer, later}}
  MaxGeneration = 1
  MaxChanges = 2
  MaxImage = 2
INVARIANTS
  UpdateExcludesDebug
  DebugRestored
  OrphansCanBeAborted
PROPERTIES
  SelectedImageIsWhole
