SPECIFICATION CrewFairSpec
CONSTANTS
  cable = cable
  peer = peer
  later = later
  net = net
  btn = btn
  Usb = cable
  Emits <- Silent
  Acquires <- Owns
  Selects <- Asks
  Controls = {}
  StartWords <- Started
  EpochModulus = 8
  Tasks = {cable, net, btn}
  Clients = {cable}
  Crews = {{cable, net}, {cable, btn}}
  MaxGeneration = 1
  MaxChanges = 2
  MaxImage = 1
PROPERTIES
  CallsReturn
