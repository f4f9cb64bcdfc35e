SPECIFICATION CrewSpec
CONSTANTS
  usb = usb
  wifi = wifi
  host = host
  net = net
  ctl = ctl
  btn = btn
  Emits <- Reports
  Acquires <- Owns
  Selects <- Asks
  StartWords <- Started
  EpochModulus = 8
  Tasks = {wifi, net}
  Crews = {{wifi, net}}
  Controls = {}
  MaxGeneration = 1
  MaxChanges = 1
INVARIANTS
  DisabledReleases
