SPECIFICATION CrewSpec
CONSTANTS
  usb = usb
  wifi = wifi
  host = host
  net = net
  ctl = ctl
  btn = btn
  Emits <- Reports
  Acquires <- Owns
  Selects <- Asks
  StartWords <- Started
  EpochModulus = 8
  Tasks = {usb, host, net, ctl, btn}
  Crews = {{usb, host, net}, {net, ctl, btn}}
  Controls = {ctl}
  MaxGeneration = 2
  MaxChanges = 1
INVARIANTS
  GivenBackUnlessLost
