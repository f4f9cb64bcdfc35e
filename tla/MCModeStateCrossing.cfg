SPECIFICATION CrewSpec
CONSTANTS
  usb = usb
  wifi = wifi
  shell = shell
  host = host
  net = net
  ctl = ctl
  btn = btn
  diag = diag
  Tasks = {usb, net, btn}
  Crews = {{usb, net, btn}}
  Emits <- Reports
  Acquires <- Owns
  Selects <- Asks
  Controls = {}
  StartWords <- Started
  MaxGeneration = 1
  MaxChanges = 2
  EpochModulus = 8
PROPERTIES
  RevocationsDoNotCross
