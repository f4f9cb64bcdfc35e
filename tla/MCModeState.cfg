SPECIFICATION CrewSpec
CONSTANTS
  usb = usb
  wifi = wifi
  shell = shell
  host = host
  net = net
  ctl = ctl
  btn = btn
  diag = diag
  Tasks = {usb, wifi, shell, net, ctl, btn, diag}
  Crews = {{usb, net, btn}, {usb, diag, btn}, {wifi, shell, ctl}}
  Emits <- Reports
  Acquires <- Owns
  Selects <- Asks
  Controls = {ctl}
  StartWords <- Started
  MaxGeneration = 1
  MaxChanges = 2
  EpochModulus = 8
INVARIANTS
  RouteDurable
PROPERTIES
  AdmittedUnderOnePolicy
