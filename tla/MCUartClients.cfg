CONSTANTS
  usb = usb
  poll = poll
  net = net
  kick = kick
  ota = ota
  line = line
  host = host
  route = route
  Tasks <- AllTasks
  Settings <- TwoSettings
  Default <- Usual
  Sizes = {1, 2}
  RxSize = 2
  TxSize = 1
  DroppedMax = 1
  MaxSession = 2
  MaxRx = 4
  MaxConfigs = 1
  Crews = {{usb, host, poll, route},
           {usb, host, net, route},
           {net, kick, ota},
           {usb, host, ota},
           {net, line, route},
           {usb, poll, line}}
SPECIFICATION CrewSpec
INVARIANTS
  TxOwnerIsStable
  RxFaithful
  StatusIsOneConfiguration
  BridgeKnowsSession
  QuietWhileUpdating
PROPERTIES
  UsbSessionReleased
