SPECIFICATION FairSpec
CONSTANTS
  usb = usb
  network = network
  Transports = {usb, network}
  QueueDepth = 1
  MaxSession = 3
INVARIANTS
  FreshProcessor
PROPERTIES
  DisconnectsOnlyAsked
  ClosedIsDisconnected
