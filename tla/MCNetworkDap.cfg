CONSTANTS
  Slots = {c1, c2}
  PSKs = {"k1", "k2"}
  FirstPSK = "k1"
  MaxDials = 2
  MaxPending = 2
  MaxGeneration = 2
  RevokeDepth = 1
  ServiceDepth = 1
  Crews = {{"DAP", "UART", "idle"}, {"DAP", "UART", "peer", "control"}, {"DAP", "request", "idle"}, {"DAP", "pairing"}, {"UART", "window"}, {"UART", "route", "control", "keepalive"}, {"DAP", "keepalive", "idle"}}
SPECIFICATION CrewSpec
INVARIANTS
  ResourcesCounted
  OwnerIsPaired
  CallbackHasItsConnection
  RevocationsAreCarried
