SPECIFICATION CrewSpec
CONSTANTS
  Crews = {"dap", "serial", "line", "setup", "both"}
  CableCrews = {"cable", "data", "keys", "stop"}
  MaxEvents = 3
  FifoSize = 2
  TextSize = 1
  AckSize = 2
  MaxInput = 3
  QueueDepth <- MCQueueDepth
  ResponseDepth = 2
  PendingLimit = 3
  ResponseSize = 2
  MaxRequest = 1
  NoticeSize = 2
  MaxSequence = 5
INVARIANTS
  EveryUrbSettledOnce
  OutputAsReported
  InputInOrder
  NoLostWakeUp
  SequencesAgree
  BytesOnTheirEndpoint
  AttachmentIsTracked
  RestartIsAcknowledged
CHECK_DEADLOCK FALSE
