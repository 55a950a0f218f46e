SPECIFICATION NetworkSpec
CONSTANTS
  NumDesc = 2
  NoFrame = NoFrame
  Hosts <- MCHosts
  MaxWait = 2
  MaxPings = 3
  MaxFrames = 1
  MaxDesc = 2
  QueueSize = 2
  IndexWrap = 4
PROPERTIES WaitEndsWithTheFrameSent
CHECK_DEADLOCK FALSE
