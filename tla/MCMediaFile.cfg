SPECIFICATION Spec
CONSTANTS
  MaxStreams = 3
  MaxPackets = 4
  MaxPlays = 2
  Env = {"streams", "no_video", "unreadable", "truncated", "codec", "encode"}
INVARIANT FramesInOrder
INVARIANT EndsAtEnd
CHECK_DEADLOCK FALSE
