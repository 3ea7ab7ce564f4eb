SPECIFICATION Spec
CONSTANTS
  Space = 6
  SEQ = 8
  Sizes <- Units
  Listeners = {"rtsp"}
  NONE = NONE
INVARIANT VideoNumbered
INVARIANT FitsBuffer
INVARIANT Fragmented
