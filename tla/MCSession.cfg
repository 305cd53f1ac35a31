\* One writer at the client; bytes have two values, so that packets of up to
\* three bytes need both bytes of the length prefix.
CONSTANTS
  Writers = {w1}
  NoFrame = NoFrame
  Byte = 2
  Lengths = {0, 3}
  Pads = {1}
  QueueCap = 1
  MaxFrames = 3
  MaxFaults = 1
SPECIFICATION Spec
CHECK_DEADLOCK FALSE
INVARIANTS
  DeliveredInOrder
  DeliveredAsSealed
  NoFrameRefused
PROPERTIES
  NonceFresh
