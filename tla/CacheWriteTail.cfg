CONSTANTS
  MaxSizes = {5}
  BufferSize = 2
  NumBytes = 9
SPECIFICATION Spec
INVARIANT AllDelivered
