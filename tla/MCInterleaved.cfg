SPECIFICATION MediaSpec
CONSTANTS
  Plain = Plain
  Number = Number
  Numbers = {Number}
  Tricky = Tricky
  Empty = Empty
  Values = {Plain, Number, Tricky}
  Headers <- MCHeaders
  Origins <- MCOrigins
  Owners = {o1, o2}
  Bytes = 8
  Lengths = 128
  MaxAllocs = 5
  Packets <- MCPackets
  Sizes = {0, 123, 124, 127}
INVARIANTS
  NearbyDistinct
  RoundTrip
  
  ReceivedAsSent
  FramesRoundTrip
CHECK_DEADLOCK FALSE
