SPECIFICATION Spec
CONSTANTS
  Radix = 3
  Aligned = {TRUE, FALSE}
  Slots <- ThreeSlots
  MaxOctets = 9
  Lengths = {0, 1, 2, 7, 8, 9, 10}
  Strings <- Texts
  Numbers = {0, 42, 80}
  Buffers <- Contents012
CHECK_DEADLOCK FALSE
INVARIANTS SizeExact RoundTrip JoinFaithful
