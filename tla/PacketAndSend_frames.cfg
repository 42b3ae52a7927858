SPECIFICATION Spec
CONSTANTS
  mtu = 6
  PAYLOAD_SIZE = 8
  LengthsH264 = {3, 4, 5, 6, 7, 8, 9, 10, 11}
  LengthsH265 = {3, 4, 5, 7, 8, 11, 12, 13, 20, 21}
  NalsH264 = 3
  NalsH265 = 2
  NalsLater = 1
  Codes = {3, 4}
  SeqMod = 2
INVARIANT Lossless
INVARIANT HeaderOfItsNal
INVARIANT FragmentOfItsNal
PROPERTY GetsOn
