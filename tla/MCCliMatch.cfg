\* Every kind of node, words up to MaxWord. IPv6 addresses of five groups of up to
\* two digits, communities up to 65:65, a range within the 1000 values of ULLong.
SPECIFICATION Spec
CONSTANTS
  Kinds <- MCKinds
  Chars <- MCChars
  Value <- MCValue
  Hex <- MCHex
  MaxOctet = 255
  MaxLength4 = 32
  MaxXdigits = 2
  Groups = 5
  MaxLength6 = 128
  MaxPart = 65
  RangeMin = 5
  RangeMax = 66
  ULLong = 1000
  MaxWord <- MCMaxWord
CHECK_DEADLOCK FALSE
INVARIANTS IPv4Exact CommunityExact RangeExact IPv6AddressSound IPv6Taken
