\* Words at the limits, with short addresses and leading zeros.
SPECIFICATION Spec
CONSTANTS
  Octets = 2
  Bits = 4
  Digits = 3
  Typed <- MCTyped
  Binds <- MCBinds
  Listed <- MCListed
  Field <- MCField
CHECK_DEADLOCK FALSE
INVARIANTS BoundAsWritten NetworkBound AreaBound RoundTrip
