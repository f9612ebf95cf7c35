SPECIFICATION WalkSpec
CONSTANTS
  BusWords <- MCBusWords
  MaxArray = 8
INVARIANTS
  AddressesTrue
  ReadBack
  CsrHeaderTrue
  FieldWritesKnown
  BusMapTrue
  ArraysRoundTrip
