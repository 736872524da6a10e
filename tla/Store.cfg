SPECIFICATION Spec
CONSTANTS
  a1 = a1
  a2 = a2
  a3 = a3
  a4 = a4
  a5 = a5
  Addresses <- FiveAddresses
  NoAddress = NoAddress
  MaxNodes = 4
INVARIANTS
  TypeOK
  SavedPeersDistinct
PROPERTIES
  ImplementsPeerStore
  PlacesAreForever
  PairingBecomesDurable
