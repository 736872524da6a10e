SPECIFICATION Spec
CONSTANTS
  a = a
  b = b
  c = c
  f1 = f1
  Peers <- ThreeWatches
  Faces <- OneFace
  MaxNodes = 1
  MaxAir = 1
INVARIANTS
  TypeOK
  Understood
PROPERTIES
  PairingByConsent
  FacingWatchesMeet
