SPECIFICATION Spec
CONSTANTS
  Rows = 32
  RowsPerPage = 8
  UintRange = 256
  Faces <- Texts
  Radar = Radar
  WithPeer = WithPeer
  NoPeer = NoPeer
  Blank = Blank
  Nothing = Nothing
  MaxLen = 20
  MaxLines = 4
  Nul = Nul
  Junk = Junk
INVARIANTS
  TypeOK
  GlassIsWhole
  PeerTornOnce
  CopiesInBounds
  TailIsLost
  PageArrives
PROPERTY
  PolarityAlternates
