SPECIFICATION RefusalSpec
CONSTANTS
  hello = hello
  p1 = p1
  AvatarCount = 1
  DefaultAvatar = 0
  NoAvatar = NoAvatar
  Faces <- OneAvatar
  Messages <- OneMessage
  NoMessage = NoMessage
  Peers <- OnePeer
  MaxNodes = 1
  MaxQueue = 1
  Gestures <- AllGestures
INVARIANTS
  TypeOK
  InviteOnlyWhileGrouping
  RadarScans
  GroupingNeedsHands
PROPERTIES
  OnlyUserLightsPanel
  OnlyMessagesLeakScan
  PairingNeedsHands
  ImplementsGrouper
