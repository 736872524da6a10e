SPECIFICATION Spec
CONSTANTS
  hello = hello
  p1 = p1
  AvatarCount = 1
  DefaultAvatar = 0
  NoAvatar = NoAvatar
  Faces <- OneAvatar
  Messages <- OneMessage
  NoMessage = NoMessage
  Peers <- NoPeers
  MaxNodes = 1
  MaxQueue = 1
  Gestures <- AllGestures
PROPERTY
  ShortInactivityDarkens
