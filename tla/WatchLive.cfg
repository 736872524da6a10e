SPECIFICATION Spec
CONSTANTS
  hello = hello
  p1 = p1
  AvatarCount = 2
  DefaultAvatar = 0
  NoAvatar = NoAvatar
  Faces <- TwoAvatars
  Messages <- OneMessage
  NoMessage = NoMessage
  Peers <- NoPeers
  MaxNodes = 1
  MaxQueue = 1
  Gestures <- Untilt
INVARIANTS
  SavedConfigComplete
  AdvertisedAvatarIsSaved
PROPERTIES
  SavedConfigIsFinal
  GroupingEnds
  PictureCatchesUp
