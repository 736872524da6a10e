SPECIFICATION Spec
CONSTANTS
  MaxNodes = 11
  StampRange = 4
  ClockRange = 8
  Expiration = 1
  Horizon = 2
  Never = Never
  MinRssi <- TooWeak
  Rssis <- Invitation
  Behind <- SomeMemory
INVARIANT
  PeersHavePlaces
