SPECIFICATION Spec
CONSTANTS
  MaxNodes = 2
  StampRange = 4
  ClockRange = 8
  Expiration = 1
  Horizon = 8
  Never = Never
  MinRssi <- TooWeak
  Rssis <- Signals
  Behind <- SomeMemory
INVARIANTS
  TypeOK
  FreshIffShown
  RingsOrdered
PROPERTIES
  SavesRepairStrengths
  GhostsFade
