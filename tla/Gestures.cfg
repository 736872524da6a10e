SPECIFICATION Spec
INVARIANTS
  TypeOK
  HighLineIsServed
PROPERTIES
  RestingWristLeavesRadar
  RestAndMotionReported
