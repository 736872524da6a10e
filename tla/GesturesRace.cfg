SPECIFICATION Spec
PROPERTY
  TiltsReported
