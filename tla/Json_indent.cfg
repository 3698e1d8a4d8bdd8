SPECIFICATION JsonSpec
CONSTANTS
  Texts = {}
  Encoded = {}
  Indented <- MixedDict
  JsonDepth = 2
INVARIANTS
  RoundTrip
CHECK_DEADLOCK FALSE
