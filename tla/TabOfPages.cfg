SPECIFICATION Spec
CONSTANTS
  Tokens <- MCTokens
  SignedOut = SignedOut
  None = None
INVARIANTS
  OwnWritesShown
  OnlyWhatIsGranted
PROPERTIES
  RefusedSessionEnds
