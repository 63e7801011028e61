SPECIFICATION Spec
CONSTANTS
  RandomBytes = 2
  Ciphers <- MCCiphers
  Extensions <- MCExtensions
  Versions <- MCVersions
  MaxCiphers = 2
  MaxExtensions = 3
INVARIANTS
  ReadAsMeant
  CutHelloFailsClosed
  OverrunEndsTheList
PROPERTY
  JA4FollowsTheStack
