CONSTANTS
  LongLongBits <- MCLongLongBits
  Chars <- MCChars
  NUL <- MCNul
  Floats <- MCFloats
  Bodies <- MCBodies
SPECIFICATION Spec
INVARIANT EchoFaithful
