SPECIFICATION Spec
CONSTANTS
  Credentials = {c1, c2, c3}
  Overlong = {c3}
  Mangled = Mangled
  None = None
  BufferSize = 5
  MaxLength = 6
INVARIANTS
  FullBodyReceived
