CONSTANTS
  Lines <- MCLines
  Unmasked <- MCLines
  MaxRaised = 2
SPECIFICATION Spec
INVARIANT NoSelfDeadlock
