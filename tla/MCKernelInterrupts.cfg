\* Every device raises its line up to twice, at any time.
CONSTANTS
  Lines <- MCLines
  Unmasked <- MCLines
  MaxRaised = 2
SPECIFICATION Spec
INVARIANTS
  TypeOK
  InterruptsReady
  EoiMatchesHandler
  MessagesWhole
PROPERTIES
  HandlersReturn
  BootCompletes
