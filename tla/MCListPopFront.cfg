\* The same lists, past the call that loses nodes.
CONSTANTS
  Nodes = {n1, n2, n3, n4}
  NoNode = NoNode
SPECIFICATION Spec
PROPERTY ImplementsDeque
CHECK_DEADLOCK FALSE
