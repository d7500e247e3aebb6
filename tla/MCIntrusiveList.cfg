\* Lists of up to four nodes; the program ends with a panic.
CONSTANTS
  Nodes = {n1, n2, n3, n4}
  NoNode = NoNode
SPECIFICATION Spec
INVARIANT LinksAgree
PROPERTY DequeUnlessLost
CHECK_DEADLOCK FALSE
