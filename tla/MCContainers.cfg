\* An array of two elements that grows to four, and then to eight, and cannot grow
\* further; four nodes that are constructed and given back again and again.
SPECIFICATION MCSpec
CONSTANTS
  Elements = {z, a}
  Zero = z
  InitialCapacity = 2
  SizeMax = 9
  Nodes = {n1, n2, n3, n4}
  Anchor = Anchor
  Freed = Freed
INVARIANTS
  NeighboursAgree
  WalksAgree
PROPERTIES
  ImplementsFifo
  ImplementsWaiterList
