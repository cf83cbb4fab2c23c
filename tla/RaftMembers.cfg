SPECIFICATION Spec
CONSTANTS
  n1 = n1
  n2 = n2
  Nodes = {n1, n2}
  Calls = {}
  Everyone = Everyone
  NoNode = NoNode
  NoOne = NoOne
  Home <- MCHome
  Bootstrap = {n1}
  MaxCalls = 0
  MaxOpens = 2
  MaxJoins = 2
  MaxRepeats = 0
  MaxElections = 1
  MaxAppends = 1
CHECK_DEADLOCK FALSE
INVARIANT OpenedIsMember
