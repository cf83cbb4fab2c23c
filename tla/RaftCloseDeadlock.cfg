SPECIFICATION Spec
CONSTANTS
  n1 = n1
  n2 = n2
  Nodes = {n1, n2}
  Calls = {c1}
  Everyone = Everyone
  NoNode = NoNode
  NoOne = NoOne
  Home <- MCHome
  Bootstrap = {n1}
  MaxCalls = 2
  MaxOpens = 1
  MaxJoins = 1
  MaxRepeats = 1
  MaxElections = 2
  MaxAppends = 1
CHECK_DEADLOCK FALSE

PROPERTIES CloseReturns
