SPECIFICATION Spec
CONSTANTS
  Instances <- OneInstance
  Machines <- OneMachine
  Nodes <- OneNode
  Conns <- TwoConns
  Deployments <- PlainDeployment
  MaxQueue = 2
  None = None
  i1 = i1
  i2 = i2
  m1 = m1
  m2 = m2
  n1 = n1
  n2 = n2
  c1 = c1
  c2 = c2
  c3 = c3
SYMMETRY Symmetry
PROPERTIES
  StaleCloseFenced
CHECK_DEADLOCK FALSE
