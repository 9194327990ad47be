SPECIFICATION Spec
CONSTANTS
  Services = {s1, s2}
  Clients = {c1}
  Importers = {i1}
  Main = main
  QueueLimit = 0
  MaxPush = 1
  Null = Null
PROPERTIES
  ThreadGroupJoins
CHECK_DEADLOCK FALSE
