SPECIFICATION Spec
CONSTANTS
  Services = {s1, s2}
  Clients = {c1}
  Importers = {i1}
  Main = main
  QueueLimit = 0
  MaxPush = 1
  Null = Null
INVARIANTS
  NotStranded
  EmptyQueueAlone
  ShutdownDrains
PROPERTIES
  ImplementsInterface
  EventuallyDelivered
CHECK_DEADLOCK FALSE
