CONSTANTS
  c1 = c1
  c2 = c2
  Clients <- MCClients
SPECIFICATION FairSpec
INVARIANTS
  TypeOK
  StaysDown
PROPERTIES
  DisconnectReturns
  ImplementsControl
