CONSTANTS
  c1 = c1
  c2 = c2
  Clients = {c1}
SPECIFICATION CooperativeSpec
PROPERTIES
  ConnectBringsUp
