SPECIFICATION Spec
CONSTANTS
  alice = alice
  bob = bob
  ansem = ansem
  cented = cented
  Subs = {alice}
  Leaders = {ansem}
  PageLimit = 1
  MaxTradeAge = 0
  Retention = 0
  MaxTrades = 1
  MaxNow = 0
  MaxStops = 0
  MaxUnconfirmed = 0
PROPERTY OnlyTheWithdrawnAreRevoked
