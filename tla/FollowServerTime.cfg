SPECIFICATION Spec
CONSTANTS
  alice = alice
  bob = bob
  ansem = ansem
  cented = cented
  Subs = {alice}
  Leaders = {ansem, cented}
  PageLimit = 1
  MaxTradeAge = 0
  Retention = 0
  MaxTrades = 2
  MaxNow = 1
  MaxStops = 1
  MaxUnconfirmed = 0
PROPERTY KeepsItsPromise
