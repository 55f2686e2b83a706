SPECIFICATION FairSpec
CONSTANTS
  alice = alice
  bob = bob
  ansem = ansem
  cented = cented
  Subs = {alice, bob}
  Leaders = {ansem}
  PageLimit = 1
  MaxTradeAge = 0
  Retention = 0
  MaxTrades = 1
  MaxNow = 0
  MaxStops = 0
  MaxUnconfirmed = 1
INVARIANT FeesAreForFills
PROPERTY KeepsItsPromise EveryoneIsServed
