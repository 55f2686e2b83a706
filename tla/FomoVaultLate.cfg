SPECIFICATION Spec
CONSTANTS
  leader = leader
  user = user
  treasury1 = treasury1
  treasury2 = treasury2
  manager1 = manager1
  manager2 = manager2
  authority1 = authority1
  authority2 = authority2
  usdc = usdc
  token = token
  Holders <- MCHolders
  Treasuries <- MCTreasuries
  Leader = leader
  Authorities = {authority1}
  Managers = {manager1}
  Assets <- MCAssets
  Quote = usdc
  PendingBucket = PendingBucket
  MAX_ASSETS = 2
  MaxStaleness = 0
  MaxMoveBps = 5000
  LeaderMinBps = 2000
  WithdrawFees <- MCFees
  ListingFees = {1}
  DepositAmounts = {100}
  ShareAmounts = {50}
  NavChoices = {150}
  Fills <- MCFills
  PauseChoices = {FALSE}
  InitialQuote <- MCInitialQuote
  MaxSlot = 0
  MaxBurns = 2
INVARIANT CompleteMeansConsidered
