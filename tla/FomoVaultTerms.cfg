SPECIFICATION FairSpec
CONSTANTS
  leader = leader
  user = user
  treasury1 = treasury1
  treasury2 = treasury2
  manager1 = manager1
  manager2 = manager2
  authority1 = authority1
  authority2 = authority2
  usdc = usdc
  token = token
  Holders <- TermsHolders
  Treasuries <- TermsTreasuries
  Leader = user
  Authorities = {authority1, authority2}
  Managers = {manager1, manager2}
  Assets <- MCAssets
  Quote = usdc
  PendingBucket = PendingBucket
  MAX_ASSETS = 2
  MaxStaleness = 0
  MaxMoveBps = 5000
  LeaderMinBps = 2000
  WithdrawFees <- TermsFees
  ListingFees = {1}
  DepositAmounts = {100}
  ShareAmounts = {50}
  NavChoices = {100}
  Fills = {}
  PauseChoices = {TRUE, FALSE}
  InitialQuote <- TermsInitialQuote
  MaxSlot = 1
  MaxBurns = 1
PROPERTY ExitCostAsAgreed ClaimsDrain
