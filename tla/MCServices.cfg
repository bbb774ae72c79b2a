SPECIFICATION SvcSpec
CONSTANTS
  None = None
  NoReceipt = NoReceipt
  Nil = Nil
  SubBounds <- SBounds
  AccessBounds <- ABounds
  ChallengeAttempts = 2
  MaxActiveAPIKeys = 1
  Epoch <- Ep
  Provides <- Pr
  Publications <- Gens
  TrustLife = 2
  TrustBounds <- TBounds
  FleetPorts = {1, 2}
  FleetBounds <- FBounds
  Feeds <- FeedSets
  ImportBounds <- IBounds
  SupBounds <- HBounds
  MeterBounds <- MBounds
  NatBounds <- NBounds
  NatConfigs <- NConfigs
  NatPorts = {1, 2}
  Nothing = Nothing
  ServeBounds <- VBounds
INVARIANTS SubscriptionsSafe AccessSafe  OpenRCSafe NatSafe ServingSafe
PROPERTIES TrustSafe FleetSafe
CHECK_DEADLOCK FALSE
