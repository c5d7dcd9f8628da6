SPECIFICATION Spec
CONSTANTS
  CountryRank <- MCRank
  CountryRegion <- MCRegion
  F32_MAX = 100000000
  Catalogs <- MCCatalogs
  WireTargets <- MCTargets
  ModifierSets <- MCModifiers
  Configs <- MCConfigs
  Accounts <- MCAccounts
  Locations <- MCLocations
  Latency <- MCLatency
  Draws <- MCDraws
  Shown = {"europe", "max-security", "nowhere"}
INVARIANTS    WireIsRead  GatesAreExact
CHECK_DEADLOCK FALSE
