SPECIFICATION Spec
CONSTANTS
    Squatted = {51820, 51823}
    MaxGeneration = 2
    MaxMeddling = 1
    MaxTrouble = 2
    Sockets = {1, 2, 3}
    IN_FLIGHT_BITS = 2
    Openers = {p1, p2}
    CacheKeys = {"certificate"}
    Sizes = {1, 3}
    MAX_PLAINTEXT_LEN = 2
    MaxKeys = 2
    MaxPuts = 2
    MaxFaults = 1
    MaxStops = 2
    Settings = {"Netshield"}
    Values = {"on", "off"}
    Bound = 1
    MaxReports = 3
    MaxUpdates = 1
SYMMETRY Symmetric
INVARIANTS HealthyMeansMarked KeyOpensEveryEntry LedgerIsFaithful
PROPERTIES RoutedOnlyBehindTheSwitch TeardownIsComplete
CHECK_DEADLOCK FALSE
