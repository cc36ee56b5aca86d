SPECIFICATION ServicesSpec
CONSTANTS
    c1 = c1
    c2 = c2
    c3 = c3
    r1 = r1
    r2 = r2
    native = native
    erc20 = erc20
    Requests = {r1, r2}
    Tokens = {native, erc20}
    NativeToken = native
    Fetched = {native}
    GasPrices = {1}
    UnitPrices = {1}
    StaticPrice = 1
    Validity = 1
    PriceValidity = 1
    MaxTime = 3
    MaxLag = 1
    Callers = {c1, c2, c3}
    CacheValidity = 2
    Timeout = 2
    MaxDelay = 1
    MaxClock = 8
INVARIANTS AcceptedPricesFresh FewChecksAtOnce
PROPERTIES QuotesHonoured StaleOnlyDuringCheck
SYMMETRY ServiceSymmetry
