SPECIFICATION Spec
CONSTANTS
    phone = phone
    laptop = laptop
    a = a
    b = b
    t = t
    u = u
    None = None
    Stranger = Stranger
    Devices = {phone, laptop}
    Calls = {a, b}
    DeviceOf <- OneCallEach
    Tokens = {t, u}
    MaxEvents = 3
    MaxStrangers = 0
    MaxOrphans = 1
    Crashes = TRUE
    Failures = TRUE
    Initialized = FALSE
INVARIANTS StoredStateIsOnChain SyncCoversChain
SYMMETRY DeviceSymmetry
VIEW WithoutReports
