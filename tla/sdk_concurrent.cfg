SPECIFICATION FairSpec
CONSTANTS
    phone = phone
    laptop = laptop
    a = a
    b = b
    t = t
    u = u
    None = None
    Stranger = Stranger
    Devices = {phone}
    Calls = {a, b}
    DeviceOf <- BothOnPhone
    Tokens = {t, u}
    MaxEvents = 2
    MaxStrangers = 1
    MaxOrphans = 1
    Crashes = TRUE
    Failures = TRUE
    Initialized = TRUE
INVARIANTS ReportedOnce
PROPERTIES StorageOnlyAdvances CallsEnd
