SPECIFICATION Spec
CONSTANTS
    phone = phone
    laptop = laptop
    a = a
    b = b
    t = t
    u = u
    None = None
    Stranger = Stranger
    Devices = {phone, laptop}
    Calls = {a, b}
    DeviceOf <- OneCallEach
    Tokens = {t, u}
    MaxEvents = 3
    MaxStrangers = 1
    MaxOrphans = 1
    Crashes = FALSE
    Failures = FALSE
    Initialized = TRUE
PROPERTIES OnlyOwnEventsRefused
