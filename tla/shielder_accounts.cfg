SPECIFICATION Spec
CONSTANTS
    NoToken = NoToken
    f1 = f1
    f2 = f2
    f3 = f3
    f4 = f4
    native = native
    erc20 = erc20
    alice = alice
    refuser = refuser
    this = this
    key1 = key1
    key2 = key2
    Ids = {f1, f2}
    NoteNullifiers = {f2, f3, f4}
    Tokens = {native}
    NativeToken = native
    Addresses = {alice, this}
    ShielderAddress = this
    RejectsNative = {this}
    Owners = {alice}
    ARPubkeys = {key1}
    MAX_TRANSACTION_AMOUNT = 3
    FIELD_MODULUS = 8
    MAX_BPS = 4
    MAX_FEE_BPS = 0
    MaxLeaves = 4
    IsArbitrumChain = FALSE
    MaxBlock = 0
    Recipients = {alice}
    Amounts <- MCAmounts
    RelayerFees = {0, 1}
    PocketMoneys = {0}
    Donations = {}
    MaxDonatedBalance = 4
INVARIANTS OneNullifierPerNote
PROPERTIES ImplementsLedger
SYMMETRY NullifierSymmetry
