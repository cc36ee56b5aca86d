SPECIFICATION Spec
CONSTANTS
    NoToken = NoToken
    f1 = f1
    f2 = f2
    f3 = f3
    f4 = f4
    native = native
    erc20 = erc20
    alice = alice
    refuser = refuser
    this = this
    key1 = key1
    key2 = key2
    Ids = {f1, f2}
    NoteNullifiers = {f3, f4}
    Tokens = {native, erc20}
    NativeToken = native
    Addresses = {alice, refuser, this}
    ShielderAddress = this
    RejectsNative = {refuser, this}
    Owners = {alice}
    ARPubkeys = {key1}
    MAX_TRANSACTION_AMOUNT = 3
    FIELD_MODULUS = 8
    MAX_BPS = 4
    MAX_FEE_BPS = 1
    MaxLeaves = 3
    IsArbitrumChain = TRUE
    MaxBlock = 1
    Recipients = {alice, this}
    Amounts = {2}
    RelayerFees = {0}
    PocketMoneys = {0, 1}
    Donations = {1}
    MaxDonatedBalance = 1
INVARIANTS TypeOK Solvency SumOfBalancesInRange FundsCanLeave NullifierBlockHoldsItsEvent
PROPERTIES NullifiersWriteOnce
SYMMETRY IdSymmetry
