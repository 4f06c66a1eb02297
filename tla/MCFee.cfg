SPECIFICATION FeeSpec
CONSTANTS
    root = root
    user = user
    NoOwner = NoOwner
    NoAsset = NoAsset
    RFUEL = RFUEL
    LOCKED_RFUEL = LOCKED_RFUEL
    AssetId = {RFUEL, LOCKED_RFUEL}
    AccountId <- MCAccountId
    MaxBalance = 3
    Amount = {1}
    NewPermission = {}
    GenesisSymbols = {RFUEL, LOCKED_RFUEL}
    Endowed <- MCEndowed
    GenesisRestricted = {LOCKED_RFUEL}
    GenesisRootKey = root
    TransactionBaseFee = 1
    Adjustable = {0, 1}
    Tip = {0, 1}
    GenesisFeeAccount = root
INVARIANTS
    IssuanceIsHeldUnlessSaturated
PROPERTIES
    LockedOnlyPaysFees
