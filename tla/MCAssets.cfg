SPECIFICATION AssetsSpec
CONSTANTS
    sbtc = sbtc
    other = other
    root = root
    user = user
    NoOwner = NoOwner
    NoAsset = NoAsset
    AssetId <- MCAssetId
    AccountId <- MCAccountId
    MaxBalance = 3
    Amount <- MCAmount
    NewPermission <- MCNewPermission
    GenesisSymbols = {sbtc}
    Endowed <- MCEndowed
    GenesisRestricted = {sbtc}
    GenesisRootKey = root
INVARIANTS
    AssetsTypeOK
    IssuanceIsHeld
    NothingBeforeCreate
PROPERTIES
    RenouncedStaysRenounced
