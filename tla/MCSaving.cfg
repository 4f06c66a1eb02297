SPECIFICATION SavingSpec
CONSTANTS
    SBTC = SBTC
    RBTC = RBTC
    RIO = RIO
    RSC1 = RSC1
    RSC2 = RSC2
    RSC3 = RSC3
    root = root
    alice = alice
    bob = bob
    coll = coll
    pool = pool
    NoOwner = NoOwner
    NoAsset = NoAsset
    AssetId <- MCAssetId
    AccountId <- MCAccountId
    MaxBalance = 255
    Amount = {}
    NewPermission <- MCNewPermission
    GenesisSymbols <- MCAssetId
    Endowed <- MCEndowed
    GenesisRestricted = {}
    GenesisRootKey = root
    NumOfPhases = 3
    Quota <- MCQuota
    Exchange <- MCExchange
    GenesisIOU <- MCGenesisIOU
    GenesisConfig <- MCGenesisConfig
    ReservedMintWallet = root
    ReservedMintAssetId = RIO
    RESERVED_MINT_RATIO = 1
    RESERVED_MINT_DIV = 2
    PRICE_PRECISION = 1
    DAY = 1
    Client = {alice, bob}
    Trade <- MCTrade
    StakeAmount = {1, 2}
    RedeemAmount = {1}
    ShareAmount = {3}
    BTCPrice = {2, 3}
    NewIOU <- MCNewIOU
    NewCollectionAsset = {RIO}
    NewShareAsset = {RSC3}
    NewCollectionAccount = {bob}
    NewAccount = {bob}
    NewProfitAsset = {RBTC}
    RootAmount = {2}
    Governed = {RBTC}
    MaxTime = 3
INVARIANTS
    SavingTypeOK
    CirculationIsSumOfShares
    HoldersAreCredited
    SharesMatchIOUs
    IOUsAreBacked
    QuotaIsKept
    ScheduleIsInStep
    RedeemableIsRedeemed
PROPERTY BonusCatchesUp
CONSTRAINT Bound
