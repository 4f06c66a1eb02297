SPECIFICATION LoanSpec
CONSTANTS
    SBTC = SBTC
    RIO = RIO
    root = root
    alice = alice
    shop = shop
    pool = pool
    NoOwner = NoOwner
    NoAsset = NoAsset
    NoLoan = NoLoan
    NoPackage = NoPackage
    NoCap = NoCap
    AssetId = {SBTC, RIO}
    AccountId <- MCAccountId
    MaxBalance = 65535
    Amount = {}
    NewPermission = {}
    GenesisSymbols = {SBTC, RIO}
    Endowed <- MCEndowed
    GenesisRestricted = {}
    GenesisRootKey = root
    LTV_PREC = 10
    MaxLTV = 15
    PRICE_PREC = 1
    INTEREST_RATE_PREC = 240
    DUE_EXTEND = 1
    PawnShop = shop
    ProfitPool = pool
    MinimumCollateral = 1
    LiquidationPenalty = 5
    GenesisConfig <- MCGenesisConfig
    Borrower = {alice}
    Offer <- MCOffer
    MoreCollateral = {}
    DrawAmount = {5}
    AuctionBalance = {8}
    BTCPrice = {1, 2}
    Package <- MCPackage
    NewLTVLimit = {}
    NewThreshold = {}
    NewLoanCap = {}
    NewPenaltyRate = {}
    NewLiquidationAccount = {}
    NewCollateralAsset = {}
    NewLoanAsset = {}
    MaxLoanId = 1
    MaxPackageId = 1
    MaxTime = 1
PROPERTY ThresholdLiquidates
