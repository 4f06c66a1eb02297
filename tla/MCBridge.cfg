SPECIFICATION Spec
CONSTANTS
    admin = admin
    alice = alice
    bob = bob
    vault = vault
    NoOwner = NoOwner
    NoAsset = NoAsset
    NoDeposit = NoDeposit
    NoAuth = NoAuth
    Unlisted = Unlisted
    SBTC = SBTC
    AssetId = {SBTC}
    AccountId <- MCAccountId
    TxHash = {t1, t2}
    MaxBalance = 4
    Amount = {1, 3}
    NewPermission <- MCNewPermission
    GenesisSymbols = {SBTC}
    Endowed <- MCEndowed
    GenesisRestricted = {}
    GenesisRootKey = admin
    Threshold = 2
    PendingWithdrawVault = vault
    GenesisAdmins <- MCGenesisAdmins
    AdminCandidate = {admin}
    NewAuth = {"All", "Mark"}
    Client = {alice, bob}
    MaxPendingWithdraws = 2
SYMMETRY Symmetry
INVARIANTS
    BridgeTypeOK
    CreditedOnce
    DepositInv
    NoSilentLoss
    VaultCoversPendingWithdraws
    Backed
PROPERTIES
    KycBeforeCredit
    ImplementsDeposits
