--------------------------------- MODULE Fee ---------------------------------
(***************************************************************************)
(* rio-transaction-payment and rio-fee over the ledger: what validating a  *)
(* signed transaction does to the balances of the payer and of the account *)
(* that collects the fees.                                                 *)
(*                                                                         *)
(* The charge happens inside `validate`.  When it returns an error the     *)
(* transaction is invalid and everything it wrote is discarded, so only    *)
(* the successful charge is a step.                                        *)
(***************************************************************************)
EXTENDS Assets, FiniteSetsExt

CONSTANTS
    RFUEL,             \* the fee asset
    LOCKED_RFUEL,      \* RFUEL that can only pay fees
    TransactionBaseFee,
    Adjustable,        \* possible length and weight fees, after the multiplier
    Tip,               \* possible tips
    GenesisFeeAccount

ASSUME FeeAssumption ==
    /\ RFUEL \in AssetId
    /\ LOCKED_RFUEL \in AssetId \ {RFUEL}
    /\ TransactionBaseFee \in Balance
    /\ Adjustable \subseteq Balance
    /\ Tip \subseteq Balance
    /\ GenesisFeeAccount \in AccountId

VARIABLES
    FeeAccount,        \* rio-fee's AccountId: who collects the fees
    saturated          \* ghost: a saturating addition to an issuance lost something

feeVars == <<assetVars, FeeAccount, saturated>>

SaturatingAdd(m, n) == Min({m + n, MaxBalance})
SaturatingSub(m, n) == IF n <= m THEN m - n ELSE 0

compute_fee(paysFee, adjusted, tip) ==
    IF paysFee
    THEN SaturatingAdd(SaturatingAdd(TransactionBaseFee, adjusted), tip)
    ELSE tip

\* Slip: buy_fee_asset that converts all of the locked balance.
FeeAssetBought_all(who, fee) == FreeBalance[LOCKED_RFUEL][who]

\* buy_fee_asset converts at most the fee, and at most what is locked; the
\* exchange's max_payment is Balance::max_value().
FeeAssetBought(who, fee) == Min({fee, FreeBalance[LOCKED_RFUEL][who], MaxBalance})

\* make_transfer_between_assets with reason TransactionPayment: no Transferable
\* check, and the overflow check is on the free balance, not on the issuance.
BetweenAssetsOk(from, to, who, amount) ==
    /\ should_exist(from)
    /\ should_exist(to)
    /\ amount <= FreeBalance[from][who]
    /\ FreeBalance[to][who] + amount <= MaxBalance

\* deposit_creating to the fee account.
Collected(free, fee) == [free EXCEPT ![FeeAccount] = Wrap(@ + fee)]

\* Slip: the imbalance of a deposit is forgotten instead of dropped.
Squared_forgotten(issuance, original, balance) == issuance

\* The issuance after the imbalance of a deposit is dropped.
Squared(issuance, original, balance) ==
    IF original <= balance THEN SaturatingAdd(issuance, balance - original)
                           ELSE SaturatingSub(issuance, original - balance)

\* ChargeTransactionPayment::validate with a nonzero fee: buy RFUEL with
\* LOCKED_RFUEL, withdraw the fee, hand it to the fee account.  The imbalances
\* are dropped on the way, each adjusting the issuance of its asset.
Charge(who, paysFee, adjusted, tip) ==
    LET fee       == compute_fee(paysFee, adjusted, tip)
        bought    == FeeAssetBought(who, fee)
        funded    == [FreeBalance[RFUEL] EXCEPT ![who] = @ + bought]
        issued    == SaturatingAdd(TotalIssuance[RFUEL], bought)
        paid      == [funded EXCEPT ![who] = @ - fee]
        collected == Collected(paid, fee)
        squared   == Squared(issued, paid[FeeAccount], collected[FeeAccount])
    IN  /\ fee # 0
        /\ BetweenAssetsOk(LOCKED_RFUEL, RFUEL, who, bought)
        /\ fee <= funded[who]
        /\ FromId' = LOCKED_RFUEL
        /\ ToId' = RFUEL
        /\ FreeBalance' = [FreeBalance EXCEPT ![LOCKED_RFUEL][who] = @ - bought,
                                              ![RFUEL] = collected]
        /\ TotalIssuance' = [TotalIssuance EXCEPT
                                ![LOCKED_RFUEL] = SaturatingSub(@, bought),
                                ![RFUEL] = SaturatingSub(squared, fee)]
        /\ saturated' = \/ saturated
                        \/ TotalIssuance[RFUEL] + bought > MaxBalance
                        \/ issued + fee > MaxBalance
        /\ UNCHANGED <<ReservedBalance, Permissions, Restrictions, Symbols,
                       rootKey, FeeAccount>>

SetAccount(who) ==
    /\ FeeAccount' = who
    /\ UNCHANGED <<assetVars, saturated>>

FeeInit ==
    /\ AssetsInit
    /\ FeeAccount = GenesisFeeAccount
    /\ saturated = FALSE

\* The governance calls of the ledger are left to Assets: they change nothing
\* a charge reads but existence, which genesis gives.
FeeNext ==
    \/ \E who \in AccountId, p \in BOOLEAN, n \in Adjustable, t \in Tip : Charge(who, p, n, t)
    \/ \E who \in AccountId : SetAccount(who)
    \/ BalanceNext /\ UNCHANGED <<FeeAccount, saturated>>

FeeSpec == FeeInit /\ [][FeeNext]_feeVars

-----------------------------------------------------------------------------
\* The imbalances that a charge creates cancel out: the issuance of every
\* asset stays the sum of its balances through any mixture of charges and
\* ledger calls, unless a saturating addition of an imbalance drop
\* (imbalances.rs 168-186) has hit Balance::max_value().
IssuanceIsHeldUnlessSaturated == saturated \/ IssuanceIsHeld

\* LOCKED_RFUEL is never turned into RFUEL its holder can spend: a step that
\* takes LOCKED_RFUEL from an account that does not collect the fees leaves
\* the account with no more RFUEL than before (buy_fee_asset and `validate`
\* are two transfers that have to match).
LockedOnlyPaysFees ==
    [][\A w \in AccountId \ {FeeAccount} :
          FreeBalance'[LOCKED_RFUEL][w] < FreeBalance[LOCKED_RFUEL][w]
              => FreeBalance'[RFUEL][w] <= FreeBalance[RFUEL][w]]_feeVars
=============================================================================
