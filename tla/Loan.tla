-------------------------------- MODULE Loan --------------------------------
(***************************************************************************)
(* rio-loan: loans of one asset against collateral in another, over the    *)
(* ledger of Assets.                                                       *)
(*                                                                         *)
(* A loan takes collateral into the pawn shop and mints the loan asset,    *)
(* the interest of the whole term at once to the profit pool and the rest  *)
(* to the borrower.  Every block checks every loan: by its loan-to-value   *)
(* ratio it is warned or put into liquidation, by its age extended or      *)
(* renewed against a fee out of the collateral.                            *)
(*                                                                         *)
(* Vec<LoanId> items are sets, since no function looks at their order.     *)
(* Time is in TERMS_UNITs.  Arithmetic on balances wraps.  A panic in a    *)
(* call discards it; a panic in on_initialize leaves no next block.        *)
(***************************************************************************)
EXTENDS Assets, Integers

CONSTANTS
    LTV_PREC, PRICE_PREC, INTEREST_RATE_PREC, DUE_EXTEND,
    MaxLTV,                       \* LTV::max_value(), half the width of a balance
    PawnShop, ProfitPool,         \* set at genesis only
    MinimumCollateral,            \* set at genesis only
    LiquidationPenalty,           \* set at genesis only
    GenesisConfig,                \* the other storage items at genesis
    Borrower,                     \* who applies for loans
    Offer,                        \* pairs of collateral and loan amount applied for
    MoreCollateral, DrawAmount, AuctionBalance,
    BTCPrice,                     \* prices that rio-price or root set
    Package,                      \* terms, interest_rate_hourly and min of a package
    NewLTVLimit, NewThreshold, NewLoanCap, NewPenaltyRate, NewLiquidationAccount,
    NewCollateralAsset, NewLoanAsset,
    NoLoan, NoPackage, NoCap,     \* empty entries and the empty Option
    MaxLoanId, MaxPackageId, MaxTime \* bounds on loans, packages and time

LTV == 0 .. MaxLTV
LoanId == 1 .. MaxLoanId
LoanPackageId == 1 .. MaxPackageId
\* The status of a stored loan: Expired is only an answer of check_loan_health.
LoanHealth == {"Well", "Warning", "Liquidating", "Extended"}

LoanPackage == [status : {"Active", "Inactive"}, terms : Nat, min : Balance,
                interest_rate_hourly : Nat, collateral_asset_id : AssetId,
                loan_asset_id : AssetId]
LoanRecord == [package_id : LoanPackageId, who : AccountId, due : Nat, due_extend : Nat,
               collateral_balance_original : Balance,
               collateral_balance_available : Balance,
               loan_balance_total : Balance, status : LoanHealth]

Config == [CollateralAssetId : AssetId, LoanAssetId : AssetId, GlobalLTVLimit : LTV,
           GlobalLiquidationThreshold : LTV, GlobalWarningThreshold : LTV,
           PenaltyRate : Nat, LiquidationAccount : AccountId, CurrentBTCPrice : Nat,
           LoanCap : Balance \cup {NoCap}, Paused : BOOLEAN]

ASSUME LoanAssumption ==
    /\ {LTV_PREC, PRICE_PREC, INTEREST_RATE_PREC} \subseteq Nat \ {0}
    /\ DUE_EXTEND \in Nat /\ MaxLTV \in Nat
    /\ {PawnShop, ProfitPool} \cup Borrower \cup NewLiquidationAccount \subseteq AccountId
    /\ PawnShop # ProfitPool /\ Borrower \cap {PawnShop, ProfitPool} = {}
    /\ GenesisConfig \in Config /\ GenesisConfig.LoanCap = NoCap /\ ~GenesisConfig.Paused
    /\ MinimumCollateral \in Balance
    /\ LiquidationPenalty \in 0 .. LTV_PREC
    /\ Offer \subseteq Balance \X Balance
    /\ MoreCollateral \cup DrawAmount \cup AuctionBalance \cup NewLoanCap \subseteq Balance
    /\ BTCPrice \cup NewPenaltyRate \subseteq Nat
    /\ NewLTVLimit \cup NewThreshold \subseteq LTV
    /\ NewCollateralAsset \cup NewLoanAsset \subseteq AssetId
    /\ MaxLoanId \in Nat /\ MaxPackageId \in Nat /\ MaxTime \in Nat
    /\ NoLoan \notin LoanRecord /\ NoPackage \notin LoanPackage /\ NoCap \notin Balance
ASSUME PackageAssumption ==
    Package \subseteq [terms : Nat, interest_rate_hourly : Nat, min : Balance]
\* The liquidation account is neither the pawn shop nor the profit pool.
ASSUME LiquidationAccountAssumption ==
    {PawnShop, ProfitPool} \cap (NewLiquidationAccount \cup {GenesisConfig.LiquidationAccount}) = {}
ASSUME GenesisAssetsAssumption ==
    {GenesisConfig.CollateralAssetId, GenesisConfig.LoanAssetId} \subseteq GenesisSymbols

VARIABLES
    config,                       \* the storage items that only root and the price set
    NextLoanPackageId, LoanPackages,
    ActiveLoanPackages,           \* the ids that have an entry
    NextLoanId, Loans, LoansByAccount, LiquidatingLoans,
    TotalLoan, TotalCollateral, TotalProfit,
    now,                          \* timestamp::now of the last block
    switched                      \* ghost: root has changed an asset of new packages

packageVars == <<NextLoanPackageId, LoanPackages, ActiveLoanPackages>>
loanVars == <<NextLoanId, Loans, LoansByAccount, LiquidatingLoans>>
totalVars == <<TotalLoan, TotalCollateral, TotalProfit>>
vars == <<assetVars, config, packageVars, loanVars, totalVars, now, switched>>

CollateralAssetId == config.CollateralAssetId
LoanAssetId == config.LoanAssetId
GlobalLTVLimit == config.GlobalLTVLimit
GlobalLiquidationThreshold == config.GlobalLiquidationThreshold
GlobalWarningThreshold == config.GlobalWarningThreshold
PenaltyRate == config.PenaltyRate
LiquidationAccount == config.LiquidationAccount
CurrentBTCPrice == config.CurrentBTCPrice
LoanCap == config.LoanCap
Paused == config.Paused

\* What a loan operation leaves alone of the ledger.
ledgerRules == <<ReservedBalance, Permissions, Restrictions, Symbols, contextVars, rootKey>>

-----------------------------------------------------------------------------
LoanIds == {i \in LoanId : Loans[i] # NoLoan}
PackageOf(loan) == LoanPackages[loan.package_id]

\* Slip: a Vec::contains that never finds the loan.
check_loan_in_liquidation_never(id) == FALSE

check_loan_in_liquidation(id) == id \in LiquidatingLoans

get_interest(package, amount) ==
    Wrap(amount * package.terms * 24 * package.interest_rate_hourly) \div INTEREST_RATE_PREC

get_dues(package) ==
    [due |-> now + package.terms, due_extend |-> now + package.terms + DUE_EXTEND]

\* The value of collateral, and the ratio of a loan to it, both as balances.
CollateralValue(collateral) == Wrap(collateral * CurrentBTCPrice)
Ratio(collateral, amount) ==
    Wrap(amount * PRICE_PREC * LTV_PREC) \div CollateralValue(collateral)

\* get_ltv panics when the value is zero, and when the ratio does not fit LTV:
\* `try_into(ltv).ok().unwrap()`.  Elsewhere it returns the ratio.
LtvOk(collateral, amount) ==
    CollateralValue(collateral) # 0 /\ Ratio(collateral, amount) \in LTV
get_ltv(collateral, amount) ==
    LET ratio == Ratio(collateral, amount)
    IN  CHOOSE ltv \in LTV : ltv = ratio

expiration_penalty(loan) ==
    (Wrap(loan.loan_balance_total * PRICE_PREC * PenaltyRate) \div LTV_PREC)
        \div CurrentBTCPrice

expiration_interest(loan) ==
    Wrap(get_interest(PackageOf(loan), loan.loan_balance_total) * PRICE_PREC)
        \div CurrentBTCPrice

\* get_collateral_loan: when it returns Ok, and with which amounts.
CollateralLoanOk(collateral, amount) ==
    /\ ~(collateral = 0 /\ amount = 0)
    /\ collateral = 0 => Wrap(CurrentBTCPrice * GlobalLTVLimit) # 0
    /\ collateral # 0 /\ amount # 0 =>
          /\ CurrentBTCPrice # 0
          /\ (Wrap(amount * LTV_PREC * PRICE_PREC) \div collateral) \div CurrentBTCPrice
                 <= GlobalLTVLimit

CollateralFor(collateral, amount) ==
    IF collateral # 0
    THEN collateral
    ELSE Wrap(amount * LTV_PREC * PRICE_PREC) \div Wrap(CurrentBTCPrice * GlobalLTVLimit)

AmountFor(collateral, amount) ==
    IF amount # 0
    THEN amount
    ELSE Wrap(collateral * CurrentBTCPrice * GlobalLTVLimit) \div (LTV_PREC * PRICE_PREC)

\* What is minted for a loan: interest to the profit pool, then the rest to the
\* borrower.  The second mint may fail, and undoing the first one too.
InterestMinted(a, interest) == MintFreeOk(a, ProfitPool, interest)

\* Slip: the interest is booked but not minted.
LoanPaidOut_nointerest(free, a, who, amount, interest) ==
    [free EXCEPT ![a][who] = @ + Wrap(amount - interest)]

\* Balances after both mints, given the balances before.
LoanPaidOut(free, a, who, amount, interest) ==
    [free EXCEPT ![a][ProfitPool] = @ + interest, ![a][who] = @ + Wrap(amount - interest)]

RestMinted(free, a, who, amount, interest) ==
    /\ TotalIssuance[a] + interest + Wrap(amount - interest) <= MaxBalance
    /\ LoanPaidOut(free, a, who, amount, interest)[a][who] <= MaxBalance

InterestBurnt(a) == check_permission(a, rootKey, "burn")

Issued(a, amount) == [TotalIssuance EXCEPT ![a] = @ + amount]

-----------------------------------------------------------------------------
LoanInit ==
    /\ AssetsInit
    /\ config = GenesisConfig
    /\ NextLoanPackageId = 1
    /\ LoanPackages = [p \in LoanPackageId |-> NoPackage]
    /\ ActiveLoanPackages = {}
    /\ NextLoanId = 1
    /\ Loans = [i \in LoanId |-> NoLoan]
    /\ LoansByAccount = [w \in AccountId |-> {}]
    /\ LiquidatingLoans = {}
    /\ TotalLoan = 0 /\ TotalCollateral = 0 /\ TotalProfit = 0
    /\ now = 0
    /\ switched = FALSE

-----------------------------------------------------------------------------
\* Calls of root, and the price.

ConfigOnly == UNCHANGED <<assetVars, packageVars, loanVars, totalVars, now>>

Set(item, value) == config' = [config EXCEPT ![item] = value]

pause == Set("Paused", TRUE) /\ UNCHANGED switched
resume == Set("Paused", FALSE) /\ UNCHANGED switched
set_global_ltv_limit(limit) == Set("GlobalLTVLimit", limit) /\ UNCHANGED switched
set_liquidation_account(who) == Set("LiquidationAccount", who) /\ UNCHANGED switched
set_penalty_rate(rate) == Set("PenaltyRate", rate) /\ UNCHANGED switched

\* The two setters write each other's item.
set_global_liquidation_threshold(threshold) ==
    Set("GlobalWarningThreshold", threshold) /\ UNCHANGED switched
set_global_warning_threshold(threshold) ==
    Set("GlobalLiquidationThreshold", threshold) /\ UNCHANGED switched

set_loan_cap(balance) ==
    Set("LoanCap", IF balance = 0 THEN NoCap ELSE balance) /\ UNCHANGED switched

\* set_price by root, and on_change from rio-price.
set_price(price) == Set("CurrentBTCPrice", price) /\ UNCHANGED switched

set_collateral_asset_id(a) ==
    Set("CollateralAssetId", a) /\ switched' = (switched \/ a # CollateralAssetId)
set_loan_asset_id(a) ==
    Set("LoanAssetId", a) /\ switched' = (switched \/ a # LoanAssetId)

Configure ==
    /\ \/ pause
       \/ resume
       \/ \E limit \in NewLTVLimit : set_global_ltv_limit(limit)
       \/ \E t \in NewThreshold : set_global_liquidation_threshold(t)
       \/ \E t \in NewThreshold : set_global_warning_threshold(t)
       \/ \E n \in NewLoanCap : set_loan_cap(n)
       \/ \E w \in NewLiquidationAccount : set_liquidation_account(w)
       \/ \E r \in NewPenaltyRate : set_penalty_rate(r)
       \/ \E p \in BTCPrice : set_price(p)
       \/ \E a \in NewCollateralAsset : set_collateral_asset_id(a)
       \/ \E a \in NewLoanAsset : set_loan_asset_id(a)
    /\ ConfigOnly

create_package(p) ==
    /\ ~Paused
    /\ NextLoanPackageId <= MaxPackageId
    /\ p.terms > 0 /\ p.interest_rate_hourly > 0 /\ p.min > 0
    /\ p.interest_rate_hourly < INTEREST_RATE_PREC
    /\ LoanPackages' = [LoanPackages EXCEPT ![NextLoanPackageId] =
           [status |-> "Active", terms |-> p.terms, min |-> p.min,
            interest_rate_hourly |-> p.interest_rate_hourly,
            collateral_asset_id |-> CollateralAssetId, loan_asset_id |-> LoanAssetId]]
    /\ ActiveLoanPackages' = ActiveLoanPackages \cup {NextLoanPackageId}
    /\ NextLoanPackageId' = NextLoanPackageId + 1
    /\ UNCHANGED <<assetVars, config, loanVars, totalVars, now, switched>>

disable_package(id) ==
    /\ ~Paused
    /\ LoanPackages[id] # NoPackage
    /\ LoanPackages' = [LoanPackages EXCEPT ![id].status = "Inactive"]
    /\ ActiveLoanPackages' = ActiveLoanPackages \ {id}
    /\ UNCHANGED <<assetVars, config, NextLoanPackageId, loanVars, totalVars, now, switched>>

-----------------------------------------------------------------------------
\* Calls of borrowers and of the liquidation account.

\* The checks of apply_for_loan up to its first write.
ApplicationOk(who, id, collateral, amount) ==
    /\ ~Paused
    /\ id \in ActiveLoanPackages
    /\ LoanCap # NoCap => TotalLoan < LoanCap
    /\ CollateralLoanOk(collateral, amount)
    /\ LoanPackages[id].min <= AmountFor(collateral, amount)
    /\ collateral >= MinimumCollateral
    /\ get_interest(LoanPackages[id], AmountFor(collateral, amount))
           < AmountFor(collateral, amount)
    /\ MakeTransferOk(LoanPackages[id].collateral_asset_id, who,
                      CollateralFor(collateral, amount))

\* apply: the collateral moves, then the loan is minted.  A failing mint undoes
\* what came before, except for the loan id, and, when the interest cannot be
\* burnt again, for the interest and the collateral.
apply(who, id, requested, wanted) ==
    LET package    == LoanPackages[id]
        collateral == CollateralFor(requested, wanted)
        amount     == AmountFor(requested, wanted)
        interest   == get_interest(package, amount)
        a          == package.loan_asset_id
        pledged    == Transferred(package.collateral_asset_id, who, PawnShop, collateral)
        rest       == RestMinted(pledged, a, who, amount, interest)
        loan       == [package_id |-> id, who |-> who,
                       due |-> get_dues(package).due,
                       due_extend |-> get_dues(package).due_extend,
                       collateral_balance_original |-> collateral,
                       collateral_balance_available |-> collateral,
                       loan_balance_total |-> amount, status |-> "Well"]
    IN  /\ ApplicationOk(who, id, requested, wanted)
        /\ NextLoanId <= MaxLoanId
        /\ NextLoanId' = NextLoanId + 1
        /\ \/ /\ InterestMinted(a, interest) /\ rest
              /\ FreeBalance' = LoanPaidOut(pledged, a, who, amount, interest)
              /\ TotalIssuance' = Issued(a, amount)
              /\ Loans' = [Loans EXCEPT ![NextLoanId] = loan]
              /\ LoansByAccount' = [LoansByAccount EXCEPT ![who] = @ \cup {NextLoanId}]
              /\ TotalLoan' = Wrap(TotalLoan + amount)
              /\ TotalCollateral' = Wrap(TotalCollateral + collateral)
              /\ TotalProfit' = Wrap(TotalProfit + interest)
           \/ /\ ~InterestMinted(a, interest) \/ (~rest /\ InterestBurnt(a))
              /\ UNCHANGED <<FreeBalance, TotalIssuance, Loans, LoansByAccount, totalVars>>
           \/ /\ InterestMinted(a, interest) /\ ~rest /\ ~InterestBurnt(a)
              /\ FreeBalance' = [pledged EXCEPT ![a][ProfitPool] = @ + interest]
              /\ TotalIssuance' = Issued(a, interest)
              /\ UNCHANGED <<Loans, LoansByAccount, totalVars>>
        /\ UNCHANGED <<ledgerRules, config, packageVars, LiquidatingLoans, now, switched>>

\* repay: a failing transfer is undone completely; a failing burn leaves the
\* repaid amount in the pawn shop.
repay(who, id) ==
    LET loan    == Loans[id]
        package == PackageOf(loan)
        a       == package.loan_asset_id
        total   == loan.loan_balance_total
        repaid  == Transferred(a, who, PawnShop, total)
        settled == Moved(repaid, package.collateral_asset_id, PawnShop, who,
                         loan.collateral_balance_available)
        burnt   == check_permission(a, rootKey, "burn")
    IN  /\ ~Paused
        /\ id \in LoanIds
        /\ loan.who = who
        /\ FreeBalance[a][who] >= total
        /\ FreeBalance[package.collateral_asset_id][PawnShop]
               >= loan.collateral_balance_available
        /\ ~check_loan_in_liquidation(id)
        /\ can_do(a, "Transferable")
        /\ can_do(package.collateral_asset_id, "Transferable")
        /\ Loans' = [Loans EXCEPT ![id] = NoLoan]
        /\ LoansByAccount' = [LoansByAccount EXCEPT ![who] = @ \ {id}]
        /\ TotalLoan' = Wrap(TotalLoan - total)
        /\ TotalCollateral' = Wrap(TotalCollateral - loan.collateral_balance_available)
        /\ FreeBalance' = IF burnt THEN [settled EXCEPT ![a][PawnShop] = @ - total] ELSE settled
        /\ TotalIssuance' = IF burnt THEN [TotalIssuance EXCEPT ![a] = @ - total]
                                     ELSE TotalIssuance
        /\ UNCHANGED <<ledgerRules, config, packageVars, NextLoanId, LiquidatingLoans,
                       TotalProfit, now, switched>>

\* The subtraction wraps once the price has fallen far enough.
available_credit(loan) ==
    Wrap((Wrap(loan.collateral_balance_available * CurrentBTCPrice * GlobalLTVLimit)
              \div LTV_PREC) \div PRICE_PREC - loan.loan_balance_total)

\* draw: as apply, without collateral.
draw(who, id, amount) ==
    LET loan     == Loans[id]
        a        == PackageOf(loan).loan_asset_id
        interest == get_interest(PackageOf(loan), amount)
        rest     == RestMinted(FreeBalance, a, who, amount, interest)
    IN  /\ ~Paused
        /\ id \in LoanIds
        /\ loan.who = who
        /\ amount <= available_credit(loan)
        /\ InterestMinted(a, interest)
        /\ \/ /\ rest
              /\ FreeBalance' = LoanPaidOut(FreeBalance, a, who, amount, interest)
              /\ TotalIssuance' = Issued(a, amount)
              /\ Loans' = [Loans EXCEPT ![id].loan_balance_total = Wrap(@ + amount)]
              /\ TotalLoan' = Wrap(TotalLoan + amount)
              /\ TotalProfit' = Wrap(TotalProfit + interest)
           \/ /\ ~rest /\ ~InterestBurnt(a)
              /\ FreeBalance' = [FreeBalance EXCEPT ![a][ProfitPool] = @ + interest]
              /\ TotalIssuance' = Issued(a, interest)
              /\ UNCHANGED <<Loans, TotalLoan, TotalProfit>>
        /\ UNCHANGED <<ledgerRules, config, packageVars, NextLoanId, LoansByAccount,
                       LiquidatingLoans, TotalCollateral, now, switched>>

\* add_collateral takes more collateral for any loan of the caller, also for
\* one in liquidation.
add_collateral(who, id, amount) ==
    /\ ~Paused
    /\ id \in LoanIds
    /\ Loans[id].who = who
    /\ MakeTransferOk(PackageOf(Loans[id]).collateral_asset_id, who, amount)
    /\ FreeBalance' = Transferred(PackageOf(Loans[id]).collateral_asset_id, who, PawnShop, amount)
    /\ Loans' = [Loans EXCEPT ![id].collateral_balance_original = Wrap(@ + amount),
                              ![id].collateral_balance_available = Wrap(@ + amount)]
    /\ TotalCollateral' = Wrap(TotalCollateral + amount)
    /\ UNCHANGED <<TotalIssuance, ledgerRules, config, packageVars, NextLoanId, LoansByAccount,
                   LiquidatingLoans, TotalLoan, TotalProfit, now, switched>>

\* mark_liquidated: the debt goes to the pawn shop, a share of what is left to
\* the profit pool, the rest to the borrower.  With an auction balance below
\* the debt, `leftover.unwrap()` panics.  Neither total changes.
mark_liquidated(who, id, auction) ==
    LET loan     == Loans[id]
        a        == PackageOf(loan).loan_asset_id
        total    == loan.loan_balance_total
        leftover == auction - total
        penalty  == Wrap(leftover * LiquidationPenalty) \div LTV_PREC
    IN  /\ ~Paused
        /\ who = LiquidationAccount
        /\ id \in LoanIds
        /\ check_loan_in_liquidation(id)
        /\ FreeBalance[a][who] >= auction
        /\ auction >= total
        /\ can_do(a, "Transferable")
        /\ FreeBalance' = Moved(Moved(Transferred(a, who, PawnShop, total),
                                      a, who, ProfitPool, penalty),
                                a, who, loan.who, leftover - penalty)
        /\ Loans' = [Loans EXCEPT ![id] = NoLoan]
        /\ LoansByAccount' = [LoansByAccount EXCEPT ![loan.who] = @ \ {id}]
        /\ LiquidatingLoans' = LiquidatingLoans \ {id}
        /\ UNCHANGED <<TotalIssuance, ledgerRules, config, packageVars, NextLoanId, totalVars,
                       now, switched>>

-----------------------------------------------------------------------------
\* Every block.

\* Slip: the age of a loan is looked at before its ratio.
check_loan_health_age(loan) ==
    LET ltv == get_ltv(loan.collateral_balance_available, loan.loan_balance_total)
    IN  IF loan.due_extend <= now THEN "Expired"
        ELSE IF loan.due <= now THEN "Extended"
        ELSE IF ltv >= GlobalLiquidationThreshold THEN "Liquidating"
        ELSE IF ltv >= GlobalWarningThreshold THEN "Warning"
        ELSE "Well"

check_loan_health(loan) ==
    LET ltv == get_ltv(loan.collateral_balance_available, loan.loan_balance_total)
    IN  IF ltv >= GlobalLiquidationThreshold THEN "Liquidating"
        ELSE IF ltv >= GlobalWarningThreshold THEN "Warning"
        ELSE IF loan.due_extend <= now THEN "Expired"
        ELSE IF loan.due <= now THEN "Extended"
        ELSE "Well"

expiration_fee(loan) == Wrap(expiration_penalty(loan) + expiration_interest(loan))

\* Slip: the fee is collected but not taken from the loan.
expire_then_update_free(loan) ==
    [loan EXCEPT !.due = get_dues(PackageOf(loan)).due,
                 !.due_extend = get_dues(PackageOf(loan)).due_extend,
                 !.status = "Well"]

\* expire_then_update: the fee comes out of the collateral and a new term begins.
expire_then_update(loan) ==
    [loan EXCEPT !.collateral_balance_available =
                     IF expiration_fee(loan) <= @ THEN @ - expiration_fee(loan) ELSE 0,
                 !.due = get_dues(PackageOf(loan)).due,
                 !.due_extend = get_dues(PackageOf(loan)).due_extend,
                 !.status = "Well"]

\* A renewed loan is warned or liquidated by its new ratio.
Renewed(loan) ==
    LET new == expire_then_update(loan)
        ltv == get_ltv(new.collateral_balance_available, new.loan_balance_total)
    IN  [new EXCEPT !.status = IF ltv >= GlobalLiquidationThreshold THEN "Liquidating"
                               ELSE IF ltv >= GlobalWarningThreshold THEN "Warning"
                               ELSE "Well"]

\* Slip: an expired loan is only marked as such.
Updated_marked(loan) ==
    IF check_loan_health(loan) = "Well" THEN loan
    ELSE [loan EXCEPT !.status = check_loan_health(loan)]

\* The loan after a block.  A loan that is well keeps its status, whatever that is.
Updated(loan) ==
    CASE check_loan_health(loan) = "Well" -> loan
      [] check_loan_health(loan) = "Expired" -> Renewed(loan)
      [] OTHER -> [loan EXCEPT !.status = check_loan_health(loan)]

\* Slip: loans in liquidation are not skipped.
Checked_all == LoanIds

\* The loans a block looks at, and those it renews.
Checked == LoanIds \ LiquidatingLoans
Expired == {i \in Checked : check_loan_health(Loans[i]) = "Expired"}

\* get_ltv does not panic, neither in check_loan_health nor after a renewal.
CanBeChecked(loan) ==
    LET new == expire_then_update(loan)
    IN  /\ LtvOk(loan.collateral_balance_available, loan.loan_balance_total)
        /\ check_loan_health(loan) = "Expired" =>
               LtvOk(new.collateral_balance_available, new.loan_balance_total)

\* on_initialize does not panic.
BlockCanStart == Paused \/ \A i \in Checked : CanBeChecked(Loans[i])

\* The fees of all renewed loans are moved in one transfer of today's
\* collateral asset; when it fails, the error is dropped.
on_each_block ==
    LET fees == Wrap(SumFunction([i \in Expired |-> expiration_fee(Loans[i])]))
        paid == fees # 0 /\ MakeTransferOk(CollateralAssetId, PawnShop, fees)
        new  == [i \in LoanId |-> IF i \in Checked THEN Updated(Loans[i]) ELSE Loans[i]]
    IN  /\ Loans' = new
        /\ LiquidatingLoans' = LiquidatingLoans \cup
               {i \in Checked : new[i].status = "Liquidating"}
        /\ FreeBalance' = IF paid THEN Transferred(CollateralAssetId, PawnShop, ProfitPool, fees)
                                  ELSE FreeBalance
        /\ TotalCollateral' = IF paid /\ fees <= TotalCollateral THEN TotalCollateral - fees
                                                                 ELSE TotalCollateral
        /\ UNCHANGED <<TotalIssuance, ledgerRules, NextLoanId, LoansByAccount, TotalLoan,
                       TotalProfit>>

\* on_initialize runs with the time of the previous block; then the timestamp
\* inherent sets the time of this one.
NewBlock(elapsed) ==
    /\ BlockCanStart
    /\ now + elapsed <= MaxTime
    /\ now' = now + elapsed
    /\ IF Paused THEN UNCHANGED <<assetVars, loanVars, totalVars>> ELSE on_each_block
    /\ UNCHANGED <<config, packageVars, switched>>

-----------------------------------------------------------------------------
\* Governance of the two assets, which makes transfers, mints and burns fail.
\* Nothing here is minted or burnt but loan assets.
Environment ==
    /\ \/ \E p \in NewPermission : UpdatePermission(LoanAssetId, p)
       \/ \E a \in Symbols, b \in BOOLEAN : UpdateRestriction(a, "Transferable", b)
    /\ UNCHANGED <<config, packageVars, loanVars, totalVars, now, switched>>

LoanNext ==
    \/ Configure
    \/ \E p \in Package : create_package(p)
    \/ \E id \in LoanPackageId : disable_package(id)
    \/ \E who \in Borrower, id \in LoanPackageId, o \in Offer : apply(who, id, o[1], o[2])
    \/ \E who \in Borrower, id \in LoanId : repay(who, id)
    \/ \E who \in Borrower, id \in LoanId, n \in DrawAmount : draw(who, id, n)
    \/ \E who \in Borrower, id \in LoanId, n \in MoreCollateral : add_collateral(who, id, n)
    \/ \E who \in AccountId, id \in LoanId, n \in AuctionBalance : mark_liquidated(who, id, n)
    \/ \E elapsed \in 0 .. 1 : NewBlock(elapsed)
    \/ Environment

\* Blocks are produced for ever, whether anybody calls the module or not.
LoanSpec == LoanInit /\ [][LoanNext]_vars /\ WF_vars(NewBlock(0))

-----------------------------------------------------------------------------
\* The storage of the module holds values of the declared types.
LoanTypeOK ==
    /\ config \in Config
    /\ LoanPackages \in [LoanPackageId -> LoanPackage \cup {NoPackage}]
    /\ ActiveLoanPackages \subseteq LoanPackageId
    /\ NextLoanPackageId \in 1 .. MaxPackageId + 1
    /\ Loans \in [LoanId -> LoanRecord \cup {NoLoan}]
    /\ LoansByAccount \in [AccountId -> SUBSET LoanId]
    /\ LiquidatingLoans \subseteq LoanId
    /\ NextLoanId \in 1 .. MaxLoanId + 1
    /\ {TotalLoan, TotalCollateral, TotalProfit} \subseteq Balance
    /\ now \in 0 .. MaxTime

\* The four indexes of loans agree: a loan is listed under its borrower and nobody
\* else, also in liquidation, although line 284 says that such loans "will not be
\* in Loans & LoansByAccount"; its package exists, a package is listed active
\* exactly when its status says so, and exactly the loans in liquidation have that
\* status, through every failing and reverted call and every block (lib.rs
\* 565-587, 797-801, 887-901).
IndexesAgree ==
    /\ \A w \in AccountId : LoansByAccount[w] = {i \in LoanIds : Loans[i].who = w}
    /\ LiquidatingLoans = {i \in LoanIds : Loans[i].status = "Liquidating"}
    /\ \A i \in LoanIds : i < NextLoanId /\ PackageOf(Loans[i]) # NoPackage
    /\ ActiveLoanPackages = {p \in LoanPackageId : /\ LoanPackages[p] # NoPackage
                                                   /\ LoanPackages[p].status = "Active"}

\* Sum of a field of all loans.
SumOverLoans(field) == SumFunction([i \in LoanIds |-> Loans[i][field]])

\* What borrowers are due back is covered by TotalCollateral, and that by what
\* is "locked in the pawnshop" (lib.rs line 276), although a failing fee
\* transfer reduces the loan only and a liquidated loan leaves its collateral
\* behind; as long as root has not exchanged the collateral asset, in which
\* case on_each_block takes the fees of old loans out of the new asset.
CollateralIsLocked ==
    \/ switched
    \/ /\ SumOverLoans("collateral_balance_available") <= TotalCollateral
       /\ TotalCollateral <= FreeBalance[CollateralAssetId][PawnShop]

LoanAssetEndowed == SumFunction(Endowed[GenesisConfig.LoanAssetId])

\* Every unit of debt and of profit on the books has been minted: no sequence
\* of failing mints and burns makes the books exceed the ledger.
DebtIsIssued ==
    \/ switched
    \/ /\ SumOverLoans("loan_balance_total") <= TotalLoan
       /\ TotalLoan + LoanAssetEndowed <= TotalIssuance[LoanAssetId]
       /\ TotalProfit + Endowed[LoanAssetId][ProfitPool] <= FreeBalance[LoanAssetId][ProfitPool]

\* The ratio of a loan exists but has outgrown its type.
RatioTooLarge(loan) ==
    /\ CollateralValue(loan.collateral_balance_available) # 0
    /\ Ratio(loan.collateral_balance_available, loan.loan_balance_total) > MaxLTV

\* Only a running loan whose ratio has outgrown LTV (see ThresholdLiquidates)
\* leaves the chain without a next block: on_initialize never divides by zero,
\* for no loan loses all its collateral to fees before its ratio has put it into
\* liquidation, and no renewal takes a ratio that fits beyond LTV within the
\* block (get_ltv, lib.rs 165-172, divides and unwraps).
BlocksGoOn ==
    Paused \/ \A i \in Checked : CanBeChecked(Loans[i]) \/ RatioTooLarge(Loans[i])

\* A loan in liquidation ends only by mark_liquidated, with its whole debt paid
\* into the pawn shop: it cannot be repaid or renewed, no fee is charged to it,
\* and neither added collateral nor a price that recovers releases it.
LiquidationIsFinal ==
    [][\A i \in LiquidatingLoans :
          \/ /\ Loans'[i] # NoLoan /\ Loans'[i].status = "Liquidating"
             /\ Loans'[i].loan_balance_total >= Loans[i].loan_balance_total
             /\ Loans'[i].collateral_balance_available >= Loans[i].collateral_balance_available
          \/ LET a == PackageOf(Loans[i]).loan_asset_id
             IN  /\ Loans'[i] = NoLoan
                 /\ FreeBalance'[a][PawnShop]
                        = FreeBalance[a][PawnShop] + Loans[i].loan_balance_total]_vars

\* The ratio of loan i is at the threshold, and nothing has been done about it.
Overdrawn(i) ==
    /\ i \in LoanIds \ LiquidatingLoans
    /\ CollateralValue(Loans[i].collateral_balance_available) # 0
    /\ Ratio(Loans[i].collateral_balance_available, Loans[i].loan_balance_total)
           >= GlobalLiquidationThreshold

NoneOverdrawn == \A i \in LoanId : ~Overdrawn(i)

\* Overdrawn loans do not stay so: as blocks go on they are put into liquidation,
\* all of them, whatever their age and their earlier warnings and extensions,
\* unless the ratio recovers, they are repaid, the module is paused, or a loan
\* stops the blocks (on_each_block).
OverdrawnIsLiquidated == ~NoneOverdrawn ~> (NoneOverdrawn \/ Paused \/ ~BlockCanStart)

\* "When a loan's LTV reaches or is above this threshold, this loan must be been
\* liquidating" (lib.rs line 256): as blocks go on, if the module is not paused.
ThresholdLiquidates == ~NoneOverdrawn ~> (NoneOverdrawn \/ Paused)

\* "When a loan is overdue, a small portion of its collateral will be cut as
\* penalty" (lib.rs line 280): what a block takes out of the pawn shop is of the
\* collateral asset of a loan that it renews.
FeesAreCutFromCollateral ==
    [][\A a \in AssetId :
          /\ \E elapsed \in 0 .. 1 : NewBlock(elapsed)
          /\ FreeBalance'[a][PawnShop] < FreeBalance[a][PawnShop]
          => \E i \in Expired : PackageOf(Loans[i]).collateral_asset_id = a]_vars

\* "As long as the LTV of this loan is below the GlobalLTVLimit, user can keep
\* drawing" (lib.rs line 455): a draw leaves the loan within the limit.
DrawWithinLimit ==
    [][\A i \in LoanIds :
          Loans'[i] # NoLoan /\ Loans'[i].loan_balance_total > Loans[i].loan_balance_total
              => Ratio(Loans[i].collateral_balance_available, Loans'[i].loan_balance_total)
                     <= GlobalLTVLimit]_vars

\* TotalLoan is "the current total loan amount of the platform" (README.md line
\* 31; "total balance of loan asset in circulation", lib.rs line 274).
TotalLoanIsCurrent == TotalLoan = SumOverLoans("loan_balance_total")
=============================================================================
