----------------------------- MODULE LoanProofs -----------------------------
(***************************************************************************)
(* Theorems about rio-loan: the indexes of loans agree, the books are      *)
(* covered by the ledger, and a liquidation is final.                      *)
(***************************************************************************)
EXTENDS Loan, AssetsProofs

\* Types and indexes, which depend on each other: a loan's package is well typed
\* because it exists.
LoanIndexInv == LoanTypeOK /\ IndexesAgree

\* The configuration, item by item.
LEMMA ConfigTypes ==
    ASSUME LoanTypeOK
    PROVE  /\ CollateralAssetId \in AssetId /\ LoanAssetId \in AssetId
           /\ GlobalLTVLimit \in Nat /\ GlobalLiquidationThreshold \in Nat
           /\ GlobalWarningThreshold \in Nat /\ PenaltyRate \in Nat
           /\ LiquidationAccount \in AccountId /\ CurrentBTCPrice \in Nat
<1>1. LTV \subseteq Nat
  BY LoanAssumption DEF LTV
<1> QED BY <1>1 DEF LoanTypeOK, Config, CollateralAssetId, LoanAssetId, GlobalLTVLimit,
         GlobalLiquidationThreshold, GlobalWarningThreshold, PenaltyRate, LiquidationAccount,
         CurrentBTCPrice

\* A stored loan and its package.
LEMMA StoredLoan ==
    ASSUME LoanIndexInv, NEW i \in LoanIds
    PROVE  /\ i \in LoanId /\ Loans[i] \in LoanRecord
           /\ Loans[i].package_id \in LoanPackageId /\ PackageOf(Loans[i]) \in LoanPackage
           /\ Loans[i].who \in AccountId
           /\ Loans[i].collateral_balance_available \in Balance
           /\ Loans[i].loan_balance_total \in Balance
           /\ PackageOf(Loans[i]).loan_asset_id \in AssetId
           /\ PackageOf(Loans[i]).collateral_asset_id \in AssetId
<1>1. i \in LoanId /\ Loans[i] \in LoanRecord
  BY DEF LoanIndexInv, LoanTypeOK, LoanIds
<1>2. /\ Loans[i].package_id \in LoanPackageId /\ Loans[i].who \in AccountId
      /\ Loans[i].collateral_balance_available \in Balance
      /\ Loans[i].loan_balance_total \in Balance
  BY <1>1 DEF LoanRecord
<1>3. PackageOf(Loans[i]) \in LoanPackage
  BY <1>2 DEF LoanIndexInv, LoanTypeOK, IndexesAgree, PackageOf
<1> QED BY <1>1, <1>2, <1>3 DEF LoanPackage

\* The interest on a balance is a balance.
LEMMA InterestFits ==
    ASSUME NEW package \in LoanPackage, NEW amount \in Balance
    PROVE  get_interest(package, amount) \in Balance
<1>1. package.terms \in Nat /\ package.interest_rate_hourly \in Nat /\ amount \in Nat
  BY MaxBalanceAssumption DEF LoanPackage, Balance
<1> DEFINE n == amount * package.terms * 24 * package.interest_rate_hourly
<1>2. n \in Nat
  <2>1. amount * package.terms \in Nat
    BY <1>1, ProductIsNat
  <2>2. amount * package.terms * 24 \in Nat
    BY <2>1, ProductIsNat
  <2> QED BY <1>1, <2>2, ProductIsNat
<1>3. Wrap(n) \in Balance /\ INTEREST_RATE_PREC \in Nat /\ INTEREST_RATE_PREC # 0
  BY <1>2, WrapInRange, LoanAssumption
<1> HIDE DEF n
<1>4. Wrap(n) \div INTEREST_RATE_PREC \in Balance
  BY <1>3, QuotientFits
<1> QED BY <1>4 DEF get_interest, n

\* What get_collateral_loan returns are balances.
LEMMA AmountsFit ==
    ASSUME LoanTypeOK, NEW collateral \in Balance, NEW amount \in Balance,
           CollateralLoanOk(collateral, amount)
    PROVE  CollateralFor(collateral, amount) \in Balance /\ AmountFor(collateral, amount) \in Balance
<1>1. /\ collateral \in Nat /\ amount \in Nat /\ CurrentBTCPrice \in Nat /\ GlobalLTVLimit \in Nat
      /\ LTV_PREC \in Nat /\ PRICE_PREC \in Nat /\ LTV_PREC # 0 /\ PRICE_PREC # 0
  BY ConfigTypes, LoanAssumption, MaxBalanceAssumption DEF Balance
<1> DEFINE x == amount * LTV_PREC * PRICE_PREC
           y == CurrentBTCPrice * GlobalLTVLimit
           z == collateral * CurrentBTCPrice * GlobalLTVLimit
           d == LTV_PREC * PRICE_PREC
<1>2. x \in Nat /\ y \in Nat /\ z \in Nat /\ d \in Nat /\ d # 0
  <2>1. amount * LTV_PREC \in Nat /\ collateral * CurrentBTCPrice \in Nat
    BY <1>1, ProductIsNat
  <2> QED BY <1>1, <2>1, ProductIsNat
<1>3. CollateralFor(collateral, amount) = IF collateral # 0 THEN collateral ELSE Wrap(x) \div Wrap(y)
  BY DEF CollateralFor
<1>4. AmountFor(collateral, amount) = IF amount # 0 THEN amount ELSE Wrap(z) \div d
  BY DEF AmountFor
<1>5. collateral = 0 => Wrap(y) # 0
  BY DEF CollateralLoanOk
<1> HIDE DEF x, y, z, d
<1>6. Wrap(x) \in Balance /\ Wrap(y) \in Balance /\ Wrap(z) \in Balance /\ Wrap(y) \in Nat
  BY <1>2, WrapInRange, MaxBalanceAssumption DEF Balance
<1>7. Wrap(z) \div d \in Balance
  BY <1>2, <1>6, QuotientFits
<1>8. collateral = 0 => Wrap(x) \div Wrap(y) \in Balance
  BY <1>5, <1>6, QuotientFits
<1> QED BY <1>3, <1>4, <1>7, <1>8

\* The fee for renewing a loan is a balance.
LEMMA FeeFits ==
    ASSUME LoanTypeOK, NEW loan \in LoanRecord, PackageOf(loan) \in LoanPackage,
           CurrentBTCPrice # 0
    PROVE  expiration_fee(loan) \in Balance
<1> DEFINE total == loan.loan_balance_total
           interest == get_interest(PackageOf(loan), total)
           x == total * PRICE_PREC * PenaltyRate
           y == interest * PRICE_PREC
<1>1. /\ total \in Balance /\ total \in Nat /\ CurrentBTCPrice \in Nat /\ PenaltyRate \in Nat
      /\ LTV_PREC \in Nat /\ PRICE_PREC \in Nat /\ LTV_PREC # 0
  BY ConfigTypes, LoanAssumption, MaxBalanceAssumption DEF Balance, LoanRecord
<1>2. interest \in Balance /\ interest \in Nat
  BY <1>1, InterestFits, MaxBalanceAssumption DEF Balance
<1>3. x \in Nat /\ y \in Nat
  <2> HIDE DEF total, interest
  <2>1. total * PRICE_PREC \in Nat
    BY <1>1, ProductIsNat
  <2> QED BY <1>1, <1>2, <2>1, ProductIsNat
<1>4. expiration_penalty(loan) = (Wrap(x) \div LTV_PREC) \div CurrentBTCPrice
  BY DEF expiration_penalty
<1>5. expiration_interest(loan) = Wrap(y) \div CurrentBTCPrice
  BY DEF expiration_interest
<1> HIDE DEF x, y
<1>6. Wrap(x) \in Balance /\ Wrap(y) \in Balance
  BY <1>3, WrapInRange
<1>7. Wrap(x) \div LTV_PREC \in Balance
  BY <1>1, <1>6, QuotientFits
<1>8. expiration_penalty(loan) \in Balance /\ expiration_interest(loan) \in Balance
  BY <1>1, <1>4, <1>5, <1>6, <1>7, QuotientFits
<1>9. expiration_penalty(loan) + expiration_interest(loan) \in Nat
  BY <1>8, MaxBalanceAssumption DEF Balance
<1> QED BY <1>9, WrapInRange DEF expiration_fee

\* What expire_then_update changes of a loan.
LEMMA RenewedFields ==
    ASSUME LoanTypeOK, NEW loan \in LoanRecord, PackageOf(loan) \in LoanPackage,
           CurrentBTCPrice # 0
    PROVE  /\ expire_then_update(loan) \in LoanRecord
           /\ expire_then_update(loan).who = loan.who
           /\ expire_then_update(loan).package_id = loan.package_id
           /\ expire_then_update(loan).loan_balance_total = loan.loan_balance_total
           /\ expire_then_update(loan).collateral_balance_available
                  = IF expiration_fee(loan) <= loan.collateral_balance_available
                    THEN loan.collateral_balance_available - expiration_fee(loan) ELSE 0
<1> DEFINE fee == expiration_fee(loan)
           old == loan.collateral_balance_available
           left == IF fee <= old THEN old - fee ELSE 0
           due == get_dues(PackageOf(loan)).due
           extend == get_dues(PackageOf(loan)).due_extend
<1>1. fee \in Balance /\ old \in Balance
  BY FeeFits DEF LoanRecord
<1>2. left \in Balance
  <2> HIDE DEF fee, old
  <2> QED BY <1>1, MaxBalanceAssumption DEF Balance
<1>3. due \in Nat /\ extend \in Nat
  BY LoanAssumption DEF get_dues, LoanTypeOK, LoanPackage
<1>4. expire_then_update(loan) =
          [loan EXCEPT !.collateral_balance_available = left, !.due = due,
                       !.due_extend = extend, !.status = "Well"]
  BY DEF expire_then_update
<1> HIDE DEF left, due, extend
<1>5. /\ expire_then_update(loan) \in LoanRecord
      /\ expire_then_update(loan).who = loan.who
      /\ expire_then_update(loan).package_id = loan.package_id
      /\ expire_then_update(loan).loan_balance_total = loan.loan_balance_total
      /\ expire_then_update(loan).collateral_balance_available = left
  BY <1>2, <1>3, <1>4 DEF LoanRecord, LoanHealth
<1> QED BY <1>5 DEF left

\* Setting the status of a loan changes nothing else.
LEMMA StatusOnly ==
    ASSUME NEW loan \in LoanRecord, NEW s \in LoanHealth
    PROVE  LET new == [loan EXCEPT !.status = s]
           IN  /\ new \in LoanRecord /\ new.who = loan.who /\ new.package_id = loan.package_id
               /\ new.loan_balance_total = loan.loan_balance_total
               /\ new.collateral_balance_available = loan.collateral_balance_available
               /\ new.status = s
  BY DEF LoanRecord

\* What a block changes of a loan: its status, or, when it has expired, its term
\* and its collateral too.
LEMMA UpdatedFields ==
    ASSUME LoanTypeOK, NEW loan \in LoanRecord, PackageOf(loan) \in LoanPackage,
           CurrentBTCPrice # 0
    PROVE  /\ Updated(loan) \in LoanRecord
           /\ Updated(loan).who = loan.who
           /\ Updated(loan).package_id = loan.package_id
           /\ Updated(loan).loan_balance_total = loan.loan_balance_total
           /\ Updated(loan).collateral_balance_available
                  = IF check_loan_health(loan) = "Expired"
                    THEN expire_then_update(loan).collateral_balance_available
                    ELSE loan.collateral_balance_available
<1> DEFINE h == check_loan_health(loan)
           new == expire_then_update(loan)
<1>1. h \in {"Liquidating", "Warning", "Expired", "Extended", "Well"}
  BY DEF check_loan_health
<1>2. CASE h = "Well"
  BY <1>2 DEF Updated
<1>3. CASE h = "Expired"
  <2>1. Updated(loan) = Renewed(loan)
    BY <1>3 DEF Updated
  <2>2. PICK s \in LoanHealth : Renewed(loan) = [new EXCEPT !.status = s]
    BY DEF Renewed, LoanHealth
  <2>3. /\ new \in LoanRecord /\ new.who = loan.who /\ new.package_id = loan.package_id
        /\ new.loan_balance_total = loan.loan_balance_total
    BY RenewedFields
  <2> HIDE DEF new, h
  <2>4. /\ Renewed(loan) \in LoanRecord /\ Renewed(loan).who = new.who
        /\ Renewed(loan).package_id = new.package_id
        /\ Renewed(loan).loan_balance_total = new.loan_balance_total
        /\ Renewed(loan).collateral_balance_available = new.collateral_balance_available
    BY <2>2, <2>3, StatusOnly
  <2> QED BY <1>3, <2>1, <2>3, <2>4 DEF new, h
<1>4. CASE h \notin {"Well", "Expired"}
  <2>1. Updated(loan) = [loan EXCEPT !.status = h]
    BY <1>4 DEF Updated
  <2>2. h \in LoanHealth /\ h # "Expired"
    BY <1>1, <1>4 DEF LoanHealth
  <2> HIDE DEF h
  <2> QED BY <2>1, <2>2, StatusOnly DEF h
<1> QED BY <1>2, <1>3, <1>4

\* A block that looks at a loan has a price.
LEMMA PriceNotZero ==
    ASSUME LoanIndexInv, ~Paused, BlockCanStart, Checked # {}
    PROVE  CurrentBTCPrice # 0
<1> SUFFICES ASSUME CurrentBTCPrice = 0 PROVE FALSE
  OBVIOUS
<1>1. PICK i \in Checked : CollateralValue(Loans[i].collateral_balance_available) # 0
  BY DEF BlockCanStart, CanBeChecked, LtvOk
<1>2. Loans[i].collateral_balance_available \in Nat
  BY StoredLoan, MaxBalanceAssumption DEF Checked, Balance
<1>3. Loans[i].collateral_balance_available * CurrentBTCPrice = 0
  BY <1>2
<1> QED BY <1>1, <1>3, WrapZero DEF CollateralValue

-----------------------------------------------------------------------------
\* A loan that keeps borrower, package and status keeps the indexes.
LEMMA LoanChanged ==
    ASSUME LoanIndexInv, NEW i \in LoanIds, NEW r \in LoanRecord,
           r.who = Loans[i].who, r.package_id = Loans[i].package_id, r.status = Loans[i].status,
           Loans' = [Loans EXCEPT ![i] = r],
           UNCHANGED <<packageVars, NextLoanId, LoansByAccount, LiquidatingLoans>>
    PROVE  IndexesAgree' /\ Loans' \in [LoanId -> LoanRecord \cup {NoLoan}]
<1>1. /\ i \in LoanId /\ Loans[i] # NoLoan /\ r # NoLoan
      /\ Loans \in [LoanId -> LoanRecord \cup {NoLoan}]
  BY LoanAssumption DEF LoanIds, LoanIndexInv, LoanTypeOK
<1>2. Loans'[i] = r /\ \A j \in LoanId \ {i} : Loans'[j] = Loans[j]
  BY <1>1
<1>3. LoanIds' = LoanIds
  BY <1>1, <1>2 DEF LoanIds
<1>4. \A j \in LoanIds : /\ Loans'[j].who = Loans[j].who
                         /\ Loans'[j].package_id = Loans[j].package_id
                         /\ Loans'[j].status = Loans[j].status
  BY <1>2 DEF LoanIds
<1>5. IndexesAgree'
  BY <1>3, <1>4 DEF IndexesAgree, LoanIndexInv, PackageOf, packageVars
<1> QED BY <1>1, <1>5

\* A loan that ends leaves all indexes.
LEMMA LoanEnded ==
    ASSUME LoanIndexInv, NEW i \in LoanIds,
           Loans' = [Loans EXCEPT ![i] = NoLoan],
           LoansByAccount' = [LoansByAccount EXCEPT ![Loans[i].who] = @ \ {i}],
           LiquidatingLoans' = LiquidatingLoans \ {i},
           UNCHANGED <<packageVars, NextLoanId>>
    PROVE  /\ IndexesAgree' /\ Loans' \in [LoanId -> LoanRecord \cup {NoLoan}]
           /\ LoansByAccount' \in [AccountId -> SUBSET LoanId]
<1>1. /\ i \in LoanId /\ Loans[i] # NoLoan /\ Loans[i].who \in AccountId
      /\ Loans \in [LoanId -> LoanRecord \cup {NoLoan}]
      /\ LoansByAccount \in [AccountId -> SUBSET LoanId]
  BY StoredLoan DEF LoanIds, LoanIndexInv, LoanTypeOK
<1>2. Loans'[i] = NoLoan /\ \A j \in LoanId \ {i} : Loans'[j] = Loans[j]
  BY <1>1
<1>3. LoanIds' = LoanIds \ {i}
  BY <1>2 DEF LoanIds
<1>4. ASSUME NEW w \in AccountId
      PROVE  LoansByAccount'[w] = {j \in LoanIds' : Loans'[j].who = w}
  <2>1. LoansByAccount[w] = {j \in LoanIds : Loans[j].who = w}
    BY DEF LoanIndexInv, IndexesAgree
  <2>2. LoansByAccount'[w] = LoansByAccount[w] \ {i}
    BY <1>1, <2>1
  <2> QED BY <1>2, <1>3, <2>1, <2>2 DEF LoanIds
<1>5. LiquidatingLoans' = {j \in LoanIds' : Loans'[j].status = "Liquidating"}
  BY <1>2, <1>3 DEF LoanIndexInv, IndexesAgree, LoanIds
<1>6. \A j \in LoanIds' : j < NextLoanId' /\ LoanPackages'[Loans'[j].package_id] # NoPackage
  BY <1>2, <1>3 DEF LoanIndexInv, IndexesAgree, LoanIds, PackageOf, packageVars
<1>7. IndexesAgree'
  BY <1>4, <1>5, <1>6 DEF IndexesAgree, LoanIndexInv, packageVars, PackageOf
<1> QED BY <1>1, <1>7

\* A new loan is listed under its borrower.
LEMMA LoanBegun ==
    ASSUME LoanIndexInv, NEW r \in LoanRecord, NextLoanId <= MaxLoanId, r.status = "Well",
           LoanPackages[r.package_id] # NoPackage,
           Loans' = [Loans EXCEPT ![NextLoanId] = r],
           LoansByAccount' = [LoansByAccount EXCEPT ![r.who] = @ \cup {NextLoanId}],
           NextLoanId' = NextLoanId + 1,
           UNCHANGED <<packageVars, LiquidatingLoans>>
    PROVE  /\ IndexesAgree' /\ Loans' \in [LoanId -> LoanRecord \cup {NoLoan}]
           /\ LoansByAccount' \in [AccountId -> SUBSET LoanId]
           /\ NextLoanId \notin LoanIds /\ NextLoanId \in LoanId
<1> DEFINE n == NextLoanId
<1>1. /\ n \in LoanId /\ r.who \in AccountId /\ n \in Nat /\ r # NoLoan
      /\ Loans \in [LoanId -> LoanRecord \cup {NoLoan}]
      /\ LoansByAccount \in [AccountId -> SUBSET LoanId]
  BY LoanAssumption DEF LoanIndexInv, LoanTypeOK, LoanId, LoanRecord
<1>2. \A j \in LoanIds : j \in Nat /\ j < n /\ j # n
  BY <1>1 DEF LoanIndexInv, IndexesAgree, LoanIds, LoanId
<1>3. Loans'[n] = r /\ \A j \in LoanId \ {n} : Loans'[j] = Loans[j]
  BY <1>1
<1>4. LoanIds' = LoanIds \cup {n} /\ n \notin LoanIds
  BY <1>1, <1>2, <1>3 DEF LoanIds
<1>5. \A j \in LoanIds : Loans'[j] = Loans[j]
  BY <1>3, <1>4 DEF LoanIds
<1>6. ASSUME NEW w \in AccountId
      PROVE  LoansByAccount'[w] = {j \in LoanIds' : Loans'[j].who = w}
  <2>1. LoansByAccount[w] = {j \in LoanIds : Loans[j].who = w}
    BY DEF LoanIndexInv, IndexesAgree
  <2>2. LoansByAccount'[w] = IF w = r.who THEN LoansByAccount[w] \cup {n} ELSE LoansByAccount[w]
    BY <1>1
  <2> QED BY <1>3, <1>4, <1>5, <2>1, <2>2
<1>7. LiquidatingLoans' = {j \in LoanIds' : Loans'[j].status = "Liquidating"}
  BY <1>3, <1>4, <1>5 DEF LoanIndexInv, IndexesAgree
<1>8. ASSUME NEW j \in LoanIds' PROVE j < NextLoanId' /\ LoanPackages'[Loans'[j].package_id] # NoPackage
  <2>1. CASE j = n
    BY <1>1, <1>3, <2>1 DEF PackageOf, packageVars
  <2>2. CASE j \in LoanIds
    BY <1>1, <1>2, <1>5, <2>2 DEF LoanIndexInv, IndexesAgree, PackageOf, packageVars
  <2> QED BY <1>4, <2>1, <2>2
<1>9. IndexesAgree'
  BY <1>6, <1>7, <1>8 DEF IndexesAgree, LoanIndexInv, packageVars, PackageOf
<1> QED BY <1>1, <1>4, <1>9

-----------------------------------------------------------------------------
\* Indexes do not depend on anything but loans and packages.
LEMMA IndexesUnchanged ==
    ASSUME LoanIndexInv, UNCHANGED <<packageVars, loanVars>>
    PROVE  IndexesAgree'
  BY DEF LoanIndexInv, IndexesAgree, packageVars, loanVars, LoanIds, PackageOf

\* Root and the price keep the configuration well typed.
LEMMA ConfigureKeeps ==
    ASSUME LoanIndexInv, Configure
    PROVE  LoanIndexInv'
<1>1. config \in Config
  BY DEF LoanIndexInv, LoanTypeOK
<1>2. config' \in Config
  <2>1. CASE pause \/ resume
    BY <1>1, <2>1 DEF pause, resume, Set, Config
  <2>2. CASE \E limit \in NewLTVLimit : set_global_ltv_limit(limit)
    BY <1>1, <2>2, LoanAssumption DEF set_global_ltv_limit, Set, Config
  <2>3. CASE \E t \in NewThreshold : set_global_liquidation_threshold(t)
    BY <1>1, <2>3, LoanAssumption DEF set_global_liquidation_threshold, Set, Config
  <2>4. CASE \E t \in NewThreshold : set_global_warning_threshold(t)
    BY <1>1, <2>4, LoanAssumption DEF set_global_warning_threshold, Set, Config
  <2>5. CASE \E n \in NewLoanCap : set_loan_cap(n)
    BY <1>1, <2>5, LoanAssumption DEF set_loan_cap, Set, Config
  <2>6. CASE \E w \in NewLiquidationAccount : set_liquidation_account(w)
    BY <1>1, <2>6, LoanAssumption DEF set_liquidation_account, Set, Config
  <2>7. CASE \E r \in NewPenaltyRate : set_penalty_rate(r)
    BY <1>1, <2>7, LoanAssumption DEF set_penalty_rate, Set, Config
  <2>8. CASE \E p \in BTCPrice : set_price(p)
    BY <1>1, <2>8, LoanAssumption DEF set_price, Set, Config
  <2>9. CASE \E a \in NewCollateralAsset : set_collateral_asset_id(a)
    BY <1>1, <2>9, LoanAssumption DEF set_collateral_asset_id, Set, Config
  <2>10. CASE \E a \in NewLoanAsset : set_loan_asset_id(a)
    BY <1>1, <2>10, LoanAssumption DEF set_loan_asset_id, Set, Config
  <2> QED BY <2>1, <2>2, <2>3, <2>4, <2>5, <2>6, <2>7, <2>8, <2>9, <2>10 DEF Configure
<1>3. UNCHANGED <<packageVars, loanVars, totalVars, now>>
  BY DEF Configure, ConfigOnly
<1>4. IndexesAgree'
  BY <1>3, IndexesUnchanged
<1>5. LoanTypeOK'
  BY <1>2, <1>3 DEF LoanIndexInv, LoanTypeOK, packageVars, loanVars, totalVars
<1> QED BY <1>4, <1>5 DEF LoanIndexInv

\* Packages come and are disabled; none is removed.
LEMMA PackagesKeep ==
    ASSUME LoanIndexInv,
           (\E p \in Package : create_package(p)) \/ (\E id \in LoanPackageId : disable_package(id))
    PROVE  LoanIndexInv'
<1>1. /\ LoanPackages \in [LoanPackageId -> LoanPackage \cup {NoPackage}]
      /\ ActiveLoanPackages = {p \in LoanPackageId : /\ LoanPackages[p] # NoPackage
                                                      /\ LoanPackages[p].status = "Active"}
      /\ NextLoanPackageId \in 1 .. MaxPackageId + 1 /\ MaxPackageId \in Nat
  BY LoanAssumption DEF LoanIndexInv, LoanTypeOK, IndexesAgree
<1>2. ASSUME NEW id \in LoanPackageId, NEW q \in LoanPackage,
             LoanPackages' = [LoanPackages EXCEPT ![id] = q],
             ActiveLoanPackages' = IF q.status = "Active" THEN ActiveLoanPackages \cup {id}
                                                          ELSE ActiveLoanPackages \ {id},
             NextLoanPackageId' \in 1 .. MaxPackageId + 1,
             UNCHANGED <<config, loanVars, totalVars, now>>
      PROVE  LoanIndexInv'
  <2>1. /\ LoanPackages' \in [LoanPackageId -> LoanPackage \cup {NoPackage}]
        /\ LoanPackages'[id] = q /\ \A p \in LoanPackageId \ {id} : LoanPackages'[p] = LoanPackages[p]
    BY <1>1, <1>2
  <2>2. q # NoPackage
    BY LoanAssumption
  <2>3. ActiveLoanPackages' = {p \in LoanPackageId : /\ LoanPackages'[p] # NoPackage
                                                     /\ LoanPackages'[p].status = "Active"}
    <3>1. CASE q.status = "Active"
      BY <1>1, <1>2, <2>1, <2>2, <3>1
    <3>2. CASE q.status # "Active"
      BY <1>1, <1>2, <2>1, <2>2, <3>2
    <3> QED BY <3>1, <3>2
  <2>4. LoanTypeOK'
    BY <1>2, <2>1, <2>3 DEF LoanIndexInv, LoanTypeOK, loanVars, totalVars
  <2>5. \A j \in LoanIds : LoanPackages'[Loans[j].package_id] # NoPackage
    BY <2>1, <2>2, StoredLoan DEF LoanIndexInv, IndexesAgree, PackageOf
  <2>6. IndexesAgree'
    BY <1>2, <2>3, <2>5 DEF LoanIndexInv, IndexesAgree, LoanIds, PackageOf, loanVars
  <2> QED BY <2>4, <2>6 DEF LoanIndexInv
<1>3. ASSUME NEW p \in Package, create_package(p) PROVE LoanIndexInv'
  <2> DEFINE q == [status |-> "Active", terms |-> p.terms, min |-> p.min,
                   interest_rate_hourly |-> p.interest_rate_hourly,
                   collateral_asset_id |-> CollateralAssetId, loan_asset_id |-> LoanAssetId]
  <2>1. p.terms \in Nat /\ p.min \in Balance /\ p.interest_rate_hourly \in Nat
    BY PackageAssumption
  <2>2. q \in LoanPackage /\ q.status = "Active"
    BY <2>1, ConfigTypes DEF LoanPackage, LoanIndexInv
  <2>3. NextLoanPackageId \in LoanPackageId /\ NextLoanPackageId + 1 \in 1 .. MaxPackageId + 1
    BY <1>1, <1>3 DEF create_package, LoanPackageId
  <2>4. /\ LoanPackages' = [LoanPackages EXCEPT ![NextLoanPackageId] = q]
        /\ ActiveLoanPackages' = ActiveLoanPackages \cup {NextLoanPackageId}
        /\ NextLoanPackageId' = NextLoanPackageId + 1
        /\ UNCHANGED <<config, loanVars, totalVars, now>>
    BY <1>3 DEF create_package
  <2> HIDE DEF q
  <2> QED BY <1>2, <2>2, <2>3, <2>4
<1>4. ASSUME NEW id \in LoanPackageId, disable_package(id) PROVE LoanIndexInv'
  <2> DEFINE q == [LoanPackages[id] EXCEPT !.status = "Inactive"]
  <2>1. LoanPackages[id] \in LoanPackage
    BY <1>1, <1>4 DEF disable_package
  <2>2. q \in LoanPackage /\ q.status # "Active"
    BY <2>1 DEF LoanPackage
  <2>3. /\ LoanPackages' = [LoanPackages EXCEPT ![id] = q]
        /\ ActiveLoanPackages' = ActiveLoanPackages \ {id}
        /\ NextLoanPackageId' = NextLoanPackageId
        /\ UNCHANGED <<config, loanVars, totalVars, now>>
    BY <1>4 DEF disable_package
  <2> HIDE DEF q
  <2> QED BY <1>1, <1>2, <2>2, <2>3
<1> QED BY <1>3, <1>4

\* apply: a loan begins, or only its identity is used up.
LEMMA ApplyKeepsIndexes ==
    ASSUME LoanIndexInv, NEW who \in Borrower, NEW id \in LoanPackageId, NEW o \in Offer,
           apply(who, id, o[1], o[2])
    PROVE  LoanIndexInv'
<1> DEFINE package == LoanPackages[id]
           collateral == CollateralFor(o[1], o[2])
           amount == AmountFor(o[1], o[2])
           r == [package_id |-> id, who |-> who,
                 due |-> get_dues(package).due, due_extend |-> get_dues(package).due_extend,
                 collateral_balance_original |-> collateral,
                 collateral_balance_available |-> collateral,
                 loan_balance_total |-> amount, status |-> "Well"]
<1>1. o[1] \in Balance /\ o[2] \in Balance /\ who \in AccountId
  BY LoanAssumption
<1>2. package \in LoanPackage /\ package # NoPackage
  BY LoanAssumption DEF apply, ApplicationOk, LoanIndexInv, LoanTypeOK, IndexesAgree
<1>3. collateral \in Balance /\ amount \in Balance
  BY <1>1, AmountsFit DEF apply, ApplicationOk, LoanIndexInv
<1>4. get_dues(package).due \in Nat /\ get_dues(package).due_extend \in Nat
  BY <1>2, LoanAssumption DEF get_dues, LoanIndexInv, LoanTypeOK, LoanPackage
<1>5. r \in LoanRecord /\ r.status = "Well" /\ r.package_id = id /\ r.who = who
  <2> HIDE DEF collateral, amount, package
  <2> QED BY <1>1, <1>3, <1>4 DEF LoanRecord, LoanHealth
<1>6. /\ NextLoanId <= MaxLoanId /\ NextLoanId' = NextLoanId + 1
      /\ UNCHANGED <<config, packageVars, LiquidatingLoans, now, switched>>
  BY DEF apply
<1>7. NextLoanId' \in 1 .. MaxLoanId + 1 /\ NextLoanId \in Nat
  BY <1>6, LoanAssumption DEF LoanIndexInv, LoanTypeOK
<1>8. CASE UNCHANGED <<Loans, LoansByAccount, totalVars>>
  <2>1. LoanTypeOK'
    BY <1>6, <1>7, <1>8 DEF LoanIndexInv, LoanTypeOK, packageVars, totalVars
  <2>2. \A j \in LoanIds : j < NextLoanId'
    BY <1>6, <1>7 DEF LoanIndexInv, IndexesAgree, LoanIds, LoanId
  <2>3. IndexesAgree'
    BY <1>6, <1>8, <2>2 DEF LoanIndexInv, IndexesAgree, LoanIds, PackageOf, packageVars
  <2> QED BY <2>1, <2>3 DEF LoanIndexInv
<1>9. CASE /\ Loans' = [Loans EXCEPT ![NextLoanId] = r]
           /\ LoansByAccount' = [LoansByAccount EXCEPT ![who] = @ \cup {NextLoanId}]
           /\ TotalLoan' = Wrap(TotalLoan + amount)
           /\ TotalCollateral' = Wrap(TotalCollateral + collateral)
           /\ TotalProfit' = Wrap(TotalProfit + get_interest(package, amount))
  <2>1. {TotalLoan', TotalCollateral', TotalProfit'} \subseteq Balance
    <3>1. get_interest(package, amount) \in Balance
      BY <1>2, <1>3, InterestFits
    <3>2. /\ TotalLoan + amount \in Nat /\ TotalCollateral + collateral \in Nat
          /\ TotalProfit + get_interest(package, amount) \in Nat
      <4> HIDE DEF amount, collateral, package
      <4> QED BY <1>3, <3>1, MaxBalanceAssumption DEF LoanIndexInv, LoanTypeOK, Balance
    <3> QED BY <1>9, <3>2, WrapInRange
  <2> HIDE DEF r
  <2>2. /\ IndexesAgree' /\ Loans' \in [LoanId -> LoanRecord \cup {NoLoan}]
        /\ LoansByAccount' \in [AccountId -> SUBSET LoanId]
    BY <1>2, <1>5, <1>6, <1>9, LoanBegun
  <2>3. LoanTypeOK'
    BY <1>6, <1>7, <2>1, <2>2 DEF LoanIndexInv, LoanTypeOK, packageVars
  <2> QED BY <2>2, <2>3 DEF LoanIndexInv
<1> QED BY <1>8, <1>9 DEF apply

\* repay: the loan ends.
LEMMA RepayKeepsIndexes ==
    ASSUME LoanIndexInv, NEW who \in Borrower, NEW id \in LoanId, repay(who, id)
    PROVE  LoanIndexInv'
<1>1. /\ id \in LoanIds /\ Loans[id].who = who /\ id \notin LiquidatingLoans
      /\ Loans' = [Loans EXCEPT ![id] = NoLoan]
      /\ LoansByAccount' = [LoansByAccount EXCEPT ![who] = @ \ {id}]
      /\ TotalLoan' = Wrap(TotalLoan - Loans[id].loan_balance_total)
      /\ TotalCollateral' = Wrap(TotalCollateral - Loans[id].collateral_balance_available)
      /\ UNCHANGED <<config, packageVars, NextLoanId, LiquidatingLoans, TotalProfit, now>>
  BY DEF repay, check_loan_in_liquidation
<1>2. LiquidatingLoans' = LiquidatingLoans \ {id}
  BY <1>1
<1>3. /\ IndexesAgree' /\ Loans' \in [LoanId -> LoanRecord \cup {NoLoan}]
      /\ LoansByAccount' \in [AccountId -> SUBSET LoanId]
  BY <1>1, <1>2, LoanEnded
<1>4. TotalLoan' \in Balance /\ TotalCollateral' \in Balance
  <2>1. /\ TotalLoan - Loans[id].loan_balance_total \in Int
        /\ TotalCollateral - Loans[id].collateral_balance_available \in Int
    BY <1>1, StoredLoan, MaxBalanceAssumption DEF LoanIndexInv, LoanTypeOK, Balance
  <2> QED BY <1>1, <2>1, WrapInt
<1>5. LoanTypeOK'
  BY <1>1, <1>3, <1>4 DEF LoanIndexInv, LoanTypeOK, packageVars
<1> QED BY <1>3, <1>5 DEF LoanIndexInv

\* draw: the debt of a loan grows, or nothing of the books changes.
LEMMA DrawKeepsIndexes ==
    ASSUME LoanIndexInv, NEW who \in Borrower, NEW id \in LoanId, NEW n \in DrawAmount,
           draw(who, id, n)
    PROVE  LoanIndexInv'
<1>1. n \in Balance /\ id \in LoanIds
  BY LoanAssumption DEF draw
<1>2. UNCHANGED <<config, packageVars, NextLoanId, LoansByAccount, LiquidatingLoans,
                  TotalCollateral, now>>
  BY DEF draw
<1>3. CASE UNCHANGED <<Loans, TotalLoan, TotalProfit>>
  BY <1>2, <1>3, IndexesUnchanged
  DEF LoanIndexInv, LoanTypeOK, packageVars, loanVars
<1>4. CASE /\ Loans' = [Loans EXCEPT ![id].loan_balance_total = Wrap(@ + n)]
           /\ TotalLoan' = Wrap(TotalLoan + n)
           /\ TotalProfit' = Wrap(TotalProfit + get_interest(PackageOf(Loans[id]), n))
  <2> DEFINE total == Wrap(Loans[id].loan_balance_total + n)
             r == [Loans[id] EXCEPT !.loan_balance_total = total]
  <2>1. Loans[id] \in LoanRecord /\ PackageOf(Loans[id]) \in LoanPackage
    BY <1>1, StoredLoan
  <2>2. total \in Balance /\ TotalLoan' \in Balance /\ TotalProfit' \in Balance
    <3>1. get_interest(PackageOf(Loans[id]), n) \in Balance
      BY <1>1, <2>1, InterestFits
    <3>2. /\ Loans[id].loan_balance_total + n \in Nat /\ TotalLoan + n \in Nat
          /\ TotalProfit + get_interest(PackageOf(Loans[id]), n) \in Nat
      BY <1>1, <3>1, StoredLoan, MaxBalanceAssumption DEF LoanIndexInv, LoanTypeOK, Balance
    <3> QED BY <1>4, <3>2, WrapInRange
  <2>3. Loans' = [Loans EXCEPT ![id] = r]
    BY <1>4
  <2> HIDE DEF total
  <2>4. /\ r \in LoanRecord /\ r.who = Loans[id].who
        /\ r.package_id = Loans[id].package_id /\ r.status = Loans[id].status
    BY <2>1, <2>2 DEF LoanRecord
  <2> HIDE DEF r
  <2>5. IndexesAgree' /\ Loans' \in [LoanId -> LoanRecord \cup {NoLoan}]
    BY <1>1, <1>2, <2>3, <2>4, LoanChanged
  <2>6. LoanTypeOK'
    BY <1>2, <2>2, <2>5 DEF LoanIndexInv, LoanTypeOK, packageVars
  <2> QED BY <2>5, <2>6 DEF LoanIndexInv
<1> QED BY <1>3, <1>4 DEF draw

\* add_collateral: the collateral of a loan grows.
LEMMA AddCollateralKeepsIndexes ==
    ASSUME LoanIndexInv, NEW who \in Borrower, NEW id \in LoanId, NEW n \in MoreCollateral,
           add_collateral(who, id, n)
    PROVE  LoanIndexInv'
<1> DEFINE original == Wrap(Loans[id].collateral_balance_original + n)
           available == Wrap(Loans[id].collateral_balance_available + n)
           r == [Loans[id] EXCEPT !.collateral_balance_original = original,
                                  !.collateral_balance_available = available]
<1>1. n \in Balance /\ id \in LoanIds
  BY LoanAssumption DEF add_collateral
<1>2. /\ Loans' = [Loans EXCEPT ![id].collateral_balance_original = Wrap(@ + n),
                                ![id].collateral_balance_available = Wrap(@ + n)]
      /\ TotalCollateral' = Wrap(TotalCollateral + n)
      /\ UNCHANGED <<config, packageVars, NextLoanId, LoansByAccount, LiquidatingLoans,
                     TotalLoan, TotalProfit, now>>
  BY DEF add_collateral
<1>3. Loans[id] \in LoanRecord
  BY <1>1, StoredLoan
<1>4. original \in Balance /\ available \in Balance /\ TotalCollateral' \in Balance
  <2>1. /\ Loans[id].collateral_balance_original + n \in Nat
        /\ Loans[id].collateral_balance_available + n \in Nat /\ TotalCollateral + n \in Nat
    BY <1>1, <1>3, MaxBalanceAssumption DEF LoanIndexInv, LoanTypeOK, Balance, LoanRecord
  <2> QED BY <1>2, <2>1, WrapInRange
<1>5. Loans' = [Loans EXCEPT ![id] = r]
  BY <1>2, <1>3 DEF LoanRecord, LoanIndexInv, LoanTypeOK
<1> HIDE DEF original, available
<1>6. /\ r \in LoanRecord /\ r.who = Loans[id].who
      /\ r.package_id = Loans[id].package_id /\ r.status = Loans[id].status
  BY <1>3, <1>4 DEF LoanRecord
<1> HIDE DEF r
<1>7. IndexesAgree' /\ Loans' \in [LoanId -> LoanRecord \cup {NoLoan}]
  BY <1>1, <1>2, <1>5, <1>6, LoanChanged
<1>8. LoanTypeOK'
  BY <1>2, <1>4, <1>7 DEF LoanIndexInv, LoanTypeOK, packageVars
<1> QED BY <1>7, <1>8 DEF LoanIndexInv

\* mark_liquidated: the loan ends.
LEMMA MarkLiquidatedKeepsIndexes ==
    ASSUME LoanIndexInv, NEW who \in AccountId, NEW id \in LoanId, NEW n \in AuctionBalance,
           mark_liquidated(who, id, n)
    PROVE  LoanIndexInv'
<1>1. /\ id \in LoanIds
      /\ Loans' = [Loans EXCEPT ![id] = NoLoan]
      /\ LoansByAccount' = [LoansByAccount EXCEPT ![Loans[id].who] = @ \ {id}]
      /\ LiquidatingLoans' = LiquidatingLoans \ {id}
      /\ UNCHANGED <<config, packageVars, NextLoanId, totalVars, now>>
  BY DEF mark_liquidated
<1>2. /\ IndexesAgree' /\ Loans' \in [LoanId -> LoanRecord \cup {NoLoan}]
      /\ LoansByAccount' \in [AccountId -> SUBSET LoanId]
  BY <1>1, LoanEnded
<1>3. LoanTypeOK'
  BY <1>1, <1>2 DEF LoanIndexInv, LoanTypeOK, packageVars, totalVars
<1> QED BY <1>2, <1>3 DEF LoanIndexInv

\* What a block makes of the loans.
LEMMA BlockLoans ==
    ASSUME LoanIndexInv, ~Paused, BlockCanStart, on_each_block
    PROVE  /\ Loans' \in [LoanId -> LoanRecord \cup {NoLoan}]
           /\ LoanIds' = LoanIds
           /\ \A i \in Checked : Loans'[i] = Updated(Loans[i])
           /\ \A i \in LoanId \ Checked : Loans'[i] = Loans[i]
           /\ \A i \in LoanIds : /\ Loans'[i].who = Loans[i].who
                                 /\ Loans'[i].package_id = Loans[i].package_id
                                 /\ Loans'[i].loan_balance_total = Loans[i].loan_balance_total
<1>1. Loans' = [i \in LoanId |-> IF i \in Checked THEN Updated(Loans[i]) ELSE Loans[i]]
  BY DEF on_each_block
<1>2. ASSUME NEW i \in Checked
      PROVE  /\ i \in LoanIds /\ i \in LoanId /\ Updated(Loans[i]) \in LoanRecord
             /\ Updated(Loans[i]).who = Loans[i].who
             /\ Updated(Loans[i]).package_id = Loans[i].package_id
             /\ Updated(Loans[i]).loan_balance_total = Loans[i].loan_balance_total
  <2>1. CurrentBTCPrice # 0
    BY PriceNotZero
  <2>2. i \in LoanIds
    BY DEF Checked
  <2>3. i \in LoanId /\ Loans[i] \in LoanRecord /\ PackageOf(Loans[i]) \in LoanPackage
    BY <2>2, StoredLoan
  <2>4. LoanTypeOK
    BY DEF LoanIndexInv
  <2> QED BY <2>1, <2>2, <2>3, <2>4, UpdatedFields
<1>3. /\ \A i \in Checked : Loans'[i] = Updated(Loans[i])
      /\ \A i \in LoanId \ Checked : Loans'[i] = Loans[i]
  BY <1>1, <1>2
<1>4. Loans' \in [LoanId -> LoanRecord \cup {NoLoan}]
  BY <1>1, <1>2 DEF LoanIndexInv, LoanTypeOK
<1>5. LoanIds' = LoanIds
  BY <1>2, <1>3, LoanAssumption DEF LoanIds
<1>6. \A i \in LoanIds : /\ Loans'[i].who = Loans[i].who
                         /\ Loans'[i].package_id = Loans[i].package_id
                         /\ Loans'[i].loan_balance_total = Loans[i].loan_balance_total
  BY <1>2, <1>3 DEF LoanIds
<1> QED BY <1>3, <1>4, <1>5, <1>6

\* There are finitely many loans.
LEMMA LoanIdsFinite == IsFiniteSet(LoanId) /\ \A S \in SUBSET LoanId : IsFiniteSet(S)
<1>1. IsFiniteSet(LoanId)
  BY LoanAssumption, FS_Interval DEF LoanId
<1> QED BY <1>1, FS_Subset

\* A loan that a block renews pays its fee out of its collateral, and keeps some.
LEMMA ExpiredPay ==
    ASSUME LoanIndexInv, ~Paused, BlockCanStart, NEW i \in Expired
    PROVE  /\ i \in Checked /\ i \in LoanIds
           /\ expiration_fee(Loans[i]) \in Balance
           /\ expiration_fee(Loans[i]) <= Loans[i].collateral_balance_available
           /\ Updated(Loans[i]).collateral_balance_available
                  = Loans[i].collateral_balance_available - expiration_fee(Loans[i])
<1>1. i \in Checked /\ i \in LoanIds /\ check_loan_health(Loans[i]) = "Expired" /\ LoanTypeOK
  BY DEF Expired, Checked, LoanIndexInv
<1>2. CurrentBTCPrice # 0 /\ CurrentBTCPrice \in Nat
  BY <1>1, PriceNotZero, ConfigTypes
<1>3. Loans[i] \in LoanRecord /\ PackageOf(Loans[i]) \in LoanPackage
  BY <1>1, StoredLoan
<1> DEFINE fee == expiration_fee(Loans[i])
           old == Loans[i].collateral_balance_available
           new == expire_then_update(Loans[i]).collateral_balance_available
<1>4. fee \in Balance
  BY <1>1, <1>2, <1>3, FeeFits
<1>5. new = IF fee <= old THEN old - fee ELSE 0
  BY <1>1, <1>2, <1>3, RenewedFields
<1>6. CollateralValue(new) # 0
  BY <1>1 DEF BlockCanStart, CanBeChecked, LtvOk
<1>7. new # 0
  <2>1. CollateralValue(0) = 0
    BY <1>2, WrapZero DEF CollateralValue
  <2> HIDE DEF new
  <2> QED BY <1>6, <2>1
<1>8. Updated(Loans[i]).collateral_balance_available = new
  BY <1>1, <1>2, <1>3, UpdatedFields
<1> HIDE DEF new, fee, old
<1>9. fee <= old /\ new = old - fee
  BY <1>5, <1>7
<1> QED BY <1>1, <1>4, <1>8, <1>9 DEF fee, old, new

\* What the renewed loans pay together.
LEMMA FeesAreSum ==
    ASSUME LoanIndexInv, ~Paused, BlockCanStart
    PROVE  LET f == [i \in Expired |-> expiration_fee(Loans[i])]
           IN  SumFunction(f) \in Nat /\ SumFunction(f) = SumFunctionOnSet(f, Expired)
<1> DEFINE f == [i \in Expired |-> expiration_fee(Loans[i])]
<1>1. \A i \in Expired : f[i] \in Nat
  BY ExpiredPay, MaxBalanceAssumption DEF Balance
<1>2. IsFiniteSet(Expired)
  BY LoanIdsFinite DEF Expired, Checked, LoanIds
<1>3. f \in [Expired -> Nat]
  BY <1>1
<1> HIDE DEF f
<1>4. SumFunction(f) = SumFunctionOnSet(f, Expired)
  BY <1>3, SumOverDomain
<1>5. SumFunctionOnSet(f, Expired) \in Nat
  BY <1>1, <1>2, SumTakesOut
<1> QED BY <1>4, <1>5 DEF f

\* A block: loans are warned, put into liquidation, extended and renewed.
LEMMA BlockKeepsIndexes ==
    ASSUME LoanIndexInv, NEW elapsed \in 0 .. 1, NewBlock(elapsed)
    PROVE  LoanIndexInv'
<1>1. now' \in 0 .. MaxTime /\ UNCHANGED <<config, packageVars>>
  BY LoanAssumption DEF NewBlock, LoanIndexInv, LoanTypeOK
<1>2. CASE Paused
  <2>1. UNCHANGED <<loanVars, totalVars>>
    BY <1>2 DEF NewBlock
  <2> QED BY <1>1, <2>1, IndexesUnchanged
          DEF LoanIndexInv, LoanTypeOK, packageVars, loanVars, totalVars
<1>3. CASE ~Paused
  <2>1. on_each_block /\ BlockCanStart
    BY <1>3 DEF NewBlock
  <2>2. /\ Loans' \in [LoanId -> LoanRecord \cup {NoLoan}] /\ LoanIds' = LoanIds
        /\ \A i \in LoanId \ Checked : Loans'[i] = Loans[i]
        /\ \A i \in LoanIds : /\ Loans'[i].who = Loans[i].who
                              /\ Loans'[i].package_id = Loans[i].package_id
        /\ \A i \in Checked : Loans'[i] = Updated(Loans[i])
    BY <1>3, <2>1, BlockLoans
  <2>3. /\ LiquidatingLoans' = LiquidatingLoans \cup
                                   {i \in Checked : Loans'[i].status = "Liquidating"}
        /\ UNCHANGED <<NextLoanId, LoansByAccount, TotalLoan, TotalProfit>>
    BY <2>1, <2>2 DEF on_each_block, Checked, LoanIds
  <2>4. LiquidatingLoans' = {i \in LoanIds' : Loans'[i].status = "Liquidating"}
    BY <2>2, <2>3 DEF LoanIndexInv, IndexesAgree, Checked, LoanIds
  <2>5. IndexesAgree'
    BY <1>1, <2>2, <2>3, <2>4 DEF LoanIndexInv, IndexesAgree, PackageOf, packageVars
  <2>6. TotalCollateral' \in Balance
    <3> DEFINE fees == Wrap(SumFunction([i \in Expired |-> expiration_fee(Loans[i])]))
    <3>1. TotalCollateral' = TotalCollateral
              \/ (TotalCollateral' = TotalCollateral - fees /\ fees <= TotalCollateral)
      BY <2>1 DEF on_each_block
    <3>2. TotalCollateral \in Balance
      BY DEF LoanIndexInv, LoanTypeOK
    <3>3. fees \in Balance
      BY <1>3, <2>1, FeesAreSum, WrapInRange
    <3> HIDE DEF fees
    <3> QED BY <3>1, <3>2, <3>3, MaxBalanceAssumption DEF Balance
  <2>7. LoanTypeOK'
    BY <1>1, <2>2, <2>3, <2>4, <2>6 DEF LoanIndexInv, LoanTypeOK, packageVars, LoanIds
  <2> QED BY <2>5, <2>7 DEF LoanIndexInv
<1> QED BY <1>2, <1>3

\* Every step keeps types and indexes.
LEMMA IndexStep == LoanIndexInv /\ [LoanNext]_vars => LoanIndexInv'
<1> SUFFICES ASSUME LoanIndexInv, [LoanNext]_vars PROVE LoanIndexInv'
  OBVIOUS
<1>1. CASE UNCHANGED <<config, packageVars, loanVars, totalVars, now>>
  BY <1>1, IndexesUnchanged DEF LoanIndexInv, LoanTypeOK, packageVars, loanVars, totalVars
<1>2. CASE Environment \/ UNCHANGED vars
  BY <1>1, <1>2 DEF Environment, vars
<1>3. CASE Configure
  BY <1>3, ConfigureKeeps
<1>4. CASE (\E p \in Package : create_package(p)) \/ (\E id \in LoanPackageId : disable_package(id))
  BY <1>4, PackagesKeep
<1>5. CASE \E who \in Borrower, id \in LoanPackageId, o \in Offer : apply(who, id, o[1], o[2])
  BY <1>5, ApplyKeepsIndexes
<1>6. CASE \E who \in Borrower, id \in LoanId : repay(who, id)
  BY <1>6, RepayKeepsIndexes
<1>7. CASE \E who \in Borrower, id \in LoanId, n \in DrawAmount : draw(who, id, n)
  BY <1>7, DrawKeepsIndexes
<1>8. CASE \E who \in Borrower, id \in LoanId, n \in MoreCollateral : add_collateral(who, id, n)
  BY <1>8, AddCollateralKeepsIndexes
<1>9. CASE \E who \in AccountId, id \in LoanId, n \in AuctionBalance : mark_liquidated(who, id, n)
  BY <1>9, MarkLiquidatedKeepsIndexes
<1>10. CASE \E elapsed \in 0 .. 1 : NewBlock(elapsed)
  BY <1>10, BlockKeepsIndexes
<1> QED BY <1>2, <1>3, <1>4, <1>5, <1>6, <1>7, <1>8, <1>9, <1>10 DEF LoanNext

\* At genesis there are neither packages nor loans.
LEMMA IndexGenesis == LoanInit => LoanIndexInv
<1> SUFFICES ASSUME LoanInit PROVE LoanIndexInv
  OBVIOUS
<1>1. LoanTypeOK
  BY LoanAssumption, MaxBalanceAssumption DEF LoanInit, LoanTypeOK, Balance
<1>2. LoanIds = {}
  BY DEF LoanInit, LoanIds
<1>3. IndexesAgree
  BY <1>2 DEF LoanInit, IndexesAgree
<1> QED BY <1>1, <1>3 DEF LoanIndexInv

\* Types and indexes hold in every reachable state.
LEMMA IndexInvHolds == LoanSpec => []LoanIndexInv
  BY IndexGenesis, IndexStep, PTL DEF LoanSpec

\* The storage of the module is well typed: neither wrapping arithmetic nor a
\* division of on_each_block leaves the types.
THEOREM LoanTypeCorrect == LoanSpec => []LoanTypeOK
<1>1. LoanIndexInv => LoanTypeOK
  BY DEF LoanIndexInv
<1> QED BY <1>1, IndexInvHolds, PTL

\* The indexes of loans and packages agree with the loans and packages
\* themselves, through every call, failing mint and block.
THEOREM IndexesAlwaysAgree == LoanSpec => []IndexesAgree
<1>1. LoanIndexInv => IndexesAgree
  BY DEF LoanIndexInv
<1> QED BY <1>1, IndexInvHolds, PTL
-----------------------------------------------------------------------------
\* The books against the ledger.

\* Everyone but the two accounts of the module.
Spendable == AccountId \ {PawnShop, ProfitPool}

\* Debt and collateral of each loan in asset x, and their sums.
DebtOf(loans, packages, x) ==
    [i \in LoanId |->
        IF loans[i] # NoLoan /\ packages[loans[i].package_id].loan_asset_id = x
        THEN loans[i].loan_balance_total ELSE 0]
PledgeOf(loans, packages, x) ==
    [i \in LoanId |->
        IF loans[i] # NoLoan /\ packages[loans[i].package_id].collateral_asset_id = x
        THEN loans[i].collateral_balance_available ELSE 0]
DebtIn(loans, packages, x) == SumFunctionOnSet(DebtOf(loans, packages, x), LoanId)
PledgedIn(loans, packages, x) == SumFunctionOnSet(PledgeOf(loans, packages, x), LoanId)

\* In every asset, what is owed exists, and so does what is pledged besides what
\* others than the module hold.  Therefore no addition to a loan wraps.
LedgerCovers ==
    \A x \in AssetId :
        /\ DebtIn(Loans, LoanPackages, x) <= TotalIssuance[x]
        /\ PledgedIn(Loans, LoanPackages, x) + GroupTotal(FreeBalance, x, Spendable)
               <= TotalIssuance[x]

\* Borrowers and liquidators are none of the two accounts of the module.
Parties == LiquidationAccount \in Spendable /\ \A i \in LoanIds : Loans[i].who \in Borrower

\* As long as root has not switched assets, every package has those of genesis.
AssetsOfGenesis ==
    /\ CollateralAssetId = GenesisConfig.CollateralAssetId
    /\ LoanAssetId = GenesisConfig.LoanAssetId
    /\ \A p \in LoanPackageId : LoanPackages[p] # NoPackage =>
          /\ LoanPackages[p].collateral_asset_id = GenesisConfig.CollateralAssetId
          /\ LoanPackages[p].loan_asset_id = GenesisConfig.LoanAssetId

\* The next identity of a package has never been given out: no package, and so
\* no loan, loses its assets to a new package.
PackagesNumbered ==
    \A p \in LoanPackageId : LoanPackages[p] # NoPackage => p < NextLoanPackageId

\* What CollateralIsLocked and DebtIsIssued say of the two assets of genesis.
TotalsCover ==
    LET c == GenesisConfig.CollateralAssetId
        a == GenesisConfig.LoanAssetId
    IN  /\ PledgedIn(Loans, LoanPackages, c) <= TotalCollateral
        /\ TotalCollateral <= FreeBalance[c][PawnShop]
        /\ DebtIn(Loans, LoanPackages, a) <= TotalLoan
        /\ TotalLoan + LoanAssetEndowed <= TotalIssuance[a]
        /\ TotalProfit + Endowed[a][ProfitPool] <= FreeBalance[a][ProfitPool]

LoanLedgerInv ==
    /\ LoanIndexInv
    /\ AssetsTypeOK
    /\ IssuanceIsHeld
    /\ LedgerCovers
    /\ Parties
    /\ PackagesNumbered
    /\ ~switched => AssetsOfGenesis /\ TotalsCover

\* The debts and pledges of typed loans are natural numbers.
LEMMA BooksAreNat ==
    ASSUME NEW loans \in [LoanId -> LoanRecord \cup {NoLoan}], NEW packages, NEW x
    PROVE  /\ \A i \in LoanId : /\ DebtOf(loans, packages, x)[i] \in Nat
                                /\ PledgeOf(loans, packages, x)[i] \in Nat
                                /\ DebtOf(loans, packages, x)[i] <= DebtIn(loans, packages, x)
                                /\ PledgeOf(loans, packages, x)[i] <= PledgedIn(loans, packages, x)
           /\ DebtIn(loans, packages, x) \in Nat
           /\ PledgedIn(loans, packages, x) \in Nat
<1> DEFINE d == DebtOf(loans, packages, x)
           p == PledgeOf(loans, packages, x)
<1>1. ASSUME NEW i \in LoanId PROVE d[i] \in Nat /\ p[i] \in Nat
  <2>1. CASE loans[i] = NoLoan
    BY <2>1 DEF DebtOf, PledgeOf
  <2>2. CASE loans[i] \in LoanRecord
    <3>1. loans[i].loan_balance_total \in Nat /\ loans[i].collateral_balance_available \in Nat
      BY <2>2, MaxBalanceAssumption DEF LoanRecord, Balance
    <3> QED BY <3>1 DEF DebtOf, PledgeOf
  <2> QED BY <2>1, <2>2
<1> HIDE DEF d, p
<1>2. /\ SumFunctionOnSet(d, LoanId) \in Nat /\ SumFunctionOnSet(p, LoanId) \in Nat
      /\ \A i \in LoanId : d[i] <= SumFunctionOnSet(d, LoanId) /\ p[i] <= SumFunctionOnSet(p, LoanId)
  BY <1>1, LoanIdsFinite, SumTakesOut, SumAtLeast
<1> QED BY <1>1, <1>2 DEF d, p, DebtIn, PledgedIn

\* The books of two tables of loans differ by what loan id is in each.
BooksMove(loans, new, packages, x, id) ==
    /\ DebtIn(new, packages, x) + DebtOf(loans, packages, x)[id]
           = DebtIn(loans, packages, x) + DebtOf(new, packages, x)[id]
    /\ PledgedIn(new, packages, x) + PledgeOf(loans, packages, x)[id]
           = PledgedIn(loans, packages, x) + PledgeOf(new, packages, x)[id]

\* Changing one loan changes the books by its part of them.
LEMMA BooksChange ==
    ASSUME NEW loans \in [LoanId -> LoanRecord \cup {NoLoan}],
           NEW new \in [LoanId -> LoanRecord \cup {NoLoan}], NEW packages, NEW x,
           NEW id \in LoanId, \A j \in LoanId \ {id} : new[j] = loans[j]
    PROVE  BooksMove(loans, new, packages, x, id)
<1> DEFINE d == DebtOf(loans, packages, x)
           e == DebtOf(new, packages, x)
           p == PledgeOf(loans, packages, x)
           q == PledgeOf(new, packages, x)
<1>1. \A i \in LoanId : d[i] \in Nat /\ e[i] \in Nat /\ p[i] \in Nat /\ q[i] \in Nat
  BY BooksAreNat
<1>2. \A i \in LoanId \ {id} : d[i] = e[i] /\ p[i] = q[i]
  BY DEF DebtOf, PledgeOf
<1> HIDE DEF d, e, p, q
<1>3. /\ SumFunctionOnSet(e, LoanId) + d[id] = SumFunctionOnSet(d, LoanId) + e[id]
      /\ SumFunctionOnSet(q, LoanId) + p[id] = SumFunctionOnSet(p, LoanId) + q[id]
  BY <1>1, <1>2, LoanIdsFinite, SumChanges
<1> QED BY <1>3 DEF d, e, p, q, DebtIn, PledgedIn, BooksMove

\* Packages that keep their assets keep the books.
LEMMA BooksKept ==
    ASSUME NEW loans \in [LoanId -> LoanRecord \cup {NoLoan}], NEW packages, NEW new, NEW x,
           \A i \in LoanId : loans[i] # NoLoan =>
              /\ new[loans[i].package_id].loan_asset_id = packages[loans[i].package_id].loan_asset_id
              /\ new[loans[i].package_id].collateral_asset_id
                     = packages[loans[i].package_id].collateral_asset_id
    PROVE  /\ DebtIn(loans, new, x) = DebtIn(loans, packages, x)
           /\ PledgedIn(loans, new, x) = PledgedIn(loans, packages, x)
<1>1. DebtOf(loans, new, x) = DebtOf(loans, packages, x)
  BY DEF DebtOf
<1>2. PledgeOf(loans, new, x) = PledgeOf(loans, packages, x)
  BY DEF PledgeOf
<1> QED BY <1>1, <1>2 DEF DebtIn, PledgedIn

\* Until root switches assets, the sums over all loans are the debt and the
\* pledges in the two assets of genesis.
LEMMA BooksAreSums ==
    ASSUME LoanIndexInv, ~switched => AssetsOfGenesis, ~switched
    PROVE  /\ SumOverLoans("loan_balance_total")
                  = DebtIn(Loans, LoanPackages, GenesisConfig.LoanAssetId)
           /\ SumOverLoans("collateral_balance_available")
                  = PledgedIn(Loans, LoanPackages, GenesisConfig.CollateralAssetId)
<1> DEFINE c == GenesisConfig.CollateralAssetId
           a == GenesisConfig.LoanAssetId
           d == DebtOf(Loans, LoanPackages, a)
           p == PledgeOf(Loans, LoanPackages, c)
           f == [i \in LoanIds |-> Loans[i]["loan_balance_total"]]
           g == [i \in LoanIds |-> Loans[i]["collateral_balance_available"]]
<1>1. ASSUME NEW i \in LoanIds
      PROVE  /\ PackageOf(Loans[i]).loan_asset_id = a
             /\ PackageOf(Loans[i]).collateral_asset_id = c
             /\ Loans[i].loan_balance_total \in Nat
             /\ Loans[i].collateral_balance_available \in Nat
  <2>1. Loans[i].package_id \in LoanPackageId /\ PackageOf(Loans[i]) # NoPackage
    BY StoredLoan DEF LoanIndexInv, IndexesAgree
  <2>2. /\ Loans[i].loan_balance_total \in Nat
        /\ Loans[i].collateral_balance_available \in Nat
    BY StoredLoan, MaxBalanceAssumption DEF Balance
  <2> QED BY <2>1, <2>2 DEF AssetsOfGenesis, PackageOf
<1>2. ASSUME NEW i \in LoanIds PROVE d[i] = f[i] /\ p[i] = g[i] /\ f[i] \in Nat /\ g[i] \in Nat
  BY <1>1 DEF DebtOf, PledgeOf, LoanIds, PackageOf
<1>3. \A i \in LoanId \ LoanIds : d[i] = 0 /\ p[i] = 0
  BY DEF DebtOf, PledgeOf, LoanIds
<1>4. LoanIds \in SUBSET LoanId /\ f \in [LoanIds -> Nat] /\ g \in [LoanIds -> Nat]
  BY <1>2 DEF LoanIds
<1>5. SumOverLoans("loan_balance_total") = SumFunction(f)
  BY DEF SumOverLoans
<1>6. SumOverLoans("collateral_balance_available") = SumFunction(g)
  BY DEF SumOverLoans
<1> HIDE DEF d, p, f, g
<1>7. SumFunctionOnSet(d, LoanId) = SumFunctionOnSet(f, LoanIds)
  BY <1>2, <1>3, <1>4, LoanIdsFinite, SumRestricts
<1>8. SumFunctionOnSet(p, LoanId) = SumFunctionOnSet(g, LoanIds)
  BY <1>2, <1>3, <1>4, LoanIdsFinite, SumRestricts
<1>9. SumFunction(f) = SumFunctionOnSet(f, LoanIds) /\ SumFunction(g) = SumFunctionOnSet(g, LoanIds)
  BY <1>4, SumOverDomain
<1> QED BY <1>5, <1>6, <1>7, <1>8, <1>9 DEF d, p, DebtIn, PledgedIn

\* The invariant implies the two properties.
LEMMA InvCovers ==
    ASSUME LoanLedgerInv
    PROVE  CollateralIsLocked /\ DebtIsIssued
<1>1. CASE switched
  BY <1>1 DEF CollateralIsLocked, DebtIsIssued
<1>2. CASE ~switched
  <2>1. AssetsOfGenesis /\ TotalsCover /\ LoanIndexInv
    BY <1>2 DEF LoanLedgerInv
  <2>2. /\ SumOverLoans("loan_balance_total")
               = DebtIn(Loans, LoanPackages, GenesisConfig.LoanAssetId)
        /\ SumOverLoans("collateral_balance_available")
               = PledgedIn(Loans, LoanPackages, GenesisConfig.CollateralAssetId)
    BY <1>2, <2>1, BooksAreSums
  <2>3. /\ CollateralAssetId = GenesisConfig.CollateralAssetId
        /\ LoanAssetId = GenesisConfig.LoanAssetId
    BY <2>1 DEF AssetsOfGenesis
  <2> QED BY <2>1, <2>2, <2>3 DEF CollateralIsLocked, DebtIsIssued, TotalsCover
<1> QED BY <1>1, <1>2

\* The balances of a state, added up.
LEMMA LedgerBounds ==
    ASSUME AssetsTypeOK, IssuanceIsHeld, NEW x \in AssetId
    PROVE  /\ FreeBalance \in Ledger /\ TotalIssuance[x] \in Nat /\ TotalIssuance[x] <= MaxBalance
           /\ GroupTotal(FreeBalance, x, AccountId) \in Nat
           /\ GroupTotal(FreeBalance, x, AccountId) <= MaxBalance
           /\ SumFunction(FreeBalance[x]) \in Nat
           /\ SumFunction(FreeBalance[x]) <= TotalIssuance[x]
           /\ GroupTotal(FreeBalance, x, Spendable) \in Nat
           /\ GroupTotal(FreeBalance, x, Spendable) <= TotalIssuance[x]
           /\ \A w \in AccountId : FreeBalance[x][w] \in Nat /\ FreeBalance[x][w] <= TotalIssuance[x]
           /\ \A w \in Spendable : FreeBalance[x][w] <= GroupTotal(FreeBalance, x, Spendable)
<1>1. FreeBalance \in Ledger /\ TotalIssuance[x] \in Nat /\ TotalIssuance[x] <= MaxBalance
  BY MaxBalanceAssumption DEF AssetsTypeOK, Ledger, Balance
<1>2. FreeBalance[x] \in [AccountId -> Balance] /\ ReservedBalance[x] \in [AccountId -> Balance]
  BY DEF AssetsTypeOK
<1>3. /\ SumFunction(FreeBalance[x]) \in Nat /\ SumFunction(ReservedBalance[x]) \in Nat
      /\ \A w \in AccountId : FreeBalance[x][w] <= SumFunction(FreeBalance[x])
  BY <1>2, TotalIsSum
<1>4. SumFunction(FreeBalance[x]) <= TotalIssuance[x]
  BY <1>1, <1>3 DEF IssuanceIsHeld, Held
<1>5. Spendable \in SUBSET AccountId /\ AccountId \in SUBSET AccountId /\ PawnShop \in AccountId \ Spendable
  BY LoanAssumption DEF Spendable
<1>6. /\ GroupTotal(FreeBalance, x, AccountId) \in Nat
      /\ GroupTotal(FreeBalance, x, Spendable) \in Nat
      /\ \A w \in Spendable : FreeBalance[x][w] <= GroupTotal(FreeBalance, x, Spendable)
      /\ FreeBalance[x][PawnShop] + GroupTotal(FreeBalance, x, Spendable) <= SumFunction(FreeBalance[x])
  BY <1>1, <1>5, GroupBounds
<1>7. \A w \in AccountId : FreeBalance[x][w] \in Nat
  BY <1>2, MaxBalanceAssumption DEF Balance
<1>8. GroupTotal(FreeBalance, x, Spendable) <= TotalIssuance[x]
  BY <1>1, <1>3, <1>4, <1>5, <1>6, <1>7
<1>9. \A w \in AccountId : FreeBalance[x][w] <= TotalIssuance[x]
  BY <1>1, <1>3, <1>4, <1>7
<1>10. GroupTotal(FreeBalance, x, AccountId) = SumFunction(FreeBalance[x])
  BY <1>2, TotalIsSum DEF GroupTotal
<1>11. GroupTotal(FreeBalance, x, AccountId) <= MaxBalance
  BY <1>1, <1>3, <1>4, <1>10, MaxBalanceAssumption
<1> QED BY <1>1, <1>3, <1>4, <1>6, <1>7, <1>8, <1>9, <1>11

\* An issuance that follows the balances stays what is held.
LEMMA LedgerFollows ==
    ASSUME AssetsTypeOK, IssuanceIsHeld, FreeBalance' \in Ledger,
           TotalIssuance' \in [AssetId -> Balance], UNCHANGED ledgerRules,
           \A x \in AssetId : GroupTotal(FreeBalance', x, AccountId) + TotalIssuance[x]
                                  = GroupTotal(FreeBalance, x, AccountId) + TotalIssuance'[x]
    PROVE  AssetsTypeOK' /\ IssuanceIsHeld'
<1>1. AssetsTypeOK'
  BY DEF AssetsTypeOK, Ledger, ledgerRules, contextVars
<1>2. ASSUME NEW x \in AssetId PROVE TotalIssuance'[x] = Held(x)'
  <2> DEFINE f == FreeBalance[x]
             g == FreeBalance'[x]
             r == ReservedBalance[x]
  <2>1. /\ f \in [AccountId -> Balance] /\ g \in [AccountId -> Balance] /\ r \in [AccountId -> Balance]
        /\ TotalIssuance[x] \in Nat /\ TotalIssuance'[x] \in Nat
    BY MaxBalanceAssumption DEF AssetsTypeOK, Ledger, Balance
  <2>2. TotalIssuance[x] = SumFunction(f) + SumFunction(r)
    BY DEF IssuanceIsHeld, Held
  <2>3. SumFunctionOnSet(g, AccountId) + TotalIssuance[x]
            = SumFunctionOnSet(f, AccountId) + TotalIssuance'[x]
    BY DEF GroupTotal
  <2>4. r = ReservedBalance'[x]
    BY DEF ledgerRules
  <2>5. Held(x)' = SumFunction(g) + SumFunction(r)
    BY <2>4 DEF Held
  <2> HIDE DEF f, g, r
  <2>6. /\ SumFunction(f) = SumFunctionOnSet(f, AccountId) /\ SumFunction(g) = SumFunctionOnSet(g, AccountId)
        /\ SumFunction(f) \in Nat /\ SumFunction(g) \in Nat /\ SumFunction(r) \in Nat
    BY <2>1, TotalIsSum
  <2>7. TotalIssuance'[x] = SumFunction(g) + SumFunction(r)
    BY <2>1, <2>2, <2>3, <2>6
  <2> QED BY <2>5, <2>7
<1> QED BY <1>1, <1>2 DEF IssuanceIsHeld

\* A payment, for each account and for all but those of the module together.
PaidOver(free, g, a, from, to, n) ==
    /\ g \in Ledger
    /\ \A x \in AssetId :
          /\ GroupTotal(free, x, AccountId) \in Nat /\ GroupTotal(free, x, Spendable) \in Nat
          /\ GroupTotal(g, x, AccountId) = GroupTotal(free, x, AccountId)
          /\ GroupTotal(g, x, Spendable) \in Nat
          /\ GroupTotal(g, x, Spendable) + (IF x = a /\ from \in Spendable THEN n ELSE 0)
                 = GroupTotal(free, x, Spendable) + (IF x = a /\ to \in Spendable THEN n ELSE 0)
          /\ \A u \in AccountId :
                /\ g[x][u] \in Nat /\ free[x][u] \in Nat
                /\ g[x][u] + (IF x = a /\ u = from THEN n ELSE 0)
                       = free[x][u] + (IF x = a /\ u = to THEN n ELSE 0)

\* A payment, for the two accounts of the module and for all others together.
LEMMA PaymentEffect ==
    ASSUME NEW free \in Ledger, NEW a \in AssetId, NEW from \in AccountId, NEW to \in AccountId,
           NEW n \in Balance, n <= free[a][from],
           GroupTotal(free, a, AccountId) <= MaxBalance,
           NEW g, g = Moved(free, a, from, to, n)
    PROVE  PaidOver(free, g, a, from, to, n)
<1>1. SumFunction(free[a]) <= MaxBalance
  <2>1. free[a] \in [AccountId -> Balance]
    BY DEF Ledger
  <2> QED BY <2>1, TotalIsSum DEF GroupTotal
<1>2. /\ g \in Ledger
      /\ \A x \in AssetId, u \in AccountId :
             g[x][u] = IF x # a \/ from = to THEN free[x][u]
                       ELSE IF u = from THEN free[a][from] - n
                       ELSE IF u = to THEN free[a][to] + n
                       ELSE free[x][u]
      /\ \A x \in AssetId, G \in SUBSET AccountId :
             GroupTotal(g, x, G) + (IF x = a /\ from \in G THEN n ELSE 0)
                 = GroupTotal(free, x, G) + (IF x = a /\ to \in G THEN n ELSE 0)
  <2> Paid(free, g, a, from, to, n)
    BY <1>1, MovedEffect
  <2> QED BY DEF Paid
<1>3. Spendable \in SUBSET AccountId /\ AccountId \in SUBSET AccountId /\ n \in Nat
  BY MaxBalanceAssumption DEF Spendable, Balance
<1>4. \A x \in AssetId :
         /\ GroupTotal(g, x, AccountId) \in Nat /\ GroupTotal(free, x, AccountId) \in Nat
         /\ GroupTotal(g, x, Spendable) \in Nat /\ GroupTotal(free, x, Spendable) \in Nat
  BY <1>2, <1>3, GroupBounds
<1>5. \A x \in AssetId, u \in AccountId : g[x][u] \in Nat /\ free[x][u] \in Nat
  BY <1>2, MaxBalanceAssumption DEF Ledger, Balance
<1>6. \A x \in AssetId : GroupTotal(g, x, AccountId) = GroupTotal(free, x, AccountId)
  BY <1>2, <1>3, <1>4
<1>7. ASSUME NEW x \in AssetId, NEW u \in AccountId
      PROVE  g[x][u] + (IF x = a /\ u = from THEN n ELSE 0)
                 = free[x][u] + (IF x = a /\ u = to THEN n ELSE 0)
  <2>1. g[x][u] \in Nat /\ free[x][u] \in Nat /\ free[a][from] \in Nat /\ free[a][to] \in Nat
    BY <1>5
  <2>2. g[x][u] = IF x # a \/ from = to THEN free[x][u]
                  ELSE IF u = from THEN free[a][from] - n
                  ELSE IF u = to THEN free[a][to] + n
                  ELSE free[x][u]
    BY <1>2
  <2>3. CASE x # a
    BY <2>1, <2>2, <2>3
  <2>4. CASE x = a
    BY <1>3, <2>1, <2>2, <2>4
  <2> QED BY <2>3, <2>4
<1> QED BY <1>2, <1>3, <1>4, <1>5, <1>6, <1>7 DEF PaidOver

\* A balance that is written, for each account and for all but those of the module.
WrittenOver(free, g, a, w, n) ==
    /\ g \in Ledger
    /\ \A x \in AssetId :
          /\ GroupTotal(free, x, AccountId) \in Nat /\ GroupTotal(free, x, Spendable) \in Nat
          /\ GroupTotal(g, x, AccountId) \in Nat /\ GroupTotal(g, x, Spendable) \in Nat
          /\ GroupTotal(g, x, AccountId) + (IF x = a THEN free[a][w] ELSE 0)
                 = GroupTotal(free, x, AccountId) + (IF x = a THEN n ELSE 0)
          /\ GroupTotal(g, x, Spendable) + (IF x = a /\ w \in Spendable THEN free[a][w] ELSE 0)
                 = GroupTotal(free, x, Spendable) + (IF x = a /\ w \in Spendable THEN n ELSE 0)
          /\ \A u \in AccountId :
                /\ g[x][u] \in Nat /\ free[x][u] \in Nat
                /\ g[x][u] = IF x = a /\ u = w THEN n ELSE free[x][u]

\* A mint or burn for one account, with the two accounts and all others.
LEMMA MintEffect ==
    ASSUME NEW free \in Ledger, NEW a \in AssetId, NEW w \in AccountId, NEW n \in Balance,
           NEW g, g = [free EXCEPT ![a][w] = n]
    PROVE  WrittenOver(free, g, a, w, n)
<1>1. /\ g \in Ledger
      /\ \A x \in AssetId, u \in AccountId : g[x][u] = IF x = a /\ u = w THEN n ELSE free[x][u]
      /\ \A x \in AssetId, G \in SUBSET AccountId :
             GroupTotal(g, x, G) + (IF x = a /\ w \in G THEN free[a][w] ELSE 0)
                 = GroupTotal(free, x, G) + (IF x = a /\ w \in G THEN n ELSE 0)
  <2> Written(free, g, a, w, n)
    BY CreditEffect
  <2> QED BY DEF Written
<1>2. Spendable \in SUBSET AccountId /\ AccountId \in SUBSET AccountId
  BY DEF Spendable
<1>3. \A x \in AssetId :
         /\ GroupTotal(g, x, AccountId) \in Nat /\ GroupTotal(free, x, AccountId) \in Nat
         /\ GroupTotal(g, x, Spendable) \in Nat /\ GroupTotal(free, x, Spendable) \in Nat
  BY <1>1, <1>2, GroupBounds
<1>4. \A x \in AssetId, u \in AccountId : g[x][u] \in Nat /\ free[x][u] \in Nat
  BY <1>1, MaxBalanceAssumption DEF Ledger, Balance
<1> QED BY <1>1, <1>2, <1>3, <1>4 DEF WrittenOver

\* The rest of a loan, as it is minted, is what the interest leaves of it: had
\* the subtraction wrapped, the mint would have failed.
LEMMA RestIsDifference ==
    ASSUME NEW amount \in Balance, NEW interest \in Balance, NEW issued \in Nat,
           issued + interest + Wrap(amount - interest) <= MaxBalance
    PROVE  /\ interest <= amount /\ Wrap(amount - interest) = amount - interest
           /\ issued + amount <= MaxBalance
<1>1. amount \in Nat /\ interest \in Nat /\ MaxBalance \in Nat /\ amount <= MaxBalance /\ interest <= MaxBalance
  BY MaxBalanceAssumption DEF Balance
<1>2. interest <= amount
  <2> SUFFICES ASSUME interest > amount PROVE FALSE
    BY <1>1
  <2>1. Wrap(amount - interest) = amount - interest + MaxBalance + 1
    BY <1>1 DEF Wrap
  <2> QED BY <1>1, <2>1
<1>3. Wrap(amount - interest) = amount - interest
  BY <1>1, <1>2, WrapFits DEF Balance
<1> QED BY <1>1, <1>2, <1>3

\* Of the amount that is minted the interest is in the profit pool.
LentOut(free, g, a, amount, interest) ==
    /\ g \in Ledger
    /\ \A x \in AssetId :
          /\ GroupTotal(g, x, AccountId)
                 = GroupTotal(free, x, AccountId) + (IF x = a THEN amount ELSE 0)
          /\ GroupTotal(g, x, Spendable)
                 = GroupTotal(free, x, Spendable) + (IF x = a THEN amount - interest ELSE 0)
          /\ g[x][PawnShop] = free[x][PawnShop]
          /\ g[x][ProfitPool] = free[x][ProfitPool] + (IF x = a THEN interest ELSE 0)

\* A loan that is minted: the interest to the profit pool, the rest to the
\* borrower, all of it issued.
LEMMA PayoutEffect ==
    ASSUME AssetsTypeOK, NEW free \in Ledger, NEW a \in AssetId,
           NEW who \in Borrower, NEW amount \in Balance, NEW interest \in Balance,
           free[a][ProfitPool] + interest <= MaxBalance,
           RestMinted(free, a, who, amount, interest),
           NEW g, g = LoanPaidOut(free, a, who, amount, interest)
    PROVE  /\ LentOut(free, g, a, amount, interest)
           /\ interest <= amount /\ TotalIssuance[a] + amount <= MaxBalance
<1> DEFINE rest == amount - interest
           pool == free[a][ProfitPool] + interest
           own == free[a][who] + rest
           one == [free EXCEPT ![a][ProfitPool] = pool]
<1>1. /\ ProfitPool \in AccountId /\ PawnShop \in AccountId /\ who \in AccountId /\ who # ProfitPool
      /\ who # PawnShop /\ PawnShop # ProfitPool /\ who \in Spendable /\ ProfitPool \notin Spendable
      /\ amount \in Nat /\ interest \in Nat /\ MaxBalance \in Nat /\ TotalIssuance[a] \in Nat
      /\ free[a][ProfitPool] \in Nat /\ free[a][who] \in Nat
  BY LoanAssumption, MaxBalanceAssumption DEF Spendable, Balance, Ledger, AssetsTypeOK
<1>2. interest <= amount /\ Wrap(amount - interest) = rest /\ TotalIssuance[a] + amount <= MaxBalance
  BY <1>1, RestIsDifference DEF RestMinted
<1>3. g = [free EXCEPT ![a][ProfitPool] = pool, ![a][who] = own]
  BY <1>1, <1>2 DEF LoanPaidOut, Ledger
<1>4. own <= MaxBalance
  <2>1. g[a][who] <= MaxBalance
    BY DEF RestMinted
  <2>2. g[a][who] = own
    BY <1>1, <1>3 DEF Ledger
  <2> QED BY <2>1, <2>2
<1>5. pool \in Balance /\ own \in Balance /\ rest \in Nat
  BY <1>1, <1>2, <1>4 DEF Balance
<1>6. g = [one EXCEPT ![a][who] = own]
  BY <1>3 DEF Ledger
<1> HIDE DEF pool, own
<1>7. one \in Ledger /\ WrittenOver(free, one, a, ProfitPool, pool)
  <2> WrittenOver(free, one, a, ProfitPool, pool)
    BY <1>1, <1>5, MintEffect
  <2> QED BY DEF WrittenOver
<1> HIDE DEF one
<1>8. g \in Ledger /\ WrittenOver(one, g, a, who, own)
  <2> WrittenOver(one, g, a, who, own)
    BY <1>1, <1>5, <1>6, <1>7, MintEffect
  <2> QED BY DEF WrittenOver
<1>9. one[a][who] = free[a][who]
  BY <1>1, <1>7 DEF WrittenOver
<1>10. pool = free[a][ProfitPool] + interest /\ own = free[a][who] + rest /\ rest = amount - interest
  BY DEF pool, own
<1>11. ASSUME NEW x \in AssetId
       PROVE  /\ GroupTotal(g, x, AccountId)
                     = GroupTotal(free, x, AccountId) + (IF x = a THEN amount ELSE 0)
              /\ GroupTotal(g, x, Spendable)
                     = GroupTotal(free, x, Spendable) + (IF x = a THEN amount - interest ELSE 0)
  <2>1. /\ GroupTotal(free, x, AccountId) \in Nat /\ GroupTotal(free, x, Spendable) \in Nat
        /\ GroupTotal(one, x, AccountId) \in Nat /\ GroupTotal(one, x, Spendable) \in Nat
        /\ GroupTotal(one, x, AccountId) + (IF x = a THEN free[a][ProfitPool] ELSE 0)
               = GroupTotal(free, x, AccountId) + (IF x = a THEN pool ELSE 0)
        /\ GroupTotal(one, x, Spendable) = GroupTotal(free, x, Spendable)
    BY <1>1, <1>7 DEF WrittenOver
  <2>2. /\ GroupTotal(g, x, AccountId) \in Nat /\ GroupTotal(g, x, Spendable) \in Nat
        /\ GroupTotal(g, x, AccountId) + (IF x = a THEN free[a][who] ELSE 0)
               = GroupTotal(one, x, AccountId) + (IF x = a THEN own ELSE 0)
        /\ GroupTotal(g, x, Spendable) + (IF x = a THEN free[a][who] ELSE 0)
               = GroupTotal(one, x, Spendable) + (IF x = a THEN own ELSE 0)
    BY <1>1, <1>8, <1>9 DEF WrittenOver
  <2> HIDE DEF rest
  <2> QED BY <1>1, <1>5, <1>10, <2>1, <2>2
<1>12. ASSUME NEW x \in AssetId
       PROVE  /\ g[x][PawnShop] = free[x][PawnShop]
              /\ g[x][ProfitPool] = free[x][ProfitPool] + (IF x = a THEN interest ELSE 0)
  BY <1>1, <1>7, <1>8, <1>10 DEF WrittenOver
<1> QED BY <1>2, <1>8, <1>11, <1>12 DEF LentOut

\* Interest that is minted and stays so although the loan is not paid out.
LEMMA InterestEffect ==
    ASSUME NEW free \in Ledger, NEW a \in AssetId, NEW interest \in Balance,
           free[a][ProfitPool] + interest <= MaxBalance,
           NEW g, g = [free EXCEPT ![a][ProfitPool] = @ + interest]
    PROVE  LentOut(free, g, a, interest, interest)
<1> DEFINE pool == free[a][ProfitPool] + interest
<1>1. /\ ProfitPool \in AccountId /\ PawnShop \in AccountId /\ PawnShop # ProfitPool
      /\ ProfitPool \notin Spendable /\ interest \in Nat /\ free[a][ProfitPool] \in Nat
  BY LoanAssumption, MaxBalanceAssumption DEF Spendable, Balance, Ledger
<1>2. pool \in Balance /\ g = [free EXCEPT ![a][ProfitPool] = pool]
  BY <1>1, MaxBalanceAssumption DEF Balance, Ledger
<1>3. pool = free[a][ProfitPool] + interest
  OBVIOUS
<1> HIDE DEF pool
<1>4. WrittenOver(free, g, a, ProfitPool, pool)
  BY <1>1, <1>2, MintEffect
<1>5. ASSUME NEW x \in AssetId
      PROVE  /\ GroupTotal(g, x, AccountId)
                    = GroupTotal(free, x, AccountId) + (IF x = a THEN interest ELSE 0)
             /\ GroupTotal(g, x, Spendable)
                    = GroupTotal(free, x, Spendable) + (IF x = a THEN interest - interest ELSE 0)
  <2>1. /\ GroupTotal(free, x, AccountId) \in Nat /\ GroupTotal(free, x, Spendable) \in Nat
        /\ GroupTotal(g, x, AccountId) \in Nat
        /\ GroupTotal(g, x, AccountId) + (IF x = a THEN free[a][ProfitPool] ELSE 0)
               = GroupTotal(free, x, AccountId) + (IF x = a THEN pool ELSE 0)
        /\ GroupTotal(g, x, Spendable) \in Nat
        /\ GroupTotal(g, x, Spendable) + (IF x = a /\ ProfitPool \in Spendable THEN free[a][ProfitPool] ELSE 0)
               = GroupTotal(free, x, Spendable) + (IF x = a /\ ProfitPool \in Spendable THEN pool ELSE 0)
    BY <1>4 DEF WrittenOver
  <2>2. GroupTotal(g, x, Spendable) = GroupTotal(free, x, Spendable)
    BY <1>1, <2>1
  <2> QED BY <1>1, <1>3, <2>1, <2>2
<1>6. ASSUME NEW x \in AssetId
      PROVE  /\ g[x][PawnShop] = free[x][PawnShop]
             /\ g[x][ProfitPool] = free[x][ProfitPool] + (IF x = a THEN interest ELSE 0)
  BY <1>1, <1>3, <1>4 DEF WrittenOver
<1> QED BY <1>4, <1>5, <1>6 DEF LentOut, WrittenOver

\* The part of a stored loan in the books.
LEMMA LoanParts ==
    ASSUME LoanIndexInv, NEW i \in LoanIds, NEW x
    PROVE  LET a == PackageOf(Loans[i]).loan_asset_id
               c == PackageOf(Loans[i]).collateral_asset_id
           IN  /\ DebtOf(Loans, LoanPackages, x)[i]
                      = IF x = a THEN Loans[i].loan_balance_total ELSE 0
               /\ PledgeOf(Loans, LoanPackages, x)[i]
                      = IF x = c THEN Loans[i].collateral_balance_available ELSE 0
               /\ DebtIn(Loans, LoanPackages, x) \in Nat
               /\ PledgedIn(Loans, LoanPackages, x) \in Nat
               /\ x = a => Loans[i].loan_balance_total <= DebtIn(Loans, LoanPackages, x)
               /\ x = c => Loans[i].collateral_balance_available <= PledgedIn(Loans, LoanPackages, x)
<1>1. i \in LoanId /\ Loans \in [LoanId -> LoanRecord \cup {NoLoan}]
  BY DEF LoanIds, LoanIndexInv, LoanTypeOK
<1>2. /\ DebtOf(Loans, LoanPackages, x)[i]
             = IF x = PackageOf(Loans[i]).loan_asset_id THEN Loans[i].loan_balance_total ELSE 0
      /\ PledgeOf(Loans, LoanPackages, x)[i]
             = IF x = PackageOf(Loans[i]).collateral_asset_id
               THEN Loans[i].collateral_balance_available ELSE 0
  BY DEF DebtOf, PledgeOf, LoanIds, PackageOf
<1>3. /\ DebtIn(Loans, LoanPackages, x) \in Nat
      /\ PledgedIn(Loans, LoanPackages, x) \in Nat
      /\ DebtOf(Loans, LoanPackages, x)[i] <= DebtIn(Loans, LoanPackages, x)
      /\ PledgeOf(Loans, LoanPackages, x)[i] <= PledgedIn(Loans, LoanPackages, x)
  BY <1>1, BooksAreNat
<1> QED BY <1>2, <1>3

\* The books of another table of loans, where one loan of assets a and c goes
\* from one debt and pledge to another.
BooksDiffer(new, x, a, c, debt, pledge, newDebt, newPledge) ==
    /\ DebtIn(Loans, LoanPackages, x) \in Nat /\ PledgedIn(Loans, LoanPackages, x) \in Nat
    /\ DebtIn(new, LoanPackages, x) \in Nat /\ PledgedIn(new, LoanPackages, x) \in Nat
    /\ DebtIn(new, LoanPackages, x) + (IF x = a THEN debt ELSE 0)
           = DebtIn(Loans, LoanPackages, x) + (IF x = a THEN newDebt ELSE 0)
    /\ PledgedIn(new, LoanPackages, x) + (IF x = c THEN pledge ELSE 0)
           = PledgedIn(Loans, LoanPackages, x) + (IF x = c THEN newPledge ELSE 0)

\* The books after a loan is altered.
LEMMA BooksAltered ==
    ASSUME LoanIndexInv, NEW i \in LoanIds, NEW r \in LoanRecord,
           r.package_id = Loans[i].package_id, NEW x, NEW new, new = [Loans EXCEPT ![i] = r]
    PROVE  BooksDiffer(new, x, PackageOf(Loans[i]).loan_asset_id,
                       PackageOf(Loans[i]).collateral_asset_id,
                       Loans[i].loan_balance_total, Loans[i].collateral_balance_available,
                       r.loan_balance_total, r.collateral_balance_available)
<1>1. i \in LoanId /\ Loans \in [LoanId -> LoanRecord \cup {NoLoan}] /\ r # NoLoan
  BY LoanAssumption DEF LoanIds, LoanIndexInv, LoanTypeOK
<1>2. /\ new \in [LoanId -> LoanRecord \cup {NoLoan}] /\ new[i] = r
      /\ \A j \in LoanId \ {i} : new[j] = Loans[j]
  BY <1>1
<1>3. /\ DebtOf(new, LoanPackages, x)[i]
             = IF x = PackageOf(Loans[i]).loan_asset_id THEN r.loan_balance_total ELSE 0
      /\ PledgeOf(new, LoanPackages, x)[i]
             = IF x = PackageOf(Loans[i]).collateral_asset_id
               THEN r.collateral_balance_available ELSE 0
  BY <1>1, <1>2 DEF DebtOf, PledgeOf, PackageOf
<1>4. /\ DebtIn(new, LoanPackages, x) + DebtOf(Loans, LoanPackages, x)[i]
             = DebtIn(Loans, LoanPackages, x) + DebtOf(new, LoanPackages, x)[i]
      /\ PledgedIn(new, LoanPackages, x) + PledgeOf(Loans, LoanPackages, x)[i]
             = PledgedIn(Loans, LoanPackages, x) + PledgeOf(new, LoanPackages, x)[i]
  <2> BooksMove(Loans, new, LoanPackages, x, i)
    BY <1>1, <1>2, BooksChange
  <2> QED BY DEF BooksMove
<1>5. DebtIn(new, LoanPackages, x) \in Nat /\ PledgedIn(new, LoanPackages, x) \in Nat
  BY <1>2, BooksAreNat
<1>6. DebtIn(Loans, LoanPackages, x) \in Nat /\ PledgedIn(Loans, LoanPackages, x) \in Nat
  BY <1>1, BooksAreNat
<1> QED BY <1>3, <1>4, <1>5, <1>6, LoanParts DEF BooksDiffer

\* The books after a loan has ended.
LEMMA BooksWithout ==
    ASSUME LoanIndexInv, NEW i \in LoanIds, NEW x, NEW new, new = [Loans EXCEPT ![i] = NoLoan]
    PROVE  BooksDiffer(new, x, PackageOf(Loans[i]).loan_asset_id,
                       PackageOf(Loans[i]).collateral_asset_id,
                       Loans[i].loan_balance_total, Loans[i].collateral_balance_available, 0, 0)
<1>1. i \in LoanId /\ Loans \in [LoanId -> LoanRecord \cup {NoLoan}]
  BY DEF LoanIds, LoanIndexInv, LoanTypeOK
<1>2. /\ new \in [LoanId -> LoanRecord \cup {NoLoan}] /\ new[i] = NoLoan
      /\ \A j \in LoanId \ {i} : new[j] = Loans[j]
  BY <1>1
<1>3. DebtOf(new, LoanPackages, x)[i] = 0 /\ PledgeOf(new, LoanPackages, x)[i] = 0
  BY <1>1, <1>2 DEF DebtOf, PledgeOf
<1>4. /\ DebtIn(new, LoanPackages, x) + DebtOf(Loans, LoanPackages, x)[i]
             = DebtIn(Loans, LoanPackages, x) + DebtOf(new, LoanPackages, x)[i]
      /\ PledgedIn(new, LoanPackages, x) + PledgeOf(Loans, LoanPackages, x)[i]
             = PledgedIn(Loans, LoanPackages, x) + PledgeOf(new, LoanPackages, x)[i]
  <2> BooksMove(Loans, new, LoanPackages, x, i)
    BY <1>1, <1>2, BooksChange
  <2> QED BY DEF BooksMove
<1>5. DebtIn(new, LoanPackages, x) \in Nat /\ PledgedIn(new, LoanPackages, x) \in Nat
  BY <1>2, BooksAreNat
<1>6. DebtIn(Loans, LoanPackages, x) \in Nat /\ PledgedIn(Loans, LoanPackages, x) \in Nat
  BY <1>1, BooksAreNat
<1> QED BY <1>3, <1>4, <1>5, <1>6, LoanParts DEF BooksDiffer

\* The books after a loan has begun.
LEMMA BooksWith ==
    ASSUME LoanIndexInv, NEW i \in LoanId \ LoanIds, NEW r \in LoanRecord, NEW x,
           NEW new, new = [Loans EXCEPT ![i] = r]
    PROVE  BooksDiffer(new, x, LoanPackages[r.package_id].loan_asset_id,
                       LoanPackages[r.package_id].collateral_asset_id,
                       0, 0, r.loan_balance_total, r.collateral_balance_available)
<1>1. /\ i \in LoanId /\ Loans \in [LoanId -> LoanRecord \cup {NoLoan}] /\ r # NoLoan
      /\ Loans[i] = NoLoan
  BY LoanAssumption DEF LoanIds, LoanIndexInv, LoanTypeOK
<1>2. /\ new \in [LoanId -> LoanRecord \cup {NoLoan}] /\ new[i] = r
      /\ \A j \in LoanId \ {i} : new[j] = Loans[j]
  BY <1>1
<1>3. /\ DebtOf(new, LoanPackages, x)[i]
             = IF x = LoanPackages[r.package_id].loan_asset_id THEN r.loan_balance_total ELSE 0
      /\ PledgeOf(new, LoanPackages, x)[i]
             = IF x = LoanPackages[r.package_id].collateral_asset_id
               THEN r.collateral_balance_available ELSE 0
      /\ DebtOf(Loans, LoanPackages, x)[i] = 0 /\ PledgeOf(Loans, LoanPackages, x)[i] = 0
  BY <1>1, <1>2 DEF DebtOf, PledgeOf
<1>4. /\ DebtIn(new, LoanPackages, x) + DebtOf(Loans, LoanPackages, x)[i]
             = DebtIn(Loans, LoanPackages, x) + DebtOf(new, LoanPackages, x)[i]
      /\ PledgedIn(new, LoanPackages, x) + PledgeOf(Loans, LoanPackages, x)[i]
             = PledgedIn(Loans, LoanPackages, x) + PledgeOf(new, LoanPackages, x)[i]
  <2> BooksMove(Loans, new, LoanPackages, x, i)
    BY <1>1, <1>2, BooksChange
  <2> QED BY DEF BooksMove
<1>5. DebtIn(new, LoanPackages, x) \in Nat /\ PledgedIn(new, LoanPackages, x) \in Nat
  BY <1>2, BooksAreNat
<1>6. DebtIn(Loans, LoanPackages, x) \in Nat /\ PledgedIn(Loans, LoanPackages, x) \in Nat
  BY <1>1, BooksAreNat
<1> QED BY <1>3, <1>4, <1>5, <1>6 DEF BooksDiffer

\* Until root switches assets, every loan is in those of genesis.
LEMMA AssetsOfLoan ==
    ASSUME LoanLedgerInv, ~switched, NEW i \in LoanIds
    PROVE  /\ PackageOf(Loans[i]).loan_asset_id = GenesisConfig.LoanAssetId
           /\ PackageOf(Loans[i]).collateral_asset_id = GenesisConfig.CollateralAssetId
<1>1. LoanIndexInv /\ AssetsOfGenesis
  BY DEF LoanLedgerInv
<1>2. Loans[i].package_id \in LoanPackageId /\ PackageOf(Loans[i]) # NoPackage
  BY <1>1, StoredLoan DEF LoanIndexInv, IndexesAgree
<1> QED BY <1>1, <1>2 DEF AssetsOfGenesis, PackageOf

\* The constants the totals are compared with.
LEMMA GenesisNumbers ==
    /\ GenesisConfig.CollateralAssetId \in AssetId /\ GenesisConfig.LoanAssetId \in AssetId
    /\ PawnShop \in AccountId /\ ProfitPool \in AccountId /\ PawnShop # ProfitPool
    /\ PawnShop \notin Spendable /\ ProfitPool \notin Spendable
    /\ LoanAssetEndowed \in Nat
    /\ Endowed[GenesisConfig.LoanAssetId][ProfitPool] \in Nat
    /\ \A who \in Borrower : who \in Spendable /\ who \in AccountId
<1>1. /\ GenesisConfig.CollateralAssetId \in AssetId /\ GenesisConfig.LoanAssetId \in AssetId
      /\ PawnShop \in AccountId /\ ProfitPool \in AccountId /\ PawnShop # ProfitPool
      /\ PawnShop \notin Spendable /\ ProfitPool \notin Spendable
      /\ \A who \in Borrower : who \in Spendable /\ who \in AccountId
  BY LoanAssumption DEF Config, Spendable
<1>2. LoanAssetEndowed \in Nat
  BY <1>1, GenesisAssumption, MaxBalanceAssumption DEF LoanAssetEndowed, Balance
<1>3. Endowed[GenesisConfig.LoanAssetId][ProfitPool] \in Nat
  BY <1>1, GenesisAssumption, MaxBalanceAssumption DEF Balance
<1> QED BY <1>1, <1>2, <1>3

\* What a call has to keep of the ledger.
LedgerPart == AssetsTypeOK /\ IssuanceIsHeld /\ LedgerCovers /\ (~switched => TotalsCover)

\* The totals are balances.
LEMMA TotalsAreNat ==
    ASSUME LoanIndexInv
    PROVE  /\ TotalLoan \in Nat /\ TotalCollateral \in Nat /\ TotalProfit \in Nat
           /\ TotalLoan <= MaxBalance /\ TotalCollateral <= MaxBalance
           /\ MaxBalance \in Nat
  BY MaxBalanceAssumption DEF LoanIndexInv, LoanTypeOK, Balance

\* An issue of some of an asset.
LEMMA IssuedEffect ==
    ASSUME AssetsTypeOK, NEW a \in AssetId, NEW n \in Balance, TotalIssuance[a] + n <= MaxBalance
    PROVE  /\ Issued(a, n) \in [AssetId -> Balance]
           /\ \A x \in AssetId : Issued(a, n)[x] = TotalIssuance[x] + (IF x = a THEN n ELSE 0)
<1>1. TotalIssuance \in [AssetId -> Balance] /\ n \in Nat /\ MaxBalance \in Nat
  BY MaxBalanceAssumption DEF AssetsTypeOK, Balance
<1>2. \A x \in AssetId : TotalIssuance[x] \in Nat /\ TotalIssuance[x] <= MaxBalance
  BY <1>1 DEF Balance
<1>3. TotalIssuance[a] + n \in Balance
  BY <1>1, <1>2 DEF Balance
<1> QED BY <1>1, <1>2, <1>3 DEF Issued

\* draw: the debt grows by what is issued.
LEMMA DrawKeepsLedger ==
    ASSUME LoanLedgerInv, NEW who \in Borrower, NEW id \in LoanId, NEW n \in DrawAmount,
           draw(who, id, n)
    PROVE  /\ LedgerPart'
           /\ id \in LiquidatingLoans =>
                 /\ Loans'[id] # NoLoan
                 /\ Loans'[id].loan_balance_total >= Loans[id].loan_balance_total
                 /\ Loans'[id].collateral_balance_available = Loans[id].collateral_balance_available
<1> DEFINE a == PackageOf(Loans[id]).loan_asset_id
           interest == get_interest(PackageOf(Loans[id]), n)
           total == Loans[id].loan_balance_total
<1>1. LoanIndexInv /\ AssetsTypeOK /\ IssuanceIsHeld /\ LedgerCovers
  BY DEF LoanLedgerInv
<1>2. id \in LoanIds /\ n \in Balance
  BY LoanAssumption DEF draw
<1>3. /\ a \in AssetId /\ interest \in Balance /\ total \in Nat /\ Loans[id] \in LoanRecord
      /\ Loans[id] # NoLoan /\ Loans \in [LoanId -> LoanRecord \cup {NoLoan}]
  BY <1>1, <1>2, StoredLoan, InterestFits, MaxBalanceAssumption
  DEF Balance, LoanIds, LoanIndexInv, LoanTypeOK
<1>4. interest \in Nat /\ n \in Nat /\ MaxBalance \in Nat
  BY <1>2, <1>3, MaxBalanceAssumption DEF Balance
<1>5. /\ TotalIssuance[a] + interest <= MaxBalance
      /\ FreeBalance[a][ProfitPool] + interest <= MaxBalance
  BY DEF draw, InterestMinted, MintFreeOk
<1>6. UNCHANGED <<ledgerRules, LoanPackages, TotalCollateral, switched>>
  BY DEF draw, packageVars
<1>7. \A x \in AssetId :
         /\ FreeBalance \in Ledger /\ TotalIssuance[x] \in Nat /\ TotalIssuance[x] <= MaxBalance
         /\ GroupTotal(FreeBalance, x, AccountId) \in Nat
         /\ GroupTotal(FreeBalance, x, Spendable) \in Nat
         /\ \A w \in AccountId : FreeBalance[x][w] \in Nat
  BY <1>1, LedgerBounds
<1>8. ~switched => /\ TotalsCover /\ a = GenesisConfig.LoanAssetId
  BY <1>2, AssetsOfLoan DEF LoanLedgerInv
<1>9. CASE /\ RestMinted(FreeBalance, a, who, n, interest)
           /\ FreeBalance' = LoanPaidOut(FreeBalance, a, who, n, interest)
           /\ TotalIssuance' = Issued(a, n)
           /\ Loans' = [Loans EXCEPT ![id].loan_balance_total = Wrap(@ + n)]
           /\ TotalLoan' = Wrap(TotalLoan + n)
           /\ TotalProfit' = Wrap(TotalProfit + interest)
  <2> HIDE DEF interest
  <2>1. /\ LentOut(FreeBalance, FreeBalance', a, n, interest)
        /\ interest <= n /\ TotalIssuance[a] + n <= MaxBalance
    <3> HIDE DEF a
    <3> QED BY <1>1, <1>2, <1>3, <1>5, <1>7, <1>9, PayoutEffect
  <2>2. /\ TotalIssuance' \in [AssetId -> Balance]
        /\ \A x \in AssetId : TotalIssuance'[x] = TotalIssuance[x] + (IF x = a THEN n ELSE 0)
    <3> HIDE DEF a
    <3> QED BY <1>1, <1>2, <1>3, <1>9, <2>1, IssuedEffect
  <2>3. AssetsTypeOK' /\ IssuanceIsHeld'
    <3>1. \A x \in AssetId : GroupTotal(FreeBalance', x, AccountId) + TotalIssuance[x]
                                 = GroupTotal(FreeBalance, x, AccountId) + TotalIssuance'[x]
      <4> HIDE DEF a
      <4> QED BY <1>4, <1>7, <2>1, <2>2 DEF LentOut
    <3> QED BY <1>1, <1>6, <2>1, <2>2, <3>1, LedgerFollows DEF LentOut
  <2>4. /\ DebtIn(Loans, LoanPackages, a) <= TotalIssuance[a]
        /\ total <= DebtIn(Loans, LoanPackages, a)
        /\ DebtIn(Loans, LoanPackages, a) \in Nat
    BY <1>1, <1>2, <1>3, LoanParts DEF LedgerCovers
  <2>5. Wrap(total + n) = total + n /\ total + n \in Balance
    <3> HIDE DEF a, total
    <3>1. total + n \in Balance
      BY <1>3, <1>4, <1>7, <2>1, <2>4 DEF Balance
    <3> QED BY <3>1, WrapFits
  <2> DEFINE r == [Loans[id] EXCEPT !.loan_balance_total = total + n]
  <2>6. /\ Loans' = [Loans EXCEPT ![id] = r] /\ r \in LoanRecord
        /\ r.package_id = Loans[id].package_id /\ r.loan_balance_total = total + n
        /\ r.collateral_balance_available = Loans[id].collateral_balance_available
    BY <1>3, <1>9, <2>5 DEF LoanRecord
  <2> HIDE DEF r
  <2>7. \A x \in AssetId :
           /\ DebtIn(Loans', LoanPackages, x) \in Nat /\ PledgedIn(Loans', LoanPackages, x) \in Nat
           /\ DebtIn(Loans, LoanPackages, x) \in Nat /\ PledgedIn(Loans, LoanPackages, x) \in Nat
           /\ DebtIn(Loans', LoanPackages, x)
                  = DebtIn(Loans, LoanPackages, x) + (IF x = a THEN n ELSE 0)
           /\ PledgedIn(Loans', LoanPackages, x) = PledgedIn(Loans, LoanPackages, x)
    <3> TAKE x \in AssetId
    <3> DEFINE c == PackageOf(Loans[id]).collateral_asset_id
               pledge == Loans[id].collateral_balance_available
    <3>1. BooksDiffer(Loans', x, a, c, total, pledge,
                      r.loan_balance_total, r.collateral_balance_available)
      BY <1>1, <1>2, <2>6, BooksAltered
    <3>3. pledge \in Nat
      BY <1>3, MaxBalanceAssumption DEF LoanRecord, Balance
    <3>4. r.loan_balance_total = total + n /\ r.collateral_balance_available = pledge
      BY <2>6
    <3> HIDE DEF a, total, c, pledge
    <3> QED BY <1>3, <1>4, <3>1, <3>3, <3>4 DEF BooksDiffer
  <2>8. LedgerCovers'
    <3>1. ASSUME NEW x \in AssetId
          PROVE  /\ DebtIn(Loans', LoanPackages, x) <= TotalIssuance'[x]
                 /\ PledgedIn(Loans', LoanPackages, x) + GroupTotal(FreeBalance', x, Spendable)
                        <= TotalIssuance'[x]
      <4>1. /\ DebtIn(Loans, LoanPackages, x) <= TotalIssuance[x]
            /\ PledgedIn(Loans, LoanPackages, x) + GroupTotal(FreeBalance, x, Spendable)
                   <= TotalIssuance[x]
        BY <1>1 DEF LedgerCovers
      <4> HIDE DEF a
      <4> QED BY <1>4, <1>7, <2>1, <2>2, <2>7, <4>1 DEF LentOut
    <3> QED BY <1>6, <3>1 DEF LedgerCovers
  <2>9. ASSUME ~switched' PROVE TotalsCover'
    <3>1. ~switched /\ TotalsCover /\ a = GenesisConfig.LoanAssetId
      BY <1>6, <1>8, <2>9
    <3> DEFINE c == GenesisConfig.CollateralAssetId
    <3>2. /\ PledgedIn(Loans, LoanPackages, c) <= TotalCollateral
          /\ TotalCollateral <= FreeBalance[c][PawnShop]
          /\ DebtIn(Loans, LoanPackages, a) <= TotalLoan
          /\ TotalLoan + LoanAssetEndowed <= TotalIssuance[a]
          /\ TotalProfit + Endowed[a][ProfitPool] <= FreeBalance[a][ProfitPool]
      BY <3>1 DEF TotalsCover
    <3>3. c \in AssetId /\ LoanAssetEndowed \in Nat /\ Endowed[a][ProfitPool] \in Nat /\ ProfitPool \in AccountId
      BY <3>1, GenesisNumbers
    <3>4. TotalLoan \in Nat /\ TotalProfit \in Nat
      BY <1>1, TotalsAreNat
    <3> HIDE DEF a, c
    <3>5. TotalLoan + n \in Balance /\ TotalProfit + interest \in Balance
      BY <1>3, <1>4, <1>5, <1>7, <2>1, <3>2, <3>3, <3>4 DEF Balance
    <3>6. TotalLoan' = TotalLoan + n /\ TotalProfit' = TotalProfit + interest
      BY <1>9, <3>5, WrapFits
    <3>7. /\ PledgedIn(Loans', LoanPackages, c) <= TotalCollateral
          /\ TotalCollateral <= FreeBalance'[c][PawnShop]
          /\ DebtIn(Loans', LoanPackages, a) <= TotalLoan'
          /\ TotalLoan' + LoanAssetEndowed <= TotalIssuance'[a]
          /\ TotalProfit' + Endowed[a][ProfitPool] <= FreeBalance'[a][ProfitPool]
      BY <1>3, <1>4, <1>7, <2>1, <2>2, <2>7, <3>2, <3>3, <3>4, <3>6 DEF LentOut
    <3> QED BY <1>6, <3>1, <3>7 DEF TotalsCover, c
  <2>10. /\ Loans'[id] # NoLoan
         /\ Loans'[id].loan_balance_total >= Loans[id].loan_balance_total
         /\ Loans'[id].collateral_balance_available = Loans[id].collateral_balance_available
    <3>1. Loans'[id] = r /\ r # NoLoan
      BY <1>3, <2>6, LoanAssumption
    <3> QED BY <1>3, <1>4, <2>6, <3>1
  <2> QED BY <2>3, <2>8, <2>9, <2>10 DEF LedgerPart
<1>10. CASE /\ FreeBalance' = [FreeBalance EXCEPT ![a][ProfitPool] = @ + interest]
            /\ TotalIssuance' = Issued(a, interest)
            /\ UNCHANGED <<Loans, TotalLoan, TotalProfit>>
  <2> HIDE DEF interest
  <2>1. LentOut(FreeBalance, FreeBalance', a, interest, interest)
    <3> HIDE DEF a
    <3> QED BY <1>3, <1>5, <1>7, <1>10, InterestEffect
  <2>2. /\ TotalIssuance' \in [AssetId -> Balance]
        /\ \A x \in AssetId : TotalIssuance'[x] = TotalIssuance[x] + (IF x = a THEN interest ELSE 0)
    <3> HIDE DEF a
    <3> QED BY <1>1, <1>3, <1>5, <1>10, IssuedEffect
  <2>3. AssetsTypeOK' /\ IssuanceIsHeld'
    <3>1. \A x \in AssetId : GroupTotal(FreeBalance', x, AccountId) + TotalIssuance[x]
                                 = GroupTotal(FreeBalance, x, AccountId) + TotalIssuance'[x]
      <4> HIDE DEF a
      <4> QED BY <1>4, <1>7, <2>1, <2>2 DEF LentOut
    <3> QED BY <1>1, <1>6, <2>1, <2>2, <3>1, LedgerFollows DEF LentOut
  <2>4. LedgerCovers'
    <3>1. ASSUME NEW x \in AssetId
          PROVE  /\ DebtIn(Loans, LoanPackages, x) <= TotalIssuance'[x]
                 /\ PledgedIn(Loans, LoanPackages, x) + GroupTotal(FreeBalance', x, Spendable)
                        <= TotalIssuance'[x]
      <4>1. /\ DebtIn(Loans, LoanPackages, x) <= TotalIssuance[x]
            /\ PledgedIn(Loans, LoanPackages, x) + GroupTotal(FreeBalance, x, Spendable)
                   <= TotalIssuance[x]
            /\ DebtIn(Loans, LoanPackages, x) \in Nat /\ PledgedIn(Loans, LoanPackages, x) \in Nat
        BY <1>1, <1>2, LoanParts DEF LedgerCovers
      <4> HIDE DEF a
      <4> QED BY <1>4, <1>7, <2>1, <2>2, <4>1 DEF LentOut
    <3> QED BY <1>6, <1>10, <3>1 DEF LedgerCovers
  <2>5. ASSUME ~switched' PROVE TotalsCover'
    <3>1. ~switched /\ TotalsCover /\ a = GenesisConfig.LoanAssetId
      BY <1>6, <1>8, <2>5
    <3>2. /\ TotalLoan + LoanAssetEndowed <= TotalIssuance[a]
          /\ TotalProfit + Endowed[a][ProfitPool] <= FreeBalance[a][ProfitPool]
      BY <3>1 DEF TotalsCover
    <3>3. LoanAssetEndowed \in Nat /\ Endowed[a][ProfitPool] \in Nat /\ ProfitPool \in AccountId
      BY <3>1, GenesisNumbers
    <3>4. TotalLoan \in Nat /\ TotalProfit \in Nat
      BY <1>1, TotalsAreNat
    <3>5. /\ TotalLoan + LoanAssetEndowed <= TotalIssuance'[a]
          /\ TotalProfit + Endowed[a][ProfitPool] <= FreeBalance'[a][ProfitPool]
      <4> HIDE DEF a
      <4> QED BY <1>3, <1>4, <1>7, <2>1, <2>2, <3>2, <3>3, <3>4 DEF LentOut
    <3> QED BY <1>6, <1>10, <2>1, <3>1, <3>5, GenesisNumbers DEF TotalsCover, LentOut
  <2> QED BY <1>3, <1>10, <2>3, <2>4, <2>5 DEF LedgerPart
<1> QED BY <1>9, <1>10 DEF draw

\* What is pledged to a loan and what its borrower could add fit into a balance.
LEMMA PledgeFits ==
    ASSUME LoanLedgerInv, NEW id \in LoanIds, NEW n \in Nat,
           n <= FreeBalance[PackageOf(Loans[id]).collateral_asset_id][Loans[id].who]
    PROVE  Loans[id].collateral_balance_available + n \in Balance
<1> DEFINE c == PackageOf(Loans[id]).collateral_asset_id
           who == Loans[id].who
           pledge == Loans[id].collateral_balance_available
<1>1. LoanIndexInv /\ AssetsTypeOK /\ IssuanceIsHeld /\ LedgerCovers
  BY DEF LoanLedgerInv
<1>2. c \in AssetId /\ pledge \in Nat /\ who \in Spendable /\ MaxBalance \in Nat
  BY <1>1, StoredLoan, GenesisNumbers, MaxBalanceAssumption DEF LoanLedgerInv, Parties, Balance
<1>3. /\ pledge <= PledgedIn(Loans, LoanPackages, c) /\ PledgedIn(Loans, LoanPackages, c) \in Nat
  BY <1>1, LoanParts
<1>4. PledgedIn(Loans, LoanPackages, c) + GroupTotal(FreeBalance, c, Spendable) <= TotalIssuance[c]
  BY <1>1, <1>2 DEF LedgerCovers
<1> HIDE DEF c, who, pledge
<1>5. /\ TotalIssuance[c] \in Nat /\ TotalIssuance[c] <= MaxBalance
      /\ GroupTotal(FreeBalance, c, Spendable) \in Nat
      /\ FreeBalance[c][who] <= GroupTotal(FreeBalance, c, Spendable)
      /\ FreeBalance[c][who] \in Nat
  BY <1>1, <1>2, LedgerBounds DEF Spendable
<1>6. n <= FreeBalance[c][who]
  BY DEF c, who
<1>7. pledge + n \in Balance
  BY <1>2, <1>3, <1>4, <1>5, <1>6 DEF Balance
<1> QED BY <1>7 DEF pledge

\* add_collateral: the pledge grows by what the borrower pays in.
LEMMA AddCollateralKeepsLedger ==
    ASSUME LoanLedgerInv, NEW who \in Borrower, NEW id \in LoanId, NEW n \in MoreCollateral,
           add_collateral(who, id, n)
    PROVE  /\ LedgerPart'
           /\ Loans'[id] # NoLoan
           /\ Loans'[id].loan_balance_total = Loans[id].loan_balance_total
           /\ Loans'[id].collateral_balance_available >= Loans[id].collateral_balance_available
<1> DEFINE a == PackageOf(Loans[id]).loan_asset_id
           c == PackageOf(Loans[id]).collateral_asset_id
           total == Loans[id].loan_balance_total
           pledge == Loans[id].collateral_balance_available
<1>1. LoanIndexInv /\ AssetsTypeOK /\ IssuanceIsHeld /\ LedgerCovers
  BY DEF LoanLedgerInv
<1>2. /\ id \in LoanIds /\ Loans[id].who = who /\ n \in Balance /\ n \in Nat /\ MaxBalance \in Nat
      /\ n <= FreeBalance[c][who]
  BY LoanAssumption, MaxBalanceAssumption DEF add_collateral, MakeTransferOk, Balance
<1>3. /\ c \in AssetId /\ pledge \in Nat /\ total \in Nat /\ Loans[id] \in LoanRecord
      /\ Loans \in [LoanId -> LoanRecord \cup {NoLoan}]
  BY <1>1, <1>2, StoredLoan, MaxBalanceAssumption DEF Balance, LoanIndexInv, LoanTypeOK
<1>4. pledge + n \in Balance
  BY <1>2, PledgeFits
<1>5. /\ FreeBalance' = Moved(FreeBalance, c, who, PawnShop, n)
      /\ TotalCollateral' = Wrap(TotalCollateral + n)
      /\ UNCHANGED <<ledgerRules, LoanPackages, TotalIssuance, TotalLoan, TotalProfit, switched>>
      /\ Loans' = [Loans EXCEPT ![id].collateral_balance_original = Wrap(@ + n),
                                ![id].collateral_balance_available = Wrap(@ + n)]
  BY DEF add_collateral, packageVars, Transferred
<1>6. /\ who \in Spendable /\ who \in AccountId /\ PawnShop \in AccountId /\ PawnShop \notin Spendable
      /\ who # PawnShop /\ ProfitPool \in AccountId /\ who # ProfitPool /\ PawnShop # ProfitPool
  BY GenesisNumbers DEF Spendable
<1>7. \A x \in AssetId :
         /\ FreeBalance \in Ledger /\ TotalIssuance[x] \in Nat
         /\ GroupTotal(FreeBalance, x, AccountId) <= MaxBalance
  BY <1>1, LedgerBounds
<1>8. PaidOver(FreeBalance, FreeBalance', c, who, PawnShop, n)
  <2> HIDE DEF c
  <2> QED BY <1>2, <1>3, <1>5, <1>6, <1>7, PaymentEffect
<1>9. AssetsTypeOK' /\ IssuanceIsHeld'
  <2>1. FreeBalance' \in Ledger /\ TotalIssuance' \in [AssetId -> Balance]
    BY <1>1, <1>5, <1>8 DEF PaidOver, AssetsTypeOK
  <2>2. \A x \in AssetId : GroupTotal(FreeBalance', x, AccountId) + TotalIssuance[x]
                               = GroupTotal(FreeBalance, x, AccountId) + TotalIssuance'[x]
    BY <1>5, <1>8 DEF PaidOver
  <2> QED BY <1>1, <1>5, <2>1, <2>2, LedgerFollows
<1> DEFINE original == Wrap(Loans[id].collateral_balance_original + n)
           r == [Loans[id] EXCEPT !.collateral_balance_original = original,
                                  !.collateral_balance_available = pledge + n]
<1>10. /\ Loans' = [Loans EXCEPT ![id] = r] /\ r \in LoanRecord
       /\ r.package_id = Loans[id].package_id /\ r.loan_balance_total = total
       /\ r.collateral_balance_available = pledge + n
  <2>1. Wrap(pledge + n) = pledge + n
    BY <1>4, WrapFits
  <2>2. original \in Balance
    <3>1. Loans[id].collateral_balance_original + n \in Nat
      BY <1>2, <1>3, MaxBalanceAssumption DEF LoanRecord, Balance
    <3> QED BY <3>1, WrapInRange
  <2>3. Loans' = [Loans EXCEPT ![id] = r]
    BY <1>3, <1>5, <2>1 DEF LoanRecord
  <2> HIDE DEF original
  <2> QED BY <1>3, <1>4, <2>2, <2>3 DEF LoanRecord
<1> HIDE DEF r
<1>11. ASSUME NEW x \in AssetId
       PROVE  /\ DebtIn(Loans', LoanPackages, x) = DebtIn(Loans, LoanPackages, x)
              /\ PledgedIn(Loans', LoanPackages, x)
                     = PledgedIn(Loans, LoanPackages, x) + (IF x = c THEN n ELSE 0)
              /\ PledgedIn(Loans, LoanPackages, x) \in Nat
  <2>1. BooksDiffer(Loans', x, a, c, total, pledge, total, pledge + n)
    <3>1. BooksDiffer(Loans', x, a, c, total, pledge,
                      r.loan_balance_total, r.collateral_balance_available)
      BY <1>1, <1>2, <1>10, BooksAltered
    <3> QED BY <1>10, <3>1
  <2> HIDE DEF a, c, total, pledge
  <2> QED BY <1>2, <1>3, <2>1 DEF BooksDiffer
<1>12. LedgerCovers'
  <2>1. ASSUME NEW x \in AssetId
        PROVE  /\ DebtIn(Loans', LoanPackages, x) <= TotalIssuance[x]
               /\ PledgedIn(Loans', LoanPackages, x) + GroupTotal(FreeBalance', x, Spendable)
                      <= TotalIssuance[x]
    <3>1. /\ DebtIn(Loans, LoanPackages, x) <= TotalIssuance[x]
          /\ PledgedIn(Loans, LoanPackages, x) + GroupTotal(FreeBalance, x, Spendable)
                 <= TotalIssuance[x]
      BY <1>1 DEF LedgerCovers
    <3>2. /\ GroupTotal(FreeBalance, x, Spendable) \in Nat /\ GroupTotal(FreeBalance', x, Spendable) \in Nat
          /\ GroupTotal(FreeBalance', x, Spendable) + (IF x = c THEN n ELSE 0)
                 = GroupTotal(FreeBalance, x, Spendable)
      BY <1>6, <1>8 DEF PaidOver
    <3> HIDE DEF c
    <3> QED BY <1>2, <1>7, <1>11, <3>1, <3>2
  <2> QED BY <1>5, <2>1 DEF LedgerCovers
<1>13. ASSUME ~switched' PROVE TotalsCover'
  <2>1. ~switched /\ TotalsCover /\ c = GenesisConfig.CollateralAssetId
    BY <1>2, <1>5, <1>13, AssetsOfLoan DEF LoanLedgerInv
  <2> DEFINE b == GenesisConfig.LoanAssetId
  <2>2. /\ PledgedIn(Loans, LoanPackages, c) <= TotalCollateral
        /\ TotalCollateral <= FreeBalance[c][PawnShop]
        /\ DebtIn(Loans, LoanPackages, b) <= TotalLoan
        /\ TotalLoan + LoanAssetEndowed <= TotalIssuance[b]
        /\ TotalProfit + Endowed[b][ProfitPool] <= FreeBalance[b][ProfitPool]
    BY <2>1 DEF TotalsCover
  <2>3. b \in AssetId /\ TotalCollateral \in Nat
    BY <1>1, GenesisNumbers, TotalsAreNat
  <2>4. /\ FreeBalance'[c][PawnShop] = FreeBalance[c][PawnShop] + n
        /\ FreeBalance'[b][ProfitPool] = FreeBalance[b][ProfitPool]
        /\ FreeBalance[c][PawnShop] \in Nat
        /\ FreeBalance'[c][PawnShop] \in Balance
    <3>1. /\ FreeBalance'[c][PawnShop] \in Nat /\ FreeBalance[c][PawnShop] \in Nat
          /\ FreeBalance'[c][PawnShop] + (IF c = c /\ PawnShop = who THEN n ELSE 0)
                 = FreeBalance[c][PawnShop] + (IF c = c /\ PawnShop = PawnShop THEN n ELSE 0)
      <4> HIDE DEF c
      <4> QED BY <1>3, <1>6, <1>8 DEF PaidOver
    <3>2. /\ FreeBalance'[b][ProfitPool] \in Nat /\ FreeBalance[b][ProfitPool] \in Nat
          /\ FreeBalance'[b][ProfitPool] + (IF b = c /\ ProfitPool = who THEN n ELSE 0)
                 = FreeBalance[b][ProfitPool] + (IF b = c /\ ProfitPool = PawnShop THEN n ELSE 0)
      <4> HIDE DEF c, b
      <4> QED BY <1>6, <1>8, <2>3 DEF PaidOver
    <3>3. FreeBalance'[c][PawnShop] \in Balance
      BY <1>3, <1>6, <1>8 DEF PaidOver, Ledger
    <3> HIDE DEF c, b
    <3> QED BY <1>2, <1>6, <3>1, <3>2, <3>3
  <2> HIDE DEF c, b
  <2>5. TotalCollateral + n \in Balance
    BY <1>2, <2>2, <2>3, <2>4 DEF Balance
  <2>6. TotalCollateral' = TotalCollateral + n
    BY <1>5, <2>5, WrapFits
  <2>7. /\ PledgedIn(Loans', LoanPackages, c) <= TotalCollateral'
        /\ TotalCollateral' <= FreeBalance'[c][PawnShop]
    BY <1>2, <1>3, <1>11, <2>2, <2>3, <2>4, <2>6
  <2>8. DebtIn(Loans', LoanPackages, b) <= TotalLoan
    BY <1>11, <2>2, <2>3
  <2> QED BY <1>5, <2>1, <2>2, <2>4, <2>7, <2>8 DEF TotalsCover, b
<1>14. /\ Loans'[id] # NoLoan
       /\ Loans'[id].loan_balance_total = total
       /\ Loans'[id].collateral_balance_available >= pledge
  <2>1. Loans'[id] = r /\ r # NoLoan
    BY <1>3, <1>10, LoanAssumption
  <2> HIDE DEF total, pledge
  <2> QED BY <1>2, <1>3, <1>10, <2>1
<1> QED BY <1>9, <1>12, <1>13, <1>14 DEF LedgerPart

\* An amount of the pawn shop is burnt.
BurntFrom(free, g, a, n) ==
    /\ g \in Ledger
    /\ \A x \in AssetId :
          /\ GroupTotal(g, x, AccountId) \in Nat
          /\ GroupTotal(g, x, AccountId) + (IF x = a THEN n ELSE 0) = GroupTotal(free, x, AccountId)
          /\ GroupTotal(g, x, Spendable) = GroupTotal(free, x, Spendable)
          /\ g[x][PawnShop] \in Nat
          /\ g[x][PawnShop] + (IF x = a THEN n ELSE 0) = free[x][PawnShop]
          /\ g[x][ProfitPool] = free[x][ProfitPool]

\* Burning takes the amount from the pawn shop and from the total.
LEMMA BurnEffect ==
    ASSUME NEW free \in Ledger, NEW a \in AssetId, NEW n \in Nat, n <= free[a][PawnShop],
           NEW g, g = [free EXCEPT ![a][PawnShop] = @ - n]
    PROVE  BurntFrom(free, g, a, n)
<1> DEFINE left == free[a][PawnShop] - n
<1>1. /\ ProfitPool \in AccountId /\ PawnShop \in AccountId /\ PawnShop # ProfitPool
      /\ PawnShop \notin Spendable /\ free[a][PawnShop] \in Nat /\ free[a][PawnShop] <= MaxBalance
  BY LoanAssumption, MaxBalanceAssumption DEF Spendable, Balance, Ledger
<1>2. left \in Balance /\ left \in Nat /\ g = [free EXCEPT ![a][PawnShop] = left]
  BY <1>1, MaxBalanceAssumption DEF Balance
<1>3. left + n = free[a][PawnShop]
  BY <1>1
<1> HIDE DEF left
<1>4. WrittenOver(free, g, a, PawnShop, left)
  BY <1>1, <1>2, MintEffect
<1>5. ASSUME NEW x \in AssetId
      PROVE  /\ GroupTotal(g, x, AccountId) \in Nat
             /\ GroupTotal(g, x, AccountId) + (IF x = a THEN n ELSE 0) = GroupTotal(free, x, AccountId)
             /\ GroupTotal(g, x, Spendable) = GroupTotal(free, x, Spendable)
  <2>1. /\ GroupTotal(free, x, AccountId) \in Nat /\ GroupTotal(free, x, Spendable) \in Nat
        /\ GroupTotal(g, x, AccountId) \in Nat
        /\ GroupTotal(g, x, AccountId) + (IF x = a THEN free[a][PawnShop] ELSE 0)
               = GroupTotal(free, x, AccountId) + (IF x = a THEN left ELSE 0)
        /\ GroupTotal(g, x, Spendable) \in Nat
        /\ GroupTotal(g, x, Spendable) + (IF x = a /\ PawnShop \in Spendable THEN free[a][PawnShop] ELSE 0)
               = GroupTotal(free, x, Spendable) + (IF x = a /\ PawnShop \in Spendable THEN left ELSE 0)
    BY <1>4 DEF WrittenOver
  <2>2. GroupTotal(g, x, Spendable) = GroupTotal(free, x, Spendable)
    BY <1>1, <2>1
  <2> QED BY <1>1, <1>2, <1>3, <2>1, <2>2
<1>6. ASSUME NEW x \in AssetId
      PROVE  /\ g[x][PawnShop] \in Nat
             /\ g[x][PawnShop] + (IF x = a THEN n ELSE 0) = free[x][PawnShop]
             /\ g[x][ProfitPool] = free[x][ProfitPool]
  <2>1. /\ g[x][PawnShop] \in Nat /\ free[x][PawnShop] \in Nat
        /\ g[x][PawnShop] = IF x = a THEN left ELSE free[x][PawnShop]
        /\ g[x][ProfitPool] = free[x][ProfitPool]
    BY <1>1, <1>4 DEF WrittenOver
  <2> QED BY <1>3, <2>1
<1>7. g \in Ledger
  BY <1>4 DEF WrittenOver
<1> QED BY <1>5, <1>6, <1>7 DEF BurntFrom

\* What repay does to balances and issuance.
RepayLedger(a, c, total, pledge, burnt) ==
    /\ FreeBalance' \in Ledger
    /\ TotalIssuance' \in [AssetId -> Balance]
    /\ \A x \in AssetId :
          /\ TotalIssuance'[x] + (IF burnt /\ x = a THEN total ELSE 0) = TotalIssuance[x]
          /\ GroupTotal(FreeBalance', x, AccountId) + (IF burnt /\ x = a THEN total ELSE 0)
                 = GroupTotal(FreeBalance, x, AccountId)
          /\ GroupTotal(FreeBalance', x, Spendable) \in Nat
          /\ GroupTotal(FreeBalance', x, Spendable) + (IF x = a THEN total ELSE 0)
                 = GroupTotal(FreeBalance, x, Spendable) + (IF x = c THEN pledge ELSE 0)
          /\ FreeBalance'[x][PawnShop] \in Nat
          /\ FreeBalance'[x][PawnShop] + (IF x = c THEN pledge ELSE 0)
                     + (IF burnt /\ x = a THEN total ELSE 0)
                 = FreeBalance[x][PawnShop] + (IF x = a THEN total ELSE 0)
          /\ FreeBalance'[x][ProfitPool] = FreeBalance[x][ProfitPool]

\* The debt is paid into the pawn shop and the pledge back.
SettledOver(settled, a, c, total, pledge) ==
    /\ settled \in Ledger
    /\ \A x \in AssetId :
          /\ GroupTotal(settled, x, AccountId) = GroupTotal(FreeBalance, x, AccountId)
          /\ GroupTotal(settled, x, Spendable) \in Nat
          /\ GroupTotal(settled, x, Spendable) + (IF x = a THEN total ELSE 0)
                 = GroupTotal(FreeBalance, x, Spendable) + (IF x = c THEN pledge ELSE 0)
          /\ settled[x][PawnShop] \in Nat
          /\ settled[x][PawnShop] + (IF x = c THEN pledge ELSE 0)
                 = FreeBalance[x][PawnShop] + (IF x = a THEN total ELSE 0)
          /\ settled[x][ProfitPool] = FreeBalance[x][ProfitPool]

\* The two payments of repay.
LEMMA SettleEffect ==
    ASSUME AssetsTypeOK, IssuanceIsHeld, NEW a \in AssetId, NEW c \in AssetId, NEW who \in Borrower,
           NEW total \in Balance, NEW pledge \in Balance,
           total <= FreeBalance[a][who], pledge <= FreeBalance[c][PawnShop],
           NEW repaid, repaid = Moved(FreeBalance, a, who, PawnShop, total),
           NEW settled, settled = Moved(repaid, c, PawnShop, who, pledge)
    PROVE  SettledOver(settled, a, c, total, pledge)
<1>1. /\ who \in Spendable /\ who \in AccountId /\ PawnShop \in AccountId /\ PawnShop \notin Spendable
      /\ who # PawnShop /\ ProfitPool \in AccountId /\ who # ProfitPool /\ PawnShop # ProfitPool
      /\ total \in Nat /\ pledge \in Nat /\ MaxBalance \in Nat
  BY GenesisNumbers, MaxBalanceAssumption DEF Spendable, Balance
<1>2. \A x \in AssetId :
         /\ FreeBalance \in Ledger /\ TotalIssuance[x] \in Nat /\ TotalIssuance[x] <= MaxBalance
         /\ GroupTotal(FreeBalance, x, AccountId) <= MaxBalance
         /\ GroupTotal(FreeBalance, x, AccountId) \in Nat
         /\ \A w \in AccountId : FreeBalance[x][w] \in Nat /\ FreeBalance[x][w] <= TotalIssuance[x]
  BY <1>1, LedgerBounds
<1>3. PaidOver(FreeBalance, repaid, a, who, PawnShop, total)
  BY <1>1, <1>2, PaymentEffect
<1>4. \A x \in AssetId :
         /\ repaid \in Ledger
         /\ GroupTotal(repaid, x, AccountId) = GroupTotal(FreeBalance, x, AccountId)
         /\ GroupTotal(repaid, x, Spendable) \in Nat /\ GroupTotal(FreeBalance, x, Spendable) \in Nat
         /\ GroupTotal(repaid, x, Spendable) + (IF x = a THEN total ELSE 0)
                = GroupTotal(FreeBalance, x, Spendable)
         /\ repaid[x][PawnShop] \in Nat
         /\ repaid[x][PawnShop] = FreeBalance[x][PawnShop] + (IF x = a THEN total ELSE 0)
         /\ repaid[x][ProfitPool] = FreeBalance[x][ProfitPool]
  <2>1. ASSUME NEW x \in AssetId
        PROVE  /\ GroupTotal(repaid, x, Spendable) \in Nat /\ GroupTotal(FreeBalance, x, Spendable) \in Nat
               /\ GroupTotal(repaid, x, Spendable) + (IF x = a THEN total ELSE 0)
                      = GroupTotal(FreeBalance, x, Spendable)
    BY <1>1, <1>3 DEF PaidOver
  <2>2. ASSUME NEW x \in AssetId
        PROVE  /\ repaid[x][PawnShop] \in Nat
               /\ repaid[x][PawnShop] = FreeBalance[x][PawnShop] + (IF x = a THEN total ELSE 0)
               /\ repaid[x][ProfitPool] = FreeBalance[x][ProfitPool]
    BY <1>1, <1>3 DEF PaidOver
  <2> QED BY <1>3, <2>1, <2>2 DEF PaidOver
<1>5. PaidOver(repaid, settled, c, PawnShop, who, pledge)
  <2>1. pledge <= repaid[c][PawnShop]
    BY <1>1, <1>2, <1>4
  <2> QED BY <1>1, <1>2, <1>4, <2>1, PaymentEffect
<1>6. \A x \in AssetId :
         /\ GroupTotal(settled, x, AccountId) = GroupTotal(FreeBalance, x, AccountId)
         /\ GroupTotal(settled, x, Spendable) \in Nat
         /\ GroupTotal(settled, x, Spendable) + (IF x = a THEN total ELSE 0)
                = GroupTotal(FreeBalance, x, Spendable) + (IF x = c THEN pledge ELSE 0)
         /\ settled[x][PawnShop] \in Nat
         /\ settled[x][PawnShop] + (IF x = c THEN pledge ELSE 0)
                = FreeBalance[x][PawnShop] + (IF x = a THEN total ELSE 0)
         /\ settled[x][ProfitPool] = FreeBalance[x][ProfitPool]
  <2>1. ASSUME NEW x \in AssetId
        PROVE  /\ GroupTotal(settled, x, Spendable) \in Nat
               /\ GroupTotal(settled, x, Spendable)
                      = GroupTotal(repaid, x, Spendable) + (IF x = c THEN pledge ELSE 0)
    BY <1>1, <1>5 DEF PaidOver
  <2>2. ASSUME NEW x \in AssetId
        PROVE  /\ settled[x][PawnShop] \in Nat
               /\ settled[x][PawnShop] + (IF x = c THEN pledge ELSE 0) = repaid[x][PawnShop]
               /\ settled[x][ProfitPool] = repaid[x][ProfitPool]
    BY <1>1, <1>5 DEF PaidOver
  <2>3. \A x \in AssetId : settled \in Ledger /\ GroupTotal(settled, x, AccountId) = GroupTotal(repaid, x, AccountId)
    BY <1>5 DEF PaidOver
  <2> QED BY <1>1, <1>4, <2>1, <2>2, <2>3
<1>7. settled \in Ledger
  BY <1>5 DEF PaidOver
<1> QED BY <1>6, <1>7 DEF SettledOver

\* repay burns what was paid if it may.
LEMMA RepayEffect ==
    ASSUME AssetsTypeOK, IssuanceIsHeld, NEW a \in AssetId, NEW c \in AssetId, NEW who \in Borrower,
           NEW total \in Balance, NEW pledge \in Balance, NEW burnt \in BOOLEAN,
           total <= FreeBalance[a][who], pledge <= FreeBalance[c][PawnShop],
           NEW settled, SettledOver(settled, a, c, total, pledge),
           burnt => /\ BurntFrom(settled, FreeBalance', a, total)
                    /\ TotalIssuance' = [TotalIssuance EXCEPT ![a] = @ - total],
           ~burnt => FreeBalance' = settled /\ TotalIssuance' = TotalIssuance
    PROVE  RepayLedger(a, c, total, pledge, burnt)
<1>1. /\ who \in AccountId /\ PawnShop \in AccountId /\ total \in Nat /\ pledge \in Nat /\ MaxBalance \in Nat
  BY GenesisNumbers, MaxBalanceAssumption DEF Balance
<1>2. \A x \in AssetId :
         /\ TotalIssuance[x] \in Nat /\ TotalIssuance[x] <= MaxBalance
         /\ GroupTotal(FreeBalance, x, AccountId) \in Nat
         /\ \A w \in AccountId : FreeBalance[x][w] \in Nat /\ FreeBalance[x][w] <= TotalIssuance[x]
  BY <1>1, LedgerBounds
<1>3. /\ TotalIssuance' \in [AssetId -> Balance]
      /\ \A x \in AssetId : TotalIssuance'[x] + (IF burnt /\ x = a THEN total ELSE 0) = TotalIssuance[x]
  <2>1. CASE burnt
    <3> DEFINE issued == TotalIssuance[a] - total
    <3>1. issued \in Balance /\ issued + total = TotalIssuance[a]
      <4>1. FreeBalance[a][who] \in Nat /\ FreeBalance[a][who] <= TotalIssuance[a]
        BY <1>1, <1>2
      <4> QED BY <1>1, <1>2, <4>1 DEF Balance
    <3>2. TotalIssuance' = [TotalIssuance EXCEPT ![a] = issued] /\ TotalIssuance \in [AssetId -> Balance]
      BY <2>1 DEF AssetsTypeOK
    <3> HIDE DEF issued
    <3> QED BY <1>1, <1>2, <2>1, <3>1, <3>2
  <2>2. CASE ~burnt
    BY <1>2, <2>2 DEF AssetsTypeOK
  <2> QED BY <2>1, <2>2
<1>4. CASE ~burnt
  <2>1. FreeBalance' = settled
    BY <1>4
  <2>2. SettledOver(FreeBalance', a, c, total, pledge)
    BY <2>1
  <2>3. ASSUME NEW x \in AssetId
        PROVE  /\ GroupTotal(FreeBalance', x, AccountId) + 0 = GroupTotal(FreeBalance, x, AccountId)
               /\ FreeBalance'[x][PawnShop] \in Nat
               /\ FreeBalance'[x][PawnShop] + (IF x = c THEN pledge ELSE 0) + 0
                      = FreeBalance[x][PawnShop] + (IF x = a THEN total ELSE 0)
    <3>1. /\ GroupTotal(FreeBalance', x, AccountId) = GroupTotal(FreeBalance, x, AccountId)
          /\ FreeBalance'[x][PawnShop] \in Nat
          /\ FreeBalance'[x][PawnShop] + (IF x = c THEN pledge ELSE 0)
                 = FreeBalance[x][PawnShop] + (IF x = a THEN total ELSE 0)
      BY <2>2 DEF SettledOver
    <3>2. PICK p : p = FreeBalance'[x][PawnShop]
      OBVIOUS
    <3>3. p + (IF x = c THEN pledge ELSE 0) + 0 = p + (IF x = c THEN pledge ELSE 0)
      BY <1>1, <3>1, <3>2
    <3> QED BY <1>2, <3>1, <3>2, <3>3
  <2>4. \A x \in AssetId : TotalIssuance'[x] + 0 = TotalIssuance[x]
    BY <1>3, <1>4
  <2> QED BY <1>3, <1>4, <2>2, <2>3, <2>4 DEF RepayLedger, SettledOver
<1>5. CASE burnt
  <2>1. BurntFrom(settled, FreeBalance', a, total)
    BY <1>5
  <2>2. ASSUME NEW x \in AssetId
        PROVE  /\ GroupTotal(FreeBalance', x, AccountId) + (IF x = a THEN total ELSE 0)
                      = GroupTotal(FreeBalance, x, AccountId)
               /\ GroupTotal(FreeBalance', x, Spendable) \in Nat
               /\ GroupTotal(FreeBalance', x, Spendable) + (IF x = a THEN total ELSE 0)
                      = GroupTotal(FreeBalance, x, Spendable) + (IF x = c THEN pledge ELSE 0)
    BY <2>1 DEF BurntFrom, SettledOver
  <2>3. ASSUME NEW x \in AssetId
        PROVE  /\ FreeBalance'[x][PawnShop] \in Nat
               /\ FreeBalance'[x][PawnShop] + (IF x = c THEN pledge ELSE 0) + (IF x = a THEN total ELSE 0)
                      = FreeBalance[x][PawnShop] + (IF x = a THEN total ELSE 0)
               /\ FreeBalance'[x][ProfitPool] = FreeBalance[x][ProfitPool]
    <3>1. /\ FreeBalance'[x][PawnShop] \in Nat
          /\ FreeBalance'[x][PawnShop] + (IF x = a THEN total ELSE 0) = settled[x][PawnShop]
          /\ FreeBalance'[x][ProfitPool] = settled[x][ProfitPool]
      BY <2>1 DEF BurntFrom
    <3>2. /\ settled[x][PawnShop] + (IF x = c THEN pledge ELSE 0)
                 = FreeBalance[x][PawnShop] + (IF x = a THEN total ELSE 0)
          /\ settled[x][ProfitPool] = FreeBalance[x][ProfitPool]
      BY DEF SettledOver
    <3>3. PICK p0, p1, p2 : p0 = FreeBalance[x][PawnShop] /\ p1 = settled[x][PawnShop]
                            /\ p2 = FreeBalance'[x][PawnShop]
      OBVIOUS
    <3>4. p2 \in Nat /\ p2 + (IF x = a THEN total ELSE 0) = p1
          /\ p1 + (IF x = c THEN pledge ELSE 0) = p0 + (IF x = a THEN total ELSE 0)
      BY <3>1, <3>2, <3>3
    <3>5. p2 + (IF x = c THEN pledge ELSE 0) + (IF x = a THEN total ELSE 0) = p0 + (IF x = a THEN total ELSE 0)
      BY <1>1, <3>4
    <3> QED BY <3>1, <3>2, <3>3, <3>5
  <2>4. FreeBalance' \in Ledger
    BY <2>1 DEF BurntFrom
  <2> QED BY <1>3, <1>5, <2>2, <2>3, <2>4 DEF RepayLedger
<1> QED BY <1>4, <1>5

\* repay: debt and pledge leave the books as they leave the ledger.
LEMMA RepayKeepsLedger ==
    ASSUME LoanLedgerInv, NEW who \in Borrower, NEW id \in LoanId, repay(who, id)
    PROVE  LedgerPart'
<1> DEFINE a == PackageOf(Loans[id]).loan_asset_id
           c == PackageOf(Loans[id]).collateral_asset_id
           total == Loans[id].loan_balance_total
           pledge == Loans[id].collateral_balance_available
           burnt == check_permission(a, rootKey, "burn")
           repaid == Moved(FreeBalance, a, who, PawnShop, total)
           settled == Moved(repaid, c, PawnShop, who, pledge)
<1>1. LoanIndexInv /\ AssetsTypeOK /\ IssuanceIsHeld /\ LedgerCovers
  BY DEF LoanLedgerInv
<1>2. /\ id \in LoanIds /\ total <= FreeBalance[a][who] /\ pledge <= FreeBalance[c][PawnShop]
      /\ TotalLoan' = Wrap(TotalLoan - total)
      /\ TotalCollateral' = Wrap(TotalCollateral - pledge)
      /\ Loans' = [Loans EXCEPT ![id] = NoLoan]
      /\ UNCHANGED <<ledgerRules, LoanPackages, TotalProfit, switched>>
  <2>1. a \in AssetId /\ c \in AssetId /\ total \in Nat /\ pledge \in Nat /\ id \in LoanIds
    BY <1>1, StoredLoan, MaxBalanceAssumption DEF repay, Balance
  <2>2. FreeBalance[a][who] \in Nat /\ FreeBalance[c][PawnShop] \in Nat
    BY <1>1, <2>1, LedgerBounds, GenesisNumbers
  <2>3. FreeBalance[a][who] >= total /\ FreeBalance[c][PawnShop] >= pledge
    BY DEF repay
  <2>4. total <= FreeBalance[a][who] /\ pledge <= FreeBalance[c][PawnShop]
    <3> HIDE DEF a, c, total, pledge
    <3> QED BY <2>1, <2>2, <2>3
  <2> QED BY <2>4 DEF repay, packageVars
<1>3. /\ FreeBalance' = IF burnt THEN [settled EXCEPT ![a][PawnShop] = @ - total] ELSE settled
      /\ TotalIssuance' = IF burnt THEN [TotalIssuance EXCEPT ![a] = @ - total] ELSE TotalIssuance
  BY DEF repay, Transferred
<1>4. /\ a \in AssetId /\ c \in AssetId /\ total \in Balance /\ pledge \in Balance
      /\ total \in Nat /\ pledge \in Nat /\ burnt \in BOOLEAN /\ MaxBalance \in Nat
  BY <1>1, <1>2, StoredLoan, MaxBalanceAssumption DEF Balance, check_permission
<1>5. RepayLedger(a, c, total, pledge, burnt)
  <2>1. PICK p, q : p = repaid /\ q = settled
    OBVIOUS
  <2>2. p = Moved(FreeBalance, a, who, PawnShop, total)
    BY <2>1
  <2>3. q = Moved(p, c, PawnShop, who, pledge)
    BY <2>1
  <2>4. FreeBalance' = IF burnt THEN [q EXCEPT ![a][PawnShop] = @ - total] ELSE q
    BY <1>3, <2>1
  <2>5. TotalIssuance' = IF burnt THEN [TotalIssuance EXCEPT ![a] = @ - total] ELSE TotalIssuance
    BY <1>3
  <2> HIDE DEF a, c, total, pledge, burnt, repaid, settled
  <2>6. SettledOver(q, a, c, total, pledge)
    BY <1>1, <1>2, <1>4, <2>2, <2>3, SettleEffect
  <2>7. ASSUME burnt
        PROVE  /\ BurntFrom(q, FreeBalance', a, total)
               /\ TotalIssuance' = [TotalIssuance EXCEPT ![a] = @ - total]
    <3>1. q \in Ledger /\ total <= q[a][PawnShop]
      <4>1. /\ q[a][PawnShop] \in Nat
            /\ q[a][PawnShop] + (IF a = c THEN pledge ELSE 0)
                   = FreeBalance[a][PawnShop] + (IF a = a THEN total ELSE 0)
            /\ q \in Ledger
        BY <1>4, <2>6 DEF SettledOver
      <4>2. FreeBalance[a][PawnShop] \in Nat /\ FreeBalance[c][PawnShop] \in Nat
        BY <1>1, <1>4, LedgerBounds, GenesisNumbers
      <4> QED BY <1>2, <1>4, <4>1, <4>2
    <3>2. FreeBalance' = [q EXCEPT ![a][PawnShop] = @ - total]
      BY <2>4, <2>7
    <3> QED BY <1>4, <2>5, <2>7, <3>1, <3>2, BurnEffect
  <2>8. ~burnt => FreeBalance' = q /\ TotalIssuance' = TotalIssuance
    BY <2>4, <2>5
  <2> QED BY <1>1, <1>2, <1>4, <2>6, <2>7, <2>8, RepayEffect
<1> HIDE DEF burnt
<1>6. \A x \in AssetId : BooksDiffer(Loans', x, a, c, total, pledge, 0, 0)
  BY <1>1, <1>2, BooksWithout
<1>7. \A x \in AssetId :
         /\ TotalIssuance[x] \in Nat /\ GroupTotal(FreeBalance, x, AccountId) \in Nat
         /\ GroupTotal(FreeBalance, x, Spendable) \in Nat
         /\ \A w \in AccountId : FreeBalance[x][w] \in Nat
  BY <1>1, LedgerBounds
<1>8. AssetsTypeOK' /\ IssuanceIsHeld'
  <2>1. \A x \in AssetId : GroupTotal(FreeBalance', x, AccountId) + TotalIssuance[x]
                               = GroupTotal(FreeBalance, x, AccountId) + TotalIssuance'[x]
    <3> TAKE x \in AssetId
    <3>1. FreeBalance' \in Ledger /\ AccountId \in SUBSET AccountId
      BY <1>5 DEF RepayLedger
    <3>2. GroupTotal(FreeBalance', x, AccountId) \in Nat
      BY <3>1, GroupBounds
    <3>3. TotalIssuance'[x] \in Nat
      BY <1>5, MaxBalanceAssumption DEF RepayLedger, Balance
    <3> HIDE DEF a, c, total, pledge
    <3> QED BY <1>4, <1>5, <1>7, <3>2, <3>3 DEF RepayLedger
  <2> QED BY <1>1, <1>2, <1>5, <2>1, LedgerFollows DEF RepayLedger
<1>9. \A x \in AssetId :
         /\ total <= GroupTotal(FreeBalance, a, Spendable)
         /\ x = a => total <= DebtIn(Loans, LoanPackages, x)
         /\ x = c => pledge <= PledgedIn(Loans, LoanPackages, x)
  <2>1. FreeBalance[a][who] <= GroupTotal(FreeBalance, a, Spendable) /\ FreeBalance[a][who] \in Nat
    BY <1>1, <1>4, LedgerBounds, GenesisNumbers
  <2>2. total <= GroupTotal(FreeBalance, a, Spendable)
    <3> HIDE DEF a, total
    <3> QED BY <1>2, <1>4, <1>7, <2>1
  <2> QED BY <1>1, <1>2, <2>2, LoanParts
<1>10. LedgerCovers'
  <2>1. ASSUME NEW x \in AssetId
        PROVE  /\ DebtIn(Loans', LoanPackages, x) <= TotalIssuance'[x]
               /\ PledgedIn(Loans', LoanPackages, x) + GroupTotal(FreeBalance', x, Spendable)
                      <= TotalIssuance'[x]
    <3>1. /\ DebtIn(Loans, LoanPackages, x) <= TotalIssuance[x]
          /\ PledgedIn(Loans, LoanPackages, x) + GroupTotal(FreeBalance, x, Spendable)
                 <= TotalIssuance[x]
      BY <1>1 DEF LedgerCovers
    <3>2. /\ TotalIssuance'[x] \in Nat
          /\ TotalIssuance'[x] + (IF burnt /\ x = a THEN total ELSE 0) = TotalIssuance[x]
          /\ GroupTotal(FreeBalance', x, Spendable) \in Nat
          /\ GroupTotal(FreeBalance', x, Spendable) + (IF x = a THEN total ELSE 0)
                 = GroupTotal(FreeBalance, x, Spendable) + (IF x = c THEN pledge ELSE 0)
      BY <1>5, MaxBalanceAssumption DEF RepayLedger, Balance
    <3>3. BooksDiffer(Loans', x, a, c, total, pledge, 0, 0)
      BY <1>6
    <3> HIDE DEF a, c, total, pledge
    <3> QED BY <1>4, <1>7, <3>1, <3>2, <3>3 DEF BooksDiffer
  <2> QED BY <1>2, <2>1 DEF LedgerCovers
<1>11. ASSUME ~switched' PROVE TotalsCover'
  <2>1. /\ ~switched /\ TotalsCover /\ c = GenesisConfig.CollateralAssetId
        /\ a = GenesisConfig.LoanAssetId
    BY <1>2, <1>11, AssetsOfLoan DEF LoanLedgerInv
  <2>2. /\ PledgedIn(Loans, LoanPackages, c) <= TotalCollateral
        /\ TotalCollateral <= FreeBalance[c][PawnShop]
        /\ DebtIn(Loans, LoanPackages, a) <= TotalLoan
        /\ TotalLoan + LoanAssetEndowed <= TotalIssuance[a]
        /\ TotalProfit + Endowed[a][ProfitPool] <= FreeBalance[a][ProfitPool]
    BY <2>1 DEF TotalsCover
  <2>3. /\ TotalCollateral \in Nat /\ TotalLoan \in Nat /\ TotalCollateral <= MaxBalance
        /\ TotalLoan <= MaxBalance /\ LoanAssetEndowed \in Nat /\ PawnShop \in AccountId
    BY <1>1, GenesisNumbers, TotalsAreNat
  <2>4. /\ BooksDiffer(Loans', a, a, c, total, pledge, 0, 0)
        /\ BooksDiffer(Loans', c, a, c, total, pledge, 0, 0)
        /\ total <= DebtIn(Loans, LoanPackages, a) /\ pledge <= PledgedIn(Loans, LoanPackages, c)
    BY <1>4, <1>6, <1>9
  <2>5. /\ TotalIssuance'[a] \in Nat
        /\ TotalIssuance'[a] + (IF burnt /\ a = a THEN total ELSE 0) = TotalIssuance[a]
        /\ FreeBalance'[c][PawnShop] \in Nat
        /\ FreeBalance'[c][PawnShop] + (IF c = c THEN pledge ELSE 0)
                   + (IF burnt /\ c = a THEN total ELSE 0)
               = FreeBalance[c][PawnShop] + (IF c = a THEN total ELSE 0)
        /\ FreeBalance'[a][ProfitPool] = FreeBalance[a][ProfitPool]
    <3> HIDE DEF a, c, total, pledge
    <3> QED BY <1>4, <1>5, MaxBalanceAssumption DEF RepayLedger, Balance
  <2> HIDE DEF a, c, total, pledge
  <2>6. /\ DebtIn(Loans', LoanPackages, a) + total = DebtIn(Loans, LoanPackages, a)
        /\ PledgedIn(Loans', LoanPackages, c) + pledge = PledgedIn(Loans, LoanPackages, c)
        /\ DebtIn(Loans', LoanPackages, a) \in Nat /\ PledgedIn(Loans', LoanPackages, c) \in Nat
        /\ DebtIn(Loans, LoanPackages, a) \in Nat /\ PledgedIn(Loans, LoanPackages, c) \in Nat
    BY <1>4, <2>4 DEF BooksDiffer
  <2>7. TotalLoan - total \in Balance /\ TotalCollateral - pledge \in Balance
    BY <1>4, <2>2, <2>3, <2>4, <2>6 DEF Balance
  <2>8. TotalLoan' = TotalLoan - total /\ TotalCollateral' = TotalCollateral - pledge
    BY <1>2, <2>7, WrapFits
  <2>9. FreeBalance[c][PawnShop] \in Nat /\ TotalIssuance[a] \in Nat
    BY <1>4, <1>7, <2>3
  <2>10. /\ PledgedIn(Loans', LoanPackages, c) <= TotalCollateral'
         /\ TotalCollateral' <= FreeBalance'[c][PawnShop]
         /\ DebtIn(Loans', LoanPackages, a) <= TotalLoan'
         /\ TotalLoan' + LoanAssetEndowed <= TotalIssuance'[a]
    BY <1>4, <2>2, <2>3, <2>5, <2>6, <2>8, <2>9
  <2> QED BY <1>2, <2>1, <2>2, <2>5, <2>10 DEF TotalsCover
<1> QED BY <1>8, <1>10, <1>11 DEF LedgerPart

\* What a successful auction does to the balances.
SoldOver(g, a, total) ==
    /\ g \in Ledger
    /\ \A x \in AssetId :
          /\ GroupTotal(g, x, AccountId) = GroupTotal(FreeBalance, x, AccountId)
          /\ GroupTotal(g, x, Spendable) \in Nat
          /\ GroupTotal(g, x, Spendable) <= GroupTotal(FreeBalance, x, Spendable)
          /\ g[x][PawnShop] \in Nat /\ g[x][ProfitPool] \in Nat
          /\ g[x][PawnShop] = FreeBalance[x][PawnShop] + (IF x = a THEN total ELSE 0)
          /\ g[x][ProfitPool] >= FreeBalance[x][ProfitPool]

\* The three payments of mark_liquidated.
LEMMA AuctionEffect ==
    ASSUME AssetsTypeOK, IssuanceIsHeld, NEW a \in AssetId, NEW who \in Spendable,
           NEW to \in Spendable, NEW total \in Balance, NEW penalty \in Balance,
           NEW rest \in Balance, total + penalty + rest <= FreeBalance[a][who],
           NEW p, p = Moved(FreeBalance, a, who, PawnShop, total),
           NEW q, q = Moved(p, a, who, ProfitPool, penalty),
           NEW g, g = Moved(q, a, who, to, rest)
    PROVE  SoldOver(g, a, total)
<1>1. /\ who \in AccountId /\ to \in AccountId /\ PawnShop \in AccountId /\ ProfitPool \in AccountId
      /\ PawnShop # ProfitPool /\ who # PawnShop /\ who # ProfitPool /\ to # PawnShop
      /\ to # ProfitPool /\ PawnShop \notin Spendable /\ ProfitPool \notin Spendable
      /\ total \in Nat /\ penalty \in Nat /\ rest \in Nat
  BY GenesisNumbers, MaxBalanceAssumption DEF Spendable, Balance
<1>2. /\ FreeBalance \in Ledger /\ GroupTotal(FreeBalance, a, AccountId) <= MaxBalance
      /\ FreeBalance[a][who] \in Nat
  BY <1>1, LedgerBounds
<1>3. PaidOver(FreeBalance, p, a, who, PawnShop, total)
  <2>1. total <= FreeBalance[a][who]
    BY <1>1, <1>2
  <2> QED BY <1>1, <1>2, <2>1, PaymentEffect
<1>4. /\ p \in Ledger /\ GroupTotal(p, a, AccountId) <= MaxBalance
      /\ p[a][who] \in Nat /\ p[a][who] + total = FreeBalance[a][who]
  BY <1>1, <1>2, <1>3 DEF PaidOver
<1>5. PaidOver(p, q, a, who, ProfitPool, penalty)
  <2>1. penalty <= p[a][who]
    BY <1>1, <1>2, <1>4
  <2> QED BY <1>1, <1>4, <2>1, PaymentEffect
<1>6. /\ q \in Ledger /\ GroupTotal(q, a, AccountId) <= MaxBalance
      /\ q[a][who] \in Nat /\ q[a][who] + penalty = p[a][who]
  BY <1>1, <1>4, <1>5 DEF PaidOver
<1>7. PaidOver(q, g, a, who, to, rest)
  <2>1. rest <= q[a][who]
    BY <1>1, <1>2, <1>4, <1>6
  <2> QED BY <1>1, <1>6, <2>1, PaymentEffect
<1>8. ASSUME NEW x \in AssetId
      PROVE  /\ GroupTotal(g, x, AccountId) = GroupTotal(FreeBalance, x, AccountId)
             /\ GroupTotal(g, x, Spendable) \in Nat
             /\ GroupTotal(g, x, Spendable) <= GroupTotal(FreeBalance, x, Spendable)
  <2>1. /\ GroupTotal(FreeBalance, x, Spendable) \in Nat /\ GroupTotal(p, x, Spendable) \in Nat
        /\ GroupTotal(p, x, AccountId) = GroupTotal(FreeBalance, x, AccountId)
        /\ GroupTotal(p, x, Spendable) + (IF x = a /\ who \in Spendable THEN total ELSE 0)
               = GroupTotal(FreeBalance, x, Spendable)
                     + (IF x = a /\ PawnShop \in Spendable THEN total ELSE 0)
    BY <1>3 DEF PaidOver
  <2>2. /\ GroupTotal(q, x, Spendable) \in Nat
        /\ GroupTotal(q, x, AccountId) = GroupTotal(p, x, AccountId)
        /\ GroupTotal(q, x, Spendable) + (IF x = a /\ who \in Spendable THEN penalty ELSE 0)
               = GroupTotal(p, x, Spendable)
                     + (IF x = a /\ ProfitPool \in Spendable THEN penalty ELSE 0)
    BY <1>5 DEF PaidOver
  <2>3. /\ GroupTotal(g, x, Spendable) \in Nat
        /\ GroupTotal(g, x, AccountId) = GroupTotal(q, x, AccountId)
        /\ GroupTotal(g, x, Spendable) + (IF x = a /\ who \in Spendable THEN rest ELSE 0)
               = GroupTotal(q, x, Spendable) + (IF x = a /\ to \in Spendable THEN rest ELSE 0)
    BY <1>7 DEF PaidOver
  <2>4. GroupTotal(p, x, Spendable) <= GroupTotal(FreeBalance, x, Spendable)
    BY <1>1, <2>1
  <2>5. GroupTotal(q, x, Spendable) <= GroupTotal(p, x, Spendable)
    BY <1>1, <2>1, <2>2
  <2>6. GroupTotal(g, x, Spendable) = GroupTotal(q, x, Spendable)
    BY <1>1, <2>2, <2>3
  <2> QED BY <2>1, <2>2, <2>3, <2>4, <2>5, <2>6
<1>9. ASSUME NEW x \in AssetId
      PROVE  /\ g[x][PawnShop] \in Nat /\ g[x][ProfitPool] \in Nat
             /\ g[x][PawnShop] = FreeBalance[x][PawnShop] + (IF x = a THEN total ELSE 0)
             /\ g[x][ProfitPool] >= FreeBalance[x][ProfitPool]
  <2>1. /\ FreeBalance[x][PawnShop] \in Nat /\ FreeBalance[x][ProfitPool] \in Nat
        /\ p[x][PawnShop] = FreeBalance[x][PawnShop] + (IF x = a THEN total ELSE 0)
        /\ p[x][ProfitPool] = FreeBalance[x][ProfitPool]
    BY <1>1, <1>3 DEF PaidOver
  <2>2. /\ p[x][PawnShop] \in Nat /\ p[x][ProfitPool] \in Nat
        /\ q[x][PawnShop] = p[x][PawnShop]
        /\ q[x][ProfitPool] = p[x][ProfitPool] + (IF x = a THEN penalty ELSE 0)
    BY <1>1, <1>5 DEF PaidOver
  <2>3. /\ q[x][PawnShop] \in Nat /\ q[x][ProfitPool] \in Nat
        /\ g[x][PawnShop] \in Nat /\ g[x][ProfitPool] \in Nat
        /\ g[x][PawnShop] = q[x][PawnShop] /\ g[x][ProfitPool] = q[x][ProfitPool]
    BY <1>1, <1>7 DEF PaidOver
  <2> QED BY <1>1, <2>1, <2>2, <2>3
<1> QED BY <1>7, <1>8, <1>9 DEF SoldOver, PaidOver

\* A share of at most the whole is at most the whole.
LEMMA ShareFits ==
    ASSUME NEW n \in Nat, NEW k \in Nat, NEW d \in Nat \ {0}, k <= d, NEW m \in Nat, m <= n * k
    PROVE  m \div d \in Nat /\ m \div d <= n
<1>1. n * k \in Nat /\ n * d \in Nat /\ n * k <= n * d
  OBVIOUS
<1>2. m <= n * d
  BY <1>1
<1> QED BY <1>2

\* Wrapping around makes no number greater.
LEMMA WrapAtMost == \A k \in Nat : Wrap(k) \in Nat /\ Wrap(k) <= k
<1> TAKE k \in Nat
<1> DEFINE s == MaxBalance + 1
<1>1. s \in Nat \ {0}
  BY MaxBalanceAssumption
<1> HIDE DEF s
<1>2. k % s \in Nat /\ k % s <= k
  BY <1>1
<1> QED BY <1>2 DEF Wrap, s

\* The penalty of mark_liquidated is at most what it is taken of.
LEMMA PenaltyFits ==
    ASSUME NEW n \in Balance
    PROVE  /\ Wrap(n * LiquidationPenalty) \div LTV_PREC \in Balance
           /\ Wrap(n * LiquidationPenalty) \div LTV_PREC <= n
<1>1. /\ n \in Nat /\ n <= MaxBalance /\ MaxBalance \in Nat /\ LTV_PREC \in Nat \ {0}
      /\ LiquidationPenalty \in Nat /\ LiquidationPenalty <= LTV_PREC
  BY LoanAssumption, MaxBalanceAssumption DEF Balance
<1>2. n * LiquidationPenalty \in Nat
  BY <1>1
<1>3. \A k \in Nat : Wrap(k) \in Nat /\ Wrap(k) <= k
  BY WrapAtMost
<1>4. /\ Wrap(n * LiquidationPenalty) \div LTV_PREC \in Nat
      /\ Wrap(n * LiquidationPenalty) \div LTV_PREC <= n
  <2> DEFINE m == Wrap(n * LiquidationPenalty)
  <2>1. m \in Nat /\ m <= n * LiquidationPenalty
    BY <1>2, <1>3
  <2> HIDE DEF m
  <2>2. m \div LTV_PREC \in Nat /\ m \div LTV_PREC <= n
    BY <1>1, <2>1, ShareFits
  <2> QED BY <2>2 DEF m
<1> QED BY <1>1, <1>4 DEF Balance

\* mark_liquidated: the loan leaves the books, its collateral stays in the
\* pawn shop, and its debt is paid into it.
LEMMA MarkLiquidatedKeepsLedger ==
    ASSUME LoanLedgerInv, NEW who \in AccountId, NEW id \in LoanId, NEW n \in AuctionBalance,
           mark_liquidated(who, id, n)
    PROVE  /\ LedgerPart'
           /\ FreeBalance'[PackageOf(Loans[id]).loan_asset_id][PawnShop]
                  = FreeBalance[PackageOf(Loans[id]).loan_asset_id][PawnShop]
                        + Loans[id].loan_balance_total
<1> DEFINE a == PackageOf(Loans[id]).loan_asset_id
           c == PackageOf(Loans[id]).collateral_asset_id
           total == Loans[id].loan_balance_total
           pledge == Loans[id].collateral_balance_available
           penalty == Wrap((n - total) * LiquidationPenalty) \div LTV_PREC
           p == Moved(FreeBalance, a, who, PawnShop, total)
           q == Moved(p, a, who, ProfitPool, penalty)
<1>1. LoanIndexInv /\ AssetsTypeOK /\ IssuanceIsHeld /\ LedgerCovers /\ Parties
  BY DEF LoanLedgerInv
<1>2. /\ id \in LoanIds /\ who = LiquidationAccount /\ FreeBalance[a][who] >= n /\ n >= total
      /\ Loans' = [Loans EXCEPT ![id] = NoLoan]
      /\ UNCHANGED <<ledgerRules, LoanPackages, TotalIssuance, TotalLoan, TotalCollateral,
                     TotalProfit, switched>>
  BY DEF mark_liquidated, packageVars, totalVars
<1>3. FreeBalance' = Moved(q, a, who, Loans[id].who, n - total - penalty)
  BY DEF mark_liquidated, Transferred
<1>4. /\ a \in AssetId /\ c \in AssetId /\ total \in Nat /\ pledge \in Nat /\ total \in Balance
      /\ n \in Balance /\ n \in Nat /\ MaxBalance \in Nat
      /\ who \in Spendable /\ Loans[id].who \in Spendable
  <2>1. who \in Spendable /\ Loans[id].who \in Spendable
    BY <1>1, <1>2, GenesisNumbers DEF Parties
  <2> QED BY <1>1, <1>2, <2>1, StoredLoan, LoanAssumption, MaxBalanceAssumption DEF Balance
<1>5. SoldOver(FreeBalance', a, total)
  <2>1. FreeBalance[a][who] \in Nat
    BY <1>1, <1>4, LedgerBounds
  <2>2. n - total \in Balance
    <3> HIDE DEF total
    <3> QED BY <1>2, <1>4 DEF Balance
  <2>3. penalty \in Balance /\ penalty <= n - total
    <3> HIDE DEF total
    <3> QED BY <2>2, PenaltyFits
  <2>4. PICK f, g : f = p /\ g = q
    OBVIOUS
  <2>5. f = Moved(FreeBalance, a, who, PawnShop, total)
    BY <2>4
  <2>6. g = Moved(f, a, who, ProfitPool, penalty)
    BY <2>4
  <2>7. FreeBalance' = Moved(g, a, who, Loans[id].who, n - total - penalty)
    BY <1>3, <2>4
  <2> HIDE DEF a, total, penalty, p, q
  <2>8. penalty \in Nat /\ n - total - penalty \in Balance /\ n - total - penalty \in Nat
    BY <1>4, <2>2, <2>3, MaxBalanceAssumption DEF Balance
  <2>9. total + penalty + (n - total - penalty) <= FreeBalance[a][who]
    BY <1>2, <1>4, <2>1, <2>8
  <2>10. PICK rest : rest = n - total - penalty
    OBVIOUS
  <2>11. rest \in Balance /\ total + penalty + rest <= FreeBalance[a][who]
    BY <2>8, <2>9, <2>10
  <2>12. FreeBalance' = Moved(g, a, who, Loans[id].who, rest)
    BY <2>7, <2>10
  <2> QED BY <1>1, <1>4, <2>3, <2>5, <2>6, <2>11, <2>12, AuctionEffect
<1>6. AssetsTypeOK' /\ IssuanceIsHeld'
  <2>1. FreeBalance' \in Ledger /\ TotalIssuance' \in [AssetId -> Balance]
    BY <1>1, <1>2, <1>5 DEF SoldOver, AssetsTypeOK
  <2>2. \A x \in AssetId : GroupTotal(FreeBalance', x, AccountId) + TotalIssuance[x]
                               = GroupTotal(FreeBalance, x, AccountId) + TotalIssuance'[x]
    BY <1>2, <1>5 DEF SoldOver
  <2> QED BY <1>1, <1>2, <2>1, <2>2, LedgerFollows
<1>7. ASSUME NEW x \in AssetId
      PROVE  /\ DebtIn(Loans', LoanPackages, x) <= DebtIn(Loans, LoanPackages, x)
             /\ PledgedIn(Loans', LoanPackages, x) <= PledgedIn(Loans, LoanPackages, x)
             /\ DebtIn(Loans', LoanPackages, x) \in Nat /\ DebtIn(Loans, LoanPackages, x) \in Nat
             /\ PledgedIn(Loans', LoanPackages, x) \in Nat
             /\ PledgedIn(Loans, LoanPackages, x) \in Nat
  <2>1. BooksDiffer(Loans', x, a, c, total, pledge, 0, 0)
    BY <1>1, <1>2, BooksWithout
  <2> HIDE DEF a, c, total, pledge
  <2> QED BY <1>4, <2>1 DEF BooksDiffer
<1>8. LedgerCovers'
  <2>1. ASSUME NEW x \in AssetId
        PROVE  /\ DebtIn(Loans', LoanPackages, x) <= TotalIssuance[x]
               /\ PledgedIn(Loans', LoanPackages, x) + GroupTotal(FreeBalance', x, Spendable)
                      <= TotalIssuance[x]
    <3>1. /\ DebtIn(Loans, LoanPackages, x) <= TotalIssuance[x]
          /\ PledgedIn(Loans, LoanPackages, x) + GroupTotal(FreeBalance, x, Spendable)
                 <= TotalIssuance[x]
      BY <1>1 DEF LedgerCovers
    <3>2. TotalIssuance[x] \in Nat /\ GroupTotal(FreeBalance, x, Spendable) \in Nat
      BY <1>1, LedgerBounds
    <3>3. /\ GroupTotal(FreeBalance', x, Spendable) \in Nat
          /\ GroupTotal(FreeBalance', x, Spendable) <= GroupTotal(FreeBalance, x, Spendable)
      BY <1>5 DEF SoldOver
    <3> QED BY <1>7, <3>1, <3>2, <3>3
  <2> QED BY <1>2, <2>1 DEF LedgerCovers
<1>9. ASSUME ~switched' PROVE TotalsCover'
  <2> DEFINE b == GenesisConfig.LoanAssetId
             d == GenesisConfig.CollateralAssetId
  <2>1. ~switched /\ TotalsCover
    BY <1>2, <1>9 DEF LoanLedgerInv
  <2>2. /\ PledgedIn(Loans, LoanPackages, d) <= TotalCollateral
        /\ TotalCollateral <= FreeBalance[d][PawnShop]
        /\ DebtIn(Loans, LoanPackages, b) <= TotalLoan
        /\ TotalLoan + LoanAssetEndowed <= TotalIssuance[b]
        /\ TotalProfit + Endowed[b][ProfitPool] <= FreeBalance[b][ProfitPool]
    BY <2>1 DEF TotalsCover
  <2>3. /\ b \in AssetId /\ d \in AssetId /\ TotalCollateral \in Nat /\ TotalLoan \in Nat
        /\ TotalProfit \in Nat /\ Endowed[b][ProfitPool] \in Nat
        /\ PawnShop \in AccountId /\ ProfitPool \in AccountId
    BY <1>1, GenesisNumbers, TotalsAreNat
  <2>4. FreeBalance[d][PawnShop] \in Nat /\ FreeBalance[b][ProfitPool] \in Nat
    BY <1>1, <2>3, LedgerBounds
  <2>5. /\ FreeBalance'[d][PawnShop] = FreeBalance[d][PawnShop] + (IF d = a THEN total ELSE 0)
        /\ FreeBalance'[b][ProfitPool] >= FreeBalance[b][ProfitPool]
        /\ FreeBalance'[b][ProfitPool] \in Nat
    BY <1>5, <2>3 DEF SoldOver
  <2> HIDE DEF a, total, b, d
  <2>6. /\ PledgedIn(Loans', LoanPackages, d) <= TotalCollateral
        /\ DebtIn(Loans', LoanPackages, b) <= TotalLoan
    BY <1>7, <2>2, <2>3
  <2>7. /\ TotalCollateral <= FreeBalance'[d][PawnShop]
        /\ TotalProfit + Endowed[b][ProfitPool] <= FreeBalance'[b][ProfitPool]
    BY <1>4, <2>2, <2>3, <2>4, <2>5
  <2> QED BY <1>2, <2>1, <2>2, <2>6, <2>7 DEF TotalsCover, b, d
<1>10. FreeBalance'[a][PawnShop] = FreeBalance[a][PawnShop] + total
  <2> HIDE DEF a, total
  <2> QED BY <1>4, <1>5 DEF SoldOver
<1> QED BY <1>6, <1>8, <1>9, <1>10 DEF LedgerPart

\* What an application that is not undone does to the balances.
AppliedOver(a, c, collateral, minted, interest) ==
    /\ FreeBalance' \in Ledger /\ TotalIssuance' \in [AssetId -> Balance]
    /\ \A x \in AssetId :
          /\ GroupTotal(FreeBalance', x, AccountId) + TotalIssuance[x]
                 = GroupTotal(FreeBalance, x, AccountId) + TotalIssuance'[x]
          /\ TotalIssuance'[x] = TotalIssuance[x] + (IF x = a THEN minted ELSE 0)
          /\ GroupTotal(FreeBalance', x, Spendable) \in Nat
          /\ GroupTotal(FreeBalance', x, Spendable) + (IF x = c THEN collateral ELSE 0)
                 + (IF x = a THEN interest ELSE 0)
                 = GroupTotal(FreeBalance, x, Spendable) + (IF x = a THEN minted ELSE 0)
          /\ FreeBalance'[x][PawnShop]
                 = FreeBalance[x][PawnShop] + (IF x = c THEN collateral ELSE 0)
          /\ FreeBalance'[x][ProfitPool]
                 = FreeBalance[x][ProfitPool] + (IF x = a THEN interest ELSE 0)

\* The collateral is paid in, then the loan is minted, or its interest alone.
LEMMA ApplyEffect ==
    ASSUME AssetsTypeOK, IssuanceIsHeld, NEW a \in AssetId, NEW c \in AssetId,
           NEW who \in Borrower, NEW collateral \in Balance, NEW minted \in Balance,
           NEW interest \in Balance, interest <= minted,
           NEW pledged, PaidOver(FreeBalance, pledged, c, who, PawnShop, collateral),
           LentOut(pledged, FreeBalance', a, minted, interest),
           TotalIssuance[a] + minted <= MaxBalance, TotalIssuance' = Issued(a, minted)
    PROVE  AppliedOver(a, c, collateral, minted, interest)
<1>1. /\ who \in Spendable /\ who \in AccountId /\ PawnShop \in AccountId /\ PawnShop \notin Spendable
      /\ who # PawnShop /\ ProfitPool \in AccountId /\ who # ProfitPool /\ PawnShop # ProfitPool
      /\ collateral \in Nat /\ minted \in Nat /\ interest \in Nat
  BY GenesisNumbers, MaxBalanceAssumption DEF Spendable, Balance
<1>2. /\ TotalIssuance' \in [AssetId -> Balance]
      /\ \A x \in AssetId : TotalIssuance'[x] = TotalIssuance[x] + (IF x = a THEN minted ELSE 0)
  BY IssuedEffect
<1>3. FreeBalance' \in Ledger
  BY DEF LentOut
<1>4. ASSUME NEW x \in AssetId
      PROVE  /\ GroupTotal(FreeBalance', x, AccountId) + TotalIssuance[x]
                    = GroupTotal(FreeBalance, x, AccountId) + TotalIssuance'[x]
             /\ GroupTotal(FreeBalance', x, Spendable) \in Nat
             /\ GroupTotal(FreeBalance', x, Spendable) + (IF x = c THEN collateral ELSE 0)
                    + (IF x = a THEN interest ELSE 0)
                    = GroupTotal(FreeBalance, x, Spendable) + (IF x = a THEN minted ELSE 0)
  <2>1. /\ GroupTotal(FreeBalance, x, AccountId) \in Nat /\ GroupTotal(FreeBalance, x, Spendable) \in Nat
        /\ GroupTotal(pledged, x, AccountId) = GroupTotal(FreeBalance, x, AccountId)
        /\ GroupTotal(pledged, x, Spendable) \in Nat
        /\ GroupTotal(pledged, x, Spendable) + (IF x = c /\ who \in Spendable THEN collateral ELSE 0)
               = GroupTotal(FreeBalance, x, Spendable)
                     + (IF x = c /\ PawnShop \in Spendable THEN collateral ELSE 0)
    BY DEF PaidOver
  <2>2. /\ GroupTotal(FreeBalance', x, AccountId)
               = GroupTotal(pledged, x, AccountId) + (IF x = a THEN minted ELSE 0)
        /\ GroupTotal(FreeBalance', x, Spendable)
               = GroupTotal(pledged, x, Spendable) + (IF x = a THEN minted - interest ELSE 0)
    BY DEF LentOut
  <2>3. /\ TotalIssuance[x] \in Nat
        /\ TotalIssuance'[x] = TotalIssuance[x] + (IF x = a THEN minted ELSE 0)
    BY <1>2, LedgerBounds
  <2>4. GroupTotal(pledged, x, Spendable) + (IF x = c THEN collateral ELSE 0)
            = GroupTotal(FreeBalance, x, Spendable)
    BY <1>1, <2>1
  <2>5. GroupTotal(FreeBalance', x, AccountId) + TotalIssuance[x]
            = GroupTotal(FreeBalance, x, AccountId) + TotalIssuance'[x]
    BY <1>1, <2>1, <2>2, <2>3
  <2> QED BY <1>1, <2>1, <2>2, <2>4, <2>5
<1>5. ASSUME NEW x \in AssetId
      PROVE  /\ FreeBalance'[x][PawnShop]
                    = FreeBalance[x][PawnShop] + (IF x = c THEN collateral ELSE 0)
             /\ FreeBalance'[x][ProfitPool]
                    = FreeBalance[x][ProfitPool] + (IF x = a THEN interest ELSE 0)
  <2>1. /\ pledged[x][PawnShop] = FreeBalance[x][PawnShop] + (IF x = c THEN collateral ELSE 0)
        /\ pledged[x][ProfitPool] = FreeBalance[x][ProfitPool]
    BY <1>1 DEF PaidOver
  <2>2. /\ FreeBalance'[x][PawnShop] = pledged[x][PawnShop]
        /\ FreeBalance'[x][ProfitPool]
               = pledged[x][ProfitPool] + (IF x = a THEN interest ELSE 0)
    BY DEF LentOut
  <2> QED BY <2>1, <2>2
<1> QED BY <1>2, <1>3, <1>4, <1>5 DEF AppliedOver

\* Both ways in which apply leaves the ledger changed.
LEMMA ApplyLedger ==
    ASSUME LoanLedgerInv, NEW who \in Borrower, NEW a \in AssetId, NEW c \in AssetId,
           NEW collateral \in Balance, NEW amount \in Balance, NEW interest \in Balance,
           collateral <= FreeBalance[c][who], MintFreeOk(a, ProfitPool, interest),
           NEW pledged, pledged = Moved(FreeBalance, c, who, PawnShop, collateral)
    PROVE  /\ /\ RestMinted(pledged, a, who, amount, interest)
              /\ FreeBalance' = LoanPaidOut(pledged, a, who, amount, interest)
              /\ TotalIssuance' = Issued(a, amount)
              => AppliedOver(a, c, collateral, amount, interest) /\ interest <= amount
           /\ /\ FreeBalance' = [pledged EXCEPT ![a][ProfitPool] = @ + interest]
              /\ TotalIssuance' = Issued(a, interest)
              => AppliedOver(a, c, collateral, interest, interest)
<1>1. AssetsTypeOK /\ IssuanceIsHeld
  BY DEF LoanLedgerInv
<1>2. /\ who \in AccountId /\ who # ProfitPool /\ PawnShop \in AccountId /\ ProfitPool \in AccountId
      /\ PawnShop # ProfitPool
  BY GenesisNumbers DEF Spendable
<1>3. FreeBalance \in Ledger /\ GroupTotal(FreeBalance, c, AccountId) <= MaxBalance
  BY <1>1, LedgerBounds
<1>4. PaidOver(FreeBalance, pledged, c, who, PawnShop, collateral)
  BY <1>2, <1>3, PaymentEffect
<1>5. pledged \in Ledger /\ pledged[a][ProfitPool] = FreeBalance[a][ProfitPool]
  BY <1>2, <1>4 DEF PaidOver
<1>6. /\ TotalIssuance[a] + interest <= MaxBalance
      /\ pledged[a][ProfitPool] + interest <= MaxBalance
  BY <1>5 DEF MintFreeOk
<1>7. ASSUME RestMinted(pledged, a, who, amount, interest),
             FreeBalance' = LoanPaidOut(pledged, a, who, amount, interest),
             TotalIssuance' = Issued(a, amount)
      PROVE  AppliedOver(a, c, collateral, amount, interest) /\ interest <= amount
  <2>1. /\ LentOut(pledged, FreeBalance', a, amount, interest)
        /\ interest <= amount /\ TotalIssuance[a] + amount <= MaxBalance
    BY <1>1, <1>5, <1>6, <1>7, PayoutEffect
  <2> QED BY <1>1, <1>4, <1>7, <2>1, ApplyEffect
<1>8. ASSUME FreeBalance' = [pledged EXCEPT ![a][ProfitPool] = @ + interest],
             TotalIssuance' = Issued(a, interest)
      PROVE  AppliedOver(a, c, collateral, interest, interest)
  <2>1. LentOut(pledged, FreeBalance', a, interest, interest)
    BY <1>5, <1>6, <1>8, InterestEffect
  <2>2. interest <= interest
    BY MaxBalanceAssumption DEF Balance
  <2> QED BY <1>1, <1>4, <1>6, <1>8, <2>1, <2>2, ApplyEffect
<1> QED BY <1>7, <1>8

\* Books that grow by at most what is minted and paid in stay covered.
LEMMA AppliedCovers ==
    ASSUME LoanLedgerInv, NEW a \in AssetId, NEW c \in AssetId, NEW collateral \in Nat,
           NEW minted \in Nat, NEW interest \in Nat,
           AppliedOver(a, c, collateral, minted, interest),
           NEW debt \in 0 .. minted, NEW pledge \in 0 .. collateral, NEW profit \in 0 .. interest,
           \A x \in AssetId : BooksDiffer(Loans', x, a, c, 0, 0, debt, pledge),
           TotalLoan' = Wrap(TotalLoan + debt), TotalCollateral' = Wrap(TotalCollateral + pledge),
           TotalProfit' = Wrap(TotalProfit + profit),
           UNCHANGED <<ledgerRules, LoanPackages, switched>>,
           ~switched => /\ a = GenesisConfig.LoanAssetId
                        /\ c = GenesisConfig.CollateralAssetId
    PROVE  LedgerPart'
<1>1. LoanIndexInv /\ AssetsTypeOK /\ IssuanceIsHeld /\ LedgerCovers
  BY DEF LoanLedgerInv
<1>2. \A x \in AssetId :
         /\ TotalIssuance[x] \in Nat /\ GroupTotal(FreeBalance, x, Spendable) \in Nat
         /\ \A w \in AccountId : FreeBalance[x][w] \in Nat
  BY <1>1, LedgerBounds
<1>3. AssetsTypeOK' /\ IssuanceIsHeld'
  BY <1>1, LedgerFollows DEF AppliedOver
<1>4. ASSUME NEW x \in AssetId
      PROVE  /\ DebtIn(Loans', LoanPackages, x)
                    = DebtIn(Loans, LoanPackages, x) + (IF x = a THEN debt ELSE 0)
             /\ PledgedIn(Loans', LoanPackages, x)
                    = PledgedIn(Loans, LoanPackages, x) + (IF x = c THEN pledge ELSE 0)
             /\ DebtIn(Loans, LoanPackages, x) \in Nat
             /\ PledgedIn(Loans, LoanPackages, x) \in Nat
  BY DEF BooksDiffer
<1>5. LedgerCovers'
  <2>1. ASSUME NEW x \in AssetId
        PROVE  /\ DebtIn(Loans', LoanPackages, x) <= TotalIssuance'[x]
               /\ PledgedIn(Loans', LoanPackages, x) + GroupTotal(FreeBalance', x, Spendable)
                      <= TotalIssuance'[x]
    <3>1. /\ DebtIn(Loans, LoanPackages, x) <= TotalIssuance[x]
          /\ PledgedIn(Loans, LoanPackages, x) + GroupTotal(FreeBalance, x, Spendable)
                 <= TotalIssuance[x]
      BY <1>1 DEF LedgerCovers
    <3>2. /\ TotalIssuance'[x] = TotalIssuance[x] + (IF x = a THEN minted ELSE 0)
          /\ GroupTotal(FreeBalance', x, Spendable) \in Nat
          /\ GroupTotal(FreeBalance', x, Spendable) + (IF x = c THEN collateral ELSE 0)
                 + (IF x = a THEN interest ELSE 0)
                 = GroupTotal(FreeBalance, x, Spendable) + (IF x = a THEN minted ELSE 0)
      BY DEF AppliedOver
    <3> QED BY <1>2, <1>4, <3>1, <3>2
  <2> QED BY <2>1 DEF LedgerCovers
<1>6. ASSUME ~switched' PROVE TotalsCover'
  <2>1. ~switched /\ TotalsCover /\ a = GenesisConfig.LoanAssetId /\ c = GenesisConfig.CollateralAssetId
    BY <1>6 DEF LoanLedgerInv
  <2>2. /\ PledgedIn(Loans, LoanPackages, c) <= TotalCollateral
        /\ TotalCollateral <= FreeBalance[c][PawnShop]
        /\ DebtIn(Loans, LoanPackages, a) <= TotalLoan
        /\ TotalLoan + LoanAssetEndowed <= TotalIssuance[a]
        /\ TotalProfit + Endowed[a][ProfitPool] <= FreeBalance[a][ProfitPool]
    BY <2>1 DEF TotalsCover
  <2>3. /\ LoanAssetEndowed \in Nat /\ Endowed[a][ProfitPool] \in Nat
        /\ PawnShop \in AccountId /\ ProfitPool \in AccountId
    BY <2>1, GenesisNumbers
  <2>4. TotalLoan \in Nat /\ TotalProfit \in Nat /\ TotalCollateral \in Nat /\ MaxBalance \in Nat
    BY <1>1, TotalsAreNat
  <2>5. /\ TotalIssuance'[a] = TotalIssuance[a] + minted
        /\ FreeBalance'[c][PawnShop] = FreeBalance[c][PawnShop] + collateral
        /\ FreeBalance'[a][ProfitPool] = FreeBalance[a][ProfitPool] + interest
    BY DEF AppliedOver
  <2>6. /\ TotalIssuance'[a] <= MaxBalance /\ FreeBalance'[c][PawnShop] <= MaxBalance
        /\ FreeBalance'[a][ProfitPool] <= MaxBalance
    BY <2>3, <2>4 DEF AppliedOver, Ledger, Balance
  <2>7. TotalIssuance[a] \in Nat /\ FreeBalance[c][PawnShop] \in Nat /\ FreeBalance[a][ProfitPool] \in Nat
    BY <1>2, <2>3
  <2>8. /\ TotalLoan + debt \in Balance /\ TotalCollateral + pledge \in Balance
        /\ TotalProfit + profit \in Balance
    BY <2>2, <2>3, <2>4, <2>5, <2>6, <2>7 DEF Balance
  <2>9. /\ TotalLoan' = TotalLoan + debt /\ TotalCollateral' = TotalCollateral + pledge
        /\ TotalProfit' = TotalProfit + profit
    BY <2>8, WrapFits
  <2>10. /\ DebtIn(Loans', LoanPackages, a) = DebtIn(Loans, LoanPackages, a) + debt
         /\ PledgedIn(Loans', LoanPackages, c) = PledgedIn(Loans, LoanPackages, c) + pledge
         /\ DebtIn(Loans, LoanPackages, a) \in Nat
         /\ PledgedIn(Loans, LoanPackages, c) \in Nat
    BY <1>4
  <2>11. /\ PledgedIn(Loans', LoanPackages, c) <= TotalCollateral'
         /\ TotalCollateral' <= FreeBalance'[c][PawnShop]
         /\ DebtIn(Loans', LoanPackages, a) <= TotalLoan'
         /\ TotalLoan' + LoanAssetEndowed <= TotalIssuance'[a]
         /\ TotalProfit' + Endowed[a][ProfitPool] <= FreeBalance'[a][ProfitPool]
    BY <2>2, <2>3, <2>4, <2>5, <2>7, <2>9, <2>10
  <2> QED BY <2>1, <2>11 DEF TotalsCover
<1> QED BY <1>3, <1>5, <1>6 DEF LedgerPart

\* Nothing is added to the books.
LEMMA BooksSame ==
    ASSUME LoanIndexInv, NEW new, new = Loans, NEW x, NEW a, NEW c
    PROVE  BooksDiffer(new, x, a, c, 0, 0, 0, 0)
<1>1. DebtIn(Loans, LoanPackages, x) \in Nat /\ PledgedIn(Loans, LoanPackages, x) \in Nat
  BY BooksAreNat DEF LoanIndexInv, LoanTypeOK
<1> QED BY <1>1 DEF BooksDiffer

\* What does not touch balances, loans, packages or totals keeps the ledger's part.
LEMMA LedgerUntouched ==
    ASSUME LedgerPart,
           UNCHANGED <<FreeBalance, TotalIssuance, ledgerRules, LoanPackages, Loans, totalVars>>,
           ~switched' => ~switched
    PROVE  LedgerPart'
<1>1. AssetsTypeOK'
  BY DEF LedgerPart, AssetsTypeOK, ledgerRules, contextVars
<1>2. IssuanceIsHeld'
  BY DEF LedgerPart, IssuanceIsHeld, Held, ledgerRules
<1>3. LedgerCovers'
  BY DEF LedgerPart, LedgerCovers
<1>4. ~switched' => TotalsCover'
  BY DEF LedgerPart, TotalsCover, totalVars
<1> QED BY <1>1, <1>2, <1>3, <1>4 DEF LedgerPart

\* apply: what is pledged is paid in and what is owed is minted, and a failed
\* application leaves at most collateral and interest without a loan.
LEMMA ApplyKeepsLedger ==
    ASSUME LoanLedgerInv, NEW who \in Borrower, NEW id \in LoanPackageId, NEW o \in Offer,
           apply(who, id, o[1], o[2])
    PROVE  LedgerPart'
<1> DEFINE package == LoanPackages[id]
           a == package.loan_asset_id
           c == package.collateral_asset_id
           collateral == CollateralFor(o[1], o[2])
           amount == AmountFor(o[1], o[2])
           interest == get_interest(package, amount)
           pledged == Moved(FreeBalance, c, who, PawnShop, collateral)
           r == [package_id |-> id, who |-> who,
                 due |-> get_dues(package).due, due_extend |-> get_dues(package).due_extend,
                 collateral_balance_original |-> collateral,
                 collateral_balance_available |-> collateral,
                 loan_balance_total |-> amount, status |-> "Well"]
<1>1. LoanIndexInv /\ AssetsTypeOK /\ IssuanceIsHeld
  BY DEF LoanLedgerInv
<1>2. package \in LoanPackage /\ package # NoPackage
  BY <1>1, LoanAssumption DEF apply, ApplicationOk, LoanIndexInv, LoanTypeOK, IndexesAgree
<1>3. collateral \in Balance /\ amount \in Balance
  <2>1. o[1] \in Balance /\ o[2] \in Balance
    BY LoanAssumption
  <2> QED BY <1>1, <2>1, AmountsFit DEF apply, ApplicationOk, LoanIndexInv
<1>4. a \in AssetId /\ c \in AssetId /\ interest \in Balance
  <2>1. interest \in Balance
    BY <1>2, <1>3, InterestFits
  <2> QED BY <1>2, <2>1 DEF LoanPackage
<1>5. collateral \in Nat /\ amount \in Nat /\ interest \in Nat
  <2> HIDE DEF collateral, amount, interest
  <2> QED BY <1>3, <1>4, MaxBalanceAssumption DEF Balance
<1>6. /\ collateral <= FreeBalance[c][who] /\ NextLoanId <= MaxLoanId
      /\ UNCHANGED <<ledgerRules, LoanPackages, switched>>
  BY DEF apply, ApplicationOk, MakeTransferOk, packageVars
<1>7. ~switched => a = GenesisConfig.LoanAssetId /\ c = GenesisConfig.CollateralAssetId
  BY <1>2 DEF LoanLedgerInv, AssetsOfGenesis
<1>8. r \in LoanRecord /\ r.package_id = id
      /\ r.loan_balance_total = amount /\ r.collateral_balance_available = collateral
  <2>1. get_dues(package).due \in Nat /\ get_dues(package).due_extend \in Nat /\ who \in AccountId
    BY <1>1, <1>2, LoanAssumption DEF get_dues, LoanIndexInv, LoanTypeOK, LoanPackage
  <2> HIDE DEF collateral, amount, package
  <2> QED BY <1>3, <2>1 DEF LoanRecord, LoanHealth
<1>9. CASE /\ InterestMinted(a, interest) /\ RestMinted(pledged, a, who, amount, interest)
           /\ FreeBalance' = LoanPaidOut(pledged, a, who, amount, interest)
           /\ TotalIssuance' = Issued(a, amount)
           /\ Loans' = [Loans EXCEPT ![NextLoanId] = r]
           /\ TotalLoan' = Wrap(TotalLoan + amount)
           /\ TotalCollateral' = Wrap(TotalCollateral + collateral)
           /\ TotalProfit' = Wrap(TotalProfit + interest)
  <2>1. NextLoanId \in LoanId \ LoanIds
    <3>1. NextLoanId \in LoanId
      BY <1>1, <1>6, LoanAssumption DEF LoanIndexInv, LoanTypeOK, LoanId
    <3>2. \A j \in LoanIds : j < NextLoanId /\ j \in Nat
      BY <1>1 DEF LoanIndexInv, IndexesAgree, LoanIds, LoanId
    <3> QED BY <3>1, <3>2
  <2> HIDE DEF r
  <2>2. \A x \in AssetId : BooksDiffer(Loans', x, a, c, 0, 0, amount, collateral)
    <3> TAKE x \in AssetId
    <3>1. BooksDiffer(Loans', x, LoanPackages[r.package_id].loan_asset_id,
                      LoanPackages[r.package_id].collateral_asset_id,
                      0, 0, r.loan_balance_total, r.collateral_balance_available)
      <4> HIDE DEF package, a, c, collateral, amount, interest, pledged
      <4> QED BY <1>1, <1>8, <1>9, <2>1, BooksWith
    <3> QED BY <1>8, <3>1
  <2> HIDE DEF package, a, c, collateral, amount, interest
  <2>3. pledged = Moved(FreeBalance, c, who, PawnShop, collateral)
    OBVIOUS
  <2> HIDE DEF pledged
  <2>4. MintFreeOk(a, ProfitPool, interest)
    BY <1>9 DEF InterestMinted
  <2>5. AppliedOver(a, c, collateral, amount, interest)
    BY <1>3, <1>4, <1>6, <1>9, <2>3, <2>4, ApplyLedger
  <2>6. amount \in 0 .. amount /\ collateral \in 0 .. collateral /\ interest \in 0 .. interest
    BY <1>5
  <2> QED BY <1>4, <1>5, <1>6, <1>7, <1>9, <2>2, <2>5, <2>6, AppliedCovers
<1>10. CASE UNCHANGED <<FreeBalance, TotalIssuance, Loans, totalVars>>
  <2>1. LedgerPart
    BY DEF LoanLedgerInv, LedgerPart
  <2> QED BY <1>6, <1>10, <2>1, LedgerUntouched
<1>11. CASE /\ InterestMinted(a, interest)
            /\ FreeBalance' = [pledged EXCEPT ![a][ProfitPool] = @ + interest]
            /\ TotalIssuance' = Issued(a, interest)
            /\ UNCHANGED <<Loans, totalVars>>
  <2> HIDE DEF package, a, c, collateral, amount, interest, r
  <2>1. \A x \in AssetId : BooksDiffer(Loans', x, a, c, 0, 0, 0, 0)
    BY <1>1, <1>11, BooksSame
  <2>2. pledged = Moved(FreeBalance, c, who, PawnShop, collateral)
    OBVIOUS
  <2> HIDE DEF pledged
  <2>3. MintFreeOk(a, ProfitPool, interest)
    BY <1>11 DEF InterestMinted
  <2>4. AppliedOver(a, c, collateral, interest, interest)
    BY <1>3, <1>4, <1>6, <1>11, <2>2, <2>3, ApplyLedger
  <2>5. /\ TotalLoan' = Wrap(TotalLoan + 0) /\ TotalCollateral' = Wrap(TotalCollateral + 0)
        /\ TotalProfit' = Wrap(TotalProfit + 0)
    <3>1. TotalLoan \in Balance /\ TotalCollateral \in Balance /\ TotalProfit \in Balance
      BY <1>1 DEF LoanIndexInv, LoanTypeOK
    <3>2. TotalLoan + 0 = TotalLoan /\ TotalCollateral + 0 = TotalCollateral /\ TotalProfit + 0 = TotalProfit
      BY <1>1, TotalsAreNat
    <3> QED BY <1>11, <3>1, <3>2, WrapFits DEF totalVars
  <2>6. 0 \in 0 .. interest /\ 0 \in 0 .. collateral
    BY <1>5
  <2> QED BY <1>4, <1>5, <1>6, <1>7, <2>1, <2>4, <2>5, <2>6, AppliedCovers
<1> QED BY <1>9, <1>10, <1>11 DEF apply, Transferred

\* What a block takes from the collateral of loan i.
ChargedTo(i) == IF i \in Expired THEN expiration_fee(Loans[i]) ELSE 0

\* A block takes the fee from each renewed loan, and nothing from any other.
LEMMA BlockCharges ==
    ASSUME LoanIndexInv, ~Paused, BlockCanStart, on_each_block, NEW i \in LoanIds
    PROVE  /\ ChargedTo(i) \in Nat
           /\ Loans[i].collateral_balance_available \in Nat
           /\ Loans'[i].collateral_balance_available \in Nat
           /\ Loans'[i].collateral_balance_available + ChargedTo(i)
                  = Loans[i].collateral_balance_available
<1>1. /\ \A j \in Checked : Loans'[j] = Updated(Loans[j])
      /\ \A j \in LoanId \ Checked : Loans'[j] = Loans[j]
  BY BlockLoans
<1>2. /\ i \in LoanId /\ Loans[i] \in LoanRecord /\ PackageOf(Loans[i]) \in LoanPackage
      /\ Loans[i].collateral_balance_available \in Nat
  BY StoredLoan, MaxBalanceAssumption DEF Balance
<1>3. CASE i \in Expired
  <2>1. /\ i \in Checked /\ expiration_fee(Loans[i]) \in Nat
        /\ expiration_fee(Loans[i]) <= Loans[i].collateral_balance_available
        /\ Updated(Loans[i]).collateral_balance_available
               = Loans[i].collateral_balance_available - expiration_fee(Loans[i])
    BY <1>3, ExpiredPay, MaxBalanceAssumption DEF Balance
  <2>2. Loans'[i] = Updated(Loans[i]) /\ ChargedTo(i) = expiration_fee(Loans[i])
    BY <1>1, <1>3, <2>1 DEF ChargedTo
  <2> QED BY <1>2, <2>1, <2>2
<1>4. CASE i \notin Expired
  <2>1. ChargedTo(i) = 0
    BY <1>4 DEF ChargedTo
  <2>2. Loans'[i].collateral_balance_available = Loans[i].collateral_balance_available
    <3>1. CASE i \in Checked
      <4>1. check_loan_health(Loans[i]) # "Expired" /\ CurrentBTCPrice # 0 /\ LoanTypeOK
        BY <1>4, <3>1, PriceNotZero DEF Expired, LoanIndexInv
      <4>2. Updated(Loans[i]).collateral_balance_available = Loans[i].collateral_balance_available
        BY <1>2, <4>1, UpdatedFields
      <4> QED BY <1>1, <3>1, <4>2
    <3>2. CASE i \notin Checked
      BY <1>1, <1>2, <3>2
    <3> QED BY <3>1, <3>2
  <2> QED BY <1>2, <2>1, <2>2
<1> QED BY <1>3, <1>4

\* The books after a block.
LEMMA BlockBooks ==
    ASSUME LoanIndexInv, ~Paused, BlockCanStart, on_each_block, NEW x
    PROVE  /\ DebtIn(Loans', LoanPackages, x) = DebtIn(Loans, LoanPackages, x)
           /\ PledgedIn(Loans', LoanPackages, x) <= PledgedIn(Loans, LoanPackages, x)
           /\ PledgedIn(Loans, LoanPackages, x) \in Nat
           /\ PledgedIn(Loans', LoanPackages, x) \in Nat
<1> DEFINE d == DebtOf(Loans, LoanPackages, x)
           e == DebtOf(Loans', LoanPackages, x)
           p == PledgeOf(Loans, LoanPackages, x)
           q == PledgeOf(Loans', LoanPackages, x)
<1>1. /\ Loans' \in [LoanId -> LoanRecord \cup {NoLoan}] /\ LoanIds' = LoanIds
      /\ \A i \in LoanIds : /\ Loans'[i].package_id = Loans[i].package_id
                            /\ Loans'[i].loan_balance_total = Loans[i].loan_balance_total
  BY BlockLoans
<1>2. Loans \in [LoanId -> LoanRecord \cup {NoLoan}]
  BY DEF LoanIndexInv, LoanTypeOK
<1>3. \A i \in LoanId : /\ d[i] \in Nat /\ p[i] \in Nat /\ q[i] \in Nat
  BY <1>1, <1>2, BooksAreNat
<1>4. ASSUME NEW i \in LoanId PROVE d[i] = e[i] /\ q[i] <= p[i]
  <2>1. CASE i \in LoanIds
    <3>1. /\ Loans[i] # NoLoan /\ Loans'[i] # NoLoan
          /\ Loans'[i].package_id = Loans[i].package_id
          /\ Loans'[i].loan_balance_total = Loans[i].loan_balance_total
      BY <1>1, <2>1 DEF LoanIds
    <3>2. Loans'[i].collateral_balance_available <= Loans[i].collateral_balance_available
      BY <2>1, BlockCharges
    <3> QED BY <1>3, <3>1, <3>2 DEF DebtOf, PledgeOf
  <2>2. CASE i \notin LoanIds
    <3>1. Loans[i] = NoLoan /\ Loans'[i] = NoLoan
      BY <1>1, <2>2 DEF LoanIds
    <3> QED BY <1>3, <3>1 DEF DebtOf, PledgeOf
  <2> QED BY <2>1, <2>2
<1> HIDE DEF d, e, p, q
<1>5. SumFunctionOnSet(e, LoanId) = SumFunctionOnSet(d, LoanId)
  BY <1>4, LoanIdsFinite, SumOfSame
<1>6. SumFunctionOnSet(q, LoanId) <= SumFunctionOnSet(p, LoanId)
  BY <1>3, <1>4, LoanIdsFinite, SumMonotone
<1>7. PledgedIn(Loans, LoanPackages, x) \in Nat /\ PledgedIn(Loans', LoanPackages, x) \in Nat
  BY <1>1, <1>2, BooksAreNat
<1> QED BY <1>5, <1>6, <1>7 DEF d, e, p, q, DebtIn, PledgedIn

\* The fees of a block are what the pledges lose.
LEMMA BlockFees ==
    ASSUME LoanLedgerInv, ~switched, ~Paused, BlockCanStart, on_each_block,
           NEW c, c = GenesisConfig.CollateralAssetId
    PROVE  PledgedIn(Loans', LoanPackages, c)
               + SumFunction([i \in Expired |-> expiration_fee(Loans[i])])
               = PledgedIn(Loans, LoanPackages, c)
<1> DEFINE p == PledgeOf(Loans, LoanPackages, c)
           q == PledgeOf(Loans', LoanPackages, c)
           f == [i \in Expired |-> expiration_fee(Loans[i])]
           g == [i \in LoanId |-> ChargedTo(i)]
<1>1. LoanIndexInv
  BY DEF LoanLedgerInv
<1>2. /\ Loans' \in [LoanId -> LoanRecord \cup {NoLoan}] /\ LoanIds' = LoanIds
      /\ \A i \in LoanIds : Loans'[i].package_id = Loans[i].package_id
  BY <1>1, BlockLoans
<1>3. Expired \in SUBSET LoanId /\ Expired \subseteq LoanIds
  BY DEF Expired, Checked, LoanIds
<1>4. ASSUME NEW i \in LoanId PROVE q[i] \in Nat /\ g[i] \in Nat /\ p[i] = q[i] + g[i]
  <2>1. CASE i \in LoanIds
    <3>1. /\ Loans[i] # NoLoan /\ Loans'[i] # NoLoan
          /\ Loans'[i].package_id = Loans[i].package_id
      BY <1>2, <2>1 DEF LoanIds
    <3>2. LoanPackages[Loans[i].package_id].collateral_asset_id = c
      BY <2>1, AssetsOfLoan DEF PackageOf
    <3>3. p[i] = Loans[i].collateral_balance_available /\ q[i] = Loans'[i].collateral_balance_available
      BY <3>1, <3>2 DEF PledgeOf
    <3>4. /\ ChargedTo(i) \in Nat /\ Loans'[i].collateral_balance_available \in Nat
          /\ Loans'[i].collateral_balance_available + ChargedTo(i)
                 = Loans[i].collateral_balance_available
      BY <1>1, <2>1, BlockCharges
    <3>5. g[i] = ChargedTo(i)
      OBVIOUS
    <3> HIDE DEF p, q, g
    <3> QED BY <3>3, <3>4, <3>5
  <2>2. CASE i \notin LoanIds
    <3>1. Loans[i] = NoLoan /\ Loans'[i] = NoLoan /\ i \notin Expired
      BY <1>2, <1>3, <2>2 DEF LoanIds
    <3>2. p[i] = 0 /\ q[i] = 0 /\ g[i] = 0
      BY <3>1 DEF PledgeOf, ChargedTo
    <3> HIDE DEF p, q, g
    <3> QED BY <3>2
  <2> QED BY <2>1, <2>2
<1>5. (\A i \in Expired : f[i] \in Nat /\ g[i] = f[i]) /\ \A i \in LoanId \ Expired : g[i] = 0
  <2>1. \A i \in Expired : expiration_fee(Loans[i]) \in Nat
    BY <1>1, ExpiredPay, MaxBalanceAssumption DEF Balance
  <2> QED BY <1>3, <2>1 DEF ChargedTo
<1>6. SumFunction(f) = SumFunctionOnSet(f, Expired)
  BY <1>1, FeesAreSum
<1> HIDE DEF p, q, f, g
<1>7. SumFunctionOnSet(p, LoanId) = SumFunctionOnSet(q, LoanId) + SumFunctionOnSet(g, LoanId)
  BY <1>4, LoanIdsFinite, SumOfPlus
<1>8. SumFunctionOnSet(g, LoanId) = SumFunctionOnSet(f, Expired)
  BY <1>3, <1>5, LoanIdsFinite, SumRestricts
<1>9. PledgedIn(Loans', LoanPackages, c) + SumFunction(f) = PledgedIn(Loans, LoanPackages, c)
  BY <1>6, <1>7, <1>8 DEF p, q, PledgedIn
<1> QED BY <1>9 DEF f

\* The fees of a block, if they are moved at all, go from one account of the
\* module to the other.
LEMMA FeesMove ==
    ASSUME AssetsTypeOK, IssuanceIsHeld, NEW d \in AssetId, NEW fees \in Balance,
           fees <= FreeBalance[d][PawnShop],
           NEW g, g = Moved(FreeBalance, d, PawnShop, ProfitPool, fees)
    PROVE  /\ g \in Ledger
           /\ \A x \in AssetId :
                 /\ GroupTotal(g, x, AccountId) = GroupTotal(FreeBalance, x, AccountId)
                 /\ GroupTotal(g, x, Spendable) = GroupTotal(FreeBalance, x, Spendable)
                 /\ g[x][ProfitPool] \in Nat /\ g[x][PawnShop] \in Nat
                 /\ g[x][ProfitPool] >= FreeBalance[x][ProfitPool]
                 /\ g[x][PawnShop] + (IF x = d THEN fees ELSE 0) = FreeBalance[x][PawnShop]
<1>1. /\ PawnShop \in AccountId /\ ProfitPool \in AccountId /\ PawnShop # ProfitPool
      /\ PawnShop \notin Spendable /\ ProfitPool \notin Spendable /\ fees \in Nat
  BY GenesisNumbers, MaxBalanceAssumption DEF Balance
<1>2. FreeBalance \in Ledger /\ GroupTotal(FreeBalance, d, AccountId) <= MaxBalance
  BY LedgerBounds
<1>3. PaidOver(FreeBalance, g, d, PawnShop, ProfitPool, fees)
  BY <1>1, <1>2, PaymentEffect
<1>4. ASSUME NEW x \in AssetId
      PROVE  GroupTotal(g, x, Spendable) = GroupTotal(FreeBalance, x, Spendable)
  <2>1. /\ GroupTotal(g, x, Spendable) \in Nat /\ GroupTotal(FreeBalance, x, Spendable) \in Nat
        /\ GroupTotal(g, x, Spendable) + (IF x = d /\ PawnShop \in Spendable THEN fees ELSE 0)
               = GroupTotal(FreeBalance, x, Spendable)
                     + (IF x = d /\ ProfitPool \in Spendable THEN fees ELSE 0)
    BY <1>3 DEF PaidOver
  <2> QED BY <1>1, <2>1
<1>5. ASSUME NEW x \in AssetId
      PROVE  /\ g[x][ProfitPool] \in Nat /\ g[x][PawnShop] \in Nat
             /\ g[x][ProfitPool] >= FreeBalance[x][ProfitPool]
             /\ g[x][PawnShop] + (IF x = d THEN fees ELSE 0) = FreeBalance[x][PawnShop]
  <2>1. /\ g[x][ProfitPool] \in Nat /\ FreeBalance[x][ProfitPool] \in Nat
        /\ g[x][ProfitPool] + (IF x = d /\ ProfitPool = PawnShop THEN fees ELSE 0)
               = FreeBalance[x][ProfitPool] + (IF x = d /\ ProfitPool = ProfitPool THEN fees ELSE 0)
    BY <1>1, <1>3 DEF PaidOver
  <2>2. /\ g[x][PawnShop] \in Nat /\ FreeBalance[x][PawnShop] \in Nat
        /\ g[x][PawnShop] + (IF x = d /\ PawnShop = PawnShop THEN fees ELSE 0)
               = FreeBalance[x][PawnShop] + (IF x = d /\ PawnShop = ProfitPool THEN fees ELSE 0)
    BY <1>1, <1>3 DEF PaidOver
  <2> QED BY <1>1, <2>1, <2>2
<1> QED BY <1>3, <1>4, <1>5 DEF PaidOver

\* What on_each_block does to balances and TotalCollateral, whether or not the
\* fees n are moved.
BlockMoves(d, n) ==
    /\ FreeBalance' \in Ledger
    /\ \A x \in AssetId :
          /\ GroupTotal(FreeBalance', x, AccountId) = GroupTotal(FreeBalance, x, AccountId)
          /\ GroupTotal(FreeBalance', x, Spendable) = GroupTotal(FreeBalance, x, Spendable)
          /\ FreeBalance'[x][ProfitPool] \in Nat
          /\ FreeBalance'[x][ProfitPool] >= FreeBalance[x][ProfitPool]
    /\ FreeBalance'[d][PawnShop] \in Nat
    /\ \/ /\ FreeBalance'[d][PawnShop] = FreeBalance[d][PawnShop]
          /\ TotalCollateral' = TotalCollateral
       \/ /\ FreeBalance'[d][PawnShop] + n = FreeBalance[d][PawnShop]
          /\ TotalCollateral' = IF n <= TotalCollateral THEN TotalCollateral - n
                                                        ELSE TotalCollateral

\* The fees of a block either move or do not.
LEMMA BlockEffect ==
    ASSUME LoanIndexInv, AssetsTypeOK, IssuanceIsHeld, ~Paused, BlockCanStart, on_each_block,
           NEW n, n = Wrap(SumFunction([i \in Expired |-> expiration_fee(Loans[i])]))
    PROVE  BlockMoves(CollateralAssetId, n) /\ n \in Balance
<1> DEFINE d == CollateralAssetId
<1>1. d \in AssetId
  BY ConfigTypes DEF LoanIndexInv
<1>2. n \in Balance
  BY FeesAreSum, WrapInRange
<1>3. PawnShop \in AccountId /\ ProfitPool \in AccountId
  BY GenesisNumbers
<1>4. \/ FreeBalance' = FreeBalance /\ TotalCollateral' = TotalCollateral
      \/ /\ n <= FreeBalance[d][PawnShop]
         /\ FreeBalance' = Moved(FreeBalance, d, PawnShop, ProfitPool, n)
         /\ TotalCollateral' = IF n <= TotalCollateral THEN TotalCollateral - n
                                                       ELSE TotalCollateral
  BY DEF on_each_block, MakeTransferOk, Transferred
<1> HIDE DEF d
<1>5. CASE FreeBalance' = FreeBalance /\ TotalCollateral' = TotalCollateral
  <2>1. FreeBalance \in Ledger
    BY <1>1, LedgerBounds
  <2>2. /\ FreeBalance[d][PawnShop] \in Nat
        /\ \A x \in AssetId : /\ FreeBalance[x][ProfitPool] \in Nat
                              /\ FreeBalance[x][ProfitPool] >= FreeBalance[x][ProfitPool]
    BY <1>1, <1>3, LedgerBounds
  <2> QED BY <1>2, <1>5, <2>1, <2>2 DEF BlockMoves, d
<1>6. CASE /\ n <= FreeBalance[d][PawnShop]
           /\ FreeBalance' = Moved(FreeBalance, d, PawnShop, ProfitPool, n)
           /\ TotalCollateral' = IF n <= TotalCollateral THEN TotalCollateral - n
                                                         ELSE TotalCollateral
  <2>1. PICK g : g = FreeBalance'
    OBVIOUS
  <2>2. /\ g \in Ledger
        /\ \A x \in AssetId :
              /\ GroupTotal(g, x, AccountId) = GroupTotal(FreeBalance, x, AccountId)
              /\ GroupTotal(g, x, Spendable) = GroupTotal(FreeBalance, x, Spendable)
              /\ g[x][ProfitPool] \in Nat /\ g[x][PawnShop] \in Nat
              /\ g[x][ProfitPool] >= FreeBalance[x][ProfitPool]
              /\ g[x][PawnShop] + (IF x = d THEN n ELSE 0) = FreeBalance[x][PawnShop]
    BY <1>1, <1>2, <1>6, <2>1, FeesMove
  <2>3. g[d][PawnShop] \in Nat /\ g[d][PawnShop] + n = FreeBalance[d][PawnShop]
    BY <1>1, <2>2
  <2>4. BlockMoves(d, n)
    BY <1>6, <2>1, <2>2, <2>3 DEF BlockMoves
  <2> QED BY <1>2, <2>4 DEF d
<1> QED BY <1>4, <1>5, <1>6

\* A block: the collateral of renewed loans shrinks by the fees, and the pawn
\* shop and TotalCollateral by no more.
LEMMA BlockKeepsLedger ==
    ASSUME LoanLedgerInv, NEW elapsed \in 0 .. 1, NewBlock(elapsed)
    PROVE  LedgerPart'
<1>1. LoanIndexInv /\ AssetsTypeOK /\ IssuanceIsHeld /\ LedgerCovers /\ LedgerPart
  BY DEF LoanLedgerInv, LedgerPart
<1>2. UNCHANGED <<LoanPackages, switched>>
  BY DEF NewBlock, packageVars
<1>3. CASE Paused
  <2>1. UNCHANGED <<FreeBalance, TotalIssuance, ledgerRules, Loans, totalVars>>
    BY <1>3 DEF NewBlock, loanVars, assetVars, balanceVars, ledgerRules
  <2> QED BY <1>1, <1>2, <2>1, LedgerUntouched
<1>4. CASE ~Paused
  <2> DEFINE sum == SumFunction([i \in Expired |-> expiration_fee(Loans[i])])
             n == Wrap(sum)
             d == CollateralAssetId
  <2>1. on_each_block /\ BlockCanStart
    BY <1>4 DEF NewBlock
  <2>2. UNCHANGED <<TotalIssuance, ledgerRules, TotalLoan, TotalProfit>>
    BY <2>1 DEF on_each_block
  <2>3. BlockMoves(d, n) /\ n \in Balance
    BY <1>1, <1>4, <2>1, BlockEffect
  <2>4. sum \in Nat /\ n \in Nat /\ n <= sum
    BY <1>1, <1>4, <2>1, FeesAreSum, WrapAtMost
  <2>5. ASSUME ~switched
        PROVE  PledgedIn(Loans', LoanPackages, GenesisConfig.CollateralAssetId) + sum
                   = PledgedIn(Loans, LoanPackages, GenesisConfig.CollateralAssetId)
    BY <1>4, <2>1, <2>5, BlockFees
  <2> HIDE DEF sum, n
  <2>6. AssetsTypeOK' /\ IssuanceIsHeld'
    <3>1. FreeBalance' \in Ledger /\ TotalIssuance' \in [AssetId -> Balance]
      BY <1>1, <2>2, <2>3 DEF BlockMoves, AssetsTypeOK
    <3>2. \A x \in AssetId : GroupTotal(FreeBalance', x, AccountId) + TotalIssuance[x]
                                 = GroupTotal(FreeBalance, x, AccountId) + TotalIssuance'[x]
      BY <2>2, <2>3 DEF BlockMoves
    <3> QED BY <1>1, <2>2, <3>1, <3>2, LedgerFollows
  <2>7. \A x \in AssetId :
           /\ DebtIn(Loans', LoanPackages, x) = DebtIn(Loans, LoanPackages, x)
           /\ PledgedIn(Loans', LoanPackages, x) <= PledgedIn(Loans, LoanPackages, x)
           /\ PledgedIn(Loans, LoanPackages, x) \in Nat
           /\ PledgedIn(Loans', LoanPackages, x) \in Nat
    BY <1>1, <1>4, <2>1, BlockBooks
  <2>8. LedgerCovers'
    <3>1. ASSUME NEW x \in AssetId
          PROVE  /\ DebtIn(Loans', LoanPackages, x) <= TotalIssuance[x]
                 /\ PledgedIn(Loans', LoanPackages, x) + GroupTotal(FreeBalance', x, Spendable)
                        <= TotalIssuance[x]
      <4>1. /\ DebtIn(Loans, LoanPackages, x) <= TotalIssuance[x]
            /\ PledgedIn(Loans, LoanPackages, x) + GroupTotal(FreeBalance, x, Spendable)
                   <= TotalIssuance[x]
        BY <1>1 DEF LedgerCovers
      <4>2. TotalIssuance[x] \in Nat /\ GroupTotal(FreeBalance, x, Spendable) \in Nat
        BY <1>1, LedgerBounds
      <4>3. GroupTotal(FreeBalance', x, Spendable) = GroupTotal(FreeBalance, x, Spendable)
        BY <2>3 DEF BlockMoves
      <4> QED BY <2>7, <4>1, <4>2, <4>3
    <3> QED BY <1>2, <2>2, <3>1 DEF LedgerCovers
  <2>9. ASSUME ~switched' PROVE TotalsCover'
    <3> DEFINE b == GenesisConfig.LoanAssetId
    <3>1. ~switched /\ TotalsCover /\ d = GenesisConfig.CollateralAssetId
      BY <1>2, <2>9 DEF LoanLedgerInv, AssetsOfGenesis
    <3> HIDE DEF d
    <3>2. /\ PledgedIn(Loans, LoanPackages, d) <= TotalCollateral
          /\ TotalCollateral <= FreeBalance[d][PawnShop]
          /\ DebtIn(Loans, LoanPackages, b) <= TotalLoan
          /\ TotalLoan + LoanAssetEndowed <= TotalIssuance[b]
          /\ TotalProfit + Endowed[b][ProfitPool] <= FreeBalance[b][ProfitPool]
      BY <3>1 DEF TotalsCover
    <3>3. /\ b \in AssetId /\ d \in AssetId /\ TotalCollateral \in Nat /\ TotalLoan \in Nat
          /\ TotalProfit \in Nat /\ Endowed[b][ProfitPool] \in Nat
          /\ PawnShop \in AccountId /\ ProfitPool \in AccountId
      BY <1>1, <3>1, GenesisNumbers, TotalsAreNat
    <3>4. FreeBalance[d][PawnShop] \in Nat /\ FreeBalance[b][ProfitPool] \in Nat
      BY <1>1, <3>3, LedgerBounds
    <3> HIDE DEF b
    <3>5. TotalProfit + Endowed[b][ProfitPool] <= FreeBalance'[b][ProfitPool]
      <4>1. /\ FreeBalance'[b][ProfitPool] \in Nat
            /\ FreeBalance'[b][ProfitPool] >= FreeBalance[b][ProfitPool]
        BY <2>3, <3>3 DEF BlockMoves
      <4> QED BY <3>2, <3>3, <3>4, <4>1
    <3>6. /\ PledgedIn(Loans', LoanPackages, d) + sum = PledgedIn(Loans, LoanPackages, d)
          /\ PledgedIn(Loans', LoanPackages, d) \in Nat /\ PledgedIn(Loans, LoanPackages, d) \in Nat
      BY <2>5, <2>7, <3>1, <3>3
    <3>7. n <= TotalCollateral
      BY <2>4, <3>2, <3>3, <3>6
    <3>8. /\ PledgedIn(Loans', LoanPackages, d) <= TotalCollateral'
          /\ TotalCollateral' <= FreeBalance'[d][PawnShop]
      <4>1. FreeBalance'[d][PawnShop] \in Nat
        BY <2>3 DEF BlockMoves
      <4>2. CASE /\ FreeBalance'[d][PawnShop] = FreeBalance[d][PawnShop]
                 /\ TotalCollateral' = TotalCollateral
        BY <2>4, <3>2, <3>3, <3>4, <3>6, <4>2
      <4>3. CASE /\ FreeBalance'[d][PawnShop] + n = FreeBalance[d][PawnShop]
                 /\ TotalCollateral' = IF n <= TotalCollateral THEN TotalCollateral - n
                                                               ELSE TotalCollateral
        <5>1. TotalCollateral' = TotalCollateral - n
          BY <3>7, <4>3
        <5> QED BY <2>4, <3>2, <3>3, <3>4, <3>6, <3>7, <4>1, <4>3, <5>1
      <4> QED BY <2>3, <4>2, <4>3 DEF BlockMoves
    <3>9. DebtIn(Loans', LoanPackages, b) <= TotalLoan
      BY <2>7, <3>2, <3>3
    <3> QED BY <1>2, <2>2, <3>1, <3>2, <3>5, <3>8, <3>9 DEF TotalsCover, b
  <2> QED BY <2>6, <2>8, <2>9 DEF LedgerPart
<1> QED BY <1>3, <1>4
-----------------------------------------------------------------------------
\* What moves no balance and changes no loan keeps the ledger's part, if the
\* packages of loans keep their assets.
LEMMA LedgerKept ==
    ASSUME LoanLedgerInv, AssetsTypeOK', UNCHANGED <<balanceVars, Loans, totalVars>>,
           ~switched' => ~switched,
           \A i \in LoanIds :
              /\ LoanPackages'[Loans[i].package_id].loan_asset_id
                     = LoanPackages[Loans[i].package_id].loan_asset_id
              /\ LoanPackages'[Loans[i].package_id].collateral_asset_id
                     = LoanPackages[Loans[i].package_id].collateral_asset_id
    PROVE  LedgerPart'
<1>1. Loans \in [LoanId -> LoanRecord \cup {NoLoan}]
  BY DEF LoanLedgerInv, LoanIndexInv, LoanTypeOK
<1>2. \A i \in LoanId : Loans[i] # NoLoan =>
         /\ LoanPackages'[Loans[i].package_id].loan_asset_id
                = LoanPackages[Loans[i].package_id].loan_asset_id
         /\ LoanPackages'[Loans[i].package_id].collateral_asset_id
                = LoanPackages[Loans[i].package_id].collateral_asset_id
  BY DEF LoanIds
<1>3. PICK packages : packages = LoanPackages'
  OBVIOUS
<1>4. \A x : /\ DebtIn(Loans, packages, x) = DebtIn(Loans, LoanPackages, x)
             /\ PledgedIn(Loans, packages, x) = PledgedIn(Loans, LoanPackages, x)
  BY <1>1, <1>2, <1>3, BooksKept
<1>5. UNCHANGED <<FreeBalance, TotalIssuance, ReservedBalance, Loans, TotalLoan, TotalCollateral, TotalProfit>>
  BY DEF balanceVars, totalVars
<1>6. IssuanceIsHeld'
  BY <1>5 DEF LoanLedgerInv, IssuanceIsHeld, Held
<1>7. LedgerCovers'
  BY <1>3, <1>4, <1>5 DEF LoanLedgerInv, LedgerCovers
<1>8. ~switched' => TotalsCover'
  BY <1>3, <1>4, <1>5 DEF LoanLedgerInv, TotalsCover
<1> QED BY <1>6, <1>7, <1>8 DEF LedgerPart

\* The rest of the invariant.
LEMMA PartiesKept ==
    ASSUME LoanLedgerInv, config' = config,
           \A i \in LoanId : Loans'[i] # NoLoan =>
              Loans'[i].who \in Borrower
                  \/ (Loans[i] # NoLoan /\ Loans'[i].who = Loans[i].who)
    PROVE  Parties'
  BY DEF LoanLedgerInv, Parties, LoanIds, LiquidationAccount

\* Where packages and configuration stay, so do their assets.
LEMMA AssetsKept ==
    ASSUME LoanLedgerInv, UNCHANGED <<config, LoanPackages, switched>>
    PROVE  ~switched' => AssetsOfGenesis'
  BY DEF LoanLedgerInv, AssetsOfGenesis, CollateralAssetId, LoanAssetId

\* Calls of root and the price touch no balance and no loan, and a switch of an
\* asset is noted.
LEMMA ConfigureKeepsLedger ==
    ASSUME LoanLedgerInv, Configure
    PROVE  LedgerPart' /\ Parties' /\ (~switched' => AssetsOfGenesis')
<1>1. UNCHANGED <<assetVars, packageVars, loanVars, totalVars>>
  BY DEF Configure, ConfigOnly
<1>2. UNCHANGED <<balanceVars, Loans, LoanPackages>>
  BY <1>1 DEF assetVars, packageVars, loanVars
<1>3. AssetsTypeOK'
  BY <1>1 DEF LoanLedgerInv, AssetsTypeOK, assetVars, balanceVars, contextVars
<1>4. config \in Config
  BY DEF LoanLedgerInv, LoanIndexInv, LoanTypeOK
<1> DEFINE Same == /\ config'.LiquidationAccount \in Spendable
                   /\ ~switched' => /\ ~switched
                                    /\ config'.CollateralAssetId = config.CollateralAssetId
                                    /\ config'.LoanAssetId = config.LoanAssetId
<1>5. config.LiquidationAccount \in Spendable
  BY DEF LoanLedgerInv, Parties, LiquidationAccount
<1>6. Same
  <2>1. CASE pause \/ resume
    BY <1>4, <1>5, <2>1 DEF pause, resume, Set, Config
  <2>2. CASE \E limit \in NewLTVLimit : set_global_ltv_limit(limit)
    BY <1>4, <1>5, <2>2 DEF set_global_ltv_limit, Set, Config
  <2>3. CASE \E t \in NewThreshold : set_global_liquidation_threshold(t)
    BY <1>4, <1>5, <2>3 DEF set_global_liquidation_threshold, Set, Config
  <2>4. CASE \E t \in NewThreshold : set_global_warning_threshold(t)
    BY <1>4, <1>5, <2>4 DEF set_global_warning_threshold, Set, Config
  <2>5. CASE \E n \in NewLoanCap : set_loan_cap(n)
    BY <1>4, <1>5, <2>5 DEF set_loan_cap, Set, Config
  <2>6. CASE \E w \in NewLiquidationAccount : set_liquidation_account(w)
    <3>1. NewLiquidationAccount \subseteq Spendable
      BY LoanAssumption, LiquidationAccountAssumption DEF Spendable
    <3> QED BY <1>4, <2>6, <3>1 DEF set_liquidation_account, Set, Config
  <2>7. CASE \E r \in NewPenaltyRate : set_penalty_rate(r)
    BY <1>4, <1>5, <2>7 DEF set_penalty_rate, Set, Config
  <2>8. CASE \E p \in BTCPrice : set_price(p)
    BY <1>4, <1>5, <2>8 DEF set_price, Set, Config
  <2>9. CASE \E a \in NewCollateralAsset : set_collateral_asset_id(a)
    BY <1>4, <1>5, <2>9 DEF set_collateral_asset_id, Set, Config, CollateralAssetId
  <2>10. CASE \E a \in NewLoanAsset : set_loan_asset_id(a)
    BY <1>4, <1>5, <2>10 DEF set_loan_asset_id, Set, Config, LoanAssetId
  <2> QED BY <2>1, <2>2, <2>3, <2>4, <2>5, <2>6, <2>7, <2>8, <2>9, <2>10 DEF Configure
<1>7. Parties'
  BY <1>2, <1>6 DEF LoanLedgerInv, Parties, LoanIds, LiquidationAccount
<1>8. ~switched' => AssetsOfGenesis'
  BY <1>2, <1>6 DEF LoanLedgerInv, AssetsOfGenesis, CollateralAssetId, LoanAssetId
<1>9. ~switched' => ~switched
  BY <1>6
<1> HIDE DEF Same
<1>10. LedgerPart'
  BY <1>1, <1>2, <1>3, <1>9, LedgerKept
<1> QED BY <1>7, <1>8, <1>10

\* No package loses its assets, and a new one gets today's.
LEMMA PackagesKeepLedger ==
    ASSUME LoanLedgerInv,
           (\E p \in Package : create_package(p)) \/ (\E id \in LoanPackageId : disable_package(id))
    PROVE  LedgerPart' /\ Parties' /\ PackagesNumbered' /\ (~switched' => AssetsOfGenesis')
<1>1. UNCHANGED <<assetVars, config, loanVars, totalVars, switched>>
  BY DEF create_package, disable_package
<1>2. UNCHANGED <<balanceVars, Loans>> /\ AssetsTypeOK'
  BY <1>1 DEF LoanLedgerInv, AssetsTypeOK, assetVars, balanceVars, contextVars, loanVars
<1>3. /\ LoanPackages \in [LoanPackageId -> LoanPackage \cup {NoPackage}] /\ LoanIndexInv
      /\ NextLoanPackageId \in Nat
  BY LoanAssumption DEF LoanLedgerInv, LoanIndexInv, LoanTypeOK
<1>4. \A q \in LoanPackageId : q \in Nat /\ (LoanPackages[q] # NoPackage => q < NextLoanPackageId)
  BY DEF LoanLedgerInv, PackagesNumbered, LoanPackageId
<1>5. ASSUME NEW q \in LoanPackageId
      PROVE  /\ LoanPackages[q] # NoPackage =>
                   /\ LoanPackages'[q].loan_asset_id = LoanPackages[q].loan_asset_id
                   /\ LoanPackages'[q].collateral_asset_id = LoanPackages[q].collateral_asset_id
                   /\ q < NextLoanPackageId'
             /\ LoanPackages[q] = NoPackage /\ LoanPackages'[q] # NoPackage =>
                   /\ LoanPackages'[q].loan_asset_id = LoanAssetId
                   /\ LoanPackages'[q].collateral_asset_id = CollateralAssetId
                   /\ q < NextLoanPackageId'
  <2>1. CASE \E p \in Package : create_package(p)
    <3>1. PICK p \in Package : create_package(p)
      BY <2>1
    <3> DEFINE new == [status |-> "Active", terms |-> p.terms, min |-> p.min,
                       interest_rate_hourly |-> p.interest_rate_hourly,
                       collateral_asset_id |-> CollateralAssetId, loan_asset_id |-> LoanAssetId]
    <3>2. /\ LoanPackages' = [LoanPackages EXCEPT ![NextLoanPackageId] = new]
          /\ NextLoanPackageId' = NextLoanPackageId + 1
      BY <3>1 DEF create_package
    <3>3. new.loan_asset_id = LoanAssetId /\ new.collateral_asset_id = CollateralAssetId
      OBVIOUS
    <3> HIDE DEF new
    <3>4. q \in Nat /\ (LoanPackages[q] # NoPackage => q < NextLoanPackageId)
      BY <1>4
    <3>5. CASE q = NextLoanPackageId
      <4>1. LoanPackages'[q] = new /\ LoanPackages[q] = NoPackage /\ q < NextLoanPackageId'
        BY <1>3, <3>2, <3>4, <3>5
      <4> QED BY <3>3, <4>1
    <3>6. CASE q # NextLoanPackageId
      <4>1. LoanPackages'[q] = LoanPackages[q]
        BY <1>3, <3>2, <3>6
      <4> QED BY <1>3, <3>2, <3>4, <4>1
    <3> QED BY <3>5, <3>6
  <2>2. CASE \E id \in LoanPackageId : disable_package(id)
    <3>1. PICK id \in LoanPackageId : disable_package(id)
      BY <2>2
    <3>2. /\ LoanPackages' = [LoanPackages EXCEPT ![id].status = "Inactive"]
          /\ LoanPackages[id] \in LoanPackage /\ NextLoanPackageId' = NextLoanPackageId
          /\ LoanPackages[id] # NoPackage
      BY <1>3, <3>1 DEF disable_package
    <3>3. CASE q = id
      <4>1. LoanPackages'[q] = [LoanPackages[q] EXCEPT !.status = "Inactive"]
        BY <1>3, <3>2, <3>3
      <4>2. /\ LoanPackages'[q].loan_asset_id = LoanPackages[q].loan_asset_id
            /\ LoanPackages'[q].collateral_asset_id = LoanPackages[q].collateral_asset_id
        BY <3>2, <3>3, <4>1 DEF LoanPackage
      <4> QED BY <1>4, <3>2, <3>3, <4>2
    <3>4. CASE q # id
      <4>1. LoanPackages'[q] = LoanPackages[q]
        BY <1>3, <3>2, <3>4
      <4> QED BY <1>4, <3>2, <4>1
    <3> QED BY <3>3, <3>4
  <2> QED BY <2>1, <2>2
<1>6. \A i \in LoanIds :
         /\ LoanPackages'[Loans[i].package_id].loan_asset_id
                = LoanPackages[Loans[i].package_id].loan_asset_id
         /\ LoanPackages'[Loans[i].package_id].collateral_asset_id
                = LoanPackages[Loans[i].package_id].collateral_asset_id
  <2>1. \A i \in LoanIds : /\ Loans[i].package_id \in LoanPackageId
                           /\ LoanPackages[Loans[i].package_id] # NoPackage
    BY <1>3, StoredLoan DEF LoanIndexInv, IndexesAgree, PackageOf
  <2> QED BY <1>5, <2>1
<1>7. LedgerPart'
  BY <1>1, <1>2, <1>6, LedgerKept
<1>8. Parties'
  BY <1>1 DEF LoanLedgerInv, Parties, LoanIds, LiquidationAccount, loanVars
<1>9. PackagesNumbered'
  BY <1>5 DEF PackagesNumbered
<1>10. ~switched' => AssetsOfGenesis'
  <2> SUFFICES ASSUME ~switched' PROVE AssetsOfGenesis'
    OBVIOUS
  <2>1. AssetsOfGenesis
    BY <1>1 DEF LoanLedgerInv
  <2>2. \A q \in LoanPackageId : LoanPackages'[q] # NoPackage =>
           /\ LoanPackages'[q].collateral_asset_id = GenesisConfig.CollateralAssetId
           /\ LoanPackages'[q].loan_asset_id = GenesisConfig.LoanAssetId
    BY <1>5, <2>1 DEF AssetsOfGenesis
  <2> QED BY <1>1, <2>1, <2>2 DEF AssetsOfGenesis, CollateralAssetId, LoanAssetId
<1> QED BY <1>7, <1>8, <1>9, <1>10

\* Changes of permissions and restrictions move no balance.
LEMMA EnvironmentKeepsLedger ==
    ASSUME LoanLedgerInv, Environment \/ UNCHANGED vars
    PROVE  LedgerPart'
<1>1. UNCHANGED <<balanceVars, Loans, totalVars, LoanPackages, switched, Symbols, contextVars, rootKey>>
  <2>1. CASE Environment
    BY <2>1 DEF Environment, UpdatePermission, UpdateRestriction, loanVars, packageVars
  <2>2. CASE UNCHANGED vars
    BY <2>2 DEF vars, assetVars, loanVars, packageVars
  <2> QED BY <2>1, <2>2
<1>2. AssetsTypeOK /\ LoanTypeOK
  BY DEF LoanLedgerInv, LoanIndexInv
<1>3. Permissions' \in [AssetId -> PermissionLatest] /\ Restrictions' \in [AssetId -> SUBSET Restriction]
  <2>1. CASE \E p \in NewPermission : UpdatePermission(LoanAssetId, p)
    <3>1. PICK p \in NewPermission : UpdatePermission(LoanAssetId, p)
      BY <2>1
    <3>2. p \in PermissionLatest
      BY PermissionAssumption
    <3> QED BY <1>2, <3>1, <3>2 DEF UpdatePermission, AssetsTypeOK
  <2>2. CASE \E a \in Symbols, b \in BOOLEAN : UpdateRestriction(a, "Transferable", b)
    BY <1>2, <2>2 DEF UpdateRestriction, AssetsTypeOK, Restriction
  <2>3. CASE UNCHANGED vars
    BY <1>2, <2>3 DEF vars, assetVars, AssetsTypeOK
  <2> QED BY <2>1, <2>2, <2>3 DEF Environment
<1>4. AssetsTypeOK'
  BY <1>1, <1>2, <1>3 DEF AssetsTypeOK, balanceVars, contextVars
<1> QED BY <1>1, <1>4, LedgerKept

\* A call on one loan leaves every other loan, and the borrower of its own.
LEMMA BorrowersKept ==
    ASSUME LoanLedgerInv, LoanNext, ~Configure, ~Environment,
           ~\E p \in Package : create_package(p), ~\E id \in LoanPackageId : disable_package(id)
    PROVE  /\ UNCHANGED <<config, packageVars, switched>>
           /\ \A i \in LoanId : Loans'[i] # NoLoan =>
                 Loans'[i].who \in Borrower
                     \/ (Loans[i] # NoLoan /\ Loans'[i].who = Loans[i].who)
<1>1. LoanIndexInv /\ Loans \in [LoanId -> LoanRecord \cup {NoLoan}]
  BY DEF LoanLedgerInv, LoanIndexInv, LoanTypeOK
<1> DEFINE Goal == /\ UNCHANGED <<config, packageVars, switched>>
                   /\ \A i \in LoanId : Loans'[i] # NoLoan =>
                         Loans'[i].who \in Borrower
                             \/ (Loans[i] # NoLoan /\ Loans'[i].who = Loans[i].who)
<1>2. ASSUME NEW who \in Borrower, NEW id \in LoanPackageId, NEW o \in Offer,
             apply(who, id, o[1], o[2])
      PROVE  Goal
  <2>1. UNCHANGED <<config, packageVars, switched>>
    BY <1>2 DEF apply
  <2>2. Loans' = Loans \/ \E r : r.who = who /\ Loans' = [Loans EXCEPT ![NextLoanId] = r]
    BY <1>2 DEF apply
  <2> QED BY <1>1, <2>1, <2>2
<1>3. ASSUME NEW who \in Borrower, NEW id \in LoanId, repay(who, id) PROVE Goal
  BY <1>1, <1>3 DEF repay
<1>4. ASSUME NEW who \in Borrower, NEW id \in LoanId, NEW n \in DrawAmount, draw(who, id, n)
      PROVE  Goal
  <2>1. UNCHANGED <<config, packageVars, switched>> /\ id \in LoanIds /\ Loans[id].who = who
    BY <1>4 DEF draw
  <2>2. Loans' = Loans \/ Loans' = [Loans EXCEPT ![id].loan_balance_total = Wrap(@ + n)]
    BY <1>4 DEF draw
  <2>3. Loans[id] \in LoanRecord
    BY <1>1, <2>1, StoredLoan
  <2> QED BY <1>1, <2>1, <2>2, <2>3 DEF LoanRecord
<1>5. ASSUME NEW who \in Borrower, NEW id \in LoanId, NEW n \in MoreCollateral,
             add_collateral(who, id, n)
      PROVE  Goal
  <2>1. UNCHANGED <<config, packageVars, switched>> /\ id \in LoanIds /\ Loans[id].who = who
    BY <1>5 DEF add_collateral
  <2>2. Loans' = [Loans EXCEPT ![id].collateral_balance_original = Wrap(@ + n),
                               ![id].collateral_balance_available = Wrap(@ + n)]
    BY <1>5 DEF add_collateral
  <2>3. Loans[id] \in LoanRecord
    BY <1>1, <2>1, StoredLoan
  <2> QED BY <1>1, <2>1, <2>2, <2>3 DEF LoanRecord
<1>6. ASSUME NEW who \in AccountId, NEW id \in LoanId, NEW n \in AuctionBalance,
             mark_liquidated(who, id, n)
      PROVE  Goal
  BY <1>1, <1>6 DEF mark_liquidated
<1>7. ASSUME NEW elapsed \in 0 .. 1, NewBlock(elapsed) PROVE Goal
  <2>1. UNCHANGED <<config, packageVars, switched>>
    BY <1>7 DEF NewBlock
  <2>2. CASE Paused
    BY <1>7, <2>1, <2>2 DEF NewBlock, loanVars
  <2>3. CASE ~Paused
    <3>1. LoanIds' = LoanIds /\ \A i \in LoanIds : Loans'[i].who = Loans[i].who
      BY <1>1, <1>7, <2>3, BlockLoans DEF NewBlock
    <3> QED BY <2>1, <3>1 DEF LoanIds
  <2> QED BY <2>2, <2>3
<1> QED BY <1>2, <1>3, <1>4, <1>5, <1>6, <1>7 DEF LoanNext

\* Every step keeps the books covered by the ledger.
LEMMA LedgerStep == LoanLedgerInv /\ [LoanNext]_vars => LoanLedgerInv'
<1> SUFFICES ASSUME LoanLedgerInv, [LoanNext]_vars PROVE LoanLedgerInv'
  OBVIOUS
<1>1. LoanIndexInv'
  BY IndexStep DEF LoanLedgerInv
<1>2. LedgerPart'
  <2>1. CASE Environment \/ UNCHANGED vars
    BY <2>1, EnvironmentKeepsLedger
  <2>2. CASE Configure
    BY <2>2, ConfigureKeepsLedger
  <2>3. CASE (\E p \in Package : create_package(p)) \/ (\E id \in LoanPackageId : disable_package(id))
    BY <2>3, PackagesKeepLedger
  <2>4. CASE \E who \in Borrower, id \in LoanPackageId, o \in Offer : apply(who, id, o[1], o[2])
    BY <2>4, ApplyKeepsLedger
  <2>5. CASE \E who \in Borrower, id \in LoanId : repay(who, id)
    BY <2>5, RepayKeepsLedger
  <2>6. CASE \E who \in Borrower, id \in LoanId, n \in DrawAmount : draw(who, id, n)
    BY <2>6, DrawKeepsLedger
  <2>7. CASE \E who \in Borrower, id \in LoanId, n \in MoreCollateral : add_collateral(who, id, n)
    BY <2>7, AddCollateralKeepsLedger
  <2>8. CASE \E who \in AccountId, id \in LoanId, n \in AuctionBalance : mark_liquidated(who, id, n)
    BY <2>8, MarkLiquidatedKeepsLedger
  <2>9. CASE \E elapsed \in 0 .. 1 : NewBlock(elapsed)
    BY <2>9, BlockKeepsLedger
  <2> QED BY <2>1, <2>2, <2>3, <2>4, <2>5, <2>6, <2>7, <2>8, <2>9 DEF LoanNext
<1>3. Parties' /\ PackagesNumbered' /\ (~switched' => AssetsOfGenesis')
  <2>1. CASE Environment \/ UNCHANGED vars
    <3>1. UNCHANGED <<config, packageVars, loanVars, switched>>
      BY <2>1 DEF Environment, vars
    <3> QED BY <3>1 DEF LoanLedgerInv, Parties, PackagesNumbered, AssetsOfGenesis, LoanIds,
                LiquidationAccount, CollateralAssetId, LoanAssetId, packageVars, loanVars
  <2>2. CASE Configure
    <3>1. UNCHANGED packageVars
      BY <2>2 DEF Configure, ConfigOnly
    <3> QED BY <2>2, <3>1, ConfigureKeepsLedger DEF LoanLedgerInv, PackagesNumbered, packageVars
  <2>3. CASE (\E p \in Package : create_package(p)) \/ (\E id \in LoanPackageId : disable_package(id))
    BY <2>3, PackagesKeepLedger
  <2>4. CASE /\ LoanNext /\ ~Configure /\ ~Environment
             /\ ~\E p \in Package : create_package(p)
             /\ ~\E id \in LoanPackageId : disable_package(id)
    <3>1. /\ UNCHANGED <<config, packageVars, switched>>
          /\ \A i \in LoanId : Loans'[i] # NoLoan =>
                Loans'[i].who \in Borrower
                    \/ (Loans[i] # NoLoan /\ Loans'[i].who = Loans[i].who)
      BY <2>4, BorrowersKept
    <3>2. UNCHANGED <<LoanPackages, NextLoanPackageId>>
      BY <3>1 DEF packageVars
    <3>3. Parties'
      BY <3>1, PartiesKept
    <3>4. ~switched' => AssetsOfGenesis'
      BY <3>1, <3>2, AssetsKept
    <3> QED BY <3>2, <3>3, <3>4 DEF LoanLedgerInv, PackagesNumbered
  <2> QED BY <2>1, <2>2, <2>3, <2>4
<1> QED BY <1>1, <1>2, <1>3 DEF LoanLedgerInv, LedgerPart

\* At genesis the books are empty.
LEMMA LedgerGenesis == LoanInit => LoanLedgerInv
<1> SUFFICES ASSUME LoanInit PROVE LoanLedgerInv
  OBVIOUS
<1>1. LoanIndexInv
  BY IndexGenesis
<1>2. AssetsTypeOK /\ IssuanceIsHeld
  BY GenesisType, GenesisIssuance DEF LoanInit
<1>3. \A i \in LoanId : Loans[i] = NoLoan
  BY DEF LoanInit
<1>4. ASSUME NEW x
      PROVE  DebtIn(Loans, LoanPackages, x) = 0 /\ PledgedIn(Loans, LoanPackages, x) = 0
  <2> DEFINE d == DebtOf(Loans, LoanPackages, x)
             p == PledgeOf(Loans, LoanPackages, x)
  <2>1. \A i \in LoanId : d[i] = 0 /\ p[i] = 0
    BY <1>3 DEF DebtOf, PledgeOf
  <2> HIDE DEF d, p
  <2>2. SumFunctionOnSet(d, LoanId) = 0 /\ SumFunctionOnSet(p, LoanId) = 0
    BY <2>1, LoanIdsFinite, SumOfZeros
  <2> QED BY <2>2 DEF d, p, DebtIn, PledgedIn
<1>5. LedgerCovers
  <2>1. ASSUME NEW x \in AssetId
        PROVE  /\ 0 <= TotalIssuance[x]
               /\ 0 + GroupTotal(FreeBalance, x, Spendable) <= TotalIssuance[x]
    BY <1>2, LedgerBounds
  <2> QED BY <1>4, <2>1 DEF LedgerCovers
<1>6. Parties
  <2>1. GenesisConfig.LiquidationAccount \in Spendable
    BY LoanAssumption, LiquidationAccountAssumption DEF Config, Spendable
  <2> QED BY <2>1, <1>3 DEF LoanInit, Parties, LoanIds, LiquidationAccount
<1>7. AssetsOfGenesis /\ PackagesNumbered
  BY DEF LoanInit, AssetsOfGenesis, PackagesNumbered, CollateralAssetId, LoanAssetId
<1>8. TotalsCover
  <2> DEFINE a == GenesisConfig.LoanAssetId
             c == GenesisConfig.CollateralAssetId
  <2>1. /\ a \in AssetId /\ c \in AssetId /\ PawnShop \in AccountId /\ ProfitPool \in AccountId
        /\ LoanAssetEndowed \in Nat /\ Endowed[a][ProfitPool] \in Nat
        /\ a \in GenesisSymbols /\ c \in GenesisSymbols
    BY GenesisNumbers, GenesisAssetsAssumption
  <2>2. FreeBalance[c][PawnShop] \in Nat
    BY <1>2, <2>1, LedgerBounds
  <2>3. TotalIssuance[a] = LoanAssetEndowed /\ FreeBalance[a][ProfitPool] = Endowed[a][ProfitPool]
    BY <2>1 DEF LoanInit, AssetsInit, LoanAssetEndowed
  <2>4. TotalLoan = 0 /\ TotalCollateral = 0 /\ TotalProfit = 0
    BY DEF LoanInit
  <2>5. DebtIn(Loans, LoanPackages, a) = 0 /\ PledgedIn(Loans, LoanPackages, c) = 0
    BY <1>4
  <2> HIDE DEF a, c
  <2>6. /\ PledgedIn(Loans, LoanPackages, c) <= TotalCollateral
        /\ TotalCollateral <= FreeBalance[c][PawnShop]
        /\ DebtIn(Loans, LoanPackages, a) <= TotalLoan
        /\ TotalLoan + LoanAssetEndowed <= TotalIssuance[a]
        /\ TotalProfit + Endowed[a][ProfitPool] <= FreeBalance[a][ProfitPool]
    BY <2>1, <2>2, <2>3, <2>4, <2>5
  <2> QED BY <2>6 DEF TotalsCover, a, c
<1> QED BY <1>1, <1>2, <1>5, <1>6, <1>7, <1>8 DEF LoanLedgerInv

\* The books are covered in every reachable state.
LEMMA LedgerInvHolds == LoanSpec => []LoanLedgerInv
  BY LedgerGenesis, LedgerStep, PTL DEF LoanSpec

\* Until root exchanges an asset, the collateral that borrowers are due back is
\* in TotalCollateral, and TotalCollateral is in the pawn shop: through wrapping
\* arithmetic, failed mints, fees whose transfer fails and liquidations.
THEOREM CollateralAlwaysLocked == LoanSpec => []CollateralIsLocked
<1>1. LoanLedgerInv => CollateralIsLocked
  BY InvCovers
<1> QED BY <1>1, LedgerInvHolds, PTL

\* Until root exchanges an asset, debt, total loan and total profit on the books
\* are at most what has been minted for them.
THEOREM DebtAlwaysIssued == LoanSpec => []DebtIsIssued
<1>1. LoanLedgerInv => DebtIsIssued
  BY InvCovers
<1> QED BY <1>1, LedgerInvHolds, PTL

\* The ways a loan in liquidation may go.
StaysOrIsPaid(i) ==
    \/ /\ Loans'[i] # NoLoan /\ Loans'[i].status = "Liquidating"
       /\ Loans'[i].loan_balance_total >= Loans[i].loan_balance_total
       /\ Loans'[i].collateral_balance_available >= Loans[i].collateral_balance_available
    \/ LET a == PackageOf(Loans[i]).loan_asset_id
       IN  /\ Loans'[i] = NoLoan
           /\ FreeBalance'[a][PawnShop]
                  = FreeBalance[a][PawnShop] + Loans[i].loan_balance_total

\* What each step does to a loan in liquidation.
LEMMA LiquidationStep ==
    ASSUME LoanLedgerInv, [LoanNext]_vars, NEW i \in LiquidatingLoans
    PROVE  StaysOrIsPaid(i)
<1>1. /\ LoanIndexInv /\ Loans \in [LoanId -> LoanRecord \cup {NoLoan}]
      /\ i \in LoanIds /\ Loans[i].status = "Liquidating" /\ i < NextLoanId
  BY DEF LoanLedgerInv, LoanIndexInv, LoanTypeOK, IndexesAgree
<1>2. /\ i \in LoanId /\ Loans[i] # NoLoan /\ Loans[i].loan_balance_total \in Nat
      /\ Loans[i].collateral_balance_available \in Nat /\ i \in Nat /\ NextLoanId \in Nat
  BY <1>1, StoredLoan, MaxBalanceAssumption, LoanAssumption
  DEF Balance, LoanIds, LoanId, LoanIndexInv, LoanTypeOK
<1>3. CASE Loans'[i] = Loans[i]
  BY <1>1, <1>2, <1>3 DEF StaysOrIsPaid
<1>4. ASSUME Loans'[i] # NoLoan, LiquidatingLoans' = LiquidatingLoans
      PROVE  Loans'[i].status = "Liquidating"
  <2>1. IndexesAgree'
    BY <1>1, IndexStep DEF LoanIndexInv
  <2> QED BY <1>4, <2>1 DEF IndexesAgree
<1>5. CASE \/ Configure \/ Environment \/ UNCHANGED vars
           \/ \E p \in Package : create_package(p)
           \/ \E id \in LoanPackageId : disable_package(id)
  <2>1. UNCHANGED loanVars
    BY <1>5 DEF Configure, ConfigOnly, Environment, vars, create_package, disable_package
  <2> QED BY <1>3, <2>1 DEF loanVars
<1>6. ASSUME NEW who \in Borrower, NEW id \in LoanPackageId, NEW o \in Offer,
             apply(who, id, o[1], o[2])
      PROVE  StaysOrIsPaid(i)
  <2>1. Loans' = Loans \/ \E r : Loans' = [Loans EXCEPT ![NextLoanId] = r]
    BY <1>6 DEF apply
  <2> QED BY <1>1, <1>2, <1>3, <2>1
<1>7. ASSUME NEW who \in Borrower, NEW id \in LoanId, repay(who, id) PROVE StaysOrIsPaid(i)
  <2>1. id # i /\ Loans' = [Loans EXCEPT ![id] = NoLoan]
    BY <1>7 DEF repay, check_loan_in_liquidation
  <2> QED BY <1>1, <1>2, <1>3, <2>1
<1>8. ASSUME NEW who \in Borrower, NEW id \in LoanId, NEW n \in DrawAmount, draw(who, id, n)
      PROVE  StaysOrIsPaid(i)
  <2>1. LiquidatingLoans' = LiquidatingLoans
    BY <1>8 DEF draw
  <2>2. CASE id = i
    <3>1. /\ Loans'[i] # NoLoan
          /\ Loans'[i].loan_balance_total >= Loans[i].loan_balance_total
          /\ Loans'[i].collateral_balance_available = Loans[i].collateral_balance_available
      BY <1>8, <2>2, DrawKeepsLedger
    <3> QED BY <1>2, <1>4, <2>1, <3>1 DEF StaysOrIsPaid
  <2>3. CASE id # i
    <3>1. Loans' = Loans \/ Loans' = [Loans EXCEPT ![id].loan_balance_total = Wrap(@ + n)]
      BY <1>8 DEF draw
    <3> QED BY <1>1, <1>2, <1>3, <2>3, <3>1
  <2> QED BY <2>2, <2>3
<1>9. ASSUME NEW who \in Borrower, NEW id \in LoanId, NEW n \in MoreCollateral,
             add_collateral(who, id, n)
      PROVE  StaysOrIsPaid(i)
  <2>1. /\ LiquidatingLoans' = LiquidatingLoans
        /\ Loans' = [Loans EXCEPT ![id].collateral_balance_original = Wrap(@ + n),
                                  ![id].collateral_balance_available = Wrap(@ + n)]
    BY <1>9 DEF add_collateral
  <2>2. CASE id = i
    <3>1. /\ Loans'[i] # NoLoan
          /\ Loans'[i].loan_balance_total = Loans[i].loan_balance_total
          /\ Loans'[i].collateral_balance_available >= Loans[i].collateral_balance_available
      BY <1>9, <2>2, AddCollateralKeepsLedger
    <3> QED BY <1>2, <1>4, <2>1, <3>1 DEF StaysOrIsPaid
  <2>3. CASE id # i
    BY <1>1, <1>2, <1>3, <2>1, <2>3
  <2> QED BY <2>2, <2>3
<1>10. ASSUME NEW who \in AccountId, NEW id \in LoanId, NEW n \in AuctionBalance,
              mark_liquidated(who, id, n)
       PROVE  StaysOrIsPaid(i)
  <2>1. Loans' = [Loans EXCEPT ![id] = NoLoan]
    BY <1>10 DEF mark_liquidated
  <2>2. CASE id = i
    <3>1. FreeBalance'[PackageOf(Loans[i]).loan_asset_id][PawnShop]
              = FreeBalance[PackageOf(Loans[i]).loan_asset_id][PawnShop]
                    + Loans[i].loan_balance_total
      BY <1>10, <2>2, MarkLiquidatedKeepsLedger
    <3>2. Loans'[i] = NoLoan
      BY <1>1, <1>2, <2>1, <2>2
    <3> QED BY <3>1, <3>2 DEF StaysOrIsPaid
  <2>3. CASE id # i
    BY <1>1, <1>2, <1>3, <2>1, <2>3
  <2> QED BY <2>2, <2>3
<1>11. ASSUME NEW elapsed \in 0 .. 1, NewBlock(elapsed) PROVE StaysOrIsPaid(i)
  <2>1. CASE Paused
    BY <1>3, <1>11, <2>1 DEF NewBlock, loanVars
  <2>2. CASE ~Paused
    <3>1. \A j \in LoanId \ Checked : Loans'[j] = Loans[j]
      BY <1>1, <1>11, <2>2, BlockLoans DEF NewBlock
    <3> QED BY <1>2, <1>3, <3>1 DEF Checked
  <2> QED BY <2>1, <2>2
<1> QED BY <1>5, <1>6, <1>7, <1>8, <1>9, <1>10, <1>11 DEF LoanNext

\* A loan that a block has put into liquidation leaves it only when the
\* liquidation account pays its whole debt into the pawn shop; until then it
\* neither shrinks nor is renewed, repaid or released.
THEOREM LiquidationAlwaysFinal == LoanSpec => LiquidationIsFinal
<1>1. LoanLedgerInv /\ [LoanNext]_vars =>
      [\A i \in LiquidatingLoans :
          \/ /\ Loans'[i] # NoLoan /\ Loans'[i].status = "Liquidating"
             /\ Loans'[i].loan_balance_total >= Loans[i].loan_balance_total
             /\ Loans'[i].collateral_balance_available >= Loans[i].collateral_balance_available
          \/ LET a == PackageOf(Loans[i]).loan_asset_id
             IN  /\ Loans'[i] = NoLoan
                 /\ FreeBalance'[a][PawnShop]
                        = FreeBalance[a][PawnShop] + Loans[i].loan_balance_total]_vars
  <2> SUFFICES ASSUME LoanLedgerInv, [LoanNext]_vars, NEW i \in LiquidatingLoans
               PROVE  StaysOrIsPaid(i)
    BY DEF StaysOrIsPaid
  <2> QED BY LiquidationStep
<1> QED BY <1>1, LedgerInvHolds, PTL DEF LoanSpec, LiquidationIsFinal
=============================================================================
