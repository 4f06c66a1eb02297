------------------------------ MODULE FeeProofs ------------------------------
(***************************************************************************)
(* Theorems about the fee charge, for any fees, tips and accounts.         *)
(***************************************************************************)
EXTENDS Fee, AssetsProofs

\* The two saturating operations of an imbalance drop stay in the range.
LEMMA SaturatingInRange ==
    ASSUME NEW m \in Balance, NEW n \in Balance
    PROVE  /\ SaturatingAdd(m, n) \in Balance
           /\ SaturatingSub(m, n) \in Balance
           /\ m + n <= MaxBalance => SaturatingAdd(m, n) = m + n
<1>1. m \in Nat /\ n \in Nat /\ m + n \in Nat /\ MaxBalance \in Nat
  BY MaxBalanceAssumption DEF Balance
<1>2. SaturatingAdd(m, n) = IF m + n <= MaxBalance THEN m + n ELSE MaxBalance
  <2> DEFINE k == m + n
  <2>1. k \in Nat
    BY <1>1
  <2> HIDE DEF k
  <2>2. Min({k, MaxBalance}) = IF k <= MaxBalance THEN k ELSE MaxBalance
    BY <1>1, <2>1 DEF Min
  <2> QED BY <2>2 DEF SaturatingAdd, k
<1> QED BY <1>1, <1>2 DEF SaturatingSub, Balance

\* A fee is a balance.
LEMMA FeeInRange ==
    ASSUME NEW p \in BOOLEAN, NEW n \in Adjustable, NEW t \in Tip
    PROVE  compute_fee(p, n, t) \in Balance
<1>1. TransactionBaseFee \in Balance /\ n \in Balance /\ t \in Balance
  BY FeeAssumption
<1>2. SaturatingAdd(TransactionBaseFee, n) \in Balance
  BY <1>1, SaturatingInRange
<1>3. SaturatingAdd(SaturatingAdd(TransactionBaseFee, n), t) \in Balance
  BY <1>1, <1>2, SaturatingInRange
<1> QED BY <1>1, <1>3 DEF compute_fee

\* What buy_fee_asset converts is at most the fee and at most what is locked.
LEMMA BoughtBounds ==
    ASSUME AssetsTypeOK, NEW w \in AccountId, NEW fee \in Balance
    PROVE  /\ FeeAssetBought(w, fee) \in Balance
           /\ FeeAssetBought(w, fee) <= fee
           /\ FeeAssetBought(w, fee) <= FreeBalance[LOCKED_RFUEL][w]
<1> DEFINE l == FreeBalance[LOCKED_RFUEL][w]
<1>1. l \in Balance
  BY FeeAssumption DEF AssetsTypeOK
<1>2. l \in Nat /\ fee \in Nat /\ MaxBalance \in Nat /\ fee <= MaxBalance /\ l <= MaxBalance
  BY <1>1, MaxBalanceAssumption DEF Balance
<1> HIDE DEF l
<1>3. Min({fee, l, MaxBalance}) = IF fee <= l THEN fee ELSE l
  BY <1>2 DEF Min
<1> QED BY <1>1, <1>2, <1>3 DEF FeeAssetBought, l

\* What a charge of account w writes, given the intermediate values of `validate`:
\* RFUEL is bought for LOCKED_RFUEL (funded, issued), the payer pays the fee
\* (paid) and the fee account receives it (collected).
Charged(w, fee, bought, funded, paid, collected, issued) ==
    /\ bought <= fee
    /\ bought <= FreeBalance[LOCKED_RFUEL][w]
    /\ funded = [FreeBalance[RFUEL] EXCEPT ![w] = FreeBalance[RFUEL][w] + bought]
    /\ fee <= funded[w]
    /\ issued = SaturatingAdd(TotalIssuance[RFUEL], bought)
    /\ paid = [funded EXCEPT ![w] = funded[w] - fee]
    /\ collected = [paid EXCEPT ![FeeAccount] = Wrap(paid[FeeAccount] + fee)]
    /\ FreeBalance' = [FreeBalance EXCEPT
           ![LOCKED_RFUEL] = [FreeBalance[LOCKED_RFUEL] EXCEPT
                                 ![w] = FreeBalance[LOCKED_RFUEL][w] - bought],
           ![RFUEL] = collected]
    /\ TotalIssuance' = [TotalIssuance EXCEPT
           ![LOCKED_RFUEL] = SaturatingSub(TotalIssuance[LOCKED_RFUEL], bought),
           ![RFUEL] = SaturatingSub(
                          Squared(issued, paid[FeeAccount], collected[FeeAccount]),
                          fee)]
    /\ saturated' = (\/ saturated
                     \/ TotalIssuance[RFUEL] + bought > MaxBalance
                     \/ issued + fee > MaxBalance)

\* Every charge writes as Charged says, with well-typed intermediate balances.
LEMMA ChargeWrites ==
    ASSUME AssetsTypeOK, FeeAccount \in AccountId, NEW w \in AccountId, NEW p \in BOOLEAN,
           NEW n \in Adjustable, NEW t \in Tip, Charge(w, p, n, t)
    PROVE  \E fee \in Balance, bought \in Balance, funded \in [AccountId -> Balance],
              paid \in [AccountId -> Balance], collected \in [AccountId -> Balance],
              issued \in Balance :
              Charged(w, fee, bought, funded, paid, collected, issued)
<1> DEFINE fee       == compute_fee(p, n, t)
           bought    == FeeAssetBought(w, fee)
           funded    == [FreeBalance[RFUEL] EXCEPT ![w] = @ + bought]
           issued    == SaturatingAdd(TotalIssuance[RFUEL], bought)
           paid      == [funded EXCEPT ![w] = @ - fee]
           collected == Collected(paid, fee)
           squared   == Squared(issued, paid[FeeAccount], collected[FeeAccount])
<1>1. /\ BetweenAssetsOk(LOCKED_RFUEL, RFUEL, w, bought)
      /\ fee <= funded[w]
      /\ FreeBalance' = [FreeBalance EXCEPT ![LOCKED_RFUEL][w] = @ - bought,
                                            ![RFUEL] = collected]
      /\ TotalIssuance' = [TotalIssuance EXCEPT
                              ![LOCKED_RFUEL] = SaturatingSub(@, bought),
                              ![RFUEL] = SaturatingSub(squared, fee)]
      /\ saturated' = \/ saturated
                      \/ TotalIssuance[RFUEL] + bought > MaxBalance
                      \/ issued + fee > MaxBalance
  BY DEF Charge
<1>2. fee \in Balance
  BY FeeInRange
<1> HIDE DEF fee
<1>3. bought \in Balance /\ bought <= fee /\ bought <= FreeBalance[LOCKED_RFUEL][w]
  BY <1>2, BoughtBounds
<1> HIDE DEF bought
<1>4. RFUEL \in AssetId /\ LOCKED_RFUEL \in AssetId /\ RFUEL # LOCKED_RFUEL
  BY FeeAssumption
<1>5. issued \in Balance
  BY <1>3, <1>4, SaturatingInRange DEF AssetsTypeOK
<1>6. funded = [FreeBalance[RFUEL] EXCEPT ![w] = FreeBalance[RFUEL][w] + bought]
  BY <1>4 DEF AssetsTypeOK
<1>7. FreeBalance[RFUEL][w] + bought \in Balance
  BY <1>1, <1>3, <1>4, MaxBalanceAssumption DEF BetweenAssetsOk, AssetsTypeOK, Balance
<1>8. funded \in [AccountId -> Balance]
  BY <1>4, <1>6, <1>7 DEF AssetsTypeOK
<1> HIDE DEF funded, issued
<1>9. funded[w] - fee \in Balance
  BY <1>1, <1>2, <1>8, MaxBalanceAssumption DEF Balance
<1>10. paid = [funded EXCEPT ![w] = funded[w] - fee] /\ paid \in [AccountId -> Balance]
  BY <1>8, <1>9
<1> HIDE DEF paid
<1>11. Wrap(paid[FeeAccount] + fee) \in Balance
  BY <1>2, <1>10, WrapInRange, MaxBalanceAssumption DEF Balance
<1>12. /\ collected = [paid EXCEPT ![FeeAccount] = Wrap(paid[FeeAccount] + fee)]
       /\ collected \in [AccountId -> Balance]
  BY <1>10, <1>11 DEF Collected
<1> HIDE DEF collected
<1>13. /\ FreeBalance' = [FreeBalance EXCEPT
                     ![LOCKED_RFUEL] = [FreeBalance[LOCKED_RFUEL] EXCEPT
                                           ![w] = FreeBalance[LOCKED_RFUEL][w] - bought],
                     ![RFUEL] = collected]
       /\ TotalIssuance' = [TotalIssuance EXCEPT
                     ![LOCKED_RFUEL] = SaturatingSub(TotalIssuance[LOCKED_RFUEL], bought),
                     ![RFUEL] = SaturatingSub(squared, fee)]
  BY <1>1, <1>4 DEF AssetsTypeOK
<1> HIDE DEF squared
<1>14. squared = Squared(issued, paid[FeeAccount], collected[FeeAccount])
  BY DEF squared
<1>15. issued = SaturatingAdd(TotalIssuance[RFUEL], bought)
  BY DEF issued
<1>16. saturated' = (\/ saturated
                     \/ TotalIssuance[RFUEL] + bought > MaxBalance
                     \/ issued + fee > MaxBalance)
  BY <1>1
<1> USE <1>2, <1>3, <1>5, <1>8, <1>10, <1>12
<1> WITNESS fee \in Balance, bought \in Balance, funded \in [AccountId -> Balance],
            paid \in [AccountId -> Balance], collected \in [AccountId -> Balance],
            issued \in Balance
<1> QED BY <1>1, <1>6, <1>13, <1>14, <1>15, <1>16, Zenon DEF Charged
\* What the charges and the ledger calls leave well typed.
FeeTypeOK == AssetsTypeOK /\ FeeAccount \in AccountId /\ saturated \in BOOLEAN

\* A charge leaves the ledger well typed, saturating or not.
LEMMA ChargeType ==
    ASSUME FeeTypeOK, NEW w \in AccountId, NEW p \in BOOLEAN,
           NEW n \in Adjustable, NEW t \in Tip, Charge(w, p, n, t)
    PROVE  FeeTypeOK'
<1> USE DEF FeeTypeOK
<1>1. PICK fee \in Balance, bought \in Balance, funded \in [AccountId -> Balance],
           paid \in [AccountId -> Balance], collected \in [AccountId -> Balance],
           issued \in Balance : Charged(w, fee, bought, funded, paid, collected, issued)
  BY ChargeWrites
<1>2. RFUEL \in AssetId /\ LOCKED_RFUEL \in AssetId /\ RFUEL # LOCKED_RFUEL
  BY FeeAssumption
<1>3. /\ FreeBalance[LOCKED_RFUEL][w] - bought \in Balance
      /\ SaturatingSub(TotalIssuance[LOCKED_RFUEL], bought) \in Balance
  <2>1. /\ FreeBalance[LOCKED_RFUEL][w] \in Balance /\ TotalIssuance[LOCKED_RFUEL] \in Balance
        /\ bought <= FreeBalance[LOCKED_RFUEL][w]
    BY <1>1, <1>2 DEF Charged, AssetsTypeOK
  <2>2. FreeBalance[LOCKED_RFUEL][w] - bought \in Balance
    BY <2>1, MaxBalanceAssumption DEF Balance
  <2> QED BY <2>1, <2>2, SaturatingInRange
<1>4. Squared(issued, paid[FeeAccount], collected[FeeAccount]) \in Balance
  <2>1. ASSUME NEW m \in Balance, NEW k \in Balance PROVE Squared(issued, m, k) \in Balance
    <3>1. CASE m <= k
      <4>1. k - m \in Balance
        BY <3>1, MaxBalanceAssumption DEF Balance
      <4> QED BY <3>1, <4>1, SaturatingInRange DEF Squared
    <3>2. CASE ~(m <= k)
      <4>1. m - k \in Balance
        BY <3>2, MaxBalanceAssumption DEF Balance
      <4> QED BY <3>2, <4>1, SaturatingInRange DEF Squared
    <3> QED BY <3>1, <3>2
  <2> QED BY <2>1
<1>5. SaturatingSub(Squared(issued, paid[FeeAccount], collected[FeeAccount]), fee) \in Balance
  BY <1>4, SaturatingInRange
<1>6. FreeBalance' \in [AssetId -> [AccountId -> Balance]]
  BY <1>1, <1>2, <1>3 DEF Charged, AssetsTypeOK
<1>7. TotalIssuance' \in [AssetId -> Balance]
  BY <1>1, <1>2, <1>3, <1>5 DEF Charged, AssetsTypeOK
<1>8. /\ UNCHANGED <<ReservedBalance, Permissions, Restrictions, Symbols, rootKey, FeeAccount>>
      /\ FromId' = LOCKED_RFUEL /\ ToId' = RFUEL
  BY DEF Charge
<1>9. saturated' \in BOOLEAN
  BY <1>1, Zenon DEF Charged
<1> QED BY <1>2, <1>6, <1>7, <1>8, <1>9 DEF AssetsTypeOK

\* A charge during which no issuance saturates leaves the issuance of every
\* asset the sum of its balances.
LEMMA ChargeKeepsIssuance ==
    ASSUME FeeTypeOK, FeeTypeOK', IssuanceIsHeld, NEW w \in AccountId, NEW p \in BOOLEAN,
           NEW n \in Adjustable, NEW t \in Tip, Charge(w, p, n, t), ~saturated'
    PROVE  IssuanceIsHeld'
<1> USE DEF FeeTypeOK
<1>1. PICK fee \in Balance, bought \in Balance, funded \in [AccountId -> Balance],
           paid \in [AccountId -> Balance], collected \in [AccountId -> Balance],
           issued \in Balance : Charged(w, fee, bought, funded, paid, collected, issued)
  BY ChargeWrites
<1>2. RFUEL \in AssetId /\ LOCKED_RFUEL \in AssetId /\ RFUEL # LOCKED_RFUEL
  BY FeeAssumption
<1> DEFINE F == FeeAccount
           free == FreeBalance[RFUEL]
           total == TotalIssuance[RFUEL]
<1>3. /\ fee \in Nat /\ bought \in Nat /\ free \in [AccountId -> Balance] /\ total \in Balance
      /\ free[w] \in Nat /\ free[F] \in Nat /\ total \in Nat /\ MaxBalance \in Nat
      /\ F \in AccountId /\ issued \in Nat
  BY <1>2, MaxBalanceAssumption DEF AssetsTypeOK, Balance
<1>4. /\ bought <= fee /\ fee <= funded[w]
      /\ funded = [free EXCEPT ![w] = free[w] + bought]
      /\ issued = SaturatingAdd(total, bought)
      /\ paid = [funded EXCEPT ![w] = funded[w] - fee]
      /\ collected = [paid EXCEPT ![F] = Wrap(paid[F] + fee)]
  BY <1>1 DEF Charged
<1>5. total + bought <= MaxBalance /\ issued + fee <= MaxBalance
  <2>1. ~(total + bought > MaxBalance) /\ ~(issued + fee > MaxBalance)
    BY <1>1, Zenon DEF Charged
  <2> HIDE DEF total
  <2> QED BY <1>3, <2>1
<1>6. issued = total + bought
  <2> HIDE DEF total
  <2> QED BY <1>3, <1>4, <1>5, SaturatingInRange
<1>7. funded[w] = free[w] + bought /\ \A v \in AccountId \ {w} : funded[v] = free[v]
  <2> HIDE DEF free
  <2> QED BY <1>3, <1>4
<1>8. paid[F] + fee \in Balance /\ paid[F] \in Nat
  <2>1. CASE w = F
    <3>1. paid[F] = funded[w] - fee
      BY <1>4, <2>1
    <3> QED BY <1>3, <1>4, <2>1, <3>1, MaxBalanceAssumption DEF Balance
  <2>2. CASE w # F
    <3>1. paid[F] = free[F]
      <4> HIDE DEF free
      <4> QED BY <1>3, <1>4, <1>7, <2>2
    <3>2. free[w] + free[F] <= total
      BY <1>2, <1>3, <2>2, HeldFits
    <3> HIDE DEF free, total, F
    <3> QED BY <1>3, <1>4, <1>5, <1>7, <3>1, <3>2 DEF Balance
  <2> QED BY <2>1, <2>2
<1>9. collected[F] = paid[F] + fee
  BY <1>3, <1>4, <1>8, WrapFits
<1>10. Squared(issued, paid[F], collected[F]) = issued + fee
  <2>1. paid[F] <= collected[F] /\ collected[F] - paid[F] = fee
    BY <1>3, <1>8, <1>9
  <2>2. SaturatingAdd(issued, fee) = issued + fee
    BY <1>5, SaturatingInRange
  <2> QED BY <2>1, <2>2 DEF Squared
<1>11. SaturatingSub(issued + fee, fee) = total + bought
  <2> HIDE DEF total
  <2> QED BY <1>3, <1>6 DEF SaturatingSub
<1>12. SumFunction(funded) = SumFunction(free) + bought
  <2>1. SumFunction(funded) + free[w] = SumFunction(free) + funded[w]
    <3> HIDE DEF free
    <3> QED BY <1>3, <1>7, TotalChanges
  <2>2. SumFunction(funded) \in Nat /\ SumFunction(free) \in Nat
    <3> HIDE DEF free
    <3> QED BY <1>3, TotalIsSum
  <2> HIDE DEF free
  <2> QED BY <1>3, <1>7, <2>1, <2>2
<1>13. SumFunction(collected) = SumFunction(funded)
  <2>1. CASE w = F
    <3>1. collected[w] = funded[w]
      BY <1>3, <1>4, <1>9, <2>1, MaxBalanceAssumption DEF Balance
    <3>2. \A v \in AccountId : collected[v] = funded[v]
      BY <1>4, <3>1, <2>1
    <3> QED BY <3>2
  <2>2. CASE w # F
    <3>1. paid[F] = funded[F] /\ paid[w] = funded[w] - fee /\ collected[w] = paid[w]
      BY <1>3, <1>4, <2>2
    <3>2. funded[w] + funded[F] = collected[w] + collected[F]
      <4> funded[w] \in Nat /\ funded[F] \in Nat
        BY <1>3, MaxBalanceAssumption DEF Balance
      <4> QED BY <1>3, <1>9, <3>1
    <3>3. \A u \in AccountId \ {w, F} : funded[u] = collected[u]
      BY <1>4
    <3> HIDE DEF F
    <3> QED BY <1>3, <2>2, <3>2, <3>3, TotalStays
  <2> QED BY <2>1, <2>2
<1>14. /\ FreeBalance'[RFUEL] = collected
       /\ TotalIssuance'[RFUEL] = total + bought
  BY <1>1, <1>2, <1>10, <1>11 DEF Charged, AssetsTypeOK
<1> DEFINE locked == FreeBalance[LOCKED_RFUEL]
           ltotal == TotalIssuance[LOCKED_RFUEL]
           lrest  == FreeBalance'[LOCKED_RFUEL]
<1>15. /\ lrest[w] = locked[w] - bought
       /\ \A v \in AccountId \ {w} : lrest[v] = locked[v]
       /\ TotalIssuance'[LOCKED_RFUEL] = SaturatingSub(ltotal, bought)
  BY <1>1, <1>2 DEF Charged, AssetsTypeOK
<1>16. /\ locked \in [AccountId -> Balance] /\ lrest \in [AccountId -> Balance]
       /\ bought <= locked[w] /\ locked[w] \in Nat /\ ltotal \in Nat
  <2>1. /\ locked \in [AccountId -> Balance] /\ lrest \in [AccountId -> Balance]
        /\ ltotal \in Balance
    BY <1>2 DEF AssetsTypeOK
  <2>2. bought <= locked[w]
    BY <1>1 DEF Charged
  <2> HIDE DEF locked, lrest, ltotal
  <2> QED BY <2>1, <2>2, MaxBalanceAssumption DEF Balance
<1>17. locked[w] <= ltotal
  <2>1. /\ locked[w] + ReservedBalance[LOCKED_RFUEL][w] <= ltotal
        /\ ReservedBalance[LOCKED_RFUEL][w] \in Nat
    BY <1>2, HeldFits, MaxBalanceAssumption DEF AssetsTypeOK, Balance
  <2> HIDE DEF locked, ltotal
  <2> QED BY <1>16, <2>1
<1>18. TotalIssuance'[LOCKED_RFUEL] = ltotal - bought
  <2> HIDE DEF locked, ltotal
  <2> QED BY <1>3, <1>15, <1>16, <1>17 DEF SaturatingSub
<1>19. SumFunction(lrest) = SumFunction(locked) - bought
  <2>1. SumFunction(lrest) + locked[w] = SumFunction(locked) + lrest[w]
    <3> HIDE DEF locked, lrest
    <3> QED BY <1>15, <1>16, TotalChanges
  <2>2. SumFunction(lrest) \in Nat /\ SumFunction(locked) \in Nat
    <3> HIDE DEF locked, lrest
    <3> QED BY <1>16, TotalIsSum
  <2> HIDE DEF locked, lrest
  <2> QED BY <1>3, <1>15, <1>16, <2>1, <2>2
<1>20. \A b \in AssetId \ {RFUEL, LOCKED_RFUEL} :
           FreeBalance'[b] = FreeBalance[b] /\ TotalIssuance'[b] = TotalIssuance[b]
  BY <1>1, <1>2 DEF Charged, AssetsTypeOK
<1>21. ReservedBalance' = ReservedBalance
  BY DEF Charge
<1> DEFINE R(b) == SumFunction(ReservedBalance[b])
           S(b) == SumFunction(FreeBalance[b])
<1>22. \A b \in AssetId : S(b) \in Nat /\ R(b) \in Nat /\ TotalIssuance[b] = S(b) + R(b)
  <2>1. ASSUME NEW b \in AssetId
        PROVE  FreeBalance[b] \in [AccountId -> Balance] /\ ReservedBalance[b] \in [AccountId -> Balance]
    BY DEF AssetsTypeOK
  <2> QED BY <2>1, TotalIsSum DEF IssuanceIsHeld, Held
<1>23. TotalIssuance'[RFUEL] = SumFunction(FreeBalance'[RFUEL]) + R(RFUEL)
  <2>1. total = S(RFUEL) + R(RFUEL) /\ S(RFUEL) \in Nat /\ R(RFUEL) \in Nat
    BY <1>2, <1>22
  <2>2. SumFunction(FreeBalance'[RFUEL]) = S(RFUEL) + bought
    BY <1>12, <1>13, <1>14
  <2> HIDE DEF total, R, S
  <2> QED BY <1>3, <1>14, <2>1, <2>2
<1>24. TotalIssuance'[LOCKED_RFUEL] = SumFunction(FreeBalance'[LOCKED_RFUEL]) + R(LOCKED_RFUEL)
  <2>1. ltotal = S(LOCKED_RFUEL) + R(LOCKED_RFUEL) /\ S(LOCKED_RFUEL) \in Nat /\ R(LOCKED_RFUEL) \in Nat
    BY <1>2, <1>22
  <2>2. SumFunction(FreeBalance'[LOCKED_RFUEL]) = S(LOCKED_RFUEL) - bought
    BY <1>19
  <2> HIDE DEF ltotal, R, S
  <2> QED BY <1>3, <1>18, <2>1, <2>2
<1>25. \A b \in AssetId : TotalIssuance'[b] = SumFunction(FreeBalance'[b]) + R(b)
  BY <1>20, <1>22, <1>23, <1>24
<1> QED BY <1>21, <1>25 DEF IssuanceIsHeld, Held
\* The ledger stays well typed under charges and ledger calls.
LEMMA FeeStepType == FeeTypeOK /\ [FeeNext]_feeVars => FeeTypeOK'
<1> SUFFICES ASSUME FeeTypeOK, [FeeNext]_feeVars PROVE FeeTypeOK'
  OBVIOUS
<1>1. ASSUME NEW w \in AccountId, NEW p \in BOOLEAN, NEW n \in Adjustable, NEW t \in Tip,
             Charge(w, p, n, t)
      PROVE  FeeTypeOK'
  BY <1>1, ChargeType
<1>2. ASSUME NEW w \in AccountId, SetAccount(w) PROVE FeeTypeOK'
  <2>1. AssetsTypeOK'
    BY <1>2, LedgerStepType DEF SetAccount, FeeTypeOK
  <2> QED BY <1>2, <2>1 DEF SetAccount, FeeTypeOK
<1>3. CASE BalanceNext /\ UNCHANGED <<FeeAccount, saturated>>
  <2>1. AssetsTypeOK'
    BY <1>3, LedgerStepType DEF AssetsNext, FeeTypeOK
  <2> QED BY <1>3, <2>1 DEF FeeTypeOK
<1>4. CASE UNCHANGED feeVars
  <2>1. AssetsTypeOK'
    BY <1>4, LedgerStepType DEF feeVars, FeeTypeOK
  <2> QED BY <1>4, <2>1 DEF feeVars, FeeTypeOK
<1> QED BY <1>1, <1>2, <1>3, <1>4 DEF FeeNext

\* Types hold in every reachable state.
LEMMA FeeTypeCorrect == FeeSpec => []FeeTypeOK
<1>1. FeeInit => FeeTypeOK
  BY GenesisType, FeeAssumption DEF FeeInit, FeeTypeOK
<1> QED BY <1>1, FeeStepType, PTL DEF FeeSpec

\* Whatever is charged, converted and tipped, the imbalances of a charge cancel
\* out: the issuance of every asset is the sum of its balances, unless an
\* issuance has saturated before.
THEOREM ChargesCancelOut == FeeSpec => []IssuanceIsHeldUnlessSaturated
<1>1. FeeInit => IssuanceIsHeldUnlessSaturated
  BY GenesisType, GenesisIssuance DEF FeeInit, IssuanceIsHeldUnlessSaturated
<1>2. FeeTypeOK /\ FeeTypeOK' /\ IssuanceIsHeldUnlessSaturated /\ [FeeNext]_feeVars
          => IssuanceIsHeldUnlessSaturated'
  <2> SUFFICES ASSUME FeeTypeOK, FeeTypeOK', IssuanceIsHeldUnlessSaturated, [FeeNext]_feeVars,
                      ~saturated'
               PROVE  IssuanceIsHeld'
    BY DEF IssuanceIsHeldUnlessSaturated
  <2>1. ASSUME NEW w \in AccountId, NEW p \in BOOLEAN, NEW n \in Adjustable, NEW t \in Tip,
               Charge(w, p, n, t)
        PROVE  IssuanceIsHeld'
    <3>1. ~saturated
      BY <2>1, Zenon DEF Charge
    <3> QED BY <2>1, <3>1, ChargeKeepsIssuance DEF IssuanceIsHeldUnlessSaturated
  <2>2. CASE BalanceNext /\ UNCHANGED <<FeeAccount, saturated>>
    <3>1. IssuanceIsHeld
      BY <2>2 DEF IssuanceIsHeldUnlessSaturated
    <3> QED BY <2>2, <3>1, BalanceStepKeepsIssuance DEF FeeTypeOK
  <2>3. CASE UNCHANGED <<assetVars, saturated>>
    BY <2>3 DEF IssuanceIsHeldUnlessSaturated, IssuanceIsHeld, Held, assetVars, balanceVars
  <2> QED BY <2>1, <2>2, <2>3 DEF FeeNext, SetAccount, feeVars
<1> QED BY <1>1, <1>2, FeeTypeCorrect, PTL DEF FeeSpec

\* No step turns LOCKED_RFUEL into RFUEL that its holder can spend.
THEOREM LockedIsNeverSpendable == FeeSpec => LockedOnlyPaysFees
<1>1. ASSUME FeeTypeOK, [FeeNext]_feeVars, NEW v \in AccountId \ {FeeAccount},
             FreeBalance'[LOCKED_RFUEL][v] < FreeBalance[LOCKED_RFUEL][v]
      PROVE  FreeBalance'[RFUEL][v] <= FreeBalance[RFUEL][v]
  <2> USE <1>1
  <2>1. RFUEL \in AssetId /\ LOCKED_RFUEL \in AssetId /\ RFUEL # LOCKED_RFUEL
    BY FeeAssumption
  <2>2. /\ FreeBalance[RFUEL] \in [AccountId -> Balance]
        /\ FreeBalance[RFUEL][v] \in Nat /\ FreeBalance[LOCKED_RFUEL][v] \in Nat
    BY <2>1, MaxBalanceAssumption DEF FeeTypeOK, AssetsTypeOK, Balance
  <2>3. FreeBalance'[LOCKED_RFUEL][v] # FreeBalance[LOCKED_RFUEL][v]
    BY <2>2
  <2>4. FreeBalance'[RFUEL] = FreeBalance[RFUEL] => FreeBalance'[RFUEL][v] <= FreeBalance[RFUEL][v]
    BY <2>2
  <2>5. ASSUME NEW w \in AccountId, NEW p \in BOOLEAN, NEW n \in Adjustable, NEW t \in Tip,
               Charge(w, p, n, t)
        PROVE  FreeBalance'[RFUEL][v] <= FreeBalance[RFUEL][v]
    <3>1. PICK fee \in Balance, bought \in Balance, funded \in [AccountId -> Balance],
               paid \in [AccountId -> Balance], collected \in [AccountId -> Balance],
               issued \in Balance : Charged(w, fee, bought, funded, paid, collected, issued)
      BY <2>5, ChargeWrites DEF FeeTypeOK
    <3>2. w = v
      BY <2>1, <2>3, <3>1 DEF Charged, FeeTypeOK, AssetsTypeOK
    <3>3. FreeBalance'[RFUEL] = collected /\ FeeAccount # v /\ FeeAccount \in AccountId
      BY <2>1, <3>1 DEF Charged, FeeTypeOK, AssetsTypeOK
    <3>4. /\ funded = [FreeBalance[RFUEL] EXCEPT ![w] = FreeBalance[RFUEL][w] + bought]
          /\ paid = [funded EXCEPT ![w] = funded[w] - fee]
          /\ collected = [paid EXCEPT ![FeeAccount] = Wrap(paid[FeeAccount] + fee)]
          /\ bought <= fee
      BY <3>1 DEF Charged
    <3>5. collected[v] = (FreeBalance[RFUEL][v] + bought) - fee
      BY <2>2, <3>2, <3>3, <3>4
    <3>6. bought \in Nat /\ fee \in Nat
      BY MaxBalanceAssumption DEF Balance
    <3> QED BY <2>2, <3>3, <3>4, <3>5, <3>6
  <2>6. ASSUME NEW a \in AssetId, NEW from \in AccountId, NEW to \in AccountId, NEW n \in Amount,
               \/ Transfer(a, from, to, n)
               \/ Mint(a, to, n) \/ Burn(a, to, n)
               \/ SetReserve(a, to, n) \/ SetUnreserve(a, to, n)
        PROVE  FreeBalance'[RFUEL] = FreeBalance[RFUEL]
    <3>1. \A b \in AssetId \ {a} : FreeBalance'[b] = FreeBalance[b]
      BY <2>6 DEF Transfer, Transferred, Moved, Mint, Minted, Burn, Burned, SetReserve,
                  SetUnreserve, FeeTypeOK, AssetsTypeOK
    <3> QED BY <2>1, <2>3, <3>1
  <2>7. CASE BalanceNext
    <3>1. FreeBalance'[RFUEL] = FreeBalance[RFUEL]
      BY <2>6, <2>7 DEF BalanceNext
    <3> QED BY <2>4, <3>1
  <2>8. CASE FreeBalance' = FreeBalance
    BY <2>4, <2>8
  <2> QED
    BY <2>5, <2>7, <2>8 DEF FeeNext, SetAccount, feeVars, assetVars, balanceVars
<1>2. FeeTypeOK /\ [FeeNext]_feeVars =>
        [\A w \in AccountId \ {FeeAccount} :
            FreeBalance'[LOCKED_RFUEL][w] < FreeBalance[LOCKED_RFUEL][w]
                => FreeBalance'[RFUEL][w] <= FreeBalance[RFUEL][w]]_feeVars
  BY <1>1
<1> QED BY <1>2, FeeTypeCorrect, PTL DEF FeeSpec, LockedOnlyPaysFees
=============================================================================
