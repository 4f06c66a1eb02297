---------------------------- MODULE AssetsProofs ----------------------------
(***************************************************************************)
(* Theorems about the ledger, for any assets, accounts and balance width.  *)
(***************************************************************************)
EXTENDS Assets, Sums, TLAPS

\* Unchecked additions wrap into the balance range.
LEMMA WrapInRange ==
    ASSUME NEW n \in Nat
    PROVE  Wrap(n) \in Balance
  BY MaxBalanceAssumption DEF Wrap, Balance

\* Wrapped arithmetic and divisions of it stay balances.
LEMMA WrapInt ==
    ASSUME NEW n \in Int
    PROVE  Wrap(n) \in Balance
  BY MaxBalanceAssumption DEF Wrap, Balance

\* A quotient of a balance is a balance.
LEMMA QuotientFits ==
    ASSUME NEW n \in Balance, NEW d \in Nat, d # 0
    PROVE  n \div d \in Balance
<1>1. n \in Nat /\ MaxBalance \in Nat /\ n <= MaxBalance
  BY MaxBalanceAssumption DEF Balance
<1>2. n \div d \in Nat /\ n \div d <= n
  BY <1>1
<1> QED BY <1>1, <1>2 DEF Balance

\* A product of numbers is a number, and not zero unless a factor is.
LEMMA ProductIsNat ==
    ASSUME NEW m \in Nat, NEW n \in Nat
    PROVE  m * n \in Nat /\ (m # 0 /\ n # 0 => m * n # 0)
  OBVIOUS

\* The free balances of all accounts in all assets.
Ledger == [AssetId -> [AccountId -> Balance]]

\* A move of what an account has leaves well-typed balances.
LEMMA MovedType ==
    ASSUME NEW free \in Ledger, NEW a \in AssetId, NEW from \in AccountId,
           NEW to \in AccountId, NEW n \in Nat, n <= free[a][from]
    PROVE  Moved(free, a, from, to, n) \in Ledger
<1>1. free[a][from] - n \in Balance
  BY MaxBalanceAssumption DEF Ledger, Balance
<1>2. ASSUME NEW m \in Balance PROVE Wrap(m + n) \in Balance
  BY MaxBalanceAssumption, WrapInRange DEF Balance
<1>3. CASE from = to
  BY <1>3 DEF Moved
<1>4. CASE from # to
  <2>1. [free[a] EXCEPT ![from] = @ - n, ![to] = Wrap(@ + n)] \in [AccountId -> Balance]
    BY <1>1, <1>2, <1>4 DEF Ledger
  <2> QED BY <1>4, <2>1 DEF Moved, Ledger
<1> QED BY <1>3, <1>4

\* A transfer that make_transfer accepts leaves well-typed balances.
LEMMA TransferredType ==
    ASSUME AssetsTypeOK, NEW a \in AssetId, NEW from \in AccountId, NEW to \in AccountId,
           NEW n \in Balance, n <= FreeBalance[a][from]
    PROVE  Transferred(a, from, to, n) \in [AssetId -> [AccountId -> Balance]]
<1>1. FreeBalance \in Ledger /\ n \in Nat
  BY MaxBalanceAssumption DEF AssetsTypeOK, Ledger, Balance
<1>2. Moved(FreeBalance, a, from, to, n) \in Ledger
  BY <1>1, MovedType
<1> QED BY <1>2 DEF Transferred, Ledger

\* The genesis configuration is well typed.
LEMMA GenesisType == AssetsInit => AssetsTypeOK
<1> SUFFICES ASSUME AssetsInit PROVE AssetsTypeOK
  OBVIOUS
<1>1. TotalIssuance \in [AssetId -> Balance]
  BY GenesisAssumption, MaxBalanceAssumption DEF AssetsInit, Balance
<1>2. FreeBalance \in [AssetId -> [AccountId -> Balance]]
  BY GenesisAssumption, MaxBalanceAssumption DEF AssetsInit, Balance
<1>3. ReservedBalance \in [AssetId -> [AccountId -> Balance]]
  BY MaxBalanceAssumption DEF AssetsInit, Balance
<1>4. Permissions \in [AssetId -> PermissionLatest]
  BY GenesisAssumption DEF AssetsInit, PermissionLatest, OwnedBy, NoPermission, Owner
<1>5. /\ Restrictions \in [AssetId -> SUBSET Restriction]
      /\ Symbols \subseteq AssetId
      /\ FromId \in AssetId \cup {NoAsset}
      /\ ToId \in AssetId \cup {NoAsset}
      /\ rootKey \in AccountId
  BY GenesisAssumption DEF AssetsInit
<1> QED BY <1>1, <1>2, <1>3, <1>4, <1>5 DEF AssetsTypeOK

\* Every call of the ledger leaves its storage well typed: checked or not, no
\* arithmetic of the module leaves the range of Balance.
LEMMA LedgerStepType == AssetsTypeOK /\ [AssetsNext]_assetVars => AssetsTypeOK'
<1> SUFFICES ASSUME AssetsTypeOK, [AssetsNext]_assetVars PROVE AssetsTypeOK'
  OBVIOUS
<1> USE AmountAssumption, MaxBalanceAssumption
<1>1. ASSUME NEW a \in AssetId, NEW from \in AccountId, NEW to \in AccountId,
             NEW n \in Amount, Transfer(a, from, to, n)
      PROVE  AssetsTypeOK'
  BY <1>1, TransferredType DEF Transfer, MakeTransferOk, AssetsTypeOK, contextVars
<1>2. ASSUME NEW a \in AssetId, NEW to \in AccountId, NEW n \in Amount, Mint(a, to, n)
      PROVE  AssetsTypeOK'
  <2>1. /\ TotalIssuance[a] + n \in Balance
        /\ FreeBalance[a][to] + n \in Balance
    BY <1>2 DEF Mint, MintFreeOk, AssetsTypeOK, Balance
  <2>2. TotalIssuance' \in [AssetId -> Balance]
    BY <1>2, <2>1 DEF Mint, Minted, AssetsTypeOK
  <2>3. FreeBalance' \in [AssetId -> [AccountId -> Balance]]
    BY <1>2, <2>1 DEF Mint, Minted, AssetsTypeOK
  <2> QED BY <1>2, <2>2, <2>3 DEF Mint, AssetsTypeOK, contextVars
<1>3. ASSUME NEW a \in AssetId, NEW to \in AccountId, NEW n \in Amount, Burn(a, to, n)
      PROVE  AssetsTypeOK'
  <2>1. /\ TotalIssuance[a] - n \in Balance
        /\ FreeBalance[a][to] - n \in Balance
    BY <1>3 DEF Burn, BurnFreeOk, AssetsTypeOK, Balance
  <2>2. TotalIssuance' \in [AssetId -> Balance]
    BY <1>3, <2>1 DEF Burn, Burned, AssetsTypeOK
  <2>3. FreeBalance' \in [AssetId -> [AccountId -> Balance]]
    BY <1>3, <2>1 DEF Burn, Burned, AssetsTypeOK
  <2> QED BY <1>3, <2>2, <2>3 DEF Burn, AssetsTypeOK, contextVars
<1>4. ASSUME NEW a \in AssetId, NEW w \in AccountId, NEW n \in Amount, SetReserve(a, w, n)
      PROVE  AssetsTypeOK'
  <2>1. /\ Wrap(ReservedBalance[a][w] + n) \in Balance
        /\ FreeBalance[a][w] - n \in Balance
    BY <1>4, WrapInRange DEF SetReserve, AssetsTypeOK, Balance
  <2> QED BY <1>4, <2>1 DEF SetReserve, AssetsTypeOK, contextVars
<1>5. ASSUME NEW a \in AssetId, NEW w \in AccountId, NEW n \in Amount, SetUnreserve(a, w, n)
      PROVE  AssetsTypeOK'
  <2> DEFINE actual == IF ReservedBalance[a][w] < n THEN ReservedBalance[a][w] ELSE n
  <2>1. /\ Wrap(FreeBalance[a][w] + actual) \in Balance
        /\ ReservedBalance[a][w] - actual \in Balance
    BY WrapInRange DEF AssetsTypeOK, Balance
  <2>2. /\ FreeBalance' = [FreeBalance EXCEPT ![a][w] = Wrap(@ + actual)]
        /\ ReservedBalance' = [ReservedBalance EXCEPT ![a][w] = @ - actual]
        /\ UNCHANGED <<TotalIssuance, Permissions, Restrictions, Symbols,
                       contextVars, rootKey>>
    BY <1>5 DEF SetUnreserve
  <2> HIDE DEF actual
  <2> QED BY <2>1, <2>2 DEF AssetsTypeOK, contextVars
<1>6. ASSUME NEW a \in AssetId, NEW n \in Amount, Create(a, n)
      PROVE  AssetsTypeOK'
  <2>1. OwnedBy(rootKey) \in PermissionLatest
    BY DEF AssetsTypeOK, OwnedBy, PermissionLatest, Owner
  <2> QED BY <1>6, <2>1 DEF Create, AssetsTypeOK, contextVars
<1>7. ASSUME NEW a \in AssetId, NEW p \in NewPermission, UpdatePermission(a, p)
      PROVE  AssetsTypeOK'
  BY <1>7, PermissionAssumption DEF UpdatePermission, AssetsTypeOK, contextVars, balanceVars
<1>8. ASSUME NEW a \in AssetId, NEW r \in Restriction, NEW b \in BOOLEAN,
             UpdateRestriction(a, r, b)
      PROVE  AssetsTypeOK'
  BY <1>8 DEF UpdateRestriction, AssetsTypeOK, contextVars, balanceVars
<1>9. ASSUME NEW w \in AccountId, SetRootKey(w)
      PROVE  AssetsTypeOK'
  BY <1>9 DEF SetRootKey, AssetsTypeOK, contextVars, balanceVars
<1>10. CASE UNCHANGED assetVars
  BY <1>10 DEF assetVars, balanceVars, contextVars, AssetsTypeOK
<1> QED
  BY <1>1, <1>2, <1>3, <1>4, <1>5, <1>6, <1>7, <1>8, <1>9, <1>10
  DEF AssetsNext, BalanceNext, GovernanceNext

\* The ledger's storage is well typed in every reachable state.
THEOREM AssetsTypeCorrect == AssetsSpec => []AssetsTypeOK
  BY GenesisType, LedgerStepType, PTL DEF AssetsSpec

\* Wrapping leaves what fits into a balance alone.
LEMMA WrapZero == Wrap(0) = 0
  BY MaxBalanceAssumption DEF Wrap

\* Before `create`, an identity has no issuance, no balance and no owner, so
\* create_asset's unconditional inserts overwrite nothing.
THEOREM NothingBeforeCreateHolds == AssetsSpec => []NothingBeforeCreate
<1>1. AssetsInit => NothingBeforeCreate
  BY DEF AssetsInit, NothingBeforeCreate
<1>2. AssetsTypeOK /\ NothingBeforeCreate /\ [AssetsNext]_assetVars => NothingBeforeCreate'
  <2> SUFFICES ASSUME AssetsTypeOK, NothingBeforeCreate, [AssetsNext]_assetVars,
                      NEW b \in AssetId, b \notin Symbols'
               PROVE  /\ TotalIssuance'[b] = 0
                      /\ Permissions'[b] = NoPermission
                      /\ \A w \in AccountId : FreeBalance'[b][w] = 0 /\ ReservedBalance'[b][w] = 0
    BY DEF NothingBeforeCreate
  <2> USE AmountAssumption, MaxBalanceAssumption, OwnerAssumption DEF AssetsTypeOK, Balance
  <2>0. Symbols \subseteq Symbols'
    BY DEF AssetsNext, BalanceNext, GovernanceNext, Transfer, Mint, Burn, SetReserve,
           SetUnreserve, Create, UpdatePermission, UpdateRestriction, SetRootKey, assetVars
  <2>00. /\ b \notin Symbols
         /\ TotalIssuance[b] = 0
         /\ Permissions[b] = NoPermission
         /\ \A w \in AccountId : FreeBalance[b][w] = 0 /\ ReservedBalance[b][w] = 0
    BY <2>0 DEF NothingBeforeCreate
  <2>1. ASSUME NEW a \in AssetId, NEW from \in AccountId, NEW to \in AccountId,
               NEW n \in Amount, Transfer(a, from, to, n)
        PROVE  a # b /\ UNCHANGED <<TotalIssuance, ReservedBalance, Permissions>>
                     /\ FreeBalance'[b] = FreeBalance[b]
    BY <2>1, <2>00 DEF Transfer, MakeTransferOk, should_exist, Transferred, Moved
  <2>2. ASSUME NEW a \in AssetId, NEW to \in AccountId, NEW n \in Amount,
               Mint(a, to, n) \/ Burn(a, to, n)
        PROVE  a # b /\ TotalIssuance'[b] = TotalIssuance[b] /\ FreeBalance'[b] = FreeBalance[b]
                     /\ UNCHANGED <<ReservedBalance, Permissions>>
    BY <2>2, <2>00 DEF Mint, MintFreeOk, Burn, BurnFreeOk, should_exist, Minted, Burned
  <2>3. ASSUME NEW a \in AssetId, NEW w \in AccountId, NEW n \in Amount, SetReserve(a, w, n)
        PROVE  /\ UNCHANGED <<TotalIssuance, Permissions>>
               /\ \A v \in AccountId : FreeBalance'[b][v] = 0 /\ ReservedBalance'[b][v] = 0
    <3>1. a = b => n = 0
      BY <2>3, <2>00 DEF SetReserve
    <3>2. CASE a = b
      <4>1. ReservedBalance[b][w] + n = 0 /\ FreeBalance[b][w] - n = 0
        BY <2>00, <3>1, <3>2
      <4> QED BY <2>3, <2>00, <3>2, <4>1, WrapZero DEF SetReserve
    <3>3. CASE a # b
      BY <2>3, <2>00, <3>3 DEF SetReserve
    <3> QED BY <3>2, <3>3
  <2>4. ASSUME NEW a \in AssetId, NEW w \in AccountId, NEW n \in Amount, SetUnreserve(a, w, n)
        PROVE  /\ UNCHANGED <<TotalIssuance, Permissions>>
               /\ \A v \in AccountId : FreeBalance'[b][v] = 0 /\ ReservedBalance'[b][v] = 0
    BY <2>4, <2>00, WrapZero DEF SetUnreserve
  <2>5. ASSUME NEW a \in AssetId, NEW n \in Amount, Create(a, n)
        PROVE  a # b /\ TotalIssuance'[b] = TotalIssuance[b] /\ FreeBalance'[b] = FreeBalance[b]
                     /\ Permissions'[b] = Permissions[b] /\ UNCHANGED ReservedBalance
    BY <2>5 DEF Create
  <2>6. ASSUME NEW a \in AssetId, NEW p \in NewPermission, UpdatePermission(a, p)
        PROVE  a # b /\ UNCHANGED balanceVars /\ Permissions'[b] = Permissions[b]
    BY <2>6, <2>00 DEF UpdatePermission, check_permission, NoPermission
  <2>7. ASSUME NEW a \in AssetId, NEW r \in Restriction, NEW c \in BOOLEAN,
               UpdateRestriction(a, r, c)
        PROVE  UNCHANGED <<balanceVars, Permissions>>
    BY <2>7 DEF UpdateRestriction
  <2>8. ASSUME NEW w \in AccountId, SetRootKey(w)
        PROVE  UNCHANGED <<balanceVars, Permissions>>
    BY <2>8 DEF SetRootKey
  <2>9. CASE UNCHANGED assetVars
    BY <2>9, <2>00 DEF assetVars, balanceVars
  <2> QED
    BY <2>00, <2>1, <2>2, <2>3, <2>4, <2>5, <2>6, <2>7, <2>8, <2>9
    DEF AssetsNext, BalanceNext, GovernanceNext, balanceVars
<1> QED BY <1>1, <1>2, AssetsTypeCorrect, PTL DEF AssetsSpec

\* Giving up the update and the mint permission of an asset is final, and from
\* then on its issuance never grows.
THEOREM RenouncedIsFinal == AssetsSpec => RenouncedStaysRenounced
<1>1. ASSUME AssetsTypeOK, [AssetsNext]_assetVars, NEW b \in AssetId, Renounced(b)
      PROVE  Renounced(b)' /\ TotalIssuance'[b] <= TotalIssuance[b]
  <2> USE <1>1, AmountAssumption, MaxBalanceAssumption, OwnerAssumption
      DEF AssetsTypeOK, Balance, Renounced
  <2>1. ASSUME NEW a \in AssetId, NEW from \in AccountId, NEW to \in AccountId,
               NEW n \in Amount, Transfer(a, from, to, n)
        PROVE  UNCHANGED <<Symbols, Permissions, TotalIssuance>>
    BY <2>1 DEF Transfer
  <2>2. ASSUME NEW a \in AssetId, NEW to \in AccountId, NEW n \in Amount, Mint(a, to, n)
        PROVE  UNCHANGED <<Symbols, Permissions>> /\ TotalIssuance'[b] = TotalIssuance[b]
    BY <2>2 DEF Mint, MintFreeOk, check_permission, Minted
  <2>3. ASSUME NEW a \in AssetId, NEW to \in AccountId, NEW n \in Amount, Burn(a, to, n)
        PROVE  UNCHANGED <<Symbols, Permissions>> /\ TotalIssuance'[b] <= TotalIssuance[b]
    BY <2>3 DEF Burn, BurnFreeOk, Burned
  <2>4. ASSUME NEW a \in AssetId, NEW w \in AccountId, NEW n \in Amount,
               SetReserve(a, w, n) \/ SetUnreserve(a, w, n)
        PROVE  UNCHANGED <<Symbols, Permissions, TotalIssuance>>
    BY <2>4 DEF SetReserve, SetUnreserve
  <2>5. ASSUME NEW a \in AssetId, NEW n \in Amount, Create(a, n)
        PROVE  /\ Symbols \subseteq Symbols'
               /\ Permissions'[b] = Permissions[b]
               /\ TotalIssuance'[b] = TotalIssuance[b]
    BY <2>5 DEF Create
  <2>6. ASSUME NEW a \in AssetId, NEW p \in NewPermission, UpdatePermission(a, p)
        PROVE  UNCHANGED <<Symbols, TotalIssuance>> /\ Permissions'[b] = Permissions[b]
    BY <2>6 DEF UpdatePermission, check_permission, balanceVars
  <2>7. ASSUME NEW a \in AssetId, NEW r \in Restriction, NEW c \in BOOLEAN,
               UpdateRestriction(a, r, c)
        PROVE  UNCHANGED <<Symbols, Permissions, TotalIssuance>>
    BY <2>7 DEF UpdateRestriction, balanceVars
  <2>8. ASSUME NEW w \in AccountId, SetRootKey(w)
        PROVE  UNCHANGED <<Symbols, Permissions, TotalIssuance>>
    BY <2>8 DEF SetRootKey, balanceVars
  <2>9. CASE UNCHANGED assetVars
    BY <2>9 DEF assetVars, balanceVars
  <2> QED
    BY <2>1, <2>2, <2>3, <2>4, <2>5, <2>6, <2>7, <2>8, <2>9
    DEF AssetsNext, BalanceNext, GovernanceNext
<1>2. AssetsTypeOK /\ [AssetsNext]_assetVars =>
        [\A a \in AssetId : Renounced(a) =>
             /\ Renounced(a)'
             /\ TotalIssuance'[a] <= TotalIssuance[a]]_assetVars
  BY <1>1
<1> QED BY <1>2, AssetsTypeCorrect, PTL DEF AssetsSpec, RenouncedStaysRenounced

-----------------------------------------------------------------------------
\* Wrapping leaves what is in the range alone.
LEMMA WrapFits ==
    ASSUME NEW n \in Balance
    PROVE  Wrap(n) = n
  BY MaxBalanceAssumption DEF Wrap, Balance

\* Total of some balances of one asset.
LEMMA TotalIsSum ==
    ASSUME NEW f \in [AccountId -> Balance]
    PROVE  /\ SumFunction(f) = SumFunctionOnSet(f, AccountId)
           /\ SumFunction(f) \in Nat
           /\ \A w \in AccountId : f[w] <= SumFunction(f)
           /\ \A v, w \in AccountId : v # w => f[v] + f[w] <= SumFunction(f)
<1>1. SumFunction(f) = SumFunctionOnSet(f, AccountId)
  BY SumOverDomain
<1>2. \A w \in AccountId : f[w] \in Nat
  BY MaxBalanceAssumption DEF Balance
<1>3. SumFunctionOnSet(f, AccountId) \in Nat
  BY <1>2, AccountAssumption, SumTakesOut
<1>4. ASSUME NEW w \in AccountId
      PROVE  /\ f[w] <= SumFunctionOnSet(f, AccountId)
             /\ \A v \in AccountId \ {w} : f[w] + f[v] <= SumFunctionOnSet(f, AccountId)
  BY <1>2, AccountAssumption, SumAtLeast
<1> QED BY <1>1, <1>3, <1>4

\* Crediting or debiting one account changes the total by as much.
LEMMA TotalChanges ==
    ASSUME NEW f \in [AccountId -> Balance], NEW g \in [AccountId -> Balance],
           NEW w \in AccountId, \A v \in AccountId \ {w} : f[v] = g[v]
    PROVE  SumFunction(g) + f[w] = SumFunction(f) + g[w]
<1>1. \A v \in AccountId : f[v] \in Nat /\ g[v] \in Nat
  BY MaxBalanceAssumption DEF Balance
<1>2. SumFunctionOnSet(g, AccountId) + f[w] = SumFunctionOnSet(f, AccountId) + g[w]
  BY <1>1, AccountAssumption, SumChanges
<1> QED BY <1>2, SumOverDomain

\* Moving between two accounts leaves the total alone.
LEMMA TotalStays ==
    ASSUME NEW f \in [AccountId -> Balance], NEW g \in [AccountId -> Balance],
           NEW v \in AccountId, NEW w \in AccountId, v # w, f[v] + f[w] = g[v] + g[w],
           \A u \in AccountId \ {v, w} : f[u] = g[u]
    PROVE  SumFunction(g) = SumFunction(f)
<1>1. \A u \in AccountId : f[u] \in Nat /\ g[u] \in Nat
  BY MaxBalanceAssumption DEF Balance
<1>2. SumFunctionOnSet(g, AccountId) = SumFunctionOnSet(f, AccountId)
  BY <1>1, AccountAssumption, SumMoves
<1> QED BY <1>2, SumOverDomain

\* Balances without entries add up to nothing.
LEMMA TotalOfNothing ==
    ASSUME NEW f \in [AccountId -> Balance], \A w \in AccountId : f[w] = 0
    PROVE  SumFunction(f) = 0
<1>1. SumFunctionOnSet(f, AccountId) = 0
  BY AccountAssumption, SumOfZeros
<1> QED BY <1>1, SumOverDomain

\* Where the issuance is what is held, what one or two accounts hold of an asset,
\* free or reserved, fits into a balance.
LEMMA HeldFits ==
    ASSUME AssetsTypeOK, IssuanceIsHeld, NEW a \in AssetId, NEW v \in AccountId
    PROVE  /\ FreeBalance[a][v] + ReservedBalance[a][v] \in Balance
           /\ FreeBalance[a][v] + ReservedBalance[a][v] <= TotalIssuance[a]
           /\ \A w \in AccountId \ {v} : /\ FreeBalance[a][v] + FreeBalance[a][w] \in Balance
                                         /\ FreeBalance[a][v] + FreeBalance[a][w] <= TotalIssuance[a]
<1> DEFINE f == FreeBalance[a]
           r == ReservedBalance[a]
<1>1. f \in [AccountId -> Balance] /\ r \in [AccountId -> Balance]
  BY DEF AssetsTypeOK
<1>2. TotalIssuance[a] \in Balance /\ TotalIssuance[a] = SumFunction(f) + SumFunction(r)
  BY DEF AssetsTypeOK, IssuanceIsHeld, Held
<1>3. /\ SumFunction(f) \in Nat /\ SumFunction(r) \in Nat
      /\ f[v] <= SumFunction(f) /\ r[v] <= SumFunction(r)
      /\ \A w \in AccountId \ {v} : f[v] + f[w] <= SumFunction(f)
  <2> HIDE DEF f, r
  <2> QED BY <1>1, TotalIsSum
<1>4. \A w \in AccountId : f[w] \in Nat /\ r[w] \in Nat
  <2> HIDE DEF f, r
  <2> QED BY <1>1, MaxBalanceAssumption DEF Balance
<1> HIDE DEF f, r
<1>5. /\ f[v] + r[v] \in Balance /\ f[v] + r[v] <= TotalIssuance[a]
  BY <1>2, <1>3, <1>4, MaxBalanceAssumption DEF Balance
<1>6. \A w \in AccountId \ {v} : f[v] + f[w] \in Balance /\ f[v] + f[w] <= TotalIssuance[a]
  BY <1>2, <1>3, <1>4, MaxBalanceAssumption DEF Balance
<1> QED BY <1>5, <1>6 DEF f, r

\* A transfer does not wrap and leaves the total of every asset alone.
LEMMA TransferredTotal ==
    ASSUME AssetsTypeOK, IssuanceIsHeld, NEW a \in AssetId, NEW from \in AccountId,
           NEW to \in AccountId, NEW n \in Balance, n <= FreeBalance[a][from]
    PROVE  /\ \A b \in AssetId :
                  SumFunction(Transferred(a, from, to, n)[b]) = SumFunction(FreeBalance[b])
           /\ from # to => Transferred(a, from, to, n) =
                  [FreeBalance EXCEPT ![a] =
                      [FreeBalance[a] EXCEPT ![from] = FreeBalance[a][from] - n,
                                             ![to] = FreeBalance[a][to] + n]]
<1>1. CASE from = to
  BY <1>1 DEF Transferred, Moved
<1>2. CASE from # to
  <2> DEFINE f == FreeBalance[a]
             g == [FreeBalance[a] EXCEPT ![from] = FreeBalance[a][from] - n,
                                         ![to] = FreeBalance[a][to] + n]
  <2>1. f \in [AccountId -> Balance] /\ f[from] \in Nat /\ f[to] \in Nat /\ n \in Nat
    BY MaxBalanceAssumption DEF AssetsTypeOK, Balance
  <2>2. f[to] + n \in Balance /\ f[from] - n \in Balance
    <3>1. f[from] + f[to] \in Balance
      BY <1>2, HeldFits
    <3> HIDE DEF f
    <3>2. n <= f[from]
      BY DEF f
    <3> QED BY <2>1, <3>1, <3>2, MaxBalanceAssumption DEF Balance
  <2>3. Wrap(f[to] + n) = f[to] + n
    BY <2>2, WrapFits
  <2>4. Transferred(a, from, to, n) = [FreeBalance EXCEPT ![a] = g]
    BY <1>2, <2>3 DEF Transferred, Moved, AssetsTypeOK
  <2>5. g \in [AccountId -> Balance]
    BY <2>1, <2>2
  <2>6. f[from] + f[to] = g[from] + g[to]
    <3>1. g[from] = f[from] - n /\ g[to] = f[to] + n
      BY <1>2, <2>1
    <3> HIDE DEF f, g
    <3> QED BY <2>1, <3>1
  <2>7. \A u \in AccountId \ {from, to} : f[u] = g[u]
    BY <2>1
  <2>8. SumFunction(g) = SumFunction(f)
    <3> HIDE DEF f, g
    <3> QED BY <1>2, <2>1, <2>5, <2>6, <2>7, TotalStays
  <2> HIDE DEF g
  <2>9. \A b \in AssetId : SumFunction([FreeBalance EXCEPT ![a] = g][b]) = SumFunction(FreeBalance[b])
    BY <2>8 DEF AssetsTypeOK
  <2> QED BY <2>4, <2>9 DEF g
<1> QED BY <1>1, <1>2

\* A transfer leaves the issuance the sum of all balances.
LEMMA TransferKeepsIssuance ==
    ASSUME AssetsTypeOK, IssuanceIsHeld, NEW a \in AssetId, NEW from \in AccountId,
           NEW to \in AccountId, NEW n \in Balance, n <= FreeBalance[a][from],
           FreeBalance' = Transferred(a, from, to, n),
           UNCHANGED <<TotalIssuance, ReservedBalance>>
    PROVE  IssuanceIsHeld'
<1>1. \A b \in AssetId : SumFunction(FreeBalance'[b]) = SumFunction(FreeBalance[b])
  BY TransferredTotal
<1> QED BY <1>1 DEF IssuanceIsHeld, Held

\* A credit or debit of one account that the issuance follows.
LEMMA CreditKeepsIssuance ==
    ASSUME AssetsTypeOK, IssuanceIsHeld, AssetsTypeOK',
           NEW a \in AssetId, NEW w \in AccountId,
           \A b \in AssetId \ {a} : /\ FreeBalance'[b] = FreeBalance[b]
                                    /\ TotalIssuance'[b] = TotalIssuance[b],
           \A v \in AccountId \ {w} : FreeBalance'[a][v] = FreeBalance[a][v],
           TotalIssuance'[a] + FreeBalance[a][w] = TotalIssuance[a] + FreeBalance'[a][w],
           ReservedBalance' = ReservedBalance
    PROVE  IssuanceIsHeld'
<1> DEFINE f == FreeBalance[a]
           g == FreeBalance'[a]
           r == ReservedBalance[a]
<1>1. f \in [AccountId -> Balance] /\ g \in [AccountId -> Balance] /\ r \in [AccountId -> Balance]
  BY DEF AssetsTypeOK
<1>2. SumFunction(g) + f[w] = SumFunction(f) + g[w]
  <2>1. \A v \in AccountId \ {w} : f[v] = g[v]
    OBVIOUS
  <2> HIDE DEF f, g
  <2> QED BY <1>1, <2>1, TotalChanges
<1>3. SumFunction(f) \in Nat /\ SumFunction(g) \in Nat /\ SumFunction(r) \in Nat
  <2> HIDE DEF f, g, r
  <2> QED BY <1>1, TotalIsSum
<1>4. f[w] \in Nat /\ g[w] \in Nat /\ TotalIssuance[a] \in Nat /\ TotalIssuance'[a] \in Nat
  BY MaxBalanceAssumption DEF AssetsTypeOK, Balance
<1>5. TotalIssuance[a] = SumFunction(f) + SumFunction(r)
  BY DEF IssuanceIsHeld, Held
<1>6. TotalIssuance'[a] + f[w] = TotalIssuance[a] + g[w]
  OBVIOUS
<1>7. TotalIssuance'[a] = SumFunction(g) + SumFunction(r)
  <2> HIDE DEF f, g, r
  <2> QED BY <1>2, <1>3, <1>4, <1>5, <1>6
<1> QED BY <1>7 DEF IssuanceIsHeld, Held

\* mint_free leaves the issuance the sum of all balances.
LEMMA MintKeepsIssuance ==
    ASSUME AssetsTypeOK, IssuanceIsHeld, AssetsTypeOK', NEW a \in AssetId, NEW to \in AccountId,
           NEW n \in Balance,
           TotalIssuance' = Minted(a, to, n).issuance, FreeBalance' = Minted(a, to, n).free,
           ReservedBalance' = ReservedBalance
    PROVE  IssuanceIsHeld'
<1> USE DEF AssetsTypeOK, Minted
<1>1. /\ TotalIssuance'[a] = TotalIssuance[a] + n
      /\ FreeBalance'[a][to] = FreeBalance[a][to] + n
      /\ \A b \in AssetId \ {a} : /\ FreeBalance'[b] = FreeBalance[b]
                                  /\ TotalIssuance'[b] = TotalIssuance[b]
      /\ \A v \in AccountId \ {to} : FreeBalance'[a][v] = FreeBalance[a][v]
  OBVIOUS
<1>2. TotalIssuance[a] \in Nat /\ FreeBalance[a][to] \in Nat /\ n \in Nat
  BY MaxBalanceAssumption DEF Balance
<1>3. TotalIssuance'[a] + FreeBalance[a][to] = TotalIssuance[a] + FreeBalance'[a][to]
  BY <1>1, <1>2
<1> HIDE DEF AssetsTypeOK
<1> QED BY <1>1, <1>3, CreditKeepsIssuance

\* burn_free leaves the issuance the sum of all balances.
LEMMA BurnKeepsIssuance ==
    ASSUME AssetsTypeOK, IssuanceIsHeld, AssetsTypeOK', NEW a \in AssetId, NEW to \in AccountId,
           NEW n \in Balance,
           TotalIssuance' = Burned(a, to, n).issuance, FreeBalance' = Burned(a, to, n).free,
           ReservedBalance' = ReservedBalance
    PROVE  IssuanceIsHeld'
<1> USE DEF AssetsTypeOK, Burned
<1>1. /\ TotalIssuance'[a] = TotalIssuance[a] - n
      /\ FreeBalance'[a][to] = FreeBalance[a][to] - n
      /\ \A b \in AssetId \ {a} : /\ FreeBalance'[b] = FreeBalance[b]
                                  /\ TotalIssuance'[b] = TotalIssuance[b]
      /\ \A v \in AccountId \ {to} : FreeBalance'[a][v] = FreeBalance[a][v]
  OBVIOUS
<1>2. TotalIssuance[a] \in Nat /\ FreeBalance[a][to] \in Nat /\ n \in Nat
  BY MaxBalanceAssumption DEF Balance
<1>3. TotalIssuance'[a] + FreeBalance[a][to] = TotalIssuance[a] + FreeBalance'[a][to]
  BY <1>1, <1>2
<1> HIDE DEF AssetsTypeOK
<1> QED BY <1>1, <1>3, CreditKeepsIssuance

\* reserve and unreserve: what one of the two balances of an account loses the
\* other one gains.
LEMMA ReserveKeepsIssuance ==
    ASSUME AssetsTypeOK, IssuanceIsHeld, AssetsTypeOK',
           NEW a \in AssetId, NEW w \in AccountId,
           \A b \in AssetId \ {a} : /\ FreeBalance'[b] = FreeBalance[b]
                                    /\ ReservedBalance'[b] = ReservedBalance[b],
           \A v \in AccountId \ {w} : /\ FreeBalance'[a][v] = FreeBalance[a][v]
                                      /\ ReservedBalance'[a][v] = ReservedBalance[a][v],
           FreeBalance'[a][w] + ReservedBalance'[a][w]
               = FreeBalance[a][w] + ReservedBalance[a][w],
           TotalIssuance' = TotalIssuance
    PROVE  IssuanceIsHeld'
<1> DEFINE f == FreeBalance[a]
           g == FreeBalance'[a]
           r == ReservedBalance[a]
           q == ReservedBalance'[a]
<1>1. /\ f \in [AccountId -> Balance] /\ g \in [AccountId -> Balance]
      /\ r \in [AccountId -> Balance] /\ q \in [AccountId -> Balance]
  BY DEF AssetsTypeOK
<1>2. /\ SumFunction(g) + f[w] = SumFunction(f) + g[w]
      /\ SumFunction(q) + r[w] = SumFunction(r) + q[w]
  <2>1. \A v \in AccountId \ {w} : f[v] = g[v] /\ r[v] = q[v]
    OBVIOUS
  <2> HIDE DEF f, g, r, q
  <2> QED BY <1>1, <2>1, TotalChanges
<1>3. /\ SumFunction(f) \in Nat /\ SumFunction(g) \in Nat
      /\ SumFunction(r) \in Nat /\ SumFunction(q) \in Nat
  <2> HIDE DEF f, g, r, q
  <2> QED BY <1>1, TotalIsSum
<1>4. f[w] \in Nat /\ g[w] \in Nat /\ r[w] \in Nat /\ q[w] \in Nat
  BY MaxBalanceAssumption DEF AssetsTypeOK, Balance
<1>5. g[w] + q[w] = f[w] + r[w]
  OBVIOUS
<1>6. SumFunction(g) + SumFunction(q) = SumFunction(f) + SumFunction(r)
  <2> HIDE DEF f, g, r, q
  <2>1. SumFunction(g) = SumFunction(f) + (g[w] - f[w])
    BY <1>2, <1>3, <1>4
  <2>2. SumFunction(q) = SumFunction(r) + (q[w] - r[w])
    BY <1>2, <1>3, <1>4
  <2> QED BY <1>3, <1>4, <1>5, <2>1, <2>2
<1> QED BY <1>6 DEF IssuanceIsHeld, Held

\* What an account holds, free and reserved, after reserve: nothing wraps.
LEMMA ReserveStep ==
    ASSUME AssetsTypeOK, IssuanceIsHeld, AssetsTypeOK', NEW a \in AssetId, NEW w \in AccountId,
           NEW n \in Balance, SetReserve(a, w, n)
    PROVE  IssuanceIsHeld'
<1> DEFINE f == FreeBalance[a][w]
           r == ReservedBalance[a][w]
<1>1. f \in Nat /\ r \in Nat /\ n \in Nat /\ f + r \in Balance /\ n <= f
  BY HeldFits, MaxBalanceAssumption DEF AssetsTypeOK, Balance, SetReserve
<1>2. r + n \in Balance
  <2> HIDE DEF f, r
  <2> QED BY <1>1, MaxBalanceAssumption DEF Balance
<1>3. Wrap(r + n) = r + n
  BY <1>2, WrapFits
<1>4. FreeBalance'[a][w] = f - n /\ ReservedBalance'[a][w] = r + n
  BY <1>3 DEF SetReserve, AssetsTypeOK
<1>5. FreeBalance'[a][w] + ReservedBalance'[a][w] = f + r
  <2> HIDE DEF f, r
  <2> QED BY <1>1, <1>4
<1>6. /\ \A b \in AssetId \ {a} : /\ FreeBalance'[b] = FreeBalance[b]
                                  /\ ReservedBalance'[b] = ReservedBalance[b]
      /\ \A v \in AccountId \ {w} : /\ FreeBalance'[a][v] = FreeBalance[a][v]
                                    /\ ReservedBalance'[a][v] = ReservedBalance[a][v]
      /\ TotalIssuance' = TotalIssuance
  BY DEF SetReserve, AssetsTypeOK
<1> QED BY <1>5, <1>6, ReserveKeepsIssuance

\* The same for unreserve.
LEMMA UnreserveStep ==
    ASSUME AssetsTypeOK, IssuanceIsHeld, AssetsTypeOK', NEW a \in AssetId, NEW w \in AccountId,
           NEW n \in Balance, SetUnreserve(a, w, n)
    PROVE  IssuanceIsHeld'
<1> DEFINE f == FreeBalance[a][w]
           r == ReservedBalance[a][w]
           actual == IF r < n THEN r ELSE n
<1>1. f \in Nat /\ r \in Nat /\ n \in Nat /\ f + r \in Balance
  BY HeldFits, MaxBalanceAssumption DEF AssetsTypeOK, Balance
<1>2. actual \in Nat /\ actual <= r /\ f + actual \in Balance
  <2> HIDE DEF f, r
  <2> QED BY <1>1, MaxBalanceAssumption DEF Balance
<1>3. Wrap(f + actual) = f + actual
  <2> HIDE DEF f, actual
  <2> QED BY <1>2, WrapFits
<1>4. /\ FreeBalance' = [FreeBalance EXCEPT ![a][w] = Wrap(@ + actual)]
      /\ ReservedBalance' = [ReservedBalance EXCEPT ![a][w] = @ - actual]
      /\ TotalIssuance' = TotalIssuance
  BY DEF SetUnreserve
<1> HIDE DEF actual
<1>5. FreeBalance'[a][w] = f + actual /\ ReservedBalance'[a][w] = r - actual
  BY <1>3, <1>4 DEF AssetsTypeOK
<1>6. FreeBalance'[a][w] + ReservedBalance'[a][w] = f + r
  <2> HIDE DEF f, r
  <2> QED BY <1>1, <1>2, <1>5
<1>7. /\ \A b \in AssetId \ {a} : /\ FreeBalance'[b] = FreeBalance[b]
                                  /\ ReservedBalance'[b] = ReservedBalance[b]
      /\ \A v \in AccountId \ {w} : /\ FreeBalance'[a][v] = FreeBalance[a][v]
                                    /\ ReservedBalance'[a][v] = ReservedBalance[a][v]
  BY <1>4 DEF AssetsTypeOK
<1> QED BY <1>4, <1>6, <1>7, ReserveKeepsIssuance

\* A ledger call that moves balances leaves the issuance the sum of all balances.
LEMMA BalanceStepKeepsIssuance ==
    ASSUME AssetsTypeOK, AssetsTypeOK', IssuanceIsHeld, BalanceNext
    PROVE  IssuanceIsHeld'
<1> USE AmountAssumption
<1>1. ASSUME NEW a \in AssetId, NEW from \in AccountId, NEW to \in AccountId,
             NEW n \in Amount, Transfer(a, from, to, n)
      PROVE  IssuanceIsHeld'
  BY <1>1, TransferKeepsIssuance DEF Transfer, MakeTransferOk
<1>2. ASSUME NEW a \in AssetId, NEW to \in AccountId, NEW n \in Amount, Mint(a, to, n)
      PROVE  IssuanceIsHeld'
  BY <1>2, MintKeepsIssuance DEF Mint
<1>3. ASSUME NEW a \in AssetId, NEW to \in AccountId, NEW n \in Amount, Burn(a, to, n)
      PROVE  IssuanceIsHeld'
  BY <1>3, BurnKeepsIssuance DEF Burn
<1>4. ASSUME NEW a \in AssetId, NEW w \in AccountId, NEW n \in Amount, SetReserve(a, w, n)
      PROVE  IssuanceIsHeld'
  BY <1>4, ReserveStep
<1>5. ASSUME NEW a \in AssetId, NEW w \in AccountId, NEW n \in Amount, SetUnreserve(a, w, n)
      PROVE  IssuanceIsHeld'
  BY <1>5, UnreserveStep
<1> QED BY <1>1, <1>2, <1>3, <1>4, <1>5 DEF BalanceNext

\* At genesis the issuance is the sum of the endowed balances.
LEMMA GenesisIssuance == AssetsInit /\ AssetsTypeOK => IssuanceIsHeld
<1> SUFFICES ASSUME AssetsInit, AssetsTypeOK, NEW a \in AssetId
             PROVE  TotalIssuance[a] = SumFunction(FreeBalance[a]) + SumFunction(ReservedBalance[a])
  BY DEF IssuanceIsHeld, Held
<1>1. SumFunction(ReservedBalance[a]) = 0
  <2>1. ReservedBalance[a] \in [AccountId -> Balance] /\ \A w \in AccountId : ReservedBalance[a][w] = 0
    BY DEF AssetsInit, AssetsTypeOK
  <2> QED BY <2>1, TotalOfNothing
<1>2. CASE a \in GenesisSymbols
  <2>1. FreeBalance[a] = Endowed[a]
    BY <1>2, GenesisAssumption DEF AssetsInit
  <2>2. SumFunction(Endowed[a]) \in Nat
    BY GenesisAssumption, MaxBalanceAssumption DEF Balance
  <2> QED BY <1>1, <1>2, <2>1, <2>2 DEF AssetsInit
<1>3. CASE a \notin GenesisSymbols
  <2>1. FreeBalance[a] \in [AccountId -> Balance] /\ \A w \in AccountId : FreeBalance[a][w] = 0
    BY <1>3 DEF AssetsInit, AssetsTypeOK
  <2>2. SumFunction(FreeBalance[a]) = 0
    BY <2>1, TotalOfNothing
  <2> QED BY <1>1, <1>3, <2>2 DEF AssetsInit
<1> QED BY <1>2, <1>3

\* The issuance of every asset is the sum of all its free and reserved balances
\* in every reachable state, so that no unchecked addition of the ledger wraps.
THEOREM IssuanceIsAlwaysHeld == AssetsSpec => []IssuanceIsHeld
<1>1. AssetsInit /\ AssetsTypeOK => IssuanceIsHeld
  BY GenesisIssuance
<1>2. AssetsTypeOK /\ AssetsTypeOK' /\ NothingBeforeCreate /\ IssuanceIsHeld
          /\ [AssetsNext]_assetVars => IssuanceIsHeld'
  <2> SUFFICES ASSUME AssetsTypeOK, AssetsTypeOK', NothingBeforeCreate, IssuanceIsHeld,
                      [AssetsNext]_assetVars
               PROVE  IssuanceIsHeld'
    OBVIOUS
  <2>1. CASE BalanceNext
    BY <2>1, BalanceStepKeepsIssuance
  <2>2. ASSUME NEW a \in AssetId, NEW n \in Amount, Create(a, n) PROVE IssuanceIsHeld'
    <3>1. rootKey \in AccountId /\ n \in Nat
      BY AmountAssumption, MaxBalanceAssumption DEF AssetsTypeOK, Balance
    <3>2. TotalIssuance[a] = 0 /\ FreeBalance[a][rootKey] = 0
      BY <2>2, <3>1 DEF Create, NothingBeforeCreate
    <3>3. /\ TotalIssuance'[a] = n
          /\ FreeBalance'[a][rootKey] = n
          /\ \A b \in AssetId \ {a} : /\ FreeBalance'[b] = FreeBalance[b]
                                      /\ TotalIssuance'[b] = TotalIssuance[b]
          /\ \A v \in AccountId \ {rootKey} : FreeBalance'[a][v] = FreeBalance[a][v]
          /\ ReservedBalance' = ReservedBalance
      BY <2>2, <3>1 DEF Create, AssetsTypeOK
    <3>4. TotalIssuance'[a] + FreeBalance[a][rootKey] = TotalIssuance[a] + FreeBalance'[a][rootKey]
      BY <3>1, <3>2, <3>3
    <3> QED BY <3>1, <3>3, <3>4, CreditKeepsIssuance
  <2>3. CASE UNCHANGED balanceVars
    BY <2>3 DEF balanceVars, IssuanceIsHeld, Held
  <2> QED
    BY <2>1, <2>2, <2>3 DEF AssetsNext, GovernanceNext, UpdatePermission, UpdateRestriction,
                            SetRootKey, assetVars
<1> QED BY <1>1, <1>2, AssetsTypeCorrect, NothingBeforeCreateHolds, PTL DEF AssetsSpec
-----------------------------------------------------------------------------
\* What a group of accounts holds of an asset.
GroupTotal(free, x, G) == SumFunctionOnSet(free[x], G)

\* What a group holds is a number, at least what each of its members holds, and
\* at most what all accounts hold.
LEMMA GroupBounds ==
    ASSUME NEW free \in Ledger, NEW x \in AssetId, NEW G \in SUBSET AccountId
    PROVE  /\ GroupTotal(free, x, G) \in Nat
           /\ \A w \in G : free[x][w] <= GroupTotal(free, x, G)
           /\ \A v \in AccountId \ G :
                  free[x][v] + GroupTotal(free, x, G) <= SumFunction(free[x])
<1> DEFINE f == free[x]
           g == [w \in AccountId |-> IF w \in G THEN f[w] ELSE 0]
<1>1. /\ f \in [AccountId -> Balance] /\ IsFiniteSet(G)
      /\ \A w \in AccountId : f[w] \in Nat /\ g[w] \in Nat /\ g[w] <= f[w]
  BY AccountAssumption, FS_Subset, MaxBalanceAssumption DEF Ledger, Balance
<1>2. /\ SumFunction(f) = SumFunctionOnSet(f, AccountId)
  <2> HIDE DEF f
  <2> QED BY <1>1, TotalIsSum
<1>3. SumFunctionOnSet(f, G) \in Nat /\ \A w \in G : f[w] <= SumFunctionOnSet(f, G)
  <2> HIDE DEF f
  <2>1. \A w \in G : f[w] \in Nat
    BY <1>1
  <2> QED BY <1>1, <2>1, SumTakesOut, SumAtLeast
<1>4. ASSUME NEW v \in AccountId \ G
      PROVE  f[v] + SumFunctionOnSet(f, G) <= SumFunctionOnSet(f, AccountId)
  <2> DEFINE R == AccountId \ {v}
  <2>1. IsFiniteSet(R) /\ G \in SUBSET R
    BY AccountAssumption, FS_Subset
  <2>2. SumFunctionOnSet(g, R) = SumFunctionOnSet(f, G)
    <3>1. /\ \A w \in G : f[w] \in Nat /\ g[w] = f[w]
          /\ \A w \in R \ G : g[w] = 0
      BY <1>1
    <3> HIDE DEF f, g, R
    <3> QED BY <2>1, <3>1, SumRestricts
  <2>3. SumFunctionOnSet(g, R) <= SumFunctionOnSet(f, R)
    <3>1. \A w \in R : g[w] \in Nat /\ f[w] \in Nat /\ g[w] <= f[w]
      BY <1>1
    <3> HIDE DEF f, g, R
    <3> QED BY <2>1, <3>1, SumMonotone
  <2>4. SumFunctionOnSet(f, AccountId) = f[v] + SumFunctionOnSet(f, R)
    <3> HIDE DEF f
    <3> QED BY <1>1, AccountAssumption, SumTakesOut
  <2>5. f[v] \in Nat
    BY <1>1
  <2>6. SumFunctionOnSet(f, R) \in Nat
    <3>1. \A w \in R : f[w] \in Nat
      BY <1>1
    <3> HIDE DEF f, R
    <3> QED BY <2>1, <3>1, SumTakesOut
  <2> HIDE DEF f, g, R
  <2> QED BY <1>3, <2>2, <2>3, <2>4, <2>5, <2>6
<1> QED BY <1>2, <1>3, <1>4 DEF GroupTotal

\* Ledger g is ledger free but for the balance of w in a, which is n.
Written(free, g, a, w, n) ==
    /\ g \in Ledger
    /\ \A x \in AssetId, u \in AccountId : g[x][u] = IF x = a /\ u = w THEN n ELSE free[x][u]
    /\ \A x \in AssetId, G \in SUBSET AccountId :
          GroupTotal(g, x, G) + (IF x = a /\ w \in G THEN free[a][w] ELSE 0)
              = GroupTotal(free, x, G) + (IF x = a /\ w \in G THEN n ELSE 0)

\* Writing one balance.
LEMMA CreditEffect ==
    ASSUME NEW free \in Ledger, NEW a \in AssetId, NEW w \in AccountId, NEW n \in Balance,
           NEW g, g = [free EXCEPT ![a][w] = n]
    PROVE  Written(free, g, a, w, n)
<1>1. g \in Ledger
  BY DEF Ledger
<1>2. \A x \in AssetId, u \in AccountId : g[x][u] = IF x = a /\ u = w THEN n ELSE free[x][u]
  BY DEF Ledger
<1>3. ASSUME NEW x \in AssetId, NEW G \in SUBSET AccountId
      PROVE  GroupTotal(g, x, G) + (IF x = a /\ w \in G THEN free[a][w] ELSE 0)
                 = GroupTotal(free, x, G) + (IF x = a /\ w \in G THEN n ELSE 0)
  <2> DEFINE f == free[x]
             h == g[x]
  <2>1. /\ IsFiniteSet(G)
        /\ \A u \in G : f[u] \in Nat /\ h[u] \in Nat
    BY <1>1, AccountAssumption, FS_Subset, MaxBalanceAssumption DEF Ledger, Balance
  <2>2. CASE x = a /\ w \in G
    <3>1. (\A u \in G \ {w} : f[u] = h[u]) /\ h[w] = n /\ f[w] = free[a][w]
      BY <1>2, <2>2
    <3> HIDE DEF f, h
    <3>2. SumFunctionOnSet(h, G) + f[w] = SumFunctionOnSet(f, G) + h[w]
      BY <2>1, <2>2, <3>1, SumChanges
    <3> QED BY <2>2, <3>1, <3>2 DEF GroupTotal, f, h
  <2>3. CASE ~(x = a /\ w \in G)
    <3>1. \A u \in G : h[u] = f[u]
      BY <1>2, <2>3
    <3> HIDE DEF f, h
    <3>2. SumFunctionOnSet(h, G) = SumFunctionOnSet(f, G)
      BY <2>1, <3>1, SumOfSame
    <3>3. GroupTotal(g, x, G) = GroupTotal(free, x, G)
      BY <3>2 DEF GroupTotal, f, h
    <3> QED BY <2>3, <3>3
  <2> QED BY <2>2, <2>3
<1> QED BY <1>1, <1>2, <1>3 DEF Written

\* Ledger g is ledger free after a payment.
Paid(free, g, a, from, to, n) ==
    /\ g \in Ledger
    /\ \A x \in AssetId, u \in AccountId :
          g[x][u] = IF x # a \/ from = to THEN free[x][u]
                    ELSE IF u = from THEN free[a][from] - n
                    ELSE IF u = to THEN free[a][to] + n
                    ELSE free[x][u]
    /\ \A x \in AssetId, G \in SUBSET AccountId :
          GroupTotal(g, x, G) + (IF x = a /\ from \in G THEN n ELSE 0)
              = GroupTotal(free, x, G) + (IF x = a /\ to \in G THEN n ELSE 0)

\* A payment, of balances whose total fits into a balance, does not wrap.
LEMMA MovedEffect ==
    ASSUME NEW free \in Ledger, NEW a \in AssetId, NEW from \in AccountId, NEW to \in AccountId,
           NEW n \in Balance, n <= free[a][from], SumFunction(free[a]) <= MaxBalance,
           NEW g, g = Moved(free, a, from, to, n)
    PROVE  Paid(free, g, a, from, to, n)
<1>1. CASE from = to
  <2> g = free
    BY <1>1 DEF Moved
  <2> QED BY <1>1 DEF Paid
<1>2. CASE from # to
  <2> DEFINE rest == free[a][from] - n
             sum == free[a][to] + n
             one == [free EXCEPT ![a][from] = rest]
  <2>1. /\ free[a] \in [AccountId -> Balance] /\ free[a][from] \in Nat /\ free[a][to] \in Nat
        /\ n \in Nat
    BY MaxBalanceAssumption DEF Ledger, Balance
  <2>2. free[a][from] + free[a][to] <= SumFunction(free[a]) /\ SumFunction(free[a]) \in Nat
    BY <1>2, <2>1, TotalIsSum
  <2>3. rest \in Balance /\ sum \in Balance
    BY <2>1, <2>2, MaxBalanceAssumption DEF Balance
  <2>4. g = [one EXCEPT ![a][to] = sum]
    <3>1. Wrap(sum) = sum
      BY <2>3, WrapFits
    <3> QED BY <1>2, <3>1 DEF Moved, Ledger
  <2>5. rest + n = free[a][from] /\ sum = free[a][to] + n
    BY <2>1
  <2> HIDE DEF rest, sum
  <2>6. /\ one \in Ledger
        /\ \A x \in AssetId, u \in AccountId :
               one[x][u] = IF x = a /\ u = from THEN rest ELSE free[x][u]
        /\ \A x \in AssetId, G \in SUBSET AccountId :
               GroupTotal(one, x, G) + (IF x = a /\ from \in G THEN free[a][from] ELSE 0)
                   = GroupTotal(free, x, G) + (IF x = a /\ from \in G THEN rest ELSE 0)
    <3> Written(free, one, a, from, rest)
      BY <2>3, CreditEffect
    <3> QED BY DEF Written
  <2> HIDE DEF one
  <2>7. /\ g \in Ledger
        /\ \A x \in AssetId, u \in AccountId :
               g[x][u] = IF x = a /\ u = to THEN sum ELSE one[x][u]
        /\ \A x \in AssetId, G \in SUBSET AccountId :
               GroupTotal(g, x, G) + (IF x = a /\ to \in G THEN one[a][to] ELSE 0)
                   = GroupTotal(one, x, G) + (IF x = a /\ to \in G THEN sum ELSE 0)
    <3> Written(one, g, a, to, sum)
      BY <2>3, <2>4, <2>6, CreditEffect
    <3> QED BY DEF Written
  <2>8. one[a][to] = free[a][to]
    BY <1>2, <2>6
  <2>9. ASSUME NEW x \in AssetId, NEW G \in SUBSET AccountId
        PROVE  GroupTotal(g, x, G) + (IF x = a /\ from \in G THEN n ELSE 0)
                   = GroupTotal(free, x, G) + (IF x = a /\ to \in G THEN n ELSE 0)
    <3>1. PICK s0 \in Nat : s0 = GroupTotal(free, x, G)
      BY GroupBounds
    <3>2. PICK s1 \in Nat : s1 = GroupTotal(one, x, G)
      BY <2>6, GroupBounds
    <3>3. PICK s2 \in Nat : s2 = GroupTotal(g, x, G)
      BY <2>7, GroupBounds
    <3>4. PICK p, q : p = free[a][from] /\ q = free[a][to]
      OBVIOUS
    <3>5. /\ s1 + (IF x = a /\ from \in G THEN p ELSE 0) = s0 + (IF x = a /\ from \in G THEN rest ELSE 0)
          /\ s2 + (IF x = a /\ to \in G THEN q ELSE 0) = s1 + (IF x = a /\ to \in G THEN sum ELSE 0)
      BY <2>6, <2>7, <2>8, <3>1, <3>2, <3>3, <3>4
    <3>6. p \in Nat /\ q \in Nat /\ rest \in Nat /\ sum \in Nat /\ n \in Nat /\ rest + n = p /\ sum = q + n
      BY <2>1, <2>3, <2>5, <3>4, MaxBalanceAssumption DEF Balance
    <3>7. s2 + (IF x = a /\ from \in G THEN n ELSE 0) = s0 + (IF x = a /\ to \in G THEN n ELSE 0)
      BY <3>5, <3>6
    <3> QED BY <3>1, <3>3, <3>7
  <2>10. rest = free[a][from] - n
    BY DEF rest
  <2>11. ASSUME NEW x \in AssetId, NEW u \in AccountId
         PROVE  g[x][u] = IF x # a \/ from = to THEN free[x][u]
                          ELSE IF u = from THEN free[a][from] - n
                          ELSE IF u = to THEN free[a][to] + n
                          ELSE free[x][u]
    BY <1>2, <2>5, <2>6, <2>7, <2>10
  <2> QED BY <2>7, <2>9, <2>11 DEF Paid
<1> QED BY <1>1, <1>2

=============================================================================
