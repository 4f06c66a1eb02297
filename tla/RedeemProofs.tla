---------------------------- MODULE RedeemProofs ----------------------------
(***************************************************************************)
(* What check_can_redeem lets through is redeemed to the end, for every    *)
(* number of phases, every rate and every state of the savings; and, at    *)
(* rates that fit, saving, release and redemption leave exactly as many    *)
(* shares as the IOUs that are outside are worth.                          *)
(***************************************************************************)
EXTENDS SavingProofs

\* Assets keep existing: none of the calls of SavingNext touches Symbols.
Existing == Symbols = GenesisSymbols

\* The calls leave the symbols alone.
LEMMA SymbolsStay == SavingSpec => []Existing
<1>1. SavingInit => Existing
  BY DEF SavingInit, AssetsInit, Existing
<1>2. ASSUME Existing, [SavingNext]_vars PROVE Existing'
  <2> SUFFICES Symbols' = Symbols
    BY <1>2 DEF Existing
  <2>1. ASSUME NEW s, NEW more, Performed(s, more) PROVE Symbols' = Symbols
    BY <2>1 DEF Performed, Commit, ledgerRules
  <2>2. CASE Configure
    <3>1. UNCHANGED assetVars \/ UNCHANGED ledgerRules
      BY <2>2 DEF Configure, pause, resume, Switch, set_share_asset_id, set_collection_asset_id,
                  set_profit_asset_id, set_collection_account, set_profit_pool, set_team_account_id,
                  Set, set_iou_asset_id_for_phase, force_release_bonus
    <3> QED BY <3>1 DEF assetVars, ledgerRules
  <2>3. CASE \E who \in Client, n \in StakeAmount : staking(who, n)
    BY <2>1, <2>3 DEF staking
  <2>4. CASE \E who \in Client, iou \in DOMAIN IOUAssetPhaseId, n \in RedeemAmount :
                redeem(who, iou, n) \/ sudo_redeem(who, iou, n)
    BY <2>1, <2>4 DEF redeem, sudo_redeem
  <2>5. CASE \E t \in Trade, m \in Movement : transfer(m[1], t[1], t[2], m[2])
    BY <2>1, <2>5 DEF transfer
  <2>6. CASE \E who \in Client, n \in RootAmount : MintShares(who, n) \/ BurnShares(who, n)
    BY <2>1, <2>6 DEF MintShares, BurnShares
  <2>7. CASE \E elapsed \in 0 .. 1 : NewBlock(elapsed)
    BY <2>7 DEF NewBlock, ledgerRules
  <2>8. CASE Environment
    BY <2>8 DEF Environment, UpdatePermission, UpdateRestriction, assetVars
  <2>9. CASE UNCHANGED vars
    BY <2>9 DEF vars, assetVars
  <2> QED BY <1>2, <2>2, <2>3, <2>4, <2>5, <2>6, <2>7, <2>8, <2>9 DEF SavingNext
<1> QED BY <1>1, <1>2, PTL DEF SavingSpec

\* The assets that a redemption moves: they exist and are free to move.
Movable(a) == should_exist(a) /\ can_do(a, "Transferable") /\ check_permission(a, rootKey, "burn")

\* A transfer that is covered goes through.
LEMMA TransferGoes ==
    ASSUME NEW s \in StorageType, s.ok, NEW a \in AssetId, Movable(a), NEW from, NEW to, NEW n,
           n <= s.free[a][from]
    PROVE  make_transfer(s, a, from, to, n).ok
<1>1. make_transfer(s, a, from, to, n) = [s EXCEPT !.free = Moved(@, a, from, to, n)]
  BY DEF make_transfer, Movable
<1>2. [s EXCEPT !.free = Moved(@, a, from, to, n)].ok = s.ok
  BY DEF StorageType
<1> QED BY <1>1, <1>2

\* A burn that is covered goes through.
LEMMA BurnGoes ==
    ASSUME Setting, NEW s \in StorageType, Conserved(s), s.ok, NEW a \in AssetId, Movable(a),
           NEW from \in AccountId, NEW n \in Nat, n <= s.free[a][from]
    PROVE  burn(s, a, from, n).ok
<1>1. n <= s.issuance[a]
  BY ConservedFacts DEF Setting
<1>2. PICK t : t = burn(s, a, from, n)
  OBVIOUS
<1>3. LedgerCall(s, t)
  BY <1>2, BurnCall
<1> DEFINE m == [s EXCEPT !.issuance[a] = @ - n, !.free[a][from] = @ - n]
<1>4. t = on_asset_burn(m, a, from, n) /\ m.ok /\ m.shares = s.shares
  BY <1>1, <1>2 DEF burn, Movable, StorageType
<1>5. m \in StorageType
  <2>1. s.issuance \in [AssetId -> Balance] /\ s.free \in [AssetId -> [AccountId -> Balance]]
    BY StorageFields DEF Ledger
  <2>2. s.issuance[a] - n \in Balance /\ s.free[a][from] - n \in Balance
    BY <1>1, <2>1, MaxBalanceAssumption DEF Balance
  <2>3. PICK i \in [AssetId -> Balance] : i = [s.issuance EXCEPT ![a] = @ - n]
    BY <2>1, <2>2
  <2>4. PICK f \in Ledger : f = [s.free EXCEPT ![a][from] = @ - n]
    BY <2>1, <2>2 DEF Ledger
  <2>5. m = [s EXCEPT !.issuance = i, !.free = f]
    BY <2>3, <2>4 DEF StorageType
  <2> QED BY <2>5 DEF StorageType
<1> HIDE DEF m
<1>6. Tracked(m, t)
  BY <1>4, <1>5, BurnHook
<1> QED BY <1>2, <1>4, <1>6 DEF Tracked, SameBut

-----------------------------------------------------------------------------
\* The numbers of a redemption.

\* No more is to come out of the unreleased shares than is required: of a phase
\* that has begun, fewer releases are to come than it had terms.
LEMMA LockedFits ==
    ASSUME NEW s \in StorageType, s.left = NumOfPhases - s.phase + 1, NEW p \in PhaseId,
           NEW r \in Balance, p <= s.phase \/ r = 0
    PROVE  LockedRequired(p, r, s.left) \in Nat /\ LockedRequired(p, r, s.left) <= r
<1>1. /\ NumOfPhases \in Nat /\ p \in Nat /\ p <= NumOfPhases /\ s.phase \in Nat
      /\ s.left \in Nat \ {0} /\ r \in Nat /\ MaxBalance \in Nat
  BY PhaseNumbers, MaxBalanceAssumption DEF Balance
<1>2. PICK k \in Nat : k = s.left - 1
  BY <1>1
<1>3. PICK d \in Nat \ {0} : d = NumOfPhases - p + 1
  BY <1>1
<1>4. PICK m \in Nat : m = r * k
  BY <1>1, ProductIsNat
<1>5. Wrap(m) \in Nat /\ Wrap(m) <= m
  BY <1>1 DEF Wrap
<1>6. LockedRequired(p, r, s.left) = Wrap(m) \div d
  BY <1>2, <1>3, <1>4 DEF LockedRequired
<1>7. m <= r * d
  <2>1. CASE r = 0
    BY <1>4, <2>1
  <2>2. CASE p <= s.phase
    <3>1. k <= d
      BY <1>1, <1>2, <1>3, <2>2
    <3> QED BY <1>1, <1>4, <3>1
  <2> QED BY <2>1, <2>2
<1>8. PICK w \in Nat : w = Wrap(m) /\ w <= r * d
  BY <1>1, <1>3, <1>4, <1>5, <1>7
<1>9. w \div d \in Nat /\ d * (w \div d) <= w
  BY <1>3, <1>8
<1>10. PICK q \in Nat : q = w \div d /\ d * q <= r * d
  BY <1>1, <1>8, <1>9
<1>11. q <= r
  BY <1>1, <1>3, <1>10
<1> QED BY <1>6, <1>8, <1>10, <1>11

\* What check_can_redeem asks for is enough: a shortage of one kind is made up by
\* the other, and neither is asked for more than there is.
LEMMA ShortagesMadeUp ==
    ASSUME NEW r \in Nat, NEW l \in Nat, l <= r, NEW a \in Nat, NEW u \in Nat,
           a >= r \/ ((a >= r - l \/ r = a + u) /\ r <= a + u),
           NEW lh \in {l, u}, lh <= l, lh <= u, NEW fh \in {r - l, a}, fh <= r - l, fh <= a
    PROVE  /\ lh \in Nat /\ fh \in Nat
           /\ fh + (l - lh) \in Nat /\ fh + (l - lh) <= a
           /\ lh + (r - l - fh) \in Nat /\ lh + (r - l - fh) <= u
           /\ (fh + (l - lh)) + (lh + (r - l - fh)) = r
           /\ ~(r - l > 0 /\ a + u < r)
           /\ lh + (r - l - fh) \in {l, u}
  OBVIOUS

\* While all packs are of the share asset, make_redeem counts the packs that
\* check_can_redeem has counted.
LEMMA SamePacks ==
    ASSUME NEW n, NEW list \in Packs(n, {ShareAssetId}), NEW p
    PROVE  UnreleasedOf(list, p) = AggregatedTotal(list, p, ShareAssetId)
<1>1. \A i \in DOMAIN list : list[i].asset_id = ShareAssetId
  BY DEF Packs
<1>2. {i \in DOMAIN list : list[i].phase_id = p} = Same(list, p, ShareAssetId)
  BY <1>1 DEF Same
<1> QED BY <1>2 DEF UnreleasedOf, AggregatedTotal

\* The shares that a redemption requires, those of them that are to be unreleased,
\* and the ones that the account has unreleased.
Required(iou, amount) == Wrap(amount * Exchange[IOUAssetPhaseId[iou]])
Locked(s, iou, amount) == LockedRequired(IOUAssetPhaseId[iou], Required(iou, amount), s.left)
HeldBack(s, iou, who) == AggregatedTotal(Get(s.list, who, <<>>), IOUAssetPhaseId[iou], ShareAssetId)

\* A redemption that takes ff free and fl unreleased shares, call by call.
RedeemedBy(s, iou, who, amount, ff, fl, taken, moved, after, listed, burnt, t) ==
    /\ SameLedger(s, taken) /\ taken.list = Removed(s.list, who) /\ taken.quota = s.quota
    /\ moved = make_transfer(taken, ShareAssetId, who, CollectionAccountId, ff)
    /\ after = IF HeldBack(s, iou, who) > fl
               THEN aggregate_phase_unreleased(Get(s.list, who, <<>>), IOUAssetPhaseId[iou], ShareAssetId, fl)
               ELSE Rest(Get(s.list, who, <<>>), IOUAssetPhaseId[iou], ShareAssetId)
    /\ listed = [moved EXCEPT !.list = Put(@, who, after)]
    /\ burnt = IF ff = 0 THEN listed ELSE burn(listed, ShareAssetId, CollectionAccountId, ff)
    /\ t = IF moved.ok THEN make_transfer(burnt, CollectionAssetId, CollectionAccountId, who, amount)
                       ELSE Fail(moved)

\* How many of either kind it takes.
TakesOf(s, iou, who, amount, ff, fl) ==
    /\ ff \in Nat /\ fl \in Nat /\ ff <= s.free[ShareAssetId][who] /\ fl <= HeldBack(s, iou, who)
    /\ ff + fl = Required(iou, amount) /\ fl \in {Locked(s, iou, amount), HeldBack(s, iou, who)}

\* What check_can_redeem has let through, of shares that fit a balance.
Redeemable(s, iou, who, amount) ==
    /\ IOUAssetPhaseId[iou] <= s.phase \/ amount = 0
    /\ check_can_redeem(s, iou, who, amount)
    /\ s.free[ShareAssetId][who] + HeldBack(s, iou, who) <= MaxBalance

\* After check_can_redeem the first checks of make_redeem do not fail.
LEMMA RedeemSteps ==
    ASSUME NEW P, Stand(P), "whole" \in P, NEW v \in [PhaseId -> Nat], NEW amount \in Nat,
           NEW s \in Sound(P, v, amount), NEW iou \in IOUs, NEW who \in AccountId,
           Redeemable(s, iou, who, amount), NEW t, t = make_redeem(s, iou, who, amount)
    PROVE  \E ff, fl, taken, moved, after, listed, burnt :
               /\ TakesOf(s, iou, who, amount, ff, fl) /\ taken \in Sound(P, v, amount)
               /\ RedeemedBy(s, iou, who, amount, ff, fl, taken, moved, after, listed, burnt, t)
<1> DEFINE phase     == IOUAssetPhaseId[iou]
           list      == Get(s.list, who, <<>>)
           required  == Wrap(amount * Exchange[phase])
           locked    == LockedRequired(phase, required, s.left)
           free      == Wrap(required - locked)
           returned  == s.collected[who]
           ret_free  == Min({returned, free})
           ret_lock  == Min({returned - ret_free, locked})
           taken     == [s EXCEPT !.collected[who] = returned - ret_free - ret_lock,
                                  !.list = Removed(@, who)]
           unrel     == UnreleasedOf(list, phase)
           held      == s.free[ShareAssetId][who]
           lock_have == Min({locked - ret_lock, unrel})
           free_have == Min({free - ret_free, held})
           from_free == Wrap(free_have + (locked - ret_lock - lock_have))
           from_lock == Wrap(lock_have + (free - ret_free - free_have))
           to_burn   == Wrap(ret_free + ret_lock + from_free)
           total     == AggregatedTotal(list, phase, ShareAssetId)
           moved     == make_transfer(taken, ShareAssetId, who, CollectionAccountId, from_free)
           after     == IF total > from_lock
                        THEN aggregate_phase_unreleased(list, phase, ShareAssetId, from_lock)
                        ELSE Rest(list, phase, ShareAssetId)
           listed    == [moved EXCEPT !.list = Put(@, who, after)]
           burnt     == IF to_burn = 0 THEN listed
                        ELSE burn(listed, ShareAssetId, CollectionAccountId, to_burn)
           short     == free - ret_free > 0 /\ Wrap(held + unrel) < required
           paid      == make_transfer(burnt, CollectionAssetId, CollectionAccountId, who, amount)
           odd       == short \/ Wrap(from_free + from_lock + returned) # required
           A         == PackAssets(P)
<1>0. t = IF odd THEN Fail(taken)
          ELSE IF ~moved.ok \/ total < from_lock THEN Fail(moved)
          ELSE paid
  BY DEF make_redeem
<1> HIDE DEF paid, burnt, listed, after, moved, odd
<1>1. /\ s \in StorageType /\ phase \in PhaseId /\ Setting /\ Orderly /\ ShareAssetId \in AssetId
      /\ CollectionAccountId \in AccountId /\ CollectionAssetId \in AssetId
      /\ A = {ShareAssetId} /\ Conserved(s) /\ s.left = NumOfPhases - s.phase + 1
      /\ list \in Packs(s.left - 1, A) /\ list \in Seq(ReleasePack)
      /\ s.list \in Maps(Packs(s.left - 1, A)) /\ s.quota <= Quota[s.phase]
      /\ iou \in AssetId /\ iou \notin {ShareAssetId, CollectionAssetId}
      /\ ShareAssetId # CollectionAssetId
  BY SoundFacts, StandFacts, ListOf, OrderlyFacts DEF InStep, PackAssets
<1>2. required \in Balance /\ (phase <= s.phase \/ required = 0)
  <2>1. required \in Balance
    <3> HIDE DEF phase
    <3> QED BY <1>1, RedeemNumbers
  <2>2. amount = 0 => required = 0
    <3>1. Exchange[phase] \in Nat
      BY <1>1, PhaseNumbers
    <3>2. amount = 0 => amount * Exchange[phase] = 0
      BY <3>1
    <3> QED BY <3>2, WrapZero
  <2> QED BY <2>1, <2>2 DEF Redeemable
<1>3. locked \in Nat /\ locked <= required
  <2> HIDE DEF phase, required
  <2> QED BY <1>1, <1>2, LockedFits
<1>4. returned = 0 /\ held \in Balance
  <2>1. s.free \in [AssetId -> [AccountId -> Balance]]
    BY <1>1, StorageFields DEF Ledger
  <2> QED BY <1>1, <2>1, StorageFields
<1>5. unrel = total /\ total \in Balance
  <2>1. Same(list, phase, ShareAssetId) \in SUBSET DOMAIN list
    BY DEF Same
  <2>2. unrel = total
    BY <1>1, SamePacks
  <2> HIDE DEF list, phase
  <2> QED BY <1>1, <2>1, <2>2, TotalAtFacts DEF AggregatedTotal
<1>6. check_can_redeem(s, iou, who, amount)
        = \/ Wrap(held + returned) >= required
          \/ /\ Wrap(held + returned) >= Wrap(required - locked) \/ required = Wrap(Wrap(held + returned) + total)
             /\ required <= Wrap(Wrap(held + returned) + total)
  BY DEF check_can_redeem
<1>7. held + total <= MaxBalance /\ check_can_redeem(s, iou, who, amount)
  BY DEF Redeemable, HeldBack
<1> HIDE DEF phase, list, required, locked, returned, held, unrel, total, A
<1>8. /\ required \in Nat /\ required <= MaxBalance /\ MaxBalance \in Nat /\ held \in Nat
      /\ total \in Nat
  BY <1>2, <1>4, <1>5, MaxBalanceAssumption DEF Balance
<1>9. free = required - locked
  BY <1>3, <1>8, WrapFits DEF Balance
<1>10. Wrap(held + returned) = held /\ Wrap(held + total) = held + total
  <2>1. held + returned = held /\ held + total \in Balance
    BY <1>4, <1>7, <1>8 DEF Balance
  <2> QED BY <1>4, <2>1, WrapFits
<1>11. held >= required
       \/ ((held >= required - locked \/ required = held + total) /\ required <= held + total)
  BY <1>6, <1>7, <1>9, <1>10 DEF free
<1> HIDE DEF free
<1>12. ret_free = 0
  <2>1. 0 \in Int /\ free \in Int /\ 0 <= free
    BY <1>3, <1>8, <1>9
  <2>2. PICK z : z = free
    OBVIOUS
  <2>3. Min({0, z}) \in {0, z} /\ Min({0, z}) <= 0
    BY <2>1, <2>2, MinOfTwo
  <2> QED BY <1>4, <2>1, <2>2, <2>3
<1> HIDE DEF ret_free
<1>13. ret_lock = 0
  <2>1. PICK z \in Nat : z = locked
    BY <1>3
  <2>2. PICK y : y = returned - ret_free
    OBVIOUS
  <2>3. y = 0
    BY <1>4, <1>12, <2>2
  <2>4. Min({0, z}) \in {0, z} /\ Min({0, z}) <= 0
    <3>1. 0 \in Int /\ z \in Int
      OBVIOUS
    <3> QED BY <3>1, MinOfTwo
  <2>5. ret_lock = Min({y, z})
    BY <2>1, <2>2
  <2> QED BY <2>3, <2>4, <2>5
<1> HIDE DEF ret_lock
<1>14. lock_have = Min({locked, total}) /\ free_have = Min({required - locked, held})
  <2>1. locked - ret_lock = locked /\ free - ret_free = required - locked
    BY <1>3, <1>8, <1>9, <1>12, <1>13
  <2> QED BY <1>5, <2>1
<1> HIDE DEF lock_have, free_have
<1>15. /\ lock_have \in Nat /\ free_have \in Nat
       /\ free_have + (locked - lock_have) \in Nat /\ free_have + (locked - lock_have) <= held
       /\ lock_have + (required - locked - free_have) \in Nat
       /\ lock_have + (required - locked - free_have) <= total
       /\ (free_have + (locked - lock_have)) + (lock_have + (required - locked - free_have)) = required
       /\ ~(required - locked > 0 /\ held + total < required)
       /\ lock_have + (required - locked - free_have) \in {locked, total}
  <2>1. PICK r \in Nat, l \in Nat, a \in Nat, u \in Nat :
            r = required /\ l = locked /\ a = held /\ u = total
    BY <1>3, <1>8
  <2>2. PICK f \in Nat : f = r - l
    BY <1>3, <2>1
  <2>6. PICK lh, fh : lh = Min({l, u}) /\ fh = Min({f, a})
    OBVIOUS
  <2>7. lh \in {l, u} /\ lh <= l /\ lh <= u /\ fh \in {f, a} /\ fh <= f /\ fh <= a
    <3>1. l \in Int /\ u \in Int /\ f \in Int /\ a \in Int
      OBVIOUS
    <3>2. Min({l, u}) \in {l, u} /\ Min({l, u}) <= l /\ Min({l, u}) <= u
      BY <3>1, MinOfTwo
    <3>3. Min({f, a}) \in {f, a} /\ Min({f, a}) <= f /\ Min({f, a}) <= a
      BY <3>1, MinOfTwo
    <3> QED BY <2>6, <3>2, <3>3
  <2>3. l <= r /\ (a >= r \/ ((a >= r - l \/ r = a + u) /\ r <= a + u))
    BY <1>3, <1>11, <2>1
  <2>4. /\ lh \in Nat /\ fh \in Nat
        /\ fh + (l - lh) \in Nat /\ fh + (l - lh) <= a
        /\ lh + (r - l - fh) \in Nat /\ lh + (r - l - fh) <= u
        /\ (fh + (l - lh)) + (lh + (r - l - fh)) = r
        /\ ~(r - l > 0 /\ a + u < r)
        /\ lh + (r - l - fh) \in {l, u}
    <3>1. fh \in {r - l, a} /\ fh <= r - l
      BY <2>2, <2>7
    <3> QED BY <2>3, <2>7, <3>1, ShortagesMadeUp
  <2>5. lock_have = lh /\ free_have = fh
    BY <1>14, <2>1, <2>2, <2>6, <2>7
  <2> QED BY <2>1, <2>4, <2>5
<1>16. /\ from_free = free_have + (locked - lock_have)
       /\ from_lock = lock_have + (required - locked - free_have)
  <2>1. /\ free_have + (locked - ret_lock - lock_have) = free_have + (locked - lock_have)
        /\ lock_have + (free - ret_free - free_have) = lock_have + (required - locked - free_have)
    BY <1>3, <1>8, <1>9, <1>12, <1>13, <1>15
  <2>2. free_have + (locked - lock_have) \in Balance
        /\ lock_have + (required - locked - free_have) \in Balance
    <3>1. PICK f \in Nat, l \in Nat : /\ f = free_have + (locked - lock_have) /\ f <= held
                                     /\ l = lock_have + (required - locked - free_have) /\ l <= total
      BY <1>15
    <3>2. f <= MaxBalance /\ l <= MaxBalance
      BY <1>7, <1>8, <3>1
    <3> QED BY <3>1, <3>2 DEF Balance
  <2> QED BY <2>1, <2>2, WrapFits
<1> HIDE DEF from_free, from_lock
<1>17. /\ from_free \in Nat /\ from_lock \in Nat /\ from_free <= held /\ from_lock <= total
       /\ from_free + from_lock = required /\ from_lock \in {locked, total}
  BY <1>15, <1>16
<1>18. to_burn = from_free
  <2>1. ret_free + ret_lock + from_free = from_free /\ from_free \in Balance
    BY <1>7, <1>8, <1>12, <1>13, <1>17 DEF Balance
  <2> QED BY <2>1, WrapFits
<1> HIDE DEF to_burn
<1>19. ~odd
  <2>1. ~short
    <3>1. free - ret_free = required - locked
      BY <1>3, <1>8, <1>9, <1>12
    <3> QED BY <1>5, <1>10, <1>15, <3>1
  <2>2. Wrap(from_free + from_lock + returned) = required
    <3>1. from_free + from_lock + returned = required /\ required \in Balance
      BY <1>2, <1>4, <1>8, <1>17
    <3> QED BY <3>1, WrapFits
  <2> QED BY <2>1, <2>2 DEF odd
<1>20. PICK r : r = returned - ret_free - ret_lock
  OBVIOUS
<1>21. taken \in Sound(P, v, amount) /\ SameLedger(s, taken) /\ taken.list = Removed(s.list, who) /\ taken.quota = s.quota
  <2>1. PICK m : m = Removed(s.list, who)
    OBVIOUS
  <2>2. m \in Maps(Packs(s.left - 1, A)) /\ m \in Maps(Seq(ReleasePack))
    BY <1>1, <2>1, RemovedPacks, PackMaps
  <2>3. PICK c : c = [s.collected EXCEPT ![who] = r]
    OBVIOUS
  <2>4. c \in Uncollected
    <3>1. r = 0
      BY <1>4, <1>12, <1>13, <1>20
    <3>2. s.collected = [w \in AccountId |-> 0]
      BY <1>1, StorageFields DEF Uncollected
    <3> QED BY <2>3, <3>1, <3>2 DEF Uncollected
  <2>5. taken = [s EXCEPT !.collected = c, !.list = m]
    BY <1>20, <2>1, <2>3
  <2> HIDE DEF taken
  <2>6. SameLedger(s, taken) /\ taken.list = m /\ taken.quota = s.quota
    BY <1>1, <2>2, <2>4, <2>5 DEF SameLedger, StorageType
  <2>7. taken \in Sound(P, v, amount)
    BY <1>1, <2>2, <2>6, SoundBooks DEF A
  <2> QED BY <2>1, <2>6, <2>7
<1> HIDE DEF taken
<1>22. t = IF moved.ok THEN paid ELSE Fail(moved)
  BY <1>0, <1>8, <1>17, <1>19
<1>23. TakesOf(s, iou, who, amount, from_free, from_lock)
  <2>1. held = s.free[ShareAssetId][who] /\ total = HeldBack(s, iou, who)
    BY DEF held, total, HeldBack, list, phase
  <2>2. required = Required(iou, amount) /\ locked = Locked(s, iou, amount)
    BY DEF required, locked, Required, Locked, phase
  <2> QED BY <1>17, <2>1, <2>2 DEF TakesOf
<1>24. RedeemedBy(s, iou, who, amount, from_free, from_lock, taken, moved, after, listed, burnt, t)
  <2>1. /\ moved = make_transfer(taken, ShareAssetId, who, CollectionAccountId, from_free)
        /\ listed = [moved EXCEPT !.list = Put(@, who, after)]
        /\ burnt = IF from_free = 0 THEN listed ELSE burn(listed, ShareAssetId, CollectionAccountId, from_free)
    BY <1>18 DEF moved, listed, burnt
  <2>2. after = IF HeldBack(s, iou, who) > from_lock
                THEN aggregate_phase_unreleased(Get(s.list, who, <<>>), IOUAssetPhaseId[iou], ShareAssetId, from_lock)
                ELSE Rest(Get(s.list, who, <<>>), IOUAssetPhaseId[iou], ShareAssetId)
    BY DEF after, HeldBack, total, list, phase
  <2>3. t = IF moved.ok THEN make_transfer(burnt, CollectionAssetId, CollectionAccountId, who, amount) ELSE Fail(moved)
    BY <1>22 DEF paid
  <2> QED BY <1>21, <2>1, <2>2, <2>3 DEF RedeemedBy
<1> QED BY <1>21, <1>23, <1>24

\* make_redeem after check_can_redeem succeeds, and leaves the IOUs alone.
LEMMA RedeemGoesThrough ==
    ASSUME NEW P, Stand(P), "whole" \in P, NEW v \in [PhaseId -> Nat], NEW amount \in Nat,
           NEW s \in Sound(P, v, amount), s.ok, NEW iou \in IOUs,
           NEW who \in AccountId, who # CollectionAccountId,
           Movable(ShareAssetId), Movable(CollectionAssetId),
           Redeemable(s, iou, who, amount), NEW t, t = make_redeem(s, iou, who, amount)
    PROVE  t.ok /\ t.free[iou][CollectionAccountId] = s.free[iou][CollectionAccountId]
<1> DEFINE A == PackAssets(P)
<1>1. /\ s \in StorageType /\ Setting /\ Orderly /\ ShareAssetId \in AssetId
      /\ CollectionAccountId \in AccountId /\ CollectionAssetId \in AssetId
      /\ A = {ShareAssetId} /\ Conserved(s) /\ s.list \in Maps(Packs(s.left - 1, A))
      /\ Get(s.list, who, <<>>) \in Packs(s.left - 1, A) /\ s.quota <= Quota[s.phase]
      /\ iou \in AssetId /\ iou \notin {ShareAssetId, CollectionAssetId}
      /\ ShareAssetId # CollectionAssetId /\ IOUAssetPhaseId[iou] \in PhaseId
  BY SoundFacts, StandFacts, ListOf, OrderlyFacts DEF InStep, PackAssets
<1> HIDE DEF A
<1>2. PICK from_free, from_lock, taken, moved, after, listed, burnt :
          /\ TakesOf(s, iou, who, amount, from_free, from_lock) /\ taken \in Sound(P, v, amount)
          /\ RedeemedBy(s, iou, who, amount, from_free, from_lock, taken, moved, after, listed, burnt, t)
  BY RedeemSteps
<1>17. from_free \in Nat /\ from_lock \in Nat /\ from_free <= s.free[ShareAssetId][who]
  BY <1>2 DEF TakesOf
<1>20. /\ moved = make_transfer(taken, ShareAssetId, who, CollectionAccountId, from_free)
       /\ listed = [moved EXCEPT !.list = Put(@, who, after)]
       /\ burnt = IF from_free = 0 THEN listed ELSE burn(listed, ShareAssetId, CollectionAccountId, from_free)
  BY <1>2 DEF RedeemedBy
<1>19. after = IF HeldBack(s, iou, who) > from_lock
               THEN aggregate_phase_unreleased(Get(s.list, who, <<>>), IOUAssetPhaseId[iou], ShareAssetId, from_lock)
               ELSE Rest(Get(s.list, who, <<>>), IOUAssetPhaseId[iou], ShareAssetId)
  BY <1>2 DEF RedeemedBy
<1>18. t = IF moved.ok THEN make_transfer(burnt, CollectionAssetId, CollectionAccountId, who, amount) ELSE Fail(moved)
  BY <1>2 DEF RedeemedBy
<1>21. /\ taken \in Sound(P, v, amount) /\ taken.ok /\ taken.free = s.free
       /\ taken.list \in Maps(Packs(s.left - 1, A)) /\ taken.left = s.left /\ taken.phase = s.phase
       /\ taken.quota = s.quota
  <2>1. SameLedger(s, taken) /\ taken.list = Removed(s.list, who) /\ taken.quota = s.quota
    BY <1>2 DEF RedeemedBy
  <2>2. Removed(s.list, who) \in Maps(Packs(s.left - 1, A))
    BY <1>1, RemovedPacks
  <2> QED BY <1>2, <2>1, <2>2 DEF SameLedger
<1>22. taken \in StorageType /\ Conserved(taken)
  BY <1>21, SoundFacts
<1>23. moved.ok
  <2>1. from_free <= taken.free[ShareAssetId][who]
    BY <1>17, <1>21
  <2> QED BY <1>1, <1>21, <1>22, <1>20, <2>1, TransferGoes
<1>24. /\ moved \in Sound(P, v, amount) /\ LedgerCall(taken, moved)
       /\ Paid(taken.free, moved.free, ShareAssetId, who, CollectionAccountId, from_free)
  <2>1. Gain(ShareAssetId, who, CollectionAccountId, from_free) = 0
    BY <1>1, OrderlyFacts DEF Gain
  <2>2. amount <= amount + Gain(ShareAssetId, who, CollectionAccountId, from_free)
    BY <2>1
  <2>3. moved \in Sound(P, v, amount) /\ LedgerCall(taken, moved)
    BY <1>1, <1>17, <1>20, <1>21, <2>2, SoundTransfer
  <2>4. Paid(taken.free, moved.free, ShareAssetId, who, CollectionAccountId, from_free)
    BY <1>1, <1>17, <1>20, <1>22, <1>23, TransferKeeps
  <2> QED BY <2>3, <2>4
<1>25. after \in Packs(s.left - 1, A)
  <2>1. s.left \in Nat \ {0}
    BY <1>1, PhaseNumbers
  <2>2. s.left - 1 \in Nat
    BY <2>1
  <2>6. PICK l : l = Get(s.list, who, <<>>)
    OBVIOUS
  <2>3. PICK n \in Nat, p \in PhaseId : n = s.left - 1 /\ p = IOUAssetPhaseId[iou]
    BY <1>1, <2>2
  <2>4. ShareAssetId \in A /\ A \in SUBSET AssetId /\ l \in Packs(n, A)
    BY <1>1, <2>3, <2>6
  <2>5. after \in Packs(n, A)
    BY <1>17, <1>19, <2>3, <2>4, <2>6, ListAfter DEF HeldBack
  <2> QED BY <2>3, <2>5
<1>26. /\ listed \in Sound(P, v, amount) /\ listed.ok /\ listed.free = moved.free
  <2>1. moved \in StorageType
    BY <1>24, SoundFacts
  <2>2. PICK m : m = Put(moved.list, who, after)
    OBVIOUS
  <2>3. moved.list = taken.list /\ moved.left = s.left /\ moved.phase = s.phase /\ moved.quota = s.quota
    BY <1>21, <1>24 DEF LedgerCall, SameBooks
  <2>4. m \in Maps(Packs(s.left - 1, A)) /\ m \in Maps(Seq(ReleasePack))
    BY <1>21, <1>25, <2>2, <2>3, PutPacks, PackMaps
  <2>5. listed = [moved EXCEPT !.list = m]
    BY <1>20, <2>2
  <2>6. SameLedger(moved, listed) /\ listed.list = m /\ listed.quota = moved.quota
    BY <2>1, <2>4, <2>5 DEF SameLedger, StorageType
  <2>7. listed \in Sound(P, v, amount)
    BY <1>1, <1>24, <2>3, <2>4, <2>6, SoundBooks DEF A
  <2> QED BY <1>23, <2>6, <2>7 DEF SameLedger
<1>27. listed \in StorageType /\ Conserved(listed)
  BY <1>26, SoundFacts
<1>28. from_free <= listed.free[ShareAssetId][CollectionAccountId]
       /\ listed.free[iou][CollectionAccountId] = s.free[iou][CollectionAccountId]
  <2>1. taken.free[ShareAssetId][CollectionAccountId] \in Nat
    BY <1>1, <1>22, ConservedFacts DEF Setting
  <2>2. moved.free[ShareAssetId][CollectionAccountId]
            = taken.free[ShareAssetId][CollectionAccountId] + from_free
    BY <1>1, <1>24 DEF Paid
  <2>3. moved.free[iou][CollectionAccountId] = taken.free[iou][CollectionAccountId]
    BY <1>1, <1>24 DEF Paid
  <2> QED BY <1>17, <1>21, <1>26, <2>1, <2>2, <2>3
<1>29. burnt \in Sound(P, v, amount) /\ burnt.ok
       /\ burnt.free[iou][CollectionAccountId] = s.free[iou][CollectionAccountId]
  <2>1. CASE from_free = 0
    BY <1>20, <1>26, <1>28, <2>1
  <2>2. CASE from_free # 0
    <3>1. burnt = burn(listed, ShareAssetId, CollectionAccountId, from_free)
      BY <1>20, <2>2
    <3>2. burnt.ok
      BY <1>1, <1>17, <1>26, <1>27, <1>28, <3>1, BurnGoes
    <3>3. burnt \in Sound(P, v, amount)
      BY <1>1, <1>17, <1>26, <3>1, SoundBurn
    <3>4. Shifted(listed, burnt, ShareAssetId, CollectionAccountId, from_free, 0) /\ Conserved(burnt)
          /\ burnt \in StorageType
      <4>1. PICK n \in Nat, b \in AssetId, c \in AccountId, u \in StorageType :
                n = from_free /\ b = ShareAssetId /\ c = CollectionAccountId /\ u = listed
        BY <1>1, <1>17, <1>27
      <4>0. PICK w : w = burnt
        OBVIOUS
      <4>2. w = burn(u, b, c, n) /\ w.ok /\ Conserved(u)
        BY <1>27, <3>1, <3>2, <4>0, <4>1
      <4>3. Shifted(u, w, b, c, n, 0) /\ Conserved(w) /\ LedgerCall(u, w)
        BY <1>1, <4>2, BurnKeeps
      <4> QED BY <4>0, <4>1, <4>3 DEF LedgerCall
    <3>5. burnt.free[iou][CollectionAccountId] + 0 = listed.free[iou][CollectionAccountId] + 0
      BY <1>1, <3>4 DEF Shifted
    <3>6. burnt.free[iou][CollectionAccountId] \in Nat /\ listed.free[iou][CollectionAccountId] \in Nat
      BY <1>1, <1>27, <3>4, ConservedFacts DEF Setting
    <3> QED BY <1>28, <3>2, <3>3, <3>5, <3>6
  <2> QED BY <2>1, <2>2
<1>30. burnt \in StorageType /\ Conserved(burnt) /\ Covers(burnt, amount)
  BY <1>29, SoundFacts
<1>31. amount <= burnt.free[CollectionAssetId][CollectionAccountId]
  <2>1. OutsideAll(burnt) \in Nat
    BY <1>1, <1>30, OutsideAllChanges
  <2>2. burnt.free[CollectionAssetId][CollectionAccountId] \in Nat
    BY <1>1, <1>30, ConservedFacts DEF Setting
  <2> QED BY <1>30, <2>1, <2>2 DEF Covers
<1>32. t = make_transfer(burnt, CollectionAssetId, CollectionAccountId, who, amount)
  BY <1>18, <1>23
<1>33. t.ok
  BY <1>1, <1>29, <1>30, <1>31, <1>32, TransferGoes
<1>34. Paid(burnt.free, t.free, CollectionAssetId, CollectionAccountId, who, amount)
  BY <1>1, <1>30, <1>32, <1>33, TransferKeeps
<1>35. t.free[iou][CollectionAccountId] = burnt.free[iou][CollectionAccountId]
  BY <1>1, <1>34 DEF Paid
<1> QED BY <1>29, <1>33, <1>35

\* The phase of an IOU is the one that issues it.
LEMMA PhaseOfIOU ==
    ASSUME Orderly, NEW iou \in IOUs
    PROVE  IOUAssetPhaseId[iou] \in PhaseId /\ PhaseIOU[IOUAssetPhaseId[iou]] = iou
<1>1. GenesisIOU \in [PhaseId -> GenesisSymbols]
  BY SavingAssumption
<1>2. IOUs = Range(GenesisIOU)
  BY <1>1 DEF Orderly, IOUs, AntiFunction, Inverse, Range
<1>3. \E p \in PhaseId : GenesisIOU[p] = iou
  BY <1>1, <1>2 DEF Range
<1>4. IOUAssetPhaseId[iou] = CHOOSE p \in PhaseId : iou \in Range(GenesisIOU) => GenesisIOU[p] = iou
  BY <1>1, <1>2 DEF Orderly, AntiFunction, Inverse
<1>5. IOUAssetPhaseId[iou] \in PhaseId /\ GenesisIOU[IOUAssetPhaseId[iou]] = iou
  BY <1>2, <1>3, <1>4
<1> QED BY <1>5 DEF Orderly

\* Redeeming from the transfer of the IOUs to their burning.
LEMMA RedeemIOUGoesThrough ==
    ASSUME NEW P, Stand(P), "whole" \in P, NEW v \in [PhaseId -> Nat], NEW n \in Nat,
           NEW s \in Sound(P, v, 0), s.ok, NEW iou \in IOUs,
           \A p \in PhaseId : p > s.phase => v[p] = 0,
           NEW who \in AccountId, who # CollectionAccountId,
           Movable(ShareAssetId), Movable(CollectionAssetId), Movable(iou),
           n <= s.free[iou][who], check_can_redeem(s, iou, who, n),
           s.free[ShareAssetId][who]
               + AggregatedTotal(Get(s.list, who, <<>>), IOUAssetPhaseId[iou], ShareAssetId)
               <= MaxBalance
    PROVE  RedeemIOU(s, iou, who, n).ok
<1> DEFINE sent     == make_transfer(s, iou, who, CollectionAccountId, n)
           redeemed == make_redeem(sent, iou, who, n)
           returned == Fail(make_transfer([redeemed EXCEPT !.ok = TRUE], iou, CollectionAccountId, who, n))
           burnt    == burn(redeemed, iou, CollectionAccountId, n)
           phase    == IOUAssetPhaseId[iou]
<1>0. RedeemIOU(s, iou, who, n) = IF ~sent.ok THEN sent ELSE IF redeemed.ok THEN burnt ELSE returned
  BY DEF RedeemIOU
<1> HIDE DEF sent, redeemed, returned, burnt
<1>1. /\ Setting /\ Orderly /\ s \in StorageType /\ Conserved(s) /\ Issued(s, v)
      /\ iou \in AssetId /\ iou \notin {ShareAssetId, CollectionAssetId}
      /\ CollectionAccountId \in AccountId /\ ShareAssetId \in AssetId
      /\ phase \in PhaseId /\ PhaseIOU[phase] = iou
  BY SoundFacts, StandFacts, OrderlyFacts, PhaseOfIOU
<1>2. phase <= s.phase \/ n = 0
  <2>1. phase \in Nat /\ s.phase \in Nat
    BY <1>1, PhaseNumbers
  <2>2. s.issuance[iou] <= v[phase] /\ v[phase] \in Nat
    BY <1>1 DEF Issued
  <2>3. s.free[iou][who] \in Nat /\ s.free[iou][who] <= s.issuance[iou] /\ s.issuance[iou] \in Nat
    BY <1>1, ConservedFacts DEF Setting
  <2>4. phase > s.phase => v[phase] = 0
    BY <1>1
  <2> QED BY <2>1, <2>2, <2>3, <2>4
<1>3. sent.ok
  BY <1>1, TransferGoes DEF sent
<1>4. /\ sent \in Sound(P, v, n) /\ LedgerCall(s, sent) /\ Conserved(sent) /\ sent \in StorageType
      /\ Paid(s.free, sent.free, iou, who, CollectionAccountId, n)
  <2>1. Gain(iou, who, CollectionAccountId, n) = n
    BY DEF Gain
  <2>2. n <= 0 + Gain(iou, who, CollectionAccountId, n)
    BY <2>1
  <2>3. sent \in Sound(P, v, n) /\ LedgerCall(s, sent)
    BY <1>1, <2>2, SoundTransfer DEF sent
  <2>4. Paid(s.free, sent.free, iou, who, CollectionAccountId, n)
    BY <1>1, <1>3, TransferKeeps DEF sent
  <2> QED BY <2>3, <2>4, SoundFacts
<1>5. /\ sent.list = s.list /\ sent.left = s.left /\ sent.phase = s.phase
      /\ sent.collected = s.collected
      /\ sent.free[ShareAssetId][who] = s.free[ShareAssetId][who]
      /\ sent.free[iou][CollectionAccountId] = s.free[iou][CollectionAccountId] + n
  <2>1. sent.free[ShareAssetId][who] = s.free[ShareAssetId][who]
    BY <1>1, <1>4 DEF Paid
  <2>2. sent.free[iou][CollectionAccountId] = s.free[iou][CollectionAccountId] + n
    BY <1>1, <1>4 DEF Paid
  <2> QED BY <1>4, <2>1, <2>2 DEF LedgerCall, SameBooks
<1>6. check_can_redeem(sent, iou, who, n)
  BY <1>5 DEF check_can_redeem
<1>7. redeemed.ok /\ redeemed.free[iou][CollectionAccountId] = sent.free[iou][CollectionAccountId]
  <2>1. Redeemable(sent, iou, who, n)
    BY <1>2, <1>5, <1>6 DEF Redeemable, HeldBack
  <2> QED BY <1>3, <1>4, <2>1, RedeemGoesThrough DEF redeemed
<1>8. redeemed \in StorageType /\ Conserved(redeemed)
  <2>1. redeemed \in Sound(P, v, n - n)
    BY <1>4, SoundRedeem DEF redeemed
  <2> QED BY <2>1, SoundFacts
<1>9. n <= redeemed.free[iou][CollectionAccountId]
  <2>1. s.free[iou][CollectionAccountId] \in Nat
    BY <1>1, ConservedFacts DEF Setting
  <2> QED BY <1>5, <1>7, <2>1
<1>10. burnt.ok
  BY <1>1, <1>7, <1>8, <1>9, BurnGoes DEF burnt
<1> QED BY <1>0, <1>3, <1>7, <1>10

-----------------------------------------------------------------------------
\* make_redeem takes the account's list of unreleased packs out of storage before
\* checks that may still fail: after check_can_redeem none of them does, in
\* redeem, in sudo_redeem and, for it begins the same way, in the transfer of IOUs
\* to the collection account.
THEOREM RedeemableStaysRedeemed == SavingSpec => []RedeemableIsRedeemed
<1>1. ASSUME SavingInv, Existing PROVE RedeemableIsRedeemed
  <2> DEFINE P == Standing(upset)
             v == Filled(Storage.phase, Storage.quota)
  <2> SUFFICES ASSUME upset \cap {"partial", "root"} = {},
                      \A a \in {ShareAssetId, CollectionAssetId} \cup IOUs :
                          can_do(a, "Transferable") /\ check_permission(a, rootKey, "burn"),
                      NEW who \in Client, NEW iou \in IOUs, NEW n \in RedeemAmount,
                      n <= FreeBalance[iou][who], check_can_redeem(Storage, iou, who, n),
                      FreeBalance[ShareAssetId][who]
                          + AggregatedTotal(Get(ShareUnreleasedList, who, <<>>),
                                            IOUAssetPhaseId[iou], ShareAssetId) <= MaxBalance,
                      NEW s \in {Storage, burn(Storage, ReservedMintAssetId, ReservedMintWallet,
                                               sbtc_to_reserved_mint(n))},
                      s.ok
               PROVE  RedeemIOU(s, iou, who, n).ok
    BY DEF RedeemableIsRedeemed, IOUs
  <2>1. "whole" \in P /\ Orderly
    BY <1>1 DEF Standing, Promises, SavingInv, Rules
  <2>2. Storage \in Sound(P, v, 0) /\ Stand(P) /\ v \in [PhaseId -> Nat] /\ Storage \in StorageType
    <3>1. P = Standing(upset \cup {})
      OBVIOUS
    <3> HIDE DEF P
    <3> QED BY <1>1, <3>1, SoundStart
  <2>3. /\ who \in AccountId /\ n \in Nat /\ who # CollectionAccountId /\ ReservedMintWallet \in AccountId
        /\ ReservedMintAssetId \in AssetId /\ ReservedMintAssetId \notin IOUs \cup {ShareAssetId}
        /\ ReservedMintWallet # CollectionAccountId
    BY <2>1, CallFacts, OrderlyFacts
  <2>4. Movable(ShareAssetId) /\ Movable(CollectionAssetId) /\ Movable(iou)
    <3>1. {ShareAssetId, CollectionAssetId} \cup IOUs \subseteq GenesisSymbols
      <4>1. /\ {GenesisConfig[i] : i \in {"CollectionAssetId", "ShareAssetId", "ProfitAssetId"}}
                   \subseteq GenesisSymbols
            /\ GenesisIOU \in [PhaseId -> GenesisSymbols]
        BY SavingAssumption
      <4>2. GenesisConfig.CollectionAssetId \in GenesisSymbols /\ GenesisConfig.ShareAssetId \in GenesisSymbols
        BY <4>1
      <4>3. IOUs = Range(GenesisIOU)
        BY <2>1, <4>1 DEF Orderly, IOUs, AntiFunction, Inverse, Range
      <4>4. IOUs \subseteq GenesisSymbols
        BY <4>1, <4>3 DEF Range
      <4> QED BY <2>1, <4>2, <4>4 DEF Orderly, ShareAssetId, CollectionAssetId
    <3> QED BY <1>1, <3>1 DEF Movable, should_exist, Existing
  <2>5. /\ Storage.free = FreeBalance /\ Storage.list = ShareUnreleasedList /\ Storage.ok
        /\ Storage.phase = CurrentPhaseId
    BY StorageIs
  <2>6. \A p \in PhaseId : p > Storage.phase => v[p] = 0
    BY DEF Filled
  <2> HIDE DEF P, v
  <2>7. CASE s = Storage
    BY <2>1, <2>2, <2>3, <2>4, <2>5, <2>6, <2>7, RedeemIOUGoesThrough
  <2>8. CASE s = burn(Storage, ReservedMintAssetId, ReservedMintWallet, sbtc_to_reserved_mint(n))
    <3>1. sbtc_to_reserved_mint(n) \in Nat
      BY <1>1, <2>3, ReserveIsNat DEF SavingInv, Rules
    <3>2. s \in Sound(P, v, 0) /\ LedgerCall(Storage, s)
      BY <2>2, <2>3, <2>8, <3>1, SoundBurn
    <3>3. s.list = Storage.list /\ s.left = Storage.left /\ s.phase = Storage.phase
          /\ s.collected = Storage.collected
      BY <3>2 DEF LedgerCall, SameBooks
    <3>4. s \in StorageType /\ Conserved(s) /\ Conserved(Storage) /\ Setting
      BY <2>2, <3>2, SoundFacts, StandFacts
    <3>5. Shifted(Storage, s, ReservedMintAssetId, ReservedMintWallet, sbtc_to_reserved_mint(n), 0)
      BY <2>2, <2>3, <2>8, <3>1, <3>4, BurnKeeps
    <3>6. ASSUME NEW a \in IOUs \cup {ShareAssetId} PROVE s.free[a][who] = Storage.free[a][who]
      <4>1. a \in AssetId /\ a # ReservedMintAssetId
        BY <2>2, <2>3, StandFacts
      <4>2. s.free[a][who] + 0 = Storage.free[a][who] + 0
        BY <2>3, <3>5, <4>1 DEF Shifted
      <4>3. s.free[a][who] \in Nat /\ Storage.free[a][who] \in Nat
        BY <2>2, <2>3, <3>4, <4>1, ConservedFacts DEF Setting
      <4> QED BY <4>2, <4>3
    <3>7. s.free[iou][who] = Storage.free[iou][who] /\ s.free[ShareAssetId][who] = Storage.free[ShareAssetId][who]
      BY <3>6
    <3>8. check_can_redeem(s, iou, who, n)
      BY <3>3, <3>7 DEF check_can_redeem
    <3> QED BY <2>1, <2>2, <2>3, <2>4, <2>5, <2>6, <3>2, <3>3, <3>7, <3>8, RedeemIOUGoesThrough
  <2> QED BY <2>7, <2>8
<1> QED BY <1>1, SavingInvariant, SymbolsStay, PTL

-----------------------------------------------------------------------------
\* What packs, lists and all accounts add up to.
PackSum(q) == SumFunction(q.terms)
ListSum(l) == SumFunction([i \in DOMAIN l |-> PackSum(l[i])])
UnreleasedIn(m) == SumFunction([w \in DOMAIN m |-> ListSum(m[w])])

\* The terms of a pack that can be split again without a rest.
EqualParts(q) == \A i, j \in DOMAIN q.terms : q.terms[i] = q.terms[j]
Fit(q) == IF Divisible(q.phase_id) THEN EqualParts(q) ELSE Len(q.terms) <= 2
AllFit(l) == \A i \in DOMAIN l : Fit(l[i])

\* A pack adds up to a number.
LEMMA PackSumIsNat ==
    ASSUME NEW q \in ReleasePack
    PROVE  /\ q.terms \in Seq(Nat) /\ q.terms \in Seq(Balance) /\ PackSum(q) \in Nat
           /\ q.phase_id \in PhaseId /\ q.asset_id \in AssetId
<1>1. PICK u \in Seq(Balance) : u = q.terms
  BY DEF ReleasePack
<1>2. u \in Seq(Nat)
  <2>1. Len(u) \in Nat /\ u \in [1 .. Len(u) -> Balance]
    BY LenProperties, SeqDef
  <2>2. u \in [1 .. Len(u) -> Nat]
    BY <2>1, MaxBalanceAssumption DEF Balance
  <2> QED BY <2>1, <2>2, SeqDef
<1>3. SumFunction(u) \in Nat
  BY <1>2, SumOfSeq
<1>4. q.phase_id \in PhaseId /\ q.asset_id \in AssetId
  BY DEF ReleasePack
<1> QED BY <1>1, <1>2, <1>3, <1>4 DEF PackSum

\* The sums of the packs of a list.
SumsOf(l) == [i \in DOMAIN l |-> PackSum(l[i])]

\* A list adds up to a number, to which every pack contributes.
LEMMA ListSumFacts ==
    ASSUME NEW l \in Seq(ReleasePack)
    PROVE  /\ ListSum(l) \in Nat /\ ListSum(l) = SumFunctionOnSet(SumsOf(l), DOMAIN l)
           /\ IsFiniteSet(DOMAIN l) /\ DOMAIN l = 1 .. Len(l) /\ Len(l) \in Nat
           /\ \A i \in DOMAIN l : l[i] \in ReleasePack /\ SumsOf(l)[i] \in Nat /\ SumsOf(l)[i] = PackSum(l[i])
                                  /\ PackSum(l[i]) <= ListSum(l)
<1> DEFINE f == SumsOf(l)
           D == DOMAIN l
<1>1. IsFiniteSet(D) /\ D = 1 .. Len(l) /\ Len(l) \in Nat /\ \A i \in D : l[i] \in ReleasePack
  BY LenProperties, FS_Interval, ElementOfSeq
<1>2. \A i \in D : f[i] \in Nat /\ f[i] = PackSum(l[i])
  BY <1>1, PackSumIsNat DEF SumsOf
<1>3. ListSum(l) = SumFunctionOnSet(f, D)
  <2>1. DOMAIN f = D
    BY DEF SumsOf
  <2> QED BY <2>1 DEF ListSum, SumFunction, SumsOf
<1> HIDE DEF f, D
<1>4. SumFunctionOnSet(f, D) \in Nat /\ \A i \in D : f[i] <= SumFunctionOnSet(f, D)
  BY <1>1, <1>2, SumTakesOut, SumAtLeast
<1> QED BY <1>1, <1>2, <1>3, <1>4 DEF f, D

\* The sum over a set is that over a part of it and that over the rest.
SplitsAt(f, D, R) ==
    /\ SumFunctionOnSet(f, R) \in Nat /\ SumFunctionOnSet(f, D \ R) \in Nat
    /\ SumFunctionOnSet(f, D) = SumFunctionOnSet(f, R) + SumFunctionOnSet(f, D \ R)

\* Every finite sum is one, at every part of the set.
LEMMA SumSplitsAt ==
    ASSUME NEW f, NEW D, NEW R \in SUBSET D, IsFiniteSet(D), \A x \in D : f[x] \in Nat
    PROVE  SplitsAt(f, D, R)
  BY SumSplits DEF SplitsAt

\* A list adds up to any part of it and the rest.
LEMMA ListSplits ==
    ASSUME NEW l \in Seq(ReleasePack), NEW R \in SUBSET DOMAIN l
    PROVE  /\ SumFunctionOnSet(SumsOf(l), R) \in Nat /\ SumFunctionOnSet(SumsOf(l), DOMAIN l \ R) \in Nat
           /\ ListSum(l) = SumFunctionOnSet(SumsOf(l), R) + SumFunctionOnSet(SumsOf(l), DOMAIN l \ R)
<1>1. IsFiniteSet(DOMAIN l) /\ (\A i \in DOMAIN l : SumsOf(l)[i] \in Nat)
      /\ ListSum(l) = SumFunctionOnSet(SumsOf(l), DOMAIN l)
  BY ListSumFacts
<1>2. PICK f, D : f = SumsOf(l) /\ D = DOMAIN l
  OBVIOUS
<1>3. SplitsAt(f, D, R)
  BY <1>1, <1>2, SumSplitsAt
<1> QED BY <1>1, <1>2, <1>3 DEF SplitsAt

\* A number of shares that can be split in n terms.
Multiple(b, n) == \E k \in Nat : b = n * k
Splits(b, n) == n <= 2 \/ Multiple(b, n) \/ (n = 3 /\ b # 1)

\* The numbers of create_share_release_pack.
Portions(b, n, portion, virtual, last) ==
    /\ portion = IF n = 1 THEN b ELSE Wrap(b + n - 1) \div n
    /\ virtual = Wrap(portion * n)
    /\ last = IF b > virtual THEN b - virtual ELSE Wrap(portion - (virtual - b))

\* The last term makes up for what rounding added to the others.
LEMMA LastTerm ==
    ASSUME NEW n \in Nat \ {0}, NEW b \in Nat, NEW portion, NEW virtual, NEW last,
           Splits(b, n), b + n - 1 <= MaxBalance, Portions(b, n, portion, virtual, last)
    PROVE  /\ portion \in Nat /\ last \in Nat /\ (n - 1) * portion + last = b
           /\ Multiple(b, n) => last = portion
<1>0. /\ MaxBalance \in Nat /\ portion = IF n = 1 THEN b ELSE Wrap(b + n - 1) \div n
      /\ virtual = Wrap(portion * n)
      /\ last = IF b > virtual THEN b - virtual ELSE Wrap(portion - (virtual - b))
  BY MaxBalanceAssumption DEF Portions
<1>1. PICK d \in Nat : d = (b + n - 1) \div n /\ n * d <= b + n - 1 /\ b + n - 1 < n * d + n
  <2>1. PICK m \in Nat : m = b + n - 1
    OBVIOUS
  <2>2. m \div n \in Nat /\ n * (m \div n) <= m /\ m < n * (m \div n) + n
    OBVIOUS
  <2> QED BY <2>1, <2>2
<1>2. portion = d
  <2>1. CASE n = 1
    BY <1>0, <1>1, <2>1
  <2>2. CASE n # 1
    <3>1. Wrap(b + n - 1) = b + n - 1
      <4>1. b + n - 1 \in Balance
        BY <1>0 DEF Balance
      <4> QED BY <4>1, WrapFits
    <3> QED BY <1>0, <1>1, <2>2, <3>1
  <2> QED BY <2>1, <2>2
<1>3. PICK e \in Nat : e = n * d /\ e <= b + n - 1 /\ b <= e
  <2>1. PICK e \in Nat : e = n * d
    BY <1>1, ProductIsNat
  <2> QED BY <1>1, <2>1
<1>4. virtual = e
  <2>1. portion * n = e /\ e \in Balance
    BY <1>0, <1>1, <1>2, <1>3 DEF Balance
  <2> QED BY <1>0, <2>1, WrapFits
<1>5. e - b <= d
  <2>1. CASE n <= 2
    BY <1>1, <1>3, <2>1
  <2>2. CASE Multiple(b, n)
    <3>1. PICK k \in Nat : b = n * k
      BY <2>2 DEF Multiple
    <3>2. d <= k
      <4>1. SUFFICES ASSUME d >= k + 1 PROVE FALSE
        BY <1>1, <3>1
      <4>2. n * d >= n * (k + 1)
        BY <1>1, <4>1
      <4>3. n * (k + 1) = n * k + n
        BY <3>1
      <4> QED BY <1>1, <3>1, <4>2, <4>3
    <3>3. n * d <= n * k
      BY <1>1, <3>1, <3>2
    <3> QED BY <1>1, <1>3, <3>1, <3>3
  <2>3. CASE n = 3 /\ b # 1
    BY <1>1, <1>3, <2>3
  <2> QED BY <2>1, <2>2, <2>3 DEF Splits
<1>6. last = d - (e - b) /\ last \in Nat
  <2>1. ~(b > virtual)
    BY <1>3, <1>4
  <2>5. portion - (virtual - b) = d - (e - b)
    BY <1>2, <1>4
  <2>2. d - (e - b) \in Nat /\ d - (e - b) <= d /\ d <= MaxBalance
    <3>1. d <= b + n - 1
      BY <1>1
    <3> QED BY <1>0, <1>3, <1>5, <3>1
  <2>3. d - (e - b) \in Balance
    BY <1>0, <2>2 DEF Balance
  <2>4. Wrap(d - (e - b)) = d - (e - b)
    BY <2>3, WrapFits
  <2> QED BY <1>0, <2>1, <2>2, <2>4, <2>5
<1>7. (n - 1) * d + d = e
  BY <1>1, <1>3
<1>8. PICK c \in Nat : c = (n - 1) * d
  BY <1>1, ProductIsNat
<1>9. (n - 1) * portion + last = b
  BY <1>2, <1>3, <1>6, <1>7, <1>8
<1>10. ASSUME NEW k \in Nat, b = n * k PROVE last = portion
  <2>1. d = k
    <3>1. CASE d >= k + 1
      <4>1. n * d >= n * (k + 1)
        BY <1>1, <3>1
      <4>2. n * (k + 1) = n * k + n
        OBVIOUS
      <4> QED BY <1>1, <1>10, <4>1, <4>2
    <3>2. CASE d <= k - 1
      <4>1. n * d <= n * (k - 1)
        BY <1>1, <3>2
      <4>2. n * (k - 1) = n * k - n
        OBVIOUS
      <4> QED BY <1>1, <1>10, <4>1, <4>2
    <3> QED BY <1>1, <3>1, <3>2
  <2>2. e = b
    BY <1>3, <1>10, <2>1
  <2> QED BY <1>1, <1>2, <1>6, <2>2
<1> QED BY <1>1, <1>2, <1>6, <1>9, <1>10 DEF Multiple

\* A pack holds the shares it was made for, and equal terms where they divide.
LEMMA PackAddsUp ==
    ASSUME NEW a, NEW p, NEW b \in Nat, NEW n \in Nat \ {0}, NEW q,
           Splits(b, n), b + n - 1 <= MaxBalance, q = create_share_release_pack(a, p, b, n)
    PROVE  /\ PackSum(q) = b
           /\ Multiple(b, n) => EqualParts(q)
<1>1. PICK portion : portion = IF n = 1 THEN b ELSE Wrap(b + n - 1) \div n
  OBVIOUS
<1>2. PICK virtual : virtual = Wrap(portion * n)
  OBVIOUS
<1>3. PICK last : last = IF b > virtual THEN b - virtual ELSE Wrap(portion - (virtual - b))
  OBVIOUS
<1>4. PICK f : f = [i \in 1 .. n |-> IF i < n THEN portion ELSE last]
  OBVIOUS
<1>5. q.terms = f
  BY <1>1, <1>2, <1>3, <1>4 DEF create_share_release_pack
<1>6. /\ portion \in Nat /\ last \in Nat /\ (n - 1) * portion + last = b
      /\ Multiple(b, n) => last = portion
  <2>1. Portions(b, n, portion, virtual, last)
    BY <1>1, <1>2, <1>3 DEF Portions
  <2> QED BY <2>1, LastTerm
<1>7. PICK m \in Nat : m = n - 1
  OBVIOUS
<1>8. /\ f \in [1 .. n -> Nat] /\ f[n] = last /\ \A i \in 1 .. m : f[i] = portion
  BY <1>4, <1>6, <1>7
<1>9. SumFunctionOnSet(f, 1 .. m) = m * portion
  BY <1>6, <1>8, SumOfConstant
<1>10. SumFunctionOnSet(f, 1 .. n) = f[n] + SumFunctionOnSet(f, (1 .. n) \ {n})
  <2>1. IsFiniteSet(1 .. n) /\ n \in 1 .. n /\ \A i \in 1 .. n : f[i] \in Nat
    <3>1. IsFiniteSet(1 .. n)
      BY FS_Interval
    <3> QED BY <1>8, <3>1
  <2> QED BY <2>1, SumTakesOut
<1>11. (1 .. n) \ {n} = 1 .. m
  BY <1>7
<1>12. SumFunction(f) = SumFunctionOnSet(f, 1 .. n)
  BY <1>8, SumOverDomain
<1>13. PICK c \in Nat : c = m * portion /\ c + last = b
  BY <1>6, <1>7, ProductIsNat
<1>14. SumFunction(f) = b
  <2>1. SumFunctionOnSet(f, 1 .. n) = last + SumFunctionOnSet(f, 1 .. m)
    BY <1>8, <1>10, <1>11
  <2> QED BY <1>6, <1>9, <1>12, <1>13, <2>1
<1>15. Multiple(b, n) => \A i \in DOMAIN f : f[i] = portion
  BY <1>4, <1>6
<1> QED BY <1>5, <1>14, <1>15 DEF PackSum, EqualParts

\* Where all shares of a list fit a balance, counting some of its packs does not wrap.
LEMMA TotalIsExact ==
    ASSUME NEW l \in Seq(ReleasePack), NEW R \in SUBSET DOMAIN l, ListSum(l) <= MaxBalance
    PROVE  /\ TotalAt(l, R) = SumFunctionOnSet(SumsOf(l), R)
           /\ TotalAt(l, R) \in Nat /\ TotalAt(l, R) <= ListSum(l)
<1>a. PICK f : f = [i \in R |-> TermsTotal(l[i].terms)]
  OBVIOUS
<1>b. PICK g : g = SumsOf(l)
  OBVIOUS
<1>0. MaxBalance \in Nat /\ ListSum(l) \in Nat /\ IsFiniteSet(R)
  <2>1. ListSum(l) \in Nat /\ IsFiniteSet(DOMAIN l)
    BY ListSumFacts
  <2>2. IsFiniteSet(R)
    BY <2>1, FS_Subset
  <2> QED BY <2>1, <2>2, MaxBalanceAssumption
<1>1. ASSUME NEW i \in R PROVE f[i] = g[i]
  <2>1. PackSum(l[i]) \in Nat /\ PackSum(l[i]) <= ListSum(l) /\ g[i] = PackSum(l[i])
    BY <1>b, ListSumFacts
  <2>2. PackSum(l[i]) \in Balance
    BY <1>0, <2>1 DEF Balance
  <2> QED BY <1>a, <2>1, <2>2, WrapFits DEF TermsTotal, PackSum
<1>2. SumFunction(f) = SumFunctionOnSet(f, R)
  BY <1>a DEF SumFunction
<1>3. TotalAt(l, R) = Wrap(SumFunction(f))
  BY <1>a DEF TotalAt
<1>4. SumFunctionOnSet(f, R) = SumFunctionOnSet(g, R)
  BY <1>0, <1>1, SumOfSame
<1>5. SumFunctionOnSet(g, R) \in Nat /\ SumFunctionOnSet(g, R) <= ListSum(l)
  <2>1. /\ SumFunctionOnSet(g, R) \in Nat /\ SumFunctionOnSet(g, DOMAIN l \ R) \in Nat
        /\ ListSum(l) = SumFunctionOnSet(g, R) + SumFunctionOnSet(g, DOMAIN l \ R)
    BY <1>b, ListSplits
  <2> QED BY <2>1
<1>6. SumFunctionOnSet(g, R) \in Balance
  BY <1>0, <1>5 DEF Balance
<1>7. TotalAt(l, R) = SumFunctionOnSet(g, R)
  BY <1>2, <1>3, <1>4, <1>6, WrapFits
<1>8. TotalAt(l, R) \in Nat /\ TotalAt(l, R) <= ListSum(l)
  BY <1>5, <1>7
<1> QED BY <1>7, <1>8, <1>b

\* A list without some packs.
LEMMA RestSum ==
    ASSUME NEW l \in Seq(ReleasePack), NEW R \in SUBSET DOMAIN l,
           NEW r, r = Kept(l, DOMAIN l \ R)
    PROVE  /\ r \in Seq(ReleasePack) /\ ListSum(r) + SumFunctionOnSet(SumsOf(l), R) = ListSum(l)
           /\ AllFit(l) => AllFit(r)
<1> DEFINE keep == DOMAIN l \ R
           f == SumsOf(l)
           g == SumsOf(r)
<1>1. r \in Seq(ReleasePack)
  BY KeptFacts
<1>2. ASSUME NEW k \in DOMAIN r, NEW i \in keep, r[k] = l[i] PROVE g[k] = f[i]
  BY <1>2 DEF SumsOf
<1>3. \A i \in keep : f[i] \in Nat
  BY ListSumFacts
<1>4. ListSum(r) = SumFunctionOnSet(g, DOMAIN r)
  BY <1>1, ListSumFacts
<1>5. /\ SumFunctionOnSet(f, R) \in Nat /\ SumFunctionOnSet(f, keep) \in Nat
      /\ ListSum(l) = SumFunctionOnSet(f, R) + SumFunctionOnSet(f, keep)
  BY ListSplits
<1>6. \A k \in DOMAIN r : \E i \in keep : r[k] = l[i]
  BY KeptElements
<1>7. keep \in SUBSET DOMAIN l
  OBVIOUS
<1>8. r = Kept(l, keep)
  OBVIOUS
<1> HIDE DEF f, g, keep
<1>9. SumFunctionOnSet(g, DOMAIN r) = SumFunctionOnSet(f, keep)
  <2>1. \A k \in DOMAIN Kept(l, keep), i \in keep : Kept(l, keep)[k] = l[i] => g[k] = f[i]
    BY <1>2, <1>8
  <2> QED BY <1>3, <1>7, <1>8, <2>1, SumOfKept
<1>10. AllFit(l) => AllFit(r)
  BY <1>6, <1>7 DEF AllFit
<1> QED BY <1>1, <1>4, <1>5, <1>9, <1>10 DEF f

\* A list with one pack more.
LEMMA AppendSum ==
    ASSUME NEW l \in Seq(ReleasePack), NEW q \in ReleasePack, NEW r, r = Append(l, q)
    PROVE  /\ r \in Seq(ReleasePack) /\ ListSum(r) = ListSum(l) + PackSum(q)
           /\ AllFit(l) /\ Fit(q) => AllFit(r)
<1> DEFINE f == SumsOf(l)
           g == SumsOf(r)
<1>1. /\ r \in Seq(ReleasePack) /\ Len(r) = Len(l) + 1 /\ Len(l) \in Nat
      /\ \A i \in 1 .. Len(r) : r[i] = IF i <= Len(l) THEN l[i] ELSE q
  BY AppendProperties, LenProperties
<1>2. DOMAIN r = 1 .. Len(r) /\ DOMAIN l = 1 .. Len(l)
  BY <1>1, LenProperties
<1>3. PICK m \in Nat : m = Len(l)
  BY <1>1
<1>4. /\ (\A i \in 1 .. m : g[i] = f[i]) /\ g[m + 1] = PackSum(q)
  BY <1>1, <1>2, <1>3 DEF SumsOf
<1>5. /\ IsFiniteSet(1 .. m + 1) /\ (\A i \in 1 .. m + 1 : g[i] \in Nat)
      /\ ListSum(r) = SumFunctionOnSet(g, 1 .. m + 1)
  BY <1>1, <1>2, <1>3, ListSumFacts
<1>6. IsFiniteSet(1 .. m) /\ ListSum(l) = SumFunctionOnSet(f, 1 .. m) /\ ListSum(l) \in Nat
  BY <1>2, <1>3, ListSumFacts
<1> HIDE DEF f, g
<1>7. SumFunctionOnSet(g, 1 .. m + 1) = g[m + 1] + SumFunctionOnSet(g, (1 .. m + 1) \ {m + 1})
  <2>1. m + 1 \in 1 .. m + 1
    OBVIOUS
  <2> QED BY <1>5, <2>1, SumTakesOut
<1>8. (1 .. m + 1) \ {m + 1} = 1 .. m
  OBVIOUS
<1>9. SumFunctionOnSet(g, 1 .. m) = SumFunctionOnSet(f, 1 .. m)
  BY <1>4, <1>6, SumOfSame
<1>10. AllFit(l) /\ Fit(q) => AllFit(r)
  BY <1>1, <1>2 DEF AllFit
<1>11. PackSum(q) \in Nat
  BY PackSumIsNat
<1>12. ListSum(r) = ListSum(l) + PackSum(q)
  <2>1. SumFunctionOnSet(g, 1 .. m + 1) = PackSum(q) + SumFunctionOnSet(f, 1 .. m)
    BY <1>4, <1>7, <1>8, <1>9
  <2> QED BY <1>5, <1>6, <1>11, <2>1
<1> QED BY <1>1, <1>10, <1>12

\* A pack with equal terms is a multiple of their number.
LEMMA EqualTerms ==
    ASSUME NEW q \in ReleasePack, NEW n \in Nat \ {0}, Len(q.terms) = n, EqualParts(q)
    PROVE  q.terms[1] \in Nat /\ PackSum(q) = n * q.terms[1]
<1>1. PICK u \in Seq(Nat) : u = q.terms
  BY PackSumIsNat
<1>2. DOMAIN u = 1 .. n /\ SumFunction(u) = SumFunctionOnSet(u, 1 .. n) /\ \A i \in 1 .. n : u[i] \in Nat
  BY <1>1, SumOfSeq, LenProperties
<1>3. 1 \in 1 .. n
  OBVIOUS
<1>4. PICK c \in Nat : c = u[1]
  BY <1>2, <1>3
<1>5. \A i \in 1 .. n : u[i] = c
  BY <1>1, <1>2, <1>3, <1>4 DEF EqualParts
<1>6. SumFunctionOnSet(u, 1 .. n) = n * c
  BY <1>5, SumOfConstant
<1> QED BY <1>1, <1>2, <1>4, <1>6 DEF PackSum

\* The packs of a phase whose rate divides are together a multiple of the number
\* of their terms.
LEMMA SameIsMultiple ==
    ASSUME NEW n \in Nat \ {0}, NEW A, NEW l \in Packs(n, A), NEW p \in PhaseId, NEW R \in SUBSET DOMAIN l,
           AllFit(l), Divisible(p), \A i \in R : l[i].phase_id = p
    PROVE  Multiple(SumFunctionOnSet(SumsOf(l), R), n)
<1>1. l \in Seq(ReleasePack) /\ \A i \in DOMAIN l : Len(l[i].terms) = n
  BY DEF Packs
<1>2. IsFiniteSet(DOMAIN l) /\ \A i \in DOMAIN l : l[i] \in ReleasePack /\ SumsOf(l)[i] = PackSum(l[i])
  BY <1>1, ListSumFacts
<1>3. IsFiniteSet(R)
  BY <1>2, FS_Subset
<1>4. PICK f : f = [i \in R |-> l[i].terms[1]]
  OBVIOUS
<1>5. PICK g : g = SumsOf(l)
  OBVIOUS
<1>6. ASSUME NEW i \in R PROVE f[i] \in Nat /\ g[i] = n * f[i]
  <2>1. l[i] \in ReleasePack /\ Len(l[i].terms) = n
    BY <1>1, <1>2
  <2>2. EqualParts(l[i])
    BY DEF AllFit, Fit
  <2>3. l[i].terms[1] \in Nat /\ PackSum(l[i]) = n * l[i].terms[1]
    BY <2>1, <2>2, EqualTerms
  <2> QED BY <1>2, <1>4, <1>5, <2>3
<1>7. SumFunctionOnSet(f, R) \in Nat /\ SumFunctionOnSet(g, R) = n * SumFunctionOnSet(f, R)
  BY <1>3, <1>6, SumOfMultiples
<1> QED BY <1>5, <1>7 DEF Multiple

\* What is left of a multiple.
LEMMA MultipleLess ==
    ASSUME NEW n \in Nat \ {0}, NEW a \in Nat, NEW b \in Nat, b <= a, Multiple(a, n), Multiple(b, n)
    PROVE  Multiple(a - b, n)
<1>1. PICK i \in Nat : a = n * i
  BY DEF Multiple
<1>2. PICK j \in Nat : b = n * j
  BY DEF Multiple
<1>3. j <= i
  BY <1>1, <1>2
<1>4. PICK k \in Nat : k = i - j
  BY <1>3
<1>5. n * k = n * i - n * j
  BY <1>4
<1> QED BY <1>1, <1>2, <1>5 DEF Multiple

\* Packs of a phase that can be put into one with some shares taken away.
Mergeable(n, l, p, less) ==
    /\ n \in Nat /\ l \in Packs(n, {ShareAssetId}) /\ p \in PhaseId /\ less \in Nat
    /\ ShareAssetId \in AssetId /\ AllFit(l) /\ ListSum(l) + n <= MaxBalance
    /\ Same(l, p, ShareAssetId) # {} /\ less <= AggregatedTotal(l, p, ShareAssetId)
    /\ Divisible(p) => Multiple(less, n)

\* Aggregation moves the shares of a phase into one pack and loses none of them,
\* but for those that are to be taken away.
LEMMA AggregateReckons ==
    ASSUME NEW n, NEW l, NEW p, NEW less, Mergeable(n, l, p, less),
           NEW r, r = aggregate_phase_unreleased(l, p, ShareAssetId, less)
    PROVE  ListSum(r) + less = ListSum(l) /\ AllFit(r)
<1>0. /\ n \in Nat /\ l \in Packs(n, {ShareAssetId}) /\ p \in PhaseId /\ less \in Nat
      /\ ShareAssetId \in AssetId /\ AllFit(l) /\ ListSum(l) + n <= MaxBalance
      /\ Same(l, p, ShareAssetId) # {} /\ less <= AggregatedTotal(l, p, ShareAssetId)
      /\ Divisible(p) => Multiple(less, n)
  BY DEF Mergeable
<1> USE <1>0
<1> DEFINE a == ShareAssetId
           S == Same(l, p, a)
<1>1. l \in Seq(ReleasePack) /\ S \in SUBSET DOMAIN l /\ \A i \in S : l[i].phase_id = p /\ Len(l[i].terms) = n /\ n > 0
  BY DEF Packs, Same
<1>2. ListSum(l) \in Nat /\ MaxBalance \in Nat /\ ListSum(l) <= MaxBalance
  <2>1. ListSum(l) \in Nat
    BY <1>1, ListSumFacts
  <2> QED BY <2>1, MaxBalanceAssumption
<1>3. PICK m : m = Min(S)
  OBVIOUS
<1>4. m \in S
  <2>1. PICK T : T = S
    OBVIOUS
  <2>2. T \in SUBSET Nat /\ T # {}
    BY <1>1, <2>1, LenProperties
  <2>3. \E y \in T : \A z \in T : y <= z
    BY <2>2, LeastElement
  <2>4. Min(T) \in T
    BY <2>3 DEF Min
  <2> QED BY <1>3, <2>1, <2>4
<1>5. Len(l[m].terms) = n /\ n \in Nat \ {0}
  BY <1>1, <1>4
<1>6. PICK c \in Nat : c = AggregatedTotal(l, p, a) /\ c = SumFunctionOnSet(SumsOf(l), S) /\ c <= ListSum(l)
  BY <1>1, <1>2, TotalIsExact DEF AggregatedTotal
<1>7. PICK b \in Nat : b = c - less
  BY <1>6
<1>8. PICK q : q = create_share_release_pack(a, p, b, n)
  OBVIOUS
<1>9. PICK k : k = Kept(l, DOMAIN l \ S)
  OBVIOUS
<1>10. r = Append(k, q)
  BY <1>3, <1>5, <1>6, <1>7, <1>8, <1>9 DEF aggregate_phase_unreleased, Rest
<1>11. k \in Seq(ReleasePack) /\ ListSum(k) + c = ListSum(l) /\ AllFit(k)
  BY <1>1, <1>6, <1>9, RestSum
<1>12. Divisible(p) => Multiple(b, n)
  <2>1. SUFFICES ASSUME Divisible(p) PROVE Multiple(b, n)
    OBVIOUS
  <2>2. Multiple(c, n)
    BY <1>1, <1>5, <1>6, <2>1, SameIsMultiple
  <2> QED BY <1>5, <1>6, <1>7, <2>1, <2>2, MultipleLess
<1>13. ~Divisible(p) => n <= 2
  BY <1>1, <1>4 DEF AllFit, Fit
<1>14. Splits(b, n)
  BY <1>12, <1>13 DEF Splits
<1>15. b + n - 1 <= MaxBalance /\ b \in Balance
  BY <1>2, <1>5, <1>6, <1>7 DEF Balance
<1>16. PackSum(q) = b /\ (Multiple(b, n) => EqualParts(q))
  BY <1>5, <1>8, <1>14, <1>15, PackAddsUp
<1>17. q \in ReleasePack /\ Len(q.terms) = n /\ q.phase_id = p
  BY <1>5, <1>8, <1>15, PackFacts
<1>18. Fit(q)
  BY <1>12, <1>13, <1>16, <1>17 DEF Fit
<1>19. ListSum(r) = ListSum(k) + PackSum(q) /\ AllFit(r)
  BY <1>10, <1>11, <1>17, <1>18, AppendSum
<1>20. ListSum(k) \in Nat
  BY <1>11, ListSumFacts
<1> QED BY <1>2, <1>6, <1>7, <1>11, <1>16, <1>19, <1>20

\* One term of every pack.
Heads(l) == [i \in DOMAIN l |-> Head(l[i].terms)]

\* A pack without its first term.
LEMMA PackWithoutHead ==
    ASSUME NEW q \in ReleasePack, NEW n \in Nat \ {0}, Len(q.terms) = n,
           NEW t, t = [q EXCEPT !.terms = Tail(@)]
    PROVE  /\ t \in ReleasePack /\ Len(t.terms) = n - 1 /\ t.phase_id = q.phase_id
           /\ Head(q.terms) \in Nat /\ PackSum(q) = Head(q.terms) + PackSum(t)
           /\ n = 1 => PackSum(t) = 0
           /\ Fit(q) => Fit(t)
<1>1. PICK u \in Seq(Nat) : u = q.terms /\ u \in Seq(Balance)
  BY PackSumIsNat
<1>2. u # <<>> /\ Len(u) = n
  BY <1>1
<1>3. /\ Head(u) \in Nat /\ Tail(u) \in Seq(Nat)
      /\ SumFunction(u) = Head(u) + SumFunction(Tail(u))
  BY <1>2, SumOfTail
<1>4. /\ Tail(u) \in Seq(Balance) /\ Len(Tail(u)) = n - 1
      /\ \A i \in 1 .. n - 1 : Tail(u)[i] = u[i + 1]
  BY <1>1, <1>2, HeadTailProperties
<1>5. t = [q EXCEPT !.terms = Tail(u)]
  BY <1>1
<1>6. t \in ReleasePack /\ t.terms = Tail(u) /\ t.phase_id = q.phase_id
  BY <1>4, <1>5 DEF ReleasePack
<1>7. n = 1 => SumFunction(Tail(u)) = 0
  <2>1. SUFFICES ASSUME n = 1 PROVE SumFunction(Tail(u)) = 0
    OBVIOUS
  <2>2. SumFunction(Tail(u)) = SumFunctionOnSet(Tail(u), 1 .. Len(Tail(u)))
    BY <1>3, SumOfSeq
  <2>4. PICK k : k = Len(Tail(u))
    OBVIOUS
  <2>5. k = 0
    BY <1>4, <2>1, <2>4
  <2>6. 1 .. k = {}
    BY <2>5
  <2>3. 1 .. Len(Tail(u)) = {}
    BY <2>4, <2>6
  <2> QED BY <2>2, <2>3, SumOfNone
<1>8. EqualParts(q) => EqualParts(t)
  <2>1. DOMAIN u = 1 .. n /\ DOMAIN Tail(u) = 1 .. n - 1
    BY <1>2, <1>3, <1>4, LenProperties
  <2>2. SUFFICES ASSUME EqualParts(q), NEW i \in 1 .. n - 1, NEW j \in 1 .. n - 1
        PROVE  Tail(u)[i] = Tail(u)[j]
    BY <1>6, <2>1 DEF EqualParts
  <2>3. i + 1 \in 1 .. n /\ j + 1 \in 1 .. n
    OBVIOUS
  <2>4. u[i + 1] = u[j + 1]
    BY <1>1, <2>1, <2>2, <2>3 DEF EqualParts
  <2> QED BY <1>4, <2>4
<1>9. Fit(q) => Fit(t)
  BY <1>4, <1>6, <1>8 DEF Fit
<1> QED BY <1>1, <1>3, <1>4, <1>6, <1>7, <1>9 DEF PackSum

\* After a release a list is short of exactly the terms released.
LEMMA LeftSum ==
    ASSUME NEW n \in Nat, NEW A, NEW l \in Packs(n, A), NEW r, r = LeftToRelease(l)
    PROVE  /\ ListSum(r) + SumFunctionOnSet(Heads(l), DOMAIN l) = ListSum(l)
           /\ \A i \in DOMAIN l : Heads(l)[i] \in Nat
           /\ AllFit(l) => AllFit(r)
<1>1. l \in Seq(ReleasePack) /\ \A i \in DOMAIN l : Len(l[i].terms) = n /\ n > 0
  BY DEF Packs
<1>2. /\ IsFiniteSet(DOMAIN l) /\ DOMAIN l = 1 .. Len(l) /\ Len(l) \in Nat
      /\ ListSum(l) = SumFunctionOnSet(SumsOf(l), DOMAIN l)
      /\ \A i \in DOMAIN l : l[i] \in ReleasePack /\ SumsOf(l)[i] = PackSum(l[i])
  BY <1>1, ListSumFacts
<1>3. PICK g : g = [i \in DOMAIN l |-> [l[i] EXCEPT !.terms = Tail(@)]]
  OBVIOUS
<1>4. ASSUME NEW i \in DOMAIN l
      PROVE  /\ g[i] \in ReleasePack /\ Head(l[i].terms) \in Nat
             /\ PackSum(l[i]) = Head(l[i].terms) + PackSum(g[i])
             /\ n = 1 => PackSum(g[i]) = 0
             /\ Fit(l[i]) => Fit(g[i])
  <2>1. PICK q \in ReleasePack : q = l[i] /\ Len(q.terms) = n /\ n \in Nat \ {0}
    BY <1>1, <1>2
  <2>2. g[i] = [q EXCEPT !.terms = Tail(@)]
    BY <1>3, <2>1
  <2> QED BY <2>1, <2>2, PackWithoutHead
<1>5. g \in Seq(ReleasePack) /\ DOMAIN g = DOMAIN l
  <2>1. g \in [1 .. Len(l) -> ReleasePack] /\ DOMAIN g = DOMAIN l
    BY <1>2, <1>3, <1>4
  <2> QED BY <1>2, <2>1, SeqDef
<1>6. PICK keep \in SUBSET DOMAIN g : keep = {i \in DOMAIN l : Len(l[i].terms) > 1}
  BY <1>5
<1>7. r = Kept(g, keep)
  BY <1>3, <1>6 DEF LeftToRelease
<1>8. PICK R \in SUBSET DOMAIN g : R = DOMAIN g \ keep
  OBVIOUS
<1>9. /\ r \in Seq(ReleasePack) /\ ListSum(r) + SumFunctionOnSet(SumsOf(g), R) = ListSum(g)
      /\ AllFit(g) => AllFit(r)
  <2>1. DOMAIN g \ R = keep
    BY <1>8
  <2> QED BY <1>5, <1>7, <2>1, RestSum
<1>10. /\ \A i \in DOMAIN l : SumsOf(g)[i] = PackSum(g[i]) /\ SumsOf(g)[i] \in Nat
       /\ ListSum(g) = SumFunctionOnSet(SumsOf(g), DOMAIN l) /\ ListSum(g) \in Nat
  BY <1>5, ListSumFacts
<1>11. SumFunctionOnSet(SumsOf(g), R) = 0
  <2>1. IsFiniteSet(R)
    BY <1>2, <1>5, FS_Subset
  <2>2. ASSUME NEW i \in R PROVE SumsOf(g)[i] = 0
    <3>1. i \in DOMAIN l /\ ~(Len(l[i].terms) > 1)
      BY <1>5, <1>6, <1>8
    <3>2. n = 1
      BY <1>1, <3>1
    <3> QED BY <1>4, <1>10, <3>1, <3>2
  <2> QED BY <2>1, <2>2, SumOfZeros
<1>12. ListSum(l) = SumFunctionOnSet(Heads(l), DOMAIN l) + SumFunctionOnSet(SumsOf(g), DOMAIN l)
  <2>1. PICK f, h, k, D : f = SumsOf(g) /\ h = Heads(l) /\ k = SumsOf(l) /\ D = DOMAIN l
    OBVIOUS
  <2>2. \A i \in D : h[i] \in Nat /\ f[i] \in Nat /\ k[i] = h[i] + f[i]
    BY <1>2, <1>4, <1>10, <2>1 DEF Heads
  <2>3. IsFiniteSet(D)
    BY <1>2, <2>1
  <2>4. SumFunctionOnSet(k, D) = SumFunctionOnSet(h, D) + SumFunctionOnSet(f, D)
    BY <2>2, <2>3, SumOfPlus
  <2> QED BY <1>2, <2>1, <2>4
<1>13. AllFit(l) => AllFit(g)
  BY <1>4, <1>5 DEF AllFit
<1>14. \A i \in DOMAIN l : Heads(l)[i] \in Nat
  BY <1>4 DEF Heads
<1>15. SumFunctionOnSet(Heads(l), DOMAIN l) \in Nat
  BY <1>2, <1>14, SumTakesOut
<1>16. ListSum(r) \in Nat
  BY <1>9, ListSumFacts
<1> QED BY <1>9, <1>10, <1>11, <1>12, <1>13, <1>14, <1>15, <1>16

-----------------------------------------------------------------------------
\* What the packs of all accounts add up to.
ListSums(m) == [w \in AccountId |-> ListSum(Get(m, w, <<>>))]
AllFitIn(m) == \A w \in DOMAIN m : AllFit(m[w])

\* An empty list.
LEMMA NoList == <<>> \in Seq(ReleasePack) /\ ListSum(<<>>) = 0 /\ AllFit(<<>>)
<1>1. <<>> \in Seq(ReleasePack) /\ DOMAIN <<>> = {}
  BY EmptySeq
<1>2. ListSum(<<>>) = SumFunctionOnSet(SumsOf(<<>>), {})
  BY <1>1, ListSumFacts
<1>3. AllFit(<<>>)
  BY <1>1 DEF AllFit
<1> QED BY <1>1, <1>2, <1>3, SumOfNone

\* All unreleased shares, account by account.
LEMMA UnreleasedIs ==
    ASSUME NEW m \in Maps(Seq(ReleasePack))
    PROVE  /\ UnreleasedIn(m) \in Nat /\ UnreleasedIn(m) = SumFunctionOnSet(ListSums(m), AccountId)
           /\ \A w \in AccountId : /\ ListSums(m)[w] \in Nat /\ ListSums(m)[w] <= UnreleasedIn(m)
                                   /\ ListSums(m)[w] = ListSum(Get(m, w, <<>>))
                                   /\ Get(m, w, <<>>) \in Seq(ReleasePack)
<1> DEFINE D == DOMAIN m
           h == ListSums(m)
           f == [w \in D |-> ListSum(m[w])]
<1>1. D \in SUBSET AccountId /\ \A x \in D : m[x] \in Seq(ReleasePack)
  BY MapFacts
<1>2. ASSUME NEW w \in AccountId PROVE Get(m, w, <<>>) \in Seq(ReleasePack) /\ h[w] = ListSum(Get(m, w, <<>>)) /\ h[w] \in Nat
  <2>1. Get(m, w, <<>>) \in Seq(ReleasePack)
    BY <1>1, NoList DEF Get
  <2> QED BY <2>1, ListSumFacts DEF ListSums
<1>3. /\ \A x \in D : f[x] \in Nat /\ h[x] = f[x]
      /\ \A x \in AccountId \ D : h[x] = 0
  BY <1>1, <1>2, NoList DEF Get
<1>4. UnreleasedIn(m) = SumFunctionOnSet(f, D)
  BY DEF UnreleasedIn, SumFunction
<1> HIDE DEF D, h, f
<1>5. SumFunctionOnSet(h, AccountId) = SumFunctionOnSet(f, D)
  <2>1. IsFiniteSet(AccountId) /\ D \in SUBSET AccountId
    BY <1>1, AccountAssumption
  <2> QED BY <1>3, <2>1, SumRestricts
<1>6. /\ SumFunctionOnSet(h, AccountId) \in Nat
      /\ \A w \in AccountId : h[w] <= SumFunctionOnSet(h, AccountId)
  BY <1>2, AccountAssumption, SumTakesOut, SumAtLeast
<1> QED BY <1>2, <1>4, <1>5, <1>6 DEF h

\* Changing the list of one account changes the sum by as much.
LEMMA UnreleasedChanges ==
    ASSUME NEW m \in Maps(Seq(ReleasePack)), NEW g \in Maps(Seq(ReleasePack)), NEW y \in AccountId,
           \A w \in AccountId \ {y} : Get(g, w, <<>>) = Get(m, w, <<>>)
    PROVE  UnreleasedIn(g) + ListSum(Get(m, y, <<>>)) = UnreleasedIn(m) + ListSum(Get(g, y, <<>>))
<1> DEFINE h == ListSums(m)
           k == ListSums(g)
<1>1. /\ \A w \in AccountId : h[w] = ListSum(Get(m, w, <<>>)) /\ k[w] = ListSum(Get(g, w, <<>>))
      /\ \A w \in AccountId : h[w] \in Nat /\ k[w] \in Nat
  BY UnreleasedIs
<1>2. /\ UnreleasedIn(m) = SumFunctionOnSet(h, AccountId)
      /\ UnreleasedIn(g) = SumFunctionOnSet(k, AccountId)
  BY UnreleasedIs
<1>3. \A w \in AccountId \ {y} : h[w] = k[w]
  BY <1>1
<1> HIDE DEF h, k
<1>4. SumFunctionOnSet(k, AccountId) + h[y] = SumFunctionOnSet(h, AccountId) + k[y]
  BY <1>1, <1>3, AccountAssumption, SumChanges
<1> QED BY <1>1, <1>2, <1>4

\* Writing the list of one account.
LEMMA UnreleasedPut ==
    ASSUME NEW m \in Maps(Seq(ReleasePack)), NEW y \in AccountId, NEW l \in Seq(ReleasePack)
    PROVE  /\ Put(m, y, l) \in Maps(Seq(ReleasePack))
           /\ UnreleasedIn(Put(m, y, l)) + ListSum(Get(m, y, <<>>)) = UnreleasedIn(m) + ListSum(l)
           /\ AllFitIn(m) /\ AllFit(l) => AllFitIn(Put(m, y, l))
<1>1. PICK g : g = Put(m, y, l)
  OBVIOUS
<1>2. /\ g \in Maps(Seq(ReleasePack)) /\ DOMAIN g = DOMAIN m \cup {y}
      /\ \A x \in DOMAIN m \cup {y} : g[x] = IF x = y THEN l ELSE m[x]
  <2>1. g \in Maps(Seq(ReleasePack))
    BY <1>1, PutFacts
  <2>2. DOMAIN g = DOMAIN m \cup {y} /\ \A x \in DOMAIN m \cup {y} : g[x] = IF x = y THEN l ELSE m[x]
    BY <1>1 DEF Put
  <2> QED BY <2>1, <2>2
<1>3. (\A w \in AccountId \ {y} : Get(g, w, <<>>) = Get(m, w, <<>>)) /\ Get(g, y, <<>>) = l
  BY <1>2 DEF Get
<1>4. UnreleasedIn(g) + ListSum(Get(m, y, <<>>)) = UnreleasedIn(m) + ListSum(Get(g, y, <<>>))
  BY <1>2, <1>3, UnreleasedChanges
<1>5. AllFitIn(m) /\ AllFit(l) => AllFitIn(g)
  BY <1>2 DEF AllFitIn
<1> QED BY <1>1, <1>2, <1>3, <1>4, <1>5

\* Taking out the list of an account.
LEMMA UnreleasedRemoved ==
    ASSUME NEW m \in Maps(Seq(ReleasePack)), NEW y \in AccountId
    PROVE  /\ Removed(m, y) \in Maps(Seq(ReleasePack))
           /\ UnreleasedIn(Removed(m, y)) + ListSum(Get(m, y, <<>>)) = UnreleasedIn(m)
           /\ AllFitIn(m) => AllFitIn(Removed(m, y)) /\ AllFit(Get(m, y, <<>>))
           /\ Get(Removed(m, y), y, <<>>) = <<>>
<1>1. PICK g : g = Removed(m, y)
  OBVIOUS
<1>2. /\ g \in Maps(Seq(ReleasePack)) /\ DOMAIN g = DOMAIN m \ {y}
      /\ \A x \in DOMAIN m \ {y} : g[x] = m[x]
  BY <1>1, RemovedFacts
<1>3. (\A w \in AccountId \ {y} : Get(g, w, <<>>) = Get(m, w, <<>>)) /\ Get(g, y, <<>>) = <<>>
  BY <1>2 DEF Get
<1>4. UnreleasedIn(g) + ListSum(Get(m, y, <<>>)) = UnreleasedIn(m) + ListSum(Get(g, y, <<>>))
  BY <1>2, <1>3, UnreleasedChanges
<1>5. UnreleasedIn(m) \in Nat
  BY UnreleasedIs
<1>6. UnreleasedIn(g) + ListSum(Get(m, y, <<>>)) = UnreleasedIn(m)
  BY <1>3, <1>4, <1>5, NoList
<1>7. AllFitIn(m) => AllFitIn(g) /\ AllFit(Get(m, y, <<>>))
  BY <1>2, NoList DEF AllFitIn, Get
<1> QED BY <1>1, <1>2, <1>3, <1>6, <1>7

-----------------------------------------------------------------------------
\* What the exchange rates give for the IOUs outside the collection account, and
\* by how much that is more than the shares, released and unreleased.
OwedFor(s) == [a \in IOUs |-> Exchange[IOUAssetPhaseId[a]] * OutsideOf(s, a)]
Owed(s) == SumFunction(OwedFor(s))
Due(s) == Owed(s) - (s.issuance[ShareAssetId] + UnreleasedIn(s.list))

\* The terms of the sum.
LEMMA OwedForFacts ==
    ASSUME Setting, Orderly, NEW s \in StorageType, Conserved(s)
    PROVE  /\ IsFiniteSet(IOUs) /\ Owed(s) = SumFunctionOnSet(OwedFor(s), IOUs) /\ Owed(s) \in Nat
           /\ \A a \in IOUs : /\ OwedFor(s)[a] = Exchange[IOUAssetPhaseId[a]] * OutsideOf(s, a)
                              /\ OwedFor(s)[a] \in Nat /\ OutsideOf(s, a) \in Nat
                              /\ Exchange[IOUAssetPhaseId[a]] \in Nat /\ OwedFor(s)[a] <= Owed(s)
<1>1. IsFiniteSet(IOUs) /\ IOUs \subseteq AssetId /\ \A a \in IOUs : IOUAssetPhaseId[a] \in PhaseId
  BY OrderlyFacts
<1>2. PICK f : f = OwedFor(s)
  OBVIOUS
<1>3. ASSUME NEW a \in IOUs
      PROVE  /\ f[a] = Exchange[IOUAssetPhaseId[a]] * OutsideOf(s, a) /\ f[a] \in Nat
             /\ OutsideOf(s, a) \in Nat /\ Exchange[IOUAssetPhaseId[a]] \in Nat
  <2>1. PICK e \in Nat : e = Exchange[IOUAssetPhaseId[a]]
    BY <1>1, PhaseNumbers
  <2>2. PICK o \in Nat : o = OutsideOf(s, a)
    BY <1>1, OutsideIsNat
  <2>3. f[a] = e * o
    BY <1>2, <2>1, <2>2 DEF OwedFor
  <2> QED BY <2>1, <2>2, <2>3, ProductIsNat
<1>4. Owed(s) = SumFunctionOnSet(f, IOUs)
  BY <1>2 DEF Owed, OwedFor, SumFunction
<1>5. SumFunctionOnSet(f, IOUs) \in Nat /\ \A a \in IOUs : f[a] <= SumFunctionOnSet(f, IOUs)
  BY <1>1, <1>3, SumTakesOut, SumAtLeast
<1> QED BY <1>1, <1>2, <1>3, <1>4, <1>5

\* A change of one asset, in what is owed.
LEMMA OwedChanges ==
    ASSUME Setting, Orderly, NEW s \in StorageType, NEW t \in StorageType, NEW a \in AssetId,
           Conserved(s), Conserved(t), \A b \in AssetId \ {a} : OutsideOf(t, b) = OutsideOf(s, b)
    PROVE  /\ a \in IOUs => Owed(t) + OwedFor(s)[a] = Owed(s) + OwedFor(t)[a]
           /\ a \notin IOUs => Owed(t) = Owed(s)
<1>1. PICK f, g : f = OwedFor(s) /\ g = OwedFor(t)
  OBVIOUS
<1>2. /\ IsFiniteSet(IOUs) /\ IOUs \subseteq AssetId
      /\ Owed(s) = SumFunctionOnSet(f, IOUs) /\ Owed(t) = SumFunctionOnSet(g, IOUs)
      /\ \A b \in IOUs : f[b] \in Nat /\ g[b] \in Nat
  BY <1>1, OwedForFacts, OrderlyFacts
<1>3. \A b \in IOUs \ {a} : f[b] = g[b]
  BY <1>1, <1>2 DEF OwedFor
<1>4. ASSUME a \in IOUs PROVE SumFunctionOnSet(g, IOUs) + f[a] = SumFunctionOnSet(f, IOUs) + g[a]
  BY <1>2, <1>3, <1>4, SumChanges
<1>5. ASSUME a \notin IOUs PROVE SumFunctionOnSet(g, IOUs) = SumFunctionOnSet(f, IOUs)
  BY <1>2, <1>3, <1>5, SumOfSame
<1> QED BY <1>1, <1>2, <1>4, <1>5

\* All numbers of Due.
LEMMA DueIsInt ==
    ASSUME Setting, Orderly, NEW s \in StorageType, Conserved(s)
    PROVE  /\ Due(s) \in Int /\ Owed(s) \in Nat /\ s.issuance[ShareAssetId] \in Nat
           /\ UnreleasedIn(s.list) \in Nat /\ s.list \in Maps(Seq(ReleasePack))
           /\ ShareAssetId \in AssetId /\ ShareAssetId \notin IOUs
           /\ Due(s) = Owed(s) - (s.issuance[ShareAssetId] + UnreleasedIn(s.list))
<1>1. Owed(s) \in Nat
  BY OwedForFacts
<1>2. s.list \in Maps(Seq(ReleasePack))
  BY StorageFields
<1>3. UnreleasedIn(s.list) \in Nat
  BY <1>2, UnreleasedIs
<1>4. ShareAssetId \in AssetId /\ ShareAssetId \notin IOUs
  BY OrderlyFacts DEF Setting, ConfigOK
<1>5. s.issuance[ShareAssetId] \in Nat
  BY <1>4, ConservedFacts DEF Setting
<1> QED BY <1>1, <1>2, <1>3, <1>4, <1>5 DEF Due

\* More or fewer IOUs outside.
LEMMA DueByIOU ==
    ASSUME Setting, Orderly, NEW s \in StorageType, NEW t \in StorageType, NEW a \in IOUs, NEW n \in Int,
           Conserved(s), Conserved(t), t.list = s.list,
           t.issuance[ShareAssetId] = s.issuance[ShareAssetId],
           \A b \in AssetId \ {a} : OutsideOf(t, b) = OutsideOf(s, b),
           OutsideOf(t, a) = OutsideOf(s, a) + n
    PROVE  Due(t) = Due(s) + Exchange[IOUAssetPhaseId[a]] * n
<1>1. a \in AssetId
  BY OrderlyFacts
<1>2. Owed(t) + OwedFor(s)[a] = Owed(s) + OwedFor(t)[a]
  BY <1>1, OwedChanges
<1>3. PICK e \in Nat : e = Exchange[IOUAssetPhaseId[a]]
  BY OwedForFacts
<1>4. PICK o \in Nat : o = OutsideOf(s, a)
  BY OwedForFacts
<1>5. OwedFor(s)[a] = e * o /\ OwedFor(t)[a] = e * (o + n)
  BY <1>3, <1>4, OwedForFacts
<1>6. e * (o + n) = e * o + e * n
  OBVIOUS
<1>7. e * o \in Int /\ e * n \in Int
  OBVIOUS
<1>8. Owed(t) = Owed(s) + e * n
  <2>1. Owed(s) \in Nat /\ Owed(t) \in Nat
    BY DueIsInt
  <2> QED BY <1>2, <1>5, <1>6, <1>7, <2>1
<1>9. Due(t) = Due(s) + e * n
  BY <1>7, <1>8, DueIsInt
<1> QED BY <1>3, <1>9

\* More or fewer shares released or unreleased.
LEMMA DueByShares ==
    ASSUME Setting, Orderly, NEW s \in StorageType, NEW t \in StorageType, Conserved(s), Conserved(t),
           \A b \in IOUs : OutsideOf(t, b) = OutsideOf(s, b)
    PROVE  /\ Owed(t) = Owed(s)
           /\ Due(t) + t.issuance[ShareAssetId] + UnreleasedIn(t.list)
                  = Due(s) + s.issuance[ShareAssetId] + UnreleasedIn(s.list)
<1>1. Owed(t) = Owed(s)
  <2>1. OwedFor(t) = OwedFor(s)
    BY DEF OwedFor
  <2> QED BY <2>1 DEF Owed
<1>2. /\ Due(s) \in Int /\ Owed(s) \in Nat /\ s.issuance[ShareAssetId] \in Nat /\ UnreleasedIn(s.list) \in Nat
      /\ Due(s) = Owed(s) - (s.issuance[ShareAssetId] + UnreleasedIn(s.list))
  BY DueIsInt
<1>3. /\ Due(t) \in Int /\ Owed(t) \in Nat /\ t.issuance[ShareAssetId] \in Nat /\ UnreleasedIn(t.list) \in Nat
      /\ Due(t) = Owed(t) - (t.issuance[ShareAssetId] + UnreleasedIn(t.list))
  BY DueIsInt
<1> QED BY <1>1, <1>2, <1>3

\* Rates that fit leave room for all shares, and for rounding them up.
LEMMA OwedFits ==
    ASSUME RatesFit, Setting, Orderly, NEW s \in StorageType, NEW v \in [PhaseId -> Nat], Conserved(s),
           Issued(s, v), \A p \in PhaseId : v[p] <= Quota[p]
    PROVE  NumOfPhases * (Owed(s) + 1) <= MaxBalance /\ Owed(s) + NumOfPhases <= MaxBalance
<1>1. /\ IsFiniteSet(IOUs) /\ (\A a \in IOUs : IOUAssetPhaseId[a] \in PhaseId /\ PhaseIOU[IOUAssetPhaseId[a]] = a)
      /\ (\A p \in PhaseId : PhaseIOU[p] \in IOUs) /\ IOUs \subseteq AssetId
      /\ \A p, q \in PhaseId : PhaseIOU[p] = PhaseIOU[q] => p = q
  BY OrderlyFacts, PhaseOfIOU
<1>2. IsFiniteSet(PhaseId) /\ NumOfPhases \in Nat /\ MaxBalance \in Nat
  BY SavingAssumption, FS_Interval, MaxBalanceAssumption DEF PhaseId
<1>3. PICK b : b = [a \in IOUs |-> IOUAssetPhaseId[a]]
  OBVIOUS
<1>4. PICK f, g, h : /\ f = OwedFor(s) /\ g = [p \in PhaseId |-> OwedFor(s)[PhaseIOU[p]]]
                     /\ h = [p \in PhaseId |-> Quota[p] * Exchange[p]]
  OBVIOUS
<1>5. /\ b \in [IOUs -> PhaseId] /\ (\A x, y \in IOUs : b[x] = b[y] => x = y)
      /\ \A z \in PhaseId : \E x \in IOUs : b[x] = z
  <2>1. b \in [IOUs -> PhaseId] /\ \A x, y \in IOUs : b[x] = b[y] => x = y
    BY <1>1, <1>3
  <2>2. ASSUME NEW z \in PhaseId PROVE \E x \in IOUs : b[x] = z
    <3>1. PhaseIOU[z] \in IOUs /\ b[PhaseIOU[z]] = z
      BY <1>1, <1>3
    <3> QED BY <3>1
  <2> QED BY <2>1, <2>2
<1>6. /\ Owed(s) = SumFunctionOnSet(f, IOUs)
      /\ \A a \in IOUs : f[a] \in Nat
  BY <1>4, OwedForFacts
<1>7. \A x \in IOUs : g[b[x]] = f[x]
  BY <1>1, <1>3, <1>4
<1>8. SumFunctionOnSet(f, IOUs) = SumFunctionOnSet(g, PhaseId)
  BY <1>1, <1>2, <1>5, <1>6, <1>7, SumReindexed
<1>9. ASSUME NEW p \in PhaseId PROVE g[p] \in Nat /\ h[p] \in Nat /\ g[p] <= h[p]
  <2>1. PICK a \in IOUs : a = PhaseIOU[p]
    BY <1>1
  <2>2. IOUAssetPhaseId[a] = p
    BY <1>1, <2>1
  <2>3. PICK e \in Nat, q \in Nat : e = Exchange[p] /\ q = Quota[p]
    BY PhaseNumbers
  <2>4. PICK o \in Nat : o = OutsideOf(s, a)
    BY OwedForFacts
  <2>5. o <= q
    <3>1. s.issuance[a] <= v[p] /\ v[p] <= q /\ v[p] \in Nat
      BY <2>1, <2>3 DEF Issued
    <3>2. s.issuance[a] \in Nat /\ s.free[a][CollectionAccountId] \in Nat
      BY <1>1, ConservedFacts DEF Setting, ConfigOK
    <3> QED BY <2>4, <3>1, <3>2 DEF OutsideOf
  <2>6. g[p] = e * o /\ h[p] = q * e
    BY <1>4, <2>1, <2>2, <2>3, <2>4, OwedForFacts
  <2>7. e * o \in Nat /\ q * e \in Nat /\ e * o <= q * e
    BY <2>5, ProductIsNat
  <2> QED BY <2>6, <2>7
<1>10. SumFunctionOnSet(g, PhaseId) <= SumFunctionOnSet(h, PhaseId)
  BY <1>2, <1>9, SumMonotone
<1>11. SumFunctionOnSet(h, PhaseId) \in Nat /\ SumFunctionOnSet(g, PhaseId) \in Nat
  BY <1>2, <1>9, SumTakesOut
<1>12. NumOfPhases * (SumFunctionOnSet(h, PhaseId) + 1) <= MaxBalance
  <2>1. SumFunction(h) = SumFunctionOnSet(h, PhaseId)
    BY <1>4 DEF SumFunction
  <2> QED BY <1>4, <2>1 DEF RatesFit
<1>13. PICK N \in Nat, o \in Nat, q \in Nat : N = NumOfPhases /\ o = Owed(s) /\ q = SumFunctionOnSet(h, PhaseId)
  BY <1>2, <1>6, <1>8, <1>11
<1>14. o <= q /\ N * (q + 1) <= MaxBalance /\ N >= 1
  BY <1>6, <1>8, <1>10, <1>12, <1>13, SavingAssumption
<1>15. N * (o + 1) <= N * (q + 1) /\ N * (o + 1) \in Nat /\ N * (q + 1) \in Nat
  BY <1>14, ProductIsNat
<1>16. N * (o + 1) = N * o + N /\ N * o >= o /\ N * o \in Nat
  BY <1>14, ProductIsNat
<1> QED BY <1>2, <1>13, <1>14, <1>15, <1>16

-----------------------------------------------------------------------------
\* Shares that are minted while the IOUs stay where they are.
MintsTo(s, t, n) ==
    /\ s.ok /\ t.issuance[ShareAssetId] = s.issuance[ShareAssetId] + n
    /\ \A b \in IOUs : OutsideOf(t, b) = OutsideOf(s, b)

\* One mint after another.
LEMMA RunMints ==
    ASSUME NEW n \in Nat, NEW f, NEW h, f[0].issuance[ShareAssetId] \in Nat,
           \A k \in 1 .. n : h[k] \in Nat,
           \A k \in 1 .. n : f[k].ok => MintsTo(f[k - 1], f[k], h[k]), f[n].ok
    PROVE  MintsTo(f[0], f[n], SumFunctionOnSet(h, 1 .. n))
<1> DEFINE S == {k \in 0 .. n : f[k].ok => MintsTo(f[0], f[k], SumFunctionOnSet(h, 1 .. k))}
           g == [k \in 0 .. n |-> k]
<1>1. g[0] \in S
  <2>1. 1 .. 0 = {} /\ 0 \in 0 .. n /\ g[0] = 0
    OBVIOUS
  <2>2. SumFunctionOnSet(h, 1 .. 0) = 0
    BY <2>1, SumOfNone
  <2>3. f[0].issuance[ShareAssetId] = f[0].issuance[ShareAssetId] + 0
    OBVIOUS
  <2> QED BY <2>1, <2>2, <2>3 DEF MintsTo
<1>2. ASSUME NEW k \in 1 .. n, g[k - 1] \in S PROVE g[k] \in S
  <2>0. k \in Nat /\ k - 1 \in Nat
    OBVIOUS
  <2>1. k - 1 \in 0 .. n /\ k \in 0 .. n /\ g[k - 1] = k - 1 /\ g[k] = k
    OBVIOUS
  <2>2. SUFFICES ASSUME f[k].ok PROVE MintsTo(f[0], f[k], SumFunctionOnSet(h, 1 .. k))
    BY <2>1
  <2>3. MintsTo(f[k - 1], f[k], h[k]) /\ h[k] \in Nat
    BY <2>2
  <2>4. MintsTo(f[0], f[k - 1], SumFunctionOnSet(h, 1 .. k - 1))
    BY <1>2, <2>1, <2>3 DEF MintsTo
  <2>5. SumFunctionOnSet(h, 1 .. k) = h[k] + SumFunctionOnSet(h, (1 .. k) \ {k})
    <3>1. IsFiniteSet(1 .. k)
      BY <2>0, FS_Interval
    <3>2. k \in 1 .. k /\ \A i \in 1 .. k : h[i] \in Nat
      OBVIOUS
    <3>3. PICK T : T = 1 .. k
      OBVIOUS
    <3>4. IsFiniteSet(T) /\ k \in T /\ \A i \in T : h[i] \in Nat
      BY <3>1, <3>2, <3>3
    <3>5. SumFunctionOnSet(h, T) = h[k] + SumFunctionOnSet(h, T \ {k})
      BY <3>4, SumTakesOut, Zenon
    <3> QED BY <3>3, <3>5
  <2>6. (1 .. k) \ {k} = 1 .. k - 1
    OBVIOUS
  <2>7. SumFunctionOnSet(h, 1 .. k - 1) \in Nat
    <3>1. IsFiniteSet(1 .. k - 1)
      BY <2>0, FS_Interval
    <3>2. \A i \in 1 .. k - 1 : h[i] \in Nat
      OBVIOUS
    <3>3. PICK T : T = 1 .. k - 1
      OBVIOUS
    <3>4. IsFiniteSet(T) /\ \A i \in T : h[i] \in Nat
      BY <3>1, <3>2, <3>3
    <3>5. SumFunctionOnSet(h, T) \in Nat
      BY <3>4, SumTakesOut, Zenon
    <3> QED BY <3>3, <3>5
  <2>9. SumFunctionOnSet(h, 1 .. k) = h[k] + SumFunctionOnSet(h, 1 .. k - 1)
    BY <2>5, <2>6
  <2>8. SumFunctionOnSet(h, 1 .. k) = SumFunctionOnSet(h, 1 .. k - 1) + h[k]
    BY <2>3, <2>7, <2>9
  <2> QED BY <2>3, <2>4, <2>7, <2>8 DEF MintsTo
<1> HIDE DEF S
<1>3. \A k \in 0 .. n : g[k] \in S
  BY <1>1, <1>2, StepsStay
<1>4. n \in 0 .. n /\ g[n] = n
  OBVIOUS
<1> QED BY <1>3, <1>4 DEF S

\* What a change of phase releases of a list, and of every list.
HeadSum(l) == SumFunctionOnSet(Heads(l), DOMAIN l)
HeadSums(m) == [w \in AccountId |-> HeadSum(Get(m, w, <<>>))]

\* All lists are short of what is released.
LEMMA LeftSums ==
    ASSUME NEW n \in Nat, NEW A, NEW m \in Maps(Packs(n, A)), NEW r, r = AllLeft(m)
    PROVE  /\ r \in Maps(Seq(ReleasePack))
           /\ \A w \in AccountId : HeadSums(m)[w] \in Nat
           /\ UnreleasedIn(r) + SumFunctionOnSet(HeadSums(m), AccountId) = UnreleasedIn(m)
           /\ SumFunctionOnSet(HeadSums(m), AccountId) = SumFunctionOnSet(HeadSums(m), DOMAIN m)
           /\ AllFitIn(m) => AllFitIn(r)
<1> DEFINE left == {who \in DOMAIN m : LeftToRelease(m[who]) # <<>>}
<1>1. /\ m \in Maps(Seq(ReleasePack)) /\ DOMAIN m \subseteq AccountId
      /\ \A w \in DOMAIN m : m[w] \in Packs(n, A)
  BY PackMaps
<1>2. DOMAIN r = left /\ \A w \in left : r[w] = LeftToRelease(m[w])
  BY DEF AllLeft
<1>3. \A w \in DOMAIN m : LeftToRelease(m[w]) \in Seq(ReleasePack)
  BY <1>1, LeftFacts DEF Packs
<1>4. r \in Maps(Seq(ReleasePack))
  <2>1. r \in [left -> Seq(ReleasePack)] /\ left \in SUBSET AccountId
    BY <1>1, <1>3 DEF AllLeft
  <2> QED BY <2>1 DEF Maps
<1>5. ASSUME NEW w \in AccountId
      PROVE  /\ ListSums(m)[w] \in Nat /\ ListSums(r)[w] \in Nat /\ HeadSums(m)[w] \in Nat
             /\ ListSums(m)[w] = ListSums(r)[w] + HeadSums(m)[w]
             /\ w \notin DOMAIN m => HeadSums(m)[w] = 0
  <2>1. PICK l \in Packs(n, A) : l = Get(m, w, <<>>)
    BY <1>1, NoPacks DEF Get
  <2>2. /\ ListSums(m)[w] = ListSum(l) /\ ListSums(m)[w] \in Nat
        /\ ListSums(r)[w] = ListSum(Get(r, w, <<>>)) /\ ListSums(r)[w] \in Nat
    BY <1>1, <1>4, <2>1, UnreleasedIs
  <2>3. PICK k : k = LeftToRelease(l)
    OBVIOUS
  <2>4. ListSum(k) + HeadSum(l) = ListSum(l) /\ \A i \in DOMAIN l : Heads(l)[i] \in Nat
    BY <2>1, <2>3, LeftSum DEF HeadSum
  <2>5. HeadSum(l) \in Nat
    <3>1. IsFiniteSet(DOMAIN l)
      BY ListSumFacts DEF Packs
    <3>2. PICK h : h = Heads(l)
      OBVIOUS
    <3> QED BY <2>4, <3>1, <3>2, SumTakesOut DEF HeadSum
  <2>6. HeadSums(m)[w] = HeadSum(l)
    BY <2>1 DEF HeadSums
  <2>7. w \notin DOMAIN m => l = <<>>
    BY <2>1 DEF Get
  <2>8. l = <<>> => HeadSum(l) = 0
    <3>1. SUFFICES ASSUME l = <<>> PROVE HeadSum(l) = 0
      OBVIOUS
    <3>2. DOMAIN l = {}
      BY <3>1, EmptySeq
    <3> QED BY <3>2, SumOfNone DEF HeadSum
  <2>9. ListSum(Get(r, w, <<>>)) + HeadSum(l) = ListSum(l)
    <3>1. CASE w \in DOMAIN m
      <4>1. l = m[w]
        BY <2>1, <3>1 DEF Get
      <4>2. Get(r, w, <<>>) = k
        BY <1>2, <2>3, <3>1, <4>1 DEF Get
      <4> QED BY <2>4, <4>2
    <3>2. CASE w \notin DOMAIN m
      <4>1. Get(r, w, <<>>) = <<>>
        BY <1>2, <3>2 DEF Get
      <4> QED BY <2>7, <2>8, <3>2, <4>1, NoList
    <3> QED BY <3>1, <3>2
  <2> QED BY <2>2, <2>5, <2>6, <2>7, <2>8, <2>9
<1>6. SumFunctionOnSet(ListSums(m), AccountId)
        = SumFunctionOnSet(ListSums(r), AccountId) + SumFunctionOnSet(HeadSums(m), AccountId)
  <2>1. PICK f, g, h : f = ListSums(r) /\ g = HeadSums(m) /\ h = ListSums(m)
    OBVIOUS
  <2> QED BY <1>5, <2>1, AccountAssumption, SumOfPlus
<1>7. SumFunctionOnSet(HeadSums(m), AccountId) = SumFunctionOnSet(HeadSums(m), DOMAIN m)
  <2>1. PICK g, D : g = HeadSums(m) /\ D = DOMAIN m
    OBVIOUS
  <2> QED BY <1>1, <1>5, <2>1, AccountAssumption, SumRestricts
<1>8. AllFitIn(m) => AllFitIn(r)
  <2>1. SUFFICES ASSUME AllFitIn(m), NEW w \in DOMAIN r PROVE AllFit(r[w])
    BY DEF AllFitIn
  <2>2. w \in DOMAIN m /\ r[w] = LeftToRelease(m[w]) /\ AllFit(m[w]) /\ m[w] \in Packs(n, A)
    BY <1>1, <1>2, <2>1 DEF AllFitIn
  <2> QED BY <2>2, LeftSum
<1>9. /\ UnreleasedIn(r) = SumFunctionOnSet(ListSums(r), AccountId)
      /\ UnreleasedIn(m) = SumFunctionOnSet(ListSums(m), AccountId)
  BY <1>1, <1>4, UnreleasedIs
<1>10. \A w \in AccountId : HeadSums(m)[w] \in Nat
  BY <1>5
<1> QED BY <1>4, <1>6, <1>7, <1>8, <1>9, <1>10

-----------------------------------------------------------------------------
\* Minting, terms and releases, and what is due.

\* A mint of shares.
LEMMA MintReckons ==
    ASSUME Setting, Orderly, NEW s \in StorageType, Conserved(s), NEW who \in AccountId, NEW n \in Nat,
           NEW t, t = mint(s, ShareAssetId, who, n), t.ok
    PROVE  MintsTo(s, t, n) /\ LedgerCall(s, t) /\ Conserved(t)
<1>1. ShareAssetId \in AssetId /\ ShareAssetId \notin IOUs /\ IOUs \subseteq AssetId
  BY OrderlyFacts DEF Setting, ConfigOK
<1>2. PICK a \in AssetId : a = ShareAssetId
  BY <1>1
<1>3. /\ LedgerCall(s, t) /\ Shifted(s, t, a, who, 0, n) /\ Conserved(t)
      /\ \A b \in AssetId : OutsideOf(t, b)
                  = OutsideOf(s, b) + (IF b = a /\ who # CollectionAccountId THEN n ELSE 0)
  BY <1>2, MintKeeps
<1>4. t.issuance[a] + 0 = s.issuance[a] + n
  BY <1>3 DEF Shifted
<1>5. t.issuance[a] \in Nat /\ s.issuance[a] \in Nat
  BY <1>3, ConservedFacts DEF Setting, LedgerCall
<1>6. \A b \in IOUs : OutsideOf(t, b) = OutsideOf(s, b)
  <2>1. \A b \in IOUs : OutsideOf(s, b) \in Nat
    BY <1>1, OutsideIsNat
  <2> QED BY <1>1, <1>2, <1>3, <2>1
<1>7. s.ok
  BY <1>3 DEF LedgerCall
<1> QED BY <1>2, <1>3, <1>4, <1>5, <1>6, <1>7 DEF MintsTo

\* One term of each pack of an account.
LEMMA TermsReckon ==
    ASSUME NEW P, Stand(P), "whole" \in P, NEW v, NEW x \in Int, NEW s \in Sound(P, v, x),
           NEW who \in DOMAIN s.list, NEW t, t = ReleaseTerms(s, who), t.ok
    PROVE  MintsTo(s, t, HeadSum(s.list[who]))
<1>1. /\ Setting /\ Orderly /\ s \in StorageType /\ Conserved(s) /\ PackAssets(P) = {ShareAssetId}
      /\ s.list \in Maps(Packs(s.left - 1, {ShareAssetId})) /\ s.left - 1 \in Nat
  <2>1. s \in StorageType /\ Conserved(s) /\ InStep(s, PackAssets(P)) /\ Setting /\ Orderly
    BY SoundFacts, StandFacts
  <2>2. s.left \in Nat \ {0}
    BY <2>1, PhaseNumbers
  <2> QED BY <2>1, <2>2 DEF InStep, PackAssets
<1>2. PICK l : l = s.list[who]
  OBVIOUS
<1>3. l \in Packs(s.left - 1, {ShareAssetId}) /\ l \in Seq(ReleasePack) /\ who \in AccountId
  <2>1. l \in Packs(s.left - 1, {ShareAssetId}) /\ who \in AccountId
    BY <1>1, <1>2, PackMaps
  <2> QED BY <2>1 DEF Packs
<1>4. PICK n \in Nat : n = Len(l) /\ DOMAIN l = 1 .. n
  BY <1>3, LenProperties
<1>5. PICK f : TermsRun(s, who, f) /\ \A k \in 0 .. Len(s.list[who]) : f[k] \in MintedFrom(P, v, x, s)
  BY SoundReleaseTerms
<1>6. /\ f[0] = s /\ t = f[n] /\ (\A k \in 0 .. n : f[k] \in MintedFrom(P, v, x, s))
      /\ \A k \in 1 .. n : f[k] = mint(f[k - 1], l[k].asset_id, who, Head(l[k].terms))
  BY <1>2, <1>4, <1>5 DEF TermsRun
<1>7. PICK h : h = Heads(l)
  OBVIOUS
<1>8. \A k \in 1 .. n : h[k] \in Nat /\ h[k] = Head(l[k].terms) /\ l[k].asset_id = ShareAssetId
  <2>1. \A k \in DOMAIN l : Heads(l)[k] \in Nat
    BY <1>1, <1>3, LeftSum
  <2> QED BY <1>3, <1>4, <1>7, <2>1 DEF Heads, Packs
<1>9. ASSUME NEW k \in 1 .. n, f[k].ok PROVE MintsTo(f[k - 1], f[k], h[k])
  <2>1. PICK u : u = f[k - 1]
    OBVIOUS
  <2>2. k - 1 \in 0 .. n
    OBVIOUS
  <2>3. u \in StorageType /\ Conserved(u)
    BY <1>6, <2>1, <2>2, SoundFacts DEF MintedFrom
  <2>4. f[k] = mint(u, ShareAssetId, who, h[k]) /\ h[k] \in Nat
    BY <1>6, <1>8, <2>1
  <2> QED BY <1>1, <1>3, <1>9, <2>1, <2>3, <2>4, MintReckons
<1>10. f[0].issuance[ShareAssetId] \in Nat
  BY <1>1, <1>6, DueIsInt
<1>11. MintsTo(f[0], f[n], SumFunctionOnSet(h, 1 .. n))
  BY <1>6, <1>8, <1>9, <1>10, RunMints
<1> QED BY <1>2, <1>4, <1>6, <1>7, <1>11 DEF HeadSum

\* One term of every pack there is.
LEMMA AccountsReckon ==
    ASSUME NEW P, Stand(P), "whole" \in P, NEW v, NEW x \in Int, NEW s \in Sound(P, v, x)
    PROVE  \E all \in MintedFrom(P, v, x, s) :
              /\ Released(s, all)
              /\ all.ok => MintsTo(s, all, SumFunctionOnSet(HeadSums(s.list), AccountId))
<1>1. /\ Setting /\ Orderly /\ s \in StorageType /\ Conserved(s)
      /\ s.list \in Maps(Packs(s.left - 1, {ShareAssetId})) /\ s.left - 1 \in Nat
  <2>1. s \in StorageType /\ Conserved(s) /\ InStep(s, PackAssets(P)) /\ Setting /\ Orderly
    BY SoundFacts, StandFacts
  <2>2. s.left \in Nat \ {0}
    BY <2>1, PhaseNumbers
  <2> QED BY <2>1, <2>2 DEF InStep, PackAssets
<1>2. PICK D : D = DOMAIN s.list
  OBVIOUS
<1>3. D \subseteq AccountId /\ IsFiniteSet(D)
  <2>1. D \subseteq AccountId
    BY <1>1, <1>2, PackMaps
  <2> QED BY <2>1, AccountAssumption, FS_Subset
<1>4. PICK o, n : o = SetToSeq(D) /\ n = Cardinality(D)
  OBVIOUS
<1>5. /\ n \in Nat /\ Len(o) = n /\ (\A k \in 1 .. n : o[k] \in D)
      /\ (\A k, l \in 1 .. n : o[k] = o[l] => k = l)
      /\ \A e \in D : \E k \in 1 .. n : o[k] = e
  BY <1>3, <1>4, SetToSeqFacts
<1>6. PICK f : /\ AccountsRun(s, f)
               /\ \A k \in 0 .. Len(SetToSeq(DOMAIN s.list)) : f[k] \in MintedFrom(P, v, x, s)
               /\ f[Len(SetToSeq(DOMAIN s.list))] \in MintedFrom(P, v, x, s)
               /\ Released(s, f[Len(SetToSeq(DOMAIN s.list))])
  BY SoundReleases
<1>7. /\ f[0] = s /\ (\A k \in 0 .. n : f[k] \in MintedFrom(P, v, x, s)) /\ Released(s, f[n])
      /\ \A k \in 1 .. n : f[k] = ReleaseTerms(f[k - 1], o[k])
  BY <1>2, <1>4, <1>5, <1>6 DEF AccountsRun
<1>8. PICK g, h : g = HeadSums(s.list) /\ h = [k \in 1 .. n |-> g[o[k]]]
  OBVIOUS
<1>9. /\ (\A w \in AccountId : g[w] \in Nat)
      /\ SumFunctionOnSet(g, AccountId) = SumFunctionOnSet(g, D)
  BY <1>1, <1>2, <1>8, LeftSums
<1>10. \A k \in 1 .. n : h[k] \in Nat /\ h[k] = g[o[k]]
  BY <1>3, <1>5, <1>8, <1>9
<1>11. ASSUME NEW k \in 1 .. n, f[k].ok PROVE MintsTo(f[k - 1], f[k], h[k])
  <2>1. PICK u : u = f[k - 1]
    OBVIOUS
  <2>2. k - 1 \in 0 .. n
    BY <1>5
  <2>3. u \in Sound(P, v, x) /\ u.list = s.list
    BY <1>7, <2>1, <2>2 DEF MintedFrom, SameBooks
  <2>4. f[k] = ReleaseTerms(u, o[k]) /\ o[k] \in DOMAIN u.list
    BY <1>2, <1>5, <1>7, <2>1, <2>3
  <2>5. MintsTo(u, f[k], HeadSum(u.list[o[k]]))
    BY <1>11, <2>3, <2>4, TermsReckon
  <2>6. h[k] = HeadSum(u.list[o[k]])
    BY <1>2, <1>3, <1>5, <1>8, <1>10, <2>3 DEF HeadSums, Get
  <2> QED BY <2>1, <2>5, <2>6
<1>12. f[0].issuance[ShareAssetId] \in Nat
  BY <1>1, <1>7, DueIsInt
<1>13. f[n].ok => MintsTo(f[0], f[n], SumFunctionOnSet(h, 1 .. n))
  BY <1>5, <1>10, <1>11, <1>12, RunMints
<1>14. SumFunctionOnSet(h, 1 .. n) = SumFunctionOnSet(g, D)
  <2>1. PICK b : b = [k \in 1 .. n |-> o[k]]
    OBVIOUS
  <2>2. /\ b \in [1 .. n -> D] /\ (\A y, z \in 1 .. n : b[y] = b[z] => y = z)
        /\ \A e \in D : \E k \in 1 .. n : b[k] = e
    BY <1>5, <2>1
  <2>3. \A k \in 1 .. n : h[k] \in Nat /\ g[b[k]] = h[k]
    BY <1>10, <2>1
  <2>4. IsFiniteSet(1 .. n)
    BY <1>5, FS_Interval
  <2>5. PICK T : T = 1 .. n
    OBVIOUS
  <2>6. /\ b \in [T -> D] /\ (\A y, z \in T : b[y] = b[z] => y = z)
        /\ (\A e \in D : \E k \in T : b[k] = e)
        /\ (\A k \in T : h[k] \in Nat /\ g[b[k]] = h[k]) /\ IsFiniteSet(T)
    BY <2>2, <2>3, <2>4, <2>5
  <2>7. SumFunctionOnSet(h, T) = SumFunctionOnSet(g, D)
    BY <1>3, <2>6, SumReindexed
  <2> QED BY <2>5, <2>7
<1>15. n \in 0 .. n
  BY <1>5
<1> QED BY <1>7, <1>8, <1>9, <1>13, <1>14, <1>15

\* A change of phase moves shares from the lists to their owners.
LEMMA ShiftReckons ==
    ASSUME NEW P, Stand(P), "whole" \in P, NEW v, NEW x \in Int, NEW s \in Sound(P, v, x),
           NEW t, t = shift_next_phase(s)
    PROVE  t \in Broken \/ (Due(t) = Due(s) /\ (AllFitIn(s.list) => AllFitIn(t.list)))
<1>1. t \in Broken \/ (t \in Sound(P, v, x) /\ t.ok /\ Shifted1(s, t))
  BY SoundShift
<1>2. SUFFICES ASSUME t \in Sound(P, v, x), t.ok
      PROVE  Due(t) = Due(s) /\ (AllFitIn(s.list) => AllFitIn(t.list))
  BY <1>1
<1>3. /\ Setting /\ Orderly /\ s \in StorageType /\ Conserved(s) /\ t \in StorageType /\ Conserved(t)
      /\ s.list \in Maps(Packs(s.left - 1, {ShareAssetId})) /\ s.left - 1 \in Nat
  <2>1. s \in StorageType /\ Conserved(s) /\ InStep(s, PackAssets(P)) /\ Setting /\ Orderly
        /\ t \in StorageType /\ Conserved(t)
    BY <1>2, SoundFacts, StandFacts
  <2>2. s.left \in Nat \ {0}
    BY <2>1, PhaseNumbers
  <2> QED BY <2>1, <2>2 DEF InStep, PackAssets
<1>4. PICK all \in MintedFrom(P, v, x, s) :
              /\ Released(s, all)
              /\ all.ok => MintsTo(s, all, SumFunctionOnSet(HeadSums(s.list), AccountId))
  BY AccountsReckon
<1>5. all \in StorageType
  BY SoundFacts DEF MintedFrom
<1>6. PICK m, r : m = AllLeft(s.list) /\ r = shares_release_by_phase_change(s)
  OBVIOUS
<1>7. m \in Maps(Seq(ReleasePack))
  BY <1>3, <1>6, LeftSums
<1>8. r = IF all.ok THEN [all EXCEPT !.list = m] ELSE Panic(all)
  BY <1>4, <1>6 DEF Released
<1>9. t = IF s.phase < NumOfPhases
          THEN [r EXCEPT !.quota = 0, !.phase = @ + 1, !.left = IF @ > 0 THEN @ - 1 ELSE @]
          ELSE [r EXCEPT !.quota = Quota[s.phase]]
  BY <1>6 DEF shift_next_phase
<1>10. all.ok
  <2>1. SUFFICES ASSUME ~all.ok PROVE ~t.ok
    BY <1>2
  <2>2. r \in StorageType /\ ~r.ok
    BY <1>5, <1>8, <2>1, PanicBreaks DEF Broken
  <2> QED BY <1>9, <2>2 DEF StorageType
<1>11. r = [all EXCEPT !.list = m]
  BY <1>8, <1>10
<1>12. r \in StorageType /\ r.issuance = all.issuance /\ r.free = all.free /\ r.list = m
  BY <1>5, <1>7, <1>11 DEF StorageType
<1>13. t.issuance = all.issuance /\ t.free = all.free /\ t.list = m
  BY <1>9, <1>12 DEF StorageType
<1>14. PICK g \in Nat : g = SumFunctionOnSet(HeadSums(s.list), AccountId)
  <2>1. \A w \in AccountId : HeadSums(s.list)[w] \in Nat
    BY <1>3, LeftSums
  <2>2. PICK h : h = HeadSums(s.list)
    OBVIOUS
  <2> QED BY <2>1, <2>2, AccountAssumption, SumTakesOut
<1>15. UnreleasedIn(m) + g = UnreleasedIn(s.list) /\ (AllFitIn(s.list) => AllFitIn(m))
  BY <1>3, <1>6, <1>14, LeftSums
<1>16. t.issuance[ShareAssetId] = s.issuance[ShareAssetId] + g
       /\ \A b \in IOUs : OutsideOf(t, b) = OutsideOf(s, b)
  BY <1>4, <1>10, <1>13, <1>14 DEF MintsTo, OutsideOf
<1>17. Due(t) + t.issuance[ShareAssetId] + UnreleasedIn(t.list)
                  = Due(s) + s.issuance[ShareAssetId] + UnreleasedIn(s.list)
  BY <1>3, <1>16, DueByShares
<1>18. /\ Due(t) \in Int /\ Due(s) \in Int /\ s.issuance[ShareAssetId] \in Nat
       /\ UnreleasedIn(s.list) \in Nat /\ UnreleasedIn(t.list) \in Nat
  BY <1>3, DueIsInt
<1>19. Due(t) = Due(s)
  <2>1. PICK i \in Nat, u \in Nat, w \in Nat, d \in Int, e \in Int :
            /\ i = s.issuance[ShareAssetId] /\ u = UnreleasedIn(s.list) /\ w = UnreleasedIn(t.list)
            /\ d = Due(s) /\ e = Due(t)
    BY <1>18
  <2>2. w + g = u
    BY <1>13, <1>15, <2>1
  <2>3. e + (i + g) + w = d + i + u
    BY <1>16, <1>17, <2>1
  <2>4. e = d
    BY <2>2, <2>3
  <2> QED BY <2>1, <2>4
<1> QED BY <1>13, <1>15, <1>19

-----------------------------------------------------------------------------
\* Writing and registering packs.

\* What every step below needs to know of a record.
LEMMA WholeFacts ==
    ASSUME NEW P, Stand(P), "whole" \in P, NEW v, NEW x, NEW s \in Sound(P, v, x)
    PROVE  /\ Setting /\ Orderly /\ s \in StorageType /\ Conserved(s) /\ PackAssets(P) = {ShareAssetId}
           /\ s.list \in Maps(Packs(s.left - 1, {ShareAssetId})) /\ s.list \in Maps(Seq(ReleasePack))
           /\ s.left - 1 \in Nat /\ s.left \in Nat \ {0} /\ s.left <= NumOfPhases
           /\ s.left = NumOfPhases - s.phase + 1 /\ s.phase \in PhaseId
           /\ ShareAssetId \in AssetId /\ ShareAssetId \notin IOUs /\ IOUs \subseteq AssetId
           /\ NumOfPhases \in Nat /\ MaxBalance \in Nat
<1>1. s \in StorageType /\ Conserved(s) /\ InStep(s, PackAssets(P)) /\ Setting /\ Orderly
  BY SoundFacts, StandFacts
<1>2. /\ s.left \in Nat \ {0} /\ NumOfPhases \in Nat /\ s.phase \in Nat /\ s.phase >= 1 /\ s.phase <= NumOfPhases
      /\ s.phase \in PhaseId
  BY <1>1, PhaseNumbers DEF PhaseId
<1>3. ShareAssetId \in AssetId /\ ShareAssetId \notin IOUs /\ IOUs \subseteq AssetId
  BY <1>1, OrderlyFacts DEF Setting, ConfigOK
<1>4. s.left = NumOfPhases - s.phase + 1 /\ s.list \in Maps(Packs(s.left - 1, {ShareAssetId}))
      /\ PackAssets(P) = {ShareAssetId}
  BY <1>1 DEF InStep, PackAssets
<1>5. s.left - 1 \in Nat /\ s.left <= NumOfPhases
  BY <1>2, <1>4
<1>6. s.list \in Maps(Seq(ReleasePack))
  BY <1>4, PackMaps
<1> QED BY <1>1, <1>2, <1>3, <1>4, <1>5, <1>6, MaxBalanceAssumption

\* Writing a list that holds n shares more or fewer.
LEMMA WriteReckons ==
    ASSUME Setting, Orderly, NEW s \in StorageType, NEW t \in StorageType, Conserved(s), Conserved(t),
           NEW who \in AccountId, NEW l \in Seq(ReleasePack), NEW n \in Int,
           t.issuance = s.issuance, t.free = s.free, t.list = Put(s.list, who, l),
           ListSum(l) = ListSum(Get(s.list, who, <<>>)) + n
    PROVE  /\ Due(t) = Due(s) - n
           /\ AllFitIn(s.list) /\ AllFit(l) => AllFitIn(t.list)
<1>1. s.list \in Maps(Seq(ReleasePack))
  BY DueIsInt
<1>2. /\ UnreleasedIn(t.list) + ListSum(Get(s.list, who, <<>>)) = UnreleasedIn(s.list) + ListSum(l)
      /\ AllFitIn(s.list) /\ AllFit(l) => AllFitIn(t.list)
  BY <1>1, UnreleasedPut
<1>3. Due(t) + t.issuance[ShareAssetId] + UnreleasedIn(t.list)
                  = Due(s) + s.issuance[ShareAssetId] + UnreleasedIn(s.list)
  <2>1. \A b \in IOUs : OutsideOf(t, b) = OutsideOf(s, b)
    BY DEF OutsideOf
  <2> QED BY <2>1, DueByShares
<1>4. ListSum(Get(s.list, who, <<>>)) \in Nat
  BY <1>1, UnreleasedIs
<1>5. PICK i \in Nat, u \in Nat, w \in Nat, d \in Int, e \in Int, k \in Nat :
            /\ i = s.issuance[ShareAssetId] /\ u = UnreleasedIn(s.list) /\ w = UnreleasedIn(t.list)
            /\ d = Due(s) /\ e = Due(t) /\ k = ListSum(Get(s.list, who, <<>>))
  BY <1>4, DueIsInt
<1>6. w + k = u + (k + n) /\ e + i + w = d + i + u
  BY <1>2, <1>3, <1>5
<1>7. e = d - n
  BY <1>6
<1> QED BY <1>2, <1>5, <1>7

\* Registering a pack adds its shares to the unreleased ones.
LEMMA RegisterReckons ==
    ASSUME NEW P, Stand(P), "whole" \in P, NEW v, NEW x, NEW s \in Sound(P, v, x), NEW who \in AccountId,
           NEW pack \in ReleasePack, Len(pack.terms) = s.left - 1, pack.asset_id = ShareAssetId,
           Fit(pack), AllFitIn(s.list), UnreleasedIn(s.list) + PackSum(pack) + NumOfPhases <= MaxBalance,
           NEW t, t = register_share_pack(s, who, pack)
    PROVE  Due(t) = Due(s) - PackSum(pack) /\ AllFitIn(t.list)
<1>1. /\ Setting /\ Orderly /\ s \in StorageType /\ Conserved(s) /\ PackAssets(P) = {ShareAssetId}
      /\ s.list \in Maps(Packs(s.left - 1, {ShareAssetId})) /\ s.list \in Maps(Seq(ReleasePack))
      /\ s.left - 1 \in Nat /\ s.left \in Nat \ {0} /\ s.left <= NumOfPhases
      /\ ShareAssetId \in AssetId /\ NumOfPhases \in Nat /\ MaxBalance \in Nat
  BY WholeFacts
<1>2. t \in Sound(P, v, x)
  BY <1>1, SoundRegister
<1>3. t \in StorageType /\ Conserved(t)
  BY <1>2, SoundFacts
<1>4. PackSum(pack) \in Nat /\ pack.phase_id \in PhaseId /\ pack.terms \in Seq(Nat)
  BY PackSumIsNat
<1>5. CASE pack.terms = <<>>
  <2>1. t = s
    BY <1>5 DEF register_share_pack
  <2>2. PackSum(pack) = 0
    <3>1. DOMAIN pack.terms = {}
      BY <1>5, EmptySeq
    <3> QED BY <3>1, SumOfNone DEF PackSum, SumFunction
  <2>3. Due(s) \in Int
    BY <1>1, DueIsInt
  <2> QED BY <2>1, <2>2, <2>3
<1>6. CASE pack.terms # <<>>
  <2> DEFINE new == IF who \in DOMAIN s.list
                    THEN aggregate_phase_unreleased(Append(s.list[who], pack), pack.phase_id, pack.asset_id, 0)
                    ELSE <<pack>>
  <2>1. t = [s EXCEPT !.list = Put(@, who, new)]
    BY <1>6 DEF register_share_pack
  <2>2. PICK n \in Nat \ {0} : n = s.left - 1
    <3>1. s.left - 1 # 0
      BY <1>4, <1>6, EmptySeq
    <3> QED BY <1>1, <3>1
  <2>3. PICK l : l = Get(s.list, who, <<>>)
    OBVIOUS
  <2>4. l \in Packs(n, {ShareAssetId}) /\ l \in Seq(ReleasePack) /\ AllFit(l)
        /\ ListSum(l) \in Nat /\ ListSum(l) <= UnreleasedIn(s.list) /\ UnreleasedIn(s.list) \in Nat
    <3>1. l \in Packs(n, {ShareAssetId})
      BY <1>1, <2>2, <2>3, PackMaps, NoPacks DEF Get
    <3>2. AllFit(l)
      BY <2>3, NoList DEF AllFitIn, Get
    <3>3. ListSum(l) \in Nat /\ ListSum(l) <= UnreleasedIn(s.list) /\ UnreleasedIn(s.list) \in Nat
      BY <1>1, <2>3, UnreleasedIs
    <3> QED BY <3>1, <3>2, <3>3 DEF Packs
  <2>5. PICK a : a = Append(l, pack)
    OBVIOUS
  <2>6. /\ a \in Seq(ReleasePack) /\ ListSum(a) = ListSum(l) + PackSum(pack) /\ AllFit(a)
    BY <2>4, <2>5, AppendSum
  <2>7. a \in Packs(n, {ShareAssetId})
    BY <2>2, <2>4, <2>5, AppendPack
  <2>8. new \in Seq(ReleasePack) /\ ListSum(new) = ListSum(l) + PackSum(pack) /\ AllFit(new)
    <3>1. CASE who \notin DOMAIN s.list
      <4>1. l = <<>> /\ new = <<pack>>
        BY <2>3, <3>1 DEF Get
      <4>2. new = a
        BY <2>5, <4>1
      <4> QED BY <2>6, <4>2
    <3>2. CASE who \in DOMAIN s.list
      <4>0. PICK p \in PhaseId : p = pack.phase_id
        BY <1>4
      <4>1. new = aggregate_phase_unreleased(a, p, ShareAssetId, 0)
        BY <2>3, <2>5, <3>2, <4>0 DEF Get
      <4>2. Same(a, p, ShareAssetId) # {}
        <5>1. Len(l) \in Nat /\ Len(a) = Len(l) + 1 /\ a[Len(l) + 1] = pack /\ DOMAIN a = 1 .. Len(a)
          BY <2>4, <2>5, <2>6, AppendProperties, LenProperties
        <5>2. Len(l) + 1 \in DOMAIN a
          BY <5>1
        <5> QED BY <4>0, <5>1, <5>2 DEF Same
      <4>3. 0 <= AggregatedTotal(a, p, ShareAssetId)
        <5>1. Same(a, p, ShareAssetId) \in SUBSET DOMAIN a
          BY DEF Same
        <5>2. AggregatedTotal(a, p, ShareAssetId) \in Balance
          BY <2>6, <5>1, TotalAtFacts DEF AggregatedTotal
        <5> QED BY <1>1, <5>2 DEF Balance
      <4>4. Multiple(0, n)
        <5>1. 0 = n * 0
          OBVIOUS
        <5> QED BY <5>1 DEF Multiple
      <4>5. ListSum(a) + n <= MaxBalance
        <5>1. PICK k \in Nat, u \in Nat, c \in Nat : k = ListSum(l) /\ u = UnreleasedIn(s.list) /\ c = PackSum(pack)
          BY <1>4, <2>4
        <5>2. k <= u /\ ListSum(a) = k + c
          BY <2>4, <2>6, <5>1
        <5>3. n <= NumOfPhases
          BY <1>1, <2>2
        <5>4. u + c + NumOfPhases <= MaxBalance
          BY <5>1
        <5> QED BY <1>1, <5>2, <5>3, <5>4
      <4> HIDE DEF new
      <4>6. ListSum(new) + 0 = ListSum(a) /\ AllFit(new)
        <5>1. PICK z \in Nat : z = 0
          OBVIOUS
        <5>2. /\ new = aggregate_phase_unreleased(a, p, ShareAssetId, z) /\ Multiple(z, n)
              /\ z <= AggregatedTotal(a, p, ShareAssetId)
          BY <4>1, <4>3, <4>4, <5>1
        <5>3. n \in Nat
          OBVIOUS
        <5>5. ShareAssetId \in AssetId /\ AllFit(a)
          BY <1>1, <2>6
        <5>6. PICK g : g = new
          OBVIOUS
        <5>7. g = aggregate_phase_unreleased(a, p, ShareAssetId, z) /\ (Divisible(p) => Multiple(z, n))
              /\ z <= AggregatedTotal(a, p, ShareAssetId)
          BY <5>2, <5>6
        <5>9. Mergeable(n, a, p, z)
          BY <2>7, <4>2, <4>5, <5>3, <5>5, <5>7 DEF Mergeable
        <5>8. ListSum(g) + z = ListSum(a) /\ AllFit(g)
          BY <5>7, <5>9, AggregateReckons
        <5>4. ListSum(new) + z = ListSum(a) /\ AllFit(new)
          BY <5>6, <5>8
        <5> QED BY <5>1, <5>4
      <4>7. new \in Packs(n, {ShareAssetId})
        <5>1. {ShareAssetId} \in SUBSET AssetId /\ ShareAssetId \in {ShareAssetId} /\ 0 \in Nat
          BY <1>1
        <5> QED BY <2>7, <4>1, <4>2, <4>3, <5>1, AggregateFacts
      <4>8. new \in Seq(ReleasePack)
        BY <4>7 DEF Packs
      <4>9. ListSum(new) \in Nat /\ ListSum(a) \in Nat
        BY <2>6, <4>8, ListSumFacts
      <4> QED BY <2>6, <4>6, <4>8, <4>9
    <3> QED BY <3>1, <3>2
  <2> HIDE DEF new
  <2>9. t.issuance = s.issuance /\ t.free = s.free /\ t.list = Put(s.list, who, new)
    <3>1. PICK m : m = Put(s.list, who, new)
      OBVIOUS
    <3> QED BY <1>1, <2>1, <3>1 DEF StorageType
  <2>10. /\ Due(t) = Due(s) - PackSum(pack)
         /\ AllFitIn(s.list) /\ AllFit(new) => AllFitIn(t.list)
    <3>1. PICK c \in Int : c = PackSum(pack)
      BY <1>4
    <3>2. ListSum(new) = ListSum(Get(s.list, who, <<>>)) + c
      BY <2>3, <2>8, <3>1
    <3> QED BY <1>1, <1>3, <2>8, <2>9, <3>1, <3>2, WriteReckons
  <2> QED BY <2>8, <2>10
<1> QED BY <1>5, <1>6

-----------------------------------------------------------------------------
\* One saving in one phase.

\* The number of terms of a phase that is current, and its rate.
LEMMA RateOf ==
    ASSUME RatesFit, NEW p \in PhaseId, NEW left \in Nat, left = NumOfPhases - p + 1
    PROVE  /\ Exchange[p] \in Nat \ {0} /\ left # 0
           /\ Divisible(p) => \E k \in Nat : Exchange[p] = left * k
           /\ ~Divisible(p) => left <= 3 /\ Exchange[p] >= 2
<1>1. PICK N \in Nat, e \in Nat \ {0} : N = NumOfPhases /\ e = Exchange[p] /\ p \in 1 .. N
  <2>1. Exchange[p] \in Balance \ {0} /\ NumOfPhases \in Nat
    BY SavingAssumption
  <2>2. Exchange[p] \in Nat \ {0}
    BY <2>1, MaxBalanceAssumption DEF Balance
  <2> QED BY <2>1, <2>2 DEF PhaseId
<1>2. left \in Nat \ {0}
  BY <1>1
<1>3. Divisible(p) => e % left = 0
  BY <1>1 DEF Divisible
<1>4. e % left = 0 => e = left * (e \div left) /\ e \div left \in Nat
  BY <1>2
<1>5. ~Divisible(p) => left <= 3 /\ e >= 2
  BY <1>1 DEF RatesFit
<1> QED BY <1>1, <1>2, <1>3, <1>4, <1>5

\* The shares of a saving.
SharesFor(n, p) == n * Exchange[p]

\* The pack of a saving of n IOUs of phase p, and what is left of it after its first term.
PackOf(p, left, n, b, pack, tail) ==
    /\ left = NumOfPhases - p + 1 /\ b = SharesFor(n, p) /\ b + NumOfPhases <= MaxBalance
    /\ pack = create_share_release_pack(ShareAssetId, p, b, left)
    /\ tail = [pack EXCEPT !.terms = Tail(@)]

\* The pack splits without a rest, and so does what is left of it.
LEMMA StakePack ==
    ASSUME RatesFit, ShareAssetId \in AssetId, NEW p \in PhaseId, NEW left \in Nat, NEW n \in Nat \ {0}, NEW b \in Nat,
           NEW pack, NEW tail, PackOf(p, left, n, b, pack, tail)
    PROVE  /\ Head(pack.terms) \in Nat /\ tail \in ReleasePack /\ Len(tail.terms) = left - 1
           /\ tail.asset_id = ShareAssetId /\ PackSum(tail) \in Nat
           /\ Head(pack.terms) + PackSum(tail) = b /\ Fit(tail)
<1>0. /\ left = NumOfPhases - p + 1 /\ b = SharesFor(n, p) /\ b + NumOfPhases <= MaxBalance
      /\ pack = create_share_release_pack(ShareAssetId, p, b, left)
      /\ tail = [pack EXCEPT !.terms = Tail(@)]
  BY DEF PackOf
<1> USE <1>0
<1>1. /\ left \in Nat \ {0} /\ Exchange[p] \in Nat \ {0}
      /\ Divisible(p) => \E k \in Nat : Exchange[p] = left * k
      /\ ~Divisible(p) => left <= 3 /\ Exchange[p] >= 2
  BY RateOf
<1>2. NumOfPhases \in Nat /\ p \in Nat /\ p >= 1 /\ MaxBalance \in Nat
  BY SavingAssumption, MaxBalanceAssumption DEF PhaseId
<1>3. b + left - 1 <= MaxBalance /\ b \in Balance
  <2>1. left - 1 <= NumOfPhases /\ b <= MaxBalance
    BY <1>1, <1>2
  <2> QED BY <1>1, <1>2, <2>1 DEF Balance
<1>4. Divisible(p) => Multiple(b, left)
  <2>1. SUFFICES ASSUME Divisible(p) PROVE Multiple(b, left)
    OBVIOUS
  <2>2. PICK k \in Nat : Exchange[p] = left * k
    BY <1>1, <2>1
  <2>3. n * (left * k) = left * (n * k)
    OBVIOUS
  <2>4. PICK j \in Nat : j = n * k
    BY ProductIsNat
  <2> QED BY <2>2, <2>3, <2>4 DEF Multiple, SharesFor
<1>5. ~Divisible(p) => left <= 3 /\ b # 1
  <2>1. SUFFICES ASSUME ~Divisible(p) PROVE b # 1
    BY <1>1
  <2>2. PICK e \in Nat : e = Exchange[p] /\ e >= 2
    BY <1>1, <2>1
  <2>3. n * e >= e
    BY <2>2
  <2> QED BY <2>2, <2>3 DEF SharesFor
<1>6. Splits(b, left)
  BY <1>1, <1>4, <1>5 DEF Splits
<1>7. PackSum(pack) = b /\ (Multiple(b, left) => EqualParts(pack))
  BY <1>1, <1>3, <1>6, PackAddsUp
<1>8. pack \in ReleasePack /\ Len(pack.terms) = left /\ pack.asset_id = ShareAssetId /\ pack.phase_id = p
  BY <1>1, <1>3, PackFacts
<1>9. /\ tail \in ReleasePack /\ Len(tail.terms) = left - 1 /\ tail.phase_id = pack.phase_id
      /\ Head(pack.terms) \in Nat /\ PackSum(pack) = Head(pack.terms) + PackSum(tail)
      /\ Fit(pack) => Fit(tail)
  <2>1. left \in Nat \ {0} /\ tail = [pack EXCEPT !.terms = Tail(@)]
    BY <1>1
  <2> QED BY <1>8, <2>1, PackWithoutHead
<1>10. tail.asset_id = ShareAssetId
  BY <1>1, <1>8, PackSplit
<1>11. PackSum(tail) \in Nat
  BY <1>9, PackSumIsNat
<1>12. Fit(tail)
  <2>1. CASE Divisible(p)
    BY <1>4, <1>7, <1>8, <1>9, <2>1 DEF Fit
  <2>2. CASE ~Divisible(p)
    <3>1. left - 1 <= 2
      BY <1>5, <2>2
    <3> QED BY <1>8, <1>9, <2>2, <3>1 DEF Fit
  <2> QED BY <2>1, <2>2
<1> QED BY <1>7, <1>9, <1>10, <1>11, <1>12

\* What a phase with its quota used up to q has room for.
LEMMA FilledFits ==
    ASSUME NEW p \in PhaseId, NEW q \in Nat, q <= Quota[p]
    PROVE  Filled(p, q) \in [PhaseId -> Nat] /\ \A i \in PhaseId : Filled(p, q)[i] <= Quota[i]
<1>1. \A i \in PhaseId : Quota[i] \in Nat /\ i \in Nat
  BY SavingAssumption, MaxBalanceAssumption DEF PhaseId, Balance
<1> QED BY <1>1 DEF Filled

\* Two mints and a pack for a saving of iou IOUs of phase p by who.
Saves(P, x, y, p, q, iou, b, who, s, one, minted, saved, pack, tail) ==
    /\ Stand(P) /\ "whole" \in P /\ q + iou <= Quota[p] /\ b = SharesFor(iou, p)
    /\ who # CollectionAccountId
    /\ s \in Sound(P, Filled(p, q), x) /\ s.phase = p /\ Due(s) = 0 /\ AllFitIn(s.list)
    /\ pack = create_share_release_pack(ShareAssetId, p, b, s.left)
    /\ tail = [pack EXCEPT !.terms = Tail(@)]
    /\ one = mint(s, PhaseIOU[p], who, iou) /\ one \in Sound(P, Filled(p, q + iou), y)
    /\ minted = mint(one, ShareAssetId, who, Head(pack.terms)) /\ minted \in Sound(P, Filled(p, q + iou), y)
    /\ minted.ok /\ saved = register_share_pack(minted, who, tail)

\* The shares of a saving are those of its IOUs.
LEMMA SavingReckons ==
    ASSUME RatesFit, NEW P, NEW x \in Int, NEW y \in Int, NEW p \in PhaseId, NEW q \in Nat,
           NEW iou \in Nat \ {0}, NEW b \in Nat, NEW who \in AccountId,
           NEW s, NEW one, NEW minted, NEW saved, NEW pack, NEW tail,
           Saves(P, x, y, p, q, iou, b, who, s, one, minted, saved, pack, tail)
    PROVE  Due(saved) = 0 /\ AllFitIn(saved.list)
<1>0. /\ Stand(P) /\ "whole" \in P /\ s \in Sound(P, Filled(p, q), x) /\ s.phase = p
  BY DEF Saves
<1>a. one \in Sound(P, Filled(p, q + iou), y) /\ minted \in Sound(P, Filled(p, q + iou), y) /\ q + iou <= Quota[p]
  BY DEF Saves
<1>b. minted = mint(one, ShareAssetId, who, Head(pack.terms)) /\ minted.ok
  BY DEF Saves
<1>c. one = mint(s, PhaseIOU[p], who, iou) /\ who # CollectionAccountId
  BY DEF Saves
<1>d. Due(s) = 0 /\ AllFitIn(s.list) /\ b = SharesFor(iou, p)
  BY DEF Saves
<1>e. pack = create_share_release_pack(ShareAssetId, p, b, s.left) /\ tail = [pack EXCEPT !.terms = Tail(@)]
  BY DEF Saves
<1>f. saved = register_share_pack(minted, who, tail)
  BY DEF Saves
<1>1. /\ Setting /\ Orderly /\ s \in StorageType /\ Conserved(s)
      /\ s.left \in Nat /\ s.left = NumOfPhases - p + 1
      /\ ShareAssetId \in AssetId /\ ShareAssetId \notin IOUs /\ IOUs \subseteq AssetId
      /\ NumOfPhases \in Nat /\ MaxBalance \in Nat
  BY <1>0, WholeFacts
<1>2. one \in StorageType /\ Conserved(one) /\ minted \in StorageType /\ Conserved(minted)
  BY <1>a, SoundFacts
<1>3. PICK a \in IOUs : a = PhaseIOU[p] /\ IOUAssetPhaseId[a] = p
  <2>1. PhaseIOU[p] \in IOUs
    BY <1>1, OrderlyFacts
  <2>2. IOUAssetPhaseId[PhaseIOU[p]] \in PhaseId /\ PhaseIOU[IOUAssetPhaseId[PhaseIOU[p]]] = PhaseIOU[p]
    BY <1>1, <2>1, PhaseOfIOU
  <2>3. IOUAssetPhaseId[PhaseIOU[p]] = p
    BY <1>1, <2>2, OrderlyFacts
  <2> QED BY <2>1, <2>3
<1>4. one.ok
  <2>1. minted = mint(one, ShareAssetId, who, Head(pack.terms))
    BY <1>b
  <2>2. SUFFICES ASSUME ~one.ok PROVE ~minted.ok
    BY <1>b
  <2>3. minted = Fail(one)
    BY <2>1, <2>2 DEF mint
  <2> QED BY <1>2, <2>3, FailFacts
<1>5. /\ LedgerCall(s, one) /\ Shifted(s, one, a, who, 0, iou)
      /\ \A c \in AssetId : OutsideOf(one, c) = OutsideOf(s, c) + (IF c = a /\ who # CollectionAccountId THEN iou ELSE 0)
  BY <1>1, <1>3, <1>4, <1>c, MintKeeps
<1>6. Due(one) = Due(s) + Exchange[IOUAssetPhaseId[a]] * iou
  <2>1. one.list = s.list
    BY <1>5 DEF LedgerCall, SameBooks
  <2>2. one.issuance[ShareAssetId] = s.issuance[ShareAssetId]
    <3>1. one.issuance[ShareAssetId] + 0 = s.issuance[ShareAssetId] + 0
      BY <1>1, <1>3, <1>5 DEF Shifted
    <3>2. one.issuance[ShareAssetId] \in Nat /\ s.issuance[ShareAssetId] \in Nat
      BY <1>1, <1>2, DueIsInt
    <3> QED BY <3>1, <3>2
  <2>3. \A c \in AssetId : OutsideOf(s, c) \in Nat
    BY <1>1, OutsideIsNat
  <2>4. (\A c \in AssetId \ {a} : OutsideOf(one, c) = OutsideOf(s, c)) /\ OutsideOf(one, a) = OutsideOf(s, a) + iou
    BY <1>1, <1>3, <1>5, <1>c, <2>3
  <2>5. iou \in Int
    OBVIOUS
  <2> QED BY <1>1, <1>2, <2>1, <2>2, <2>4, <2>5, DueByIOU
<1>7. Due(one) = b
  <2>1. PICK e \in Nat : e = Exchange[p]
    BY SavingAssumption, MaxBalanceAssumption DEF Balance
  <2>2. e * iou = b
    BY <1>d, <2>1 DEF SharesFor
  <2>3. Due(one) = 0 + e * iou
    BY <1>3, <1>6, <1>d, <2>1
  <2> QED BY <2>2, <2>3
<1>8. Owed(one) + NumOfPhases <= MaxBalance
  <2>1. PICK v \in [PhaseId -> Nat] : v = Filled(p, q + iou) /\ \A i \in PhaseId : v[i] <= Quota[i]
    BY <1>a, FilledFits
  <2>2. Issued(one, v)
    BY <1>0, <1>4, <1>a, <2>1, SoundFacts
  <2> QED BY <1>1, <1>2, <2>1, <2>2, OwedFits
<1>9. PICK i \in Nat, u \in Nat, o \in Nat :
          /\ i = one.issuance[ShareAssetId] /\ u = UnreleasedIn(one.list) /\ o = Owed(one)
          /\ o - (i + u) = b
  <2>1. /\ Owed(one) \in Nat /\ one.issuance[ShareAssetId] \in Nat /\ UnreleasedIn(one.list) \in Nat
        /\ Due(one) = Owed(one) - (one.issuance[ShareAssetId] + UnreleasedIn(one.list))
    BY <1>1, <1>2, DueIsInt
  <2> QED BY <1>7, <2>1
<1>10. b + NumOfPhases <= MaxBalance
  <2>1. b <= o /\ o + NumOfPhases <= MaxBalance
    BY <1>8, <1>9
  <2> QED BY <1>1, <2>1
<1>11. /\ Head(pack.terms) \in Nat /\ tail \in ReleasePack /\ Len(tail.terms) = s.left - 1
       /\ tail.asset_id = ShareAssetId /\ PackSum(tail) \in Nat
       /\ Head(pack.terms) + PackSum(tail) = b /\ Fit(tail)
  <2>1. PICK n \in Nat \ {0}, l \in Nat : n = iou /\ l = s.left
    BY <1>1
  <2>2. PackOf(p, l, n, b, pack, tail)
    BY <1>1, <1>10, <1>d, <1>e, <2>1 DEF PackOf
  <2>3. /\ Head(pack.terms) \in Nat /\ tail \in ReleasePack /\ Len(tail.terms) = l - 1
        /\ tail.asset_id = ShareAssetId /\ PackSum(tail) \in Nat
        /\ Head(pack.terms) + PackSum(tail) = b /\ Fit(tail)
    BY <1>1, <2>2, StakePack
  <2> QED BY <2>1, <2>3
<1>12. PICK h \in Nat, k \in Nat : h = Head(pack.terms) /\ k = PackSum(tail) /\ h + k = b
  BY <1>11
<1>13. MintsTo(one, minted, h) /\ LedgerCall(one, minted)
  BY <1>1, <1>2, <1>b, <1>12, MintReckons
<1>14. minted.list = s.list /\ minted.list = one.list /\ minted.left = s.left
  BY <1>5, <1>13 DEF LedgerCall, SameBooks
<1>15. Due(minted) = k
  <2>1. Due(minted) + minted.issuance[ShareAssetId] + UnreleasedIn(minted.list)
           = Due(one) + one.issuance[ShareAssetId] + UnreleasedIn(one.list)
    BY <1>1, <1>2, <1>13, DueByShares DEF MintsTo
  <2>2. minted.issuance[ShareAssetId] = i + h
    BY <1>9, <1>13 DEF MintsTo
  <2>3. PICK d \in Int : d = Due(minted)
    BY <1>1, <1>2, DueIsInt
  <2>4. d + (i + h) + u = b + i + u
    BY <1>7, <1>9, <1>14, <2>1, <2>2, <2>3
  <2>5. d = k
    BY <1>12, <2>4
  <2> QED BY <2>3, <2>5
<1>16. UnreleasedIn(minted.list) + PackSum(tail) + NumOfPhases <= MaxBalance
  <2>2. u + k <= o
    BY <1>9, <1>12
  <2>3. o + NumOfPhases <= MaxBalance
    BY <1>8, <1>9
  <2>1. u + k + NumOfPhases <= MaxBalance
    BY <1>1, <2>2, <2>3
  <2> QED BY <1>9, <1>12, <1>14, <2>1
<1>17. Due(saved) = Due(minted) - PackSum(tail) /\ AllFitIn(saved.list)
  <2>1. AllFitIn(minted.list) /\ Len(tail.terms) = minted.left - 1
    BY <1>11, <1>14, <1>d
  <2>2. PICK v, z : v = Filled(p, q + iou) /\ z = y
    OBVIOUS
  <2>3. minted \in Sound(P, v, z)
    BY <1>a, <2>2
  <2> QED BY <1>0, <1>f, <1>11, <1>16, <2>1, <2>3, RegisterReckons
<1> QED BY <1>12, <1>15, <1>17

-----------------------------------------------------------------------------
\* create_staking.

\* What the books are reckoned by: Due.
LEMMA DueOfSame ==
    ASSUME NEW s, NEW t, t.issuance = s.issuance, t.free = s.free, t.list = s.list
    PROVE  Due(t) = Due(s)
<1>1. \A a \in IOUs : OutsideOf(t, a) = OutsideOf(s, a)
  BY DEF OutsideOf
<1>2. OwedFor(t) = OwedFor(s)
  BY <1>1 DEF OwedFor
<1> QED BY <1>2 DEF Due, Owed

\* A call that succeeds leaves as many shares as the IOUs are worth.
Reckons(s) == s.ok => Due(s) = 0 /\ AllFitIn(s.list)

\* The two mints of a saving.
LEMMA StakeMints ==
    ASSUME NEW P, Stand(P), NEW y \in Int, NEW p \in PhaseId, NEW q \in Nat, NEW n \in Nat, NEW h \in Nat,
           NEW who \in AccountId, NEW c \in Sound(P, Filled(p, q), y),
           NEW one, one = mint(c, PhaseIOU[p], who, n), NEW t, t = mint(one, ShareAssetId, who, h)
    PROVE  /\ one \in Sound(P, Filled(p, q + n), y - n) /\ LedgerCall(c, one)
           /\ t \in Sound(P, Filled(p, q + n), y - n) /\ LedgerCall(one, t)
<1>1. PICK b0, b1 : b0 = Filled(p, q) /\ b1 = Filled(p, q + n)
  OBVIOUS
<1>2. b0 \in [PhaseId -> Nat] /\ c \in StorageType
  <2>1. \A i \in PhaseId : Quota[i] \in Nat
    BY SavingAssumption, MaxBalanceAssumption DEF Balance
  <2>2. b0 \in [PhaseId -> Nat]
    BY <1>1, <2>1 DEF Filled
  <2>3. c \in StorageType
    BY SoundFacts
  <2> QED BY <2>2, <2>3
<1>3. b1 = [b0 EXCEPT ![p] = @ + n]
  BY <1>1, FilledChanges
<1>4. PICK z \in Int : z = y - n
  OBVIOUS
<1>5. one \in Sound(P, b1, z) /\ LedgerCall(c, one)
  BY <1>1, <1>2, <1>3, <1>4, SoundMintIOU
<1>6. ShareAssetId \in AssetId /\ ("whole" \in P => ShareAssetId \notin IOUs)
  BY StandFacts, OrderlyFacts
<1>7. t \in Sound(P, b1, z) /\ LedgerCall(one, t)
  BY <1>5, <1>6, SoundMint
<1> QED BY <1>1, <1>4, <1>5, <1>7

\* Neither an error nor a panic promises anything.
LEMMA FailReckons ==
    ASSUME NEW s \in StorageType
    PROVE  Reckons(Fail(s)) /\ Reckons(Panic(s)) /\ \A t \in Broken : Reckons(t)
<1>1. ~Fail(s).ok /\ ~Panic(s).ok
  BY FailFacts, PanicBreaks DEF Broken
<1> QED BY <1>1 DEF Reckons, Broken

\* Saving in one phase.
LEMMA StakeReckons ==
    ASSUME RatesFit, NEW P, Stand(P), "whole" \in P, NEW x \in Int, NEW m \in Nat, NEW r \in Stakes(P, x, m), r.s.ok,
           Reckons(r.s), NEW who \in AccountId, who # CollectionAccountId, NEW res, res = StakeInPhase(r, who)
    PROVE  Reckons(res.s)
<1>1. PICK s \in StorageType, rest \in Nat, taken \in Nat : s = r.s /\ rest = r.rest /\ taken = r.taken
  BY DEF Stakes
<1>2. PICK p \in PhaseId, q \in Nat, y \in Int : p = s.phase /\ q = s.quota /\ y = x - taken /\ s \in Sound(P, Filled(p, q), y)
  <2>1. s.phase \in PhaseId /\ s.quota \in Nat /\ x - taken \in Int
    BY PhaseNumbers
  <2>2. s \in Sound(P, Filled(s.phase, s.quota), x - taken)
    BY <1>1 DEF Stakes, Broken
  <2> QED BY <2>1, <2>2
<1>3. PICK quota \in Nat, e \in Nat : quota = Quota[p] /\ e = Exchange[p] /\ q <= quota /\ s.left \in Nat \ {0} /\ quota \in Balance
  <2>1. s.left \in Nat \ {0} /\ Quota[p] \in Nat /\ Quota[p] \in Balance /\ Exchange[p] \in Nat
    BY PhaseNumbers
  <2>2. q <= Quota[p]
    BY <1>2, SoundFacts DEF InStep
  <2> QED BY <2>1, <2>2
<1>4. PICK will_be \in Nat, iou \in Nat : /\ will_be = q + rest /\ iou = (IF will_be <= quota THEN rest ELSE quota - q)
                                          /\ q + iou <= quota
  BY <1>3
<1>5. PICK b \in Nat : b = iou * e
  BY ProductIsNat
<1>6. PICK pack, tail, counted, one, minted, saved, next :
          /\ pack = create_share_release_pack(ShareAssetId, p, b, s.left)
          /\ tail = [pack EXCEPT !.terms = Tail(@)]
          /\ counted = (IF will_be < quota THEN [s EXCEPT !.quota = will_be] ELSE s)
          /\ one = mint(counted, PhaseIOU[p], who, iou)
          /\ minted = mint(one, ShareAssetId, who, Head(pack.terms))
          /\ saved = register_share_pack(minted, who, tail)
          /\ next = (IF will_be < quota THEN saved ELSE shift_next_phase(saved))
  OBVIOUS
<1>7. res.s = IF will_be > MaxBalance THEN Panic(s)
              ELSE IF iou = 0 THEN Fail(s)
              ELSE IF b > MaxBalance THEN Panic(s)
              ELSE IF ~minted.ok THEN minted
              ELSE next
  BY <1>1, <1>2, <1>3, <1>4, <1>5, <1>6 DEF StakeInPhase
<1>8. SUFFICES ASSUME ~(will_be > MaxBalance), iou # 0, ~(b > MaxBalance), minted.ok PROVE Reckons(next)
  <2>1. ~minted.ok => Reckons(minted)
    BY DEF Reckons
  <2>2. Reckons(Fail(s)) /\ Reckons(Panic(s))
    BY FailReckons
  <2> QED BY <1>7, <2>1, <2>2
<1>9. counted \in Sound(P, Filled(p, q), y) /\ counted.phase = p /\ counted.left = s.left
      /\ counted.issuance = s.issuance /\ counted.free = s.free /\ counted.list = s.list
  <2>1. CASE will_be < quota
    <3>1. counted = [s EXCEPT !.quota = will_be]
      BY <1>6, <2>1
    <3>2. will_be \in Balance
      BY <1>8, MaxBalanceAssumption DEF Balance
    <3>3. /\ SameLedger(s, counted) /\ counted.list = s.list /\ counted.quota = will_be /\ counted.phase = s.phase
          /\ counted.left = s.left /\ counted.issuance = s.issuance /\ counted.free = s.free
      BY <3>1, <3>2 DEF SameLedger, StorageType
    <3>4. s.list \in Maps(Packs(s.left - 1, PackAssets(P)))
      BY <1>2, SoundFacts DEF InStep
    <3>5. counted.quota <= Quota[s.phase]
      BY <1>2, <1>3, <2>1, <3>3
    <3>6. PICK v : v = Filled(p, q)
      OBVIOUS
    <3>7. counted \in Sound(P, v, y)
      BY <1>2, <3>3, <3>4, <3>5, <3>6, SoundBooks
    <3> QED BY <1>2, <3>3, <3>6, <3>7
  <2>2. CASE ~(will_be < quota)
    BY <1>2, <1>6, <2>2
  <2> QED BY <2>1, <2>2
<1>10. PICK h \in Nat : h = Head(pack.terms) /\ tail \in ReleasePack /\ Len(tail.terms) = s.left - 1 /\ tail.asset_id = ShareAssetId
  <2>1. b \in Balance /\ ShareAssetId \in AssetId
    BY <1>8, StandFacts, MaxBalanceAssumption DEF Balance
  <2>2. PICK left \in Nat \ {0} : left = s.left
    BY <1>3
  <2>3. pack \in ReleasePack /\ Len(pack.terms) = left /\ pack.asset_id = ShareAssetId
    BY <1>6, <2>1, <2>2, PackFacts
  <2> QED BY <1>6, <2>2, <2>3, PackSplit
<1>11. PICK z \in Int : z = y - iou
  OBVIOUS
<1>12. /\ one \in Sound(P, Filled(p, q + iou), z) /\ LedgerCall(counted, one)
       /\ minted \in Sound(P, Filled(p, q + iou), z) /\ LedgerCall(one, minted)
  <2>1. one = mint(counted, PhaseIOU[p], who, iou) /\ minted = mint(one, ShareAssetId, who, h)
    BY <1>6, <1>10
  <2> QED BY <1>9, <1>11, <2>1, StakeMints
<1>13. Due(counted) = 0 /\ AllFitIn(counted.list)
  <2>1. Due(s) = 0 /\ AllFitIn(s.list)
    BY <1>1 DEF Reckons
  <2>2. Due(counted) = Due(s)
    BY <1>9, DueOfSame
  <2> QED BY <1>9, <2>1, <2>2
<1>14. Saves(P, y, z, p, q, iou, b, who, counted, one, minted, saved, pack, tail)
  <2>1. b = SharesFor(iou, p) /\ q + iou <= Quota[p]
    BY <1>3, <1>4, <1>5 DEF SharesFor
  <2> QED BY <1>6, <1>8, <1>9, <1>12, <1>13, <2>1 DEF Saves
<1>15. Due(saved) = 0 /\ AllFitIn(saved.list)
  <2>1. iou \in Nat \ {0}
    BY <1>8
  <2> QED BY <1>14, <2>1, SavingReckons
<1>16. CASE will_be < quota
  BY <1>6, <1>15, <1>16 DEF Reckons
<1>17. CASE ~(will_be < quota)
  <2>1. minted.left = s.left
    BY <1>9, <1>12 DEF LedgerCall, SameBooks
  <2>2. PICK v : v = Filled(p, q + iou)
    OBVIOUS
  <2>3. Len(tail.terms) = minted.left - 1 /\ tail.asset_id \in PackAssets(P)
    BY <1>10, <2>1, StandFacts
  <2>4. saved \in Sound(P, v, z)
    BY <1>6, <1>10, <1>12, <2>2, <2>3, SoundRegister
  <2>5. next = shift_next_phase(saved)
    BY <1>6, <1>17
  <2>6. next \in Broken \/ (Due(next) = Due(saved) /\ (AllFitIn(saved.list) => AllFitIn(next.list)))
    BY <2>4, <2>5, ShiftReckons
  <2>7. CASE next \in Broken
    BY <2>7, FailReckons
  <2>8. CASE Due(next) = Due(saved) /\ (AllFitIn(saved.list) => AllFitIn(next.list))
    BY <1>15, <2>8 DEF Reckons
  <2> QED BY <2>6, <2>7, <2>8
<1> QED BY <1>16, <1>17

\* create_staking.
LEMMA CreateReckons ==
    ASSUME RatesFit, NEW P, Stand(P), "whole" \in P, NEW x \in Int, NEW m \in Nat, NEW s \in StorageType,
           s \in Sound(P, Filled(s.phase, s.quota), x), Reckons(s), NEW who \in AccountId, who # CollectionAccountId,
           NEW r, r = create_staking(s, who, m)
    PROVE  r \in Stakes(P, x, m) /\ Reckons(r.s)
<1>1. r \in Stakes(P, x, m)
  BY SoundCreateStaking
<1>2. PICK f : StakingRun(s, who, m, f) /\ \A k \in 0 .. NumOfPhases : f[k] \in Stakes(P, x, m)
  BY SoundCreateStaking
<1>3. PICK n \in Nat : n = NumOfPhases
  BY SavingAssumption
<1>4. PICK S : S = {t \in Stakes(P, x, m) : Reckons(t.s)}
  OBVIOUS
<1>5. f[0] \in S
  <2>1. 0 \in 0 .. NumOfPhases
    BY <1>3
  <2>2. f[0] \in Stakes(P, x, m) /\ f[0].s = s
    BY <1>2, <2>1 DEF StakingRun
  <2> QED BY <1>4, <2>2
<1>6. \A k \in 1 .. n : f[k - 1] \in S => f[k] \in S
  <2>1. SUFFICES ASSUME NEW k \in 1 .. n, f[k - 1] \in S PROVE f[k] \in S
    OBVIOUS
  <2>2. f[k] \in Stakes(P, x, m)
    BY <1>2, <1>3
  <2>3. PICK g \in Stakes(P, x, m) : g = f[k - 1] /\ Reckons(g.s)
    BY <1>4, <2>1
  <2>4. f[k] = IF g.s.ok /\ g.rest > 0 THEN StakeInPhase(g, who) ELSE g
    BY <1>2, <1>3, <2>3 DEF StakingRun
  <2>5. g.s.ok => Reckons(StakeInPhase(g, who).s)
    BY <2>3, StakeReckons
  <2>6. Reckons(f[k].s)
    BY <2>3, <2>4, <2>5
  <2> QED BY <1>4, <2>2, <2>6
<1>7. f[n] \in S
  <2>1. \A k \in 0 .. n : f[k] \in S
    BY <1>3, <1>5, <1>6, StepsStay
  <2> QED BY <1>3, <2>1
<1>8. m = 0 => r.s = Fail(s)
  BY DEF create_staking
<1>9. m # 0 => r = f[n]
  BY <1>2, <1>3 DEF StakingRun
<1>10. Reckons(Fail(s))
  BY FailReckons
<1> QED BY <1>1, <1>4, <1>7, <1>8, <1>9, <1>10

-----------------------------------------------------------------------------
\* Calls that move other assets, and the packs that a redemption leaves.

\* A call that leaves IOUs alone and takes n shares out of the issuance.
Burnt(s, t, n) ==
    /\ s.ok /\ t \in StorageType /\ Conserved(t) /\ t.list = s.list
    /\ t.issuance[ShareAssetId] + n = s.issuance[ShareAssetId]
    /\ \A b \in IOUs : OutsideOf(t, b) = OutsideOf(s, b)

\* A transfer of another asset is such a call.
LEMMA OtherTransfer ==
    ASSUME Setting, Orderly, NEW s \in StorageType, Conserved(s), NEW a \in AssetId, a \notin IOUs,
           NEW from \in AccountId, NEW to \in AccountId, NEW n \in Nat, NEW t, t = make_transfer(s, a, from, to, n), t.ok
    PROVE  Burnt(s, t, 0)
<1>1. /\ LedgerCall(s, t) /\ t.issuance = s.issuance /\ Conserved(t)
      /\ \A b \in AssetId :
             OutsideOf(t, b) + (IF b = a /\ from # CollectionAccountId THEN n ELSE 0)
                 = OutsideOf(s, b) + (IF b = a /\ to # CollectionAccountId THEN n ELSE 0)
  BY TransferKeeps
<1>2. t \in StorageType /\ s.ok /\ t.list = s.list /\ IOUs \subseteq AssetId
  BY <1>1, OrderlyFacts DEF LedgerCall, SameBooks
<1>3. (\A b \in AssetId : OutsideOf(s, b) \in Nat) /\ s.issuance[ShareAssetId] \in Nat
  BY OutsideIsNat, DueIsInt
<1>4. \A b \in AssetId : OutsideOf(t, b) \in Nat
  BY <1>1, <1>2, OutsideIsNat
<1>5. \A b \in IOUs : OutsideOf(t, b) = OutsideOf(s, b)
  <2>1. TAKE b \in IOUs
  <2>2. b \in AssetId /\ b # a
    BY <1>2
  <2>3. OutsideOf(t, b) + 0 = OutsideOf(s, b) + 0
    BY <1>1, <2>2
  <2> QED BY <1>3, <1>4, <2>2, <2>3
<1> QED BY <1>1, <1>2, <1>3, <1>5 DEF Burnt

\* So is a burn, with the shares it burns.
LEMMA OtherBurn ==
    ASSUME Setting, Orderly, NEW s \in StorageType, Conserved(s), NEW a \in AssetId, a \notin IOUs,
           NEW from \in AccountId, NEW n \in Nat, NEW t, t = burn(s, a, from, n), t.ok
    PROVE  Burnt(s, t, IF a = ShareAssetId THEN n ELSE 0)
<1>1. /\ LedgerCall(s, t) /\ Shifted(s, t, a, from, n, 0) /\ Conserved(t)
      /\ \A b \in AssetId : OutsideOf(s, b)
                  = OutsideOf(t, b) + (IF b = a /\ from # CollectionAccountId THEN n ELSE 0)
  BY BurnKeeps
<1>2. t \in StorageType /\ s.ok /\ t.list = s.list /\ IOUs \subseteq AssetId
  BY <1>1, OrderlyFacts DEF LedgerCall, SameBooks
<1>3. s.issuance[ShareAssetId] \in Nat /\ ShareAssetId \in AssetId
  BY DueIsInt
<1>4. t.issuance[ShareAssetId] \in Nat
  BY <1>1, <1>2, DueIsInt
<1>5. \A b \in AssetId : OutsideOf(t, b) \in Nat
  BY <1>1, <1>2, OutsideIsNat
<1>6. \A b \in IOUs : OutsideOf(t, b) = OutsideOf(s, b)
  <2>1. TAKE b \in IOUs
  <2>2. b \in AssetId /\ b # a
    BY <1>2
  <2>3. OutsideOf(s, b) = OutsideOf(t, b) + 0
    BY <1>1, <2>2
  <2> QED BY <1>5, <2>2, <2>3
<1>7. t.issuance[ShareAssetId] + (IF a = ShareAssetId THEN n ELSE 0) = s.issuance[ShareAssetId]
  BY <1>1, <1>3, <1>4 DEF Shifted
<1> QED BY <1>1, <1>2, <1>6, <1>7 DEF Burnt

\* So is a mint of an asset that is neither.
LEMMA OtherMint ==
    ASSUME Setting, Orderly, NEW s \in StorageType, Conserved(s), NEW a \in AssetId, a \notin IOUs, a # ShareAssetId,
           NEW to \in AccountId, NEW n \in Nat, NEW t, t = mint(s, a, to, n), t.ok
    PROVE  Burnt(s, t, 0)
<1>1. /\ LedgerCall(s, t) /\ Shifted(s, t, a, to, 0, n) /\ Conserved(t)
      /\ \A b \in AssetId : OutsideOf(t, b)
                  = OutsideOf(s, b) + (IF b = a /\ to # CollectionAccountId THEN n ELSE 0)
  BY MintKeeps
<1>2. t \in StorageType /\ s.ok /\ t.list = s.list /\ IOUs \subseteq AssetId
  BY <1>1, OrderlyFacts DEF LedgerCall, SameBooks
<1>3. s.issuance[ShareAssetId] \in Nat /\ ShareAssetId \in AssetId
  BY DueIsInt
<1>4. t.issuance[ShareAssetId] \in Nat
  BY <1>1, <1>2, DueIsInt
<1>5. \A b \in AssetId : OutsideOf(s, b) \in Nat
  BY OutsideIsNat
<1>6. \A b \in IOUs : OutsideOf(t, b) = OutsideOf(s, b)
  <2>1. TAKE b \in IOUs
  <2>2. b \in AssetId /\ b # a
    BY <1>2
  <2>3. OutsideOf(t, b) = OutsideOf(s, b) + 0
    BY <1>1, <2>2
  <2> QED BY <1>5, <2>2, <2>3
<1>7. t.issuance[ShareAssetId] + 0 = s.issuance[ShareAssetId]
  BY <1>1, <1>3, <1>4 DEF Shifted
<1> QED BY <1>1, <1>2, <1>6, <1>7 DEF Burnt

\* Such calls leave what is due, but for the shares they take.
LEMMA BurntReckons ==
    ASSUME Setting, Orderly, NEW s \in StorageType, Conserved(s), NEW n \in Nat, NEW t, Burnt(s, t, n)
    PROVE  Due(t) = Due(s) + n
<1>1. /\ t \in StorageType /\ Conserved(t) /\ t.list = s.list
      /\ t.issuance[ShareAssetId] + n = s.issuance[ShareAssetId]
      /\ \A b \in IOUs : OutsideOf(t, b) = OutsideOf(s, b)
  BY DEF Burnt
<1>2. Due(t) + t.issuance[ShareAssetId] + UnreleasedIn(t.list)
          = Due(s) + s.issuance[ShareAssetId] + UnreleasedIn(s.list)
  BY <1>1, DueByShares
<1>3. PICK d \in Int, i \in Nat, u \in Nat : d = Due(s) /\ i = s.issuance[ShareAssetId] /\ u = UnreleasedIn(s.list)
  BY DueIsInt
<1>4. PICK e \in Int, j \in Nat : e = Due(t) /\ j = t.issuance[ShareAssetId]
  BY <1>1, DueIsInt
<1>5. e + j + u = d + i + u /\ j + n = i
  BY <1>1, <1>2, <1>3, <1>4
<1> QED BY <1>3, <1>4, <1>5

-----------------------------------------------------------------------------
\* Unreleased shares of a redemption.

\* The list that is left adds up to what has not been taken.
LEMMA AfterReckons ==
    ASSUME NEW n \in Nat, NEW l \in Packs(n, {ShareAssetId}), NEW p \in PhaseId, NEW less \in Nat, NEW total,
           total = AggregatedTotal(l, p, ShareAssetId), less <= total, ShareAssetId \in AssetId,
           less = total \/ (Divisible(p) => Multiple(less, n)), AllFit(l), ListSum(l) + n <= MaxBalance,
           NEW q, q = IF total > less THEN aggregate_phase_unreleased(l, p, ShareAssetId, less) ELSE Rest(l, p, ShareAssetId)
    PROVE  q \in Seq(ReleasePack) /\ ListSum(q) + less = ListSum(l) /\ AllFit(q)
<1>1. l \in Seq(ReleasePack)
  BY DEF Packs
<1>2. PICK R \in SUBSET DOMAIN l : R = Same(l, p, ShareAssetId)
  BY DEF Same
<1>3. total = TotalAt(l, R)
  BY <1>2 DEF AggregatedTotal
<1>4. total \in Nat /\ (R = {} => total = 0)
  <2>1. TotalAt(l, R) \in Balance /\ (R = {} => TotalAt(l, R) = 0)
    BY <1>1, TotalAtFacts
  <2> QED BY <1>3, <2>1, MaxBalanceAssumption DEF Balance
<1>5. q \in Seq(ReleasePack)
  <2>1. {ShareAssetId} \in SUBSET AssetId /\ ShareAssetId \in {ShareAssetId}
    OBVIOUS
  <2>2. PICK A : A = {ShareAssetId}
    OBVIOUS
  <2>3. q \in Packs(n, A)
    BY <2>1, <2>2, ListAfter
  <2> QED BY <2>3 DEF Packs
<1>6. CASE total > less
  <2>1. R # {}
    BY <1>4, <1>6
  <2>2. Mergeable(n, l, p, less)
    BY <1>2, <1>4, <1>6, <2>1 DEF Mergeable
  <2> QED BY <1>5, <1>6, <2>2, AggregateReckons
<1>7. CASE ~(total > less)
  <2>1. less = total
    BY <1>4, <1>7
  <2>2. ListSum(l) \in Nat /\ MaxBalance \in Nat
    BY <1>1, ListSumFacts, MaxBalanceAssumption
  <2>3. ListSum(l) <= MaxBalance
    BY <2>2
  <2>4. TotalAt(l, R) = SumFunctionOnSet(SumsOf(l), R)
    BY <1>1, <2>3, TotalIsExact
  <2>5. q = Kept(l, DOMAIN l \ R)
    BY <1>2, <1>7 DEF Rest
  <2>6. ListSum(q) + SumFunctionOnSet(SumsOf(l), R) = ListSum(l) /\ (AllFit(l) => AllFit(q))
    BY <1>1, <2>5, RestSum
  <2> QED BY <1>3, <1>5, <2>1, <2>4, <2>6
<1> QED BY <1>6, <1>7

\* At a rate that the terms divide, the unreleased shares that are required are as
\* many for every term.
LEMMA LockedIsMultiple ==
    ASSUME RatesFit, NEW p \in PhaseId, Divisible(p), NEW n \in Nat, NEW k \in Nat, NEW r \in Nat,
           r = SharesFor(n, p), r * k <= MaxBalance
    PROVE  Multiple(LockedRequired(p, r, k + 1), k)
<1>1. PICK d \in Nat \ {0} : d = NumOfPhases - p + 1
  BY SavingAssumption DEF PhaseId
<1>2. PICK c \in Nat : Exchange[p] = d * c
  <2>1. d \in Nat
    OBVIOUS
  <2> QED BY <1>1, <2>1, RateOf
<1>3. PICK m \in Nat : m = n * c * k
  <2>1. n * c \in Nat
    BY ProductIsNat
  <2> QED BY <2>1, ProductIsNat
<1>4. r * k = d * m
  <2>1. n * (d * c) * k = d * (n * c * k)
    OBVIOUS
  <2> QED BY <1>2, <1>3, <2>1 DEF SharesFor
<1>5. PICK w \in Nat : w = r * k /\ w <= MaxBalance
  BY ProductIsNat
<1>6. Wrap(w) = w
  BY <1>5, WrapFits DEF Balance
<1>7. w \div d = m
  BY <1>4, <1>5
<1>8. LockedRequired(p, r, k + 1) = m
  <2>1. (k + 1) - 1 = k
    OBVIOUS
  <2>2. LockedRequired(p, r, k + 1) = Wrap(r * ((k + 1) - 1)) \div (NumOfPhases - p + 1)
    BY DEF LockedRequired
  <2>3. LockedRequired(p, r, k + 1) = Wrap(w) \div d
    BY <1>1, <1>5, <2>1, <2>2
  <2> QED BY <1>6, <1>7, <2>3
<1>9. PICK j \in Nat : j = n * c
  BY ProductIsNat
<1>10. m = k * j
  BY <1>3, <1>9
<1> QED BY <1>8, <1>9, <1>10 DEF Multiple

-----------------------------------------------------------------------------
\* make_redeem.

\* w shares, free and unreleased, that fit a balance for every term, and of which the
\* IOUs that are redeemed get no more than there are.
Enough(s, iou, amount, w) ==
    /\ w \in Nat /\ s.issuance[ShareAssetId] + UnreleasedIn(s.list) = w
    /\ NumOfPhases * (w + 1) <= MaxBalance /\ w + NumOfPhases <= MaxBalance
    /\ SharesFor(amount, IOUAssetPhaseId[iou]) <= w

\* The shares of the IOUs, without wrapping.
LEMMA EnoughFacts ==
    ASSUME Setting, Orderly, NEW s \in StorageType, NEW iou \in IOUs, NEW amount \in Nat, NEW w, Enough(s, iou, amount, w)
    PROVE  /\ IOUAssetPhaseId[iou] \in PhaseId /\ SharesFor(amount, IOUAssetPhaseId[iou]) \in Nat
           /\ Required(iou, amount) = SharesFor(amount, IOUAssetPhaseId[iou])
           /\ \A k \in Nat : k <= NumOfPhases => Required(iou, amount) * k <= MaxBalance
<1>1. /\ w \in Nat /\ NumOfPhases * (w + 1) <= MaxBalance /\ w + NumOfPhases <= MaxBalance
      /\ SharesFor(amount, IOUAssetPhaseId[iou]) <= w
  BY DEF Enough
<1>2. IOUAssetPhaseId[iou] \in PhaseId /\ NumOfPhases \in Nat /\ MaxBalance \in Nat
  BY PhaseOfIOU, SavingAssumption, MaxBalanceAssumption
<1>3. PICK e \in Nat : e = Exchange[IOUAssetPhaseId[iou]]
  BY <1>2, SavingAssumption, MaxBalanceAssumption DEF Balance
<1>4. PICK r \in Nat : r = amount * e
  BY ProductIsNat
<1>5. r = SharesFor(amount, IOUAssetPhaseId[iou])
  BY <1>3, <1>4 DEF SharesFor
<1>6. r <= w /\ r <= MaxBalance
  <2>1. r <= w
    BY <1>1, <1>5
  <2>2. w + NumOfPhases <= MaxBalance /\ w \in Nat
    BY <1>1
  <2> QED BY <1>2, <2>1, <2>2
<1>7. Required(iou, amount) = r
  <2>1. Required(iou, amount) = Wrap(r)
    BY <1>3, <1>4 DEF Required
  <2>2. r \in Balance
    BY <1>2, <1>6 DEF Balance
  <2> QED BY <2>1, <2>2, WrapFits
<1>8. ASSUME NEW k \in Nat, k <= NumOfPhases PROVE r * k <= MaxBalance
  <2>1. PICK N \in Nat, x \in Nat : N = NumOfPhases /\ x = w + 1 /\ N * x <= MaxBalance
    BY <1>1, <1>2
  <2>2. r <= x /\ k <= N
    BY <1>1, <1>6, <1>8, <2>1
  <2>3. r * k <= N * x
    BY <2>2
  <2>4. r * k \in Nat /\ N * x \in Nat
    BY ProductIsNat
  <2> QED BY <1>2, <2>1, <2>3, <2>4
<1> QED BY <1>2, <1>5, <1>7, <1>8

\* What is left of the list of an account from which fl unreleased shares are taken.
LEMMA ListTaken ==
    ASSUME RatesFit, NEW P, Stand(P), "whole" \in P, NEW v, NEW x, NEW amount \in Nat, NEW s \in Sound(P, v, x),
           NEW iou \in IOUs, NEW who \in AccountId, AllFitIn(s.list), NEW w, Enough(s, iou, amount, w),
           NEW fl \in Nat, fl <= HeldBack(s, iou, who), fl \in {Locked(s, iou, amount), HeldBack(s, iou, who)},
           NEW after,
           after = IF HeldBack(s, iou, who) > fl
                   THEN aggregate_phase_unreleased(Get(s.list, who, <<>>), IOUAssetPhaseId[iou], ShareAssetId, fl)
                   ELSE Rest(Get(s.list, who, <<>>), IOUAssetPhaseId[iou], ShareAssetId)
    PROVE  after \in Seq(ReleasePack) /\ ListSum(after) + fl = ListSum(Get(s.list, who, <<>>)) /\ AllFit(after)
<1>1. /\ Setting /\ Orderly /\ s \in StorageType /\ Conserved(s) /\ PackAssets(P) = {ShareAssetId}
      /\ s.list \in Maps(Seq(ReleasePack)) /\ s.left - 1 \in Nat /\ s.left \in Nat \ {0} /\ s.left <= NumOfPhases
      /\ ShareAssetId \in AssetId /\ NumOfPhases \in Nat /\ MaxBalance \in Nat
  BY WholeFacts
<1>a. PICK l : l = Get(s.list, who, <<>>)
  OBVIOUS
<1>b. PICK k \in Nat : k = s.left - 1
  BY <1>1
<1>2. l = Get(s.list, who, <<>>) /\ k = s.left - 1
  BY <1>a, <1>b
<1>3. l \in Packs(k, {ShareAssetId})
  BY <1>1, <1>2, ListOf
<1>4. PICK p \in PhaseId, r \in Nat : /\ p = IOUAssetPhaseId[iou] /\ r = SharesFor(amount, p) /\ r = Required(iou, amount)
                                      /\ r * k <= MaxBalance
  <2>1. /\ IOUAssetPhaseId[iou] \in PhaseId /\ SharesFor(amount, IOUAssetPhaseId[iou]) \in Nat
        /\ Required(iou, amount) = SharesFor(amount, IOUAssetPhaseId[iou])
        /\ \A i \in Nat : i <= NumOfPhases => Required(iou, amount) * i <= MaxBalance
    BY <1>1, EnoughFacts
  <2>2. k <= NumOfPhases
    BY <1>1, <1>2
  <2> QED BY <2>1, <2>2
<1>5. PICK total : total = AggregatedTotal(l, p, ShareAssetId) /\ total = HeldBack(s, iou, who)
  BY <1>2, <1>4 DEF HeldBack
<1>6. fl = total \/ (Divisible(p) => Multiple(fl, k))
  <2>1. SUFFICES ASSUME fl = Locked(s, iou, amount), Divisible(p) PROVE Multiple(fl, k)
    BY <1>5
  <2>2. s.left = k + 1
    BY <1>1, <1>2
  <2>3. fl = LockedRequired(p, r, k + 1)
    BY <1>4, <2>1, <2>2 DEF Locked
  <2> QED BY <1>4, <2>1, <2>3, LockedIsMultiple
<1>7. AllFit(l)
  <2>1. AllFitIn(s.list) => AllFit(Get(s.list, who, <<>>))
    BY <1>1, UnreleasedRemoved
  <2> QED BY <1>2, <2>1
<1>8. ListSum(l) + k <= MaxBalance
  <2>1. ListSum(l) \in Nat /\ UnreleasedIn(s.list) \in Nat /\ ListSum(l) <= UnreleasedIn(s.list)
    <3>1. /\ ListSums(s.list)[who] \in Nat /\ ListSums(s.list)[who] <= UnreleasedIn(s.list)
          /\ ListSums(s.list)[who] = ListSum(Get(s.list, who, <<>>)) /\ UnreleasedIn(s.list) \in Nat
      BY <1>1, UnreleasedIs
    <3> QED BY <1>2, <3>1
  <2>2. PICK i \in Nat : i = s.issuance[ShareAssetId]
    BY <1>1, DueIsInt
  <2>3. w \in Nat /\ i + UnreleasedIn(s.list) = w /\ w + NumOfPhases <= MaxBalance
    BY <2>2 DEF Enough
  <2>4. k <= NumOfPhases
    BY <1>1, <1>2
  <2>5. PICK y \in Nat, u \in Nat : y = ListSum(l) /\ u = UnreleasedIn(s.list)
    BY <2>1
  <2>6. y <= u /\ i + u = w
    BY <2>1, <2>3, <2>5
  <2>7. y + k <= MaxBalance
    BY <1>1, <2>3, <2>4, <2>6
  <2> QED BY <2>5, <2>7
<1>9. after = IF total > fl THEN aggregate_phase_unreleased(l, p, ShareAssetId, fl) ELSE Rest(l, p, ShareAssetId)
  BY <1>2, <1>4, <1>5
<1>10. fl <= total
  BY <1>5
<1>11. after \in Seq(ReleasePack) /\ ListSum(after) + fl = ListSum(l) /\ AllFit(after)
  BY <1>1, <1>3, <1>5, <1>6, <1>7, <1>8, <1>9, <1>10, AfterReckons
<1> QED BY <1>2, <1>11

\* make_redeem takes as many shares as the IOUs are worth.
LEMMA MakeRedeemReckons ==
    ASSUME RatesFit, NEW P, Stand(P), "whole" \in P, NEW v \in [PhaseId -> Nat], NEW amount \in Nat,
           NEW s \in Sound(P, v, amount), NEW iou \in IOUs, NEW who \in AccountId, Redeemable(s, iou, who, amount),
           AllFitIn(s.list), NEW w, Enough(s, iou, amount, w), NEW t, t = make_redeem(s, iou, who, amount), t.ok
    PROVE  /\ Due(t) = Due(s) + SharesFor(amount, IOUAssetPhaseId[iou]) /\ AllFitIn(t.list)
           /\ t \in StorageType /\ Conserved(t)
<1>1. /\ Setting /\ Orderly /\ s \in StorageType /\ Conserved(s)
      /\ s.list \in Maps(Seq(ReleasePack)) /\ ShareAssetId \in AssetId /\ ShareAssetId \notin IOUs
      /\ CollectionAssetId \in AssetId /\ CollectionAssetId \notin IOUs /\ CollectionAccountId \in AccountId
      /\ CollectionAssetId # ShareAssetId
  BY WholeFacts, StandFacts, OrderlyFacts
<1>2. PICK ff, fl, taken, moved, after, listed, burnt :
          /\ TakesOf(s, iou, who, amount, ff, fl) /\ taken \in Sound(P, v, amount)
          /\ RedeemedBy(s, iou, who, amount, ff, fl, taken, moved, after, listed, burnt, t)
  BY RedeemSteps
<1>3. /\ ff \in Nat /\ fl \in Nat /\ fl <= HeldBack(s, iou, who) /\ ff + fl = Required(iou, amount)
      /\ fl \in {Locked(s, iou, amount), HeldBack(s, iou, who)}
  BY <1>2 DEF TakesOf
<1>4. SameLedger(s, taken) /\ taken.list = Removed(s.list, who)
  BY <1>2 DEF RedeemedBy
<1>5. moved = make_transfer(taken, ShareAssetId, who, CollectionAccountId, ff)
  BY <1>2 DEF RedeemedBy
<1>6. after = IF HeldBack(s, iou, who) > fl
              THEN aggregate_phase_unreleased(Get(s.list, who, <<>>), IOUAssetPhaseId[iou], ShareAssetId, fl)
              ELSE Rest(Get(s.list, who, <<>>), IOUAssetPhaseId[iou], ShareAssetId)
  BY <1>2 DEF RedeemedBy
<1>7. listed = [moved EXCEPT !.list = Put(@, who, after)]
  BY <1>2 DEF RedeemedBy
<1>8. burnt = IF ff = 0 THEN listed ELSE burn(listed, ShareAssetId, CollectionAccountId, ff)
  BY <1>2 DEF RedeemedBy
<1>9. t = IF moved.ok THEN make_transfer(burnt, CollectionAssetId, CollectionAccountId, who, amount) ELSE Fail(moved)
  BY <1>2 DEF RedeemedBy
<1>10. taken \in StorageType /\ Conserved(taken) /\ taken.issuance = s.issuance /\ taken.free = s.free
  BY <1>2, <1>4, SoundFacts DEF SameLedger
<1>11. moved.ok
  <2>1. SUFFICES ASSUME ~moved.ok PROVE FALSE
    OBVIOUS
  <2>2. moved \in StorageType
    <3>1. LedgerCall(taken, moved)
      BY <1>1, <1>3, <1>5, <1>10, TransferCall
    <3> QED BY <3>1 DEF LedgerCall
  <2>3. ~Fail(moved).ok
    BY <2>2, FailFacts
  <2> QED BY <1>9, <2>1, <2>3
<1>12. Burnt(taken, moved, 0)
  BY <1>1, <1>3, <1>5, <1>10, <1>11, OtherTransfer
<1>13. after \in Seq(ReleasePack) /\ ListSum(after) + fl = ListSum(Get(s.list, who, <<>>)) /\ AllFit(after)
  BY <1>3, <1>6, ListTaken
<1>14. moved \in StorageType /\ Conserved(moved) /\ moved.list = Removed(s.list, who)
  BY <1>4, <1>12 DEF Burnt
<1>15. PICK m : m = Put(Removed(s.list, who), who, after)
  OBVIOUS
<1>16. /\ m \in Maps(Seq(ReleasePack)) /\ UnreleasedIn(m) + fl = UnreleasedIn(s.list) /\ AllFitIn(m)
       /\ UnreleasedIn(m) \in Nat
  <2>1. PICK g : g = Removed(s.list, who)
    OBVIOUS
  <2>2. /\ g \in Maps(Seq(ReleasePack)) /\ UnreleasedIn(g) + ListSum(Get(s.list, who, <<>>)) = UnreleasedIn(s.list)
        /\ AllFitIn(g) /\ Get(g, who, <<>>) = <<>>
    BY <1>1, <2>1, UnreleasedRemoved
  <2>3. /\ m \in Maps(Seq(ReleasePack)) /\ UnreleasedIn(m) + ListSum(Get(g, who, <<>>)) = UnreleasedIn(g) + ListSum(after)
        /\ AllFitIn(m)
    BY <1>13, <1>15, <2>1, <2>2, UnreleasedPut
  <2>4. ListSum(Get(g, who, <<>>)) = 0
    BY <2>2, NoList
  <2>5. UnreleasedIn(g) \in Nat /\ UnreleasedIn(m) \in Nat
    BY <2>2, <2>3, UnreleasedIs
  <2>6. UnreleasedIn(s.list) \in Nat /\ ListSum(after) \in Nat
    BY <1>1, <1>13, UnreleasedIs, ListSumFacts
  <2>7. PICK ug \in Nat, um \in Nat, us \in Nat, la \in Nat :
            ug = UnreleasedIn(g) /\ um = UnreleasedIn(m) /\ us = UnreleasedIn(s.list) /\ la = ListSum(after)
    BY <2>5, <2>6
  <2>8. ug + (la + fl) = us /\ um + 0 = ug + la
    BY <1>13, <2>2, <2>3, <2>4, <2>7
  <2>9. um + fl = us
    BY <1>3, <2>8
  <2> QED BY <2>3, <2>5, <2>7, <2>9
<1>17. /\ listed \in StorageType /\ listed.ok /\ listed.issuance = moved.issuance /\ listed.free = moved.free
       /\ listed.list = m
  <2>1. listed = [moved EXCEPT !.list = m]
    BY <1>7, <1>14, <1>15
  <2> QED BY <1>11, <1>14, <1>16, <2>1 DEF StorageType
<1>18. Conserved(listed)
  BY <1>14, <1>17 DEF Conserved
<1>19. Due(listed) = Due(s) + fl
  <2>1. \A b \in IOUs : OutsideOf(listed, b) = OutsideOf(s, b)
    <3>1. \A b \in IOUs : OutsideOf(moved, b) = OutsideOf(taken, b)
      BY <1>12 DEF Burnt
    <3> QED BY <1>10, <1>17, <3>1 DEF OutsideOf
  <2>2. Due(listed) + listed.issuance[ShareAssetId] + UnreleasedIn(listed.list)
           = Due(s) + s.issuance[ShareAssetId] + UnreleasedIn(s.list)
    BY <1>1, <1>17, <1>18, <2>1, DueByShares
  <2>3. listed.issuance[ShareAssetId] + 0 = s.issuance[ShareAssetId]
    BY <1>10, <1>12, <1>17 DEF Burnt
  <2>4. PICK d \in Int, i \in Nat, u \in Nat : d = Due(s) /\ i = s.issuance[ShareAssetId] /\ u = UnreleasedIn(s.list)
    BY <1>1, DueIsInt
  <2>5. PICK e \in Int, j \in Nat, y \in Nat : e = Due(listed) /\ j = listed.issuance[ShareAssetId] /\ y = UnreleasedIn(listed.list)
    BY <1>1, <1>17, <1>18, DueIsInt
  <2>6. e + j + y = d + i + u /\ j + 0 = i /\ y + fl = u
    BY <1>16, <1>17, <2>2, <2>3, <2>4, <2>5
  <2>7. e = d + fl
    BY <1>3, <2>6
  <2> QED BY <2>4, <2>5, <2>7
<1>20. burnt.ok /\ t = make_transfer(burnt, CollectionAssetId, CollectionAccountId, who, amount)
  <2>1. t = make_transfer(burnt, CollectionAssetId, CollectionAccountId, who, amount)
    BY <1>9, <1>11
  <2>2. ASSUME ~burnt.ok PROVE FALSE
    <3>1. t = Fail(burnt)
      BY <2>1, <2>2 DEF make_transfer
    <3>2. burnt \in StorageType
      <4>1. CASE ff = 0
        BY <1>8, <1>17, <4>1
      <4>2. CASE ff # 0
        <5>1. burnt = burn(listed, ShareAssetId, CollectionAccountId, ff)
          BY <1>8, <4>2
        <5>2. LedgerCall(listed, burnt)
          BY <1>1, <1>3, <1>17, <1>18, <5>1, BurnCall
        <5> QED BY <5>2 DEF LedgerCall
      <4> QED BY <4>1, <4>2
    <3> QED BY <3>1, <3>2, FailFacts
  <2> QED BY <2>1, <2>2
<1>21. /\ burnt \in StorageType /\ Conserved(burnt) /\ burnt.list = m /\ Due(burnt) = Due(listed) + ff
  <2>1. CASE ff = 0
    <3>1. burnt = listed
      BY <1>8, <2>1
    <3>2. Due(listed) \in Int
      BY <1>1, <1>17, <1>18, DueIsInt
    <3> QED BY <1>17, <1>18, <2>1, <3>1, <3>2
  <2>2. CASE ff # 0
    <3>1. burnt = burn(listed, ShareAssetId, CollectionAccountId, ff)
      BY <1>8, <2>2
    <3>2. Burnt(listed, burnt, ff)
      <4>1. Burnt(listed, burnt, IF ShareAssetId = ShareAssetId THEN ff ELSE 0)
        BY <1>1, <1>3, <1>17, <1>18, <1>20, <3>1, OtherBurn
      <4> QED BY <4>1
    <3>3. Due(burnt) = Due(listed) + ff
      BY <1>1, <1>3, <1>17, <1>18, <3>2, BurntReckons
    <3> QED BY <1>17, <3>2, <3>3 DEF Burnt
  <2> QED BY <2>1, <2>2
<1>22. /\ t \in StorageType /\ Conserved(t) /\ t.list = m /\ Due(t) = Due(burnt) + 0
  <2>1. Burnt(burnt, t, 0)
    BY <1>1, <1>20, <1>21, OtherTransfer
  <2>2. 0 \in Nat
    OBVIOUS
  <2>3. Due(t) = Due(burnt) + 0
    BY <1>1, <1>21, <2>1, <2>2, BurntReckons
  <2> QED BY <1>21, <2>1, <2>3 DEF Burnt
<1>23. Due(t) = Due(s) + SharesFor(amount, IOUAssetPhaseId[iou])
  <2>1. ff + fl = SharesFor(amount, IOUAssetPhaseId[iou])
    BY <1>1, <1>3, EnoughFacts
  <2>2. PICK d \in Int : d = Due(s)
    BY <1>1, DueIsInt
  <2>3. PICK r \in Nat : r = SharesFor(amount, IOUAssetPhaseId[iou])
    BY <1>1, EnoughFacts
  <2>4. Due(t) = d + fl + ff + 0
    BY <1>19, <1>21, <1>22, <2>2
  <2>5. d + fl + ff + 0 = d + r
    BY <1>3, <2>1, <2>3
  <2> QED BY <2>2, <2>3, <2>4, <2>5
<1> QED BY <1>16, <1>22, <1>23

-----------------------------------------------------------------------------
\* Redemptions from books that reckon.

\* Books that reckon, and v the IOUs that the phases may have issued.
Ready(P, v, s) ==
    /\ v \in [PhaseId -> Nat] /\ (\A p \in PhaseId : v[p] <= Quota[p]) /\ (\A p \in PhaseId : p > s.phase => v[p] = 0)
    /\ s \in Sound(P, v, 0) /\ s.ok /\ Due(s) = 0 /\ AllFitIn(s.list)

\* What Ready gives.
LEMMA ReadyFacts ==
    ASSUME RatesFit, NEW P, Stand(P), "whole" \in P, NEW v, NEW s, Ready(P, v, s)
    PROVE  /\ v \in [PhaseId -> Nat] /\ s \in Sound(P, v, 0) /\ s.ok /\ Due(s) = 0 /\ AllFitIn(s.list)
           /\ Setting /\ Orderly /\ s \in StorageType /\ Conserved(s) /\ Issued(s, v)
           /\ s.issuance[ShareAssetId] + UnreleasedIn(s.list) = Owed(s) /\ Owed(s) \in Nat
           /\ NumOfPhases * (Owed(s) + 1) <= MaxBalance /\ Owed(s) + NumOfPhases <= MaxBalance
<1>1. /\ v \in [PhaseId -> Nat] /\ (\A p \in PhaseId : v[p] <= Quota[p])
      /\ s \in Sound(P, v, 0) /\ s.ok /\ Due(s) = 0 /\ AllFitIn(s.list)
  BY DEF Ready
<1>2. Setting /\ Orderly /\ s \in StorageType /\ Conserved(s) /\ Issued(s, v)
  BY <1>1, SoundFacts, StandFacts
<1>3. /\ Owed(s) \in Nat /\ s.issuance[ShareAssetId] \in Nat /\ UnreleasedIn(s.list) \in Nat
      /\ Due(s) = Owed(s) - (s.issuance[ShareAssetId] + UnreleasedIn(s.list))
  BY <1>2, DueIsInt
<1>4. s.issuance[ShareAssetId] + UnreleasedIn(s.list) = Owed(s)
  BY <1>1, <1>3
<1>5. NumOfPhases * (Owed(s) + 1) <= MaxBalance /\ Owed(s) + NumOfPhases <= MaxBalance
  BY <1>1, <1>2, OwedFits
<1> QED BY <1>1, <1>2, <1>3, <1>4, <1>5

\* The transfer of IOUs to the collection account, and what is due after it.
LEMMA SentFacts ==
    ASSUME RatesFit, NEW P, Stand(P), "whole" \in P, NEW v, NEW s, Ready(P, v, s), NEW iou \in IOUs, NEW n \in Nat,
           NEW who \in AccountId, who # CollectionAccountId,
           NEW sent, sent = make_transfer(s, iou, who, CollectionAccountId, n), sent.ok
    PROVE  /\ sent \in Sound(P, v, n) /\ sent \in StorageType /\ Conserved(sent) /\ sent.list = s.list
           /\ LedgerCall(s, sent) /\ sent.issuance = s.issuance
           /\ sent.free[ShareAssetId][who] = s.free[ShareAssetId][who] /\ n <= s.free[iou][who]
           /\ SharesFor(n, IOUAssetPhaseId[iou]) \in Nat /\ SharesFor(n, IOUAssetPhaseId[iou]) <= Owed(s)
           /\ Due(sent) = Due(s) - SharesFor(n, IOUAssetPhaseId[iou])
<1>1. /\ s \in Sound(P, v, 0) /\ Setting /\ Orderly /\ s \in StorageType /\ Conserved(s)
  BY ReadyFacts
<1>2. /\ iou \in AssetId /\ iou \notin {ShareAssetId, CollectionAssetId} /\ CollectionAccountId \in AccountId
      /\ ShareAssetId \in AssetId /\ IOUAssetPhaseId[iou] \in PhaseId
  BY <1>1, StandFacts, OrderlyFacts
<1>3. /\ LedgerCall(s, sent) /\ sent.issuance = s.issuance /\ Conserved(sent)
      /\ Paid(s.free, sent.free, iou, who, CollectionAccountId, n) /\ n <= s.free[iou][who]
      /\ \A b \in AssetId :
             OutsideOf(sent, b) + (IF b = iou /\ who # CollectionAccountId THEN n ELSE 0)
                 = OutsideOf(s, b) + (IF b = iou /\ CollectionAccountId # CollectionAccountId THEN n ELSE 0)
  BY <1>1, <1>2, TransferKeeps
<1>4. sent \in StorageType /\ sent.list = s.list
  BY <1>3 DEF LedgerCall, SameBooks
<1>5. sent.free[ShareAssetId][who] = s.free[ShareAssetId][who]
  BY <1>2, <1>3 DEF Paid
<1>6. sent \in Sound(P, v, n)
  <2>1. Gain(iou, who, CollectionAccountId, n) = n
    BY DEF Gain
  <2>2. n <= 0 + Gain(iou, who, CollectionAccountId, n) /\ n \in Int /\ 0 \in Int
    BY <2>1
  <2>3. "credited" \in P => iou # ShareAssetId \/ CollectionAccountId = CollectionAccountId
    OBVIOUS
  <2> QED BY <1>1, <1>2, <2>2, <2>3, SoundTransfer
<1>7. (\A b \in AssetId : OutsideOf(s, b) \in Nat) /\ (\A b \in AssetId : OutsideOf(sent, b) \in Nat)
  BY <1>1, <1>3, <1>4, OutsideIsNat
<1>8. PICK o \in Nat, i \in Nat : o = OutsideOf(s, iou) /\ i = OutsideOf(sent, iou) /\ i + n = o
  <2>1. OutsideOf(sent, iou) + n = OutsideOf(s, iou) + 0
    BY <1>2, <1>3
  <2>2. PICK o \in Nat, i \in Nat : o = OutsideOf(s, iou) /\ i = OutsideOf(sent, iou)
    BY <1>2, <1>7
  <2> QED BY <2>1, <2>2
<1>9. \A b \in AssetId \ {iou} : OutsideOf(sent, b) = OutsideOf(s, b)
  <2>1. TAKE b \in AssetId \ {iou}
  <2>2. OutsideOf(sent, b) + 0 = OutsideOf(s, b) + 0
    BY <1>3
  <2> QED BY <1>7, <2>2
<1>10. PICK e \in Nat : e = Exchange[IOUAssetPhaseId[iou]] /\ OwedFor(s)[iou] = e * o /\ e * o <= Owed(s) /\ Owed(s) \in Nat
  BY <1>1, <1>8, OwedForFacts
<1>11. PICK r \in Nat : r = n * e /\ r = SharesFor(n, IOUAssetPhaseId[iou])
  BY <1>10, ProductIsNat DEF SharesFor
<1>12. r <= Owed(s)
  <2>1. e * o = e * i + n * e
    BY <1>8
  <2>2. e * i \in Nat
    BY ProductIsNat
  <2> QED BY <1>10, <1>11, <2>1, <2>2
<1>13. Due(sent) = Due(s) - r
  <2>1. PICK m \in Int : m = 0 - n
    OBVIOUS
  <2>2. OutsideOf(sent, iou) = OutsideOf(s, iou) + m
    BY <1>8, <2>1
  <2>3. Due(sent) = Due(s) + Exchange[IOUAssetPhaseId[iou]] * m
    BY <1>1, <1>3, <1>4, <1>9, <2>2, DueByIOU
  <2>4. e * m = 0 - r
    BY <1>11, <2>1
  <2>5. PICK d \in Int : d = Due(s)
    BY <1>1, DueIsInt
  <2> QED BY <1>10, <2>3, <2>4, <2>5
<1> QED BY <1>3, <1>4, <1>5, <1>6, <1>11, <1>12, <1>13

\* What check_can_redeem allows before the transfer of the IOUs can be redeemed after it.
LEMMA SentIsRedeemable ==
    ASSUME RatesFit, NEW P, Stand(P), "whole" \in P, NEW v, NEW s, Ready(P, v, s), NEW iou \in IOUs, NEW n \in Nat,
           NEW who \in AccountId, who # CollectionAccountId, check_can_redeem(s, iou, who, n),
           NEW sent, sent = make_transfer(s, iou, who, CollectionAccountId, n), sent.ok
    PROVE  Redeemable(sent, iou, who, n) /\ Enough(sent, iou, n, Owed(s))
<1>1. /\ v \in [PhaseId -> Nat] /\ s \in Sound(P, v, 0)
      /\ Setting /\ Orderly /\ s \in StorageType /\ Conserved(s) /\ Issued(s, v)
      /\ s.issuance[ShareAssetId] + UnreleasedIn(s.list) = Owed(s) /\ Owed(s) \in Nat
      /\ NumOfPhases * (Owed(s) + 1) <= MaxBalance /\ Owed(s) + NumOfPhases <= MaxBalance
  BY ReadyFacts
<1>2. /\ iou \in AssetId /\ CollectionAccountId \in AccountId
      /\ ShareAssetId \in AssetId /\ IOUAssetPhaseId[iou] \in PhaseId /\ PhaseIOU[IOUAssetPhaseId[iou]] = iou
  BY <1>1, StandFacts, PhaseOfIOU
<1>3. /\ sent.list = s.list /\ LedgerCall(s, sent) /\ sent.issuance = s.issuance
      /\ sent.free[ShareAssetId][who] = s.free[ShareAssetId][who] /\ n <= s.free[iou][who]
      /\ SharesFor(n, IOUAssetPhaseId[iou]) <= Owed(s)
  BY SentFacts
<1>4. sent.left = s.left /\ sent.phase = s.phase /\ sent.collected = s.collected
  BY <1>3 DEF LedgerCall, SameBooks
<1>5. Enough(sent, iou, n, Owed(s))
  BY <1>1, <1>3 DEF Enough
<1>6. IOUAssetPhaseId[iou] <= s.phase \/ n = 0
  <2>1. PICK p \in PhaseId : p = IOUAssetPhaseId[iou] /\ p \in Nat /\ s.phase \in Nat
    BY <1>1, <1>2, PhaseNumbers
  <2>2. s.issuance[iou] <= v[p] /\ v[p] \in Nat
    BY <1>1, <1>2, <2>1 DEF Issued
  <2>3. s.free[iou][who] \in Nat /\ s.free[iou][who] <= s.issuance[iou] /\ s.issuance[iou] \in Nat
    BY <1>1, <1>2, ConservedFacts DEF Setting
  <2>4. p > s.phase => v[p] = 0
    BY DEF Ready
  <2> QED BY <1>3, <2>1, <2>2, <2>3, <2>4
<1>7. check_can_redeem(sent, iou, who, n)
  BY <1>3, <1>4 DEF check_can_redeem
<1>8. s.free[ShareAssetId][who] + HeldBack(s, iou, who) <= MaxBalance
  <2>1. s.free[ShareAssetId][who] \in Nat /\ s.free[ShareAssetId][who] <= s.issuance[ShareAssetId]
        /\ s.issuance[ShareAssetId] \in Nat
    BY <1>1, <1>2, ConservedFacts DEF Setting
  <2>2. PICK l \in Seq(ReleasePack) : l = Get(s.list, who, <<>>) /\ ListSum(l) <= UnreleasedIn(s.list)
                                      /\ ListSum(l) \in Nat /\ UnreleasedIn(s.list) \in Nat
    <3>1. s.list \in Maps(Seq(ReleasePack))
      BY <1>1, DueIsInt
    <3>2. /\ UnreleasedIn(s.list) \in Nat /\ ListSums(s.list)[who] \in Nat /\ ListSums(s.list)[who] <= UnreleasedIn(s.list)
          /\ ListSums(s.list)[who] = ListSum(Get(s.list, who, <<>>)) /\ Get(s.list, who, <<>>) \in Seq(ReleasePack)
      BY <3>1, UnreleasedIs
    <3> QED BY <3>2
  <2>3. NumOfPhases \in Nat /\ MaxBalance \in Nat
    BY SavingAssumption, MaxBalanceAssumption
  <2>4. ListSum(l) <= MaxBalance
    BY <1>1, <2>1, <2>2, <2>3
  <2>5. PICK R \in SUBSET DOMAIN l : R = Same(l, IOUAssetPhaseId[iou], ShareAssetId)
    BY DEF Same
  <2>6. HeldBack(s, iou, who) = TotalAt(l, R)
    BY <2>2, <2>5 DEF HeldBack, AggregatedTotal
  <2>7. TotalAt(l, R) \in Nat /\ TotalAt(l, R) <= ListSum(l)
    BY <2>4, TotalIsExact
  <2>8. PICK h \in Nat, f \in Nat, y \in Nat, u \in Nat, i \in Nat, w \in Nat :
            /\ h = HeldBack(s, iou, who) /\ f = s.free[ShareAssetId][who] /\ y = ListSum(l)
            /\ u = UnreleasedIn(s.list) /\ i = s.issuance[ShareAssetId] /\ w = Owed(s)
    BY <1>1, <2>1, <2>2, <2>6, <2>7
  <2>9. h <= y /\ y <= u /\ f <= i /\ i + u = w /\ w + NumOfPhases <= MaxBalance
    BY <1>1, <2>1, <2>2, <2>6, <2>7, <2>8
  <2>10. f + h <= MaxBalance
    BY <2>3, <2>9
  <2> QED BY <2>8, <2>10
<1>9. Redeemable(sent, iou, who, n)
  BY <1>3, <1>4, <1>6, <1>7, <1>8 DEF Redeemable, HeldBack
<1> QED BY <1>5, <1>9

\* The shares taken by make_redeem are the ones that the IOUs sent were worth.
LEMMA SentReckons ==
    ASSUME RatesFit, NEW P, Stand(P), "whole" \in P, NEW v, NEW s, Ready(P, v, s), NEW iou \in IOUs, NEW n \in Nat,
           NEW who \in AccountId, who # CollectionAccountId, check_can_redeem(s, iou, who, n),
           NEW sent, sent = make_transfer(s, iou, who, CollectionAccountId, n), sent.ok,
           NEW t, t = make_redeem(sent, iou, who, n), t.ok
    PROVE  Due(t) = 0 /\ AllFitIn(t.list) /\ t \in StorageType /\ Conserved(t)
<1>1. v \in [PhaseId -> Nat] /\ AllFitIn(s.list) /\ Due(s) = 0
  BY ReadyFacts
<1>2. Redeemable(sent, iou, who, n) /\ Enough(sent, iou, n, Owed(s))
  BY SentIsRedeemable
<1>3. sent \in Sound(P, v, n) /\ sent.list = s.list
  BY SentFacts
<1>4. PICK r \in Nat : r = SharesFor(n, IOUAssetPhaseId[iou]) /\ Due(sent) = Due(s) - r
  BY SentFacts
<1>5. AllFitIn(sent.list)
  BY <1>1, <1>3
<1>6. PICK w : w = Owed(s)
  OBVIOUS
<1>7. /\ Due(t) = Due(sent) + SharesFor(n, IOUAssetPhaseId[iou]) /\ AllFitIn(t.list)
      /\ t \in StorageType /\ Conserved(t)
  BY <1>1, <1>2, <1>3, <1>5, <1>6, MakeRedeemReckons
<1>8. Due(t) = (0 - r) + r
  BY <1>1, <1>4, <1>7
<1> QED BY <1>4, <1>7, <1>8

\* redeem and sudo_redeem, after the reserve.
LEMMA RedeemIOUReckons ==
    ASSUME RatesFit, NEW P, Stand(P), "whole" \in P, NEW v, NEW s, Ready(P, v, s), NEW iou \in IOUs, NEW n \in Nat,
           NEW who \in AccountId, who # CollectionAccountId, check_can_redeem(s, iou, who, n),
           NEW t, t = RedeemIOU(s, iou, who, n)
    PROVE  Reckons(t)
<1>1. PICK sent, redeemed, back : /\ sent = make_transfer(s, iou, who, CollectionAccountId, n)
                                  /\ redeemed = make_redeem(sent, iou, who, n)
                                  /\ back = make_transfer([redeemed EXCEPT !.ok = TRUE], iou, CollectionAccountId, who, n)
  OBVIOUS
<1>2. t = IF ~sent.ok THEN sent
          ELSE IF redeemed.ok THEN burn(redeemed, iou, CollectionAccountId, n) ELSE Fail(back)
  BY <1>1 DEF RedeemIOU
<1>3. SUFFICES ASSUME t.ok PROVE Due(t) = 0 /\ AllFitIn(t.list)
  BY DEF Reckons
<1>4. sent.ok
  BY <1>2, <1>3
<1>5. redeemed.ok
  <2>1. ~Fail(back).ok
    BY DEF Fail
  <2> QED BY <1>2, <1>3, <1>4, <2>1
<1>6. Due(redeemed) = 0 /\ AllFitIn(redeemed.list) /\ redeemed \in StorageType /\ Conserved(redeemed)
  BY <1>1, <1>4, <1>5, SentReckons
<1>7. t = burn(redeemed, iou, CollectionAccountId, n)
  BY <1>2, <1>4, <1>5
<1>8. Setting /\ Orderly /\ iou \in AssetId /\ CollectionAccountId \in AccountId /\ iou # ShareAssetId /\ IOUs \subseteq AssetId
  BY ReadyFacts, StandFacts, OrderlyFacts
<1>9. /\ LedgerCall(redeemed, t) /\ Shifted(redeemed, t, iou, CollectionAccountId, n, 0) /\ Conserved(t)
      /\ \A b \in AssetId : OutsideOf(redeemed, b)
             = OutsideOf(t, b) + (IF b = iou /\ CollectionAccountId # CollectionAccountId THEN n ELSE 0)
  BY <1>3, <1>6, <1>7, <1>8, BurnKeeps
<1>10. t \in StorageType /\ t.list = redeemed.list
  BY <1>9 DEF LedgerCall, SameBooks
<1>11. \A b \in IOUs : OutsideOf(t, b) = OutsideOf(redeemed, b)
  <2>1. TAKE b \in IOUs
  <2>2. OutsideOf(redeemed, b) = OutsideOf(t, b) + 0 /\ OutsideOf(t, b) \in Nat
    BY <1>8, <1>9, <1>10, OutsideIsNat
  <2> QED BY <2>2
<1>12. t.issuance[ShareAssetId] + 0 = redeemed.issuance[ShareAssetId]
  <2>1. ShareAssetId \in AssetId /\ redeemed.issuance[ShareAssetId] \in Nat
    BY <1>6, <1>8, DueIsInt
  <2>2. t.issuance[ShareAssetId] \in Nat
    BY <1>8, <1>9, <1>10, DueIsInt
  <2> QED BY <1>8, <1>9, <2>1, <2>2 DEF Shifted
<1>13. Burnt(redeemed, t, 0)
  BY <1>5, <1>9, <1>10, <1>11, <1>12 DEF Burnt
<1>14. 0 \in Nat
  OBVIOUS
<1>15. Due(t) = Due(redeemed) + 0
  BY <1>6, <1>8, <1>13, <1>14, BurntReckons
<1> QED BY <1>6, <1>10, <1>15

-----------------------------------------------------------------------------
\* The actions.

\* What is left due by a call that moves neither IOUs nor shares.
LEMMA ThenReckons ==
    ASSUME Setting, Orderly, NEW s \in StorageType, Conserved(s), Reckons(s), NEW t, Burnt(s, t, 0)
    PROVE  Reckons(t) /\ Due(t) = 0 /\ AllFitIn(t.list) /\ t \in StorageType /\ Conserved(t) /\ s.ok
<1>1. s.ok /\ t \in StorageType /\ Conserved(t) /\ t.list = s.list
  BY DEF Burnt
<1>2. 0 \in Nat
  OBVIOUS
<1>3. Due(t) = Due(s) + 0
  BY <1>2, BurntReckons
<1>4. Due(s) = 0 /\ AllFitIn(s.list)
  BY <1>1 DEF Reckons
<1> QED BY <1>1, <1>3, <1>4 DEF Reckons

\* A transfer that does not involve the collection account is such a call.
LEMMA InnerTransfer ==
    ASSUME Setting, Orderly, NEW s \in StorageType, Conserved(s), NEW a \in AssetId, NEW from \in AccountId,
           NEW to \in AccountId, CollectionAccountId \notin {from, to}, NEW n \in Nat,
           NEW t, t = make_transfer(s, a, from, to, n), t.ok
    PROVE  Burnt(s, t, 0)
<1>1. /\ LedgerCall(s, t) /\ t.issuance = s.issuance /\ Conserved(t)
      /\ \A b \in AssetId :
             OutsideOf(t, b) + (IF b = a /\ from # CollectionAccountId THEN n ELSE 0)
                 = OutsideOf(s, b) + (IF b = a /\ to # CollectionAccountId THEN n ELSE 0)
  BY TransferKeeps
<1>2. t \in StorageType /\ s.ok /\ t.list = s.list /\ IOUs \subseteq AssetId
  BY <1>1, OrderlyFacts DEF LedgerCall, SameBooks
<1>3. (\A b \in AssetId : OutsideOf(s, b) \in Nat) /\ s.issuance[ShareAssetId] \in Nat
  BY OutsideIsNat, DueIsInt
<1>4. \A b \in AssetId : OutsideOf(t, b) \in Nat
  BY <1>1, <1>2, OutsideIsNat
<1>5. \A b \in IOUs : OutsideOf(t, b) = OutsideOf(s, b)
  <2>1. TAKE b \in IOUs
  <2>2. b \in AssetId
    BY <1>2
  <2>3. PICK k \in Nat : k = (IF b = a THEN n ELSE 0)
    OBVIOUS
  <2>4. OutsideOf(t, b) + k = OutsideOf(s, b) + k
    BY <1>1, <2>2, <2>3
  <2> QED BY <1>3, <1>4, <2>2, <2>4
<1> QED BY <1>1, <1>2, <1>3, <1>5 DEF Burnt

\* on_asset_transfer.
LEMMA OnTransferReckons ==
    ASSUME RatesFit, NEW P, Stand(P), "whole" \in P, NEW v, NEW s, Ready(P, v, s), v = Filled(s.phase, s.quota),
           NEW a \in AssetId, NEW from \in AccountId, NEW to \in AccountId, NEW n \in Nat, from # CollectionAccountId,
           ~(s.paused /\ a \in {ShareAssetId} \cup IOUs),
           ~s.paused /\ a \in IOUs /\ to = CollectionAccountId => check_can_redeem(s, a, from, n),
           NEW moved, moved = make_transfer(s, a, from, to, n), moved.ok,
           NEW t, t = on_asset_transfer(moved, a, from, to, n)
    PROVE  Reckons(t)
<1>1. /\ s \in Sound(P, v, 0) /\ Setting /\ Orderly /\ s \in StorageType /\ Conserved(s) /\ Reckons(s)
  BY ReadyFacts DEF Reckons
<1>2. /\ CollectionAccountId \in AccountId /\ CollectionAssetId \in AssetId /\ ShareAssetId \in AssetId
      /\ ShareAssetId \notin IOUs /\ CollectionAssetId \notin IOUs /\ CollectionAssetId # ShareAssetId
  BY <1>1, StandFacts, OrderlyFacts
<1>3. /\ LedgerCall(s, moved) /\ moved.paused = s.paused /\ moved \in StorageType
      /\ moved.phase = s.phase /\ moved.quota = s.quota
  <2>1. LedgerCall(s, moved) /\ moved.paused = s.paused
    BY <1>1, TransferKeeps
  <2> QED BY <2>1 DEF LedgerCall, SameBooks
<1>4. a \notin IOUs \/ to # CollectionAccountId => /\ Reckons(moved) /\ Due(moved) = 0 /\ AllFitIn(moved.list)
                                                   /\ Conserved(moved)
  <2>1. SUFFICES ASSUME a \notin IOUs \/ to # CollectionAccountId PROVE Burnt(s, moved, 0)
    BY <1>1, ThenReckons
  <2>2. CASE a \notin IOUs
    BY <1>1, <2>2, OtherTransfer
  <2>3. CASE to # CollectionAccountId
    BY <1>1, <2>3, InnerTransfer
  <2> QED BY <2>1, <2>2, <2>3
<1>5. CASE moved.paused \/ from = to
  <2>1. t = moved
    BY <1>5 DEF on_asset_transfer
  <2>2. a \notin IOUs \/ to # CollectionAccountId
    BY <1>3, <1>5
  <2> QED BY <1>4, <2>1, <2>2
<1>6. CASE ~(moved.paused \/ from = to) /\ a = ShareAssetId
  <2>1. t = track_share_asset_movement(moved, from, to, n)
    BY <1>6 DEF on_asset_transfer
  <2>2. Tracked(moved, t)
    BY <1>3, <1>6, <2>1, TransferHook
  <2>3. t.issuance = moved.issuance /\ t.free = moved.free /\ t.list = moved.list
    BY <2>2 DEF Tracked, SameBut
  <2>4. Due(t) = Due(moved)
    BY <2>3, DueOfSame
  <2> QED BY <1>2, <1>4, <1>6, <2>3, <2>4 DEF Reckons
<1>7. CASE ~(moved.paused \/ from = to) /\ a # ShareAssetId /\ to = CollectionAccountId /\ a = CollectionAssetId
  <2>1. PICK r : r = create_staking(moved, from, n)
    OBVIOUS
  <2>2. t = r.s
    BY <1>7, <2>1 DEF on_asset_transfer
  <2>3. Gain(a, from, to, n) = n
    BY <1>7 DEF Gain
  <2>4. n <= 0 + Gain(a, from, to, n) /\ n \in Int /\ 0 \in Int
    BY <2>3
  <2>5. "credited" \in P => a # ShareAssetId \/ to = CollectionAccountId
    BY <1>7
  <2>6. moved \in Sound(P, v, n)
    BY <1>1, <2>4, <2>5, SoundTransfer
  <2>7. moved \in Sound(P, Filled(moved.phase, moved.quota), n)
    BY <1>3, <2>6
  <2>8. Reckons(moved)
    BY <1>2, <1>4, <1>7
  <2>9. Reckons(r.s)
    BY <1>3, <2>1, <2>4, <2>7, <2>8, CreateReckons
  <2> QED BY <2>2, <2>9
<1>8. CASE ~(moved.paused \/ from = to) /\ to = CollectionAccountId /\ a \in IOUs
  <2>1. t = make_redeem(moved, a, from, n)
    BY <1>2, <1>8 DEF on_asset_transfer, IOUs
  <2>2. check_can_redeem(s, a, from, n) /\ moved = make_transfer(s, a, from, CollectionAccountId, n)
    BY <1>3, <1>8
  <2>3. t.ok => Due(t) = 0 /\ AllFitIn(t.list)
    BY <1>8, <2>1, <2>2, SentReckons
  <2> QED BY <2>3 DEF Reckons
<1>9. CASE ~(moved.paused \/ from = to) /\ a # ShareAssetId /\ (to # CollectionAccountId \/ a \notin IOUs \cup {CollectionAssetId})
  <2>1. t = moved
    BY <1>9 DEF on_asset_transfer, IOUs
  <2> QED BY <1>4, <1>9, <2>1
<1> QED BY <1>5, <1>6, <1>7, <1>8, <1>9

-----------------------------------------------------------------------------
\* The invariant.

\* Nothing has happened that excuses shares without IOUs, or IOUs without shares.
Calm(u) == u \cap {"partial", "root", "untracked"} = {}

\* With it, the terms of every pack can be split without a rest.
SharesInv == Calm(upset) => Due(Storage) = 0 /\ AllFitIn(Storage.list)

\* The storage that a step leaves, by the rules that it finds.
LEMMA DueFrame ==
    ASSUME config' = config, IOUAssetPhaseId' = IOUAssetPhaseId, NEW t, t = Storage'
    PROVE  Due(Storage)' = Due(t)
  BY DEF Due, Owed, OwedFor, OutsideOf, IOUs, ShareAssetId, CollectionAccountId

\* A step that leaves the issuance, the IOUs and the packs.
LEMMA DueStays ==
    ASSUME SavingInv, SharesInv, config' = config, IOUAssetPhaseId' = IOUAssetPhaseId, upset' = upset,
           TotalIssuance' = TotalIssuance, ShareUnreleasedList' = ShareUnreleasedList,
           Calm(upset) => \A a \in IOUs : FreeBalance'[a] = FreeBalance[a]
    PROVE  SharesInv'
<1>1. SUFFICES ASSUME Calm(upset) PROVE Due(Storage)' = 0 /\ AllFitIn(Storage.list)'
  BY DEF SharesInv, Calm
<1>2. PICK s, t : s = Storage /\ t = Storage'
  OBVIOUS
<1>3. t.issuance = s.issuance /\ t.list = s.list /\ \A a \in IOUs : t.free[a] = s.free[a]
  BY <1>1, <1>2 DEF Storage
<1>4. \A a \in IOUs : OutsideOf(t, a) = OutsideOf(s, a)
  BY <1>3 DEF OutsideOf
<1>5. Due(t) = Due(s)
  BY <1>3, <1>4 DEF Due, Owed, OwedFor
<1>6. Due(s) = 0 /\ AllFitIn(s.list)
  BY <1>1, <1>2 DEF SharesInv
<1>7. Due(Storage)' = Due(t)
  BY <1>2, DueFrame
<1>8. AllFitIn(Storage.list)' <=> AllFitIn(t.list)
  BY <1>2
<1> QED BY <1>3, <1>5, <1>6, <1>7, <1>8

\* A call that leaves books that reckon.
LEMMA PerformedReckons ==
    ASSUME SharesInv, NEW s, NEW more, Performed(s, more), Calm(upset') => Reckons(s)
    PROVE  SharesInv'
<1>1. SUFFICES ASSUME Calm(upset') PROVE Due(Storage)' = 0 /\ AllFitIn(Storage.list)'
  BY DEF SharesInv, Calm
<1>2. /\ Calm(upset) /\ (s.ok \/ Storage = [s EXCEPT !.ok = TRUE])
      /\ TotalIssuance' = s.issuance /\ FreeBalance' = s.free /\ ShareUnreleasedList' = s.list
      /\ config' = config /\ IOUAssetPhaseId' = IOUAssetPhaseId
  BY <1>1 DEF Performed, Commit, Calm, rootVars
<1>3. PICK t : t = Storage'
  OBVIOUS
<1>4. t.issuance = s.issuance /\ t.free = s.free /\ t.list = s.list
  BY <1>2, <1>3 DEF Storage
<1>5. Due(t) = Due(s)
  BY <1>4, DueOfSame
<1>6. Due(s) = 0 /\ AllFitIn(s.list)
  <2>1. CASE s.ok
    BY <1>1, <2>1 DEF Reckons
  <2>2. CASE Storage = [s EXCEPT !.ok = TRUE]
    <3>1. DOMAIN Storage = DOMAIN s /\ \A i \in DOMAIN s : i # "ok" => Storage[i] = s[i]
      BY <2>2
    <3>2. {"issuance", "free", "list"} \subseteq DOMAIN Storage
      BY DEF Storage
    <3>3. Storage.issuance = s.issuance /\ Storage.free = s.free /\ Storage.list = s.list
      BY <3>1, <3>2
    <3>4. Due(s) = Due(Storage)
      <4>1. PICK q : q = Storage
        OBVIOUS
      <4> QED BY <3>3, <4>1, DueOfSame
    <3> QED BY <1>2, <3>3, <3>4 DEF SharesInv
  <2> QED BY <1>2, <2>1, <2>2
<1>7. Due(Storage)' = Due(t)
  BY <1>2, <1>3, DueFrame
<1>8. AllFitIn(Storage.list)' <=> AllFitIn(t.list)
  BY <1>3
<1> QED BY <1>4, <1>5, <1>6, <1>7, <1>8

\* What a call begins with.
LEMMA CalmFacts ==
    ASSUME RatesFit, SavingInv, SharesInv, Calm(upset), NEW P, P = Standing(upset), NEW s, s = Storage,
           NEW v, v = Filled(s.phase, s.quota)
    PROVE  /\ Stand(P) /\ "whole" \in P /\ Ready(P, v, s) /\ Setting /\ Orderly /\ s \in StorageType
           /\ s.free = FreeBalance /\ s.paused = Paused
<1>1. "whole" \in P
  BY DEF Standing, Promises, Calm
<1>2. s \in Sound(P, v, 0) /\ Stand(P) /\ v \in [PhaseId -> Nat] /\ s \in StorageType
  <2>1. P = Standing(upset \cup {})
    OBVIOUS
  <2>2. /\ Storage \in Sound(P, Filled(Storage.phase, Storage.quota), 0) /\ Stand(P)
        /\ Storage \in StorageType /\ Filled(Storage.phase, Storage.quota) \in [PhaseId -> Nat]
    BY <2>1, SoundStart
  <2> QED BY <2>2
<1>3. Setting /\ Orderly
  BY <1>1, <1>2, StandFacts
<1>4. s.ok /\ Due(s) = 0 /\ AllFitIn(s.list) /\ s.free = FreeBalance /\ s.paused = Paused
  BY StorageIs DEF SharesInv
<1>5. \A p \in PhaseId : v[p] <= Quota[p]
  <2>1. s.phase \in PhaseId /\ s.quota \in Nat
    BY <1>2, PhaseNumbers
  <2>2. s.quota <= Quota[s.phase]
    BY <1>2, SoundFacts DEF InStep
  <2> QED BY <2>1, <2>2, FilledFits
<1>6. \A p \in PhaseId : p > s.phase => v[p] = 0
  BY DEF Filled
<1> QED BY <1>1, <1>2, <1>3, <1>4, <1>5, <1>6 DEF Ready

\* Saving.
LEMMA StakingReckons ==
    ASSUME RatesFit, SavingInv, SharesInv, NEW who \in Client, NEW amount \in StakeAmount, staking(who, amount)
    PROVE  SharesInv'
<1>1. PICK r : r = create_staking(Storage, who, amount)
  OBVIOUS
<1>2. PICK taken, m : taken = r.taken /\ m = sbtc_to_reserved_mint(r.taken)
  OBVIOUS
<1>3. PICK paid : paid = make_transfer(r.s, CollectionAssetId, who, CollectionAccountId, taken)
  OBVIOUS
<1>4. PICK t : t = mint(paid, ReservedMintAssetId, ReservedMintWallet, m)
  OBVIOUS
<1>5. Performed(t, {})
  BY <1>1, <1>2, <1>3, <1>4 DEF staking
<1>6. Calm(upset') => Reckons(t)
  <2>1. SUFFICES ASSUME Calm(upset), t.ok PROVE Reckons(t)
    BY <1>5 DEF Performed, Calm, Reckons
  <2>2. PICK P, s, v : P = Standing(upset) /\ s = Storage /\ v = Filled(s.phase, s.quota)
    OBVIOUS
  <2>3. Stand(P) /\ "whole" \in P /\ Ready(P, v, s) /\ Setting /\ Orderly /\ s \in StorageType
    BY <2>1, <2>2, CalmFacts
  <2>4. /\ who \in AccountId /\ amount \in Nat /\ ReservedMintWallet \in AccountId /\ ReservedMintAssetId \in AssetId
        /\ who # CollectionAccountId /\ CollectionAccountId \in AccountId /\ CollectionAssetId \in AssetId
        /\ CollectionAssetId \notin IOUs /\ ReservedMintAssetId \notin IOUs /\ ReservedMintAssetId # ShareAssetId
    BY <2>3, CallFacts, OrderlyFacts, StandFacts
  <2>5. s \in Sound(P, Filled(s.phase, s.quota), 0) /\ Reckons(s) /\ 0 \in Int
    BY <2>2, <2>3, ReadyFacts DEF Reckons
  <2>6. r \in Stakes(P, 0, amount) /\ Reckons(r.s)
    <3>1. r = create_staking(s, who, amount)
      BY <1>1, <2>2
    <3> QED BY <2>3, <2>4, <2>5, <3>1, CreateReckons
  <2>7. paid.ok
    <3>1. ~paid.ok => ~t.ok
      BY <1>4 DEF mint, Fail
    <3> QED BY <2>1, <3>1
  <2>8. r.s.ok
    <3>1. ~r.s.ok => ~paid.ok
      BY <1>3 DEF make_transfer, Fail
    <3> QED BY <2>7, <3>1
  <2>9. taken \in Nat /\ r.s \in StorageType /\ Conserved(r.s)
    <3>1. taken \in Nat /\ r.s \in StorageType /\ r.s \notin Broken
      BY <1>2, <2>6, <2>8 DEF Stakes, Broken
    <3>2. PICK w, x : r.s \in Sound(P, w, x)
      BY <2>6, <3>1 DEF Stakes
    <3> QED BY <3>1, <3>2, SoundFacts
  <2>10. m \in Nat
    BY <1>2, <2>3, <2>9, ReserveIsNat
  <2>11. Burnt(r.s, paid, 0)
    BY <1>3, <2>3, <2>4, <2>7, <2>9, OtherTransfer
  <2>12. Reckons(paid) /\ paid \in StorageType /\ Conserved(paid)
    BY <2>3, <2>6, <2>9, <2>11, ThenReckons
  <2>13. Burnt(paid, t, 0)
    BY <1>4, <2>1, <2>3, <2>4, <2>10, <2>12, OtherMint
  <2> QED BY <2>3, <2>12, <2>13, ThenReckons
<1> QED BY <1>5, <1>6, PerformedReckons

\* The reserve that redeem burns is none of its shares and IOUs.
LEMMA AfterReserve ==
    ASSUME RatesFit, NEW P, Stand(P), "whole" \in P, NEW v, NEW s, Ready(P, v, s), NEW iou \in IOUs, NEW n \in Nat,
           NEW m \in Nat, NEW who \in AccountId, check_can_redeem(s, iou, who, n),
           NEW b, b = burn(s, ReservedMintAssetId, ReservedMintWallet, m), b.ok
    PROVE  Ready(P, v, b) /\ check_can_redeem(b, iou, who, n)
<1>1. /\ v \in [PhaseId -> Nat] /\ s \in Sound(P, v, 0) /\ Setting /\ Orderly /\ s \in StorageType /\ Conserved(s)
      /\ Reckons(s)
  BY ReadyFacts DEF Reckons
<1>2. /\ ReservedMintWallet \in AccountId /\ ReservedMintAssetId \in AssetId
      /\ ReservedMintAssetId \notin IOUs \cup {ShareAssetId} /\ ReservedMintWallet # CollectionAccountId
      /\ ShareAssetId \in AssetId
  BY <1>1, CallFacts, OrderlyFacts, StandFacts
<1>3. b \in Sound(P, v, 0) /\ LedgerCall(s, b)
  BY <1>1, <1>2, SoundBurn
<1>4. /\ Shifted(s, b, ReservedMintAssetId, ReservedMintWallet, m, 0) /\ Conserved(b)
  BY <1>1, <1>2, BurnKeeps
<1>5. Burnt(s, b, 0)
  <2>1. Burnt(s, b, IF ReservedMintAssetId = ShareAssetId THEN m ELSE 0)
    BY <1>1, <1>2, OtherBurn
  <2> QED BY <1>2, <2>1
<1>6. Due(b) = 0 /\ AllFitIn(b.list) /\ b \in StorageType
  BY <1>1, <1>5, ThenReckons
<1>7. b.list = s.list /\ b.left = s.left /\ b.phase = s.phase /\ b.collected = s.collected
  BY <1>3 DEF LedgerCall, SameBooks
<1>8. b.free[ShareAssetId][who] = s.free[ShareAssetId][who]
  <2>1. b.free[ShareAssetId][who] + 0 = s.free[ShareAssetId][who] + 0
    BY <1>2, <1>4 DEF Shifted
  <2>2. b.free[ShareAssetId][who] \in Nat /\ s.free[ShareAssetId][who] \in Nat
    BY <1>1, <1>2, <1>4, <1>6, ConservedFacts DEF Setting
  <2> QED BY <2>1, <2>2
<1>9. check_can_redeem(b, iou, who, n)
  BY <1>7, <1>8 DEF check_can_redeem
<1>10. (\A p \in PhaseId : v[p] <= Quota[p]) /\ (\A p \in PhaseId : p > b.phase => v[p] = 0)
  BY <1>7 DEF Ready
<1>11. Ready(P, v, b)
  BY <1>1, <1>3, <1>6, <1>10 DEF Ready
<1> QED BY <1>9, <1>11

\* redeem and sudo_redeem.
LEMMA RedeemingReckons ==
    ASSUME RatesFit, SavingInv, SharesInv, NEW who \in Client, NEW iou \in IOUs, NEW n \in RedeemAmount,
           redeem(who, iou, n) \/ sudo_redeem(who, iou, n)
    PROVE  SharesInv'
<1>1. PICK m, b : m = sbtc_to_reserved_mint(n) /\ b = burn(Storage, ReservedMintAssetId, ReservedMintWallet, m)
  OBVIOUS
<1>2. PICK P, s, v : P = Standing(upset) /\ s = Storage /\ v = Filled(s.phase, s.quota)
  OBVIOUS
<1>3. check_can_redeem(s, iou, who, n)
  BY <1>2 DEF redeem, sudo_redeem
<1>4. who \in AccountId /\ n \in Nat
  BY CallFacts
<1>5. ASSUME Calm(upset) PROVE /\ Stand(P) /\ "whole" \in P /\ Ready(P, v, s) /\ who # CollectionAccountId /\ m \in Nat
  <2>1. Stand(P) /\ "whole" \in P /\ Ready(P, v, s) /\ Setting /\ Orderly
    BY <1>2, <1>5, CalmFacts
  <2> QED BY <1>1, <1>4, <2>1, OrderlyFacts, ReserveIsNat
<1>6. CASE redeem(who, iou, n)
  <2>1. PICK t : t = RedeemIOU(b, iou, who, n)
    OBVIOUS
  <2>2. b.ok /\ Performed(t, {})
    BY <1>1, <1>6, <2>1 DEF redeem
  <2>3. Calm(upset') => Reckons(t)
    <3>1. SUFFICES ASSUME Calm(upset) PROVE Reckons(t)
      BY <2>2 DEF Performed, Calm
    <3>2. Stand(P) /\ "whole" \in P /\ Ready(P, v, s) /\ who # CollectionAccountId /\ m \in Nat
      BY <1>5, <3>1
    <3>3. b = burn(s, ReservedMintAssetId, ReservedMintWallet, m)
      BY <1>1, <1>2
    <3>4. Ready(P, v, b) /\ check_can_redeem(b, iou, who, n)
      BY <1>3, <1>4, <2>2, <3>2, <3>3, AfterReserve
    <3> QED BY <1>4, <2>1, <3>2, <3>4, RedeemIOUReckons
  <2> QED BY <2>2, <2>3, PerformedReckons
<1>7. CASE sudo_redeem(who, iou, n)
  <2>1. PICK t : t = RedeemIOU(s, iou, who, n)
    OBVIOUS
  <2>2. Performed(t, {})
    BY <1>2, <1>7, <2>1 DEF sudo_redeem
  <2>3. Calm(upset') => Reckons(t)
    <3>1. SUFFICES ASSUME Calm(upset) PROVE Reckons(t)
      BY <2>2 DEF Performed, Calm
    <3>2. Stand(P) /\ "whole" \in P /\ Ready(P, v, s) /\ who # CollectionAccountId
      BY <1>5, <3>1
    <3> QED BY <1>3, <1>4, <2>1, <3>2, RedeemIOUReckons
  <2> QED BY <2>2, <2>3, PerformedReckons
<1> QED BY <1>6, <1>7

\* transfer.
LEMMA TransferReckons ==
    ASSUME RatesFit, SavingInv, SharesInv, NEW p \in Trade, NEW k \in Movement, transfer(k[1], p[1], p[2], k[2])
    PROVE  SharesInv'
<1>1. PICK a, from, to, n : a = k[1] /\ from = p[1] /\ to = p[2] /\ n = k[2]
  OBVIOUS
<1>2. from \in AccountId /\ to \in AccountId /\ a \in AssetId /\ n \in Nat
  <2>1. from \in AccountId /\ to \in AccountId
    BY <1>1, CallFacts
  <2>2. /\ k[1] \in {CollectionAssetId, ShareAssetId} \cup DOMAIN IOUAssetPhaseId
        /\ k[2] \in StakeAmount \cup ShareAmount \cup RedeemAmount
    BY DEF Movement
  <2>3. CollectionAssetId \in AssetId /\ ShareAssetId \in AssetId
    BY DEF SavingInv, Rules, Setting, ConfigOK
  <2>4. DOMAIN IOUAssetPhaseId \subseteq AssetId
    BY DEF SavingInv, Rules, Setting
  <2> QED BY <1>1, <2>1, <2>2, <2>3, <2>4, CallFacts
<1>3. PICK more : more = (IF Paused /\ a \in {ShareAssetId} \cup DOMAIN IOUAssetPhaseId THEN {"untracked"} ELSE {})
                         \cup (IF from = CollectionAccountId THEN {"root"} ELSE {})
  OBVIOUS
<1>4. PICK moved, t : moved = make_transfer(Storage, a, from, to, n) /\ t = on_asset_transfer(moved, a, from, to, n)
  OBVIOUS
<1>5. /\ moved.ok /\ Performed(t, more)
      /\ ~Paused /\ a \in DOMAIN IOUAssetPhaseId /\ to = CollectionAccountId => check_can_redeem(Storage, a, from, n)
  BY <1>1, <1>3, <1>4 DEF transfer
<1>6. Calm(upset') => Reckons(t)
  <2>1. SUFFICES ASSUME Calm(upset), Calm(more) PROVE Reckons(t)
    BY <1>5 DEF Performed, Calm
  <2>2. from # CollectionAccountId /\ ~(Paused /\ a \in {ShareAssetId} \cup DOMAIN IOUAssetPhaseId)
    BY <1>3, <2>1 DEF Calm
  <2>3. PICK P, s, v : P = Standing(upset) /\ s = Storage /\ v = Filled(s.phase, s.quota)
    OBVIOUS
  <2>4. Stand(P) /\ "whole" \in P /\ Ready(P, v, s) /\ s.paused = Paused
    BY <2>1, <2>3, CalmFacts
  <2>5. /\ ~(s.paused /\ a \in {ShareAssetId} \cup IOUs)
        /\ ~s.paused /\ a \in IOUs /\ to = CollectionAccountId => check_can_redeem(s, a, from, n)
        /\ moved = make_transfer(s, a, from, to, n)
    BY <1>4, <1>5, <2>2, <2>3, <2>4 DEF IOUs
  <2> QED BY <1>2, <1>4, <1>5, <2>2, <2>3, <2>4, <2>5, OnTransferReckons
<1> QED BY <1>5, <1>6, PerformedReckons

\* The bonus is paid in another asset.
LEMMA BonusReckons ==
    ASSUME SavingInv, SharesInv, dispatch_bonus,
           UNCHANGED <<TotalIssuance, rootVars, phaseVars, shareVars, upset>>
    PROVE  SharesInv'
<1>1. PICK P, s : P = Standing(upset) /\ s = Storage
  OBVIOUS
<1>2. FreeBalance' \in FreeKept(P, s, Filled(CurrentPhaseId, QuotaUsed)) /\ s.free = FreeBalance
  BY <1>1, SoundBonus, StorageIs
<1>3. Calm(upset) => \A a \in IOUs : FreeBalance'[a] = FreeBalance[a]
  <2>1. Calm(upset) => "whole" \in P
    BY <1>1 DEF Standing, Promises, Calm
  <2> QED BY <1>2, <2>1 DEF FreeKept
<1>4. /\ config' = config /\ IOUAssetPhaseId' = IOUAssetPhaseId /\ upset' = upset /\ TotalIssuance' = TotalIssuance
      /\ ShareUnreleasedList' = ShareUnreleasedList
  BY DEF rootVars, shareVars, phaseVars
<1> QED BY <1>3, <1>4, DueStays

\* Every step keeps the reckoning.
LEMMA SharesStep == RatesFit /\ SavingInv /\ SharesInv /\ [SavingNext]_vars => SharesInv'
<1> SUFFICES ASSUME RatesFit, SavingInv, SharesInv, [SavingNext]_vars PROVE SharesInv'
  OBVIOUS
<1>1. ASSUME UNCHANGED <<TotalIssuance, FreeBalance, config, IOUAssetPhaseId, upset, ShareUnreleasedList>> PROVE SharesInv'
  BY <1>1, DueStays
<1>2. ASSUME "root" \in upset' PROVE SharesInv'
  BY <1>2 DEF SharesInv, Calm
<1>3. CASE Configure
  <2>1. ASSUME NEW b, Switch(b) PROVE SharesInv'
    BY <1>1, <2>1 DEF Switch, assetVars, balanceVars, rootVars, shareVars, phaseVars
  <2>2. ASSUME NEW item, NEW value, Set(item, value) PROVE SharesInv'
    <3>1. CASE value = config[item]
      <4>1. config' = config
        BY <2>2, <3>1 DEF Set, SavingInv, Rules, Setting, ConfigOK
      <4> QED BY <1>1, <2>2, <3>1, <4>1 DEF Set, assetVars, balanceVars, shareVars, phaseVars
    <3>2. CASE value # config[item]
      BY <1>2, <2>2, <3>2 DEF Set
    <3> QED BY <3>1, <3>2
  <2>3. ASSUME NEW q, NEW a, set_iou_asset_id_for_phase(q, a) PROVE SharesInv'
    BY <1>2, <2>3 DEF set_iou_asset_id_for_phase
  <2>4. CASE force_release_bonus
    BY <2>4, BonusReckons DEF force_release_bonus, savingVars
  <2> QED BY <1>3, <2>1, <2>2, <2>3, <2>4 DEF Configure, pause, resume, set_share_asset_id, set_collection_asset_id,
              set_profit_asset_id, set_collection_account, set_profit_pool, set_team_account_id
<1>4. CASE \E who \in Client, n \in StakeAmount : staking(who, n)
  BY <1>4, StakingReckons
<1>5. CASE \E who \in Client, iou \in DOMAIN IOUAssetPhaseId, n \in RedeemAmount :
              redeem(who, iou, n) \/ sudo_redeem(who, iou, n)
  BY <1>5, RedeemingReckons DEF IOUs
<1>6. CASE \E t \in Trade, m \in Movement : transfer(m[1], t[1], t[2], m[2])
  BY <1>6, TransferReckons
<1>7. CASE \E who \in Client, n \in RootAmount : MintShares(who, n) \/ BurnShares(who, n)
  BY <1>2, <1>7 DEF MintShares, BurnShares, Performed
<1>8. CASE \E elapsed \in 0 .. 1 : NewBlock(elapsed)
  <2>1. UNCHANGED <<TotalIssuance, rootVars, phaseVars, shareVars, upset>> /\ (dispatch_bonus \/ UNCHANGED FreeBalance)
    BY <1>8 DEF NewBlock
  <2>2. CASE dispatch_bonus
    BY <2>1, <2>2, BonusReckons
  <2>3. CASE UNCHANGED FreeBalance
    BY <1>1, <2>1, <2>3 DEF rootVars, shareVars, phaseVars
  <2> QED BY <2>1, <2>2, <2>3
<1>9. CASE Environment
  <2>1. UNCHANGED <<balanceVars, rootVars, phaseVars, shareVars, upset>>
    BY <1>9 DEF Environment, UpdatePermission, UpdateRestriction, assetVars, savingVars
  <2> QED BY <1>1, <2>1 DEF balanceVars, rootVars, shareVars, phaseVars
<1>10. CASE UNCHANGED vars
  BY <1>1, <1>10 DEF vars, assetVars, balanceVars, savingVars, rootVars, shareVars, phaseVars
<1> QED BY <1>3, <1>4, <1>5, <1>6, <1>7, <1>8, <1>9, <1>10 DEF SavingNext

-----------------------------------------------------------------------------
\* The theorem.

\* Genesis: neither IOUs nor shares.
LEMMA SharesGenesis == SavingInit => SharesInv
<1> SUFFICES ASSUME SavingInit PROVE SharesInv
  OBVIOUS
<1>1. SavingInv
  BY SavingGenesis
<1>2. PICK s : s = Storage
  OBVIOUS
<1>3. /\ upset = {} /\ Setting /\ Orderly /\ s \in StorageType /\ Conserved(s) /\ Issued(s, Filled(1, 0))
      /\ s.issuance = TotalIssuance /\ s.list = <<>>
  <2>1. upset = {} /\ CurrentPhaseId = 1 /\ QuotaUsed = 0 /\ ShareUnreleasedList = <<>>
    BY DEF SavingInit
  <2>2. Setting /\ Orderly
    BY <1>1, <2>1 DEF SavingInv, Rules
  <2> QED BY <1>1, <1>2, <2>1, <2>2, InvFacts, StorageIs
<1>4. \A a \in IOUs : OutsideOf(s, a) = 0
  <2>1. TAKE a \in IOUs
  <2>2. PICK p \in PhaseId : PhaseIOU[p] = a
    BY <1>3, PhaseOfIOU
  <2>3. Filled(1, 0)[p] = 0
    BY SavingAssumption DEF Filled, PhaseId
  <2>4. a \in AssetId /\ CollectionAccountId \in AccountId
    BY <1>3, OrderlyFacts DEF Setting, ConfigOK
  <2>5. PICK i \in Nat, f \in Nat : i = s.issuance[a] /\ f = s.free[a][CollectionAccountId] /\ f <= i
    BY <1>3, <2>4, ConservedFacts DEF Setting
  <2>6. i <= 0
    BY <1>3, <2>2, <2>3, <2>5 DEF Issued
  <2>7. i - f = 0
    BY <2>5, <2>6
  <2> QED BY <2>5, <2>7 DEF OutsideOf
<1>5. Owed(s) = 0
  <2>1. PICK f : f = OwedFor(s)
    OBVIOUS
  <2>2. IsFiniteSet(IOUs) /\ Owed(s) = SumFunctionOnSet(f, IOUs)
    BY <1>3, <2>1, OwedForFacts
  <2>3. \A a \in IOUs : f[a] = 0
    <3>1. TAKE a \in IOUs
    <3>2. PICK e \in Nat : e = Exchange[IOUAssetPhaseId[a]] /\ f[a] = e * OutsideOf(s, a)
      BY <1>3, <2>1, OwedForFacts
    <3>3. e * 0 = 0
      OBVIOUS
    <3> QED BY <1>4, <3>2, <3>3
  <2> QED BY <2>2, <2>3, SumOfZeros
<1>6. s.issuance[ShareAssetId] = 0
  <2>1. PICK a : a = GenesisConfig.ShareAssetId
    OBVIOUS
  <2>2. ShareAssetId = a
    BY <1>3, <2>1 DEF Orderly, ShareAssetId
  <2>3. a \in GenesisSymbols /\ a \in AssetId
    BY <2>1, SavingAssumption, GenesisAssumption
  <2>4. Endowed[a] \in [AccountId -> Balance] /\ \A w \in AccountId : Endowed[a][w] = 0
    BY <2>1, <2>3, SavingAssumption, GenesisAssumption
  <2>5. SumFunction(Endowed[a]) = 0
    BY <2>4, TotalOfNothing
  <2> QED BY <1>3, <2>2, <2>3, <2>5 DEF SavingInit, AssetsInit
<1>7. UnreleasedIn(<<>>) = 0 /\ AllFitIn(<<>>)
  <2>1. DOMAIN <<>> = {}
    OBVIOUS
  <2>2. PICK f : f = [w \in DOMAIN <<>> |-> ListSum(<<>>[w])]
    OBVIOUS
  <2>3. DOMAIN f = {}
    BY <2>1, <2>2
  <2>4. SumFunction(f) = 0
    BY <2>3, SumOfNone DEF SumFunction
  <2> QED BY <2>1, <2>2, <2>4 DEF UnreleasedIn, AllFitIn
<1>8. Due(s) = 0
  BY <1>3, <1>5, <1>6, <1>7 DEF Due
<1> QED BY <1>2, <1>3, <1>7, <1>8 DEF SharesInv

\* Nothing that a saver does separates shares from IOUs, at rates that fit: what is
\* saved in several phases, released term by term, aggregated, transferred and redeemed
\* leaves as many shares, free and unreleased, as the IOUs outside are worth.
THEOREM SharesStayMatched == RatesFit => (SavingSpec => []SharesMatchIOUs)
<1> SUFFICES ASSUME RatesFit PROVE SavingSpec => []SharesMatchIOUs
  OBVIOUS
<1>1. SavingInv /\ SharesInv /\ [SavingNext]_vars => SharesInv'
  BY SharesStep
<1>2. SavingInv /\ SharesInv => SharesMatchIOUs
  <2> SUFFICES ASSUME SavingInv, SharesInv, Calm(upset)
               PROVE  TotalIssuance[ShareAssetId] + Unreleased
                          = SumFunction([a \in DOMAIN IOUAssetPhaseId |-> Exchange[IOUAssetPhaseId[a]] * Outside(a)])
    BY DEF SharesMatchIOUs, Calm
  <2>1. PICK s : s = Storage
    OBVIOUS
  <2>2. Setting /\ Orderly /\ s \in StorageType /\ Conserved(s) /\ Due(s) = 0
    BY <2>1, InvFacts DEF SavingInv, Rules, SharesInv, Calm
  <2>3. /\ Owed(s) \in Nat /\ s.issuance[ShareAssetId] \in Nat /\ UnreleasedIn(s.list) \in Nat
        /\ Due(s) = Owed(s) - (s.issuance[ShareAssetId] + UnreleasedIn(s.list))
    BY <2>2, DueIsInt
  <2>4. s.issuance[ShareAssetId] + UnreleasedIn(s.list) = Owed(s)
    BY <2>2, <2>3
  <2>5. \A a : Outside(a) = OutsideOf(s, a)
    BY <2>1, StorageIs DEF Outside, OutsideOf
  <2>6. [a \in DOMAIN IOUAssetPhaseId |-> Exchange[IOUAssetPhaseId[a]] * Outside(a)] = OwedFor(s)
    BY <2>5 DEF OwedFor, IOUs
  <2>7. Unreleased = UnreleasedIn(s.list)
    BY <2>1, StorageIs DEF Unreleased, UnreleasedIn, ListSum, PackSum
  <2> QED BY <2>1, <2>4, <2>6, <2>7, StorageIs DEF Owed
<1> QED BY <1>1, <1>2, SharesGenesis, SavingInvariant, PTL DEF SavingSpec
=============================================================================
