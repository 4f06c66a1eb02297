------------------------------- MODULE Saving -------------------------------
(***************************************************************************)
(* rio-saving: savings in phases, over the ledger of Assets with the hooks *)
(* of this module installed, as its mock runtime does.                     *)
(*                                                                         *)
(* A saver pays the collection asset into the collection account and gets  *)
(* IOUs of the current phase one to one, and shares at the exchange rate   *)
(* of the phase: one term at once, one more at every change of phase.      *)
(* Redeeming takes IOUs and shares, released or not, and pays back.        *)
(* Holders of shares receive a daily bonus out of the profit pool.         *)
(*                                                                         *)
(* A call is a chain of writes that an error ends and does not undo, so it *)
(* is computed on a copy of the storage it may write, the record s, whose  *)
(* field `ok` turns FALSE with the first error and `panicked` TRUE with a  *)
(* panic, which discards the call.  StorageMaps are functions whose domain *)
(* is the set of keys with an entry.                                       *)
(***************************************************************************)
EXTENDS Assets, Lists, Integers, SequencesExt, FiniteSetsExt

CONSTANTS
    NumOfPhases,
    Quota, Exchange,              \* quota and exchange of each PhaseInfo
    GenesisIOU,                   \* iou_asset_id of each PhaseInfo at genesis
    GenesisConfig,                \* the items that root sets later
    ReservedMintWallet, ReservedMintAssetId,        \* set at genesis only
    RESERVED_MINT_RATIO, RESERVED_MINT_DIV, PRICE_PRECISION, DAY,
    Client,                       \* who saves
    Trade,                        \* pairs of who sends assets to whom
    StakeAmount, RedeemAmount, ShareAmount, \* what they save, redeem and trade
    BTCPrice,                     \* the prices of rio-price
    NewIOU,                       \* pairs of a phase and the IOU asset root gives it
    NewCollectionAsset, NewShareAsset, NewProfitAsset,
    NewCollectionAccount, NewAccount,
    RootAmount,                   \* shares root mints and burns
    Governed,                     \* assets whose rules governance changes
    MaxTime                       \* bound on time

PhaseId == 1 .. NumOfPhases
Items == {"CollectionAssetId", "ShareAssetId", "ProfitAssetId",
          "CollectionAccountId", "ProfitPool", "TeamAccountId"}

ASSUME SavingAssumption ==
    /\ NumOfPhases \in Nat \ {0}
    /\ Quota \in [PhaseId -> Balance \ {0}] /\ Exchange \in [PhaseId -> Balance \ {0}]
    /\ GenesisIOU \in [PhaseId -> GenesisSymbols] /\ IsInjective(GenesisIOU)
    /\ GenesisConfig \in [Items -> AssetId \cup AccountId]
    /\ {GenesisConfig[i] : i \in {"CollectionAssetId", "ShareAssetId", "ProfitAssetId"}}
           \subseteq GenesisSymbols \ Range(GenesisIOU)
    /\ {GenesisConfig[i] : i \in {"CollectionAccountId", "ProfitPool", "TeamAccountId"}}
           \cup Client \cup {ReservedMintWallet} \subseteq AccountId
    /\ Trade \subseteq AccountId \X AccountId
    /\ GenesisConfig.CollectionAccountId \notin Client \cup {ReservedMintWallet}
    /\ \A a \in Range(GenesisIOU) \cup {GenesisConfig.ShareAssetId}, w \in AccountId :
           Endowed[a][w] = 0
    /\ ReservedMintAssetId \in GenesisSymbols
    /\ {RESERVED_MINT_DIV, PRICE_PRECISION, DAY} \subseteq Nat \ {0}
    /\ RESERVED_MINT_RATIO \in Nat /\ MaxTime \in Nat
ASSUME CallAssumption ==
    /\ StakeAmount \cup RedeemAmount \cup ShareAmount \cup RootAmount \subseteq Balance
    /\ BTCPrice \subseteq Nat
    /\ NewCollectionAccount \cup NewAccount \subseteq AccountId
    /\ NewIOU \subseteq PhaseId \X AssetId
\* Different things are different assets (mock.rs 335-350).
ASSUME AssetsDifferAssumption ==
    /\ GenesisConfig.ShareAssetId \notin {GenesisConfig.CollectionAssetId, GenesisConfig.ProfitAssetId}
    /\ GenesisConfig.CollectionAssetId # GenesisConfig.ProfitAssetId
    /\ ReservedMintAssetId \notin Range(GenesisIOU) \cup {GenesisConfig.ShareAssetId}

VARIABLES
    config,                       \* the storage items that only root sets
    PhaseIOU,                     \* iou_asset_id of each PhaseInfo
    IOUAssetPhaseId,
    ShareAssetCollected,
    CurrentPhaseId, QuotaUsed, NumOfPhasesLeft,
    ShareUnreleasedList,
    AccountShares, SharesCirculation,
    Paused,
    LastBonusTime,
    now,                          \* timestamp of the last block
    price,                        \* current_price of rio-price
    upset                         \* ghost: what has happened out of the ordinary

phaseVars == <<CurrentPhaseId, QuotaUsed, NumOfPhasesLeft>>
shareVars == <<ShareUnreleasedList, AccountShares, SharesCirculation, ShareAssetCollected>>
rootVars == <<config, PhaseIOU, IOUAssetPhaseId>>
clockVars == <<LastBonusTime, now, price>>
savingVars == <<rootVars, phaseVars, shareVars, Paused, clockVars, upset>>
vars == <<assetVars, savingVars>>

\* "partial": a call failed after it had written.  "root": root or the holder
\* of the collection account interfered.  "untracked": shares or IOUs moved
\* while the module was paused.  "mistracked": _pause was called, or the plain
\* addition to SharesCirculation wrapped.
Upset == {"partial", "root", "untracked", "mistracked"}

CollectionAssetId == config.CollectionAssetId
CollectionAccountId == config.CollectionAccountId
ShareAssetId == config.ShareAssetId
ProfitAssetId == config.ProfitAssetId
ProfitPool == config.ProfitPool
TeamAccountId == config.TeamAccountId

Storage ==
    [issuance |-> TotalIssuance, free |-> FreeBalance, collected |-> ShareAssetCollected,
     phase |-> CurrentPhaseId, quota |-> QuotaUsed, left |-> NumOfPhasesLeft,
     list |-> ShareUnreleasedList, shares |-> AccountShares,
     circulation |-> SharesCirculation, paused |-> Paused,
     ok |-> TRUE, panicked |-> FALSE, mistracked |-> FALSE]

Get(map, k, default) == IF k \in DOMAIN map THEN map[k] ELSE default
Put(map, k, v) == [x \in DOMAIN map \cup {k} |-> IF x = k THEN v ELSE map[x]]
Removed(map, k) == Restrict(map, DOMAIN map \ {k})
Fail(s) == [s EXCEPT !.ok = FALSE]
Panic(s) == [s EXCEPT !.ok = FALSE, !.panicked = TRUE]

-----------------------------------------------------------------------------
\* Who holds how many shares: the hooks of mint, burn and transfer.

_pause(s) == [s EXCEPT !.paused = TRUE, !.mistracked = TRUE]

Credited(s, to, n) ==
    LET held == Get(s.shares, to, 0)
    IN  IF held + n <= MaxBalance THEN [s EXCEPT !.shares = Put(@, to, held + n)]
                                  ELSE _pause(s)

OutOfCirculation(s, n) ==
    IF n <= s.circulation THEN [s EXCEPT !.circulation = @ - n] ELSE _pause(s)

IntoCirculation(s, n) ==
    IF s.circulation + n <= MaxBalance THEN [s EXCEPT !.circulation = @ + n] ELSE _pause(s)

\* Slip: minted shares are not counted as circulating.
on_asset_mint_uncounted(s, a, to, n) ==
    IF a = ShareAssetId /\ to # CollectionAccountId THEN Credited(s, to, n) ELSE s

on_asset_mint(s, a, to, n) ==
    IF a = ShareAssetId /\ to # CollectionAccountId
    THEN IntoCirculation(Credited(s, to, n), n)
    ELSE s

\* The entry of the account stays, with what is left, be it zero.
on_asset_burn(s, a, from, n) ==
    LET held  == Get(s.shares, from, 0)
        debit == IF n <= held THEN [s EXCEPT !.shares = Put(@, from, held - n)]
                              ELSE _pause([s EXCEPT !.shares = Put(@, from, held)])
    IN  IF ~s.paused /\ a = ShareAssetId /\ from # CollectionAccountId
        THEN OutOfCirculation(debit, n)
        ELSE s

\* Shares that leave the collection account, counted without a check.
FromCollection(s, n) ==
    [s EXCEPT !.circulation = Wrap(@ + n), !.mistracked = @ \/ s.circulation + n > MaxBalance]

\* Slip: shares that arrive are not credited to their new holder.
track_share_asset_movement_lost(s, from, to, n) ==
    LET held    == Get(s.shares, from, 0)
        debited == IF from = CollectionAccountId THEN FromCollection(s, n)
                   ELSE CASE held < n -> _pause(s)
                          [] held = n -> [s EXCEPT !.shares = Removed(@, from)]
                          [] held > n -> [s EXCEPT !.shares = Put(@, from, held - n)]
    IN  IF to = CollectionAccountId THEN OutOfCirculation(debited, n) ELSE debited

track_share_asset_movement(s, from, to, n) ==
    LET held    == Get(s.shares, from, 0)
        debited == IF from = CollectionAccountId THEN FromCollection(s, n)
                   ELSE CASE held < n -> _pause(s)
                          [] held = n -> [s EXCEPT !.shares = Removed(@, from)]
                          [] held > n -> [s EXCEPT !.shares = Put(@, from, held - n)]
    IN  IF to = CollectionAccountId THEN OutOfCirculation(debited, n)
                                    ELSE Credited(debited, to, n)

\* The calls of rio-assets that this module makes, on the copy s.  After an
\* error they do nothing, so that they can be chained.

mint(s, a, to, n) ==
    IF /\ s.ok /\ should_exist(a) /\ check_permission(a, rootKey, "mint")
       /\ s.issuance[a] + n <= MaxBalance /\ s.free[a][to] + n <= MaxBalance
    THEN on_asset_mint([s EXCEPT !.issuance[a] = @ + n, !.free[a][to] = @ + n], a, to, n)
    ELSE Fail(s)

burn(s, a, from, n) ==
    IF /\ s.ok /\ should_exist(a) /\ check_permission(a, rootKey, "burn")
       /\ n <= s.issuance[a] /\ n <= s.free[a][from]
    THEN on_asset_burn([s EXCEPT !.issuance[a] = @ - n, !.free[a][from] = @ - n], a, from, n)
    ELSE Fail(s)

make_transfer(s, a, from, to, n) ==
    IF s.ok /\ should_exist(a) /\ n <= s.free[a][from] /\ can_do(a, "Transferable")
    THEN [s EXCEPT !.free = Moved(@, a, from, to, n)]
    ELSE Fail(s)

-----------------------------------------------------------------------------
\* Release packs.  A pack is the sequence of the terms still to be released:
\* `major` is all but the last of them, `minor` the last one if it differs.

TermsTotal(terms) == Wrap(SumFunction(terms))

\* Slip: the last term is not reduced by what rounding up added.
create_share_release_pack_rounded(asset, phase, balance, count) ==
    LET portion == (balance + count - 1) \div count
    IN  [asset_id |-> asset, phase_id |-> phase, terms |-> [i \in 1 .. count |-> portion]]

\* Terms are rounded up and the last one takes the difference, which wraps when
\* the balance is small against the number of terms.
create_share_release_pack(asset, phase, balance, count) ==
    LET portion == IF count = 1 THEN balance ELSE Wrap(balance + count - 1) \div count
        virtual == Wrap(portion * count)
        last    == IF balance > virtual THEN balance - virtual
                                        ELSE Wrap(portion - (virtual - balance))
    IN  [asset_id |-> asset, phase_id |-> phase,
         terms |-> [i \in 1 .. count |-> IF i < count THEN portion ELSE last]]

\* Unreleased shares of the packs at some positions, and of those of a phase.
TotalAt(list, places) == Wrap(SumFunction([i \in places |-> TermsTotal(list[i].terms)]))
UnreleasedOf(list, phase) == TotalAt(list, {i \in DOMAIN list : list[i].phase_id = phase})

\* aggregate_phase_unreleased puts the packs of one phase and asset into one
\* with `less` taken away.  All of them have been made while the phase was
\* current and so with the same terms_total: terms_left is that of the first.
Same(list, phase, asset) ==
    {i \in DOMAIN list : list[i].asset_id = asset /\ list[i].phase_id = phase}
AggregatedTotal(list, phase, asset) == TotalAt(list, Same(list, phase, asset))
Rest(list, phase, asset) == Kept(list, DOMAIN list \ Same(list, phase, asset))

aggregate_phase_unreleased(list, phase, asset, less) ==
    Append(Rest(list, phase, asset),
           create_share_release_pack(asset, phase, AggregatedTotal(list, phase, asset) - less,
                                     Len(list[Min(Same(list, phase, asset))].terms)))

register_share_pack(s, who, pack) ==
    IF pack.terms = <<>> THEN s
    ELSE [s EXCEPT !.list = Put(@, who,
             IF who \in DOMAIN @
             THEN aggregate_phase_unreleased(Append(@[who], pack), pack.phase_id, pack.asset_id, 0)
             ELSE <<pack>>)]

\* One term of every pack of an account is minted.
ReleaseTerms(s, who) ==
    LET packs == s.list[who]
        minted[k \in 0 .. Len(packs)] ==
            IF k = 0 THEN s
            ELSE mint(minted[k - 1], packs[k].asset_id, who, Head(packs[k].terms))
    IN  minted[Len(packs)]

\* Slip: what has been released stays in the list.
LeftToRelease_all(packs) == packs

LeftToRelease(packs) ==
    Kept([i \in DOMAIN packs |-> [packs[i] EXCEPT !.terms = Tail(@)]],
         {i \in DOMAIN packs : Len(packs[i].terms) > 1})

\* A mint that fails here panics.
shares_release_by_phase_change(s) ==
    LET order == SetToSeq(DOMAIN s.list)
        minted[k \in 0 .. Len(order)] ==
            IF k = 0 THEN s ELSE ReleaseTerms(minted[k - 1], order[k])
        all   == minted[Len(order)]
        left  == {who \in DOMAIN s.list : LeftToRelease(s.list[who]) # <<>>}
    IN  IF all.ok THEN [all EXCEPT !.list = [who \in left |-> LeftToRelease(s.list[who])]]
                  ELSE Panic(all)

\* Slip: the last phase starts over.
shift_next_phase_again(s) ==
    LET released == shares_release_by_phase_change(s)
    IN  IF s.phase < NumOfPhases
        THEN [released EXCEPT !.quota = 0, !.phase = @ + 1, !.left = @ - 1]
        ELSE [released EXCEPT !.quota = 0]

shift_next_phase(s) ==
    LET released == shares_release_by_phase_change(s)
    IN  IF s.phase < NumOfPhases
        THEN [released EXCEPT !.quota = 0, !.phase = @ + 1, !.left = IF @ > 0 THEN @ - 1 ELSE @]
        ELSE [released EXCEPT !.quota = Quota[s.phase]]

-----------------------------------------------------------------------------
\* create_staking.  r carries the storage, what has been taken so far and what
\* is left for the next phase, if there is one.

StakeInPhase(r, who) ==
    LET s        == r.s
        quota    == Quota[s.phase]
        will_be  == s.quota + r.rest
        iou      == IF will_be <= quota THEN r.rest ELSE quota - s.quota
        pack     == create_share_release_pack(ShareAssetId, s.phase,
                                              iou * Exchange[s.phase], s.left)
        counted  == IF will_be < quota THEN [s EXCEPT !.quota = will_be] ELSE s
        minted   == mint(mint(counted, PhaseIOU[s.phase], who, iou),
                         ShareAssetId, who, Head(pack.terms))
        saved    == register_share_pack(minted, who, [pack EXCEPT !.terms = Tail(@)])
        stop(t)  == [s |-> t, rest |-> 0, taken |-> r.taken]
    IN  IF will_be > MaxBalance                      THEN stop(Panic(s))
        ELSE IF iou = 0                              THEN stop(Fail(s))
        ELSE IF iou * Exchange[s.phase] > MaxBalance THEN stop(Panic(s))
        ELSE IF ~minted.ok                           THEN stop(minted)
        ELSE [s |-> IF will_be < quota THEN saved ELSE shift_next_phase(saved),
              rest |-> IF s.phase < NumOfPhases THEN r.rest - iou ELSE 0,
              taken |-> r.taken + iou]

create_staking(s, who, balance) ==
    LET staked[k \in 0 .. NumOfPhases] ==
            IF k = 0 THEN [s |-> s, rest |-> balance, taken |-> 0]
            ELSE IF staked[k - 1].s.ok /\ staked[k - 1].rest > 0
            THEN StakeInPhase(staked[k - 1], who)
            ELSE staked[k - 1]
    IN  IF balance = 0 THEN [s |-> Fail(s), rest |-> 0, taken |-> 0] ELSE staked[NumOfPhases]

sbtc_to_reserved_mint(amount) ==
    Wrap(price * amount * RESERVED_MINT_RATIO) \div (PRICE_PRECISION * RESERVED_MINT_DIV)

-----------------------------------------------------------------------------
\* Redeeming.

\* redeem_required_balances_in_ratio: shares needed out of the unreleased ones;
\* the rest of what is required is to be free.
LockedRequired(phase, required, left) ==
    Wrap(required * (left - 1)) \div (NumOfPhases - phase + 1)

\* Slip: enough free shares are enough, whatever is left to be released.
check_can_redeem_free(s, iou, who, amount) ==
    LET phase    == IOUAssetPhaseId[iou]
        required == Wrap(amount * Exchange[phase])
    IN  s.free[ShareAssetId][who] >= required - LockedRequired(phase, required, s.left)

check_can_redeem(s, iou, who, amount) ==
    LET phase      == IOUAssetPhaseId[iou]
        required   == Wrap(amount * Exchange[phase])
        available  == Wrap(s.free[ShareAssetId][who] + s.collected[who])
        unreleased == AggregatedTotal(Get(s.list, who, <<>>), phase, ShareAssetId)
        total      == Wrap(available + unreleased)
    IN  \/ available >= required
        \/ /\ \/ available >= Wrap(required - LockedRequired(phase, required, s.left))
              \/ required = total
           /\ required <= total

\* make_redeem.  Shares sent in advance come first, then free and unreleased
\* ones in the ratio of the phase, and where one side is short, more of the
\* other.  The list of the account is taken out before the checks.
make_redeem(s, iou, who, amount) ==
    LET phase     == IOUAssetPhaseId[iou]
        list      == Get(s.list, who, <<>>)
        required  == Wrap(amount * Exchange[phase])
        locked    == LockedRequired(phase, required, s.left)
        free      == Wrap(required - locked)
        returned  == s.collected[who]
        ret_free  == Min({returned, free})
        ret_lock  == Min({returned - ret_free, locked})
        taken     == [s EXCEPT !.collected[who] = returned - ret_free - ret_lock,
                               !.list = Removed(@, who)]
        unrel     == UnreleasedOf(list, phase)
        held      == s.free[ShareAssetId][who]
        lock_have == Min({locked - ret_lock, unrel})
        free_have == Min({free - ret_free, held})
        from_free == Wrap(free_have + (locked - ret_lock - lock_have))
        from_lock == Wrap(lock_have + (free - ret_free - free_have))
        to_burn   == Wrap(ret_free + ret_lock + from_free)
        total     == AggregatedTotal(list, phase, ShareAssetId)
        moved     == make_transfer(taken, ShareAssetId, who, CollectionAccountId, from_free)
        listed    == [moved EXCEPT !.list = Put(@, who,
                         IF total > from_lock
                         THEN aggregate_phase_unreleased(list, phase, ShareAssetId, from_lock)
                         ELSE Rest(list, phase, ShareAssetId))]
        burnt     == IF to_burn = 0 THEN listed
                     ELSE burn(listed, ShareAssetId, CollectionAccountId, to_burn)
        short     == free - ret_free > 0 /\ Wrap(held + unrel) < required
    IN  IF short \/ Wrap(from_free + from_lock + returned) # required THEN Fail(taken)
        ELSE IF ~moved.ok \/ total < from_lock THEN Fail(moved)
        ELSE make_transfer(burnt, CollectionAssetId, CollectionAccountId, who, amount)

\* Slip: the IOUs go back in any case.
RedeemIOU_returned(s, iou, who, amount) ==
    LET sent     == make_transfer(s, iou, who, CollectionAccountId, amount)
        redeemed == make_redeem(sent, iou, who, amount)
    IN  IF sent.ok THEN make_transfer(redeemed, iou, CollectionAccountId, who, amount)
                   ELSE sent

\* The part that redeem and sudo_redeem share: the IOUs move to the collection
\* account and, when make_redeem fails, back; else they are burnt.
RedeemIOU(s, iou, who, amount) ==
    LET sent     == make_transfer(s, iou, who, CollectionAccountId, amount)
        redeemed == make_redeem(sent, iou, who, amount)
        back(t)  == make_transfer([t EXCEPT !.ok = TRUE], iou, CollectionAccountId, who, amount)
    IN  IF ~sent.ok THEN sent
        ELSE IF redeemed.ok THEN burn(redeemed, iou, CollectionAccountId, amount)
        ELSE Fail(back(redeemed))

-----------------------------------------------------------------------------
\* The bonus.

\* Slip: LastBonusTime is not advanced.
NextBonusTime_same == LastBonusTime

\* Slip: LastBonusTime is when the next one is due.
NextBonusTime_due == now + DAY

\* A bonus that is due moves LastBonusTime on by one day, so that missed days
\* are caught up one per block.
NextBonusTime == LastBonusTime + DAY

BonusIsDue == LastBonusTime # 0 /\ now - LastBonusTime >= DAY

\* `balance * users / circulation` divides by zero for the first of the accounts.
BonusPanics == DOMAIN AccountShares # {} /\ SharesCirculation = 0

\* Transfers that fail are skipped: what is left of the balances f.
PayBonus(f, to, n) ==
    IF n <= f[ProfitAssetId][ProfitPool] THEN Moved(f, ProfitAssetId, ProfitPool, to, n) ELSE f

\* dispatch_bonus, the accounts in the given order.
BonusDispatched(order) ==
    LET total == FreeBalance[ProfitAssetId][ProfitPool]
        users == Wrap(total * 8) \div 10
        bonus(w) == Wrap(AccountShares[w] * users) \div SharesCirculation
        paid[k \in 0 .. Len(order)] ==
            IF k = 0 THEN PayBonus(FreeBalance, TeamAccountId, total - users)
            ELSE PayBonus(paid[k - 1], order[k], bonus(order[k]))
    IN  IF should_exist(ProfitAssetId) /\ can_do(ProfitAssetId, "Transferable")
        THEN paid[Len(order)]
        ELSE FreeBalance

dispatch_bonus ==
    /\ ~BonusPanics
    /\ \E order \in SetToSeqs(DOMAIN AccountShares) : FreeBalance' = BonusDispatched(order)

-----------------------------------------------------------------------------
SavingInit ==
    /\ AssetsInit
    /\ config = GenesisConfig
    /\ PhaseIOU = GenesisIOU
    /\ IOUAssetPhaseId = AntiFunction(GenesisIOU)
    /\ ShareAssetCollected = [w \in AccountId |-> 0]
    /\ CurrentPhaseId = 1 /\ QuotaUsed = 0 /\ NumOfPhasesLeft = NumOfPhases
    /\ ShareUnreleasedList = <<>> /\ AccountShares = <<>> /\ SharesCirculation = 0
    /\ Paused = FALSE
    /\ LastBonusTime = 0 /\ now = 0
    /\ price \in BTCPrice
    /\ upset = {}

ledgerRules == <<ReservedBalance, Permissions, Restrictions, Symbols, contextVars, rootKey>>

\* The writes of a call become the storage, unless it panicked.
Commit(s) ==
    /\ ~s.panicked
    /\ TotalIssuance' = s.issuance /\ FreeBalance' = s.free
    /\ ShareAssetCollected' = s.collected
    /\ CurrentPhaseId' = s.phase /\ QuotaUsed' = s.quota /\ NumOfPhasesLeft' = s.left
    /\ ShareUnreleasedList' = s.list
    /\ AccountShares' = s.shares /\ SharesCirculation' = s.circulation
    /\ Paused' = s.paused
    /\ UNCHANGED <<ledgerRules, rootVars, clockVars>>

\* A call that writes s; `more` is what it adds to the ghost on its own account.
Performed(s, more) ==
    /\ Commit(s)
    /\ upset' = upset \cup more
              \cup (IF s.ok \/ Storage = [s EXCEPT !.ok = TRUE] THEN {} ELSE {"partial"})
              \cup (IF s.mistracked THEN {"mistracked"} ELSE {})

\* staking and, on behalf of the account, sudo_staking: everything is minted
\* before the collection asset is paid.
staking(who, amount) ==
    /\ ~Paused
    /\ FreeBalance[CollectionAssetId][who] >= amount
    /\ \E r \in {create_staking(Storage, who, amount)} :
          Performed(mint(make_transfer(r.s, CollectionAssetId, who, CollectionAccountId, r.taken),
                         ReservedMintAssetId, ReservedMintWallet,
                         sbtc_to_reserved_mint(r.taken)),
                    {})

\* redeem burns the reserve before it takes the IOUs.
redeem(who, iou, amount) ==
    LET burnt == burn(Storage, ReservedMintAssetId, ReservedMintWallet,
                      sbtc_to_reserved_mint(amount))
    IN  /\ ~Paused
        /\ iou \in DOMAIN IOUAssetPhaseId
        /\ check_can_redeem(Storage, iou, who, amount)
        /\ burnt.ok
        /\ \E s \in {RedeemIOU(burnt, iou, who, amount)} : Performed(s, {})

sudo_redeem(who, iou, amount) ==
    /\ ~Paused
    /\ iou \in DOMAIN IOUAssetPhaseId
    /\ check_can_redeem(Storage, iou, who, amount)
    /\ \E s \in {RedeemIOU(Storage, iou, who, amount)} : Performed(s, {})

\* on_asset_transfer, after the transfer; its error is dropped.
on_asset_transfer(s, a, from, to, n) ==
    IF s.paused \/ from = to THEN s
    ELSE IF a = ShareAssetId THEN track_share_asset_movement(s, from, to, n)
    ELSE IF to # CollectionAccountId THEN s
    ELSE IF a = CollectionAssetId THEN create_staking(s, from, n).s
    ELSE IF a \in DOMAIN IOUAssetPhaseId THEN make_redeem(s, a, from, n)
    ELSE s

\* rio-assets' transfer with both hooks.
transfer(a, from, to, n) ==
    LET moved == make_transfer(Storage, a, from, to, n)
    IN  /\ ~Paused /\ a \in DOMAIN IOUAssetPhaseId /\ to = CollectionAccountId =>
               check_can_redeem(Storage, a, from, n)
        /\ moved.ok
        /\ \E s \in {on_asset_transfer(moved, a, from, to, n)} :
               Performed(s, (IF Paused /\ a \in {ShareAssetId} \cup DOMAIN IOUAssetPhaseId
                             THEN {"untracked"} ELSE {})
                            \cup (IF from = CollectionAccountId THEN {"root"} ELSE {}))

\* Root mints or burns shares.
MintShares(to, n) ==
    \E s \in {mint(Storage, ShareAssetId, to, n)} : s.ok /\ Performed(s, {"root"})

BurnShares(from, n) ==
    \E s \in {burn(Storage, ShareAssetId, from, n)} : s.ok /\ Performed(s, {"root"})

-----------------------------------------------------------------------------
\* Calls of root.

Switch(paused) ==
    /\ Paused' = paused
    /\ UNCHANGED <<assetVars, rootVars, phaseVars, shareVars, clockVars, upset>>
pause == Switch(TRUE)
resume == Switch(FALSE)

Set(item, value) ==
    /\ config' = [config EXCEPT ![item] = value]
    /\ upset' = IF value = config[item] THEN upset ELSE upset \cup {"root"}
    /\ UNCHANGED <<assetVars, PhaseIOU, IOUAssetPhaseId, phaseVars, shareVars, Paused,
                   clockVars>>

set_share_asset_id(a) == should_exist(a) /\ Set("ShareAssetId", a)
set_collection_asset_id(a) == should_exist(a) /\ Set("CollectionAssetId", a)
set_profit_asset_id(a) == should_exist(a) /\ Set("ProfitAssetId", a)
set_collection_account(who) == Set("CollectionAccountId", who)
set_profit_pool(who) == Set("ProfitPool", who)
set_team_account_id(who) == Set("TeamAccountId", who)

\* The former asset of the phase keeps its entry, and so does another phase
\* that has this asset.
set_iou_asset_id_for_phase(phase, a) ==
    /\ should_exist(a)
    /\ PhaseIOU' = [PhaseIOU EXCEPT ![phase] = a]
    /\ IOUAssetPhaseId' = Put(IOUAssetPhaseId, a, phase)
    /\ upset' = upset \cup {"root"}
    /\ UNCHANGED <<assetVars, config, phaseVars, shareVars, Paused, clockVars>>

force_release_bonus ==
    /\ ~Paused
    /\ dispatch_bonus
    /\ UNCHANGED <<TotalIssuance, ledgerRules, savingVars>>

Configure ==
    \/ pause
    \/ resume
    \/ \E a \in NewShareAsset : set_share_asset_id(a)
    \/ \E a \in NewCollectionAsset : set_collection_asset_id(a)
    \/ \E a \in NewProfitAsset : set_profit_asset_id(a)
    \/ \E w \in NewCollectionAccount : set_collection_account(w)
    \/ \E w \in NewAccount : set_profit_pool(w) \/ set_team_account_id(w)
    \/ \E n \in NewIOU : set_iou_asset_id_for_phase(n[1], n[2])
    \/ force_release_bonus

\* on_initialize, with the time of the previous block, then the timestamp.
NewBlock(elapsed) ==
    /\ now + elapsed <= MaxTime
    /\ now' = now + elapsed
    /\ \/ /\ ~Paused /\ BonusIsDue
          /\ LastBonusTime' = NextBonusTime
          /\ dispatch_bonus
       \/ /\ ~(~Paused /\ BonusIsDue)
          /\ LastBonusTime' = IF ~Paused /\ LastBonusTime = 0 THEN (now \div DAY) * DAY
                                                              ELSE LastBonusTime
          /\ UNCHANGED FreeBalance
    /\ UNCHANGED <<TotalIssuance, ledgerRules, rootVars, phaseVars, shareVars, Paused,
                   price, upset>>

\* The price moves, and governance makes mints, burns and transfers fail.
Environment ==
    \/ \E p \in BTCPrice : /\ price' = p
                           /\ UNCHANGED <<assetVars, rootVars, phaseVars, shareVars, Paused,
                                          LastBonusTime, now, upset>>
    \/ /\ \/ \E a \in Governed, p \in NewPermission : UpdatePermission(a, p)
          \/ \E a \in Governed, b \in BOOLEAN : UpdateRestriction(a, "Transferable", b)
       /\ UNCHANGED savingVars

Movement ==
    ({CollectionAssetId} \X StakeAmount) \cup ({ShareAssetId} \X ShareAmount)
        \cup ((DOMAIN IOUAssetPhaseId) \X RedeemAmount)

SavingNext ==
    \/ Configure
    \/ \E who \in Client, n \in StakeAmount : staking(who, n)
    \/ \E who \in Client, iou \in DOMAIN IOUAssetPhaseId, n \in RedeemAmount :
           redeem(who, iou, n) \/ sudo_redeem(who, iou, n)
    \/ \E t \in Trade, m \in Movement : transfer(m[1], t[1], t[2], m[2])
    \/ \E who \in Client, n \in RootAmount : MintShares(who, n) \/ BurnShares(who, n)
    \/ \E elapsed \in 0 .. 1 : NewBlock(elapsed)
    \/ Environment

SavingSpec == SavingInit /\ [][SavingNext]_vars /\ WF_vars(NewBlock(0))

-----------------------------------------------------------------------------
ReleasePack == [asset_id : AssetId, phase_id : PhaseId, terms : Seq(Balance)]

\* The storage of the module holds values of the declared types.
SavingTypeOK ==
    /\ IOUAssetPhaseId \in UNION {[A -> PhaseId] : A \in SUBSET AssetId}
    /\ PhaseIOU \in [PhaseId -> AssetId]
    /\ ShareAssetCollected \in [AccountId -> Balance]
    /\ CurrentPhaseId \in PhaseId /\ NumOfPhasesLeft \in PhaseId /\ QuotaUsed \in Balance
    /\ DOMAIN ShareUnreleasedList \subseteq AccountId
    /\ \A w \in DOMAIN ShareUnreleasedList : ShareUnreleasedList[w] \in Seq(ReleasePack)
    /\ DOMAIN AccountShares \subseteq AccountId /\ Range(AccountShares) \subseteq Balance
    /\ SharesCirculation \in Balance
    /\ Paused \in BOOLEAN /\ upset \subseteq Upset
    /\ LastBonusTime \in 0 .. now /\ now \in 0 .. MaxTime

\* The bonus is divided by SharesCirculation and multiplied by AccountShares:
\* the latter add up to the former, unless tracking noticed that it had lost
\* touch (_pause) or the count has wrapped.  Five functions write the two items,
\* in different orders.
CirculationIsSumOfShares ==
    "mistracked" \in upset \/ SharesCirculation = SumFunction(AccountShares)

\* Tracking never loses a holder: through the hooks of mints, transfers and burns
\* and the paths without a hook, an account is credited with at least the shares
\* it holds, as long as none of them moved while the module was paused and root
\* did not exchange the share asset.
HoldersAreCredited ==
    \/ upset \cap {"untracked", "mistracked", "root"} # {}
    \/ \A w \in AccountId \ {CollectionAccountId} :
           Get(AccountShares, w, 0) >= FreeBalance[ShareAssetId][w]

Outside(iou) == TotalIssuance[iou] - FreeBalance[iou][CollectionAccountId]

Unreleased ==
    SumFunction([w \in DOMAIN ShareUnreleasedList |->
        SumFunction([i \in DOMAIN ShareUnreleasedList[w] |->
            SumFunction(ShareUnreleasedList[w][i].terms)])])

\* Rates with which the terms of a pack always add up to its shares, and quotas under
\* which all shares, times the number of phases, fit a balance: those of mock.rs 58-67
\* and of chain_spec.rs 349-355, where the rate of a phase is a multiple of the number
\* of its terms (10000 in 5, 8000 in 4) or the terms are three at most.  Nothing in the
\* code asks for it: at a rate of 10 in 4 terms, one share may be left over for three
\* terms, of which the last one wraps.
Divisible(phase) == Exchange[phase] % (NumOfPhases - phase + 1) = 0
RatesFit ==
    /\ \A p \in PhaseId : Divisible(p) \/ (NumOfPhases - p + 1 <= 3 /\ Exchange[p] >= 2)
    /\ NumOfPhases * (SumFunction([p \in PhaseId |-> Quota[p] * Exchange[p]]) + 1) <= MaxBalance

\* Shares released and unreleased are together exactly what the exchange rates
\* give for the IOUs outside the collection account: through rounding, splitting
\* over phases, aggregation of packs, releases and redemptions that take more of
\* one kind because the other is short.  It holds for rates that fit, while no call
\* failed half way, root did not interfere and no IOU went to the collection account
\* unnoticed.
SharesMatchIOUs ==
    \/ upset \cap {"partial", "root", "untracked"} # {}
    \/ TotalIssuance[ShareAssetId] + Unreleased
           = SumFunction([a \in DOMAIN IOUAssetPhaseId |->
                              Exchange[IOUAssetPhaseId[a]] * Outside(a)])

\* "The RS Contract Token is exactly 1:1 to BTC" (lib.rs line 916): every IOU
\* outside the collection account can be paid out of it, unless a call failed
\* half way, or root or the holder of the account interfered.
IOUsAreBacked ==
    \/ upset \cap {"partial", "root"} # {}
    \/ SumFunction([a \in DOMAIN IOUAssetPhaseId |-> Outside(a)])
           <= FreeBalance[CollectionAssetId][CollectionAccountId]

\* A phase never issues more IOUs than its quota, later phases none, and the
\* one that is counted down is the one that is current, also when one saving
\* fills several phases and when the last phase is full; except that a saving
\* that fails between its two mints leaves IOUs that are not counted.
QuotaIsKept ==
    /\ NumOfPhasesLeft = NumOfPhases - CurrentPhaseId + 1
    /\ QuotaUsed <= Quota[CurrentPhaseId]
    /\ upset \cap {"root", "partial"} # {} \/ \A p \in PhaseId :
           TotalIssuance[PhaseIOU[p]] <= IF p > CurrentPhaseId THEN 0 ELSE Quota[p]

\* Every pack has one term for each change of phase still to come, whatever has
\* been aggregated or redeemed: what redeem_required_balances_in_ratio relies on
\* ("this ratio should be exact with create_share_release_pack", lib.rs 1126).
ScheduleIsInStep ==
    \A w \in DOMAIN ShareUnreleasedList : \A i \in DOMAIN ShareUnreleasedList[w] :
        Len(ShareUnreleasedList[w][i].terms) = NumOfPhasesLeft - 1

\* What check_can_redeem lets through goes through to the end, from redeem, where
\* the reserve has been burnt already, and from sudo_redeem: once the list of
\* unreleased packs has been taken (lib.rs line 644) nothing may fail, for the
\* packs would be lost.  It holds while burns and transfers are allowed, and of
\* accounts whose shares, free and unreleased, fit a balance: `free_share_asset +
\* unrel_total_balance` (lib.rs line 658) wraps.
RedeemableIsRedeemed ==
    \/ upset \cap {"partial", "root"} # {}
    \/ \E a \in {ShareAssetId, CollectionAssetId} \cup DOMAIN IOUAssetPhaseId :
           ~can_do(a, "Transferable") \/ ~check_permission(a, rootKey, "burn")
    \/ \A who \in Client, iou \in DOMAIN IOUAssetPhaseId, n \in RedeemAmount :
           /\ n <= FreeBalance[iou][who] /\ check_can_redeem(Storage, iou, who, n)
           /\ FreeBalance[ShareAssetId][who]
                  + AggregatedTotal(Get(ShareUnreleasedList, who, <<>>), IOUAssetPhaseId[iou],
                                    ShareAssetId) <= MaxBalance
           => \A s \in {Storage, burn(Storage, ReservedMintAssetId, ReservedMintWallet,
                                      sbtc_to_reserved_mint(n))} :
                  s.ok => RedeemIOU(s, iou, who, n).ok

\* Bonuses missed while the module was paused are caught up: as blocks go on,
\* LastBonusTime comes within a day of now, unless the module is paused again
\* or the bonus panics.
BonusCatchesUp ==
    BonusIsDue ~> (~BonusIsDue \/ Paused \/ BonusPanics)

\* AccountShares tracks the shares that savers hold (README.md line 27).
AccountSharesAreHeld ==
    \A w \in Client : upset = {} =>
        Get(AccountShares, w, 0) = FreeBalance[ShareAssetId][w]

\* "When current block timestamp minus LastBonusTime is over 86400 seconds,
\* that's the checkpoint to calculate and release bonus" (lib.rs line 314).
DueBonusIsReleased == BonusIsDue /\ ~Paused => ~BonusPanics
=============================================================================
