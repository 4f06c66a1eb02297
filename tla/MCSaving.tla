------------------------------ MODULE MCSaving ------------------------------
(***************************************************************************)
(* Two savers and three phases, of which one saving may fill two.          *)
(***************************************************************************)
EXTENDS Saving

CONSTANTS SBTC, RBTC, RIO, RSC1, RSC2, RSC3, root, alice, bob, coll, pool

MCAssetId == {SBTC, RBTC, RIO, RSC1, RSC2, RSC3}
MCAccountId == {root, alice, bob, coll, pool}
MCEndowed == [a \in MCAssetId |-> [w \in MCAccountId |->
                 CASE a = SBTC /\ w = alice -> 2
                   [] a = RIO /\ w = pool -> 2
                   [] OTHER -> 0]]
MCNewPermission == {OwnedBy(root), [update |-> root, mint |-> NoOwner, burn |-> NoOwner]}
MCQuota == <<2, 1, 1>>
MCExchange == <<4, 3, 1>>
MCGenesisIOU == <<RSC1, RSC2, RSC3>>
MCGenesisConfig ==
    [CollectionAssetId |-> SBTC, ShareAssetId |-> RBTC, ProfitAssetId |-> RIO,
     CollectionAccountId |-> coll, ProfitPool |-> pool, TeamAccountId |-> root]
MCTrade == {<<alice, bob>>, <<alice, coll>>, <<bob, coll>>, <<coll, bob>>}
MCNewIOU == {<<2, RSC1>>}

\* The rates are such that packs add up, as those of mock.rs.
ASSUME RatesFitHere == RatesFit

\* Bounds: one departure from the ordinary at a time, and before the last phase;
\* what root has upset is reached but not pursued; bonuses and changes of price
\* in the first phase, the latter before time goes on; the second saver has
\* money before the last phase.
Disturbances ==
    upset \cup {a \in AssetId : Permissions[a] # OwnedBy(root) \/ Restrictions[a] # {}}
          \cup (IF Paused THEN {"paused"} ELSE {})
BonusPaid == FreeBalance[RIO][pool] # 2
Bound ==
    /\ Cardinality(Disturbances) <= 1
    /\ Disturbances = {} \/ CurrentPhaseId < 3
    /\ "root" \notin upset
    /\ FreeBalance[SBTC][bob] = 0 \/ CurrentPhaseId < 3
    /\ (now = 0 /\ ~BonusPaid /\ price = 2) \/ CurrentPhaseId = 1
    /\ now = 0 \/ price = 2
=============================================================================
