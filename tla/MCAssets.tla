------------------------------ MODULE MCAssets ------------------------------
(***************************************************************************)
(* Two assets, one of them in the genesis configuration, two accounts and  *)
(* balances that overflow at 4.                                            *)
(***************************************************************************)
EXTENDS Assets

CONSTANTS sbtc, other, root, user

MCAssetId == {sbtc, other}
MCAccountId == {root, user}
MCAmount == {0, 1, 2}
MCNewPermission == {OwnedBy(root), OwnedBy(user), NoPermission,
                    [update |-> NoOwner, mint |-> NoOwner, burn |-> root]}
MCEndowed == [a \in MCAssetId |-> [w \in MCAccountId |->
                  IF a = sbtc /\ w = user THEN 1 ELSE 0]]
=============================================================================
