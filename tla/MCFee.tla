------------------------------- MODULE MCFee -------------------------------
(***************************************************************************)
(* RFUEL and LOCKED_RFUEL, a payer, and a root account that also collects  *)
(* the fees; balances overflow at 4, so that saturation is reached.        *)
(***************************************************************************)
EXTENDS Fee

CONSTANTS root, user

MCAccountId == {root, user}
MCEndowed == [a \in AssetId |-> [w \in MCAccountId |->
                  IF w = user THEN (IF a = RFUEL THEN 1 ELSE 2) ELSE 0]]
=============================================================================
