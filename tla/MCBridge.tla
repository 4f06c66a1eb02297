------------------------------ MODULE MCBridge ------------------------------
(***************************************************************************)
(* Two clients, two Bitcoin transactions, a vault and one admin, who also  *)
(* is the root key.  Amounts are 1 and 3, with a threshold of 2; balances  *)
(* end at 4, so that two large deposits exceed the issuance and a mint     *)
(* fails.                                                                  *)
(***************************************************************************)
EXTENDS Bridge

CONSTANTS admin, alice, bob, vault

MCAccountId == {admin, alice, bob, vault}
MCEndowed == [a \in {SBTC} |-> [w \in MCAccountId |-> 0]]
MCNewPermission == {OwnedBy(admin), [update |-> admin, mint |-> NoOwner, burn |-> admin]}
MCGenesisAdmins == [w \in MCAccountId |-> IF w = admin THEN "All" ELSE NoAuth]
Symmetry == Permutations(Client) \cup Permutations(TxHash)
=============================================================================
