------------------------------ MODULE Deposits ------------------------------
(***************************************************************************)
(* What the bridge promises about Bitcoin deposits, without its lists,     *)
(* marks, thresholds and admins.  Every transaction is in one stage:       *)
(*                                                                         *)
(*    unseen --> held --> credited        unseen --> credited or lost      *)
(*       ^--------'                                                        *)
(*                                                                         *)
(* and, from the report until it is dropped, is claimed by one account     *)
(* for one amount, which no later step changes.                            *)
(***************************************************************************)
CONSTANTS
    Transaction,
    Claim,          \* records of an account_id and an amount
    NoClaim

VARIABLES
    stage,          \* of each transaction
    claim           \* of each transaction that is not unseen

depositsVars == <<stage, claim>>

HeldFor(account) == {t \in Transaction : stage[t] = "held" /\ claim[t].account_id = account}

Init ==
    /\ stage = [t \in Transaction |-> "unseen"]
    /\ claim = [t \in Transaction |-> NoClaim]

\* Credited at once, held for KYC, or lost because it cannot be minted.
Report(t, c, outcome) ==
    /\ stage[t] = "unseen"
    /\ stage' = [stage EXCEPT ![t] = outcome]
    /\ claim' = [claim EXCEPT ![t] = c]

\* Held deposits of one account are credited, perhaps not all of them.
Release(account, some) ==
    /\ some \subseteq HeldFor(account)
    /\ stage' = [t \in Transaction |-> IF t \in some THEN "credited" ELSE stage[t]]
    /\ UNCHANGED claim

\* Held deposits of one account are forgotten, all of them.
Drop(account) ==
    /\ stage' = [t \in Transaction |-> IF t \in HeldFor(account) THEN "unseen" ELSE stage[t]]
    /\ claim' = [t \in Transaction |-> IF t \in HeldFor(account) THEN NoClaim ELSE claim[t]]

Next ==
    \/ \E t \in Transaction, c \in Claim, outcome \in {"held", "credited", "lost"} :
           Report(t, c, outcome)
    \/ \E c \in Claim, some \in SUBSET Transaction : Release(c.account_id, some)
    \/ \E c \in Claim : Drop(c.account_id)

Spec == Init /\ [][Next]_depositsVars
=============================================================================
