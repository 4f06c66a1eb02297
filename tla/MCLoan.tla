------------------------------- MODULE MCLoan -------------------------------
(***************************************************************************)
(* One borrower with up to two loans of one package.  The root key is the  *)
(* liquidation account too and holds nearly all of the loan asset, so that *)
(* a second draw overflows the issuance and a mint fails.  MaxLTV is so    *)
(* near above the thresholds that a draw through the wrapped credit of a   *)
(* loan whose collateral has lost value takes its ratio out of the type.   *)
(***************************************************************************)
EXTENDS Loan, FiniteSets

CONSTANTS SBTC, RIO, root, alice, shop, pool

MCAccountId == {root, alice, shop, pool}
MCEndowed == [a \in {SBTC, RIO} |-> [w \in MCAccountId |->
                 CASE a = SBTC /\ w = alice -> 10
                   [] a = RIO /\ w = alice -> 2
                   [] a = RIO /\ w = root -> MaxBalance - 15
                   [] OTHER -> 0]]
MCNewPermission == {OwnedBy(root), [update |-> root, mint |-> root, burn |-> NoOwner]}
MCOffer == {<<5, 0>>}
MCPackage == {[terms |-> 1, interest_rate_hourly |-> 2, min |-> 1]}
MCGenesisConfig ==
    [CollateralAssetId |-> SBTC, LoanAssetId |-> RIO, GlobalLTVLimit |-> 6,
     GlobalLiquidationThreshold |-> 9, GlobalWarningThreshold |-> 8, PenaltyRate |-> 4,
     LiquidationAccount |-> root, CurrentBTCPrice |-> 2, LoanCap |-> NoCap,
     Paused |-> FALSE]

\* Bound: of the ways in which root departs from the genesis configuration, one
\* at a time, and before the last unit of time.  A second one is reached but
\* nothing happens under both.
Disturbances ==
    {d \in 1 .. 8 : \/ d = 1 /\ Paused
                    \/ d = 2 /\ switched
                    \/ d = 3 /\ GlobalWarningThreshold # MCGenesisConfig.GlobalWarningThreshold
                    \/ d = 4 /\ Permissions[RIO] # OwnedBy(root)
                    \/ d = 5 /\ Restrictions[SBTC] # {}
                    \/ d = 6 /\ Restrictions[RIO] # {}
                    \/ d = 7 /\ LoanCap # NoCap
                    \/ d = 8 /\ NextLoanPackageId > 1 /\ ActiveLoanPackages = {}}
OneDisturbance ==
    /\ Cardinality(Disturbances) <= 1
    /\ Disturbances = {} \/ now < 3
=============================================================================
