------------------------------- MODULE Bridge -------------------------------
(***************************************************************************)
(* rio-bridge: the federated Bitcoin bridge, over the ledger of Assets.    *)
(*                                                                         *)
(* Admins report Bitcoin deposits, which mint SBTC at once or, from the    *)
(* KYC threshold on, are held until the account is marked; withdrawals     *)
(* move SBTC to a vault until an admin finishes or refunds them.           *)
(*                                                                         *)
(* A dispatchable that returns Err keeps what it wrote before: there is no *)
(* transactional storage.  `deposit` and `mark_white` have such a path.    *)
(***************************************************************************)
EXTENDS Assets, Integers, Sequences, SequencesExt

CONSTANTS
    TxHash,              \* Bitcoin transactions
    NoDeposit,           \* the empty Option of DepositHistory
    NoAuth,              \* an account without entry in Admins
    Unlisted,            \* an account without entry in List
    SBTC,                \* storage item AssetId, set at genesis only
    Threshold,           \* set at genesis only
    PendingWithdrawVault,\* set at genesis only
    GenesisAdmins,       \* Admins at genesis
    AdminCandidate,      \* the accounts root appoints or dismisses
    NewAuth,             \* the authorisations root gives them
    Client,              \* the accounts named in deposits, withdrawals and marks
    MaxPendingWithdraws  \* bound on the withdrawals pending for one account

Auth == {"All", "Deposit", "Withdraw", "Refund", "Mark"}
BlackOrWhite == {"Black", "White"}
DepositRecord == [account_id : AccountId, amount : Balance]
HeldDeposit == [account_id : AccountId, amount : Balance, tx_hash : TxHash]

ASSUME BridgeAssumption ==
    /\ SBTC \in GenesisSymbols
    /\ Threshold \in Balance
    /\ PendingWithdrawVault \in AccountId
    /\ GenesisAdmins \in [AccountId -> Auth \cup {NoAuth}]
    /\ AdminCandidate \subseteq AccountId
    /\ NewAuth \subseteq Auth
    /\ Client \subseteq AccountId
    /\ MaxPendingWithdraws \in Nat
    /\ NoDeposit \notin DepositRecord
    /\ NoAuth \notin Auth
    /\ Unlisted \notin BlackOrWhite
\* Only the bridge itself spends from the vault.
ASSUME VaultAssumption == PendingWithdrawVault \notin Client

VARIABLES
    Paused,
    List,
    Admins,
    PendingDepositList,
    DepositHistory,
    PendingWithdraws,
    credited,            \* ghost: how often a transaction has minted SBTC
    lost,                \* ghost: transactions whose direct deposit failed to mint
    btcHeld              \* ghost: Bitcoin received for minted SBTC, minus paid out

depositVars == <<PendingDepositList, DepositHistory, credited, lost>>
bridgeVars == <<Paused, List, Admins, depositVars, PendingWithdraws, btcHeld>>
vars == <<assetVars, bridgeVars>>

-----------------------------------------------------------------------------
has_auth(who, auth) == Admins[who] \in {"All", auth}

is_tx_seen(t) == DepositHistory[t] # NoDeposit

\* Slip: an account without an entry in the list passes.
NeedsKyc_listed(account, amount) == amount >= Threshold /\ List[account] = "Black"

NeedsKyc(account, amount) == amount >= Threshold /\ List[account] # "White"

\* Slip: a single pending withdrawal is read instead of taken, so it stays.
remove_from_pending_withdraws_get(who, amount) ==
    [PendingWithdraws EXCEPT ![who] = IF Len(@) > 1 THEN RemoveFirst(@, amount) ELSE @]

\* The first entry of this amount goes.
remove_from_pending_withdraws(who, amount) ==
    [PendingWithdraws EXCEPT ![who] = RemoveFirst(@, amount)]

\* Held deposits of one account, and what the first k of them add up to.
HeldAmount(held, k) == SumFunction([i \in 1 .. k |-> held[i].amount])

\* mark_white mints the held deposits in order until one fails.  Existence and
\* permission are the same for all, and amounts add up, so the first k succeed
\* exactly when their sum can be minted.
MintableHeld(account, held) ==
    CHOOSE k \in 0 .. Len(held) :
        /\ k = 0 \/ MintFreeOk(SBTC, account, HeldAmount(held, k))
        /\ k = Len(held) \/ ~MintFreeOk(SBTC, account, HeldAmount(held, k + 1))

LedgerUnchangedExceptMint == UNCHANGED <<ReservedBalance, Permissions, Restrictions,
                                         Symbols, contextVars, rootKey>>

-----------------------------------------------------------------------------
Init ==
    /\ AssetsInit
    /\ Paused = FALSE
    /\ List = [w \in AccountId |-> Unlisted]
    /\ Admins = GenesisAdmins
    /\ PendingDepositList = [w \in AccountId |-> <<>>]
    /\ DepositHistory = [t \in TxHash |-> NoDeposit]
    /\ PendingWithdraws = [w \in AccountId |-> <<>>]
    /\ credited = [t \in TxHash |-> 0]
    /\ lost = {}
    /\ btcHeld = TotalIssuance[SBTC]

Pause ==
    /\ Paused' = TRUE
    /\ UNCHANGED <<assetVars, List, Admins, depositVars, PendingWithdraws, btcHeld>>

Resume ==
    /\ Paused' = FALSE
    /\ UNCHANGED <<assetVars, List, Admins, depositVars, PendingWithdraws, btcHeld>>

DeleteAdmin(who) ==
    /\ Admins' = [Admins EXCEPT ![who] = NoAuth]
    /\ UNCHANGED <<assetVars, Paused, List, depositVars, PendingWithdraws, btcHeld>>

UpdateAdmin(who, auth) ==
    /\ Admins' = [Admins EXCEPT ![who] = auth]
    /\ UNCHANGED <<assetVars, Paused, List, depositVars, PendingWithdraws, btcHeld>>

\* simple_deposit_with_event: the history is written before the mint, and stays
\* written when the mint fails.
SimpleDeposit(account, amount, t) ==
    /\ DepositHistory' = [DepositHistory EXCEPT ![t] =
                              [account_id |-> account, amount |-> amount]]
    /\ IF MintFreeOk(SBTC, account, amount)
       THEN /\ TotalIssuance' = Minted(SBTC, account, amount).issuance
            /\ FreeBalance' = Minted(SBTC, account, amount).free
            /\ credited' = [credited EXCEPT ![t] = @ + 1]
            /\ btcHeld' = btcHeld + amount
            /\ UNCHANGED lost
       ELSE /\ lost' = lost \cup {t}
            /\ UNCHANGED <<TotalIssuance, FreeBalance, credited, btcHeld>>
    /\ LedgerUnchangedExceptMint
    /\ UNCHANGED PendingDepositList

\* Slip: the held deposit keeps the empty tx_hash of its history record.
HoldDeposit_nohash(account, amount, t) ==
    /\ DepositHistory' = [DepositHistory EXCEPT ![t] =
                              [account_id |-> account, amount |-> amount]]
    /\ PendingDepositList' = [PendingDepositList EXCEPT ![account] =
           Append(@, [account_id |-> account, amount |-> amount, tx_hash |-> NoDeposit])]
    /\ UNCHANGED <<assetVars, credited, lost, btcHeld>>

\* hold_deposit_with_event.
HoldDeposit(account, amount, t) ==
    /\ DepositHistory' = [DepositHistory EXCEPT ![t] =
                              [account_id |-> account, amount |-> amount]]
    /\ PendingDepositList' = [PendingDepositList EXCEPT ![account] =
           Append(@, [account_id |-> account, amount |-> amount, tx_hash |-> t])]
    /\ UNCHANGED <<assetVars, credited, lost, btcHeld>>

Deposit(admin, account, amount, t) ==
    /\ ~is_tx_seen(t)
    /\ has_auth(admin, "Deposit")
    /\ \/ NeedsKyc(account, amount) /\ HoldDeposit(account, amount, t)
       \/ ~NeedsKyc(account, amount) /\ SimpleDeposit(account, amount, t)
    /\ UNCHANGED <<Paused, List, Admins, PendingWithdraws>>

PendingWithdrawFound(who, amount) == Contains(PendingWithdraws[who], amount)

Refund(admin, who, amount) ==
    /\ has_auth(admin, "Refund")
    /\ PendingWithdrawFound(who, amount)
    /\ MakeTransferOk(SBTC, PendingWithdrawVault, amount)
    /\ FreeBalance' = Transferred(SBTC, PendingWithdrawVault, who, amount)
    /\ PendingWithdraws' = remove_from_pending_withdraws(who, amount)
    /\ UNCHANGED <<TotalIssuance, ReservedBalance, Permissions, Restrictions, Symbols,
                   contextVars, rootKey, Paused, List, Admins, depositVars, btcHeld>>

\* The SBTC stays in the vault; the Bitcoin has been paid out.
WithdrawFinish(admin, who, amount) ==
    /\ has_auth(admin, "Withdraw")
    /\ PendingWithdrawFound(who, amount)
    /\ PendingWithdraws' = remove_from_pending_withdraws(who, amount)
    /\ btcHeld' = btcHeld - amount
    /\ UNCHANGED <<assetVars, Paused, List, Admins, depositVars>>

\* Slip: withdraw that records the request although the transfer failed.
Withdraw_unpaid(admin, who, amount) ==
    /\ has_auth(admin, "Withdraw")
    /\ Len(PendingWithdraws[who]) < MaxPendingWithdraws
    /\ FreeBalance' = IF MakeTransferOk(SBTC, who, amount)
                      THEN Transferred(SBTC, who, PendingWithdrawVault, amount)
                      ELSE FreeBalance
    /\ PendingWithdraws' = [PendingWithdraws EXCEPT ![who] = Append(@, amount)]
    /\ UNCHANGED <<TotalIssuance, ReservedBalance, Permissions, Restrictions, Symbols,
                   contextVars, rootKey, Paused, List, Admins, depositVars, btcHeld>>

Withdraw(admin, who, amount) ==
    /\ has_auth(admin, "Withdraw")
    /\ Len(PendingWithdraws[who]) < MaxPendingWithdraws
    /\ MakeTransferOk(SBTC, who, amount)
    /\ FreeBalance' = Transferred(SBTC, who, PendingWithdrawVault, amount)
    /\ PendingWithdraws' = [PendingWithdraws EXCEPT ![who] = Append(@, amount)]
    /\ UNCHANGED <<TotalIssuance, ReservedBalance, Permissions, Restrictions, Symbols,
                   contextVars, rootKey, Paused, List, Admins, depositVars, btcHeld>>

\* Slip: mark_black that reads the held deposits instead of taking them.
MarkBlack_get(admin, account) ==
    LET dropped == {d.tx_hash : d \in Range(PendingDepositList[account])}
    IN  /\ has_auth(admin, "Mark")
        /\ DepositHistory' = [t \in TxHash |->
                                  IF t \in dropped THEN NoDeposit ELSE DepositHistory[t]]
        /\ List' = [List EXCEPT ![account] = "Black"]
        /\ UNCHANGED <<assetVars, Paused, Admins, PendingDepositList, PendingWithdraws,
                       credited, lost, btcHeld>>

\* The held deposits are dropped and their transactions forgotten, so that they
\* can be reported again.
MarkBlack(admin, account) ==
    LET dropped == {d.tx_hash : d \in Range(PendingDepositList[account])}
    IN  /\ has_auth(admin, "Mark")
        /\ PendingDepositList' = [PendingDepositList EXCEPT ![account] = <<>>]
        /\ DepositHistory' = [t \in TxHash |->
                                  IF t \in dropped THEN NoDeposit ELSE DepositHistory[t]]
        /\ List' = [List EXCEPT ![account] = "Black"]
        /\ UNCHANGED <<assetVars, Paused, Admins, PendingWithdraws, credited, lost, btcHeld>>

\* Slip: mark_white that does not put the rest back when a mint fails.
Unminted_dropped(held, k) == <<>>

\* What stays held when the first k deposits have been minted.
Unminted(held, k) == SubSeq(held, k + 1, Len(held))

\* All held deposits are minted and the account is listed; or one mint fails,
\* the rest is put back, and the account is not listed.
MarkWhite(admin, account) ==
    LET held    == PendingDepositList[account]
        k       == MintableHeld(account, held)
        amount  == HeldAmount(held, k)
        minted  == {held[i].tx_hash : i \in 1 .. k}
        touched == {i \in 1 .. Len(held) : i <= k + 1}
    IN  /\ has_auth(admin, "Mark")
        /\ PendingDepositList' = [PendingDepositList EXCEPT ![account] = Unminted(held, k)]
        /\ DepositHistory' = [t \in TxHash |->
               IF \E i \in touched : held[i].tx_hash = t
               THEN LET d == held[CHOOSE i \in touched : held[i].tx_hash = t]
                    IN  [account_id |-> d.account_id, amount |-> d.amount]
               ELSE DepositHistory[t]]
        /\ TotalIssuance' = Minted(SBTC, account, amount).issuance
        /\ FreeBalance' = Minted(SBTC, account, amount).free
        /\ credited' = [t \in TxHash |-> IF t \in minted THEN credited[t] + 1 ELSE credited[t]]
        /\ btcHeld' = btcHeld + amount
        /\ List' = IF k = Len(held) THEN [List EXCEPT ![account] = "White"] ELSE List
        /\ LedgerUnchangedExceptMint
        /\ UNCHANGED <<Paused, Admins, PendingWithdraws, lost>>

-----------------------------------------------------------------------------
\* What happens to SBTC around the bridge: clients transfer it, root burns some
\* of theirs, and governance may make minting or transferring fail.  The vault
\* is assumed to be spent from by the bridge only, and nobody else mints SBTC.
Environment ==
    /\ \/ \E from, to \in Client, n \in Amount : Transfer(SBTC, from, to, n)
       \/ \E who \in Client, n \in Amount : Burn(SBTC, who, n)
       \/ \E p \in NewPermission : UpdatePermission(SBTC, p)
       \/ \E b \in BOOLEAN : UpdateRestriction(SBTC, "Transferable", b)
    /\ UNCHANGED bridgeVars

Next ==
    \/ Pause
    \/ Resume
    \/ \E who \in AdminCandidate : DeleteAdmin(who)
    \/ \E who \in AdminCandidate, auth \in NewAuth : UpdateAdmin(who, auth)
    \/ \E admin \in AccountId, who \in Client, n \in Amount, t \in TxHash :
           Deposit(admin, who, n, t)
    \/ \E admin \in AccountId, who \in Client, n \in Amount : Refund(admin, who, n)
    \/ \E admin \in AccountId, who \in Client, n \in Amount : WithdrawFinish(admin, who, n)
    \/ \E admin \in AccountId, who \in Client, n \in Amount : Withdraw(admin, who, n)
    \/ \E admin \in AccountId, who \in Client : MarkBlack(admin, who)
    \/ \E admin \in AccountId, who \in Client : MarkWhite(admin, who)
    \/ Environment

Spec == Init /\ [][Next]_vars

-----------------------------------------------------------------------------
\* The storage of the bridge holds values of the declared types.
BridgeTypeOK ==
    /\ Paused \in BOOLEAN
    /\ List \in [AccountId -> BlackOrWhite \cup {Unlisted}]
    /\ Admins \in [AccountId -> Auth \cup {NoAuth}]
    /\ PendingDepositList \in [AccountId -> Seq(HeldDeposit)]
    /\ DepositHistory \in [TxHash -> DepositRecord \cup {NoDeposit}]
    /\ PendingWithdraws \in [AccountId -> Seq(Balance)]
    /\ credited \in [TxHash -> Nat]
    /\ lost \subseteq TxHash

\* Where transaction t is held: account and position.
HeldAt(t, w, i) == i \in 1 .. Len(PendingDepositList[w])
                       /\ PendingDepositList[w][i].tx_hash = t

\* No Bitcoin transaction ever mints SBTC twice, however it is held, dropped by
\* mark_black, reported again, released by mark_white or cut short by a failing
\* mint.  DepositHistory is kept "in case of double spent" (lib.rs line 83),
\* but mark_black removes entries from it.
CreditedOnce == \A t \in TxHash : credited[t] <= 1

\* A held deposit is recorded in DepositHistory under its own account and
\* amount, has not been credited, and is held in one place only: what
\* mark_black and mark_white rely on when they forget or mint by tx_hash.
HeldIsRecorded ==
    \A t \in TxHash, w \in AccountId : \A i \in 1 .. Len(PendingDepositList[w]) :
        PendingDepositList[w][i].tx_hash = t =>
            /\ PendingDepositList[w][i].account_id = w
            /\ DepositHistory[t] = [account_id |-> w, amount |-> PendingDepositList[w][i].amount]
            /\ credited[t] = 0
            /\ t \notin lost
            /\ \A v \in AccountId : \A j \in 1 .. Len(PendingDepositList[v]) :
                   PendingDepositList[v][j].tx_hash = t => v = w /\ j = i

\* A transaction that DepositHistory refuses to take again has been credited or
\* is still held, with one exception: a direct deposit whose mint failed, which
\* simple_deposit_with_event records before it mints (lib.rs 259-265).
NoSilentLoss ==
    \A t \in TxHash : is_tx_seen(t) =>
        \/ credited[t] = 1
        \/ \E w \in AccountId : \E i \in 1 .. Len(PendingDepositList[w]) : HeldAt(t, w, i)
        \/ t \in lost

\* A transaction that may be reported has not been credited or lost: mark_black forgets
\* only what it takes out of the held deposits.
UnseenIsFresh == \A t \in TxHash : ~is_tx_seen(t) => credited[t] = 0 /\ t \notin lost

\* What the bridge maintains about deposits; inductive together with the types.
DepositInv == UnseenIsFresh /\ CreditedOnce /\ HeldIsRecorded /\ NoSilentLoss

IsHeld(t) == \E w \in AccountId : \E i \in 1 .. Len(PendingDepositList[w]) : HeldAt(t, w, i)

\* The stage of a transaction, in the terms of Deposits.
Stage(t) ==
    IF credited[t] > 0 THEN "credited"
    ELSE IF t \in lost THEN "lost"
    ELSE IF IsHeld(t) THEN "held" ELSE "unseen"

Promise == INSTANCE Deposits WITH
               Transaction <- TxHash, Claim <- DepositRecord, NoClaim <- NoDeposit,
               stage <- [t \in TxHash |-> Stage(t)], claim <- DepositHistory

\* The bridge keeps the promise of Deposits: whatever the order of reports,
\* marks and failing mints, no transaction leaves the stages credited and lost,
\* its account and amount stay those of its report, and mark_black forgets all
\* of what an account has held or nothing.
ImplementsDeposits == Promise!Spec

\* An amount above the threshold reaches an account that is not whitelisted only
\* after it has been held for KYC, however the account has been marked in the
\* meantime (lib.rs 142-147; "deposit amount above this amount will trigger KYC",
\* line 75).
KycBeforeCredit ==
    [][\A t \in TxHash : credited'[t] > credited[t] =>
          LET d == DepositHistory'[t]
          IN  \/ d.amount <= Threshold
              \/ List[d.account_id] = "White"
              \/ \E i \in 1 .. Len(PendingDepositList[d.account_id]) :
                     HeldAt(t, d.account_id, i)]_vars

PendingTotal == SumFunction([w \in Client |-> SumFunction(PendingWithdraws[w])])

\* The vault holds what it takes to refund all pending withdrawals ("withdraw
\* balance should be put here", lib.rs line 87).
VaultCoversPendingWithdraws == PendingTotal <= FreeBalance[SBTC][PendingWithdrawVault]

\* SBTC outside the vault, plus withdrawals the federation still has to pay, is
\* never more than the Bitcoin it holds, although withdraw_finish burns nothing.
Backed ==
    SumFunctionOnSet(FreeBalance[SBTC], AccountId \ {PendingWithdrawVault}) + PendingTotal
        <= btcHeld
=============================================================================
