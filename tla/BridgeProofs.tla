---------------------------- MODULE BridgeProofs ----------------------------
(***************************************************************************)
(* Theorems about the bridge, for any number of accounts, transactions and *)
(* amounts.  The first part is about the bridge's storage, and needs of    *)
(* the ledger only which steps leave the bridge alone; the second is about *)
(* the money.                                                              *)
(***************************************************************************)
EXTENDS Bridge, AssetsProofs

\* Removing the first entry of an amount leaves a sequence of balances.
LEMMA RemoveFirstType ==
    ASSUME NEW S, NEW s \in Seq(S), NEW e
    PROVE  RemoveFirst(s, e) \in Seq(S)
<1>1. CASE \E i \in 1 .. Len(s) : s[i] = e
  <2> DEFINE I == {i \in 1 .. Len(s) : s[i] = e}
  <2>1. I # {} /\ I \in SUBSET Nat /\ I \subseteq 1 .. Len(s)
    BY <1>1
  <2>2. Min(I) \in I
    BY <2>1, LeastElement DEF Min
  <2>3. RemoveFirst(s, e) = SubSeq(s, 1, Min(I) - 1) \o SubSeq(s, Min(I) + 1, Len(s))
    BY <1>1, <2>1 DEF RemoveFirst, RemoveAt, SelectInSeq
  <2>4. Min(I) \in 1 .. Len(s)
    BY <2>1, <2>2
  <2> HIDE DEF I
  <2>5. SubSeq(s, 1, Min(I) - 1) \in Seq(S) /\ SubSeq(s, Min(I) + 1, Len(s)) \in Seq(S)
    BY <2>4
  <2> QED BY <2>3, <2>5
<1>2. CASE ~\E i \in 1 .. Len(s) : s[i] = e
  BY <1>2 DEF RemoveFirst
<1> QED BY <1>1, <1>2

\* The number of held deposits that mark_white mints is well defined, and what
\* they add up to can be minted.
LEMMA MintableHeldIsMintable ==
    ASSUME NEW account, NEW held, Len(held) \in Nat
    PROVE  LET k == MintableHeld(account, held)
           IN  /\ k \in 0 .. Len(held)
               /\ k = 0 \/ MintFreeOk(SBTC, account, HeldAmount(held, k))
<1> DEFINE Ok(k) == MintFreeOk(SBTC, account, HeldAmount(held, k))
           T == {k \in 0 .. Len(held) : k = Len(held) \/ ~Ok(k + 1)}
<1>1. Len(held) \in T /\ T \in SUBSET Nat
  OBVIOUS
<1>2. PICK m \in T : \A k \in T : m <= k
  BY <1>1, LeastElement
<1>3. m = 0 \/ Ok(m)
  <2> HIDE DEF Ok
  <2>1. SUFFICES ASSUME m # 0 PROVE Ok(m)
    OBVIOUS
  <2>a. m \in 1 .. Len(held)
    BY <2>1
  <2>b. m - 1 \notin T
    <3> HIDE DEF T
    <3> QED BY <1>2, <2>a
  <2>2. m - 1 \in 0 .. Len(held) /\ m - 1 # Len(held) /\ m - 1 \notin T
    BY <2>a, <2>b
  <2>3. Ok((m - 1) + 1)
    BY <2>2
  <2>4. (m - 1) + 1 = m
    BY <1>1
  <2> QED BY <2>3, <2>4
<1>4. \E k \in 0 .. Len(held) : /\ k = 0 \/ Ok(k)
                                /\ k = Len(held) \/ ~Ok(k + 1)
  BY <1>2, <1>3
<1> QED BY <1>4 DEF MintableHeld

\* The number of held deposits that mark_white mints is at most their number.
LEMMA MintableHeldInRange ==
    ASSUME NEW account, NEW held, Len(held) \in Nat
    PROVE  MintableHeld(account, held) \in 0 .. Len(held)
  BY MintableHeldIsMintable

-----------------------------------------------------------------------------
\* Steps of the bridge that leave deposits alone, as far as types go.
LEMMA OtherStepsType ==
    ASSUME BridgeTypeOK,
           \/ Pause
           \/ Resume
           \/ \E who \in AdminCandidate : DeleteAdmin(who)
           \/ \E who \in AdminCandidate, auth \in NewAuth : UpdateAdmin(who, auth)
           \/ Environment
           \/ UNCHANGED vars
    PROVE  BridgeTypeOK'
  BY BridgeAssumption
  DEF BridgeTypeOK, Pause, Resume, DeleteAdmin, UpdateAdmin, Environment, vars, bridgeVars,
      depositVars

\* Withdrawals, their refund and their end keep PendingWithdraws well typed.
LEMMA WithdrawStepsType ==
    ASSUME BridgeTypeOK, NEW admin \in AccountId, NEW who \in Client, NEW n \in Amount,
           Refund(admin, who, n) \/ WithdrawFinish(admin, who, n) \/ Withdraw(admin, who, n)
    PROVE  BridgeTypeOK'
<1> USE BridgeAssumption, AmountAssumption
<1>0. who \in AccountId /\ n \in Balance /\ PendingWithdraws[who] \in Seq(Balance)
  BY DEF BridgeTypeOK
<1>1. RemoveFirst(PendingWithdraws[who], n) \in Seq(Balance)
  BY <1>0, RemoveFirstType
<1>2. Append(PendingWithdraws[who], n) \in Seq(Balance)
  BY <1>0
<1>3. PendingWithdraws' \in [AccountId -> Seq(Balance)]
  BY <1>0, <1>1, <1>2
  DEF Refund, WithdrawFinish, Withdraw, remove_from_pending_withdraws, BridgeTypeOK
<1> QED
  BY <1>3 DEF BridgeTypeOK, Refund, WithdrawFinish, Withdraw, depositVars

\* Reporting a deposit keeps the records well typed.
LEMMA DepositType ==
    ASSUME BridgeTypeOK, NEW admin \in AccountId, NEW who \in Client, NEW n \in Amount,
           NEW t \in TxHash, Deposit(admin, who, n, t)
    PROVE  BridgeTypeOK'
<1> USE BridgeAssumption, AmountAssumption
<1>0. who \in AccountId /\ n \in Balance
  OBVIOUS
<1>1. CASE HoldDeposit(who, n, t)
  <2>1. [account_id |-> who, amount |-> n] \in DepositRecord
    BY <1>0 DEF DepositRecord
  <2>2. [account_id |-> who, amount |-> n, tx_hash |-> t] \in HeldDeposit
    BY <1>0 DEF HeldDeposit
  <2>3. PendingDepositList' \in [AccountId -> Seq(HeldDeposit)]
    BY <1>0, <1>1, <2>2 DEF HoldDeposit, BridgeTypeOK
  <2>4. DepositHistory' \in [TxHash -> DepositRecord \cup {NoDeposit}]
    BY <1>1, <2>1 DEF HoldDeposit, BridgeTypeOK
  <2> QED BY <1>1, <2>3, <2>4 DEF Deposit, HoldDeposit, BridgeTypeOK
<1>2. CASE SimpleDeposit(who, n, t)
  <2>1. [account_id |-> who, amount |-> n] \in DepositRecord
    BY <1>0 DEF DepositRecord
  <2>2. DepositHistory' \in [TxHash -> DepositRecord \cup {NoDeposit}]
    BY <1>2, <2>1 DEF SimpleDeposit, BridgeTypeOK
  <2>3. credited' \in [TxHash -> Nat] /\ lost' \subseteq TxHash
    BY <1>2 DEF SimpleDeposit, BridgeTypeOK
  <2> QED BY <1>2, <2>2, <2>3 DEF Deposit, SimpleDeposit, BridgeTypeOK
<1> QED BY <1>1, <1>2 DEF Deposit

\* Marking an account keeps the records well typed.
LEMMA MarkType ==
    ASSUME BridgeTypeOK, NEW admin \in AccountId, NEW who \in Client,
           MarkBlack(admin, who) \/ MarkWhite(admin, who)
    PROVE  BridgeTypeOK'
<1> USE BridgeAssumption
<1> DEFINE held == PendingDepositList[who]
           k == MintableHeld(who, held)
<1>0. who \in AccountId /\ held \in Seq(HeldDeposit)
  BY DEF BridgeTypeOK
<1>1. CASE MarkBlack(admin, who)
  BY <1>0, <1>1 DEF MarkBlack, BridgeTypeOK, BlackOrWhite
<1>2. CASE MarkWhite(admin, who)
  <2>0. k \in 0 .. Len(held)
    BY <1>0, MintableHeldInRange
  <2>1. SubSeq(held, k + 1, Len(held)) \in Seq(HeldDeposit)
    BY <1>0, <2>0
  <2>2. PendingDepositList' \in [AccountId -> Seq(HeldDeposit)]
    BY <1>0, <1>2, <2>1 DEF MarkWhite, Unminted, BridgeTypeOK
  <2>3. DepositHistory' \in [TxHash -> DepositRecord \cup {NoDeposit}]
    <3> DEFINE touched == {i \in 1 .. Len(held) : i <= k + 1}
    <3> SUFFICES ASSUME NEW t \in TxHash
                 PROVE  DepositHistory'[t] \in DepositRecord \cup {NoDeposit}
      BY <1>2 DEF MarkWhite
    <3>1. CASE \E i \in touched : held[i].tx_hash = t
      <4>1. PICK i \in touched : DepositHistory'[t] =
                  [account_id |-> held[i].account_id, amount |-> held[i].amount]
        BY <1>2, <3>1 DEF MarkWhite
      <4>2. held[i] \in HeldDeposit
        BY <1>0
      <4> QED BY <4>1, <4>2 DEF HeldDeposit, DepositRecord
    <3>2. CASE ~\E i \in touched : held[i].tx_hash = t
      BY <1>2, <3>2 DEF MarkWhite, BridgeTypeOK
    <3> QED BY <3>1, <3>2
  <2>4. credited' \in [TxHash -> Nat]
    BY <1>2 DEF MarkWhite, BridgeTypeOK
  <2>5. List' \in [AccountId -> BlackOrWhite \cup {Unlisted}]
    BY <1>0, <1>2 DEF MarkWhite, BridgeTypeOK, BlackOrWhite
  <2> QED BY <1>2, <2>2, <2>3, <2>4, <2>5 DEF MarkWhite, BridgeTypeOK
<1> QED BY <1>1, <1>2

\* The bridge's storage is well typed in every reachable state.
THEOREM BridgeTypeCorrect == Spec => []BridgeTypeOK
<1>1. Init => BridgeTypeOK
  <2> SUFFICES ASSUME Init PROVE BridgeTypeOK
    OBVIOUS
  <2>1. Paused \in BOOLEAN
    BY DEF Init
  <2>2. List \in [AccountId -> BlackOrWhite \cup {Unlisted}]
    BY DEF Init
  <2>3. Admins \in [AccountId -> Auth \cup {NoAuth}]
    BY BridgeAssumption DEF Init
  <2>4. /\ PendingDepositList \in [AccountId -> Seq(HeldDeposit)]
        /\ PendingWithdraws \in [AccountId -> Seq(Balance)]
    BY DEF Init
  <2>5. /\ DepositHistory \in [TxHash -> DepositRecord \cup {NoDeposit}]
        /\ credited \in [TxHash -> Nat]
        /\ lost \subseteq TxHash
    BY DEF Init
  <2> QED BY <2>1, <2>2, <2>3, <2>4, <2>5 DEF BridgeTypeOK
<1>2. BridgeTypeOK /\ [Next]_vars => BridgeTypeOK'
  BY OtherStepsType, WithdrawStepsType, DepositType, MarkType DEF Next
<1> QED BY <1>1, <1>2, PTL DEF Spec

-----------------------------------------------------------------------------
\* The deposit invariant is about depositVars only.
LEMMA DepositInvUnchanged ==
    ASSUME DepositInv, UNCHANGED depositVars
    PROVE  DepositInv'
  BY DEF DepositInv, UnseenIsFresh, CreditedOnce, HeldIsRecorded, NoSilentLoss, HeldAt,
         is_tx_seen, depositVars

\* A transaction that has not been seen is held nowhere.
LEMMA UnseenNotHeld ==
    ASSUME BridgeTypeOK, DepositInv, NEW t \in TxHash, ~is_tx_seen(t),
           NEW w \in AccountId, NEW i \in 1 .. Len(PendingDepositList[w])
    PROVE  PendingDepositList[w][i].tx_hash # t
<1>1. PendingDepositList[w][i] \in HeldDeposit
  BY DEF BridgeTypeOK
<1>2. [account_id |-> w, amount |-> PendingDepositList[w][i].amount] \in DepositRecord
  BY <1>1 DEF HeldDeposit, DepositRecord
<1> QED BY <1>2, BridgeAssumption DEF DepositInv, HeldIsRecorded, is_tx_seen

\* What the invariant says of a held deposit.
LEMMA HeldFacts ==
    ASSUME DepositInv, NEW u \in TxHash, NEW w \in AccountId,
           NEW i \in 1 .. Len(PendingDepositList[w]), PendingDepositList[w][i].tx_hash = u
    PROVE  /\ PendingDepositList[w][i].account_id = w
           /\ DepositHistory[u] =
                  [account_id |-> w, amount |-> PendingDepositList[w][i].amount]
           /\ credited[u] = 0
           /\ u \notin lost
           /\ \A v \in AccountId : \A j \in 1 .. Len(PendingDepositList[v]) :
                  PendingDepositList[v][j].tx_hash = u => v = w /\ j = i
  BY DEF DepositInv, HeldIsRecorded

\* A transaction is held in one place only.
LEMMA HeldOnce ==
    ASSUME DepositInv, NEW u \in TxHash, NEW w \in AccountId,
           NEW i \in 1 .. Len(PendingDepositList[w]), PendingDepositList[w][i].tx_hash = u
    PROVE  \A v \in AccountId : \A j \in 1 .. Len(PendingDepositList[v]) :
               PendingDepositList[v][j].tx_hash = u => v = w /\ j = i
<1>1. /\ PendingDepositList[w][i].account_id = w
      /\ DepositHistory[u] = [account_id |-> w, amount |-> PendingDepositList[w][i].amount]
      /\ credited[u] = 0
      /\ u \notin lost
      /\ \A v \in AccountId : \A j \in 1 .. Len(PendingDepositList[v]) :
             PendingDepositList[v][j].tx_hash = u => v = w /\ j = i
  BY DEF DepositInv, HeldIsRecorded
<1> QED BY <1>1

\* Two places that hold the same transaction are the same place.
LEMMA HeldUnique ==
    ASSUME DepositInv, NEW u \in TxHash,
           NEW w \in AccountId, NEW i \in 1 .. Len(PendingDepositList[w]),
           NEW v \in AccountId, NEW j \in 1 .. Len(PendingDepositList[v]),
           PendingDepositList[w][i].tx_hash = u, PendingDepositList[v][j].tx_hash = u
    PROVE  v = w /\ j = i
<1> DEFINE Once(x, n) == \A z \in AccountId : \A m \in 1 .. Len(PendingDepositList[z]) :
                             PendingDepositList[z][m].tx_hash = u => z = x /\ m = n
<1>1. ASSUME NEW x \in AccountId, NEW n \in 1 .. Len(PendingDepositList[x]),
             PendingDepositList[x][n].tx_hash = u
      PROVE  Once(x, n)
  BY <1>1, HeldOnce
<1>2. Once(w, i)
  <2> HIDE DEF Once
  <2> QED BY <1>1
<1> QED BY <1>2

\* What is left of a sequence without its first k elements.
LEMMA WithoutFirst ==
    ASSUME NEW S, NEW s \in Seq(S), NEW k \in 0 .. Len(s)
    PROVE  /\ Len(SubSeq(s, k + 1, Len(s))) = Len(s) - k
           /\ \A i \in 1 .. Len(s) - k : SubSeq(s, k + 1, Len(s))[i] = s[i + k]
<1>1. k \in Nat /\ Len(s) \in Nat /\ k + 1 \in Int /\ Len(s) \in Int
  BY LenProperties
<1>2. \A i \in (k + 1) .. Len(s) : s[i] \in S
  BY <1>1, ElementOfSeq
<1>3. Len(SubSeq(s, k + 1, Len(s))) = IF k + 1 <= Len(s) THEN Len(s) - (k + 1) + 1 ELSE 0
  BY <1>1, <1>2, SubSeqProperties
<1>4. \A i \in 1 .. Len(s) - (k + 1) + 1 : SubSeq(s, k + 1, Len(s))[i] = s[(k + 1) + i - 1]
  BY <1>1, <1>2, SubSeqProperties
<1>5. Len(s) - (k + 1) + 1 = Len(s) - k
  BY <1>1
<1>6. \A i \in 1 .. Len(s) - k : (k + 1) + i - 1 = i + k
  BY <1>1
<1>7. Len(SubSeq(s, k + 1, Len(s))) = Len(s) - k
  BY <1>1, <1>3
<1>8. ASSUME NEW i \in 1 .. Len(s) - k
      PROVE  SubSeq(s, k + 1, Len(s))[i] = s[i + k]
  <2>1. SubSeq(s, k + 1, Len(s))[i] = s[(k + 1) + i - 1]
    BY <1>4, <1>5
  <2> QED BY <1>6, <2>1
<1> QED BY <1>7, <1>8

\* Holding a new deposit preserves the deposit invariant.
LEMMA HoldPreserves ==
    ASSUME BridgeTypeOK, DepositInv, NEW who \in AccountId, NEW n \in Balance,
           NEW t \in TxHash, ~is_tx_seen(t), HoldDeposit(who, n, t)
    PROVE  DepositInv'
<1> DEFINE P == PendingDepositList
           rec == [account_id |-> who, amount |-> n]
           dep == [account_id |-> who, amount |-> n, tx_hash |-> t]
<1>0. \A w \in AccountId : P[w] \in Seq(HeldDeposit)
  BY DEF BridgeTypeOK
<1>1. /\ P' = [P EXCEPT ![who] = Append(P[who], dep)]
      /\ DepositHistory' = [DepositHistory EXCEPT ![t] = rec]
      /\ credited' = credited
      /\ lost' = lost
  BY DEF HoldDeposit
<1>2. rec # NoDeposit
  BY BridgeAssumption DEF DepositRecord
<1>3. \A w \in AccountId : w # who => P'[w] = P[w]
  BY <1>1 DEF BridgeTypeOK
<1>4. P'[who] = Append(P[who], dep)
  BY <1>1 DEF BridgeTypeOK
<1>5. /\ Len(P'[who]) = Len(P[who]) + 1
      /\ \A i \in 1 .. Len(P[who]) : P'[who][i] = P[who][i]
      /\ P'[who][Len(P[who]) + 1] = dep
  BY <1>0, <1>4
<1>6. ASSUME NEW w \in AccountId, NEW i \in 1 .. Len(P'[w])
      PROVE  \/ w = who /\ i = Len(P[who]) + 1 /\ P'[w][i] = dep
             \/ i \in 1 .. Len(P[w]) /\ P'[w][i] = P[w][i] /\ P[w][i].tx_hash # t
  <2>1. CASE w = who
    BY <1>0, <1>5, <2>1, UnseenNotHeld
  <2>2. CASE w # who
    BY <1>3, <2>2, UnseenNotHeld
  <2> QED BY <2>1, <2>2
<1>7. ASSUME NEW w \in AccountId, NEW i \in 1 .. Len(P[w])
      PROVE  i \in 1 .. Len(P'[w]) /\ P'[w][i] = P[w][i]
  <2>1. CASE w = who
    BY <1>0, <1>5, <2>1
  <2>2. CASE w # who
    BY <1>3, <2>2
  <2> QED BY <2>1, <2>2
<1>8. \A u \in TxHash : DepositHistory'[u] = IF u = t THEN rec ELSE DepositHistory[u]
  BY <1>1 DEF BridgeTypeOK
<1>9. credited[t] = 0 /\ t \notin lost
  BY DEF DepositInv, UnseenIsFresh
<1>10. UnseenIsFresh'
  BY <1>1, <1>2, <1>8 DEF DepositInv, UnseenIsFresh, is_tx_seen
<1>11. CreditedOnce'
  BY <1>1 DEF DepositInv, CreditedOnce
<1>12. HeldIsRecorded'
  <2> SUFFICES ASSUME NEW u \in TxHash, NEW w \in AccountId, NEW i \in 1 .. Len(P'[w]),
                      P'[w][i].tx_hash = u
               PROVE  /\ P'[w][i].account_id = w
                      /\ DepositHistory'[u] = [account_id |-> w, amount |-> P'[w][i].amount]
                      /\ credited'[u] = 0
                      /\ u \notin lost'
                      /\ \A v \in AccountId : \A j \in 1 .. Len(P'[v]) :
                             P'[v][j].tx_hash = u => v = w /\ j = i
    BY DEF HeldIsRecorded
  <2> HIDE DEF P
  <2>1. CASE u = t
    BY <1>1, <1>6, <1>8, <1>9, <2>1
  <2>2. CASE u # t
    <3>1. i \in 1 .. Len(P[w]) /\ P'[w][i] = P[w][i]
      BY <1>6, <2>2
    <3>2. /\ P[w][i].account_id = w
          /\ DepositHistory[u] = [account_id |-> w, amount |-> P[w][i].amount]
          /\ credited[u] = 0
          /\ u \notin lost
          /\ \A v \in AccountId : \A j \in 1 .. Len(P[v]) :
                 P[v][j].tx_hash = u => v = w /\ j = i
      BY <3>1 DEF DepositInv, HeldIsRecorded, P
    <3>3. ASSUME NEW v \in AccountId, NEW j \in 1 .. Len(P'[v]), P'[v][j].tx_hash = u
          PROVE  v = w /\ j = i
      <4>1. j \in 1 .. Len(P[v]) /\ P'[v][j] = P[v][j]
        BY <1>6, <2>2, <3>3
      <4> QED BY <3>2, <3>3, <4>1
    <3> QED BY <1>1, <1>8, <2>2, <3>1, <3>2, <3>3
  <2> QED BY <2>1, <2>2
<1>13. NoSilentLoss'
  <2> SUFFICES ASSUME NEW u \in TxHash, is_tx_seen(u)', ~(credited'[u] = 1), u \notin lost'
               PROVE  \E w \in AccountId : \E i \in 1 .. Len(P'[w]) : P'[w][i].tx_hash = u
    BY DEF NoSilentLoss, HeldAt
  <2>1. CASE u = t
    BY <1>0, <1>5, <2>1
  <2>2. CASE u # t
    <3>1. is_tx_seen(u) /\ ~(credited[u] = 1) /\ u \notin lost
      BY <1>1, <1>8, <2>2 DEF is_tx_seen
    <3>2. PICK w \in AccountId : \E i \in 1 .. Len(P[w]) : P[w][i].tx_hash = u
      BY <3>1 DEF DepositInv, NoSilentLoss, HeldAt
    <3>3. PICK i \in 1 .. Len(P[w]) : P[w][i].tx_hash = u
      BY <3>2
    <3> QED BY <1>7, <3>3
  <2> QED BY <2>1, <2>2
<1> QED BY <1>10, <1>11, <1>12, <1>13 DEF DepositInv

\* A direct deposit, whether its mint succeeds or not, preserves it too.
LEMMA SimpleDepositPreserves ==
    ASSUME BridgeTypeOK, DepositInv, NEW who \in AccountId, NEW n \in Balance,
           NEW t \in TxHash, ~is_tx_seen(t), SimpleDeposit(who, n, t)
    PROVE  DepositInv'
<1> DEFINE P == PendingDepositList
           rec == [account_id |-> who, amount |-> n]
<1>1. P' = P /\ DepositHistory' = [DepositHistory EXCEPT ![t] = rec]
  BY DEF SimpleDeposit
<1>2. rec # NoDeposit
  BY BridgeAssumption DEF DepositRecord
<1>3. \A u \in TxHash : DepositHistory'[u] = IF u = t THEN rec ELSE DepositHistory[u]
  BY <1>1 DEF BridgeTypeOK
<1>4. credited[t] = 0 /\ t \notin lost
  BY DEF DepositInv, UnseenIsFresh
<1>5. /\ \A u \in TxHash : u # t => credited'[u] = credited[u] /\ (u \in lost' <=> u \in lost)
      /\ credited'[t] = 1 \/ (credited'[t] = 0 /\ t \in lost')
  BY <1>4 DEF SimpleDeposit, BridgeTypeOK
<1>6. \A w \in AccountId : \A i \in 1 .. Len(P[w]) : P[w][i].tx_hash # t
  BY UnseenNotHeld
<1>10. UnseenIsFresh'
  BY <1>2, <1>3, <1>5 DEF DepositInv, UnseenIsFresh, is_tx_seen
<1>11. CreditedOnce'
  BY <1>5 DEF DepositInv, CreditedOnce
<1>12. HeldIsRecorded'
  <2> SUFFICES ASSUME NEW u \in TxHash, NEW w \in AccountId, NEW i \in 1 .. Len(P[w]),
                      P[w][i].tx_hash = u
               PROVE  /\ P[w][i].account_id = w
                      /\ DepositHistory'[u] = [account_id |-> w, amount |-> P[w][i].amount]
                      /\ credited'[u] = 0
                      /\ u \notin lost'
                      /\ \A v \in AccountId : \A j \in 1 .. Len(P[v]) :
                             P[v][j].tx_hash = u => v = w /\ j = i
    BY <1>1 DEF HeldIsRecorded
  <2>1. /\ P[w][i].account_id = w
        /\ DepositHistory[u] = [account_id |-> w, amount |-> P[w][i].amount]
        /\ credited[u] = 0
        /\ u \notin lost
        /\ \A v \in AccountId : \A j \in 1 .. Len(P[v]) :
               P[v][j].tx_hash = u => v = w /\ j = i
    BY DEF DepositInv, HeldIsRecorded
  <2> QED BY <1>3, <1>5, <1>6, <2>1
<1>13. NoSilentLoss'
  <2> SUFFICES ASSUME NEW u \in TxHash, is_tx_seen(u)', ~(credited'[u] = 1), u \notin lost'
               PROVE  \E w \in AccountId : \E i \in 1 .. Len(P[w]) : P[w][i].tx_hash = u
    BY <1>1 DEF NoSilentLoss, HeldAt
  <2>1. u # t
    BY <1>5
  <2>2. is_tx_seen(u) /\ ~(credited[u] = 1) /\ u \notin lost
    BY <1>3, <1>5, <2>1 DEF is_tx_seen
  <2> QED BY <2>2 DEF DepositInv, NoSilentLoss, HeldAt
<1> QED BY <1>10, <1>11, <1>12, <1>13 DEF DepositInv

\* mark_black takes the held deposits and forgets exactly their transactions.
LEMMA MarkBlackPreserves ==
    ASSUME BridgeTypeOK, DepositInv, NEW admin \in AccountId, NEW who \in AccountId,
           MarkBlack(admin, who)
    PROVE  DepositInv'
<1> DEFINE P == PendingDepositList
           Dropped(u) == \E i \in 1 .. Len(P[who]) : P[who][i].tx_hash = u
<1>0. \A w \in AccountId : P[w] \in Seq(HeldDeposit)
  BY DEF BridgeTypeOK
<1>1. /\ P'[who] = <<>>
      /\ \A w \in AccountId : w # who => P'[w] = P[w]
      /\ credited' = credited
      /\ lost' = lost
  BY DEF MarkBlack, BridgeTypeOK
<1>2. \A u \in TxHash : DepositHistory'[u] = IF Dropped(u) THEN NoDeposit ELSE DepositHistory[u]
  <2>1. {d.tx_hash : d \in Range(P[who])} = {P[who][i].tx_hash : i \in 1 .. Len(P[who])}
    BY <1>0 DEF Range
  <2> QED BY <2>1 DEF MarkBlack
<1>3. ASSUME NEW u \in TxHash, Dropped(u)
      PROVE  credited[u] = 0 /\ u \notin lost
  <2>1. PICK i \in 1 .. Len(P[who]) : P[who][i].tx_hash = u
    BY <1>3
  <2> QED BY <2>1, HeldFacts
<1>4. ASSUME NEW w \in AccountId, NEW i \in 1 .. Len(P'[w])
      PROVE  w # who /\ i \in 1 .. Len(P[w]) /\ P'[w][i] = P[w][i]
  BY <1>1
<1>5. ASSUME NEW u \in TxHash, NEW w \in AccountId, w # who, NEW i \in 1 .. Len(P[w]),
             P[w][i].tx_hash = u
      PROVE  ~Dropped(u)
  <2> SUFFICES ASSUME NEW j \in 1 .. Len(P[who]), P[who][j].tx_hash = u
               PROVE  FALSE
    OBVIOUS
  <2> QED BY <1>5, HeldUnique
<1>10. UnseenIsFresh'
  BY <1>1, <1>2, <1>3 DEF DepositInv, UnseenIsFresh, is_tx_seen
<1>11. CreditedOnce'
  BY <1>1 DEF DepositInv, CreditedOnce
<1> HIDE DEF Dropped
<1>12. HeldIsRecorded'
  <2> SUFFICES ASSUME NEW u \in TxHash, NEW w \in AccountId, NEW i \in 1 .. Len(P'[w]),
                      P'[w][i].tx_hash = u
               PROVE  /\ P'[w][i].account_id = w
                      /\ DepositHistory'[u] = [account_id |-> w, amount |-> P'[w][i].amount]
                      /\ credited'[u] = 0
                      /\ u \notin lost'
                      /\ \A v \in AccountId : \A j \in 1 .. Len(P'[v]) :
                             P'[v][j].tx_hash = u => v = w /\ j = i
    BY DEF HeldIsRecorded
  <2>0. w # who /\ i \in 1 .. Len(P[w]) /\ P'[w][i] = P[w][i]
    BY <1>4
  <2>1. /\ P[w][i].account_id = w
        /\ DepositHistory[u] = [account_id |-> w, amount |-> P[w][i].amount]
        /\ credited[u] = 0
        /\ u \notin lost
        /\ \A v \in AccountId : \A j \in 1 .. Len(P[v]) :
               P[v][j].tx_hash = u => v = w /\ j = i
    BY <2>0 DEF DepositInv, HeldIsRecorded
  <2>2. ASSUME NEW v \in AccountId, NEW j \in 1 .. Len(P'[v]), P'[v][j].tx_hash = u
        PROVE  v = w /\ j = i
    <3> HIDE DEF P
    <3> QED BY <1>4, <2>1, <2>2
  <2>3. ~Dropped(u)
    BY <1>5, <2>0
  <2> QED BY <1>1, <1>2, <2>0, <2>1, <2>2, <2>3
<1>13. NoSilentLoss'
  <2> SUFFICES ASSUME NEW u \in TxHash, is_tx_seen(u)', ~(credited'[u] = 1), u \notin lost'
               PROVE  \E w \in AccountId : \E i \in 1 .. Len(P'[w]) : P'[w][i].tx_hash = u
    BY DEF NoSilentLoss, HeldAt
  <2>1. ~Dropped(u) /\ is_tx_seen(u) /\ ~(credited[u] = 1) /\ u \notin lost
    BY <1>1, <1>2 DEF is_tx_seen
  <2>2. PICK w \in AccountId : \E i \in 1 .. Len(P[w]) : P[w][i].tx_hash = u
    BY <2>1 DEF DepositInv, NoSilentLoss, HeldAt
  <2>3. w # who
    BY <2>1, <2>2 DEF Dropped
  <2> QED BY <1>1, <2>2, <2>3
<1> QED BY <1>10, <1>11, <1>12, <1>13 DEF DepositInv

\* mark_white writes the records of the held deposits it touches, and these are
\* the ones DepositHistory has.
LEMMA MarkWhiteKeepsHistory ==
    ASSUME BridgeTypeOK, DepositInv, NEW admin \in AccountId, NEW who \in AccountId,
           MarkWhite(admin, who)
    PROVE  DepositHistory' = DepositHistory
<1> DEFINE held == PendingDepositList[who]
           k == MintableHeld(who, held)
           touched == {i \in 1 .. Len(held) : i <= k + 1}
<1>1. ASSUME NEW u \in TxHash
      PROVE  DepositHistory'[u] = DepositHistory[u]
  <2>1. CASE \E i \in touched : held[i].tx_hash = u
    <3>1. PICK i \in touched :
              /\ held[i].tx_hash = u
              /\ DepositHistory'[u] = [account_id |-> held[i].account_id,
                                       amount |-> held[i].amount]
      BY <2>1 DEF MarkWhite
    <3>2. /\ held[i].account_id = who
          /\ DepositHistory[u] = [account_id |-> who, amount |-> held[i].amount]
      BY <3>1, HeldFacts
    <3> QED BY <3>1, <3>2
  <2>2. CASE ~\E i \in touched : held[i].tx_hash = u
    BY <2>2 DEF MarkWhite
  <2> QED BY <2>1, <2>2
<1>2. /\ DepositHistory' = [u \in TxHash |-> DepositHistory'[u]]
      /\ DepositHistory = [u \in TxHash |-> DepositHistory[u]]
  BY DEF MarkWhite, BridgeTypeOK
<1> QED BY <1>1, <1>2

\* mark_white credits the transactions it takes out of the held deposits, and
\* puts the others back, also when a mint fails on the way.
LEMMA MarkWhitePreserves ==
    ASSUME BridgeTypeOK, DepositInv, NEW admin \in AccountId, NEW who \in AccountId,
           MarkWhite(admin, who)
    PROVE  DepositInv'
<1> DEFINE P == PendingDepositList
           held == P[who]
           k == MintableHeld(who, held)
           IsMinted(u) == \E i \in 1 .. k : held[i].tx_hash = u
<1>0. held \in Seq(HeldDeposit) /\ k \in 0 .. Len(held)
  BY MintableHeldInRange DEF BridgeTypeOK
<1>1. /\ P'[who] = SubSeq(held, k + 1, Len(held))
      /\ \A w \in AccountId : w # who => P'[w] = P[w]
      /\ lost' = lost
  BY DEF MarkWhite, Unminted, BridgeTypeOK
<1>1a. /\ Len(P'[who]) = Len(held) - k
       /\ \A i \in 1 .. Len(held) - k : P'[who][i] = held[i + k]
  <2> HIDE DEF k, held
  <2> QED BY <1>0, <1>1, WithoutFirst
<1>2. \A u \in TxHash : credited'[u] = IF IsMinted(u) THEN credited[u] + 1 ELSE credited[u]
  BY DEF MarkWhite
<1>3. \A u \in TxHash : DepositHistory'[u] = DepositHistory[u]
  BY MarkWhiteKeepsHistory
<1>4. ASSUME NEW u \in TxHash, IsMinted(u)
      PROVE  credited[u] = 0 /\ u \notin lost /\ DepositHistory[u] # NoDeposit
  <2>1. PICK i \in 1 .. k : held[i].tx_hash = u
    BY <1>4
  <2>2. i \in 1 .. Len(held) /\ held[i] \in HeldDeposit
    BY <1>0
  <2>3. [account_id |-> who, amount |-> held[i].amount] \in DepositRecord
    BY <2>2 DEF HeldDeposit, DepositRecord
  <2> QED BY <2>1, <2>2, <2>3, HeldFacts, BridgeAssumption
<1>5. ASSUME NEW w \in AccountId, NEW i \in 1 .. Len(P'[w])
      PROVE  \E j \in 1 .. Len(P[w]) : /\ P'[w][i] = P[w][j]
                                       /\ j = IF w = who THEN i + k ELSE i
  <2>1. CASE w = who
    <3> HIDE DEF k
    <3>1. P'[who][i] = held[i + k]
      BY <1>1a, <2>1
    <3>2. i + k \in 1 .. Len(held)
      BY <1>0, <1>1a, <2>1
    <3> QED BY <2>1, <3>1, <3>2
  <2>2. CASE w # who
    BY <1>1, <2>2
  <2> QED BY <2>1, <2>2
<1>6. ASSUME NEW u \in TxHash, NEW w \in AccountId, NEW i \in 1 .. Len(P'[w]),
             P'[w][i].tx_hash = u
      PROVE  ~IsMinted(u)
  <2> SUFFICES ASSUME NEW m \in 1 .. k, held[m].tx_hash = u
               PROVE  FALSE
    OBVIOUS
  <2>1. PICK j \in 1 .. Len(P[w]) : P'[w][i] = P[w][j] /\ j = IF w = who THEN i + k ELSE i
    BY <1>5
  <2>2. m \in 1 .. Len(held)
    BY <1>0
  <2>4. w = who /\ j = m
    BY <1>6, <2>1, <2>2, HeldUnique
  <2> HIDE DEF k
  <2> QED BY <1>0, <2>1, <2>4
<1>7. ASSUME NEW w \in AccountId, NEW j \in 1 .. Len(P[w]), ~IsMinted(P[w][j].tx_hash)
      PROVE  \E i \in 1 .. Len(P'[w]) : P'[w][i] = P[w][j]
  <2>1. CASE w = who
    <3>1. j > k
      BY <1>0, <1>7, <2>1
    <3> HIDE DEF k
    <3>3. j - k \in 1 .. Len(P'[who]) /\ (j - k) + k = j
      BY <1>0, <1>1a, <2>1, <3>1
    <3>4. P'[who][j - k] = held[(j - k) + k]
      BY <1>1a, <3>3
    <3> QED BY <2>1, <3>3, <3>4
  <2>2. CASE w # who
    BY <1>1, <2>2
  <2> QED BY <2>1, <2>2
<1> HIDE DEF IsMinted, k
<1>10. UnseenIsFresh'
  BY <1>1, <1>2, <1>3, <1>4 DEF DepositInv, UnseenIsFresh, is_tx_seen
<1>11. CreditedOnce'
  BY <1>2, <1>4 DEF DepositInv, CreditedOnce
<1>12. HeldIsRecorded'
  <2> SUFFICES ASSUME NEW u \in TxHash, NEW w \in AccountId, NEW i \in 1 .. Len(P'[w]),
                      P'[w][i].tx_hash = u
               PROVE  /\ P'[w][i].account_id = w
                      /\ DepositHistory'[u] = [account_id |-> w, amount |-> P'[w][i].amount]
                      /\ credited'[u] = 0
                      /\ u \notin lost'
                      /\ \A v \in AccountId : \A j \in 1 .. Len(P'[v]) :
                             P'[v][j].tx_hash = u => v = w /\ j = i
    BY DEF HeldIsRecorded
  <2>1. PICK j \in 1 .. Len(P[w]) : P'[w][i] = P[w][j] /\ j = IF w = who THEN i + k ELSE i
    BY <1>5
  <2>2. /\ P[w][j].account_id = w
        /\ DepositHistory[u] = [account_id |-> w, amount |-> P[w][j].amount]
        /\ credited[u] = 0
        /\ u \notin lost
    BY <2>1, HeldFacts
  <2>3. ASSUME NEW v \in AccountId, NEW l \in 1 .. Len(P'[v]), P'[v][l].tx_hash = u
        PROVE  v = w /\ l = i
    <3>1. PICK m \in 1 .. Len(P[v]) : P'[v][l] = P[v][m] /\ m = IF v = who THEN l + k ELSE l
      BY <1>5
    <3>2. v = w /\ m = j
      BY <2>1, <2>3, <3>1, HeldUnique
    <3> QED BY <1>0, <2>1, <3>1, <3>2
  <2>4. ~IsMinted(u)
    BY <1>6
  <2> QED BY <1>1, <1>2, <1>3, <2>1, <2>2, <2>3, <2>4
<1>13. NoSilentLoss'
  <2> SUFFICES ASSUME NEW u \in TxHash, is_tx_seen(u)', ~(credited'[u] = 1), u \notin lost'
               PROVE  \E w \in AccountId : \E i \in 1 .. Len(P'[w]) : P'[w][i].tx_hash = u
    BY DEF NoSilentLoss, HeldAt
  <2>1. ~IsMinted(u) /\ is_tx_seen(u) /\ ~(credited[u] = 1) /\ u \notin lost
    BY <1>1, <1>2, <1>3, <1>4 DEF is_tx_seen
  <2>2. PICK w \in AccountId : \E i \in 1 .. Len(P[w]) : P[w][i].tx_hash = u
    BY <2>1 DEF DepositInv, NoSilentLoss, HeldAt
  <2>3. PICK j \in 1 .. Len(P[w]) : P[w][j].tx_hash = u
    BY <2>2
  <2> QED BY <1>7, <2>1, <2>3
<1> QED BY <1>10, <1>11, <1>12, <1>13 DEF DepositInv

\* The deposit invariant holds in every reachable state.
THEOREM DepositsSafe == Spec => []DepositInv
<1>1. Init => DepositInv
  BY DEF Init, DepositInv, UnseenIsFresh, CreditedOnce, HeldIsRecorded, NoSilentLoss, is_tx_seen
<1>2. BridgeTypeOK /\ DepositInv /\ [Next]_vars => DepositInv'
  <2> SUFFICES ASSUME BridgeTypeOK, DepositInv, [Next]_vars PROVE DepositInv'
    OBVIOUS
  <2> USE BridgeAssumption, AmountAssumption
  <2>1. ASSUME NEW admin \in AccountId, NEW who \in Client, NEW n \in Amount, NEW t \in TxHash,
               Deposit(admin, who, n, t)
        PROVE  DepositInv'
    BY <2>1, HoldPreserves, SimpleDepositPreserves DEF Deposit
  <2>2. ASSUME NEW admin \in AccountId, NEW who \in Client, MarkBlack(admin, who)
        PROVE  DepositInv'
    BY <2>2, MarkBlackPreserves
  <2>3. ASSUME NEW admin \in AccountId, NEW who \in Client, MarkWhite(admin, who)
        PROVE  DepositInv'
    BY <2>3, MarkWhitePreserves
  <2>4. CASE UNCHANGED depositVars
    BY <2>4, DepositInvUnchanged
  <2>5. \/ Pause
        \/ Resume
        \/ \E who \in AdminCandidate : DeleteAdmin(who)
        \/ \E who \in AdminCandidate, auth \in NewAuth : UpdateAdmin(who, auth)
        \/ \E admin \in AccountId, who \in Client, n \in Amount : Refund(admin, who, n)
        \/ \E admin \in AccountId, who \in Client, n \in Amount : WithdrawFinish(admin, who, n)
        \/ \E admin \in AccountId, who \in Client, n \in Amount : Withdraw(admin, who, n)
        \/ Environment
        \/ UNCHANGED vars
        => UNCHANGED depositVars
    BY DEF Pause, Resume, DeleteAdmin, UpdateAdmin, Refund, WithdrawFinish, Withdraw,
           Environment, vars, bridgeVars
  <2> QED BY <2>1, <2>2, <2>3, <2>4, <2>5 DEF Next
<1> QED BY <1>1, <1>2, BridgeTypeCorrect, PTL DEF Spec

\* No Bitcoin transaction is ever credited twice.
THEOREM NeverCreditedTwice == Spec => []CreditedOnce
<1>1. DepositInv => CreditedOnce
  BY DEF DepositInv
<1> QED BY <1>1, DepositsSafe, PTL

\* A transaction the bridge refuses to take again has been credited, is still
\* held, or failed to mint when it was first reported.
THEOREM NothingLostSilently == Spec => []NoSilentLoss
<1>1. DepositInv => NoSilentLoss
  BY DEF DepositInv
<1> QED BY <1>1, DepositsSafe, PTL

\* An amount above the threshold is credited only to a whitelisted account or
\* after it has been held: a step that credits is a deposit that needs no KYC,
\* or mark_white, which credits what is held.
THEOREM KycPrecedesCredit == Spec => KycBeforeCredit
<1> DEFINE Checked(t) == LET d == DepositHistory'[t]
                         IN  \/ d.amount <= Threshold
                             \/ List[d.account_id] = "White"
                             \/ \E i \in 1 .. Len(PendingDepositList[d.account_id]) :
                                    HeldAt(t, d.account_id, i)
<1>1. BridgeTypeOK /\ DepositInv /\ [Next]_vars =>
          [\A t \in TxHash : credited'[t] > credited[t] =>
              LET d == DepositHistory'[t]
              IN  \/ d.amount <= Threshold
                  \/ List[d.account_id] = "White"
                  \/ \E i \in 1 .. Len(PendingDepositList[d.account_id]) :
                         HeldAt(t, d.account_id, i)]_vars
  <2> SUFFICES ASSUME BridgeTypeOK, DepositInv, Next,
                      NEW t \in TxHash, credited'[t] > credited[t]
               PROVE  Checked(t)
    OBVIOUS
  <2> USE BridgeAssumption, AmountAssumption
  <2>0. credited[t] \in Nat
    BY DEF BridgeTypeOK
  <2>1. ASSUME NEW admin \in AccountId, NEW who \in Client, NEW n \in Amount, NEW u \in TxHash,
               Deposit(admin, who, n, u)
        PROVE  Checked(t)
    <3>1. ~NeedsKyc(who, n) /\ SimpleDeposit(who, n, u) /\ u = t
      BY <2>0, <2>1 DEF Deposit, HoldDeposit, SimpleDeposit, BridgeTypeOK
    <3>2. DepositHistory'[t] = [account_id |-> who, amount |-> n]
      BY <3>1 DEF SimpleDeposit, BridgeTypeOK
    <3>3. n \in Nat /\ Threshold \in Nat
      <4>1. n \in Balance /\ Threshold \in Balance
        OBVIOUS
      <4> QED BY <4>1, MaxBalanceAssumption, SMT DEF Balance
    <3>4. n <= Threshold \/ List[who] = "White"
      BY <3>1, <3>3 DEF NeedsKyc
    <3> QED BY <3>2, <3>4
  <2>2. ASSUME NEW admin \in AccountId, NEW who \in Client, MarkWhite(admin, who)
        PROVE  Checked(t)
    <3> DEFINE held == PendingDepositList[who]
               k == MintableHeld(who, held)
    <3>1. k \in 0 .. Len(held) /\ Len(held) \in Nat
      BY MintableHeldInRange DEF BridgeTypeOK
    <3>2. \E i \in 1 .. k : held[i].tx_hash = t
      BY <2>0, <2>2 DEF MarkWhite
    <3>3. PICK i \in 1 .. Len(held) : held[i].tx_hash = t
      BY <3>1, <3>2
    <3>4. DepositHistory[t] = [account_id |-> who, amount |-> held[i].amount]
      BY <3>3, HeldFacts
    <3>5. DepositHistory' = DepositHistory
      BY <2>2, MarkWhiteKeepsHistory
    <3>6. DepositHistory'[t].account_id = who
      BY <3>4, <3>5
    <3> QED BY <3>3, <3>6 DEF HeldAt
  <2>3. ~(UNCHANGED credited)
    BY <2>0
  <2>4. \/ Pause
        \/ Resume
        \/ \E who \in AdminCandidate : DeleteAdmin(who)
        \/ \E who \in AdminCandidate, auth \in NewAuth : UpdateAdmin(who, auth)
        \/ \E admin \in AccountId, who \in Client, n \in Amount : Refund(admin, who, n)
        \/ \E admin \in AccountId, who \in Client, n \in Amount : WithdrawFinish(admin, who, n)
        \/ \E admin \in AccountId, who \in Client, n \in Amount : Withdraw(admin, who, n)
        \/ \E admin \in AccountId, who \in Client : MarkBlack(admin, who)
        \/ Environment
        => UNCHANGED credited
    BY DEF Pause, Resume, DeleteAdmin, UpdateAdmin, Refund, WithdrawFinish, Withdraw,
           MarkBlack, Environment, bridgeVars, depositVars
  <2> HIDE DEF Checked
  <2> QED BY <2>1, <2>2, <2>3, <2>4 DEF Next
<1> QED BY <1>1, BridgeTypeCorrect, DepositsSafe, PTL DEF Spec, KycBeforeCredit
-----------------------------------------------------------------------------
\* The bridge implements Deposits.  Under the deposit invariant the stage of a
\* transaction can be told without its place in PendingDepositList, which
\* leaves only the histories to be compared.

\* A transaction is held or unseen exactly when it is neither credited nor
\* lost, and DepositHistory tells which.
StageByHistory(t) ==
    IF DepositHistory[t] = NoDeposit THEN "unseen"
    ELSE IF credited[t] > 0 THEN "credited"
    ELSE IF t \in lost THEN "lost" ELSE "held"

StagesTold == \A t \in TxHash : Stage(t) = StageByHistory(t)

\* The deposit invariant makes the stage a matter of the history.
LEMMA StageFromHistory ==
    ASSUME BridgeTypeOK, DepositInv
    PROVE  StagesTold
<1> SUFFICES ASSUME NEW t \in TxHash PROVE Stage(t) = StageByHistory(t)
  BY DEF StagesTold
<1>1. CASE DepositHistory[t] = NoDeposit
  <2>1. credited[t] = 0 /\ t \notin lost
    BY <1>1 DEF DepositInv, UnseenIsFresh, is_tx_seen
  <2>2. ~IsHeld(t)
    BY <1>1, UnseenNotHeld DEF IsHeld, HeldAt, is_tx_seen
  <2> QED BY <1>1, <2>1, <2>2 DEF Stage, StageByHistory
<1>2. CASE DepositHistory[t] # NoDeposit
  <2>1. credited[t] = 1 \/ IsHeld(t) \/ t \in lost
    BY <1>2 DEF DepositInv, NoSilentLoss, IsHeld, is_tx_seen
  <2>2. credited[t] \in Nat
    BY DEF BridgeTypeOK
  <2> QED BY <1>2, <2>1, <2>2 DEF Stage, StageByHistory
<1> QED BY <1>1, <1>2

\* What an account has held is what Deposits says it has.
LEMMA HeldForAccount ==
    ASSUME BridgeTypeOK, DepositInv, NEW t \in TxHash, NEW who \in AccountId
    PROVE  (Stage(t) = "held" /\ DepositHistory[t].account_id = who)
               <=> \E i \in 1 .. Len(PendingDepositList[who]) :
                       PendingDepositList[who][i].tx_hash = t
<1>1. ASSUME NEW i \in 1 .. Len(PendingDepositList[who]),
             PendingDepositList[who][i].tx_hash = t
      PROVE  Stage(t) = "held" /\ DepositHistory[t].account_id = who
  <2>1. /\ DepositHistory[t] =
               [account_id |-> who, amount |-> PendingDepositList[who][i].amount]
        /\ credited[t] = 0
        /\ t \notin lost
    BY <1>1, HeldFacts
  <2>2. IsHeld(t)
    BY <1>1 DEF IsHeld, HeldAt
  <2> QED BY <2>1, <2>2 DEF Stage
<1>2. ASSUME Stage(t) = "held", DepositHistory[t].account_id = who
      PROVE  \E i \in 1 .. Len(PendingDepositList[who]) :
                 PendingDepositList[who][i].tx_hash = t
  <2>1. IsHeld(t)
    BY <1>2 DEF Stage
  <2>2. PICK w \in AccountId : \E i \in 1 .. Len(PendingDepositList[w]) : HeldAt(t, w, i)
    BY <2>1 DEF IsHeld
  <2>3. PICK i \in 1 .. Len(PendingDepositList[w]) : PendingDepositList[w][i].tx_hash = t
    BY <2>2 DEF HeldAt
  <2>4. DepositHistory[t] = [account_id |-> w, amount |-> PendingDepositList[w][i].amount]
    BY <2>3, HeldFacts
  <2>5. w = who
    BY <1>2, <2>4
  <2> QED BY <2>3, <2>5
<1> QED BY <1>1, <1>2

-----------------------------------------------------------------------------
\* A deposit that is held, minted or fails to be minted is a report.
LEMMA DepositIsReport ==
    ASSUME BridgeTypeOK, DepositInv, StagesTold, StagesTold',
           NEW who \in AccountId, NEW n \in Balance, NEW t \in TxHash, ~is_tx_seen(t),
           HoldDeposit(who, n, t) \/ SimpleDeposit(who, n, t)
    PROVE  Promise!Next
<1> DEFINE rec == [account_id |-> who, amount |-> n]
           S == [u \in TxHash |-> Stage(u)]
<1>1. rec \in DepositRecord /\ rec # NoDeposit
  BY BridgeAssumption DEF DepositRecord
<1>2. DepositHistory' = [DepositHistory EXCEPT ![t] = rec]
  BY DEF HoldDeposit, SimpleDeposit
<1>3. credited[t] = 0 /\ t \notin lost
  BY DEF DepositInv, UnseenIsFresh
<1>4. \A u \in TxHash : u # t => credited'[u] = credited[u] /\ (u \in lost' <=> u \in lost)
  BY <1>3 DEF HoldDeposit, SimpleDeposit, BridgeTypeOK
<1>5. \A u \in TxHash : u # t => Stage(u)' = Stage(u)
  BY <1>2, <1>4 DEF StagesTold, StageByHistory, BridgeTypeOK
<1>6. Stage(t) = "unseen"
  BY DEF StagesTold, StageByHistory, is_tx_seen
<1>7. Stage(t)' \in {"held", "credited", "lost"}
  BY <1>1, <1>2 DEF StagesTold, StageByHistory, BridgeTypeOK
<1>8. S' = [S EXCEPT ![t] = Stage(t)']
  BY <1>5
<1>9. Promise!Report(t, rec, Stage(t)')
  BY <1>2, <1>6, <1>8 DEF Promise!Report
<1> QED BY <1>1, <1>7, <1>9 DEF Promise!Next

\* mark_black drops all that the account has held.
LEMMA MarkBlackIsDrop ==
    ASSUME BridgeTypeOK, DepositInv, StagesTold, StagesTold',
           NEW admin \in AccountId, NEW who \in AccountId, MarkBlack(admin, who)
    PROVE  Promise!Next
<1> DEFINE P == PendingDepositList
           S == [u \in TxHash |-> Stage(u)]
           H == {u \in TxHash : S[u] = "held" /\ DepositHistory[u].account_id = who}
<1>1. P[who] \in Seq(HeldDeposit)
  BY DEF BridgeTypeOK
<1>2. \A u \in TxHash : u \in H <=> \E i \in 1 .. Len(P[who]) : P[who][i].tx_hash = u
  BY HeldForAccount
<1>3. {d.tx_hash : d \in Range(P[who])} = {P[who][i].tx_hash : i \in 1 .. Len(P[who])}
  BY <1>1 DEF Range
<1>4. DepositHistory' = [u \in TxHash |-> IF u \in H THEN NoDeposit ELSE DepositHistory[u]]
  <2>1. DepositHistory' =
            [u \in TxHash |-> IF u \in {d.tx_hash : d \in Range(P[who])}
                              THEN NoDeposit ELSE DepositHistory[u]]
    BY DEF MarkBlack
  <2>2. \A u \in TxHash : u \in {d.tx_hash : d \in Range(P[who])} <=> u \in H
    BY <1>2, <1>3
  <2> HIDE DEF H
  <2> QED BY <2>1, <2>2
<1>5. credited' = credited /\ lost' = lost
  BY DEF MarkBlack
<1>6. S' = [u \in TxHash |-> IF u \in H THEN "unseen" ELSE S[u]]
  <2> HIDE DEF H
  <2>1. \A u \in TxHash : Stage(u)' = IF u \in H THEN "unseen" ELSE Stage(u)
    BY <1>4, <1>5 DEF StagesTold, StageByHistory
  <2> QED BY <2>1
<1>7. Promise!HeldFor(who) = H
  BY DEF Promise!HeldFor
<1>8. Promise!Drop(who)
  BY <1>4, <1>6, <1>7 DEF Promise!Drop
<1>9. [account_id |-> who, amount |-> 0] \in DepositRecord
  BY MaxBalanceAssumption DEF DepositRecord, Balance
<1> QED BY <1>8, <1>9 DEF Promise!Next

\* mark_white releases what it mints.
LEMMA MarkWhiteIsRelease ==
    ASSUME BridgeTypeOK, DepositInv, StagesTold, StagesTold',
           NEW admin \in AccountId, NEW who \in AccountId, MarkWhite(admin, who)
    PROVE  Promise!Next
<1> DEFINE P == PendingDepositList
           k == MintableHeld(who, P[who])
           S == [u \in TxHash |-> Stage(u)]
           M == {u \in TxHash : \E i \in 1 .. k : P[who][i].tx_hash = u}
<1>0. k \in 0 .. Len(P[who]) /\ Len(P[who]) \in Nat
  BY MintableHeldInRange DEF BridgeTypeOK
<1>1. DepositHistory' = DepositHistory
  BY MarkWhiteKeepsHistory
<1>2. lost' = lost
  BY DEF MarkWhite
<1>3. \A u \in TxHash : credited'[u] = IF u \in M THEN credited[u] + 1 ELSE credited[u]
  BY DEF MarkWhite
<1>4. \A u \in M : Stage(u) = "held" /\ DepositHistory[u].account_id = who
  <2> SUFFICES ASSUME NEW u \in TxHash, NEW i \in 1 .. k, P[who][i].tx_hash = u
               PROVE  Stage(u) = "held" /\ DepositHistory[u].account_id = who
    OBVIOUS
  <2>1. i \in 1 .. Len(P[who])
    BY <1>0
  <2> QED BY <2>1, HeldForAccount
<1> HIDE DEF M
<1>5. M \in SUBSET TxHash
  BY DEF M
<1>6. \A u \in TxHash : Stage(u)' = IF u \in M THEN "credited" ELSE Stage(u)
  <2> SUFFICES ASSUME NEW u \in TxHash
               PROVE  Stage(u)' = IF u \in M THEN "credited" ELSE Stage(u)
    OBVIOUS
  <2>1. credited[u] \in Nat
    BY DEF BridgeTypeOK
  <2>2. CASE u \in M
    <3>1. DepositHistory[u] # NoDeposit
      BY <1>4, <2>2 DEF StagesTold, StageByHistory
    <3>2. credited'[u] > 0
      BY <1>3, <2>1, <2>2
    <3> QED BY <1>1, <2>2, <3>1, <3>2 DEF StagesTold, StageByHistory
  <2>3. CASE u \notin M
    BY <1>1, <1>2, <1>3, <2>3 DEF StagesTold, StageByHistory
  <2> QED BY <2>2, <2>3
<1>7. S' = [u \in TxHash |-> IF u \in M THEN "credited" ELSE S[u]]
  BY <1>6
<1>8. M \subseteq Promise!HeldFor(who)
  BY <1>4, <1>5 DEF Promise!HeldFor
<1>9. Promise!Release(who, M)
  BY <1>1, <1>7, <1>8 DEF Promise!Release
<1>10. [account_id |-> who, amount |-> 0] \in DepositRecord
  BY MaxBalanceAssumption DEF DepositRecord, Balance
<1> QED BY <1>5, <1>9, <1>10 DEF Promise!Next

\* The bridge implements Deposits: every step of it reports, releases or drops
\* deposits in the way Deposits allows, or leaves them alone.
THEOREM BridgeImplementsDeposits == Spec => ImplementsDeposits
<1>1. Init => Promise!Init
  <2> SUFFICES ASSUME Init PROVE Promise!Init
    OBVIOUS
  <2>1. \A t \in TxHash : Stage(t) = "unseen"
    BY DEF Init, Stage, IsHeld, HeldAt
  <2> QED BY <2>1 DEF Init, Promise!Init
<1>2. BridgeTypeOK /\ DepositInv => StagesTold
  BY StageFromHistory
<1>3. BridgeTypeOK /\ DepositInv /\ StagesTold /\ StagesTold' /\ [Next]_vars
          => [Promise!Next]_(Promise!depositsVars)
  <2> SUFFICES ASSUME BridgeTypeOK, DepositInv, StagesTold, StagesTold', [Next]_vars
               PROVE  Promise!Next \/ UNCHANGED Promise!depositsVars
    OBVIOUS
  <2> USE BridgeAssumption, AmountAssumption
  <2>1. ASSUME NEW admin \in AccountId, NEW who \in Client, NEW n \in Amount, NEW t \in TxHash,
               Deposit(admin, who, n, t)
        PROVE  Promise!Next
    BY <2>1, DepositIsReport DEF Deposit
  <2>2. ASSUME NEW admin \in AccountId, NEW who \in Client, MarkBlack(admin, who)
        PROVE  Promise!Next
    BY <2>2, MarkBlackIsDrop
  <2>3. ASSUME NEW admin \in AccountId, NEW who \in Client, MarkWhite(admin, who)
        PROVE  Promise!Next
    BY <2>3, MarkWhiteIsRelease
  <2>4. CASE UNCHANGED depositVars
    BY <2>4 DEF Promise!depositsVars, depositVars, Stage, IsHeld, HeldAt
  <2>5. \/ Pause
        \/ Resume
        \/ \E who \in AdminCandidate : DeleteAdmin(who)
        \/ \E who \in AdminCandidate, auth \in NewAuth : UpdateAdmin(who, auth)
        \/ \E admin \in AccountId, who \in Client, n \in Amount : Refund(admin, who, n)
        \/ \E admin \in AccountId, who \in Client, n \in Amount : WithdrawFinish(admin, who, n)
        \/ \E admin \in AccountId, who \in Client, n \in Amount : Withdraw(admin, who, n)
        \/ Environment
        \/ UNCHANGED vars
        => UNCHANGED depositVars
    BY DEF Pause, Resume, DeleteAdmin, UpdateAdmin, Refund, WithdrawFinish, Withdraw,
           Environment, vars, bridgeVars
  <2> QED BY <2>1, <2>2, <2>3, <2>4, <2>5 DEF Next
<1> QED BY <1>1, <1>2, <1>3, BridgeTypeCorrect, DepositsSafe, PTL
        DEF Spec, ImplementsDeposits, Promise!Spec

-----------------------------------------------------------------------------
(***************************************************************************)
(* The money of the bridge: the vault covers the pending withdrawals, and  *)
(* SBTC is backed by Bitcoin.                                              *)
(***************************************************************************)

\* Removing the first entry of an amount takes it out of the sum.
LEMMA RemoveFirstSum ==
    ASSUME NEW s \in Seq(Nat), NEW e, Contains(s, e)
    PROVE  SumFunction(s) = e + SumFunction(RemoveFirst(s, e))
<1> DEFINE I == {i \in 1 .. Len(s) : s[i] = e}
           m == Min(I)
<1>1. I # {} /\ I \in SUBSET Nat /\ I \subseteq 1 .. Len(s)
  BY DEF Contains
<1>2. m \in I
  BY <1>1, LeastElement DEF Min
<1>3. RemoveFirst(s, e) = SubSeq(s, 1, m - 1) \o SubSeq(s, m + 1, Len(s))
  BY <1>1 DEF RemoveFirst, RemoveAt, SelectInSeq, Contains
<1>4. m \in 1 .. Len(s) /\ s[m] = e
  BY <1>1, <1>2
<1> HIDE DEF m
<1> DEFINE p == SubSeq(s, 1, m - 1)
           q == SubSeq(s, m + 1, Len(s))
           t == p \o q
<1>5. /\ p \in Seq(Nat) /\ Len(p) = m - 1 /\ \A j \in 1 .. m - 1 : p[j] = s[j]
      /\ q \in Seq(Nat) /\ Len(q) = Len(s) - m /\ \A j \in 1 .. Len(s) - m : q[j] = s[j + m]
  BY <1>4
<1> HIDE DEF p, q
<1>6. /\ t \in Seq(Nat) /\ Len(t) = Len(p) + Len(q)
      /\ \A j \in 1 .. Len(p) + Len(q) : t[j] = IF j <= Len(p) THEN p[j] ELSE q[j - Len(p)]
  BY <1>5, ConcatProperties
<1> HIDE DEF t
<1>7. Len(s) = Len(t) + 1
  BY <1>4, <1>5, <1>6
<1>8. ASSUME NEW j \in 1 .. Len(t) PROVE t[j] = s[IF j < m THEN j ELSE j + 1]
  <2>1. t[j] = IF j <= Len(p) THEN p[j] ELSE q[j - Len(p)]
    BY <1>6
  <2>2. CASE j < m
    BY <1>4, <1>5, <2>1, <2>2
  <2>3. CASE ~(j < m)
    <3>1. j - Len(p) \in 1 .. Len(s) - m /\ (j - Len(p)) + m = j + 1 /\ ~(j <= Len(p))
      BY <1>4, <1>5, <1>6, <1>7, <2>3
    <3> QED BY <1>5, <2>1, <2>3, <3>1
  <2> QED BY <2>2, <2>3
<1>9. SumFunction(s) = s[m] + SumFunction(t)
  BY <1>4, <1>6, <1>7, <1>8, SumWithout
<1> QED BY <1>3, <1>4, <1>9 DEF t, p, q

\* A sequence of balances is a sequence of numbers, and adds up to one.
LEMMA PendingSum ==
    ASSUME NEW s \in Seq(Balance)
    PROVE  s \in Seq(Nat) /\ SumFunction(s) \in Nat
<1>1. s \in Seq(Nat)
  BY SeqMonotonic, MaxBalanceAssumption DEF Balance
<1> QED BY <1>1, SumOfSeq

\* The pending total is a number, and follows the entries of one client.
LEMMA PendingTotalIsSum ==
    ASSUME BridgeTypeOK
    PROVE  /\ PendingTotal \in Nat
           /\ PendingTotal = SumFunctionOnSet([w \in Client |-> SumFunction(PendingWithdraws[w])],
                                              Client)
<1> DEFINE f == [w \in Client |-> SumFunction(PendingWithdraws[w])]
<1>1. \A w \in Client : f[w] \in Nat
  BY PendingSum, BridgeAssumption DEF BridgeTypeOK
<1>2. IsFiniteSet(Client)
  BY AccountAssumption, BridgeAssumption, FS_Subset
<1>3. f \in [Client -> Nat]
  BY <1>1
<1> HIDE DEF f
<1>4. SumFunction(f) = SumFunctionOnSet(f, Client) /\ SumFunctionOnSet(f, Client) \in Nat
  BY <1>1, <1>2, <1>3, SumOverDomain, SumTakesOut
<1> QED BY <1>4 DEF PendingTotal, f

\* When only the entries of one client change, the pending total changes as they do.
LEMMA PendingTotalChanges ==
    ASSUME BridgeTypeOK, BridgeTypeOK', NEW who \in Client,
           \A w \in AccountId \ {who} : PendingWithdraws'[w] = PendingWithdraws[w]
    PROVE  /\ PendingTotal \in Nat /\ PendingTotal' \in Nat
           /\ PendingTotal' + SumFunction(PendingWithdraws[who])
                  = PendingTotal + SumFunction(PendingWithdraws'[who])
<1> DEFINE f == [w \in Client |-> SumFunction(PendingWithdraws[w])]
           g == [w \in Client |-> SumFunction(PendingWithdraws'[w])]
<1>1. \A w \in Client : f[w] \in Nat /\ g[w] \in Nat
  BY PendingSum, BridgeAssumption DEF BridgeTypeOK
<1>2. IsFiniteSet(Client)
  BY AccountAssumption, BridgeAssumption, FS_Subset
<1>3. \A w \in Client \ {who} : f[w] = g[w]
  BY BridgeAssumption
<1>4. /\ f[who] = SumFunction(PendingWithdraws[who])
      /\ g[who] = SumFunction(PendingWithdraws'[who])
      /\ f \in [Client -> Nat] /\ g \in [Client -> Nat]
  BY <1>1
<1>5. PendingTotal = SumFunction(f) /\ PendingTotal' = SumFunction(g)
  BY DEF PendingTotal
<1> HIDE DEF f, g
<1>6. /\ SumFunctionOnSet(f, Client) \in Nat /\ SumFunctionOnSet(g, Client) \in Nat
      /\ SumFunctionOnSet(g, Client) + f[who] = SumFunctionOnSet(f, Client) + g[who]
  BY <1>1, <1>2, <1>3, SumChanges
<1>7. SumFunction(f) = SumFunctionOnSet(f, Client) /\ SumFunction(g) = SumFunctionOnSet(g, Client)
  BY <1>4, SumOverDomain
<1> QED BY <1>4, <1>5, <1>6, <1>7

\* What the held deposits of an account add up to is a number.
LEMMA HeldAmountType ==
    ASSUME NEW held \in Seq(HeldDeposit), NEW k \in 0 .. Len(held)
    PROVE  HeldAmount(held, k) \in Nat /\ HeldAmount(held, 0) = 0
<1> DEFINE f == [i \in 1 .. k |-> held[i].amount]
           z == [i \in 1 .. 0 |-> held[i].amount]
<1>1. ASSUME NEW i \in 1 .. k PROVE held[i].amount \in Nat
  <2>1. held[i] \in HeldDeposit
    BY ElementOfSeq
  <2> QED BY <2>1, MaxBalanceAssumption DEF HeldDeposit, Balance
<1>2. IsFiniteSet(1 .. k) /\ f \in [1 .. k -> Nat] /\ \A i \in 1 .. k : f[i] \in Nat
  BY <1>1, FS_Interval
<1>3. SumFunction(f) \in Nat
  <2> DEFINE S == 1 .. k
  <2>1. IsFiniteSet(S) /\ f \in [S -> Nat] /\ \A i \in S : f[i] \in Nat
    BY <1>2
  <2> HIDE DEF f, S
  <2>2. SumFunction(f) = SumFunctionOnSet(f, S)
    BY <2>1, SumOverDomain
  <2>3. SumFunctionOnSet(f, S) \in Nat
    BY <2>1, SumTakesOut
  <2> QED BY <2>2, <2>3
<1>4. SumFunction(z) = 0
  <2>1. DOMAIN z = {}
    OBVIOUS
  <2> HIDE DEF z
  <2> QED BY <2>1, SumOfNone DEF SumFunction
<1> QED BY <1>3, <1>4 DEF HeldAmount
-----------------------------------------------------------------------------
\* SBTC outside the vault.
Outside == SumFunctionOnSet(FreeBalance[SBTC], AccountId \ {PendingWithdrawVault})

\* What the bridge maintains about money; inductive together with the types.
VaultInv ==
    /\ AssetsTypeOK
    /\ IssuanceIsHeld
    /\ btcHeld \in Int
    /\ VaultCoversPendingWithdraws
    /\ Backed

\* The free balances of SBTC, and what there is outside the vault.
LEMMA OutsideIsSum ==
    ASSUME AssetsTypeOK
    PROVE  /\ FreeBalance[SBTC] \in [AccountId -> Balance]
           /\ \A w \in AccountId : FreeBalance[SBTC][w] \in Nat
           /\ Outside \in Nat
<1>1. FreeBalance[SBTC] \in [AccountId -> Balance]
  BY BridgeAssumption, GenesisAssumption DEF AssetsTypeOK
<1>2. \A w \in AccountId : FreeBalance[SBTC][w] \in Nat
  BY <1>1, MaxBalanceAssumption DEF Balance
<1>3. IsFiniteSet(AccountId \ {PendingWithdrawVault})
  BY AccountAssumption, FS_Subset
<1>4. Outside \in Nat
  <2> DEFINE S == AccountId \ {PendingWithdrawVault}
  <2>1. \A w \in S : FreeBalance[SBTC][w] \in Nat
    BY <1>2
  <2> HIDE DEF S
  <2>2. SumFunctionOnSet(FreeBalance[SBTC], S) \in Nat
    BY <1>3, <2>1, SumTakesOut DEF S
  <2> QED BY <2>2 DEF Outside, S
<1> QED BY <1>1, <1>2, <1>4

\* When the balance of one account outside the vault changes, so does the sum.
LEMMA OutsideChanges ==
    ASSUME AssetsTypeOK, AssetsTypeOK', NEW who \in AccountId \ {PendingWithdrawVault},
           \A w \in AccountId \ {who, PendingWithdrawVault} :
               FreeBalance'[SBTC][w] = FreeBalance[SBTC][w]
    PROVE  /\ Outside \in Nat /\ Outside' \in Nat
           /\ Outside' + FreeBalance[SBTC][who] = Outside + FreeBalance'[SBTC][who]
<1> DEFINE S == AccountId \ {PendingWithdrawVault}
           f == FreeBalance[SBTC]
           g == FreeBalance'[SBTC]
<1>1. IsFiniteSet(S)
  BY AccountAssumption, FS_Subset
<1>2. f \in [AccountId -> Balance] /\ g \in [AccountId -> Balance]
  BY BridgeAssumption, GenesisAssumption DEF AssetsTypeOK
<1>3. \A w \in S : f[w] \in Nat /\ g[w] \in Nat
  <2> HIDE DEF f, g
  <2> QED BY <1>2, MaxBalanceAssumption DEF Balance
<1>4. who \in S /\ \A w \in S \ {who} : f[w] = g[w]
  OBVIOUS
<1> HIDE DEF S, f, g
<1>5. /\ SumFunctionOnSet(f, S) \in Nat /\ SumFunctionOnSet(g, S) \in Nat
      /\ SumFunctionOnSet(g, S) + f[who] = SumFunctionOnSet(f, S) + g[who]
  BY <1>1, <1>3, <1>4, SumChanges
<1> QED BY <1>5 DEF Outside, S, f, g

\* A transfer between clients moves nothing across the vault.
LEMMA OutsideStays ==
    ASSUME AssetsTypeOK, AssetsTypeOK', NEW v \in AccountId \ {PendingWithdrawVault},
           NEW w \in AccountId \ {PendingWithdrawVault}, v # w,
           FreeBalance[SBTC][v] + FreeBalance[SBTC][w]
               = FreeBalance'[SBTC][v] + FreeBalance'[SBTC][w],
           \A u \in AccountId \ {v, w} : FreeBalance'[SBTC][u] = FreeBalance[SBTC][u]
    PROVE  Outside' = Outside
<1> DEFINE S == AccountId \ {PendingWithdrawVault}
           f == FreeBalance[SBTC]
           g == FreeBalance'[SBTC]
<1>1. IsFiniteSet(S)
  BY AccountAssumption, FS_Subset
<1>2. f \in [AccountId -> Balance] /\ g \in [AccountId -> Balance]
  BY BridgeAssumption, GenesisAssumption DEF AssetsTypeOK
<1>3. \A u \in S : f[u] \in Nat /\ g[u] \in Nat
  <2> HIDE DEF f, g
  <2> QED BY <1>2, MaxBalanceAssumption DEF Balance
<1>4. /\ v \in S /\ w \in S /\ \A u \in S \ {v, w} : f[u] = g[u]
      /\ f[v] + f[w] = g[v] + g[w]
  OBVIOUS
<1> HIDE DEF S, f, g
<1>5. SumFunctionOnSet(g, S) = SumFunctionOnSet(f, S)
  BY <1>1, <1>3, <1>4, SumMoves
<1> QED BY <1>5 DEF Outside, S, f, g

\* VaultInv spelt out with what is outside the vault.
LEMMA VaultInvFacts ==
    ASSUME BridgeTypeOK, VaultInv
    PROVE  /\ Outside \in Nat /\ PendingTotal \in Nat /\ btcHeld \in Int
           /\ PendingTotal <= FreeBalance[SBTC][PendingWithdrawVault]
           /\ Outside + PendingTotal <= btcHeld
  BY OutsideIsSum, PendingTotalIsSum
  DEF VaultInv, VaultCoversPendingWithdraws, Backed, Outside

\* Minting SBTC for Bitcoin that has arrived: mint_free of a client's deposit,
\* or of what mark_white releases.
LEMMA MintedIsBacked ==
    ASSUME BridgeTypeOK, VaultInv, NEW who \in Client, NEW n \in Nat,
           TotalIssuance[SBTC] + n <= MaxBalance, FreeBalance[SBTC][who] + n <= MaxBalance,
           TotalIssuance' = Minted(SBTC, who, n).issuance,
           FreeBalance' = Minted(SBTC, who, n).free,
           LedgerUnchangedExceptMint, PendingWithdraws' = PendingWithdraws,
           btcHeld' = btcHeld + n
    PROVE  VaultInv'
<1>1. SBTC \in AssetId /\ who \in AccountId /\ who # PendingWithdrawVault
  BY BridgeAssumption, GenesisAssumption, VaultAssumption
<1>2. AssetsTypeOK /\ IssuanceIsHeld
  BY DEF VaultInv
<1>3. /\ TotalIssuance[SBTC] + n \in Balance /\ FreeBalance[SBTC][who] + n \in Balance
      /\ FreeBalance[SBTC][who] \in Nat /\ n \in Balance
  BY <1>1, <1>2, MaxBalanceAssumption DEF AssetsTypeOK, Balance
<1>4. AssetsTypeOK'
  <2>1. TotalIssuance' \in [AssetId -> Balance]
    BY <1>1, <1>2, <1>3 DEF Minted, AssetsTypeOK
  <2>2. FreeBalance' \in [AssetId -> [AccountId -> Balance]]
    BY <1>1, <1>2, <1>3 DEF Minted, AssetsTypeOK
  <2> QED BY <1>2, <2>1, <2>2 DEF AssetsTypeOK, LedgerUnchangedExceptMint, contextVars
<1>5. IssuanceIsHeld'
  BY <1>1, <1>2, <1>3, <1>4, MintKeepsIssuance DEF LedgerUnchangedExceptMint
<1>6. /\ FreeBalance'[SBTC][who] = FreeBalance[SBTC][who] + n
      /\ \A w \in AccountId \ {who} : FreeBalance'[SBTC][w] = FreeBalance[SBTC][w]
  BY <1>1, <1>2 DEF Minted, AssetsTypeOK
<1>7. Outside' = Outside + n
  <2>1. /\ Outside \in Nat /\ Outside' \in Nat
        /\ Outside' + FreeBalance[SBTC][who] = Outside + FreeBalance'[SBTC][who]
    BY <1>1, <1>2, <1>4, <1>6, OutsideChanges
  <2> QED BY <1>3, <1>6, <2>1
<1>8. PendingTotal' = PendingTotal
  BY DEF PendingTotal
<1>9. FreeBalance'[SBTC][PendingWithdrawVault] = FreeBalance[SBTC][PendingWithdrawVault]
  BY <1>1, <1>6, BridgeAssumption
<1>10. Outside' + PendingTotal' <= btcHeld' /\ btcHeld' \in Int
  BY <1>7, <1>8, VaultInvFacts
<1> QED
  BY <1>4, <1>5, <1>8, <1>9, <1>10, VaultInvFacts
  DEF VaultInv, VaultCoversPendingWithdraws, Backed, Outside
\* Across the vault: a transfer between a client and the vault that the
\* client's pending withdrawals follow.
LEMMA VaultTransfer ==
    ASSUME AssetsTypeOK, IssuanceIsHeld, NEW from \in AccountId, NEW to \in AccountId,
           from # to, NEW n \in Balance, n <= FreeBalance[SBTC][from],
           FreeBalance' = Transferred(SBTC, from, to, n),
           TotalIssuance' = TotalIssuance,
           UNCHANGED <<ReservedBalance, Permissions, Restrictions, Symbols, contextVars, rootKey>>
    PROVE  /\ AssetsTypeOK' /\ IssuanceIsHeld'
           /\ FreeBalance'[SBTC][from] = FreeBalance[SBTC][from] - n
           /\ FreeBalance'[SBTC][to] = FreeBalance[SBTC][to] + n
           /\ \A w \in AccountId \ {from, to} : FreeBalance'[SBTC][w] = FreeBalance[SBTC][w]
           /\ FreeBalance[SBTC][from] \in Nat /\ FreeBalance[SBTC][to] \in Nat /\ n \in Nat
<1>1. SBTC \in AssetId
  BY BridgeAssumption, GenesisAssumption
<1>2. FreeBalance' \in [AssetId -> [AccountId -> Balance]]
  BY <1>1, TransferredType
<1>3. AssetsTypeOK'
  BY <1>2 DEF AssetsTypeOK, contextVars
<1>4. IssuanceIsHeld'
  BY <1>1, TransferKeepsIssuance
<1>5. FreeBalance' = [FreeBalance EXCEPT ![SBTC] =
                      [FreeBalance[SBTC] EXCEPT ![from] = FreeBalance[SBTC][from] - n,
                                                ![to] = FreeBalance[SBTC][to] + n]]
  BY <1>1, TransferredTotal
<1>6. /\ FreeBalance'[SBTC][from] = FreeBalance[SBTC][from] - n
      /\ FreeBalance'[SBTC][to] = FreeBalance[SBTC][to] + n
      /\ \A w \in AccountId \ {from, to} : FreeBalance'[SBTC][w] = FreeBalance[SBTC][w]
  BY <1>1, <1>5 DEF AssetsTypeOK
<1>7. FreeBalance[SBTC][from] \in Nat /\ FreeBalance[SBTC][to] \in Nat /\ n \in Nat
  BY <1>1, MaxBalanceAssumption DEF AssetsTypeOK, Balance
<1> QED BY <1>3, <1>4, <1>6, <1>7

\* Taking the first entry of an amount out of a client's pending withdrawals.
LEMMA PendingTotalLess ==
    ASSUME BridgeTypeOK, BridgeTypeOK', NEW who \in Client, NEW n \in Nat,
           PendingWithdrawFound(who, n),
           PendingWithdraws' = remove_from_pending_withdraws(who, n)
    PROVE  PendingTotal' \in Nat /\ PendingTotal = PendingTotal' + n
<1> DEFINE s == PendingWithdraws[who]
           t == PendingWithdraws'[who]
<1>1. /\ who \in AccountId /\ s \in Seq(Balance) /\ t \in Seq(Balance)
      /\ t = RemoveFirst(s, n)
      /\ \A w \in AccountId \ {who} : PendingWithdraws'[w] = PendingWithdraws[w]
      /\ Contains(s, n)
  BY BridgeAssumption DEF BridgeTypeOK, remove_from_pending_withdraws, PendingWithdrawFound
<1>2. /\ PendingTotal \in Nat /\ PendingTotal' \in Nat
      /\ PendingTotal' + SumFunction(s) = PendingTotal + SumFunction(t)
  BY <1>1, PendingTotalChanges
<1> HIDE DEF s, t
<1>3. s \in Seq(Nat) /\ SumFunction(s) \in Nat /\ SumFunction(t) \in Nat
  BY <1>1, PendingSum
<1>4. SumFunction(s) = n + SumFunction(t)
  BY <1>1, <1>3, RemoveFirstSum
<1>5. PICK a \in Nat, b \in Nat : a = SumFunction(s) /\ b = SumFunction(t)
  BY <1>3
<1>6. PendingTotal' + a = PendingTotal + b /\ a = n + b
  BY <1>2, <1>4, <1>5
<1>7. PICK p \in Nat, q \in Nat : p = PendingTotal /\ q = PendingTotal'
  BY <1>2
<1>8. q + a = p + b /\ a = n + b
  BY <1>6, <1>7
<1>9. p = q + n
  BY <1>8
<1> QED BY <1>7, <1>9

\* refund pays back out of the vault what it takes out of the pending withdrawals.
LEMMA RefundKeeps ==
    ASSUME BridgeTypeOK, BridgeTypeOK', VaultInv, NEW admin \in AccountId, NEW who \in Client,
           NEW n \in Amount, Refund(admin, who, n)
    PROVE  VaultInv'
<1> DEFINE V == PendingWithdrawVault
           free(w) == FreeBalance[SBTC][w]
<1>1. SBTC \in AssetId /\ who \in AccountId /\ V \in AccountId /\ who # V /\ n \in Balance
  BY BridgeAssumption, GenesisAssumption, VaultAssumption, AmountAssumption
<1>2. AssetsTypeOK /\ IssuanceIsHeld
  BY DEF VaultInv
<1>3. /\ AssetsTypeOK' /\ IssuanceIsHeld'
      /\ FreeBalance'[SBTC][V] = FreeBalance[SBTC][V] - n
      /\ FreeBalance'[SBTC][who] = FreeBalance[SBTC][who] + n
      /\ \A w \in AccountId \ {V, who} : FreeBalance'[SBTC][w] = FreeBalance[SBTC][w]
      /\ FreeBalance[SBTC][V] \in Nat /\ FreeBalance[SBTC][who] \in Nat /\ n \in Nat
  BY <1>1, <1>2, VaultTransfer DEF Refund, MakeTransferOk
<1>4. PendingTotal' \in Nat /\ PendingTotal = PendingTotal' + n
  BY <1>3, PendingTotalLess DEF Refund
<1>5. /\ Outside \in Nat /\ Outside' \in Nat
      /\ Outside' + FreeBalance[SBTC][who] = Outside + FreeBalance'[SBTC][who]
  BY <1>1, <1>2, <1>3, OutsideChanges
<1>6. btcHeld' = btcHeld
  BY DEF Refund
<1>7. /\ PendingTotal <= FreeBalance[SBTC][V] /\ Outside + PendingTotal <= btcHeld
      /\ btcHeld \in Int
  BY VaultInvFacts
<1>8. PendingTotal' <= FreeBalance'[SBTC][V] /\ Outside' + PendingTotal' <= btcHeld'
  <2> HIDE DEF V
  <2> QED BY <1>3, <1>4, <1>5, <1>6, <1>7
<1> QED BY <1>3, <1>6, <1>7, <1>8 DEF VaultInv, VaultCoversPendingWithdraws, Backed, Outside

\* withdraw_finish: the Bitcoin that is paid out is no longer owed.
LEMMA WithdrawFinishKeeps ==
    ASSUME BridgeTypeOK, BridgeTypeOK', VaultInv, NEW admin \in AccountId, NEW who \in Client,
           NEW n \in Amount, WithdrawFinish(admin, who, n)
    PROVE  VaultInv'
<1>1. n \in Nat
  BY AmountAssumption, MaxBalanceAssumption DEF Balance
<1>2. PendingTotal' \in Nat /\ PendingTotal = PendingTotal' + n
  BY <1>1, PendingTotalLess DEF WithdrawFinish
<1>3. UNCHANGED assetVars /\ btcHeld' = btcHeld - n
  BY DEF WithdrawFinish
<1>4. AssetsTypeOK' /\ IssuanceIsHeld' /\ FreeBalance' = FreeBalance
  BY <1>3, LedgerStepType DEF VaultInv, IssuanceIsHeld, Held, assetVars, balanceVars
<1>5. Outside' = Outside
  BY <1>4 DEF Outside
<1>6. /\ PendingTotal <= FreeBalance[SBTC][PendingWithdrawVault]
      /\ Outside + PendingTotal <= btcHeld /\ btcHeld \in Int /\ Outside \in Nat
  BY VaultInvFacts
<1>7. FreeBalance[SBTC][PendingWithdrawVault] \in Nat
  BY OutsideIsSum, BridgeAssumption DEF VaultInv
<1>8. /\ PendingTotal' <= FreeBalance'[SBTC][PendingWithdrawVault]
      /\ Outside' + PendingTotal' <= btcHeld' /\ btcHeld' \in Int
  BY <1>1, <1>2, <1>3, <1>4, <1>5, <1>6, <1>7
<1> QED BY <1>4, <1>8 DEF VaultInv, VaultCoversPendingWithdraws, Backed, Outside

\* withdraw moves to the vault what it adds to the pending withdrawals.
LEMMA WithdrawKeeps ==
    ASSUME BridgeTypeOK, BridgeTypeOK', VaultInv, NEW admin \in AccountId, NEW who \in Client,
           NEW n \in Amount, Withdraw(admin, who, n)
    PROVE  VaultInv'
<1> DEFINE V == PendingWithdrawVault
           s == PendingWithdraws[who]
<1>1. SBTC \in AssetId /\ who \in AccountId /\ V \in AccountId /\ who # V /\ n \in Balance
  BY BridgeAssumption, GenesisAssumption, VaultAssumption, AmountAssumption
<1>2. AssetsTypeOK /\ IssuanceIsHeld
  BY DEF VaultInv
<1>3. /\ AssetsTypeOK' /\ IssuanceIsHeld'
      /\ FreeBalance'[SBTC][who] = FreeBalance[SBTC][who] - n
      /\ FreeBalance'[SBTC][V] = FreeBalance[SBTC][V] + n
      /\ \A w \in AccountId \ {who, V} : FreeBalance'[SBTC][w] = FreeBalance[SBTC][w]
      /\ FreeBalance[SBTC][V] \in Nat /\ FreeBalance[SBTC][who] \in Nat /\ n \in Nat
  BY <1>1, <1>2, VaultTransfer DEF Withdraw, MakeTransferOk
<1>4. PendingTotal \in Nat /\ PendingTotal' \in Nat /\ PendingTotal' = PendingTotal + n
  <2>1. /\ s \in Seq(Balance)
        /\ PendingWithdraws'[who] = Append(s, n)
        /\ \A w \in AccountId \ {who} : PendingWithdraws'[w] = PendingWithdraws[w]
    BY <1>1 DEF BridgeTypeOK, Withdraw
  <2>2. /\ PendingTotal \in Nat /\ PendingTotal' \in Nat
        /\ PendingTotal' + SumFunction(s) = PendingTotal + SumFunction(PendingWithdraws'[who])
    BY <2>1, PendingTotalChanges
  <2> HIDE DEF s
  <2>3. s \in Seq(Nat) /\ SumFunction(s) \in Nat
    BY <2>1, PendingSum
  <2>4. SumFunction(Append(s, n)) = SumFunction(s) + n
    BY <1>3, <2>3, SumOfAppend
  <2>5. SumFunction(PendingWithdraws'[who]) = SumFunction(s) + n
    BY <2>1, <2>4
  <2>6. PICK a \in Nat : a = SumFunction(s)
    BY <2>3
  <2>7. PendingTotal' + a = PendingTotal + (a + n)
    BY <2>2, <2>5, <2>6
  <2>8. PICK p \in Nat, q \in Nat : p = PendingTotal /\ q = PendingTotal'
    BY <2>2
  <2>9. q + a = p + (a + n) /\ n \in Nat
    BY <1>3, <2>7, <2>8
  <2>10. q = p + n
    BY <2>9
  <2> QED BY <2>8, <2>10
<1>5. /\ Outside \in Nat /\ Outside' \in Nat
      /\ Outside' + FreeBalance[SBTC][who] = Outside + FreeBalance'[SBTC][who]
  BY <1>1, <1>2, <1>3, OutsideChanges
<1>6. btcHeld' = btcHeld
  BY DEF Withdraw
<1>7. /\ PendingTotal <= FreeBalance[SBTC][V] /\ Outside + PendingTotal <= btcHeld
      /\ btcHeld \in Int
  BY VaultInvFacts
<1>8. PendingTotal' <= FreeBalance'[SBTC][V] /\ Outside' + PendingTotal' <= btcHeld'
  <2> HIDE DEF V
  <2> QED BY <1>3, <1>4, <1>5, <1>6, <1>7
<1> QED BY <1>3, <1>6, <1>7, <1>8 DEF VaultInv, VaultCoversPendingWithdraws, Backed, Outside

\* Where the ledger and the records of the bridge stay as they are, so does VaultInv.
LEMMA VaultInvUnchanged ==
    ASSUME VaultInv, UNCHANGED balanceVars, AssetsTypeOK', UNCHANGED <<PendingWithdraws, btcHeld>>
    PROVE  VaultInv'
<1>1. IssuanceIsHeld'
  BY DEF VaultInv, IssuanceIsHeld, Held, balanceVars
<1>2. PendingTotal' = PendingTotal
  BY DEF PendingTotal
<1> QED BY <1>1, <1>2 DEF VaultInv, VaultCoversPendingWithdraws, Backed, balanceVars

\* A deposit mints what has arrived, or nothing.
LEMMA DepositKeeps ==
    ASSUME BridgeTypeOK, VaultInv, NEW admin \in AccountId, NEW who \in Client,
           NEW n \in Amount, NEW t \in TxHash, Deposit(admin, who, n, t)
    PROVE  VaultInv'
<1>1. CASE UNCHANGED <<assetVars, btcHeld>>
  BY <1>1, VaultInvUnchanged, LedgerStepType DEF Deposit, VaultInv, assetVars
<1>2. CASE HoldDeposit(who, n, t)
  BY <1>1, <1>2 DEF HoldDeposit
<1>3. CASE SimpleDeposit(who, n, t) /\ ~MintFreeOk(SBTC, who, n)
  BY <1>1, <1>3 DEF SimpleDeposit, LedgerUnchangedExceptMint, assetVars, balanceVars
<1>4. CASE SimpleDeposit(who, n, t) /\ MintFreeOk(SBTC, who, n)
  <2>1. n \in Nat
    BY AmountAssumption, MaxBalanceAssumption DEF Balance
  <2> QED BY <1>4, <2>1, MintedIsBacked DEF SimpleDeposit, Deposit, MintFreeOk
<1> QED BY <1>2, <1>3, <1>4 DEF Deposit

\* mark_white mints the held deposits that fit, and no more.
LEMMA MarkWhiteKeeps ==
    ASSUME BridgeTypeOK, VaultInv, NEW admin \in AccountId, NEW who \in Client,
           MarkWhite(admin, who)
    PROVE  VaultInv'
<1> DEFINE held == PendingDepositList[who]
           k == MintableHeld(who, held)
           n == HeldAmount(held, k)
<1>1. held \in Seq(HeldDeposit) /\ Len(held) \in Nat
  BY BridgeAssumption DEF BridgeTypeOK
<1>2. k \in 0 .. Len(held) /\ (k = 0 \/ MintFreeOk(SBTC, who, n))
  BY <1>1, MintableHeldIsMintable
<1>3. n \in Nat /\ (k = 0 => n = 0)
  <2> HIDE DEF k, held
  <2> QED BY <1>1, <1>2, HeldAmountType
<1>4. /\ TotalIssuance' = Minted(SBTC, who, n).issuance
      /\ FreeBalance' = Minted(SBTC, who, n).free
      /\ LedgerUnchangedExceptMint /\ PendingWithdraws' = PendingWithdraws
      /\ btcHeld' = btcHeld + n
  BY DEF MarkWhite
<1> HIDE DEF n, k, held
<1>5. TotalIssuance[SBTC] + n <= MaxBalance /\ FreeBalance[SBTC][who] + n <= MaxBalance
  <2>1. TotalIssuance[SBTC] \in Balance /\ FreeBalance[SBTC][who] \in Balance
    BY BridgeAssumption, GenesisAssumption DEF VaultInv, AssetsTypeOK
  <2>2. CASE k = 0
    BY <1>3, <2>1, <2>2, MaxBalanceAssumption DEF Balance
  <2> QED BY <1>2, <2>2 DEF MintFreeOk
<1> QED BY <1>3, <1>4, <1>5, MintedIsBacked

\* What clients and governance do with SBTC creates none, and leaves the vault alone.
LEMMA EnvironmentKeeps ==
    ASSUME BridgeTypeOK, VaultInv, Environment
    PROVE  VaultInv'
<1> USE BridgeAssumption, GenesisAssumption, VaultAssumption, AmountAssumption
<1>0. /\ AssetsTypeOK /\ IssuanceIsHeld /\ SBTC \in AssetId
      /\ UNCHANGED <<PendingWithdraws, btcHeld>>
  BY DEF VaultInv, Environment, bridgeVars
<1>1. PendingTotal' = PendingTotal
  BY <1>0 DEF PendingTotal
<1>2. ASSUME NEW from \in Client, NEW to \in Client, NEW n \in Amount,
             Transfer(SBTC, from, to, n)
      PROVE  VaultInv'
  <2>1. CASE from = to
    <3>1. UNCHANGED assetVars
      BY <1>2, <2>1 DEF Transfer, Transferred, Moved, assetVars, balanceVars
    <3>2. AssetsTypeOK'
      BY <1>0, <3>1, LedgerStepType
    <3> QED BY <1>0, <3>1, <3>2, VaultInvUnchanged DEF assetVars
  <2>2. CASE from # to
    <3>1. /\ from \in AccountId \ {PendingWithdrawVault} /\ to \in AccountId \ {PendingWithdrawVault}
          /\ n \in Balance
      OBVIOUS
    <3>2. /\ AssetsTypeOK' /\ IssuanceIsHeld'
          /\ FreeBalance'[SBTC][from] = FreeBalance[SBTC][from] - n
          /\ FreeBalance'[SBTC][to] = FreeBalance[SBTC][to] + n
          /\ \A w \in AccountId \ {from, to} : FreeBalance'[SBTC][w] = FreeBalance[SBTC][w]
          /\ FreeBalance[SBTC][from] \in Nat /\ FreeBalance[SBTC][to] \in Nat /\ n \in Nat
      BY <1>0, <1>2, <2>2, <3>1, VaultTransfer DEF Transfer, MakeTransferOk
    <3>3. FreeBalance[SBTC][from] + FreeBalance[SBTC][to]
              = FreeBalance'[SBTC][from] + FreeBalance'[SBTC][to]
      BY <3>2
    <3>4. Outside' = Outside
      BY <1>0, <2>2, <3>1, <3>2, <3>3, OutsideStays
    <3>5. FreeBalance'[SBTC][PendingWithdrawVault] = FreeBalance[SBTC][PendingWithdrawVault]
      BY <3>1, <3>2
    <3> QED BY <1>0, <1>1, <3>2, <3>4, <3>5
            DEF VaultInv, VaultCoversPendingWithdraws, Backed, Outside
  <2> QED BY <2>1, <2>2
<1>3. ASSUME NEW who \in Client, NEW n \in Amount, Burn(SBTC, who, n)
      PROVE  VaultInv'
  <2>1. AssetsTypeOK'
    BY <1>0, <1>3, LedgerStepType DEF AssetsNext, BalanceNext
  <2>2. IssuanceIsHeld'
    BY <1>0, <1>3, <2>1, BurnKeepsIssuance DEF Burn
  <2>3. /\ FreeBalance'[SBTC][who] = FreeBalance[SBTC][who] - n
        /\ \A w \in AccountId \ {who} : FreeBalance'[SBTC][w] = FreeBalance[SBTC][w]
    BY <1>0, <1>3 DEF Burn, Burned, AssetsTypeOK
  <2>4. /\ Outside \in Nat /\ Outside' \in Nat
        /\ Outside' + FreeBalance[SBTC][who] = Outside + FreeBalance'[SBTC][who]
    BY <1>0, <2>1, <2>3, OutsideChanges
  <2>5. FreeBalance[SBTC][who] \in Nat /\ n \in Nat
    BY <1>0, MaxBalanceAssumption DEF AssetsTypeOK, Balance
  <2>6. Outside' <= Outside
    BY <2>3, <2>4, <2>5
  <2>7. FreeBalance'[SBTC][PendingWithdrawVault] = FreeBalance[SBTC][PendingWithdrawVault]
    BY <2>3
  <2>8. Outside' + PendingTotal' <= btcHeld' /\ btcHeld' \in Int
    BY <1>0, <1>1, <2>4, <2>6, VaultInvFacts
  <2> QED BY <1>0, <1>1, <2>1, <2>2, <2>7, <2>8
          DEF VaultInv, VaultCoversPendingWithdraws, Backed, Outside
<1>4. ASSUME UNCHANGED balanceVars, AssetsNext
      PROVE  VaultInv'
  BY <1>0, <1>4, VaultInvUnchanged, LedgerStepType
<1>5. ASSUME NEW p \in NewPermission, UpdatePermission(SBTC, p) PROVE VaultInv'
  BY <1>0, <1>4, <1>5 DEF UpdatePermission, AssetsNext, GovernanceNext
<1>6. ASSUME NEW b \in BOOLEAN, UpdateRestriction(SBTC, "Transferable", b) PROVE VaultInv'
  BY <1>0, <1>4, <1>6 DEF UpdateRestriction, AssetsNext, GovernanceNext, Restriction
<1> QED BY <1>2, <1>3, <1>5, <1>6 DEF Environment

\* Every step of the bridge keeps its money in order.
LEMMA VaultStep == BridgeTypeOK /\ BridgeTypeOK' /\ VaultInv /\ [Next]_vars => VaultInv'
<1> SUFFICES ASSUME BridgeTypeOK, BridgeTypeOK', VaultInv, [Next]_vars PROVE VaultInv'
  OBVIOUS
<1>1. ASSUME UNCHANGED <<assetVars, PendingWithdraws, btcHeld>> PROVE VaultInv'
  BY <1>1, VaultInvUnchanged, LedgerStepType DEF VaultInv, assetVars
<1>2. CASE \/ Pause \/ Resume \/ UNCHANGED vars
           \/ \E who \in AdminCandidate : DeleteAdmin(who)
           \/ \E who \in AdminCandidate, auth \in NewAuth : UpdateAdmin(who, auth)
           \/ \E admin \in AccountId, who \in Client : MarkBlack(admin, who)
  BY <1>1, <1>2 DEF Pause, Resume, DeleteAdmin, UpdateAdmin, MarkBlack, vars, bridgeVars
<1>3. CASE \E admin \in AccountId, who \in Client, n \in Amount, t \in TxHash :
               Deposit(admin, who, n, t)
  BY <1>3, DepositKeeps
<1>4. CASE \E admin \in AccountId, who \in Client, n \in Amount :
               Refund(admin, who, n) \/ WithdrawFinish(admin, who, n) \/ Withdraw(admin, who, n)
  BY <1>4, RefundKeeps, WithdrawFinishKeeps, WithdrawKeeps
<1>5. CASE \E admin \in AccountId, who \in Client : MarkWhite(admin, who)
  BY <1>5, MarkWhiteKeeps
<1>6. CASE Environment
  BY <1>6, EnvironmentKeeps
<1> QED BY <1>2, <1>3, <1>4, <1>5, <1>6 DEF Next

\* At genesis nothing is pending, and the federation holds what is endowed.
LEMMA VaultGenesis == Init => VaultInv
<1> SUFFICES ASSUME Init PROVE VaultInv
  OBVIOUS
<1>1. AssetsTypeOK /\ IssuanceIsHeld
  BY GenesisType, GenesisIssuance DEF Init
<1>2. SBTC \in AssetId /\ PendingWithdrawVault \in AccountId
  BY BridgeAssumption, GenesisAssumption
<1>3. PendingTotal = 0
  <2> DEFINE f == [w \in Client |-> SumFunction(PendingWithdraws[w])]
  <2>1. SumFunction(<<>>) = 0
    BY SumOfNone DEF SumFunction
  <2>2. \A w \in Client : f[w] = 0
    BY <2>1, BridgeAssumption DEF Init
  <2>3. f \in [Client -> Nat] /\ IsFiniteSet(Client)
    BY <2>2, AccountAssumption, BridgeAssumption, FS_Subset
  <2> HIDE DEF f
  <2>4. SumFunctionOnSet(f, Client) = 0 /\ SumFunction(f) = SumFunctionOnSet(f, Client)
    BY <2>2, <2>3, SumOfZeros, SumOverDomain
  <2> QED BY <2>4 DEF PendingTotal, f
<1>4. Outside <= TotalIssuance[SBTC] /\ Outside \in Nat /\ TotalIssuance[SBTC] \in Nat
  <2> DEFINE f == FreeBalance[SBTC]
             r == ReservedBalance[SBTC]
  <2>1. f \in [AccountId -> Balance] /\ r \in [AccountId -> Balance]
    BY <1>1, <1>2 DEF AssetsTypeOK
  <2>2. \A w \in AccountId : f[w] \in Nat
    <3> HIDE DEF f
    <3> QED BY <2>1, MaxBalanceAssumption DEF Balance
  <2>3. TotalIssuance[SBTC] = SumFunction(f) + SumFunction(r)
    BY <1>1, <1>2 DEF IssuanceIsHeld, Held
  <2>4. Outside = SumFunctionOnSet(f, AccountId \ {PendingWithdrawVault})
    BY DEF Outside
  <2> HIDE DEF f, r
  <2>5. SumFunction(f) = SumFunctionOnSet(f, AccountId) /\ SumFunction(r) \in Nat
    BY <2>1, TotalIsSum
  <2>6. /\ SumFunctionOnSet(f, AccountId)
              = f[PendingWithdrawVault] + SumFunctionOnSet(f, AccountId \ {PendingWithdrawVault})
        /\ SumFunctionOnSet(f, AccountId) \in Nat
    BY <1>2, <2>2, AccountAssumption, SumTakesOut
  <2>7. Outside \in Nat
    BY <1>1, OutsideIsSum
  <2>8. f[PendingWithdrawVault] \in Nat
    BY <1>2, <2>2
  <2> QED BY <2>3, <2>4, <2>5, <2>6, <2>7, <2>8
<1>5. FreeBalance[SBTC][PendingWithdrawVault] \in Nat
  BY <1>1, <1>2, OutsideIsSum
<1>6. btcHeld = TotalIssuance[SBTC]
  BY DEF Init
<1>7. btcHeld \in Int /\ Outside + PendingTotal <= btcHeld
  BY <1>3, <1>4, <1>6
<1> QED BY <1>1, <1>3, <1>5, <1>7 DEF VaultInv, VaultCoversPendingWithdraws, Backed, Outside

\* VaultInv holds in every reachable state.
LEMMA VaultInvHolds == Spec => []VaultInv
  BY VaultGenesis, VaultStep, BridgeTypeCorrect, PTL DEF Spec

\* The vault always holds what it takes to refund every pending withdrawal, in
\* whatever order withdraw, refund and withdraw_finish come.
THEOREM VaultAlwaysCovers == Spec => []VaultCoversPendingWithdraws
<1>1. VaultInv => VaultCoversPendingWithdraws
  BY DEF VaultInv
<1> QED BY <1>1, VaultInvHolds, PTL

\* SBTC outside the vault and withdrawals still to be paid never exceed the
\* Bitcoin the federation holds, although withdraw_finish burns nothing and a
\* failing mint leaves a deposit recorded.
THEOREM AlwaysBacked == Spec => []Backed
<1>1. VaultInv => Backed
  BY DEF VaultInv
<1> QED BY <1>1, VaultInvHolds, PTL
=============================================================================
