---------------------------- MODULE SavingProofs ----------------------------
(***************************************************************************)
(* Theorems about the savings.  A call is computed on a record of the      *)
(* storage; the set of the records that keep the books (Sound) is closed   *)
(* under every function of the module, and so under the loops over packs,  *)
(* accounts and phases, however long they are.                             *)
(***************************************************************************)
EXTENDS Saving, AssetsProofs

\* Maps with an entry for some of the accounts.
Maps(T) == UNION {[A -> T] : A \in SUBSET AccountId}

\* Nothing adds to ShareAssetCollected, so it is zero.
Uncollected == {[w \in AccountId |-> 0]}

StorageType ==
    [issuance : [AssetId -> Balance], free : Ledger, collected : Uncollected,
     phase : PhaseId, quota : Balance, left : PhaseId, list : Maps(Seq(ReleasePack)),
     shares : Maps(Balance), circulation : Balance, paused : BOOLEAN, ok : BOOLEAN,
     panicked : BOOLEAN, mistracked : BOOLEAN]

\* Maps, entry by entry.
LEMMA MapFacts ==
    ASSUME NEW T, NEW m \in Maps(T)
    PROVE  /\ DOMAIN m \subseteq AccountId /\ m = [x \in DOMAIN m |-> m[x]]
           /\ \A w \in DOMAIN m : m[w] \in T
<1>1. PICK A \in SUBSET AccountId : m \in [A -> T]
  BY DEF Maps
<1> QED BY <1>1

\* Writing an entry.
LEMMA PutFacts ==
    ASSUME NEW T, NEW m \in Maps(T), NEW w \in AccountId, NEW v \in T
    PROVE  /\ Put(m, w, v) \in Maps(T)
           /\ DOMAIN Put(m, w, v) = DOMAIN m \cup {w}
           /\ \A x \in DOMAIN m \cup {w} : Put(m, w, v)[x] = IF x = w THEN v ELSE m[x]
<1>1. DOMAIN m \subseteq AccountId /\ \A x \in DOMAIN m : m[x] \in T
  BY MapFacts
<1>2. DOMAIN m \cup {w} \in SUBSET AccountId
  BY <1>1
<1>3. Put(m, w, v) \in [DOMAIN m \cup {w} -> T]
  BY <1>1 DEF Put
<1>4. Put(m, w, v) \in Maps(T)
  BY <1>2, <1>3 DEF Maps
<1> QED BY <1>3, <1>4 DEF Put

\* Removing an entry.
LEMMA RemovedFacts ==
    ASSUME NEW T, NEW m \in Maps(T), NEW w
    PROVE  /\ Removed(m, w) \in Maps(T)
           /\ DOMAIN Removed(m, w) = DOMAIN m \ {w}
           /\ \A x \in DOMAIN m \ {w} : Removed(m, w)[x] = m[x]
<1>1. DOMAIN m \subseteq AccountId /\ \A x \in DOMAIN m : m[x] \in T
  BY MapFacts
<1>2. Removed(m, w) = [x \in DOMAIN m \ {w} |-> m[x]]
  BY DEF Removed, Restrict
<1>3. Removed(m, w) \in [DOMAIN m \ {w} -> T] /\ DOMAIN m \ {w} \in SUBSET AccountId
  BY <1>1, <1>2
<1>4. Removed(m, w) \in Maps(T)
  BY <1>3 DEF Maps
<1> QED BY <1>2, <1>3, <1>4

\* The entries of a map of balances as a function on all accounts.
HeldBy(m) == [w \in AccountId |-> Get(m, w, 0)]

\* The sum of a map of balances is that of its entries.
LEMMA SumOfMap ==
    ASSUME NEW m \in Maps(Balance)
    PROVE  /\ \A w \in AccountId : Get(m, w, 0) \in Balance
           /\ SumFunction(m) = SumFunctionOnSet(HeldBy(m), AccountId)
           /\ SumFunction(m) \in Nat
           /\ \A w \in AccountId : Get(m, w, 0) <= SumFunction(m)
<1> DEFINE D == DOMAIN m
           h == HeldBy(m)
<1>1. D \in SUBSET AccountId /\ (\A x \in D : m[x] \in Balance) /\ m \in [D -> Balance]
  BY MapFacts
<1>2. \A w \in AccountId : Get(m, w, 0) \in Balance
  BY <1>1, MaxBalanceAssumption DEF Get, Balance
<1>3. /\ \A w \in AccountId : h[w] \in Nat /\ h[w] = Get(m, w, 0)
      /\ \A x \in D : m[x] \in Nat /\ h[x] = m[x]
      /\ \A x \in AccountId \ D : h[x] = 0
  BY <1>1, <1>2, MaxBalanceAssumption DEF HeldBy, Get, Balance
<1>4. SumFunction(m) = SumFunctionOnSet(m, D)
  BY <1>1, SumOverDomain
<1> HIDE DEF D, h
<1>5. SumFunctionOnSet(h, AccountId) = SumFunctionOnSet(m, D)
  BY <1>1, <1>3, AccountAssumption, SumRestricts
<1>6. /\ SumFunctionOnSet(h, AccountId) \in Nat
      /\ \A w \in AccountId : h[w] <= SumFunctionOnSet(h, AccountId)
  BY <1>3, AccountAssumption, SumTakesOut, SumAtLeast
<1> QED BY <1>2, <1>3, <1>4, <1>5, <1>6 DEF h

\* Changing one entry changes the sum by as much.
LEMMA SumOfMapChanges ==
    ASSUME NEW m \in Maps(Balance), NEW g \in Maps(Balance), NEW y \in AccountId,
           \A w \in AccountId \ {y} : Get(g, w, 0) = Get(m, w, 0)
    PROVE  SumFunction(g) + Get(m, y, 0) = SumFunction(m) + Get(g, y, 0)
<1> DEFINE h == HeldBy(m)
           k == HeldBy(g)
<1>1. /\ \A w \in AccountId : h[w] = Get(m, w, 0) /\ k[w] = Get(g, w, 0)
      /\ \A w \in AccountId : h[w] \in Nat /\ k[w] \in Nat
  <2>1. \A w \in AccountId : Get(m, w, 0) \in Balance /\ Get(g, w, 0) \in Balance
    BY SumOfMap
  <2> QED BY <2>1, MaxBalanceAssumption DEF HeldBy, Balance
<1>2. /\ SumFunction(m) = SumFunctionOnSet(h, AccountId)
      /\ SumFunction(g) = SumFunctionOnSet(k, AccountId)
  BY SumOfMap
<1> HIDE DEF h, k
<1>3. SumFunctionOnSet(k, AccountId) + h[y] = SumFunctionOnSet(h, AccountId) + k[y]
  BY <1>1, AccountAssumption, SumChanges
<1> QED BY <1>1, <1>2, <1>3

\* g is m with v for w.
EntryIs(g, m, w, v) ==
    /\ g \in Maps(Balance)
    /\ \A x \in AccountId : Get(g, x, 0) = IF x = w THEN v ELSE Get(m, x, 0)

\* What the entries are after a write.
LEMMA PutEntry ==
    ASSUME NEW m \in Maps(Balance), NEW w \in AccountId, NEW v \in Balance
    PROVE  EntryIs(Put(m, w, v), m, w, v)
<1> DEFINE p == Put(m, w, v)
<1>1. p \in Maps(Balance)
  BY PutFacts
<1>2. /\ DOMAIN p = DOMAIN m \cup {w}
      /\ \A x \in DOMAIN m \cup {w} : p[x] = IF x = w THEN v ELSE m[x]
  BY DEF Put
<1> HIDE DEF p
<1>3. \A x \in AccountId : Get(p, x, 0) = IF x = w THEN v ELSE Get(m, x, 0)
  BY <1>2 DEF Get
<1> QED BY <1>1, <1>3 DEF p, EntryIs

\* What the entries are after one has been removed.
LEMMA RemovedEntry ==
    ASSUME NEW m \in Maps(Balance), NEW w \in AccountId
    PROVE  EntryIs(Removed(m, w), m, w, 0)
<1> DEFINE r == Removed(m, w)
<1>1. /\ r \in Maps(Balance) /\ DOMAIN r = DOMAIN m \ {w}
      /\ \A x \in DOMAIN m \ {w} : r[x] = m[x]
  BY RemovedFacts
<1> HIDE DEF r
<1>2. \A x \in AccountId : Get(r, x, 0) = IF x = w THEN 0 ELSE Get(m, x, 0)
  BY <1>1 DEF Get
<1> QED BY <1>1, <1>2 DEF r, EntryIs

-----------------------------------------------------------------------------
\* The books of circulating shares add up, unless tracking has given up.
Tracks(s) == s.mistracked \/ s.circulation = SumFunction(s.shares)

\* The fields that tracking does not write.
SameBut(s, t) ==
    /\ t.issuance = s.issuance /\ t.free = s.free /\ t.collected = s.collected
    /\ t.phase = s.phase /\ t.quota = s.quota /\ t.left = s.left /\ t.list = s.list
    /\ t.ok = s.ok /\ t.panicked = s.panicked

\* t comes from s by tracking.
Tracked(s, t) ==
    /\ t \in StorageType
    /\ SameBut(s, t)
    /\ s.mistracked => t.mistracked

\* Entries of shares of s and t differ by n more for `to`.
Gained(s, t, to, n) ==
    \A w \in AccountId : Get(t.shares, w, 0) = Get(s.shares, w, 0) + (IF w = to THEN n ELSE 0)
Lost(s, t, from, n) ==
    \A w \in AccountId : Get(s.shares, w, 0) = Get(t.shares, w, 0) + (IF w = from THEN n ELSE 0)

\* Writing the shares, the circulation or the pause only.
LEMMA WriteShares ==
    ASSUME NEW s \in StorageType, NEW m \in Maps(Balance), NEW t, t = [s EXCEPT !.shares = m]
    PROVE  /\ Tracked(s, t) /\ t.shares = m /\ t.circulation = s.circulation
           /\ t.mistracked = s.mistracked /\ t.paused = s.paused
  BY DEF Tracked, SameBut, StorageType

\* As above, for the circulation.
LEMMA WriteCirculation ==
    ASSUME NEW s \in StorageType, NEW c \in Balance, NEW t, t = [s EXCEPT !.circulation = c]
    PROVE  /\ Tracked(s, t) /\ t.shares = s.shares /\ t.circulation = c
           /\ t.mistracked = s.mistracked /\ t.paused = s.paused
  BY DEF Tracked, SameBut, StorageType

\* As above, for the pause.
LEMMA WritePause ==
    ASSUME NEW s \in StorageType, NEW t, t = _pause(s)
    PROVE  /\ Tracked(s, t) /\ t.shares = s.shares /\ t.circulation = s.circulation
           /\ t.mistracked /\ t.paused
  BY DEF Tracked, SameBut, StorageType, _pause

\* The fields of a typed record.
LEMMA StorageFields ==
    ASSUME NEW s \in StorageType
    PROVE  /\ s.issuance \in [AssetId -> Balance] /\ s.free \in Ledger
           /\ s.collected \in [AccountId -> Balance] /\ (\A w \in AccountId : s.collected[w] = 0)
           /\ s.collected \in Uncollected /\ s.phase \in PhaseId
           /\ s.quota \in Balance /\ s.left \in PhaseId /\ s.list \in Maps(Seq(ReleasePack))
           /\ s.shares \in Maps(Balance) /\ s.circulation \in Balance
           /\ {s.paused, s.ok, s.panicked, s.mistracked} \subseteq BOOLEAN
           /\ s.circulation \in Nat /\ SumFunction(s.shares) \in Nat
           /\ \A w \in AccountId : Get(s.shares, w, 0) \in Nat /\ Get(s.shares, w, 0) \in Balance
                                   /\ Get(s.shares, w, 0) <= SumFunction(s.shares)
<1>1. s.shares \in Maps(Balance) /\ s.circulation \in Balance
  BY DEF StorageType
<1>2. /\ \A w \in AccountId : Get(s.shares, w, 0) \in Balance
      /\ SumFunction(s.shares) \in Nat
      /\ \A w \in AccountId : Get(s.shares, w, 0) <= SumFunction(s.shares)
  BY <1>1, SumOfMap
<1>3. Balance \subseteq Nat
  BY MaxBalanceAssumption DEF Balance
<1>4. s.collected \in Uncollected /\ s.collected = [w \in AccountId |-> 0] /\ 0 \in Balance
  BY MaxBalanceAssumption DEF StorageType, Uncollected, Balance
<1>5. s.collected \in [AccountId -> Balance] /\ \A w \in AccountId : s.collected[w] = 0
  BY <1>4
<1> QED BY <1>1, <1>2, <1>3, <1>4, <1>5 DEF StorageType

\* t is s with v for w in its shares.
EntryEffect(s, t, w, v) ==
    /\ Tracked(s, t) /\ t.circulation = s.circulation /\ t.mistracked = s.mistracked
    /\ t.paused = s.paused
    /\ Get(t.shares, w, 0) = v
    /\ \A u \in AccountId \ {w} : Get(t.shares, u, 0) = Get(s.shares, u, 0)
    /\ SumFunction(t.shares) + Get(s.shares, w, 0) = SumFunction(s.shares) + v

\* A write of one entry, in the sum and in the entries.
LEMMA EntryWritten ==
    ASSUME NEW s \in StorageType, NEW w \in AccountId, NEW v \in Balance, NEW g, NEW t,
           EntryIs(g, s.shares, w, v), t = [s EXCEPT !.shares = g]
    PROVE  EntryEffect(s, t, w, v)
<1>1. s.shares \in Maps(Balance) /\ g \in Maps(Balance)
  BY StorageFields DEF EntryIs
<1>2. \A x \in AccountId : Get(g, x, 0) = IF x = w THEN v ELSE Get(s.shares, x, 0)
  BY DEF EntryIs
<1>3. /\ Tracked(s, t) /\ t.shares = g /\ t.circulation = s.circulation
      /\ t.mistracked = s.mistracked /\ t.paused = s.paused
  BY <1>1, WriteShares
<1>4. SumFunction(g) + Get(s.shares, w, 0) = SumFunction(s.shares) + Get(g, w, 0)
  BY <1>1, <1>2, SumOfMapChanges
<1> QED BY <1>2, <1>3, <1>4 DEF EntryEffect

\* Writing an entry.
LEMMA EntryPut ==
    ASSUME NEW s \in StorageType, NEW w \in AccountId, NEW v \in Balance
    PROVE  EntryEffect(s, [s EXCEPT !.shares = Put(@, w, v)], w, v)
<1>1. EntryIs(Put(s.shares, w, v), s.shares, w, v)
  BY StorageFields, PutEntry
<1> DEFINE g == Put(s.shares, w, v)
           t == [s EXCEPT !.shares = g]
<1>2. EntryIs(g, s.shares, w, v)
  BY <1>1
<1>3. t = [s EXCEPT !.shares = g]
  OBVIOUS
<1> HIDE DEF g, t
<1>4. EntryEffect(s, t, w, v)
  BY <1>2, <1>3, EntryWritten
<1> QED BY <1>4 DEF t, g

\* Removing an entry.
LEMMA EntryRemoved ==
    ASSUME NEW s \in StorageType, NEW w \in AccountId
    PROVE  EntryEffect(s, [s EXCEPT !.shares = Removed(@, w)], w, 0)
<1>1. EntryIs(Removed(s.shares, w), s.shares, w, 0) /\ 0 \in Balance
  BY StorageFields, RemovedEntry, MaxBalanceAssumption DEF Balance
<1> DEFINE g == Removed(s.shares, w)
           t == [s EXCEPT !.shares = g]
<1>2. EntryIs(g, s.shares, w, 0)
  BY <1>1
<1>3. t = [s EXCEPT !.shares = g]
  OBVIOUS
<1> HIDE DEF g, t
<1>4. EntryEffect(s, t, w, 0)
  BY <1>1, <1>2, <1>3, EntryWritten
<1> QED BY <1>4 DEF t, g

\* Credited adds to one entry, or tracking gives up.
LEMMA CreditedFacts ==
    ASSUME NEW s \in StorageType, NEW to \in AccountId, NEW n \in Nat, NEW t, t = Credited(s, to, n)
    PROVE  /\ Tracked(s, t) /\ t.circulation = s.circulation
           /\ \/ t.mistracked
              \/ SumFunction(t.shares) = SumFunction(s.shares) + n /\ Gained(s, t, to, n)
<1> DEFINE h == Get(s.shares, to, 0)
<1>1. h \in Nat /\ h \in Balance /\ SumFunction(s.shares) \in Nat
      /\ \A w \in AccountId : Get(s.shares, w, 0) \in Nat
  BY StorageFields
<1>2. CASE h + n <= MaxBalance
  <2>2. PICK v \in Balance : v = h + n
    BY <1>1, <1>2, MaxBalanceAssumption DEF Balance
  <2>1. t = [s EXCEPT !.shares = Put(@, to, v)]
    BY <1>2, <2>2 DEF Credited
  <2> HIDE DEF h
  <2>3. /\ Tracked(s, t) /\ t.circulation = s.circulation
        /\ Get(t.shares, to, 0) = v
        /\ \A u \in AccountId \ {to} : Get(t.shares, u, 0) = Get(s.shares, u, 0)
        /\ SumFunction(t.shares) + Get(s.shares, to, 0) = SumFunction(s.shares) + v
    BY <2>1, <2>2, EntryPut DEF EntryEffect
  <2>4. SumFunction(t.shares) \in Nat
    <3>1. t \in StorageType
      BY <2>3 DEF Tracked
    <3> QED BY <3>1, StorageFields
  <2>5. Get(s.shares, to, 0) = h
    BY DEF h
  <2>6. SumFunction(t.shares) = SumFunction(s.shares) + n
    BY <1>1, <2>2, <2>3, <2>4, <2>5
  <2>7. Gained(s, t, to, n)
    BY <1>1, <2>2, <2>3, <2>5 DEF Gained
  <2> QED BY <2>3, <2>6, <2>7
<1>3. CASE ~(h + n <= MaxBalance)
  BY <1>3, WritePause DEF Credited
<1> QED BY <1>2, <1>3

\* Tracking twice is tracking.
LEMMA TrackedTwice ==
    ASSUME NEW s, NEW t, NEW u, Tracked(s, t), Tracked(t, u)
    PROVE  Tracked(s, u)
  BY DEF Tracked, SameBut

\* Shares that go out of circulation, or tracking gives up.
LEMMA OutFacts ==
    ASSUME NEW s \in StorageType, NEW n \in Nat, NEW t, t = OutOfCirculation(s, n)
    PROVE  /\ Tracked(s, t) /\ t.shares = s.shares
           /\ t.mistracked \/ (t.mistracked = s.mistracked /\ t.circulation + n = s.circulation)
<1>1. s.circulation \in Nat /\ s.circulation \in Balance
  BY StorageFields
<1>2. CASE n <= s.circulation
  <2>1. PICK c \in Balance : c = s.circulation - n
    BY <1>1, <1>2, MaxBalanceAssumption DEF Balance
  <2>2. t = [s EXCEPT !.circulation = c]
    BY <1>2, <2>1 DEF OutOfCirculation
  <2>3. /\ Tracked(s, t) /\ t.shares = s.shares /\ t.circulation = c
        /\ t.mistracked = s.mistracked
    BY <2>2, WriteCirculation
  <2> QED BY <1>1, <2>1, <2>3
<1>3. CASE ~(n <= s.circulation)
  BY <1>3, WritePause DEF OutOfCirculation
<1> QED BY <1>2, <1>3

\* Shares that come into circulation, or tracking gives up.
LEMMA IntoFacts ==
    ASSUME NEW s \in StorageType, NEW n \in Nat, NEW t, t = IntoCirculation(s, n)
    PROVE  /\ Tracked(s, t) /\ t.shares = s.shares
           /\ t.mistracked \/ (t.mistracked = s.mistracked /\ t.circulation = s.circulation + n)
<1>1. s.circulation \in Nat /\ s.circulation \in Balance
  BY StorageFields
<1>2. CASE s.circulation + n <= MaxBalance
  <2>1. PICK c \in Balance : c = s.circulation + n
    BY <1>1, <1>2, MaxBalanceAssumption DEF Balance
  <2>2. t = [s EXCEPT !.circulation = c]
    BY <1>2, <2>1 DEF IntoCirculation
  <2>3. /\ Tracked(s, t) /\ t.shares = s.shares /\ t.circulation = c
        /\ t.mistracked = s.mistracked
    BY <2>2, WriteCirculation
  <2> QED BY <1>1, <2>1, <2>3
<1>3. CASE ~(s.circulation + n <= MaxBalance)
  BY <1>3, WritePause DEF IntoCirculation
<1> QED BY <1>2, <1>3

\* The plain addition to the circulation.
LEMMA FromCollectionFacts ==
    ASSUME NEW s \in StorageType, NEW n \in Nat, NEW t, t = FromCollection(s, n)
    PROVE  /\ Tracked(s, t) /\ t.shares = s.shares
           /\ t.mistracked \/ (t.mistracked = s.mistracked /\ t.circulation = s.circulation + n)
<1> DEFINE c == Wrap(s.circulation + n)
           b == s.mistracked \/ s.circulation + n > MaxBalance
<1>1. s.circulation \in Nat /\ s.mistracked \in BOOLEAN
  BY StorageFields
<1>2. c \in Balance /\ (s.circulation + n <= MaxBalance => c = s.circulation + n)
  <2>1. PICK k \in Nat : k = s.circulation + n
    BY <1>1
  <2>2. Wrap(k) \in Balance /\ (k <= MaxBalance => k \in Balance)
    BY WrapInRange, MaxBalanceAssumption DEF Balance
  <2>3. k <= MaxBalance => Wrap(k) = k
    BY <2>2, WrapFits
  <2> QED BY <2>1, <2>2, <2>3
<1>3. b \in BOOLEAN
  OBVIOUS
<1>4. t = [s EXCEPT !.circulation = c, !.mistracked = b]
  BY DEF FromCollection
<1> HIDE DEF c
<1>5. /\ t \in StorageType /\ SameBut(s, t) /\ t.shares = s.shares
      /\ t.circulation = c /\ t.mistracked = b
  <2> HIDE DEF b
  <2> QED BY <1>2, <1>3, <1>4 DEF SameBut, StorageType
<1>6. s.mistracked => t.mistracked
  BY <1>5
<1>7. ~ t.mistracked => s.circulation + n <= MaxBalance /\ ~ s.mistracked
  <2>1. ~(s.circulation + n > MaxBalance) => s.circulation + n <= MaxBalance
    BY <1>1, MaxBalanceAssumption
  <2> QED BY <1>5, <2>1
<1>8. ~ t.mistracked => t.mistracked = s.mistracked /\ t.circulation = s.circulation + n
  BY <1>1, <1>2, <1>3, <1>5, <1>7, Zenon
<1> QED BY <1>5, <1>6, <1>8 DEF Tracked

-----------------------------------------------------------------------------
\* The hook of mint: the account gains the shares, and they circulate.
LEMMA MintHook ==
    ASSUME NEW s \in StorageType, NEW a, NEW to \in AccountId, NEW n \in Nat,
           NEW t, t = on_asset_mint(s, a, to, n)
    PROVE  /\ Tracked(s, t) /\ (Tracks(s) => Tracks(t))
           /\ t.mistracked \/ IF a = ShareAssetId /\ to # CollectionAccountId
                              THEN Gained(s, t, to, n) ELSE t = s
<1>1. CASE ~(a = ShareAssetId /\ to # CollectionAccountId)
  BY <1>1 DEF on_asset_mint, Tracked, SameBut
<1>2. CASE a = ShareAssetId /\ to # CollectionAccountId
  <2>1. PICK c : c = Credited(s, to, n)
    OBVIOUS
  <2>2. t = IntoCirculation(c, n)
    BY <1>2, <2>1 DEF on_asset_mint
  <2>3. /\ Tracked(s, c) /\ c.circulation = s.circulation
        /\ c.mistracked \/ (SumFunction(c.shares) = SumFunction(s.shares) + n /\ Gained(s, c, to, n))
    BY <2>1, CreditedFacts
  <2>4. c \in StorageType
    BY <2>3 DEF Tracked
  <2>5. /\ Tracked(c, t) /\ t.shares = c.shares
        /\ t.mistracked \/ (t.mistracked = c.mistracked /\ t.circulation = c.circulation + n)
    BY <2>2, <2>4, IntoFacts
  <2>6. Tracked(s, t)
    BY <2>3, <2>5, TrackedTwice
  <2>7. s.mistracked => t.mistracked
    BY <2>6 DEF Tracked
  <2>8. Tracks(s) => Tracks(t)
    BY <2>3, <2>5, <2>7 DEF Tracks
  <2>9. t.mistracked \/ Gained(s, t, to, n)
    BY <2>3, <2>5 DEF Gained
  <2> QED BY <1>2, <2>6, <2>8, <2>9
<1> QED BY <1>1, <1>2

\* The hook of burn: the account loses the shares, and so does the circulation.
LEMMA BurnHook ==
    ASSUME NEW s \in StorageType, NEW a, NEW from \in AccountId, NEW n \in Nat,
           NEW t, t = on_asset_burn(s, a, from, n)
    PROVE  /\ Tracked(s, t) /\ (Tracks(s) => Tracks(t))
           /\ t.mistracked \/ IF ~s.paused /\ a = ShareAssetId /\ from # CollectionAccountId
                              THEN Lost(s, t, from, n) ELSE t = s
<1>1. CASE ~(~s.paused /\ a = ShareAssetId /\ from # CollectionAccountId)
  BY <1>1 DEF on_asset_burn, Tracked, SameBut
<1>2. CASE ~s.paused /\ a = ShareAssetId /\ from # CollectionAccountId
  <2>1. PICK h : h = Get(s.shares, from, 0)
    OBVIOUS
  <2>2. h \in Nat /\ h \in Balance /\ SumFunction(s.shares) \in Nat
        /\ \A w \in AccountId : Get(s.shares, w, 0) \in Nat
    BY <2>1, StorageFields
  <2>3. PICK d : d = IF n <= h THEN [s EXCEPT !.shares = Put(@, from, h - n)]
                               ELSE _pause([s EXCEPT !.shares = Put(@, from, h)])
    OBVIOUS
  <2>4. t = OutOfCirculation(d, n)
    BY <1>2, <2>1, <2>3 DEF on_asset_burn
  <2>5. /\ Tracked(s, d)
        /\ d.mistracked \/ (/\ d.circulation = s.circulation
                            /\ SumFunction(d.shares) + n = SumFunction(s.shares)
                            /\ Lost(s, d, from, n))
    <3>1. CASE n <= h
      <4>1. PICK v \in Balance : v = h - n
        BY <2>2, <3>1, MaxBalanceAssumption DEF Balance
      <4>2. EntryEffect(s, d, from, v)
        BY <2>3, <3>1, <4>1, EntryPut
      <4>3. /\ Tracked(s, d) /\ d.circulation = s.circulation /\ Get(d.shares, from, 0) = v
            /\ \A u \in AccountId \ {from} : Get(d.shares, u, 0) = Get(s.shares, u, 0)
            /\ SumFunction(d.shares) + h = SumFunction(s.shares) + v
        BY <2>1, <4>2 DEF EntryEffect
      <4>4. SumFunction(d.shares) \in Nat /\ v \in Nat /\ v + n = h
        <5>1. d \in StorageType
          BY <4>3 DEF Tracked
        <5>2. SumFunction(d.shares) \in Nat
          BY <5>1, StorageFields
        <5> QED BY <2>2, <3>1, <4>1, <5>2
      <4>5. SumFunction(d.shares) + n = SumFunction(s.shares)
        BY <2>2, <4>3, <4>4
      <4>6. Lost(s, d, from, n)
        BY <2>1, <2>2, <4>3, <4>4 DEF Lost
      <4> QED BY <4>3, <4>5, <4>6
    <3>2. CASE ~(n <= h)
      <4>1. PICK e : e = [s EXCEPT !.shares = Put(@, from, h)]
        OBVIOUS
      <4>2. Tracked(s, e)
        BY <2>2, <4>1, EntryPut DEF EntryEffect
      <4>3. e \in StorageType
        BY <4>2 DEF Tracked
      <4>4. d = _pause(e)
        BY <2>3, <3>2, <4>1
      <4>5. Tracked(e, d) /\ d.mistracked
        BY <4>3, <4>4, WritePause
      <4> QED BY <4>2, <4>5, TrackedTwice
    <3> QED BY <3>1, <3>2
  <2>6. d \in StorageType
    BY <2>5 DEF Tracked
  <2>7. /\ Tracked(d, t) /\ t.shares = d.shares
        /\ t.mistracked \/ (t.mistracked = d.mistracked /\ t.circulation + n = d.circulation)
    BY <2>4, <2>6, OutFacts
  <2>8. Tracked(s, t)
    BY <2>5, <2>7, TrackedTwice
  <2>9. s.mistracked => t.mistracked
    BY <2>8 DEF Tracked
  <2>10. t \in StorageType
    BY <2>8 DEF Tracked
  <2>11. t.circulation \in Nat /\ SumFunction(t.shares) \in Nat
    BY <2>10, StorageFields
  <2>12. Tracks(s) => Tracks(t)
    BY <2>2, <2>5, <2>7, <2>9, <2>11 DEF Tracks
  <2>13. t.mistracked \/ Lost(s, t, from, n)
    BY <2>5, <2>7 DEF Lost
  <2> QED BY <1>2, <2>8, <2>12, <2>13
<1> QED BY <1>1, <1>2

\* Taking shares from an account that may be the collection account.
Debited(s, from, n) ==
    LET held == Get(s.shares, from, 0)
    IN  IF from = CollectionAccountId THEN FromCollection(s, n)
        ELSE CASE held < n -> _pause(s)
               [] held = n -> [s EXCEPT !.shares = Removed(@, from)]
               [] held > n -> [s EXCEPT !.shares = Put(@, from, held - n)]

\* The first half of track_share_asset_movement.
LEMMA DebitedFacts ==
    ASSUME NEW s \in StorageType, NEW from \in AccountId, NEW n \in Nat,
           NEW d, d = Debited(s, from, n)
    PROVE  /\ Tracked(s, d)
           /\ d.mistracked \/
                IF from = CollectionAccountId
                THEN d.shares = s.shares /\ d.circulation = s.circulation + n
                ELSE /\ d.circulation = s.circulation /\ Lost(s, d, from, n)
                     /\ SumFunction(d.shares) + n = SumFunction(s.shares)
<1>1. PICK h : h = Get(s.shares, from, 0)
  OBVIOUS
<1>2. h \in Nat /\ h \in Balance /\ SumFunction(s.shares) \in Nat
      /\ \A w \in AccountId : Get(s.shares, w, 0) \in Nat
  BY <1>1, StorageFields
<1>3. CASE from = CollectionAccountId
  <2>1. d = FromCollection(s, n)
    BY <1>3 DEF Debited
  <2> QED BY <1>3, <2>1, FromCollectionFacts
<1>4. CASE from # CollectionAccountId /\ h < n
  <2>1. h # n /\ ~(h > n)
    BY <1>2, <1>4
  <2>2. d = _pause(s)
    BY <1>1, <1>4, <2>1 DEF Debited
  <2> QED BY <2>2, WritePause
<1>5. CASE from # CollectionAccountId /\ n <= h
  <2>1. PICK v \in Balance : v = h - n
    BY <1>2, <1>5, MaxBalanceAssumption DEF Balance
  <2>2. EntryEffect(s, d, from, v)
    <3>1. CASE h = n
      <4>1. d = [s EXCEPT !.shares = Removed(@, from)] /\ v = 0
        BY <1>1, <1>2, <1>5, <2>1, <3>1 DEF Debited
      <4> QED BY <4>1, EntryRemoved
    <3>2. CASE h # n
      <4>1. ~(h < n) /\ h > n
        BY <1>2, <1>5, <3>2
      <4>2. d = [s EXCEPT !.shares = Put(@, from, v)]
        BY <1>1, <1>5, <2>1, <3>2, <4>1 DEF Debited
      <4> QED BY <4>2, EntryPut
    <3> QED BY <3>1, <3>2
  <2>3. /\ Tracked(s, d) /\ d.circulation = s.circulation /\ Get(d.shares, from, 0) = v
        /\ \A u \in AccountId \ {from} : Get(d.shares, u, 0) = Get(s.shares, u, 0)
        /\ SumFunction(d.shares) + h = SumFunction(s.shares) + v
    BY <1>1, <2>2 DEF EntryEffect
  <2>4. SumFunction(d.shares) \in Nat /\ v \in Nat /\ v + n = h
    <3>1. d \in StorageType
      BY <2>3 DEF Tracked
    <3>2. SumFunction(d.shares) \in Nat
      BY <3>1, StorageFields
    <3> QED BY <1>2, <1>5, <2>1, <3>2
  <2>5. SumFunction(d.shares) + n = SumFunction(s.shares)
    BY <1>2, <2>3, <2>4
  <2>6. Lost(s, d, from, n)
    BY <1>1, <1>2, <2>3, <2>4 DEF Lost
  <2> QED BY <1>5, <2>3, <2>5, <2>6
<1>6. h < n \/ n <= h
  BY <1>2
<1> QED BY <1>3, <1>4, <1>5, <1>6

\* The hook of transfer: the shares change hands, or leave or enter circulation.
LEMMA TransferHook ==
    ASSUME NEW s \in StorageType, NEW from \in AccountId, NEW to \in AccountId, from # to,
           NEW n \in Nat, NEW t, t = track_share_asset_movement(s, from, to, n)
    PROVE  /\ Tracked(s, t) /\ (Tracks(s) => Tracks(t))
           /\ \/ t.mistracked
              \/ \A w \in AccountId \ {CollectionAccountId} :
                    Get(t.shares, w, 0) + (IF w = from THEN n ELSE 0)
                        = Get(s.shares, w, 0) + (IF w = to THEN n ELSE 0)
<1>1. PICK d : d = Debited(s, from, n)
  OBVIOUS
<1>2. t = IF to = CollectionAccountId THEN OutOfCirculation(d, n) ELSE Credited(d, to, n)
  BY <1>1 DEF track_share_asset_movement, Debited
<1>3. /\ Tracked(s, d)
      /\ d.mistracked \/
           IF from = CollectionAccountId
           THEN d.shares = s.shares /\ d.circulation = s.circulation + n
           ELSE /\ d.circulation = s.circulation /\ Lost(s, d, from, n)
                /\ SumFunction(d.shares) + n = SumFunction(s.shares)
  BY <1>1, DebitedFacts
<1>4. d \in StorageType
  BY <1>3 DEF Tracked
<1>5. /\ SumFunction(s.shares) \in Nat /\ SumFunction(d.shares) \in Nat
      /\ s.circulation \in Nat /\ d.circulation \in Nat
      /\ \A w \in AccountId : Get(s.shares, w, 0) \in Nat /\ Get(d.shares, w, 0) \in Nat
  BY <1>4, StorageFields
<1>6. CASE to = CollectionAccountId
  <2>1. /\ Tracked(d, t) /\ t.shares = d.shares
        /\ t.mistracked \/ (t.mistracked = d.mistracked /\ t.circulation + n = d.circulation)
    BY <1>2, <1>4, <1>6, OutFacts
  <2>2. Tracked(s, t)
    BY <1>3, <2>1, TrackedTwice
  <2>3. (s.mistracked => t.mistracked) /\ t \in StorageType
    BY <2>2 DEF Tracked
  <2>4. t.circulation \in Nat
    BY <2>3, StorageFields
  <2>5. Tracks(s) => Tracks(t)
    BY <1>3, <1>5, <1>6, <2>1, <2>3, <2>4 DEF Tracks
  <2>6. t.mistracked \/ Lost(s, t, from, n)
    BY <1>3, <1>6, <2>1 DEF Lost
  <2> QED BY <1>5, <1>6, <2>1, <2>2, <2>5, <2>6 DEF Lost
<1>7. CASE to # CollectionAccountId
  <2>1. /\ Tracked(d, t) /\ t.circulation = d.circulation
        /\ t.mistracked \/ (SumFunction(t.shares) = SumFunction(d.shares) + n /\ Gained(d, t, to, n))
    BY <1>2, <1>4, <1>7, CreditedFacts
  <2>2. Tracked(s, t)
    BY <1>3, <2>1, TrackedTwice
  <2>3. (s.mistracked => t.mistracked) /\ t \in StorageType /\ (d.mistracked => t.mistracked)
    BY <2>1, <2>2 DEF Tracked
  <2>4. Tracks(s) => Tracks(t)
    BY <1>3, <1>5, <2>1, <2>3 DEF Tracks
  <2>5. ~t.mistracked => \A w \in AccountId \ {CollectionAccountId} :
                    Get(t.shares, w, 0) + (IF w = from THEN n ELSE 0)
                        = Get(s.shares, w, 0) + (IF w = to THEN n ELSE 0)
    <3> SUFFICES ASSUME ~t.mistracked, NEW w \in AccountId \ {CollectionAccountId}
                 PROVE  Get(t.shares, w, 0) + (IF w = from THEN n ELSE 0)
                            = Get(s.shares, w, 0) + (IF w = to THEN n ELSE 0)
      OBVIOUS
    <3>1. Get(t.shares, w, 0) = Get(d.shares, w, 0) + (IF w = to THEN n ELSE 0)
      BY <2>1 DEF Gained
    <3>2. CASE from = CollectionAccountId
      <4>1. d.shares = s.shares
        BY <1>3, <2>3, <3>2
      <4> QED BY <1>5, <3>1, <3>2, <4>1
    <3>3. CASE from # CollectionAccountId
      <4>1. Get(s.shares, w, 0) = Get(d.shares, w, 0) + (IF w = from THEN n ELSE 0)
        BY <1>3, <2>3, <3>3 DEF Lost
      <4> QED BY <1>5, <3>1, <3>3, <4>1
    <3> QED BY <3>2, <3>3
  <2> QED BY <2>2, <2>4, <2>5
<1> QED BY <1>6, <1>7

-----------------------------------------------------------------------------
\* The configuration is well typed.
ConfigOK ==
    /\ config \in [Items -> AssetId \cup AccountId]
    /\ {CollectionAssetId, ShareAssetId, ProfitAssetId} \subseteq AssetId
    /\ {CollectionAccountId, ProfitPool, TeamAccountId} \subseteq AccountId

\* The fields that the calls of rio-assets leave alone.
SameBooks(s, t) ==
    /\ t.collected = s.collected /\ t.phase = s.phase /\ t.quota = s.quota
    /\ t.left = s.left /\ t.list = s.list /\ t.panicked = s.panicked

\* What such a call is to the books: it tracks, and an error writes nothing.
LedgerCall(s, t) ==
    /\ t \in StorageType /\ SameBooks(s, t)
    /\ s.mistracked => t.mistracked
    /\ Tracks(s) => Tracks(t)
    /\ IF t.ok THEN s.ok ELSE t = Fail(s)

\* Failing writes nothing else.
LEMMA FailFacts ==
    ASSUME NEW s \in StorageType
    PROVE  /\ LedgerCall(s, Fail(s)) /\ ~Fail(s).ok
           /\ Fail(s).issuance = s.issuance /\ Fail(s).free = s.free
           /\ Fail(s).shares = s.shares /\ Fail(s).paused = s.paused
<1>1. /\ Fail(s) \in StorageType /\ SameBooks(s, Fail(s)) /\ ~Fail(s).ok
      /\ Fail(s).mistracked = s.mistracked /\ Fail(s).shares = s.shares
      /\ Fail(s).circulation = s.circulation /\ Fail(s).paused = s.paused
      /\ Fail(s).issuance = s.issuance /\ Fail(s).free = s.free
  BY DEF Fail, StorageType, SameBooks
<1> QED BY <1>1 DEF LedgerCall, Tracks

\* mint: all of its writes, or none.
LEMMA MintCall ==
    ASSUME NEW s \in StorageType, NEW a \in AssetId, NEW to \in AccountId, NEW n \in Nat,
           NEW t, t = mint(s, a, to, n)
    PROVE  /\ LedgerCall(s, t)
           /\ t.ok => /\ s.issuance[a] + n \in Balance
                      /\ t.issuance = [s.issuance EXCEPT ![a] = @ + n]
                      /\ t.free = [s.free EXCEPT ![a][to] = @ + n]
                      /\ \/ t.mistracked
                         \/ IF a = ShareAssetId /\ to # CollectionAccountId
                            THEN Gained(s, t, to, n) ELSE t.shares = s.shares
<1> DEFINE fits == /\ s.ok /\ should_exist(a) /\ check_permission(a, rootKey, "mint")
                   /\ s.issuance[a] + n <= MaxBalance /\ s.free[a][to] + n <= MaxBalance
           i == [s.issuance EXCEPT ![a] = @ + n]
           f == [s.free EXCEPT ![a][to] = @ + n]
           m == [s EXCEPT !.issuance[a] = @ + n, !.free[a][to] = @ + n]
<1>1. CASE ~fits
  <2>1. t = Fail(s)
    BY <1>1 DEF mint
  <2> QED BY <2>1, FailFacts
<1>2. CASE fits
  <2>1. s.issuance \in [AssetId -> Balance] /\ s.free \in [AssetId -> [AccountId -> Balance]]
    BY StorageFields DEF Ledger
  <2>2. s.issuance[a] + n \in Balance /\ s.free[a][to] + n \in Balance
    BY <1>2, <2>1, MaxBalanceAssumption DEF Balance
  <2>3. i \in [AssetId -> Balance] /\ f \in Ledger
    BY <2>1, <2>2 DEF Ledger
  <2>4. m = [s EXCEPT !.issuance = i, !.free = f]
    BY DEF StorageType
  <2>5. t = on_asset_mint(m, a, to, n)
    BY <1>2 DEF mint
  <2> HIDE DEF i, f, m
  <2>6. /\ m \in StorageType /\ SameBooks(s, m) /\ m.issuance = i /\ m.free = f
        /\ m.shares = s.shares /\ m.circulation = s.circulation /\ m.ok = s.ok
        /\ m.mistracked = s.mistracked
    BY <2>3, <2>4 DEF StorageType, SameBooks
  <2>7. /\ Tracked(m, t) /\ (Tracks(m) => Tracks(t))
        /\ t.mistracked \/ IF a = ShareAssetId /\ to # CollectionAccountId
                           THEN Gained(m, t, to, n) ELSE t = m
    BY <2>5, <2>6, MintHook
  <2>8. /\ t \in StorageType /\ SameBooks(s, t) /\ (s.mistracked => t.mistracked)
        /\ t.ok = s.ok /\ t.issuance = i /\ t.free = f
    BY <2>6, <2>7 DEF Tracked, SameBut, SameBooks
  <2>9. Tracks(s) => Tracks(t)
    BY <2>6, <2>7 DEF Tracks
  <2>10. LedgerCall(s, t)
    BY <1>2, <2>8, <2>9 DEF LedgerCall
  <2>11. t.mistracked \/ IF a = ShareAssetId /\ to # CollectionAccountId
                         THEN Gained(s, t, to, n) ELSE t.shares = s.shares
    BY <2>6, <2>7 DEF Gained
  <2> QED BY <2>2, <2>8, <2>10, <2>11 DEF i, f
<1> QED BY <1>1, <1>2

\* burn: all of its writes, or none.
LEMMA BurnCall ==
    ASSUME NEW s \in StorageType, NEW a \in AssetId, NEW from \in AccountId, NEW n \in Nat,
           NEW t, t = burn(s, a, from, n)
    PROVE  /\ LedgerCall(s, t)
           /\ t.ok => /\ n <= s.issuance[a] /\ n <= s.free[a][from]
                      /\ t.issuance = [s.issuance EXCEPT ![a] = @ - n]
                      /\ t.free = [s.free EXCEPT ![a][from] = @ - n]
                      /\ \/ t.mistracked
                         \/ IF ~s.paused /\ a = ShareAssetId /\ from # CollectionAccountId
                            THEN Lost(s, t, from, n) ELSE t.shares = s.shares
<1> DEFINE fits == /\ s.ok /\ should_exist(a) /\ check_permission(a, rootKey, "burn")
                   /\ n <= s.issuance[a] /\ n <= s.free[a][from]
           i == [s.issuance EXCEPT ![a] = @ - n]
           f == [s.free EXCEPT ![a][from] = @ - n]
           m == [s EXCEPT !.issuance[a] = @ - n, !.free[a][from] = @ - n]
<1>1. CASE ~fits
  <2>1. t = Fail(s)
    BY <1>1 DEF burn
  <2> QED BY <2>1, FailFacts
<1>2. CASE fits
  <2>1. s.issuance \in [AssetId -> Balance] /\ s.free \in [AssetId -> [AccountId -> Balance]]
    BY StorageFields DEF Ledger
  <2>2. s.issuance[a] - n \in Balance /\ s.free[a][from] - n \in Balance
    BY <1>2, <2>1, MaxBalanceAssumption DEF Balance
  <2>3. i \in [AssetId -> Balance] /\ f \in Ledger
    BY <2>1, <2>2 DEF Ledger
  <2>4. m = [s EXCEPT !.issuance = i, !.free = f]
    BY DEF StorageType
  <2>5. t = on_asset_burn(m, a, from, n)
    BY <1>2 DEF burn
  <2> HIDE DEF i, f, m
  <2>6. /\ m \in StorageType /\ SameBooks(s, m) /\ m.issuance = i /\ m.free = f
        /\ m.shares = s.shares /\ m.circulation = s.circulation /\ m.ok = s.ok
        /\ m.mistracked = s.mistracked /\ m.paused = s.paused
    BY <2>3, <2>4 DEF StorageType, SameBooks
  <2>7. /\ Tracked(m, t) /\ (Tracks(m) => Tracks(t))
        /\ t.mistracked \/ IF ~m.paused /\ a = ShareAssetId /\ from # CollectionAccountId
                           THEN Lost(m, t, from, n) ELSE t = m
    BY <2>5, <2>6, BurnHook
  <2>8. /\ t \in StorageType /\ SameBooks(s, t) /\ (s.mistracked => t.mistracked)
        /\ t.ok = s.ok /\ t.issuance = i /\ t.free = f
    BY <2>6, <2>7 DEF Tracked, SameBut, SameBooks
  <2>9. Tracks(s) => Tracks(t)
    BY <2>6, <2>7 DEF Tracks
  <2>10. LedgerCall(s, t)
    BY <1>2, <2>8, <2>9 DEF LedgerCall
  <2>11. t.mistracked \/ IF ~s.paused /\ a = ShareAssetId /\ from # CollectionAccountId
                         THEN Lost(s, t, from, n) ELSE t.shares = s.shares
    BY <2>6, <2>7 DEF Lost
  <2> QED BY <1>2, <2>8, <2>10, <2>11 DEF i, f
<1> QED BY <1>1, <1>2

\* make_transfer: all of its writes, or none; it tracks nothing by itself.
LEMMA TransferCall ==
    ASSUME NEW s \in StorageType, NEW a \in AssetId, NEW from \in AccountId,
           NEW to \in AccountId, NEW n \in Nat, NEW t, t = make_transfer(s, a, from, to, n)
    PROVE  /\ LedgerCall(s, t) /\ t.issuance = s.issuance /\ t.shares = s.shares
           /\ t.paused = s.paused /\ t.mistracked = s.mistracked
           /\ t.ok => n <= s.free[a][from] /\ t.free = Moved(s.free, a, from, to, n)
<1> DEFINE fits == s.ok /\ should_exist(a) /\ n <= s.free[a][from] /\ can_do(a, "Transferable")
           f == Moved(s.free, a, from, to, n)
<1>0. s.issuance \in [AssetId -> Balance] /\ s.free \in Ledger
  BY StorageFields
<1>1. CASE ~fits
  <2>1. t = Fail(s)
    BY <1>1 DEF make_transfer
  <2>2. Fail(s).mistracked = s.mistracked
    BY DEF Fail, StorageType
  <2> QED BY <2>1, <2>2, FailFacts
<1>2. CASE fits
  <2>1. f \in Ledger
    BY <1>0, <1>2, MovedType
  <2>2. t = [s EXCEPT !.issuance = s.issuance, !.free = f]
    BY <1>2 DEF make_transfer, StorageType
  <2> HIDE DEF f
  <2>3. /\ t \in StorageType /\ SameBooks(s, t) /\ t.issuance = s.issuance /\ t.free = f
        /\ t.shares = s.shares /\ t.circulation = s.circulation /\ t.ok = s.ok
        /\ t.mistracked = s.mistracked /\ t.paused = s.paused
    BY <1>0, <2>1, <2>2 DEF StorageType, SameBooks
  <2>4. LedgerCall(s, t)
    BY <1>2, <2>3 DEF LedgerCall, Tracks
  <2> QED BY <1>2, <2>3, <2>4 DEF f
<1> QED BY <1>1, <1>2

-----------------------------------------------------------------------------
\* Release packs.  Lists of packs of n terms each, in some of the assets.
Packs(n, A) ==
    {q \in Seq(ReleasePack) :
        \A i \in DOMAIN q : Len(q[i].terms) = n /\ n > 0 /\ q[i].asset_id \in A}

\* A pack has as many terms as asked for, all of them balances.
LEMMA PackFacts ==
    ASSUME NEW a \in AssetId, NEW p \in PhaseId, NEW n \in Balance, NEW count \in Nat \ {0},
           NEW q, q = create_share_release_pack(a, p, n, count)
    PROVE  q \in ReleasePack /\ Len(q.terms) = count /\ q.asset_id = a /\ q.phase_id = p
<1> DEFINE portion == IF count = 1 THEN n ELSE Wrap(n + count - 1) \div count
           virtual == Wrap(portion * count)
           last    == IF n > virtual THEN n - virtual ELSE Wrap(portion - (virtual - n))
           terms   == [i \in 1 .. count |-> IF i < count THEN portion ELSE last]
<1>1. n \in Nat /\ n <= MaxBalance /\ Balance \subseteq Nat /\ n + count - 1 \in Int
  BY MaxBalanceAssumption DEF Balance
<1>2. Wrap(n + count - 1) \in Balance
  BY <1>1, WrapInt
<1>3. Wrap(n + count - 1) \div count \in Balance
  BY <1>2, QuotientFits
<1>4. portion \in Balance
  BY <1>3
<1>5. portion * count \in Nat
  <2> HIDE DEF portion
  <2> QED BY <1>1, <1>4, ProductIsNat
<1>6. virtual \in Balance
  <2> HIDE DEF portion
  <2> QED BY <1>5, WrapInRange
<1>7. last \in Balance
  <2> HIDE DEF portion, virtual
  <2>1. portion - (virtual - n) \in Int
    BY <1>1, <1>4, <1>6
  <2>2. Wrap(portion - (virtual - n)) \in Balance
    BY <2>1, WrapInt
  <2>3. n > virtual => n - virtual \in Balance
    BY <1>1, <1>6, MaxBalanceAssumption DEF Balance
  <2> QED BY <2>2, <2>3
<1>8. q = [asset_id |-> a, phase_id |-> p, terms |-> terms]
  BY DEF create_share_release_pack
<1> HIDE DEF portion, virtual, last
<1>9. terms \in Seq(Balance) /\ Len(terms) = count
  <2>1. terms \in [1 .. count -> Balance]
    BY <1>4, <1>7
  <2> HIDE DEF terms
  <2> QED BY <2>1, SeqDef, LenProperties
<1> HIDE DEF terms
<1> QED BY <1>8, <1>9 DEF ReleasePack

\* Totals of unreleased shares are balances.
LEMMA TotalAtFacts ==
    ASSUME NEW list \in Seq(ReleasePack), NEW places \in SUBSET DOMAIN list
    PROVE  TotalAt(list, places) \in Balance /\ (places = {} => TotalAt(list, places) = 0)
<1> DEFINE f == [i \in places |-> TermsTotal(list[i].terms)]
<1>1. \A i \in DOMAIN list : list[i] \in ReleasePack
  BY ElementOfSeq, LenProperties
<1>2. ASSUME NEW i \in places PROVE f[i] \in Nat
  <2>1. PICK u \in Seq(Balance) : u = list[i].terms
    BY <1>1 DEF ReleasePack
  <2>2. u \in Seq(Nat)
    <3>1. Len(u) \in Nat /\ u \in [1 .. Len(u) -> Balance]
      BY LenProperties, SeqDef
    <3>2. u \in [1 .. Len(u) -> Nat]
      BY <3>1, MaxBalanceAssumption DEF Balance
    <3> QED BY <3>1, <3>2, SeqDef
  <2>3. SumFunction(u) \in Nat
    BY <2>2, SumOfSeq
  <2>4. TermsTotal(u) \in Balance
    BY <2>3, WrapInRange DEF TermsTotal
  <2> QED BY <2>1, <2>4, MaxBalanceAssumption DEF Balance
<1>3. IsFiniteSet(places)
  <2>1. IsFiniteSet(DOMAIN list)
    BY LenProperties, FS_Interval
  <2> QED BY <2>1, FS_Subset
<1>4. DOMAIN f = places /\ TotalAt(list, places) = Wrap(SumFunction(f))
  BY DEF TotalAt
<1> HIDE DEF f
<1>5. SumFunction(f) = SumFunctionOnSet(f, places)
  BY <1>4 DEF SumFunction
<1>6. SumFunctionOnSet(f, places) \in Nat
  BY <1>2, <1>3, SumTakesOut
<1>7. places = {} => SumFunctionOnSet(f, places) = 0
  BY SumOfNone
<1> QED BY <1>4, <1>5, <1>6, <1>7, WrapInRange, WrapZero

\* The packs that stay.
LEMMA KeptPacks ==
    ASSUME NEW n \in Nat, NEW A, NEW list \in Packs(n, A), NEW keep \in SUBSET DOMAIN list
    PROVE  Kept(list, keep) \in Packs(n, A)
<1> DEFINE r == Kept(list, keep)
<1>1. list \in Seq(ReleasePack)
  BY DEF Packs
<1>2. r \in Seq(ReleasePack)
  BY <1>1, KeptFacts, Zenon
<1>3. \A k \in DOMAIN r : \E i \in keep : r[k] = list[i]
  <2>1. PICK T : T = ReleasePack
    OBVIOUS
  <2>2. list \in Seq(T)
    BY <1>1, <2>1
  <2>3. SUFFICES ASSUME NEW k \in DOMAIN r PROVE \E i \in keep : r[k] = list[i]
    OBVIOUS
  <2> QED BY <2>2, KeptElements
<1> HIDE DEF r
<1>4. \A k \in DOMAIN r : Len(r[k].terms) = n /\ n > 0 /\ r[k].asset_id \in A
  BY <1>3 DEF Packs
<1>5. r \in Packs(n, A)
  BY <1>2, <1>4 DEF Packs
<1> QED BY <1>5 DEF r

\* A pack more.
LEMMA AppendPack ==
    ASSUME NEW n \in Nat \ {0}, NEW A, NEW list \in Packs(n, A), NEW q \in ReleasePack,
           Len(q.terms) = n, q.asset_id \in A
    PROVE  Append(list, q) \in Packs(n, A)
<1>1. list \in Seq(ReleasePack)
  BY DEF Packs
<1>2. PICK r : r = Append(list, q)
  OBVIOUS
<1>3. /\ r \in Seq(ReleasePack) /\ Len(r) = Len(list) + 1 /\ Len(list) \in Nat
      /\ \A i \in 1 .. Len(r) : r[i] = IF i <= Len(list) THEN list[i] ELSE q
  BY <1>1, <1>2, AppendProperties, LenProperties
<1>4. DOMAIN r = 1 .. Len(r) /\ DOMAIN list = 1 .. Len(list)
  BY <1>1, <1>3, LenProperties
<1>5. \A i \in DOMAIN r : Len(r[i].terms) = n /\ n > 0 /\ r[i].asset_id \in A
  BY <1>3, <1>4 DEF Packs
<1> QED BY <1>2, <1>3, <1>5 DEF Packs

\* Packs of one phase and asset put together, with something taken away.
LEMMA AggregateFacts ==
    ASSUME NEW n \in Nat, NEW A \in SUBSET AssetId, NEW list \in Packs(n, A),
           NEW p \in PhaseId, NEW a \in A, Same(list, p, a) # {}, NEW less \in Nat,
           less <= AggregatedTotal(list, p, a)
    PROVE  aggregate_phase_unreleased(list, p, a, less) \in Packs(n, A)
<1>1. list \in Seq(ReleasePack) /\ Same(list, p, a) \in SUBSET DOMAIN list
  BY DEF Packs, Same
<1>2. DOMAIN list \in SUBSET Nat
  BY <1>1, LenProperties
<1>3. PICK m : m = Min(Same(list, p, a))
  OBVIOUS
<1>4. m \in Same(list, p, a)
  <2>1. PICK S : S = Same(list, p, a)
    OBVIOUS
  <2>2. S \in SUBSET Nat /\ S # {}
    BY <1>1, <1>2, <2>1
  <2>3. \E y \in S : \A z \in S : y <= z
    BY <2>2, LeastElement
  <2>4. Min(S) \in S
    BY <2>3 DEF Min
  <2> QED BY <1>3, <2>1, <2>4
<1>5. Len(list[m].terms) = n /\ n \in Nat \ {0}
  BY <1>1, <1>4 DEF Packs
<1>6. AggregatedTotal(list, p, a) \in Balance
  BY <1>1, TotalAtFacts DEF AggregatedTotal
<1>7. PICK b \in Balance : b = AggregatedTotal(list, p, a) - less
  <2>1. PICK c \in Balance : c = AggregatedTotal(list, p, a)
    BY <1>6
  <2>2. c - less \in Balance
    BY <2>1, MaxBalanceAssumption DEF Balance
  <2> QED BY <2>1, <2>2
<1>8. PICK q : q = create_share_release_pack(a, p, b, n)
  OBVIOUS
<1>9. q \in ReleasePack /\ Len(q.terms) = n /\ q.asset_id = a
  BY <1>5, <1>8, PackFacts
<1>10. PICK r : r = Rest(list, p, a)
  OBVIOUS
<1>11. r \in Packs(n, A)
  <2>1. DOMAIN list \ Same(list, p, a) \in SUBSET DOMAIN list
    OBVIOUS
  <2> QED BY <1>10, <2>1, KeptPacks DEF Rest
<1>12. Append(r, q) \in Packs(n, A)
  BY <1>5, <1>9, <1>11, AppendPack
<1>13. aggregate_phase_unreleased(list, p, a, less) = Append(r, q)
  BY <1>3, <1>5, <1>7, <1>8, <1>10 DEF aggregate_phase_unreleased
<1> QED BY <1>12, <1>13

\* What is left of the packs after a release.
LEMMA LeftFacts ==
    ASSUME NEW n \in Nat, NEW A, NEW list \in Packs(n, A)
    PROVE  LeftToRelease(list) \in Packs(n - 1, A)
<1> DEFINE g == [i \in DOMAIN list |-> [list[i] EXCEPT !.terms = Tail(@)]]
           keep == {i \in DOMAIN list : Len(list[i].terms) > 1}
           r == Kept(g, keep)
<1>1. /\ list \in Seq(ReleasePack) /\ Len(list) \in Nat /\ DOMAIN list = 1 .. Len(list)
      /\ \A i \in DOMAIN list : list[i] \in ReleasePack
  <2>1. list \in Seq(ReleasePack)
    BY DEF Packs
  <2> QED BY <2>1, LenProperties, ElementOfSeq
<1>2. ASSUME NEW i \in DOMAIN list
      PROVE  /\ g[i] \in ReleasePack /\ Len(g[i].terms) = n - 1
             /\ g[i].asset_id \in A
  <2>1. PICK u \in Seq(Balance) : u = list[i].terms
    BY <1>1 DEF ReleasePack
  <2>2. Len(u) = n /\ n > 0 /\ list[i].asset_id \in A
    BY <1>1, <2>1 DEF Packs
  <2>3. Tail(u) \in Seq(Balance) /\ Len(Tail(u)) = n - 1
    <3>1. u # <<>>
      BY <2>2
    <3> QED BY <2>2, <3>1, HeadTailProperties
  <2>4. g[i] = [list[i] EXCEPT !.terms = Tail(u)]
    BY <2>1
  <2> QED BY <1>1, <2>2, <2>3, <2>4 DEF ReleasePack
<1>3. g \in Seq(ReleasePack) /\ DOMAIN g = DOMAIN list
  <2>1. g \in [1 .. Len(list) -> ReleasePack] /\ DOMAIN g = DOMAIN list
    BY <1>1, <1>2
  <2> HIDE DEF g
  <2> QED BY <1>1, <2>1, SeqDef
<1>4. keep \in SUBSET DOMAIN g
  BY <1>3
<1> HIDE DEF g
<1>5. keep # {} => n > 1
  BY DEF Packs
<1> HIDE DEF keep
<1>6. r \in Seq(ReleasePack) /\ DOMAIN r = 1 .. Cardinality(keep) /\ \E at : KeptAt(g, keep, at)
  BY <1>3, <1>4, KeptFacts
<1>7. PICK at \in [1 .. Cardinality(keep) -> keep] :
             \A k \in 1 .. Cardinality(keep) : r[k] = g[at[k]]
  BY <1>6 DEF KeptAt
<1>8. LeftToRelease(list) = r
  BY DEF LeftToRelease, g, keep
<1> HIDE DEF r
<1>9. \A k \in DOMAIN r : Len(r[k].terms) = n - 1 /\ n - 1 > 0 /\ r[k].asset_id \in A
  <2> TAKE k \in DOMAIN r
  <2>1. at[k] \in keep /\ r[k] = g[at[k]] /\ at[k] \in DOMAIN list
    BY <1>3, <1>4, <1>6, <1>7
  <2> QED BY <1>2, <1>5, <2>1
<1> QED BY <1>6, <1>8, <1>9 DEF Packs

-----------------------------------------------------------------------------
\* The rules of a phase as genesis set them.
Orderly ==
    config = GenesisConfig /\ PhaseIOU = GenesisIOU /\ IOUAssetPhaseId = AntiFunction(GenesisIOU)

IOUs == DOMAIN IOUAssetPhaseId

\* The items that a call reads and does not write.
Setting ==
    /\ AssetsTypeOK /\ ConfigOK /\ price \in Nat
    /\ IOUAssetPhaseId \in UNION {[A -> PhaseId] : A \in SUBSET AssetId}
    /\ PhaseIOU \in [PhaseId -> AssetId]

\* Each phase has an IOU of its own, and shares, IOUs and what is collected are
\* different assets.
LEMMA OrderlyFacts ==
    ASSUME Orderly
    PROVE  /\ IsFiniteSet(IOUs) /\ IOUs \subseteq AssetId
           /\ \A p \in PhaseId : PhaseIOU[p] \in IOUs
           /\ \A p, q \in PhaseId : PhaseIOU[p] = PhaseIOU[q] => p = q
           /\ \A a \in IOUs : IOUAssetPhaseId[a] \in PhaseId
           /\ ShareAssetId \notin IOUs /\ CollectionAssetId \notin IOUs
           /\ ProfitAssetId \notin IOUs /\ ReservedMintAssetId \notin IOUs \cup {ShareAssetId}
           /\ ShareAssetId \notin {CollectionAssetId, ProfitAssetId}
           /\ CollectionAssetId # ProfitAssetId
           /\ CollectionAccountId \notin Client \cup {ReservedMintWallet}
<1>1. GenesisIOU \in [PhaseId -> GenesisSymbols] /\ IsInjective(GenesisIOU)
  BY SavingAssumption
<1>2. IOUs = Range(GenesisIOU) /\ \A a \in IOUs : IOUAssetPhaseId[a] \in PhaseId
  BY <1>1 DEF Orderly, IOUs, AntiFunction, Inverse, Range
<1>3. \A p \in PhaseId : PhaseIOU[p] \in IOUs
  BY <1>1, <1>2 DEF Orderly, Range
<1>4. IsFiniteSet(IOUs)
  <2>1. IsFiniteSet(PhaseId)
    BY SavingAssumption, FS_Interval DEF PhaseId
  <2>2. PICK R : R = {GenesisIOU[p] : p \in PhaseId}
    OBVIOUS
  <2>3. IsFiniteSet(R)
    <3>1. GenesisIOU \in Surjection(PhaseId, R)
      BY <1>1, <2>2 DEF Surjection
    <3> QED BY <2>1, <3>1, FS_Surjection
  <2>4. R = IOUs
    BY <1>1, <1>2, <2>2 DEF Range
  <2> QED BY <2>3, <2>4
<1>5. IOUs \subseteq AssetId
  BY <1>1, <1>2, GenesisAssumption DEF Range
<1>6. \A p, q \in PhaseId : PhaseIOU[p] = PhaseIOU[q] => p = q
  BY <1>1 DEF IsInjective, Orderly
<1>7. /\ {GenesisConfig[i] : i \in {"CollectionAssetId", "ShareAssetId", "ProfitAssetId"}}
           \subseteq GenesisSymbols \ Range(GenesisIOU)
      /\ GenesisConfig.CollectionAccountId \notin Client \cup {ReservedMintWallet}
  BY SavingAssumption
<1>8. /\ ShareAssetId \notin IOUs /\ CollectionAssetId \notin IOUs /\ ProfitAssetId \notin IOUs
      /\ CollectionAccountId \notin Client \cup {ReservedMintWallet}
  BY <1>2, <1>7 DEF Orderly, ShareAssetId, CollectionAssetId, ProfitAssetId, CollectionAccountId
<1>9. /\ ShareAssetId \notin {CollectionAssetId, ProfitAssetId}
      /\ CollectionAssetId # ProfitAssetId /\ ReservedMintAssetId \notin IOUs \cup {ShareAssetId}
  BY <1>2, AssetsDifferAssumption DEF Orderly, ShareAssetId, CollectionAssetId, ProfitAssetId
<1> QED BY <1>2, <1>3, <1>4, <1>5, <1>6, <1>8, <1>9

\* Of a record: what is issued is held.
Conserved(s) ==
    \A a \in AssetId : s.issuance[a] = SumFunction(s.free[a]) + SumFunction(ReservedBalance[a])

\* What of an asset is outside the collection account, and of all IOUs.
OutsideOf(s, a) == s.issuance[a] - s.free[a][CollectionAccountId]
OutsideAll(s) == SumFunction([a \in IOUs |-> OutsideOf(s, a)])

\* Holders are credited with what they hold, or tracking has given up.
CreditsHolders(s) ==
    s.mistracked \/ \A w \in AccountId \ {CollectionAccountId} :
                        Get(s.shares, w, 0) >= s.free[ShareAssetId][w]

\* No phase has issued more IOUs than v gives, and x more than those outside the
\* collection account could be paid out of it.
Issued(s, v) == \A p \in PhaseId : s.issuance[PhaseIOU[p]] <= v[p]
Covers(s, x) == OutsideAll(s) + x <= s.free[CollectionAssetId][CollectionAccountId]

\* The schedule.
InStep(s, A) ==
    /\ s.left = NumOfPhases - s.phase + 1
    /\ s.quota <= Quota[s.phase]
    /\ s.list \in Maps(Packs(s.left - 1, A))

\* Records in which the books are kept.  P says which of the promises that do not
\* survive every disturbance still stand.
Promises == {"tracks", "credited", "whole"}
PackAssets(P) == IF "whole" \in P THEN {ShareAssetId} ELSE AssetId
Sound(P, v, x) ==
    {s \in StorageType :
        /\ InStep(s, PackAssets(P)) /\ Conserved(s)
        /\ "tracks" \in P => Tracks(s)
        /\ "credited" \in P => CreditsHolders(s)
        /\ "whole" \in P /\ s.ok => Issued(s, v) /\ Covers(s, x)}

\* The promises stand only while the rules are those of genesis.
Stand(P) == Setting /\ (P \cap {"credited", "whole"} # {} => Orderly)

\* Each promise is kept by a call of rio-assets that keeps the ledger.
LEMMA SoundCall ==
    ASSUME NEW P, NEW v, NEW x, NEW w, NEW y, NEW s \in Sound(P, v, x), NEW t,
           LedgerCall(s, t),
           t.ok => /\ Conserved(t)
                   /\ "credited" \in P => CreditsHolders(t)
                   /\ "whole" \in P => Issued(t, w) /\ Covers(t, y)
    PROVE  t \in Sound(P, w, y)
<1>1. /\ s \in StorageType /\ InStep(s, PackAssets(P)) /\ Conserved(s)
      /\ "tracks" \in P => Tracks(s)
      /\ "credited" \in P => CreditsHolders(s)
  BY DEF Sound
<1>2. t \in StorageType /\ SameBooks(s, t) /\ (Tracks(s) => Tracks(t)) /\ (~t.ok => t = Fail(s))
  BY DEF LedgerCall
<1>3. InStep(t, PackAssets(P))
  BY <1>1, <1>2 DEF InStep, SameBooks
<1>4. ~t.ok => Conserved(t) /\ ("credited" \in P => CreditsHolders(t))
  <2>1. /\ Fail(s).issuance = s.issuance /\ Fail(s).free = s.free
        /\ Fail(s).shares = s.shares /\ Fail(s).mistracked = s.mistracked
    BY <1>1 DEF Fail, StorageType
  <2>2. Conserved(s) => Conserved(Fail(s))
    BY <2>1 DEF Conserved
  <2>3. CreditsHolders(s) => CreditsHolders(Fail(s))
    BY <2>1 DEF CreditsHolders
  <2> QED BY <1>1, <1>2, <2>2, <2>3
<1> QED BY <1>1, <1>2, <1>3, <1>4 DEF Sound

\* The numbers of a ledger in which what is issued is held.
LEMMA ConservedFacts ==
    ASSUME AssetsTypeOK, NEW s \in StorageType, Conserved(s), NEW a \in AssetId
    PROVE  /\ s.free \in Ledger /\ s.issuance[a] \in Nat /\ s.issuance[a] <= MaxBalance
           /\ SumFunction(s.free[a]) \in Nat /\ SumFunction(ReservedBalance[a]) \in Nat
           /\ SumFunction(s.free[a]) <= MaxBalance
           /\ s.issuance[a] = SumFunction(s.free[a]) + SumFunction(ReservedBalance[a])
           /\ GroupTotal(s.free, a, AccountId) = SumFunction(s.free[a])
           /\ \A w \in AccountId : s.free[a][w] \in Nat /\ s.free[a][w] <= s.issuance[a]
<1>1. s.free \in Ledger /\ s.issuance \in [AssetId -> Balance]
  BY StorageFields
<1>2. s.free[a] \in [AccountId -> Balance] /\ ReservedBalance[a] \in [AccountId -> Balance]
  BY <1>1 DEF Ledger, AssetsTypeOK
<1>3. /\ SumFunction(s.free[a]) = SumFunctionOnSet(s.free[a], AccountId)
      /\ SumFunction(s.free[a]) \in Nat /\ SumFunction(ReservedBalance[a]) \in Nat
      /\ \A w \in AccountId : s.free[a][w] <= SumFunction(s.free[a])
  <2>1. PICK f \in [AccountId -> Balance] : f = s.free[a]
    BY <1>2
  <2>2. PICK g \in [AccountId -> Balance] : g = ReservedBalance[a]
    BY <1>2
  <2>3. /\ SumFunction(f) = SumFunctionOnSet(f, AccountId) /\ SumFunction(f) \in Nat
        /\ \A w \in AccountId : f[w] <= SumFunction(f)
    BY TotalIsSum
  <2>4. SumFunction(g) \in Nat
    BY TotalIsSum
  <2> QED BY <2>1, <2>2, <2>3, <2>4
<1>4. s.issuance[a] \in Nat /\ s.issuance[a] <= MaxBalance /\ \A w \in AccountId : s.free[a][w] \in Nat
  BY <1>1, <1>2, MaxBalanceAssumption DEF Balance
<1>5. s.issuance[a] = SumFunction(s.free[a]) + SumFunction(ReservedBalance[a])
  BY DEF Conserved
<1>6. SumFunction(s.free[a]) <= s.issuance[a]
  BY <1>3, <1>5
<1> QED BY <1>1, <1>3, <1>4, <1>5, <1>6, MaxBalanceAssumption DEF GroupTotal

\* What is outside the collection account is a number.
LEMMA OutsideIsNat ==
    ASSUME Setting, NEW s \in StorageType, Conserved(s)
    PROVE  \A a \in AssetId : OutsideOf(s, a) \in Nat
<1> TAKE a \in AssetId
<1>1. s.issuance[a] \in Nat /\ \A w \in AccountId : s.free[a][w] \in Nat /\ s.free[a][w] <= s.issuance[a]
  BY ConservedFacts DEF Setting
<1>2. CollectionAccountId \in AccountId
  BY DEF Setting, ConfigOK
<1> QED BY <1>1, <1>2 DEF OutsideOf

\* A change of one asset, in what is outside of all IOUs.
LEMMA OutsideAllChanges ==
    ASSUME Setting, Orderly, NEW s \in StorageType, Conserved(s), NEW t \in StorageType, Conserved(t),
           NEW a \in AssetId, \A b \in AssetId \ {a} : OutsideOf(t, b) = OutsideOf(s, b)
    PROVE  /\ OutsideAll(s) \in Nat /\ OutsideAll(t) \in Nat
           /\ a \in IOUs => OutsideAll(t) + OutsideOf(s, a) = OutsideAll(s) + OutsideOf(t, a)
           /\ a \notin IOUs => OutsideAll(t) = OutsideAll(s)
<1> DEFINE f == [b \in IOUs |-> OutsideOf(s, b)]
           g == [b \in IOUs |-> OutsideOf(t, b)]
<1>1. IsFiniteSet(IOUs) /\ IOUs \subseteq AssetId
  BY OrderlyFacts
<1>2. \A b \in IOUs : f[b] \in Nat /\ g[b] \in Nat /\ f[b] = OutsideOf(s, b) /\ g[b] = OutsideOf(t, b)
  BY <1>1, OutsideIsNat
<1>3. OutsideAll(s) = SumFunctionOnSet(f, IOUs) /\ OutsideAll(t) = SumFunctionOnSet(g, IOUs)
  BY DEF OutsideAll, SumFunction
<1>4. \A b \in IOUs \ {a} : f[b] = g[b]
  BY <1>1, <1>2
<1> HIDE DEF f, g
<1>5. SumFunctionOnSet(f, IOUs) \in Nat /\ SumFunctionOnSet(g, IOUs) \in Nat
  BY <1>1, <1>2, SumTakesOut
<1>6. ASSUME a \in IOUs
      PROVE  SumFunctionOnSet(g, IOUs) + f[a] = SumFunctionOnSet(f, IOUs) + g[a]
  BY <1>1, <1>2, <1>4, <1>6, SumChanges
<1>7. ASSUME a \notin IOUs
      PROVE  SumFunctionOnSet(g, IOUs) = SumFunctionOnSet(f, IOUs)
  BY <1>1, <1>2, <1>4, <1>7, SumOfSame
<1> QED BY <1>2, <1>3, <1>5, <1>6, <1>7

\* Writing the balance of one account and the issuance by the same amount, from
\* p to q in both.
Shifted(s, t, a, w, p, q) ==
    /\ \A b \in AssetId : t.issuance[b] + (IF b = a THEN p ELSE 0) = s.issuance[b] + (IF b = a THEN q ELSE 0)
    /\ \A b \in AssetId, u \in AccountId :
          t.free[b][u] + (IF b = a /\ u = w THEN p ELSE 0)
              = s.free[b][u] + (IF b = a /\ u = w THEN q ELSE 0)

\* Such a write conserves, and changes what is outside the collection account.
LEMMA ShiftKeeps ==
    ASSUME Setting, NEW s \in StorageType, Conserved(s), NEW t \in StorageType,
           NEW a \in AssetId, NEW w \in AccountId, NEW p \in Nat, NEW q \in Nat,
           Shifted(s, t, a, w, p, q), t.free = [s.free EXCEPT ![a][w] = t.free[a][w]]
    PROVE  /\ Conserved(t)
           /\ \A b \in AssetId : OutsideOf(t, b) + (IF b = a /\ w # CollectionAccountId THEN p ELSE 0)
                                   = OutsideOf(s, b) + (IF b = a /\ w # CollectionAccountId THEN q ELSE 0)
<1>1. /\ s.free \in Ledger /\ t.free \in Ledger /\ AssetsTypeOK
      /\ t.issuance \in [AssetId -> Balance] /\ CollectionAccountId \in AccountId
  BY StorageFields DEF Setting, ConfigOK
<1>2. /\ t.free[a][w] \in Balance
      /\ \A b \in AssetId, u \in AccountId : t.free[b][u] \in Nat /\ s.free[b][u] \in Nat
      /\ \A b \in AssetId : t.issuance[b] \in Nat
  BY <1>1, MaxBalanceAssumption DEF Ledger, Balance
<1>3. Written(s.free, t.free, a, w, t.free[a][w])
  BY <1>1, <1>2, CreditEffect
<1>4. ASSUME NEW b \in AssetId
      PROVE  t.issuance[b] = SumFunction(t.free[b]) + SumFunction(ReservedBalance[b])
  <2>1. GroupTotal(t.free, b, AccountId) + (IF b = a THEN s.free[a][w] ELSE 0)
            = GroupTotal(s.free, b, AccountId) + (IF b = a THEN t.free[a][w] ELSE 0)
    <3>1. GroupTotal(t.free, b, AccountId) + (IF b = a /\ w \in AccountId THEN s.free[a][w] ELSE 0)
            = GroupTotal(s.free, b, AccountId) + (IF b = a /\ w \in AccountId THEN t.free[a][w] ELSE 0)
      BY <1>3 DEF Written
    <3> QED BY <3>1
  <2>2. /\ s.issuance[b] = SumFunction(s.free[b]) + SumFunction(ReservedBalance[b])
        /\ GroupTotal(s.free, b, AccountId) = SumFunction(s.free[b]) /\ SumFunction(s.free[b]) \in Nat
        /\ SumFunction(ReservedBalance[b]) \in Nat
    BY <1>1, ConservedFacts
  <2>3. GroupTotal(t.free, b, AccountId) = SumFunction(t.free[b]) /\ SumFunction(t.free[b]) \in Nat
    <3>1. PICK f \in [AccountId -> Balance] : f = t.free[b]
      BY <1>1 DEF Ledger
    <3>2. SumFunction(f) = SumFunctionOnSet(f, AccountId) /\ SumFunction(f) \in Nat
      BY TotalIsSum
    <3> QED BY <3>1, <3>2 DEF GroupTotal
  <2>4. /\ t.issuance[b] + (IF b = a THEN p ELSE 0) = s.issuance[b] + (IF b = a THEN q ELSE 0)
        /\ t.free[a][w] + p = s.free[a][w] + q
    BY DEF Shifted
  <2> QED BY <1>2, <2>1, <2>2, <2>3, <2>4
<1>5. Conserved(t)
  BY <1>4 DEF Conserved
<1>6. ASSUME NEW b \in AssetId
      PROVE  OutsideOf(t, b) + (IF b = a /\ w # CollectionAccountId THEN p ELSE 0)
                 = OutsideOf(s, b) + (IF b = a /\ w # CollectionAccountId THEN q ELSE 0)
  <2>1. /\ t.issuance[b] + (IF b = a THEN p ELSE 0) = s.issuance[b] + (IF b = a THEN q ELSE 0)
        /\ t.free[b][CollectionAccountId] + (IF b = a /\ CollectionAccountId = w THEN p ELSE 0)
              = s.free[b][CollectionAccountId] + (IF b = a /\ CollectionAccountId = w THEN q ELSE 0)
    BY <1>1 DEF Shifted
  <2>2. s.issuance[b] \in Nat
    BY <1>1, ConservedFacts
  <2> QED BY <1>1, <1>2, <2>1, <2>2 DEF OutsideOf
<1> QED BY <1>5, <1>6

\* mint in a ledger that conserves.
LEMMA MintKeeps ==
    ASSUME Setting, NEW s \in StorageType, Conserved(s), NEW a \in AssetId, NEW to \in AccountId,
           NEW n \in Nat, NEW t, t = mint(s, a, to, n), t.ok
    PROVE  /\ LedgerCall(s, t) /\ Shifted(s, t, a, to, 0, n) /\ Conserved(t)
           /\ \A b \in AssetId : OutsideOf(t, b)
                  = OutsideOf(s, b) + (IF b = a /\ to # CollectionAccountId THEN n ELSE 0)
           /\ CreditsHolders(s) => CreditsHolders(t)
<1>1. /\ LedgerCall(s, t)
      /\ t.issuance = [s.issuance EXCEPT ![a] = @ + n]
      /\ t.free = [s.free EXCEPT ![a][to] = @ + n]
      /\ \/ t.mistracked
         \/ IF a = ShareAssetId /\ to # CollectionAccountId
            THEN Gained(s, t, to, n) ELSE t.shares = s.shares
  BY MintCall
<1>2. /\ t \in StorageType /\ s.free \in Ledger /\ s.issuance \in [AssetId -> Balance]
      /\ (s.mistracked => t.mistracked)
  BY <1>1, StorageFields DEF LedgerCall
<1>3. /\ \A b \in AssetId, u \in AccountId : s.free[b][u] \in Nat
      /\ \A b \in AssetId : s.issuance[b] \in Nat
  BY <1>2, MaxBalanceAssumption DEF Ledger, Balance
<1>4. /\ \A b \in AssetId : t.issuance[b] = s.issuance[b] + (IF b = a THEN n ELSE 0)
      /\ \A b \in AssetId, u \in AccountId :
            t.free[b][u] = s.free[b][u] + (IF b = a /\ u = to THEN n ELSE 0)
  BY <1>1, <1>2, <1>3 DEF Ledger
<1>5. Shifted(s, t, a, to, 0, n)
  BY <1>3, <1>4 DEF Shifted
<1>6. t.free = [s.free EXCEPT ![a][to] = t.free[a][to]]
  BY <1>1, <1>2 DEF Ledger
<1>7. /\ Conserved(t)
      /\ \A b \in AssetId : OutsideOf(t, b) + (IF b = a /\ to # CollectionAccountId THEN 0 ELSE 0)
                              = OutsideOf(s, b) + (IF b = a /\ to # CollectionAccountId THEN n ELSE 0)
  BY <1>2, <1>5, <1>6, ShiftKeeps
<1>8. \A b \in AssetId : OutsideOf(t, b) = OutsideOf(s, b) + (IF b = a /\ to # CollectionAccountId THEN n ELSE 0)
  <2>1. \A b \in AssetId : OutsideOf(t, b) \in Nat
    BY <1>2, <1>7, OutsideIsNat
  <2> QED BY <1>7, <2>1
<1>9. ASSUME CreditsHolders(s) PROVE CreditsHolders(t)
  <2> SUFFICES ASSUME ~t.mistracked, NEW w \in AccountId \ {CollectionAccountId}
               PROVE  Get(t.shares, w, 0) >= t.free[ShareAssetId][w]
    BY DEF CreditsHolders
  <2>1. Get(s.shares, w, 0) >= s.free[ShareAssetId][w] /\ ShareAssetId \in AssetId
    BY <1>2, <1>9 DEF CreditsHolders, Setting, ConfigOK
  <2>2. Get(s.shares, w, 0) \in Nat /\ s.free[ShareAssetId][w] \in Nat
    BY <1>3, <2>1, StorageFields
  <2>3. t.free[ShareAssetId][w] = s.free[ShareAssetId][w] + (IF ShareAssetId = a /\ w = to THEN n ELSE 0)
    BY <1>4, <2>1
  <2>4. Get(t.shares, w, 0) = Get(s.shares, w, 0) + (IF ShareAssetId = a /\ w = to THEN n ELSE 0)
    BY <1>1, <2>2 DEF Gained
  <2> QED BY <2>1, <2>2, <2>3, <2>4
<1> QED BY <1>1, <1>5, <1>7, <1>8, <1>9

\* burn in a ledger that conserves.
LEMMA BurnKeeps ==
    ASSUME Setting, NEW s \in StorageType, Conserved(s), NEW a \in AssetId, NEW from \in AccountId,
           NEW n \in Nat, NEW t, t = burn(s, a, from, n), t.ok
    PROVE  /\ LedgerCall(s, t) /\ Shifted(s, t, a, from, n, 0) /\ Conserved(t)
           /\ \A b \in AssetId : OutsideOf(s, b)
                  = OutsideOf(t, b) + (IF b = a /\ from # CollectionAccountId THEN n ELSE 0)
           /\ CreditsHolders(s) => CreditsHolders(t)
<1>1. /\ LedgerCall(s, t) /\ n <= s.issuance[a] /\ n <= s.free[a][from]
      /\ t.issuance = [s.issuance EXCEPT ![a] = @ - n]
      /\ t.free = [s.free EXCEPT ![a][from] = @ - n]
      /\ \/ t.mistracked
         \/ IF ~s.paused /\ a = ShareAssetId /\ from # CollectionAccountId
            THEN Lost(s, t, from, n) ELSE t.shares = s.shares
  BY BurnCall
<1>2. /\ t \in StorageType /\ s.free \in Ledger /\ s.issuance \in [AssetId -> Balance]
      /\ (s.mistracked => t.mistracked)
  BY <1>1, StorageFields DEF LedgerCall
<1>3. /\ \A b \in AssetId, u \in AccountId : s.free[b][u] \in Nat
      /\ \A b \in AssetId : s.issuance[b] \in Nat
  BY <1>2, MaxBalanceAssumption DEF Ledger, Balance
<1>4. /\ \A b \in AssetId : t.issuance[b] = IF b = a THEN s.issuance[b] - n ELSE s.issuance[b]
      /\ \A b \in AssetId, u \in AccountId :
            t.free[b][u] = IF b = a /\ u = from THEN s.free[b][u] - n ELSE s.free[b][u]
  BY <1>1, <1>2, <1>3 DEF Ledger
<1>5. Shifted(s, t, a, from, n, 0)
  BY <1>1, <1>3, <1>4 DEF Shifted
<1>6. t.free = [s.free EXCEPT ![a][from] = t.free[a][from]]
  BY <1>1, <1>2 DEF Ledger
<1>7. /\ Conserved(t)
      /\ \A b \in AssetId : OutsideOf(t, b) + (IF b = a /\ from # CollectionAccountId THEN n ELSE 0)
                              = OutsideOf(s, b) + (IF b = a /\ from # CollectionAccountId THEN 0 ELSE 0)
  BY <1>2, <1>5, <1>6, ShiftKeeps
<1>8. \A b \in AssetId : OutsideOf(s, b) = OutsideOf(t, b) + (IF b = a /\ from # CollectionAccountId THEN n ELSE 0)
  <2>1. \A b \in AssetId : OutsideOf(t, b) \in Nat /\ OutsideOf(s, b) \in Nat
    BY <1>2, <1>7, OutsideIsNat
  <2> QED BY <1>7, <2>1
<1>9. ASSUME CreditsHolders(s) PROVE CreditsHolders(t)
  <2> SUFFICES ASSUME ~t.mistracked, NEW w \in AccountId \ {CollectionAccountId}
               PROVE  Get(t.shares, w, 0) >= t.free[ShareAssetId][w]
    BY DEF CreditsHolders
  <2>1. Get(s.shares, w, 0) >= s.free[ShareAssetId][w] /\ ShareAssetId \in AssetId
    BY <1>2, <1>9 DEF CreditsHolders, Setting, ConfigOK
  <2>2. /\ Get(s.shares, w, 0) \in Nat /\ s.free[ShareAssetId][w] \in Nat
        /\ Get(t.shares, w, 0) \in Nat
    BY <1>2, <1>3, <2>1, StorageFields
  <2>3. /\ t.free[ShareAssetId][w] \in Nat
        /\ s.free[ShareAssetId][w] = t.free[ShareAssetId][w] + (IF ShareAssetId = a /\ w = from THEN n ELSE 0)
    BY <1>1, <1>3, <1>4, <2>1
  <2>4. \/ Get(s.shares, w, 0) = Get(t.shares, w, 0) + (IF ShareAssetId = a /\ w = from THEN n ELSE 0)
        \/ Get(t.shares, w, 0) = Get(s.shares, w, 0)
    BY <1>1, <2>2 DEF Lost
  <2> QED BY <2>1, <2>2, <2>3, <2>4
<1> QED BY <1>1, <1>5, <1>7, <1>8, <1>9

\* make_transfer in a ledger that conserves.
LEMMA TransferKeeps ==
    ASSUME Setting, NEW s \in StorageType, Conserved(s), NEW a \in AssetId, NEW from \in AccountId,
           NEW to \in AccountId, NEW n \in Nat, NEW t, t = make_transfer(s, a, from, to, n), t.ok
    PROVE  /\ LedgerCall(s, t) /\ t.issuance = s.issuance /\ t.shares = s.shares
           /\ t.mistracked = s.mistracked /\ t.paused = s.paused
           /\ Paid(s.free, t.free, a, from, to, n) /\ n <= s.free[a][from] /\ Conserved(t)
           /\ \A b \in AssetId :
                 OutsideOf(t, b) + (IF b = a /\ from # CollectionAccountId THEN n ELSE 0)
                     = OutsideOf(s, b) + (IF b = a /\ to # CollectionAccountId THEN n ELSE 0)
           /\ a # ShareAssetId \/ to = CollectionAccountId => (CreditsHolders(s) => CreditsHolders(t))
<1>1. /\ LedgerCall(s, t) /\ t.issuance = s.issuance /\ t.shares = s.shares
      /\ t.mistracked = s.mistracked /\ t.paused = s.paused
      /\ n <= s.free[a][from] /\ t.free = Moved(s.free, a, from, to, n)
  BY TransferCall
<1>2. /\ t \in StorageType /\ s.free \in Ledger /\ t.free \in Ledger /\ AssetsTypeOK
      /\ CollectionAccountId \in AccountId /\ ShareAssetId \in AssetId
  BY <1>1, StorageFields DEF LedgerCall, Setting, ConfigOK
<1>3. \A b \in AssetId, u \in AccountId : s.free[b][u] \in Nat /\ t.free[b][u] \in Nat
  BY <1>2, MaxBalanceAssumption DEF Ledger, Balance
<1>4. SumFunction(s.free[a]) <= MaxBalance /\ n \in Balance
  <2>1. SumFunction(s.free[a]) <= MaxBalance /\ s.free[a][from] <= s.issuance[a]
        /\ s.issuance[a] <= MaxBalance /\ s.issuance[a] \in Nat
    BY <1>2, ConservedFacts
  <2> QED BY <1>1, <1>3, <2>1, MaxBalanceAssumption DEF Balance
<1>5. Paid(s.free, t.free, a, from, to, n)
  BY <1>1, <1>2, <1>4, MovedEffect
<1>6. \A x \in AssetId, u \in AccountId :
          t.free[x][u] = IF x # a \/ from = to THEN s.free[x][u]
                         ELSE IF u = from THEN s.free[a][from] - n
                         ELSE IF u = to THEN s.free[a][to] + n
                         ELSE s.free[x][u]
  BY <1>5 DEF Paid
<1>7. ASSUME NEW b \in AssetId
      PROVE  t.issuance[b] = SumFunction(t.free[b]) + SumFunction(ReservedBalance[b])
  <2>1. GroupTotal(t.free, b, AccountId) + (IF b = a /\ from \in AccountId THEN n ELSE 0)
            = GroupTotal(s.free, b, AccountId) + (IF b = a /\ to \in AccountId THEN n ELSE 0)
    BY <1>5 DEF Paid
  <2>2. /\ s.issuance[b] = SumFunction(s.free[b]) + SumFunction(ReservedBalance[b])
        /\ GroupTotal(s.free, b, AccountId) = SumFunction(s.free[b]) /\ SumFunction(s.free[b]) \in Nat
    BY <1>2, ConservedFacts
  <2>3. GroupTotal(t.free, b, AccountId) = SumFunction(t.free[b]) /\ SumFunction(t.free[b]) \in Nat
    <3>1. PICK f \in [AccountId -> Balance] : f = t.free[b]
      BY <1>2 DEF Ledger
    <3>2. SumFunction(f) = SumFunctionOnSet(f, AccountId) /\ SumFunction(f) \in Nat
      BY TotalIsSum
    <3> QED BY <3>1, <3>2 DEF GroupTotal
  <2>4. SumFunction(t.free[b]) = SumFunction(s.free[b])
    BY <2>1, <2>2, <2>3
  <2> QED BY <1>1, <2>2, <2>4
<1>8. Conserved(t)
  BY <1>7 DEF Conserved
<1>9. ASSUME NEW b \in AssetId
      PROVE  OutsideOf(t, b) + (IF b = a /\ from # CollectionAccountId THEN n ELSE 0)
                 = OutsideOf(s, b) + (IF b = a /\ to # CollectionAccountId THEN n ELSE 0)
  <2>1. s.issuance[b] \in Nat /\ t.issuance[b] = s.issuance[b]
    BY <1>1, <1>2, ConservedFacts
  <2>2. PICK c \in AccountId : c = CollectionAccountId
    BY <1>2
  <2>3. /\ s.free[b][c] \in Nat /\ t.free[b][c] \in Nat
        /\ s.free[a][from] \in Nat /\ s.free[a][to] \in Nat
    BY <1>3
  <2>4. t.free[b][c] + (IF b = a /\ from = c THEN n ELSE 0)
            = s.free[b][c] + (IF b = a /\ to = c THEN n ELSE 0)
    BY <1>1, <1>6, <2>3
  <2> QED BY <2>1, <2>2, <2>3, <2>4 DEF OutsideOf
<1>10. ASSUME CreditsHolders(s), a # ShareAssetId \/ to = CollectionAccountId
       PROVE  CreditsHolders(t)
  <2> SUFFICES ASSUME ~t.mistracked, NEW w \in AccountId \ {CollectionAccountId}
               PROVE  Get(t.shares, w, 0) >= t.free[ShareAssetId][w]
    BY DEF CreditsHolders
  <2>1. Get(s.shares, w, 0) >= s.free[ShareAssetId][w]
    BY <1>1, <1>10 DEF CreditsHolders
  <2>2. t.free[ShareAssetId][w] <= s.free[ShareAssetId][w]
    BY <1>1, <1>2, <1>3, <1>6, <1>10
  <2>3. Get(s.shares, w, 0) \in Nat /\ s.free[ShareAssetId][w] \in Nat /\ t.free[ShareAssetId][w] \in Nat
    BY <1>2, <1>3, StorageFields
  <2> QED BY <1>1, <2>1, <2>2, <2>3
<1> QED BY <1>1, <1>5, <1>8, <1>9, <1>10

-----------------------------------------------------------------------------
\* The calls of rio-assets keep the books.

\* The parts of a sound record.
LEMMA SoundFacts ==
    ASSUME NEW P, NEW v, NEW x, NEW s \in Sound(P, v, x)
    PROVE  /\ s \in StorageType /\ InStep(s, PackAssets(P)) /\ Conserved(s)
           /\ "tracks" \in P => Tracks(s)
           /\ "credited" \in P => CreditsHolders(s)
           /\ "whole" \in P /\ s.ok => Issued(s, v) /\ Covers(s, x)
  BY DEF Sound

\* Nothing is promised about issuance and cover after an error.
LEMMA SoundFailed ==
    ASSUME NEW P, NEW v, NEW x, NEW w, NEW y, NEW s \in Sound(P, v, x), ~s.ok
    PROVE  s \in Sound(P, w, y)
  BY DEF Sound

\* The promises about a record that fails.
LEMMA SoundFail ==
    ASSUME NEW P, NEW v, NEW x, NEW w, NEW y, NEW s \in Sound(P, v, x)
    PROVE  Fail(s) \in Sound(P, w, y) /\ ~Fail(s).ok
<1>1. s \in StorageType
  BY SoundFacts
<1>2. LedgerCall(s, Fail(s)) /\ ~Fail(s).ok
  BY <1>1, FailFacts
<1> QED BY <1>2, SoundCall

\* What the promises need of the rules.
LEMMA StandFacts ==
    ASSUME NEW P, Stand(P)
    PROVE  /\ Setting /\ AssetsTypeOK /\ ("whole" \in P => Orderly) /\ ("credited" \in P => Orderly)
           /\ CollectionAccountId \in AccountId /\ ShareAssetId \in AssetId
           /\ CollectionAssetId \in AssetId /\ PackAssets(P) \in SUBSET AssetId
           /\ ShareAssetId \in PackAssets(P)
           /\ \A p \in PhaseId : PhaseIOU[p] \in AssetId
           /\ IOUs \subseteq AssetId /\ \A a \in IOUs : IOUAssetPhaseId[a] \in PhaseId
<1>1. Setting /\ ("whole" \in P => Orderly) /\ ("credited" \in P => Orderly)
  BY DEF Stand
<1>2. PICK A \in SUBSET AssetId : IOUAssetPhaseId \in [A -> PhaseId]
  BY <1>1 DEF Setting
<1> QED BY <1>1, <1>2 DEF Setting, ConfigOK, PackAssets, IOUs

\* Minting anything but IOUs.
LEMMA SoundMint ==
    ASSUME NEW P, Stand(P), NEW v, NEW x \in Int, NEW s \in Sound(P, v, x), NEW a \in AssetId,
           NEW to \in AccountId, NEW n \in Nat, "whole" \in P => a \notin IOUs,
           NEW t, t = mint(s, a, to, n)
    PROVE  t \in Sound(P, v, x) /\ LedgerCall(s, t)
<1>1. s \in StorageType /\ Conserved(s) /\ ("credited" \in P => CreditsHolders(s)) /\ Setting
  BY SoundFacts, StandFacts
<1>2. LedgerCall(s, t)
  BY <1>1, MintCall
<1>3. ASSUME t.ok
      PROVE  /\ Conserved(t)
             /\ "credited" \in P => CreditsHolders(t)
             /\ "whole" \in P => Issued(t, v) /\ Covers(t, x)
  <2>1. /\ Shifted(s, t, a, to, 0, n) /\ Conserved(t)
        /\ \A b \in AssetId : OutsideOf(t, b)
               = OutsideOf(s, b) + (IF b = a /\ to # CollectionAccountId THEN n ELSE 0)
        /\ CreditsHolders(s) => CreditsHolders(t)
    BY <1>1, <1>3, MintKeeps
  <2>2. ASSUME "whole" \in P PROVE Issued(t, v) /\ Covers(t, x)
    <3>1. Orderly /\ s.ok /\ t \in StorageType
      BY <1>2, <1>3, <2>2, StandFacts DEF LedgerCall
    <3>2. Issued(s, v) /\ Covers(s, x) /\ a \notin IOUs
      BY <2>2, <3>1, SoundFacts
    <3>3. \A p \in PhaseId : t.issuance[PhaseIOU[p]] = s.issuance[PhaseIOU[p]]
      <4> TAKE p \in PhaseId
      <4>1. PhaseIOU[p] \in AssetId /\ PhaseIOU[p] # a
        BY <3>1, <3>2, OrderlyFacts
      <4>2. t.issuance[PhaseIOU[p]] + 0 = s.issuance[PhaseIOU[p]] + 0
        BY <2>1, <4>1 DEF Shifted
      <4>3. s.issuance[PhaseIOU[p]] \in Nat /\ t.issuance[PhaseIOU[p]] \in Nat
        BY <1>1, <2>1, <3>1, <4>1, ConservedFacts DEF Setting
      <4> QED BY <4>2, <4>3
    <3>4. \A b \in AssetId \ {a} : OutsideOf(t, b) = OutsideOf(s, b)
      <4>1. \A b \in AssetId : OutsideOf(s, b) \in Nat
        BY <1>1, OutsideIsNat
      <4> QED BY <2>1, <4>1
    <3>5. OutsideAll(t) = OutsideAll(s) /\ OutsideAll(s) \in Nat
      BY <1>1, <2>1, <3>1, <3>2, <3>4, OutsideAllChanges
    <3>6. PICK c \in AccountId, b \in AssetId : c = CollectionAccountId /\ b = CollectionAssetId
      BY StandFacts
    <3>7. s.free[b][c] \in Nat /\ t.free[b][c] \in Nat
      BY <1>1, <2>1, <3>1, ConservedFacts DEF Setting
    <3>8. t.free[b][c] + (IF b = a /\ c = to THEN 0 ELSE 0) = s.free[b][c] + (IF b = a /\ c = to THEN n ELSE 0)
      BY <2>1 DEF Shifted
    <3>9. s.free[b][c] <= t.free[b][c]
      BY <3>7, <3>8
    <3>10. Covers(t, x)
      BY <3>2, <3>5, <3>6, <3>7, <3>9 DEF Covers
    <3> QED BY <3>2, <3>3, <3>10 DEF Issued
  <2> QED BY <1>1, <2>1, <2>2
<1> QED BY <1>2, <1>3, SoundCall

\* Minting IOUs of a phase.
LEMMA SoundMintIOU ==
    ASSUME NEW P, Stand(P), NEW v \in [PhaseId -> Nat], NEW x \in Int, NEW s \in Sound(P, v, x),
           NEW p \in PhaseId, NEW to \in AccountId, NEW n \in Nat,
           NEW t, t = mint(s, PhaseIOU[p], to, n)
    PROVE  t \in Sound(P, [v EXCEPT ![p] = @ + n], x - n) /\ LedgerCall(s, t)
<1> DEFINE a == PhaseIOU[p]
           w == [v EXCEPT ![p] = @ + n]
<1>1. /\ s \in StorageType /\ Conserved(s) /\ ("credited" \in P => CreditsHolders(s)) /\ Setting
      /\ a \in AssetId
  BY SoundFacts, StandFacts
<1>2. LedgerCall(s, t)
  BY <1>1, MintCall
<1>3. ASSUME t.ok
      PROVE  /\ Conserved(t)
             /\ "credited" \in P => CreditsHolders(t)
             /\ "whole" \in P => Issued(t, w) /\ Covers(t, x - n)
  <2>1. /\ Shifted(s, t, a, to, 0, n) /\ Conserved(t)
        /\ \A b \in AssetId : OutsideOf(t, b)
               = OutsideOf(s, b) + (IF b = a /\ to # CollectionAccountId THEN n ELSE 0)
        /\ CreditsHolders(s) => CreditsHolders(t)
    BY <1>1, <1>3, MintKeeps
  <2>2. ASSUME "whole" \in P PROVE Issued(t, w) /\ Covers(t, x - n)
    <3>1. Orderly /\ s.ok /\ t \in StorageType
      BY <1>2, <1>3, <2>2, StandFacts DEF LedgerCall
    <3>2. Issued(s, v) /\ Covers(s, x) /\ a \in IOUs
      BY <2>2, <3>1, SoundFacts, OrderlyFacts
    <3>3. \A q \in PhaseId : t.issuance[PhaseIOU[q]] <= w[q]
      <4> TAKE q \in PhaseId
      <4>1. PhaseIOU[q] \in AssetId /\ (PhaseIOU[q] = a => q = p)
        BY <3>1, OrderlyFacts
      <4>2. t.issuance[PhaseIOU[q]] + (IF PhaseIOU[q] = a THEN 0 ELSE 0)
                = s.issuance[PhaseIOU[q]] + (IF PhaseIOU[q] = a THEN n ELSE 0)
        BY <2>1, <4>1 DEF Shifted
      <4>3. s.issuance[PhaseIOU[q]] \in Nat /\ t.issuance[PhaseIOU[q]] \in Nat
        BY <1>1, <2>1, <3>1, <4>1, ConservedFacts DEF Setting
      <4>4. s.issuance[PhaseIOU[q]] <= v[q] /\ v[q] \in Nat
        BY <3>2 DEF Issued
      <4>5. w[q] = IF q = p THEN v[q] + n ELSE v[q]
        OBVIOUS
      <4>6. q = p => PhaseIOU[q] = a
        OBVIOUS
      <4> HIDE DEF a, w
      <4> QED BY <4>1, <4>2, <4>3, <4>4, <4>5, <4>6
    <3>4. \A b \in AssetId : OutsideOf(s, b) \in Nat /\ OutsideOf(t, b) \in Nat
      BY <1>1, <2>1, <3>1, OutsideIsNat
    <3>5. \A b \in AssetId \ {a} : OutsideOf(t, b) = OutsideOf(s, b)
      BY <2>1, <3>4
    <3>6. /\ OutsideAll(t) + OutsideOf(s, a) = OutsideAll(s) + OutsideOf(t, a)
          /\ OutsideAll(s) \in Nat /\ OutsideAll(t) \in Nat
      <4> HIDE DEF a
      <4> QED BY <1>1, <2>1, <3>1, <3>2, <3>5, OutsideAllChanges
    <3>7. OutsideAll(t) <= OutsideAll(s) + n
      <4>1. OutsideOf(t, a) <= OutsideOf(s, a) + n
        BY <1>1, <2>1, <3>4
      <4> HIDE DEF a
      <4> QED BY <1>1, <3>4, <3>6, <4>1
    <3>8. PICK c \in AccountId, b \in AssetId : c = CollectionAccountId /\ b = CollectionAssetId
      BY StandFacts
    <3>9. s.free[b][c] \in Nat /\ t.free[b][c] \in Nat
      BY <1>1, <2>1, <3>1, ConservedFacts DEF Setting
    <3>10. t.free[b][c] + (IF b = a /\ c = to THEN 0 ELSE 0) = s.free[b][c] + (IF b = a /\ c = to THEN n ELSE 0)
      BY <2>1 DEF Shifted
    <3>11. s.free[b][c] <= t.free[b][c]
      BY <3>9, <3>10
    <3>12. Covers(t, x - n)
      BY <3>2, <3>6, <3>7, <3>8, <3>9, <3>11 DEF Covers
    <3> QED BY <3>3, <3>12 DEF Issued
  <2> QED BY <1>1, <2>1, <2>2
<1> HIDE DEF w
<1>4. t \in Sound(P, w, x - n)
  BY <1>2, <1>3, SoundCall
<1> QED BY <1>2, <1>4 DEF w

\* Burning anything but what has been collected.
LEMMA SoundBurn ==
    ASSUME NEW P, Stand(P), NEW v \in [PhaseId -> Nat], NEW x \in Int, NEW s \in Sound(P, v, x),
           NEW a \in AssetId, NEW from \in AccountId, NEW n \in Nat,
           "whole" \in P => a # CollectionAssetId \/ from # CollectionAccountId,
           NEW t, t = burn(s, a, from, n)
    PROVE  t \in Sound(P, v, x) /\ LedgerCall(s, t)
<1>1. s \in StorageType /\ Conserved(s) /\ ("credited" \in P => CreditsHolders(s)) /\ Setting
  BY SoundFacts, StandFacts
<1>2. LedgerCall(s, t)
  BY <1>1, BurnCall
<1>3. ASSUME t.ok
      PROVE  /\ Conserved(t)
             /\ "credited" \in P => CreditsHolders(t)
             /\ "whole" \in P => Issued(t, v) /\ Covers(t, x)
  <2>1. /\ Shifted(s, t, a, from, n, 0) /\ Conserved(t)
        /\ \A b \in AssetId : OutsideOf(s, b)
               = OutsideOf(t, b) + (IF b = a /\ from # CollectionAccountId THEN n ELSE 0)
        /\ CreditsHolders(s) => CreditsHolders(t)
    BY <1>1, <1>3, BurnKeeps
  <2>2. ASSUME "whole" \in P PROVE Issued(t, v) /\ Covers(t, x)
    <3>1. Orderly /\ s.ok /\ t \in StorageType
      BY <1>2, <1>3, <2>2, StandFacts DEF LedgerCall
    <3>2. Issued(s, v) /\ Covers(s, x)
      BY <2>2, <3>1, SoundFacts
    <3>3. \A p \in PhaseId : t.issuance[PhaseIOU[p]] <= v[p]
      <4> TAKE p \in PhaseId
      <4>1. PhaseIOU[p] \in AssetId
        BY <3>1, OrderlyFacts
      <4>2. t.issuance[PhaseIOU[p]] + (IF PhaseIOU[p] = a THEN n ELSE 0)
                = s.issuance[PhaseIOU[p]] + (IF PhaseIOU[p] = a THEN 0 ELSE 0)
        BY <2>1, <4>1 DEF Shifted
      <4>3. s.issuance[PhaseIOU[p]] \in Nat /\ t.issuance[PhaseIOU[p]] \in Nat
        BY <1>1, <2>1, <3>1, <4>1, ConservedFacts DEF Setting
      <4>4. s.issuance[PhaseIOU[p]] <= v[p] /\ v[p] \in Nat
        BY <3>2 DEF Issued
      <4> QED BY <4>2, <4>3, <4>4
    <3>4. \A b \in AssetId : OutsideOf(s, b) \in Nat /\ OutsideOf(t, b) \in Nat
      BY <1>1, <2>1, <3>1, OutsideIsNat
    <3>5. /\ \A b \in AssetId \ {a} : OutsideOf(t, b) = OutsideOf(s, b)
          /\ OutsideOf(t, a) <= OutsideOf(s, a)
      BY <2>1, <3>4
    <3>6. /\ a \in IOUs => OutsideAll(t) + OutsideOf(s, a) = OutsideAll(s) + OutsideOf(t, a)
          /\ a \notin IOUs => OutsideAll(t) = OutsideAll(s)
          /\ OutsideAll(s) \in Nat /\ OutsideAll(t) \in Nat
      BY <1>1, <2>1, <3>1, <3>5, OutsideAllChanges
    <3>7. OutsideAll(t) <= OutsideAll(s)
      BY <3>4, <3>5, <3>6
    <3>8. PICK c \in AccountId, b \in AssetId : c = CollectionAccountId /\ b = CollectionAssetId
      BY StandFacts
    <3>9. s.free[b][c] \in Nat /\ t.free[b][c] \in Nat
      BY <1>1, <2>1, <3>1, ConservedFacts DEF Setting
    <3>10. t.free[b][c] + (IF b = a /\ c = from THEN n ELSE 0) = s.free[b][c] + (IF b = a /\ c = from THEN 0 ELSE 0)
      BY <2>1 DEF Shifted
    <3>11. s.free[b][c] = t.free[b][c]
      BY <2>2, <3>8, <3>9, <3>10
    <3>12. Covers(t, x)
      BY <3>2, <3>6, <3>7, <3>8, <3>9, <3>11 DEF Covers
    <3> QED BY <3>3, <3>12 DEF Issued
  <2> QED BY <1>1, <2>1, <2>2
<1> QED BY <1>2, <1>3, SoundCall

\* What a transfer adds to the cover of the IOUs.
Gain(a, from, to, n) ==
    IF a \in IOUs \cup {CollectionAssetId}
    THEN (IF to = CollectionAccountId THEN n ELSE 0) - (IF from = CollectionAccountId THEN n ELSE 0)
    ELSE 0

\* Transfers, except those of shares to anyone but the collection account.
LEMMA SoundTransfer ==
    ASSUME NEW P, Stand(P), NEW v, NEW x \in Int, NEW s \in Sound(P, v, x),
           NEW a \in AssetId, NEW from \in AccountId, NEW to \in AccountId, NEW n \in Nat,
           "credited" \in P => a # ShareAssetId \/ to = CollectionAccountId,
           NEW y \in Int, y <= x + Gain(a, from, to, n),
           NEW t, t = make_transfer(s, a, from, to, n)
    PROVE  t \in Sound(P, v, y) /\ LedgerCall(s, t)
<1>1. s \in StorageType /\ Conserved(s) /\ ("credited" \in P => CreditsHolders(s)) /\ Setting
  BY SoundFacts, StandFacts
<1>2. LedgerCall(s, t)
  BY <1>1, TransferCall
<1>3. ASSUME t.ok
      PROVE  /\ Conserved(t)
             /\ "credited" \in P => CreditsHolders(t)
             /\ "whole" \in P => Issued(t, v) /\ Covers(t, y)
  <2>1. /\ t.issuance = s.issuance /\ Paid(s.free, t.free, a, from, to, n) /\ Conserved(t)
        /\ n <= s.free[a][from]
        /\ \A b \in AssetId :
              OutsideOf(t, b) + (IF b = a /\ from # CollectionAccountId THEN n ELSE 0)
                  = OutsideOf(s, b) + (IF b = a /\ to # CollectionAccountId THEN n ELSE 0)
        /\ a # ShareAssetId \/ to = CollectionAccountId => (CreditsHolders(s) => CreditsHolders(t))
    BY <1>1, <1>3, TransferKeeps
  <2>2. ASSUME "whole" \in P PROVE Issued(t, v) /\ Covers(t, y)
    <3>1. Orderly /\ s.ok /\ t \in StorageType
      BY <1>2, <1>3, <2>2, StandFacts DEF LedgerCall
    <3>2. Issued(s, v) /\ Covers(s, x) /\ CollectionAssetId \notin IOUs
      BY <2>2, <3>1, SoundFacts, OrderlyFacts
    <3>3. Issued(t, v)
      BY <2>1, <3>2 DEF Issued
    <3>4. \A b \in AssetId : OutsideOf(s, b) \in Nat /\ OutsideOf(t, b) \in Nat
      BY <1>1, <2>1, <3>1, OutsideIsNat
    <3>5. \A b \in AssetId \ {a} : OutsideOf(t, b) = OutsideOf(s, b)
      BY <2>1, <3>4
    <3>6. /\ a \in IOUs => OutsideAll(t) + OutsideOf(s, a) = OutsideAll(s) + OutsideOf(t, a)
          /\ a \notin IOUs => OutsideAll(t) = OutsideAll(s)
          /\ OutsideAll(s) \in Nat /\ OutsideAll(t) \in Nat
      BY <1>1, <2>1, <3>1, <3>5, OutsideAllChanges
    <3>7. PICK c \in AccountId, b \in AssetId : c = CollectionAccountId /\ b = CollectionAssetId
      BY StandFacts
    <3>8. /\ s.free[b][c] \in Nat /\ t.free[b][c] \in Nat
          /\ s.free[a][from] \in Nat /\ s.free[a][to] \in Nat
      BY <1>1, <2>1, <3>1, ConservedFacts DEF Setting
    <3>9. t.free[b][c] = IF b # a \/ from = to THEN s.free[b][c]
                         ELSE IF c = from THEN s.free[a][from] - n
                         ELSE IF c = to THEN s.free[a][to] + n
                         ELSE s.free[b][c]
      BY <2>1 DEF Paid
    <3>10. PICK g \in Int : g = Gain(a, from, to, n)
      BY DEF Gain
    <3>11. CASE a \in IOUs
      <4>1. t.free[b][c] = s.free[b][c]
        BY <3>2, <3>7, <3>9, <3>11
      <4>2. OutsideOf(t, a) + (IF from # c THEN n ELSE 0) = OutsideOf(s, a) + (IF to # c THEN n ELSE 0)
        BY <2>1, <3>7
      <4>3. g = (IF to = c THEN n ELSE 0) - (IF from = c THEN n ELSE 0)
        BY <3>7, <3>10, <3>11 DEF Gain
      <4>4. OutsideOf(t, a) = OutsideOf(s, a) - g
        BY <3>4, <4>2, <4>3
      <4>5. OutsideAll(t) = OutsideAll(s) - g
        BY <3>4, <3>6, <3>11, <4>4
      <4> QED BY <3>2, <3>3, <3>6, <3>7, <3>8, <3>10, <4>1, <4>5 DEF Covers
    <3>12. CASE a \notin IOUs /\ a = b
      <4>1. g = (IF to = c THEN n ELSE 0) - (IF from = c THEN n ELSE 0)
        BY <3>7, <3>10, <3>12 DEF Gain
      <4>2. t.free[b][c] = s.free[b][c] + g
        BY <3>8, <3>9, <3>12, <4>1
      <4> QED BY <3>2, <3>3, <3>6, <3>7, <3>8, <3>10, <3>12, <4>2 DEF Covers
    <3>13. CASE a \notin IOUs /\ a # b
      <4>1. g = 0 /\ t.free[b][c] = s.free[b][c]
        BY <3>7, <3>9, <3>10, <3>13 DEF Gain
      <4> QED BY <3>2, <3>3, <3>6, <3>7, <3>8, <3>10, <3>13, <4>1 DEF Covers
    <3> QED BY <3>11, <3>12, <3>13
  <2> QED BY <1>1, <2>1, <2>2
<1> QED BY <1>2, <1>3, SoundCall

-----------------------------------------------------------------------------
\* Writes of the module's own books.

\* Lists of packs are lists.
LEMMA PackMaps ==
    ASSUME NEW n, NEW A, NEW m \in Maps(Packs(n, A))
    PROVE  /\ m \in Maps(Seq(ReleasePack)) /\ DOMAIN m \subseteq AccountId
           /\ \A w \in DOMAIN m : m[w] \in Packs(n, A)
<1>1. PICK B \in SUBSET AccountId : m \in [B -> Packs(n, A)]
  BY DEF Maps
<1>2. m \in [B -> Seq(ReleasePack)]
  BY <1>1 DEF Packs
<1> QED BY <1>1, <1>2 DEF Maps

\* t is s with other lists, shares sent in advance or quota.
SameLedger(s, t) ==
    /\ t \in StorageType /\ t.issuance = s.issuance /\ t.free = s.free /\ t.phase = s.phase
    /\ t.left = s.left /\ t.shares = s.shares /\ t.circulation = s.circulation /\ t.ok = s.ok
    /\ t.mistracked = s.mistracked /\ t.panicked = s.panicked /\ t.paused = s.paused

\* Such a write keeps the books if it keeps the schedule.
LEMMA SoundBooks ==
    ASSUME NEW P, NEW v, NEW x, NEW s \in Sound(P, v, x), NEW t, SameLedger(s, t),
           t.list \in Maps(Packs(s.left - 1, PackAssets(P))), t.quota <= Quota[s.phase]
    PROVE  t \in Sound(P, v, x)
<1>1. /\ s \in StorageType /\ InStep(s, PackAssets(P)) /\ Conserved(s)
      /\ "tracks" \in P => Tracks(s)
      /\ "credited" \in P => CreditsHolders(s)
      /\ "whole" \in P /\ s.ok => Issued(s, v) /\ Covers(s, x)
  BY SoundFacts
<1>2. /\ t \in StorageType /\ t.issuance = s.issuance /\ t.free = s.free /\ t.phase = s.phase
      /\ t.left = s.left /\ t.shares = s.shares /\ t.circulation = s.circulation /\ t.ok = s.ok
      /\ t.mistracked = s.mistracked
  BY DEF SameLedger
<1>3. InStep(t, PackAssets(P)) /\ Conserved(t)
  BY <1>1, <1>2 DEF InStep, Conserved
<1>4. ("tracks" \in P => Tracks(t)) /\ ("credited" \in P => CreditsHolders(t))
  BY <1>1, <1>2 DEF Tracks, CreditsHolders
<1>5. OutsideAll(t) = OutsideAll(s)
  BY <1>2 DEF OutsideAll, OutsideOf
<1>6. "whole" \in P /\ t.ok => Issued(t, v) /\ Covers(t, x)
  BY <1>1, <1>2, <1>5 DEF Issued, Covers
<1> QED BY <1>2, <1>3, <1>4, <1>6 DEF Sound

\* A list more in a map of lists.
LEMMA PutPacks ==
    ASSUME NEW n, NEW A, NEW m \in Maps(Packs(n, A)), NEW w \in AccountId, NEW q \in Packs(n, A)
    PROVE  Put(m, w, q) \in Maps(Packs(n, A))
<1>1. DOMAIN m \subseteq AccountId /\ \A y \in DOMAIN m : m[y] \in Packs(n, A)
  BY PackMaps
<1>2. Put(m, w, q) \in [DOMAIN m \cup {w} -> Packs(n, A)] /\ DOMAIN m \cup {w} \in SUBSET AccountId
  BY <1>1 DEF Put
<1> QED BY <1>2 DEF Maps

\* A list less.
LEMMA RemovedPacks ==
    ASSUME NEW n, NEW A, NEW m \in Maps(Packs(n, A)), NEW w
    PROVE  Removed(m, w) \in Maps(Packs(n, A))
<1>1. DOMAIN m \subseteq AccountId /\ \A y \in DOMAIN m : m[y] \in Packs(n, A)
  BY PackMaps
<1>2. Removed(m, w) = [y \in DOMAIN m \ {w} |-> m[y]]
  BY DEF Removed, Restrict
<1>3. Removed(m, w) \in [DOMAIN m \ {w} -> Packs(n, A)] /\ DOMAIN m \ {w} \in SUBSET AccountId
  BY <1>1, <1>2
<1> QED BY <1>3 DEF Maps

\* No packs are packs of any kind.
LEMMA NoPacks ==
    ASSUME NEW n, NEW A
    PROVE  <<>> \in Packs(n, A)
<1>1. <<>> \in Seq(ReleasePack) /\ DOMAIN <<>> = {}
  BY EmptySeq
<1> QED BY <1>1 DEF Packs

\* register_share_pack keeps the schedule.
LEMMA SoundRegister ==
    ASSUME NEW P, Stand(P), NEW v, NEW x, NEW s \in Sound(P, v, x), NEW who \in AccountId,
           NEW pack \in ReleasePack, Len(pack.terms) = s.left - 1,
           pack.asset_id \in PackAssets(P), NEW t, t = register_share_pack(s, who, pack)
    PROVE  /\ t \in Sound(P, v, x) /\ t.ok = s.ok /\ t.phase = s.phase /\ t.left = s.left
           /\ t.quota = s.quota /\ t.panicked = s.panicked
<1> DEFINE A == PackAssets(P)
           n == s.left - 1
<1>1. s \in StorageType /\ s.list \in Maps(Packs(n, A))
  BY SoundFacts DEF InStep
<1>2. /\ s.collected \in [AccountId -> Balance] /\ s.left \in Nat /\ n \in Nat
      /\ pack.terms \in Seq(Balance) /\ pack.phase_id \in PhaseId
  BY <1>1, StorageFields, SavingAssumption DEF PhaseId, ReleasePack
<1>3. CASE pack.terms = <<>>
  BY <1>3 DEF register_share_pack
<1>4. CASE pack.terms # <<>>
  <2>1. n \in Nat \ {0} /\ A \in SUBSET AssetId
    <3>1. Len(pack.terms) # 0
      BY <1>2, <1>4, EmptySeq
    <3> QED BY <1>2, <3>1, StandFacts
  <2>2. DOMAIN s.list \subseteq AccountId /\ \A w \in DOMAIN s.list : s.list[w] \in Packs(n, A)
    <3> HIDE DEF n, A
    <3> QED BY <1>1, PackMaps
  <2>3. PICK old : old = IF who \in DOMAIN s.list THEN s.list[who] ELSE <<>>
    OBVIOUS
  <2>4. old \in Packs(n, A)
    <3> HIDE DEF n, A
    <3> QED BY <2>2, <2>3, NoPacks
  <2>5. PICK more : more = Append(old, pack)
    OBVIOUS
  <2>6. more \in Packs(n, A)
    <3>1. Len(pack.terms) = n /\ pack.asset_id \in A
      OBVIOUS
    <3> HIDE DEF n, A
    <3> QED BY <2>1, <2>4, <2>5, <3>1, AppendPack
  <2>7. PICK new : new = IF who \in DOMAIN s.list
                         THEN aggregate_phase_unreleased(more, pack.phase_id, pack.asset_id, 0)
                         ELSE more
    OBVIOUS
  <2>8. new \in Packs(n, A)
    <3>1. Same(more, pack.phase_id, pack.asset_id) # {}
      <4>1. old \in Seq(ReleasePack)
        BY <2>4 DEF Packs
      <4>2. /\ more \in Seq(ReleasePack) /\ Len(more) = Len(old) + 1 /\ Len(old) \in Nat
            /\ more[Len(old) + 1] = pack
        BY <2>5, <4>1, AppendProperties, LenProperties
      <4>3. Len(old) + 1 \in DOMAIN more
        BY <4>2, LenProperties
      <4>4. Len(old) + 1 \in Same(more, pack.phase_id, pack.asset_id)
        BY <4>2, <4>3 DEF Same
      <4> QED BY <4>4
    <3>2. 0 <= AggregatedTotal(more, pack.phase_id, pack.asset_id)
      <4>1. PICK b : b = AggregatedTotal(more, pack.phase_id, pack.asset_id)
        OBVIOUS
      <4>2. b \in Balance
        <5>1. more \in Seq(ReleasePack)
          BY <2>6 DEF Packs
        <5>2. Same(more, pack.phase_id, pack.asset_id) \in SUBSET DOMAIN more
          BY DEF Same
        <5> QED BY <4>1, <5>1, <5>2, TotalAtFacts DEF AggregatedTotal
      <4> QED BY <4>1, <4>2, MaxBalanceAssumption DEF Balance
    <3>3. pack.asset_id \in A /\ 0 \in Nat
      OBVIOUS
    <3> HIDE DEF n, A
    <3>4. aggregate_phase_unreleased(more, pack.phase_id, pack.asset_id, 0) \in Packs(n, A)
      BY <1>2, <2>1, <2>6, <3>1, <3>2, <3>3, AggregateFacts
    <3> QED BY <2>6, <2>7, <3>4
  <2>9. PICK m : m = Put(s.list, who, new)
    OBVIOUS
  <2>10. m \in Maps(Packs(s.left - 1, PackAssets(P)))
    <3> HIDE DEF n, A
    <3>1. m \in Maps(Packs(n, A))
      BY <1>1, <2>8, <2>9, PutPacks
    <3> QED BY <3>1 DEF n, A
  <2>11. t = [s EXCEPT !.list = m]
    <3>1. who \notin DOMAIN s.list => more = <<pack>>
      BY <2>3, <2>5
    <3> QED BY <1>4, <2>3, <2>5, <2>7, <2>9, <3>1 DEF register_share_pack
  <2>12. SameLedger(s, t) /\ t.list = m /\ t.quota = s.quota
    <3>1. m \in Maps(Seq(ReleasePack))
      BY <2>10, PackMaps
    <3> QED BY <1>1, <2>11, <3>1 DEF StorageType, SameLedger
  <2>13. s.quota <= Quota[s.phase]
    BY SoundFacts DEF InStep
  <2> HIDE DEF n, A
  <2>14. t \in Sound(P, v, x)
    BY <2>10, <2>12, <2>13, SoundBooks
  <2> QED BY <2>12, <2>14 DEF SameLedger
<1> QED BY <1>3, <1>4

-----------------------------------------------------------------------------
\* Releases.

\* The records that a loop of mints goes through.
MintedFrom(P, v, x, s) == {t \in Sound(P, v, x) : SameBooks(s, t)}

\* The records of the loop of ReleaseTerms, one after the other.
TermsRun(s, who, f) ==
    LET packs == s.list[who]
    IN  /\ f[0] = s
        /\ \A k \in 1 .. Len(packs) :
               f[k] = mint(f[k - 1], packs[k].asset_id, who, Head(packs[k].terms))
        /\ ReleaseTerms(s, who) = f[Len(packs)]

\* ReleaseTerms: one mint per pack of the account.
LEMMA SoundReleaseTerms ==
    ASSUME NEW P, Stand(P), NEW v, NEW x \in Int, NEW s \in Sound(P, v, x), NEW who \in DOMAIN s.list
    PROVE  /\ ReleaseTerms(s, who) \in MintedFrom(P, v, x, s)
           /\ \E f : /\ TermsRun(s, who, f)
                     /\ \A k \in 0 .. Len(s.list[who]) : f[k] \in MintedFrom(P, v, x, s)
<1> DEFINE packs == s.list[who]
           n == Len(packs)
           S == MintedFrom(P, v, x, s)
           step(t, k) == mint(t, packs[k].asset_id, who, Head(packs[k].terms))
           F == [k \in 1 .. n |-> [t \in S |-> step(t, k)]]
           IsIt(g) == g = [k \in 0 .. n |-> IF k = 0 THEN s ELSE step(g[k - 1], k)]
           minted == CHOOSE g : IsIt(g)
<1>1. s \in StorageType /\ s.list \in Maps(Packs(s.left - 1, PackAssets(P)))
  BY SoundFacts DEF InStep
<1>2. who \in AccountId /\ packs \in Packs(s.left - 1, PackAssets(P))
  BY <1>1, PackMaps
<1>3. /\ packs \in Seq(ReleasePack) /\ n \in Nat /\ DOMAIN packs = 1 .. n
      /\ \A k \in 1 .. n : packs[k] \in ReleasePack
  <2>1. packs \in Seq(ReleasePack)
    BY <1>2 DEF Packs
  <2> HIDE DEF packs
  <2> QED BY <2>1, LenProperties, ElementOfSeq
<1>4. ASSUME NEW k \in 1 .. n
      PROVE  /\ packs[k].asset_id \in AssetId /\ Head(packs[k].terms) \in Nat
             /\ "whole" \in P => packs[k].asset_id \notin IOUs
  <2>1. packs[k] \in ReleasePack /\ Len(packs[k].terms) = s.left - 1 /\ s.left - 1 > 0
        /\ packs[k].asset_id \in PackAssets(P)
    BY <1>2, <1>3 DEF Packs
  <2>2. PICK u \in Seq(Balance) : u = packs[k].terms
    BY <2>1 DEF ReleasePack
  <2>3. Head(u) \in Balance
    <3>1. u # <<>>
      BY <1>1, <2>1, <2>2, EmptySeq, StorageFields
    <3> QED BY <3>1, HeadTailProperties
  <2>4. "whole" \in P => packs[k].asset_id = ShareAssetId /\ ShareAssetId \notin IOUs
    BY <2>1, StandFacts, OrderlyFacts DEF PackAssets
  <2>5. packs[k].asset_id \in AssetId
    BY <2>1 DEF ReleasePack
  <2> QED BY <2>2, <2>3, <2>4, <2>5, MaxBalanceAssumption DEF Balance
<1>5. ASSUME NEW k \in 1 .. n, NEW t \in S PROVE step(t, k) \in S
  <2>1. t \in Sound(P, v, x) /\ SameBooks(s, t)
    BY DEF MintedFrom
  <2>2. PICK a, h : a = packs[k].asset_id /\ h = Head(packs[k].terms)
    OBVIOUS
  <2>3. a \in AssetId /\ h \in Nat /\ ("whole" \in P => a \notin IOUs)
    BY <1>4, <2>2
  <2>4. mint(t, a, who, h) \in Sound(P, v, x) /\ LedgerCall(t, mint(t, a, who, h))
    BY <1>2, <2>1, <2>3, SoundMint
  <2>5. SameBooks(s, mint(t, a, who, h))
    BY <2>1, <2>4 DEF LedgerCall, SameBooks
  <2> QED BY <2>2, <2>4, <2>5 DEF MintedFrom
<1>6. s \in S
  BY DEF MintedFrom, SameBooks
<1> HIDE DEF S, packs
<1>7. F \in [1 .. n -> [S -> S]]
  <2> HIDE DEF step, n
  <2> QED BY <1>5
<1>8. \E g : IsIt(g)
  <2> HIDE DEF F, n
  <2>1. PICK f \in [0 .. n -> S] : IsRun(f, F, s, n)
    BY <1>3, <1>6, <1>7, RunExists DEF n
  <2>2. /\ f[0] = s
        /\ \A k \in 1 .. n : f[k] = F[k][f[k - 1]] /\ f[k - 1] \in S
    <3>1. \A k \in 1 .. n : k - 1 \in 0 .. n
      BY <1>3 DEF n
    <3> QED BY <2>1, <3>1 DEF IsRun
  <2> HIDE DEF step
  <2>3. \A k \in 1 .. n : f[k] = step(f[k - 1], k)
    BY <2>2 DEF F
  <2>4. \A k \in 0 .. n : f[k] = IF k = 0 THEN s ELSE step(f[k - 1], k)
    <3>1. \A k \in 0 .. n : k # 0 => k \in 1 .. n
      BY <1>3 DEF n
    <3> QED BY <2>2, <2>3, <3>1
  <2>5. IsIt(f)
    BY <2>1, <2>4
  <2> QED BY <2>5
<1>9. IsIt(minted)
  <2> HIDE DEF IsIt
  <2> QED BY <1>8
<1>10. ReleaseTerms(s, who) = minted[n]
  BY DEF ReleaseTerms, packs
<1> HIDE DEF minted, n, step, F
<1>11. minted[0] = s /\ \A k \in 1 .. n : minted[k] = step(minted[k - 1], k)
  <2>1. 0 \in 0 .. n /\ \A k \in 1 .. n : k \in 0 .. n /\ k # 0
    BY <1>3 DEF n
  <2> QED BY <1>9, <2>1
<1>12. \A k \in 1 .. n : minted[k - 1] \in S => minted[k] \in S
  BY <1>5, <1>11
<1>13. \A k \in 0 .. n : minted[k] \in S
  BY <1>3, <1>6, <1>11, <1>12, StepsStay DEF n
<1>14. n \in 0 .. n
  BY <1>3 DEF n
<1>15. TermsRun(s, who, minted)
  BY <1>10, <1>11 DEF TermsRun, step, n, packs
<1>16. \A k \in 0 .. Len(s.list[who]) : minted[k] \in MintedFrom(P, v, x, s)
  BY <1>13 DEF S, n, packs
<1> QED BY <1>10, <1>13, <1>14, <1>15, <1>16 DEF S

\* A finite set can be put in a sequence.
LEMMA SetToSeqFacts ==
    ASSUME NEW S, IsFiniteSet(S)
    PROVE  /\ Cardinality(S) \in Nat /\ Len(SetToSeq(S)) = Cardinality(S)
           /\ \A k \in 1 .. Cardinality(S) : SetToSeq(S)[k] \in S
           /\ \A k, l \in 1 .. Cardinality(S) : SetToSeq(S)[k] = SetToSeq(S)[l] => k = l
           /\ \A e \in S : \E k \in 1 .. Cardinality(S) : SetToSeq(S)[k] = e
<1>1. PICK n \in Nat : n = Cardinality(S)
  BY FS_CardinalityType
<1>2. \E f \in [1 .. n -> S] : IsInjective(f)
  <2>1. PICK f : f \in Bijection(1 .. n, S)
    BY <1>1, FS_NatBijection, FS_CountingElements DEF ExistsBijection
  <2> QED BY <2>1 DEF Bijection, Injection, IsInjective
<1>3. SetToSeq(S) \in [1 .. n -> S] /\ IsInjective(SetToSeq(S))
  BY <1>1, <1>2 DEF SetToSeq
<1>4. SetToSeq(S) \in Seq(S)
  BY <1>3, SeqDef
<1>5. Len(SetToSeq(S)) = n
  <2>1. PICK q \in Seq(S) : q = SetToSeq(S)
    BY <1>4
  <2>2. Len(q) \in Nat /\ DOMAIN q = 1 .. Len(q) /\ DOMAIN q = 1 .. n
    BY <1>3, <2>1, LenProperties
  <2>3. PICK l \in Nat : l = Len(q)
    BY <2>2
  <2>4. 1 .. l = 1 .. n
    BY <2>2, <2>3
  <2>5. (l < n => n \in 1 .. n /\ n \notin 1 .. l) /\ (n < l => l \in 1 .. l /\ l \notin 1 .. n)
    OBVIOUS
  <2>6. l = n
    BY <2>4, <2>5
  <2> QED BY <2>1, <2>3, <2>6
<1>6. /\ \A k, l \in 1 .. n : SetToSeq(S)[k] = SetToSeq(S)[l] => k = l
      /\ \A e \in S : \E k \in 1 .. n : SetToSeq(S)[k] = e
  <2>1. PICK q : q = SetToSeq(S)
    OBVIOUS
  <2>2. q \in Injection(1 .. n, S)
    BY <1>3, <2>1 DEF Injection, IsInjective
  <2>3. Cardinality(1 .. n) = n
    BY FS_Interval
  <2>4. q \in Surjection(1 .. n, S)
    BY <1>1, <2>2, <2>3, FS_Injection
  <2> QED BY <2>1, <2>2, <2>4 DEF Injection, IsInjective, Surjection
<1> QED BY <1>1, <1>3, <1>5, <1>6

\* A record that has panicked; its call writes nothing.
Broken == {s \in StorageType : s.panicked /\ ~s.ok}

\* A panic breaks a record.
LEMMA PanicBreaks ==
    ASSUME NEW s \in StorageType
    PROVE  Panic(s) \in Broken
  BY DEF Panic, Broken, StorageType

\* The records of that loop over the accounts.
AccountsRun(s, f) ==
    LET order == SetToSeq(DOMAIN s.list)
    IN  f[0] = s /\ \A k \in 1 .. Len(order) : f[k] = ReleaseTerms(f[k - 1], order[k])

\* What a change of phase leaves of all lists, after the last mint.
AllLeft(list) ==
    [who \in {who \in DOMAIN list : LeftToRelease(list[who]) # <<>>} |-> LeftToRelease(list[who])]
Released(s, all) ==
    shares_release_by_phase_change(s)
        = IF all.ok THEN [all EXCEPT !.list = AllLeft(s.list)] ELSE Panic(all)

\* The mints of a change of phase, account after account.
LEMMA SoundReleases ==
    ASSUME NEW P, Stand(P), NEW v, NEW x \in Int, NEW s \in Sound(P, v, x)
    PROVE  \E f : /\ AccountsRun(s, f)
                 /\ \A k \in 0 .. Len(SetToSeq(DOMAIN s.list)) : f[k] \in MintedFrom(P, v, x, s)
                 /\ f[Len(SetToSeq(DOMAIN s.list))] \in MintedFrom(P, v, x, s)
                 /\ Released(s, f[Len(SetToSeq(DOMAIN s.list))])
<1> DEFINE D == DOMAIN s.list
           order == SetToSeq(D)
           n == Len(order)
           S == MintedFrom(P, v, x, s)
           step(t, k) == ReleaseTerms(t, order[k])
           F == [k \in 1 .. n |-> [t \in S |-> step(t, k)]]
           IsIt(g) == g = [k \in 0 .. n |-> IF k = 0 THEN s ELSE step(g[k - 1], k)]
           minted == CHOOSE g : IsIt(g)
<1>1. D \subseteq AccountId
  <2>1. s.list \in Maps(Packs(s.left - 1, PackAssets(P)))
    BY SoundFacts DEF InStep
  <2> QED BY <2>1, PackMaps
<1>2. n \in Nat /\ \A k \in 1 .. n : order[k] \in D
  <2>1. IsFiniteSet(D)
    BY <1>1, AccountAssumption, FS_Subset
  <2> HIDE DEF D
  <2> QED BY <2>1, SetToSeqFacts
<1>3. ASSUME NEW k \in 1 .. n, NEW t \in S PROVE step(t, k) \in S
  <2>1. t \in Sound(P, v, x) /\ SameBooks(s, t)
    BY DEF MintedFrom
  <2>2. order[k] \in DOMAIN t.list
    BY <1>2, <2>1 DEF SameBooks
  <2>3. PICK w : w = order[k]
    OBVIOUS
  <2>4. ReleaseTerms(t, w) \in MintedFrom(P, v, x, t)
    <3> HIDE DEF order
    <3> QED BY <2>1, <2>2, <2>3, SoundReleaseTerms
  <2>5. ReleaseTerms(t, w) \in Sound(P, v, x) /\ SameBooks(s, ReleaseTerms(t, w))
    BY <2>1, <2>4 DEF MintedFrom, SameBooks
  <2> QED BY <2>3, <2>5 DEF MintedFrom
<1>4. s \in S
  BY DEF MintedFrom, SameBooks
<1> HIDE DEF S, order
<1>5. F \in [1 .. n -> [S -> S]]
  <2> HIDE DEF step, n
  <2> QED BY <1>3
<1>6. \E g : IsIt(g)
  <2> HIDE DEF F, n
  <2>1. PICK f \in [0 .. n -> S] : IsRun(f, F, s, n)
    BY <1>2, <1>4, <1>5, RunExists DEF n
  <2>2. /\ f[0] = s
        /\ \A k \in 1 .. n : f[k] = F[k][f[k - 1]] /\ f[k - 1] \in S
    <3>1. \A k \in 1 .. n : k - 1 \in 0 .. n
      BY <1>2 DEF n
    <3> QED BY <2>1, <3>1 DEF IsRun
  <2> HIDE DEF step
  <2>3. \A k \in 1 .. n : f[k] = step(f[k - 1], k)
    BY <2>2 DEF F
  <2>4. \A k \in 0 .. n : f[k] = IF k = 0 THEN s ELSE step(f[k - 1], k)
    <3>1. \A k \in 0 .. n : k # 0 => k \in 1 .. n
      BY <1>2 DEF n
    <3> QED BY <2>2, <2>3, <3>1
  <2>5. IsIt(f)
    BY <2>1, <2>4
  <2> QED BY <2>5
<1>7. IsIt(minted)
  <2> HIDE DEF IsIt
  <2> QED BY <1>6
<1>8. PICK all : all = minted[n]
  OBVIOUS
<1>9. Released(s, all)
  BY <1>8 DEF shares_release_by_phase_change, order, Released, AllLeft
<1> HIDE DEF minted, n, step, F
<1>10. minted[0] = s /\ \A k \in 1 .. n : minted[k] = step(minted[k - 1], k)
  <2>1. 0 \in 0 .. n /\ \A k \in 1 .. n : k \in 0 .. n /\ k # 0
    BY <1>2 DEF n
  <2> QED BY <1>7, <2>1
<1>11. \A k \in 1 .. n : minted[k - 1] \in S => minted[k] \in S
  BY <1>3, <1>10
<1>12. \A k \in 0 .. n : minted[k] \in S
  BY <1>2, <1>4, <1>10, <1>11, StepsStay DEF n
<1>13. n \in 0 .. n
  BY <1>2 DEF n
<1>14. AccountsRun(s, minted)
  BY <1>10 DEF AccountsRun, step, n, order, D
<1>15. all \in MintedFrom(P, v, x, s) /\ all = minted[Len(SetToSeq(DOMAIN s.list))]
  BY <1>8, <1>12, <1>13 DEF S, n, order, D
<1>16. \A k \in 0 .. Len(SetToSeq(DOMAIN s.list)) : minted[k] \in MintedFrom(P, v, x, s)
  BY <1>12 DEF S, n, order, D
<1> QED BY <1>9, <1>14, <1>15, <1>16

\* Lists without terms are empty, and so are lists of any kind.
LEMMA EmptyPacks ==
    ASSUME NEW n, NEW A, NEW q \in Packs(n, A), ~(n > 0), NEW m
    PROVE  q \in Packs(m, A)
  BY DEF Packs

\* What a change of phase does to the count of phases.
Shifted1(s, t) ==
    IF s.phase < NumOfPhases THEN t.phase = s.phase + 1 /\ t.quota = 0
                             ELSE t.phase = s.phase /\ t.quota = Quota[s.phase]

\* t is r with another count of phases.
Recounted(r, t, q, p, l) ==
    /\ t \in StorageType /\ t.quota = q /\ t.phase = p /\ t.left = l
    /\ t.issuance = r.issuance /\ t.free = r.free /\ t.list = r.list /\ t.shares = r.shares
    /\ t.circulation = r.circulation /\ t.ok = r.ok /\ t.panicked = r.panicked
    /\ t.mistracked = r.mistracked

\* shift_next_phase keeps the schedule, or panics.
LEMMA SoundShift ==
    ASSUME NEW P, Stand(P), NEW v, NEW x \in Int, NEW s \in Sound(P, v, x),
           NEW t, t = shift_next_phase(s)
    PROVE  t \in Broken \/ (t \in Sound(P, v, x) /\ t.ok /\ Shifted1(s, t))
<1> DEFINE A == PackAssets(P)
           L == {who \in DOMAIN s.list : LeftToRelease(s.list[who]) # <<>>}
           m == [who \in L |-> LeftToRelease(s.list[who])]
<1>1. PICK all \in MintedFrom(P, v, x, s) :
          shares_release_by_phase_change(s) = IF all.ok THEN [all EXCEPT !.list = m] ELSE Panic(all)
  <2>1. PICK all \in MintedFrom(P, v, x, s) : Released(s, all)
    BY SoundReleases
  <2> QED BY <2>1 DEF Released, AllLeft
<1>2. all \in Sound(P, v, x) /\ SameBooks(s, all)
  BY DEF MintedFrom
<1>3. all \in StorageType
  BY <1>2, SoundFacts
<1>4. /\ s \in StorageType /\ s.left = NumOfPhases - s.phase + 1
      /\ s.list \in Maps(Packs(s.left - 1, A))
  BY SoundFacts DEF InStep
<1>5. /\ s.phase \in 1 .. NumOfPhases /\ s.left \in 1 .. NumOfPhases /\ NumOfPhases \in Nat
      /\ Quota[s.phase] \in Balance /\ 0 \in Balance
  <2>1. s.phase \in PhaseId /\ s.left \in PhaseId
    BY <1>4, StorageFields
  <2>2. NumOfPhases \in Nat /\ Quota \in [PhaseId -> Balance \ {0}]
    BY SavingAssumption
  <2>3. 0 \in Balance
    BY MaxBalanceAssumption DEF Balance
  <2> QED BY <2>1, <2>2, <2>3 DEF PhaseId
<1>6. PICK r : r = shares_release_by_phase_change(s)
  OBVIOUS
<1>7. t = IF s.phase < NumOfPhases
          THEN [r EXCEPT !.quota = 0, !.phase = @ + 1, !.left = IF @ > 0 THEN @ - 1 ELSE @]
          ELSE [r EXCEPT !.quota = Quota[s.phase]]
  BY <1>6 DEF shift_next_phase
<1>8. PICK q \in Balance, p \in PhaseId, l \in PhaseId :
          /\ q = IF s.phase < NumOfPhases THEN 0 ELSE Quota[s.phase]
          /\ p = IF s.phase < NumOfPhases THEN s.phase + 1 ELSE s.phase
          /\ l = IF s.phase < NumOfPhases THEN s.left - 1 ELSE s.left
  <2>1. CASE s.phase < NumOfPhases
    <3>1. s.phase + 1 \in PhaseId /\ s.left - 1 \in PhaseId
      BY <1>4, <1>5, <2>1 DEF PhaseId
    <3> QED BY <1>5, <2>1, <3>1
  <2>2. CASE ~(s.phase < NumOfPhases)
    BY <1>5, <2>2 DEF PhaseId
  <2> QED BY <2>1, <2>2
<1>9. ASSUME r \in StorageType, SameBooks(s, all), r.phase = s.phase, r.left = s.left
      PROVE  Recounted(r, t, q, p, l)
  <2>1. s.left > 0
    BY <1>5
  <2>2. CASE s.phase < NumOfPhases
    <3>1. t = [r EXCEPT !.quota = q, !.phase = p, !.left = l]
      BY <1>7, <1>8, <1>9, <2>1, <2>2
    <3> QED BY <1>9, <3>1 DEF Recounted, StorageType
  <2>3. CASE ~(s.phase < NumOfPhases)
    <3>1. t = [r EXCEPT !.quota = q] /\ r.phase = p /\ r.left = l
      BY <1>7, <1>8, <1>9, <2>3
    <3> QED BY <1>9, <3>1 DEF Recounted, StorageType
  <2> QED BY <2>2, <2>3
<1>10. CASE ~all.ok
  <2>1. r \in Broken
    BY <1>1, <1>3, <1>6, <1>10, PanicBreaks
  <2>2. r \in StorageType /\ r.panicked /\ ~r.ok
    BY <2>1 DEF Broken
  <2>3. r.phase = s.phase /\ r.left = s.left
    BY <1>1, <1>2, <1>3, <1>6, <1>10 DEF Panic, SameBooks, StorageType
  <2>4. Recounted(r, t, q, p, l)
    BY <1>2, <1>9, <2>2, <2>3
  <2>5. t \in Broken
    BY <2>2, <2>4 DEF Broken, Recounted
  <2> QED BY <2>5
<1>11. CASE all.ok
  <2>1. m \in Maps(Packs(l - 1, A))
    <3>1. DOMAIN s.list \subseteq AccountId /\ \A w \in DOMAIN s.list : s.list[w] \in Packs(s.left - 1, A)
      <4> HIDE DEF A
      <4> QED BY <1>4, PackMaps
    <3>2. s.left - 1 \in Nat
      BY <1>5
    <3>3. ASSUME NEW w \in L PROVE LeftToRelease(s.list[w]) \in Packs(l - 1, A)
      <4>1. PICK n \in Nat : n = s.left - 1
        BY <3>2
      <4>2. PICK u : u = s.list[w]
        OBVIOUS
      <4>3. u \in Packs(n, A)
        BY <3>1, <4>1, <4>2
      <4>4. LeftToRelease(u) \in Packs(n - 1, A)
        <5> HIDE DEF A
        <5> QED BY <4>3, LeftFacts
      <4>5. CASE s.phase < NumOfPhases
        <5>1. l - 1 = n - 1
          BY <1>5, <1>8, <4>1, <4>5
        <5> QED BY <4>2, <4>4, <5>1
      <4>6. CASE ~(s.phase < NumOfPhases)
        <5>1. ~(n - 1 > 0)
          BY <1>4, <1>5, <4>1, <4>6
        <5>2. LeftToRelease(u) \in Packs(l - 1, A)
          <6> HIDE DEF A
          <6> QED BY <4>4, <5>1, EmptyPacks
        <5> QED BY <4>2, <5>2
      <4> QED BY <4>5, <4>6
    <3>4. m \in [L -> Packs(l - 1, A)] /\ L \in SUBSET AccountId
      BY <3>1, <3>3
    <3> HIDE DEF m, L
    <3> QED BY <3>4 DEF Maps
  <2>2. m \in Maps(Seq(ReleasePack))
    <3> HIDE DEF m, A
    <3> QED BY <2>1, PackMaps
  <2>3. r = [all EXCEPT !.list = m]
    BY <1>1, <1>6, <1>11
  <2> HIDE DEF m, A
  <2>4. r \in StorageType /\ r.phase = s.phase /\ r.left = s.left
    BY <1>2, <1>3, <2>2, <2>3 DEF StorageType, SameBooks
  <2>5. Recounted(r, t, q, p, l)
    BY <1>2, <1>9, <2>4
  <2>6. /\ t \in StorageType /\ t.issuance = all.issuance /\ t.free = all.free
        /\ t.shares = all.shares /\ t.circulation = all.circulation /\ t.ok = all.ok
        /\ t.mistracked = all.mistracked /\ t.quota = q /\ t.phase = p /\ t.left = l /\ t.list = m
    BY <1>3, <2>2, <2>3, <2>5 DEF StorageType, Recounted
  <2>7. /\ Conserved(all)
        /\ "tracks" \in P => Tracks(all)
        /\ "credited" \in P => CreditsHolders(all)
        /\ "whole" \in P /\ all.ok => Issued(all, v) /\ Covers(all, x)
    BY <1>2, SoundFacts
  <2>8. t.left = NumOfPhases - t.phase + 1 /\ t.quota <= Quota[t.phase]
    <3>1. l = NumOfPhases - p + 1
      BY <1>4, <1>5, <1>8
    <3>2. q <= Quota[p]
      <4>1. Quota[p] \in Nat /\ Quota[s.phase] \in Nat
        BY <1>5, SavingAssumption, MaxBalanceAssumption DEF Balance
      <4> QED BY <1>8, <4>1
    <3> QED BY <2>6, <3>1, <3>2
  <2>9. InStep(t, PackAssets(P))
    BY <2>1, <2>6, <2>8 DEF InStep, A
  <2>10. Conserved(t) /\ ("tracks" \in P => Tracks(t)) /\ ("credited" \in P => CreditsHolders(t))
    BY <2>6, <2>7 DEF Conserved, Tracks, CreditsHolders
  <2>11. OutsideAll(t) = OutsideAll(all)
    BY <2>6 DEF OutsideAll, OutsideOf
  <2>12. "whole" \in P /\ t.ok => Issued(t, v) /\ Covers(t, x)
    BY <2>6, <2>7, <2>11 DEF Issued, Covers
  <2>13. t \in Sound(P, v, x)
    BY <2>6, <2>9, <2>10, <2>12 DEF Sound
  <2>14. Shifted1(s, t)
    BY <1>8, <2>6 DEF Shifted1
  <2> QED BY <1>11, <2>6, <2>13, <2>14
<1> QED BY <1>10, <1>11

-----------------------------------------------------------------------------
\* Savings.

\* The IOUs of each phase when phase p is current and q of its quota used.
Filled(p, q) == [i \in PhaseId |-> IF i > p THEN 0 ELSE IF i = p THEN q ELSE Quota[i]]

\* What a saving of at most n goes through that began with cover x: what has been
\* taken is not covered yet.
Stakes(P, x, n) ==
    {r \in [s : StorageType, rest : Nat, taken : Nat] :
        /\ r.taken + r.rest <= n
        /\ r.s \in Broken \/ r.s \in Sound(P, Filled(r.s.phase, r.s.quota), x - r.taken)}

\* The numbers of a phase.
LEMMA PhaseNumbers ==
    ASSUME NEW s \in StorageType
    PROVE  /\ s.phase \in PhaseId /\ s.phase \in Nat /\ s.phase <= NumOfPhases /\ NumOfPhases \in Nat
           /\ s.left \in PhaseId /\ s.left \in Nat \ {0} /\ s.quota \in Nat
           /\ \A p \in PhaseId : /\ Quota[p] \in Nat /\ Quota[p] \in Balance /\ Exchange[p] \in Nat
                                 /\ p \in Nat /\ p <= NumOfPhases
           /\ \A q \in Nat : Filled(s.phase, q) \in [PhaseId -> Nat]
<1>1. s.phase \in PhaseId /\ s.left \in PhaseId /\ s.quota \in Balance
  BY StorageFields
<1>2. /\ NumOfPhases \in Nat /\ Quota \in [PhaseId -> Balance \ {0}]
      /\ Exchange \in [PhaseId -> Balance \ {0}]
  BY SavingAssumption
<1>3. \A p \in PhaseId : Quota[p] \in Balance /\ Exchange[p] \in Balance
  BY <1>2
<1>4. Balance \subseteq Nat
  BY MaxBalanceAssumption DEF Balance
<1>5. \A p \in PhaseId : p \in Nat \ {0} /\ p <= NumOfPhases
  BY <1>2 DEF PhaseId
<1>6. \A q \in Nat : Filled(s.phase, q) \in [PhaseId -> Nat]
  BY <1>3, <1>4 DEF Filled
<1> QED BY <1>1, <1>2, <1>3, <1>4, <1>5, <1>6

\* A phase that takes more, and one that is full when the next one begins.
LEMMA FilledChanges ==
    ASSUME NEW p \in PhaseId, NEW q \in Nat, NEW n \in Nat
    PROVE  /\ [Filled(p, q) EXCEPT ![p] = @ + n] = Filled(p, q + n)
           /\ p < NumOfPhases => Filled(p, Quota[p]) = Filled(p + 1, 0)
<1>1. NumOfPhases \in Nat /\ \A i \in PhaseId : i \in Nat
  BY SavingAssumption DEF PhaseId
<1>2. [Filled(p, q) EXCEPT ![p] = @ + n] = Filled(p, q + n)
  <2>1. [Filled(p, q) EXCEPT ![p] = @ + n] = [i \in PhaseId |-> IF i = p THEN Filled(p, q)[p] + n ELSE Filled(p, q)[i]]
    BY DEF Filled
  <2>2. Filled(p, q)[p] = q
    BY <1>1 DEF Filled
  <2>3. \A i \in PhaseId : (IF i = p THEN q + n ELSE Filled(p, q)[i])
                           = (IF i > p THEN 0 ELSE IF i = p THEN q + n ELSE Quota[i])
    BY <1>1 DEF Filled
  <2>4. [i \in PhaseId |-> IF i = p THEN q + n ELSE Filled(p, q)[i]]
            = [i \in PhaseId |-> IF i > p THEN 0 ELSE IF i = p THEN q + n ELSE Quota[i]]
    BY <2>3
  <2>5. Filled(p, q + n) = [i \in PhaseId |-> IF i > p THEN 0 ELSE IF i = p THEN q + n ELSE Quota[i]]
    BY DEF Filled
  <2> QED BY <2>1, <2>2, <2>4, <2>5
<1>3. ASSUME p < NumOfPhases PROVE Filled(p, Quota[p]) = Filled(p + 1, 0)
  <2>1. \A i \in PhaseId : (IF i > p THEN 0 ELSE IF i = p THEN Quota[p] ELSE Quota[i])
                           = (IF i > p + 1 THEN 0 ELSE IF i = p + 1 THEN 0 ELSE Quota[i])
    BY <1>1
  <2> QED BY <2>1 DEF Filled
<1> QED BY <1>2, <1>3

\* The first term of a pack and the others.
LEMMA PackSplit ==
    ASSUME NEW pack \in ReleasePack, NEW n \in Nat \ {0}, Len(pack.terms) = n,
           NEW q, q = [pack EXCEPT !.terms = Tail(@)]
    PROVE  /\ Head(pack.terms) \in Nat /\ q \in ReleasePack /\ Len(q.terms) = n - 1
           /\ q.asset_id = pack.asset_id
<1>1. PICK u \in Seq(Balance) : u = pack.terms
  BY DEF ReleasePack
<1>2. u # <<>>
  BY <1>1, EmptySeq
<1>3. Head(u) \in Balance /\ Tail(u) \in Seq(Balance) /\ Len(Tail(u)) = Len(u) - 1
  BY <1>2, HeadTailProperties
<1>4. q = [pack EXCEPT !.terms = Tail(u)]
  BY <1>1
<1>5. q \in ReleasePack /\ q.terms = Tail(u) /\ q.asset_id = pack.asset_id
  BY <1>3, <1>4 DEF ReleasePack
<1> QED BY <1>1, <1>3, <1>5, MaxBalanceAssumption DEF Balance

\* Saving in one phase.
LEMMA SoundStakeInPhase ==
    ASSUME NEW P, Stand(P), NEW x \in Int, NEW m \in Nat,
           NEW r \in Stakes(P, x, m), r.s.ok, NEW who \in AccountId
    PROVE  StakeInPhase(r, who) \in Stakes(P, x, m)
<1> DEFINE s       == r.s
           quota   == Quota[s.phase]
           will_be == s.quota + r.rest
           iou     == IF will_be <= quota THEN r.rest ELSE quota - s.quota
           product == iou * Exchange[s.phase]
           pack    == create_share_release_pack(ShareAssetId, s.phase, product, s.left)
           counted == IF will_be < quota THEN [s EXCEPT !.quota = will_be] ELSE s
           one     == mint(counted, PhaseIOU[s.phase], who, iou)
           minted  == mint(one, ShareAssetId, who, Head(pack.terms))
           tail    == [pack EXCEPT !.terms = Tail(@)]
           saved   == register_share_pack(minted, who, tail)
           stop(t) == [s |-> t, rest |-> 0, taken |-> r.taken]
           next    == IF will_be < quota THEN saved ELSE shift_next_phase(saved)
           y       == x - r.taken
           b0      == Filled(s.phase, s.quota)
           b1      == [b0 EXCEPT ![s.phase] = @ + iou]
           res     == StakeInPhase(r, who)
<1>0. res = IF will_be > MaxBalance THEN stop(Panic(s))
            ELSE IF iou = 0 THEN stop(Fail(s))
            ELSE IF product > MaxBalance THEN stop(Panic(s))
            ELSE IF ~minted.ok THEN stop(minted)
            ELSE [s |-> next, rest |-> IF s.phase < NumOfPhases THEN r.rest - iou ELSE 0,
                  taken |-> r.taken + iou]
  BY DEF StakeInPhase
<1>1. /\ r.s \in StorageType /\ r.rest \in Nat /\ r.taken \in Nat /\ r.s \in Sound(P, b0, y)
      /\ r.taken + r.rest <= m
  BY DEF Stakes, Broken
<1>2. /\ s.phase \in PhaseId /\ s.phase \in Nat /\ s.phase <= NumOfPhases /\ NumOfPhases \in Nat
      /\ s.left \in Nat \ {0} /\ s.quota \in Nat /\ quota \in Nat /\ quota \in Balance
      /\ Exchange[s.phase] \in Nat /\ b0 \in [PhaseId -> Nat]
  BY <1>1, PhaseNumbers
<1>3. s.quota <= quota
  BY <1>1, SoundFacts DEF InStep
<1> SUFFICES res \in Stakes(P, x, m)
  OBVIOUS
<1> HIDE DEF res
<1>4. will_be \in Nat /\ iou \in Nat /\ iou <= r.rest /\ y \in Int
      /\ (will_be < quota => iou = r.rest) /\ (~(will_be < quota) => s.quota + iou = quota)
  <2> HIDE DEF s, quota
  <2> QED BY <1>1, <1>2, <1>3 DEF s
<1>5. ASSUME NEW t \in Broken, res = stop(t) PROVE res \in Stakes(P, x, m)
  <2>1. t \in StorageType
    BY DEF Broken
  <2>2. res \in [s : StorageType, rest : Nat, taken : Nat] /\ res.s = t
        /\ res.taken + res.rest <= m
    BY <1>1, <1>5, <2>1
  <2> QED BY <2>2 DEF Stakes
<1>6. ASSUME NEW t, NEW w, NEW z, t \in Sound(P, w, z), ~t.ok, res = stop(t)
      PROVE  res \in Stakes(P, x, m)
  <2>1. t \in StorageType
    BY <1>6, SoundFacts
  <2>2. res \in [s : StorageType, rest : Nat, taken : Nat] /\ res.s = t /\ res.taken = r.taken
        /\ res.taken + res.rest <= m
    BY <1>1, <1>6, <2>1
  <2>3. t \in Sound(P, Filled(t.phase, t.quota), x - r.taken)
    BY <1>6, SoundFailed
  <2> QED BY <2>2, <2>3 DEF Stakes
<1>7. CASE will_be > MaxBalance
  BY <1>0, <1>1, <1>5, <1>7, PanicBreaks
<1>8. CASE ~(will_be > MaxBalance) /\ iou = 0
  <2>1. Fail(s) \in Sound(P, b0, y) /\ ~Fail(s).ok
    BY <1>1, SoundFail
  <2>2. res = stop(Fail(s))
    BY <1>0, <1>8
  <2> QED BY <1>6, <2>1, <2>2
<1>9. CASE ~(will_be > MaxBalance) /\ iou # 0 /\ product > MaxBalance
  BY <1>0, <1>1, <1>5, <1>9, PanicBreaks
<1>10. CASE ~(will_be > MaxBalance) /\ iou # 0 /\ ~(product > MaxBalance)
  <2>1. product \in Balance
    <3>1. product \in Nat
      <4> HIDE DEF iou, s
      <4> QED BY <1>2, <1>4, ProductIsNat
    <3> HIDE DEF product
    <3> QED BY <1>10, <3>1, MaxBalanceAssumption DEF Balance
  <2>2. pack \in ReleasePack /\ Len(pack.terms) = s.left /\ pack.asset_id = ShareAssetId
    <3>1. ShareAssetId \in AssetId
      BY StandFacts
    <3> HIDE DEF product, s
    <3> QED BY <1>2, <2>1, <3>1, PackFacts
  <2>3. Head(pack.terms) \in Nat /\ tail \in ReleasePack /\ Len(tail.terms) = s.left - 1
        /\ tail.asset_id = ShareAssetId
    <3> HIDE DEF pack, s
    <3> QED BY <1>2, <2>2, PackSplit
  <2>4. /\ counted \in Sound(P, b0, y) /\ counted.left = s.left /\ counted.phase = s.phase
        /\ counted.quota = IF will_be < quota THEN will_be ELSE s.quota
    <3>1. CASE will_be < quota
      <4>1. will_be \in Balance
        BY <1>2, <1>4, <1>10, MaxBalanceAssumption DEF Balance
      <4>2. counted = [s EXCEPT !.quota = will_be]
        BY <3>1
      <4> HIDE DEF counted, will_be, quota
      <4>3. SameLedger(s, counted) /\ counted.list = s.list /\ counted.quota = will_be
        BY <1>1, <4>1, <4>2 DEF SameLedger, StorageType
      <4>4. s.list \in Maps(Packs(s.left - 1, PackAssets(P)))
        BY <1>1, SoundFacts DEF InStep
      <4>5. counted.quota <= Quota[s.phase]
        BY <1>2, <1>4, <3>1, <4>3 DEF quota
      <4>6. counted \in Sound(P, b0, y)
        <5> HIDE DEF s, b0, y
        <5> QED BY <1>1, <4>3, <4>4, <4>5, SoundBooks DEF s
      <4> QED BY <3>1, <4>3, <4>6 DEF SameLedger
    <3>2. CASE ~(will_be < quota)
      BY <1>1, <3>2
    <3> QED BY <3>1, <3>2
  <2>5. one \in Sound(P, b1, y - iou) /\ LedgerCall(counted, one)
    <3>1. PICK p \in PhaseId : p = s.phase
      BY <1>2
    <3>2. mint(counted, PhaseIOU[p], who, iou) \in Sound(P, [b0 EXCEPT ![p] = @ + iou], y - iou)
          /\ LedgerCall(counted, mint(counted, PhaseIOU[p], who, iou))
      <4>1. ASSUME NEW v \in [PhaseId -> Nat], NEW z \in Int, NEW c \in Sound(P, v, z), NEW n \in Nat
            PROVE  /\ mint(c, PhaseIOU[p], who, n) \in Sound(P, [v EXCEPT ![p] = @ + n], z - n)
                   /\ LedgerCall(c, mint(c, PhaseIOU[p], who, n))
        BY SoundMintIOU
      <4> HIDE DEF counted, b0, y, iou, s
      <4> QED BY <1>2, <1>4, <2>4, <4>1
    <3> QED BY <3>1, <3>2
  <2>6. minted \in Sound(P, b1, y - iou) /\ LedgerCall(one, minted)
    <3>1. ShareAssetId \in AssetId /\ ("whole" \in P => ShareAssetId \notin IOUs)
      BY StandFacts, OrderlyFacts
    <3>2. y - iou \in Int
      BY <1>4
    <3>3. PICK h \in Nat : h = Head(pack.terms)
      BY <2>3
    <3>4. minted = mint(one, ShareAssetId, who, h)
      BY <3>3
    <3> HIDE DEF minted, one, b1, y, iou, pack
    <3> QED BY <2>5, <3>1, <3>2, <3>4, SoundMint
  <2>7. CASE ~minted.ok
    <3>1. res = stop(minted)
      BY <1>0, <1>10, <2>7
    <3> HIDE DEF minted, b1, stop
    <3> QED BY <1>6, <2>6, <2>7, <3>1
  <2>8. CASE minted.ok
    <3>1. /\ minted.left = s.left /\ minted.phase = s.phase
          /\ minted.quota = IF will_be < quota THEN will_be ELSE s.quota
      BY <2>4, <2>5, <2>6 DEF LedgerCall, SameBooks
    <3>2. /\ saved \in Sound(P, b1, y - iou) /\ saved.ok = minted.ok /\ saved.phase = minted.phase
          /\ saved.left = minted.left /\ saved.quota = minted.quota
      <4>1. Len(tail.terms) = minted.left - 1 /\ tail.asset_id \in PackAssets(P)
        BY <2>3, <3>1, StandFacts
      <4> HIDE DEF minted, b1, y, iou, tail
      <4> QED BY <2>3, <2>6, <4>1, SoundRegister
    <3>3. next \in Broken \/ next \in Sound(P, Filled(next.phase, next.quota), y - iou)
      <4>1. CASE will_be < quota
        <5>1. next = saved /\ next.phase = s.phase /\ next.quota = will_be
          BY <3>1, <3>2, <4>1
        <5>2. b1 = Filled(s.phase, s.quota + iou) /\ s.quota + iou = will_be
          <6>1. b1 = Filled(s.phase, s.quota + iou)
            <7> HIDE DEF iou, s
            <7> QED BY <1>2, <1>4, FilledChanges
          <6> QED BY <1>4, <4>1, <6>1
        <5> HIDE DEF next, saved, b1, y, iou, s, will_be
        <5> QED BY <3>2, <5>1, <5>2
      <4>2. CASE ~(will_be < quota)
        <5>1. next = shift_next_phase(saved) /\ y - iou \in Int
          BY <1>4, <4>2
        <5>2. next \in Broken \/ (next \in Sound(P, b1, y - iou) /\ Shifted1(saved, next))
          <6> HIDE DEF next, saved, b1, y, iou
          <6> QED BY <3>2, <5>1, SoundShift
        <5>3. b1 = Filled(s.phase, quota)
          <6>1. b1 = Filled(s.phase, s.quota + iou)
            <7> HIDE DEF iou, s
            <7> QED BY <1>2, <1>4, FilledChanges
          <6>2. s.quota + iou = quota
            BY <1>4, <4>2
          <6> HIDE DEF b1, s, iou, quota
          <6> QED BY <6>1, <6>2
        <5>4. ASSUME Shifted1(saved, next) PROVE b1 = Filled(next.phase, next.quota)
          <6>1. saved.phase = s.phase
            <7> HIDE DEF saved, minted, s
            <7> QED BY <3>1, <3>2
          <6>2. IF s.phase < NumOfPhases THEN next.phase = s.phase + 1 /\ next.quota = 0
                                         ELSE next.phase = s.phase /\ next.quota = quota
            <7> HIDE DEF next, saved, s
            <7> QED BY <5>4, <6>1 DEF Shifted1
          <6>3. s.phase < NumOfPhases => Filled(s.phase, Quota[s.phase]) = Filled(s.phase + 1, 0)
            <7>1. PICK p \in PhaseId : p = s.phase
              BY <1>2
            <7>2. p < NumOfPhases => Filled(p, Quota[p]) = Filled(p + 1, 0)
              BY FilledChanges
            <7> QED BY <7>1, <7>2
          <6> HIDE DEF next, saved, s, b1
          <6> QED BY <5>3, <6>2, <6>3
        <5> HIDE DEF next, b1
        <5> QED BY <5>2, <5>4
      <4> QED BY <4>1, <4>2
    <3>4. res = [s |-> next, rest |-> IF s.phase < NumOfPhases THEN r.rest - iou ELSE 0,
                 taken |-> r.taken + iou]
      BY <1>0, <1>10, <2>8
    <3>5. next \in StorageType
      <4> HIDE DEF next
      <4> QED BY <3>3, SoundFacts DEF Broken
    <3>6. /\ r.taken + iou \in Nat /\ x - (r.taken + iou) = y - iou
          /\ (IF s.phase < NumOfPhases THEN r.rest - iou ELSE 0) \in Nat
      BY <1>1, <1>4
    <3> HIDE DEF next, y, iou
    <3>7. res \in [s : StorageType, rest : Nat, taken : Nat] /\ res.s = next /\ res.taken = r.taken + iou
          /\ res.taken + res.rest <= m
      BY <1>1, <1>2, <1>4, <3>4, <3>5, <3>6
    <3> QED BY <3>3, <3>6, <3>7 DEF Stakes
  <2> QED BY <2>7, <2>8
<1> QED BY <1>7, <1>8, <1>9, <1>10

\* The records of the loop of create_staking.
StakingRun(s, who, m, f) ==
    /\ f[0] = [s |-> s, rest |-> m, taken |-> 0]
    /\ \A k \in 1 .. NumOfPhases :
           f[k] = IF f[k - 1].s.ok /\ f[k - 1].rest > 0 THEN StakeInPhase(f[k - 1], who) ELSE f[k - 1]
    /\ m # 0 => create_staking(s, who, m) = f[NumOfPhases]

\* create_staking: one phase after the other.
LEMMA SoundCreateStaking ==
    ASSUME NEW P, Stand(P), NEW x \in Int, NEW m \in Nat, NEW s \in StorageType,
           s \in Sound(P, Filled(s.phase, s.quota), x), NEW who \in AccountId
    PROVE  /\ create_staking(s, who, m) \in Stakes(P, x, m)
           /\ \E f : StakingRun(s, who, m, f) /\ \A k \in 0 .. NumOfPhases : f[k] \in Stakes(P, x, m)
<1> DEFINE n == NumOfPhases
           S == Stakes(P, x, m)
           b == [s |-> s, rest |-> m, taken |-> 0]
           step(r) == IF r.s.ok /\ r.rest > 0 THEN StakeInPhase(r, who) ELSE r
           F == [k \in 1 .. n |-> [r \in S |-> step(r)]]
           IsIt(g) == g = [k \in 0 .. n |->
                              IF k = 0 THEN b
                              ELSE IF g[k - 1].s.ok /\ g[k - 1].rest > 0
                              THEN StakeInPhase(g[k - 1], who) ELSE g[k - 1]]
           staked == CHOOSE g : IsIt(g)
<1>1. n \in Nat
  BY SavingAssumption
<1>2. b \in S /\ [s |-> Fail(s), rest |-> 0, taken |-> 0] \in S
  <2>1. b \in [s : StorageType, rest : Nat, taken : Nat] /\ b.s = s /\ b.rest = m /\ b.taken = 0
    OBVIOUS
  <2>2. x - 0 = x /\ 0 + m <= m /\ 0 + 0 <= m
    OBVIOUS
  <2> HIDE DEF b
  <2>3. b \in S
    BY <2>1, <2>2 DEF Stakes
  <2>4. PICK t : t = Fail(s)
    OBVIOUS
  <2>5. t \in Sound(P, Filled(t.phase, t.quota), x)
    BY <2>4, SoundFail
  <2>6. t \in StorageType
    BY <2>5, SoundFacts
  <2>7. PICK c : c = [s |-> t, rest |-> 0, taken |-> 0]
    OBVIOUS
  <2>8. c \in [s : StorageType, rest : Nat, taken : Nat] /\ c.s = t /\ c.rest = 0 /\ c.taken = 0
    BY <2>6, <2>7
  <2>9. c \in S
    BY <2>2, <2>5, <2>8 DEF Stakes
  <2> QED BY <2>3, <2>4, <2>7, <2>9
<1>3. ASSUME NEW r \in S PROVE step(r) \in S
  BY SoundStakeInPhase
<1> HIDE DEF S, b
<1>4. F \in [1 .. n -> [S -> S]]
  <2> HIDE DEF step, n
  <2> QED BY <1>3
<1>5. \E g : IsIt(g)
  <2> HIDE DEF F, n
  <2>1. PICK f \in [0 .. n -> S] : IsRun(f, F, b, n)
    BY <1>1, <1>2, <1>4, RunExists
  <2>2. /\ f[0] = b
        /\ \A k \in 1 .. n : f[k] = F[k][f[k - 1]] /\ f[k - 1] \in S
    <3>1. \A k \in 1 .. n : k - 1 \in 0 .. n
      BY <1>1
    <3> QED BY <2>1, <3>1 DEF IsRun
  <2>3. \A k \in 1 .. n : f[k] = step(f[k - 1])
    <3> HIDE DEF step
    <3> QED BY <2>2 DEF F
  <2>4. \A k \in 0 .. n : f[k] = IF k = 0 THEN b ELSE step(f[k - 1])
    <3>1. \A k \in 0 .. n : k # 0 => k \in 1 .. n
      BY <1>1
    <3> HIDE DEF step
    <3> QED BY <2>2, <2>3, <3>1
  <2>5. IsIt(f)
    BY <2>1, <2>4
  <2> QED BY <2>5
<1>6. IsIt(staked)
  <2> HIDE DEF IsIt
  <2> QED BY <1>5
<1>7. create_staking(s, who, m) = IF m = 0 THEN [s |-> Fail(s), rest |-> 0, taken |-> 0] ELSE staked[n]
  BY DEF create_staking, b
<1> HIDE DEF staked, n, F
<1>8. staked[0] = b /\ \A k \in 1 .. n : staked[k] = step(staked[k - 1])
  <2>1. 0 \in 0 .. n /\ \A k \in 1 .. n : k \in 0 .. n /\ k # 0
    BY <1>1
  <2> QED BY <1>6, <2>1
<1> HIDE DEF step
<1>9. \A k \in 1 .. n : staked[k - 1] \in S => staked[k] \in S
  BY <1>3, <1>8
<1>10. \A k \in 0 .. n : staked[k] \in S
  BY <1>1, <1>2, <1>8, <1>9, StepsStay
<1>11. n \in 0 .. n
  BY <1>1
<1>12. StakingRun(s, who, m, staked)
  BY <1>7, <1>8 DEF StakingRun, step, n, b
<1>13. \A k \in 0 .. NumOfPhases : staked[k] \in Stakes(P, x, m)
  BY <1>10 DEF S, n
<1> QED BY <1>2, <1>7, <1>10, <1>11, <1>12, <1>13 DEF S

-----------------------------------------------------------------------------
\* Redeeming.

\* The smaller of two numbers.
LEMMA MinOfTwo ==
    ASSUME NEW a \in Int, NEW b \in Int
    PROVE  Min({a, b}) \in {a, b} /\ Min({a, b}) <= a /\ Min({a, b}) <= b
<1>1. \E z \in {a, b} : \A y \in {a, b} : z <= y
  <2>1. CASE a <= b
    BY <2>1
  <2>2. CASE ~(a <= b)
    BY <2>2
  <2> QED BY <2>1, <2>2
<1> QED BY <1>1 DEF Min

\* What a redemption leaves alone.
SameCount(s, t) ==
    t.phase = s.phase /\ t.quota = s.quota /\ t.left = s.left /\ t.panicked = s.panicked

\* The numbers of make_redeem are balances.
LEMMA RedeemNumbers ==
    ASSUME Setting, NEW s \in StorageType, NEW p \in PhaseId, NEW who \in AccountId,
           NEW amount \in Nat,
           NEW required, required = Wrap(amount * Exchange[p]),
           NEW locked, locked = LockedRequired(p, required, s.left),
           NEW free, free = Wrap(required - locked)
    PROVE  required \in Balance /\ locked \in Nat /\ free \in Balance
<1>1. MaxBalance \in Nat /\ NumOfPhases \in Nat /\ p \in Nat /\ p <= NumOfPhases
      /\ Exchange[p] \in Nat /\ s.left \in Nat \ {0}
  BY PhaseNumbers, MaxBalanceAssumption
<1>2. PICK e \in Nat : e = amount * Exchange[p]
  BY <1>1, ProductIsNat
<1>3. required \in Balance /\ required \in Nat
  BY <1>1, <1>2, WrapInt DEF Balance
<1>4. PICK d \in Nat : d = required * (s.left - 1)
  <2>1. s.left - 1 \in Nat
    BY <1>1
  <2> QED BY <1>3, <2>1, ProductIsNat
<1>5. Wrap(d) \in Nat
  BY <1>1, WrapInt DEF Balance
<1>6. locked = Wrap(d) \div (NumOfPhases - p + 1)
  BY <1>4 DEF LockedRequired
<1>7. locked \in Nat
  <2>1. PICK c \in Nat \ {0} : c = NumOfPhases - p + 1
    BY <1>1
  <2> QED BY <1>5, <1>6, <2>1
<1>8. required - locked \in Int
  BY <1>3, <1>7
<1> QED BY <1>3, <1>7, <1>8, WrapInt

\* The list of an account, if it has one.
LEMMA ListOf ==
    ASSUME NEW P, NEW v, NEW x, NEW s \in Sound(P, v, x), NEW who
    PROVE  /\ Get(s.list, who, <<>>) \in Packs(s.left - 1, PackAssets(P))
           /\ Get(s.list, who, <<>>) \in Seq(ReleasePack)
<1>1. s.list \in Maps(Packs(s.left - 1, PackAssets(P)))
  BY SoundFacts DEF InStep
<1>2. Get(s.list, who, <<>>) \in Packs(s.left - 1, PackAssets(P))
  <2>1. CASE who \in DOMAIN s.list
    <3>1. s.list[who] \in Packs(s.left - 1, PackAssets(P))
      BY <1>1, <2>1, PackMaps
    <3> QED BY <2>1, <3>1 DEF Get
  <2>2. CASE who \notin DOMAIN s.list
    BY <2>2, NoPacks DEF Get
  <2> QED BY <2>1, <2>2
<1> QED BY <1>2 DEF Packs

\* What is left of a list when `less` has been taken from the packs of a phase.
LEMMA ListAfter ==
    ASSUME NEW n \in Nat, NEW A \in SUBSET AssetId, NEW list \in Packs(n, A), NEW p \in PhaseId,
           NEW a \in A, NEW less \in Nat, NEW total, total = AggregatedTotal(list, p, a), NEW q,
           q = IF total > less THEN aggregate_phase_unreleased(list, p, a, less) ELSE Rest(list, p, a)
    PROVE  q \in Packs(n, A)
<1>1. list \in Seq(ReleasePack) /\ Same(list, p, a) \in SUBSET DOMAIN list
  BY DEF Packs, Same
<1>2. CASE total > less
  <2>1. total \in Balance /\ (Same(list, p, a) = {} => total = 0)
    BY <1>1, TotalAtFacts DEF AggregatedTotal
  <2>2. total \in Nat
    BY <2>1, MaxBalanceAssumption DEF Balance
  <2>3. Same(list, p, a) # {} /\ less <= total
    BY <1>2, <2>1, <2>2
  <2>4. aggregate_phase_unreleased(list, p, a, less) \in Packs(n, A)
    BY <2>3, AggregateFacts
  <2> QED BY <1>2, <2>4
<1>3. CASE ~(total > less)
  <2>1. Rest(list, p, a) \in Packs(n, A)
    BY KeptPacks DEF Rest
  <2> QED BY <1>3, <2>1
<1> QED BY <1>2, <1>3

\* make_redeem pays `amount` out of what has been collected.
LEMMA SoundRedeem ==
    ASSUME NEW P, Stand(P), NEW v \in [PhaseId -> Nat], NEW x \in Int, NEW s \in Sound(P, v, x),
           NEW iou \in IOUs, NEW who \in AccountId, NEW amount \in Nat
    PROVE  /\ make_redeem(s, iou, who, amount) \in Sound(P, v, x - amount)
           /\ SameCount(s, make_redeem(s, iou, who, amount))
<1> DEFINE phase     == IOUAssetPhaseId[iou]
           list      == Get(s.list, who, <<>>)
           required  == Wrap(amount * Exchange[phase])
           locked    == LockedRequired(phase, required, s.left)
           free      == Wrap(required - locked)
           returned  == s.collected[who]
           ret_free  == Min({returned, free})
           ret_lock  == Min({returned - ret_free, locked})
           rest      == returned - ret_free - ret_lock
           taken     == [s EXCEPT !.collected[who] = rest, !.list = Removed(@, who)]
           unrel     == UnreleasedOf(list, phase)
           held      == s.free[ShareAssetId][who]
           lock_have == Min({locked - ret_lock, unrel})
           free_have == Min({free - ret_free, held})
           from_free == Wrap(free_have + (locked - ret_lock - lock_have))
           from_lock == Wrap(lock_have + (free - ret_free - free_have))
           to_burn   == Wrap(ret_free + ret_lock + from_free)
           total     == AggregatedTotal(list, phase, ShareAssetId)
           moved     == make_transfer(taken, ShareAssetId, who, CollectionAccountId, from_free)
           after     == IF total > from_lock
                        THEN aggregate_phase_unreleased(list, phase, ShareAssetId, from_lock)
                        ELSE Rest(list, phase, ShareAssetId)
           listed    == [moved EXCEPT !.list = Put(@, who, after)]
           burnt     == IF to_burn = 0 THEN listed
                        ELSE burn(listed, ShareAssetId, CollectionAccountId, to_burn)
           short     == free - ret_free > 0 /\ Wrap(held + unrel) < required
           paid      == make_transfer(burnt, CollectionAssetId, CollectionAccountId, who, amount)
           odd       == short \/ Wrap(from_free + from_lock + returned) # required
           res       == make_redeem(s, iou, who, amount)
           A         == PackAssets(P)
<1>0. res = IF odd THEN Fail(taken)
            ELSE IF ~moved.ok \/ total < from_lock THEN Fail(moved)
            ELSE paid
  BY DEF make_redeem
<1> HIDE DEF res, paid, burnt, listed, after, moved, odd
<1>1. /\ s \in StorageType /\ phase \in PhaseId /\ Setting /\ ShareAssetId \in AssetId
      /\ CollectionAccountId \in AccountId /\ CollectionAssetId \in AssetId
      /\ ShareAssetId \in A /\ A \in SUBSET AssetId
      /\ list \in Packs(s.left - 1, A) /\ list \in Seq(ReleasePack)
      /\ s.list \in Maps(Packs(s.left - 1, A)) /\ s.quota <= Quota[s.phase]
  BY SoundFacts, StandFacts, ListOf DEF InStep
<1>2. required \in Balance /\ locked \in Nat /\ free \in Balance
  <2> HIDE DEF phase
  <2> QED BY <1>1, RedeemNumbers
<1>3. returned \in Balance /\ held \in Balance /\ s.left - 1 \in Nat
  <2>1. s.collected \in [AccountId -> Balance] /\ s.free \in [AssetId -> [AccountId -> Balance]]
    BY <1>1, StorageFields DEF Ledger
  <2>2. s.left \in Nat \ {0}
    BY <1>1, PhaseNumbers
  <2>3. ShareAssetId \in AssetId
    BY <1>1
  <2> QED BY <2>1, <2>2, <2>3
<1>4. unrel \in Balance
  <2>1. {i \in DOMAIN list : list[i].phase_id = phase} \in SUBSET DOMAIN list
    OBVIOUS
  <2> HIDE DEF list, phase
  <2> QED BY <1>1, <2>1, TotalAtFacts DEF UnreleasedOf
<1> HIDE DEF phase, list, required, locked, free, returned, held, unrel, total, A
<1>5. /\ required \in Nat /\ free \in Nat /\ returned \in Nat /\ held \in Nat /\ unrel \in Nat
      /\ returned <= MaxBalance /\ MaxBalance \in Nat
  BY <1>2, <1>3, <1>4, MaxBalanceAssumption DEF Balance
<1>6. ret_free \in Nat /\ ret_free <= returned /\ ret_free <= free
  BY <1>5, MinOfTwo
<1> HIDE DEF ret_free
<1>7. ret_lock \in Nat /\ ret_lock <= returned - ret_free /\ ret_lock <= locked
  <2>1. returned - ret_free \in Nat
    BY <1>5, <1>6
  <2> QED BY <1>2, <2>1, MinOfTwo
<1> HIDE DEF ret_lock
<1>8. rest \in Balance
  BY <1>5, <1>6, <1>7 DEF Balance
<1>9. lock_have \in Nat
  <2>1. PICK c \in Nat : c = locked - ret_lock
    BY <1>2, <1>7
  <2>2. PICK d \in Nat : d = unrel
    BY <1>5
  <2>3. c \in Int /\ d \in Int
    OBVIOUS
  <2>4. Min({c, d}) \in {c, d}
    BY <2>3, MinOfTwo
  <2> QED BY <2>1, <2>2, <2>4
<1>10. free_have \in Nat
  <2>1. PICK c \in Nat : c = free - ret_free
    BY <1>5, <1>6
  <2>2. PICK d \in Nat : d = held
    BY <1>5
  <2>3. c \in Int /\ d \in Int
    OBVIOUS
  <2>4. Min({c, d}) \in {c, d}
    BY <2>3, MinOfTwo
  <2> QED BY <2>1, <2>2, <2>4
<1> HIDE DEF lock_have, free_have
<1>11. from_free \in Nat /\ from_lock \in Nat /\ to_burn \in Nat
  <2>1. from_free \in Balance /\ from_lock \in Balance
    <3>1. free_have + (locked - ret_lock - lock_have) \in Int
          /\ lock_have + (free - ret_free - free_have) \in Int
      BY <1>2, <1>5, <1>6, <1>7, <1>9, <1>10
    <3> QED BY <3>1, WrapInt
  <2>2. from_free \in Nat /\ from_lock \in Nat
    BY <2>1, MaxBalanceAssumption DEF Balance
  <2> HIDE DEF from_free
  <2>3. ret_free + ret_lock + from_free \in Int
    BY <1>6, <1>7, <2>2
  <2>4. to_burn \in Balance
    BY <2>3, WrapInt
  <2> QED BY <2>2, <2>4, MaxBalanceAssumption DEF Balance
<1> HIDE DEF rest, from_free, from_lock, to_burn
<1>12. taken \in Sound(P, v, x) /\ SameCount(s, taken) /\ taken.list \in Maps(Packs(s.left - 1, A))
  <2>1. PICK m : m = Removed(s.list, who)
    OBVIOUS
  <2>2. m \in Maps(Packs(s.left - 1, A)) /\ m \in Maps(Seq(ReleasePack))
    BY <1>1, <2>1, RemovedPacks, PackMaps
  <2>3. PICK c : c = [s.collected EXCEPT ![who] = rest]
    OBVIOUS
  <2>4. c \in Uncollected
    <3>1. rest = 0 /\ returned = 0
      BY <1>1, <1>5, <1>6, <1>7, StorageFields DEF rest, returned
    <3>2. s.collected = [w \in AccountId |-> 0]
      BY <1>1, StorageFields DEF Uncollected
    <3> QED BY <2>3, <3>1, <3>2 DEF Uncollected
  <2>5. taken = [s EXCEPT !.collected = c, !.list = m]
    BY <2>1, <2>3
  <2> HIDE DEF taken
  <2>6. SameLedger(s, taken) /\ taken.list = m /\ taken.quota = s.quota
    BY <1>1, <2>2, <2>4, <2>5 DEF SameLedger, StorageType
  <2>7. taken \in Sound(P, v, x)
    BY <1>1, <2>2, <2>6, SoundBooks DEF A
  <2> QED BY <2>2, <2>6, <2>7 DEF SameLedger, SameCount
<1> HIDE DEF taken
<1>13. moved \in Sound(P, v, x) /\ LedgerCall(taken, moved)
  <2>1. Gain(ShareAssetId, who, CollectionAccountId, from_free) \in Nat
    BY <1>11 DEF Gain
  <2>2. x <= x + Gain(ShareAssetId, who, CollectionAccountId, from_free)
    <3> HIDE DEF Gain
    <3> QED BY <2>1
  <2> QED BY <1>1, <1>11, <1>12, <2>2, SoundTransfer DEF moved
<1>14. SameCount(s, moved) /\ moved.list = taken.list /\ moved.left = s.left
       /\ moved.phase = s.phase /\ moved.quota = s.quota
  BY <1>12, <1>13 DEF LedgerCall, SameBooks, SameCount
<1>15. x - amount \in Int
  OBVIOUS
<1>16. CASE odd
  <2>1. res = Fail(taken)
    BY <1>0, <1>16
  <2>2. Fail(taken) \in Sound(P, v, x - amount) /\ taken \in StorageType
    BY <1>12, SoundFail, SoundFacts
  <2>3. SameCount(taken, Fail(taken))
    BY <2>2, FailFacts DEF LedgerCall, SameBooks, SameCount
  <2> QED BY <1>12, <2>1, <2>2, <2>3 DEF SameCount, res
<1>17. CASE ~odd /\ (~moved.ok \/ total < from_lock)
  <2>1. res = Fail(moved)
    BY <1>0, <1>17
  <2>2. Fail(moved) \in Sound(P, v, x - amount) /\ moved \in StorageType
    BY <1>13, SoundFail, SoundFacts
  <2>3. SameCount(moved, Fail(moved))
    BY <2>2, FailFacts DEF LedgerCall, SameBooks, SameCount
  <2> QED BY <1>14, <2>1, <2>2, <2>3 DEF SameCount, res
<1>18. CASE ~odd /\ moved.ok /\ ~(total < from_lock)
  <2>1. res = paid
    BY <1>0, <1>18
  <2>2. after \in Packs(s.left - 1, A)
    BY <1>1, <1>3, <1>11, ListAfter DEF after, total
  <2>3. listed \in Sound(P, v, x) /\ SameCount(s, listed)
    <3>1. moved \in StorageType
      BY <1>13, SoundFacts
    <3>2. PICK m : m = Put(moved.list, who, after)
      OBVIOUS
    <3>3. m \in Maps(Packs(s.left - 1, A)) /\ m \in Maps(Seq(ReleasePack))
      BY <1>12, <1>14, <2>2, <3>2, PutPacks, PackMaps
    <3>4. listed = [moved EXCEPT !.list = m]
      BY <3>2 DEF listed
    <3>5. SameLedger(moved, listed) /\ listed.list = m /\ listed.quota = moved.quota
      BY <3>1, <3>3, <3>4 DEF SameLedger, StorageType
    <3>6. listed \in Sound(P, v, x)
      BY <1>1, <1>13, <1>14, <3>3, <3>5, SoundBooks DEF A
    <3> QED BY <1>14, <3>5, <3>6 DEF SameLedger, SameCount
  <2>4. burnt \in Sound(P, v, x) /\ SameCount(s, burnt)
    <3>1. CASE to_burn = 0
      BY <2>3, <3>1 DEF burnt
    <3>2. CASE to_burn # 0
      <4>1. "whole" \in P => ShareAssetId # CollectionAssetId
        BY StandFacts, OrderlyFacts
      <4>2. burnt = burn(listed, ShareAssetId, CollectionAccountId, to_burn)
        BY <3>2 DEF burnt
      <4>3. burnt \in Sound(P, v, x) /\ LedgerCall(listed, burnt)
        BY <1>1, <1>11, <2>3, <4>1, <4>2, SoundBurn
      <4> QED BY <2>3, <4>3 DEF LedgerCall, SameBooks, SameCount
    <3> QED BY <3>1, <3>2
  <2>5. paid \in Sound(P, v, x - amount) /\ LedgerCall(burnt, paid)
    <3>1. x - amount <= x + Gain(CollectionAssetId, CollectionAccountId, who, amount)
      <4>1. CASE who = CollectionAccountId
        BY <4>1 DEF Gain
      <4>2. CASE who # CollectionAccountId
        BY <4>2 DEF Gain
      <4> QED BY <4>1, <4>2
    <3>2. "credited" \in P => CollectionAssetId # ShareAssetId
      BY StandFacts, OrderlyFacts
    <3> QED BY <1>1, <1>15, <2>4, <3>1, <3>2, SoundTransfer DEF paid
  <2> QED BY <2>1, <2>4, <2>5 DEF LedgerCall, SameBooks, SameCount, res
<1> QED BY <1>16, <1>17, <1>18

\* The IOUs that go back to their owner after an error.
LEMMA SoundReturned ==
    ASSUME NEW P, Stand(P), NEW v \in [PhaseId -> Nat], NEW x \in Int, NEW s \in Sound(P, v, x),
           NEW iou \in IOUs, NEW who \in AccountId, NEW amount \in Nat,
           NEW t, t = Fail(make_transfer([s EXCEPT !.ok = TRUE], iou, CollectionAccountId, who, amount))
    PROVE  t \in Sound(P, v, x) /\ SameCount(s, t) /\ ~t.ok
<1> DEFINE Q == P \ {"whole"}
           r == [s EXCEPT !.ok = TRUE]
           u == make_transfer(r, iou, CollectionAccountId, who, amount)
           y == x - amount
<1>1. s \in StorageType /\ InStep(s, PackAssets(P)) /\ Conserved(s)
      /\ ("tracks" \in P => Tracks(s)) /\ ("credited" \in P => CreditsHolders(s))
  BY SoundFacts
<1>2. Stand(Q) /\ "whole" \notin Q /\ y \in Int
  BY DEF Stand
<1>3. /\ r \in StorageType /\ r.issuance = s.issuance /\ r.free = s.free /\ r.left = s.left
      /\ r.phase = s.phase /\ r.quota = s.quota /\ r.list = s.list /\ r.shares = s.shares
      /\ r.circulation = s.circulation /\ r.mistracked = s.mistracked /\ r.panicked = s.panicked
  BY <1>1 DEF StorageType
<1> HIDE DEF r
<1>4. PackAssets(P) \subseteq AssetId /\ PackAssets(Q) = AssetId
  BY <1>2, StandFacts DEF PackAssets
<1>5. InStep(r, AssetId)
  <2>1. s.list \in Maps(Packs(s.left - 1, PackAssets(P)))
    BY <1>1 DEF InStep
  <2>2. Packs(s.left - 1, PackAssets(P)) \subseteq Packs(s.left - 1, AssetId)
    BY <1>4 DEF Packs
  <2>3. s.list \in Maps(Packs(s.left - 1, AssetId))
    BY <2>1, <2>2 DEF Maps
  <2> QED BY <1>1, <1>3, <2>3 DEF InStep
<1>6. r \in Sound(Q, v, x)
  <2>1. Conserved(r) /\ ("tracks" \in Q => Tracks(r)) /\ ("credited" \in Q => CreditsHolders(r))
    BY <1>1, <1>3 DEF Conserved, Tracks, CreditsHolders
  <2> QED BY <1>2, <1>3, <1>4, <1>5, <2>1 DEF Sound
<1>7. u \in Sound(Q, v, y) /\ LedgerCall(r, u)
  <2>1. iou \in AssetId /\ CollectionAccountId \in AccountId
    BY StandFacts
  <2>2. "credited" \in Q => iou # ShareAssetId
    BY StandFacts, OrderlyFacts
  <2>3. y <= x + Gain(iou, CollectionAccountId, who, amount)
    <3>1. CASE who = CollectionAccountId
      BY <3>1 DEF Gain
    <3>2. CASE who # CollectionAccountId
      BY <3>2 DEF Gain
    <3> QED BY <3>1, <3>2
  <2> HIDE DEF y, Q
  <2> QED BY <1>2, <1>6, <2>1, <2>2, <2>3, SoundTransfer
<1> HIDE DEF u, Q
<1>8. /\ t \in Sound(Q, v, x) /\ ~t.ok /\ u \in StorageType /\ t = Fail(u)
  BY <1>7, SoundFail, SoundFacts DEF u, r
<1>9. SameBooks(u, t)
  BY <1>8, FailFacts DEF LedgerCall
<1>10. SameCount(s, t) /\ t.list = s.list /\ t.left = s.left /\ t.phase = s.phase
       /\ t.quota = s.quota
  BY <1>3, <1>7, <1>9 DEF LedgerCall, SameBooks, SameCount
<1>11. t \in StorageType /\ Conserved(t) /\ ("tracks" \in Q => Tracks(t))
       /\ ("credited" \in Q => CreditsHolders(t))
  BY <1>8, SoundFacts
<1>12. InStep(t, PackAssets(P))
  BY <1>1, <1>10 DEF InStep
<1>13. t \in Sound(P, v, x)
  BY <1>8, <1>11, <1>12 DEF Sound, Q
<1> QED BY <1>8, <1>10, <1>13

\* Cover is promised only while nothing is amiss.
LEMMA SoundAnyCover ==
    ASSUME NEW P, NEW v, NEW x, NEW w, NEW y, "whole" \notin P
    PROVE  Sound(P, v, x) = Sound(P, w, y)
  BY DEF Sound

\* Cover by more is cover by less.
LEMMA SoundLess ==
    ASSUME NEW P, Stand(P), NEW v, NEW x \in Int, NEW y \in Int, y <= x, NEW s \in Sound(P, v, x)
    PROVE  s \in Sound(P, v, y)
<1>1. CASE "whole" \notin P
  BY <1>1, SoundAnyCover
<1>2. CASE "whole" \in P /\ s.ok
  <2>1. s \in StorageType /\ Conserved(s) /\ Covers(s, x) /\ Issued(s, v) /\ Setting /\ Orderly
    BY <1>2, SoundFacts, StandFacts
  <2>2. OutsideAll(s) \in Nat /\ s.free[CollectionAssetId][CollectionAccountId] \in Nat
    <3>1. CollectionAssetId \in AssetId /\ CollectionAccountId \in AccountId /\ AssetsTypeOK
      BY StandFacts
    <3> QED BY <2>1, <3>1, OutsideAllChanges, ConservedFacts
  <2>3. Covers(s, y)
    BY <2>1, <2>2 DEF Covers
  <2> QED BY <2>1, <2>3 DEF Sound
<1>3. CASE ~s.ok
  BY <1>3, SoundFailed
<1> QED BY <1>1, <1>2, <1>3

\* Taking IOUs, redeeming and burning them, or giving them back.
LEMMA SoundRedeemIOU ==
    ASSUME NEW P, Stand(P), NEW v \in [PhaseId -> Nat], NEW x \in Int, NEW s \in Sound(P, v, x),
           NEW iou \in IOUs, NEW who \in AccountId, NEW amount \in Nat,
           "whole" \in P => who # CollectionAccountId,
           NEW t, t = RedeemIOU(s, iou, who, amount)
    PROVE  t \in Sound(P, v, x) /\ SameCount(s, t)
<1> DEFINE sent     == make_transfer(s, iou, who, CollectionAccountId, amount)
           redeemed == make_redeem(sent, iou, who, amount)
           returned == Fail(make_transfer([redeemed EXCEPT !.ok = TRUE], iou, CollectionAccountId,
                                          who, amount))
           burnt    == burn(redeemed, iou, CollectionAccountId, amount)
<1>0. t = IF ~sent.ok THEN sent ELSE IF redeemed.ok THEN burnt ELSE returned
  BY DEF RedeemIOU
<1> HIDE DEF sent, redeemed, returned, burnt
<1>1. iou \in AssetId /\ CollectionAccountId \in AccountId /\ ("credited" \in P => iou # ShareAssetId)
      /\ ("whole" \in P => iou # CollectionAssetId)
  BY StandFacts, OrderlyFacts
<1>2. sent \in Sound(P, v, x + amount) /\ LedgerCall(s, sent)
  <2>1. PICK g \in Int : g = Gain(iou, who, CollectionAccountId, amount)
    BY DEF Gain
  <2>2. x + g \in Int /\ x + g <= x + g
    OBVIOUS
  <2>3. sent \in Sound(P, v, x + g) /\ LedgerCall(s, sent)
    BY <1>1, <2>1, <2>2, SoundTransfer DEF sent
  <2>4. CASE "whole" \in P
    <3>1. g = amount
      BY <2>1, <2>4 DEF Gain
    <3> QED BY <2>3, <3>1
  <2>5. CASE "whole" \notin P
    BY <2>3, <2>5, SoundAnyCover
  <2> QED BY <2>4, <2>5
<1>3. redeemed \in Sound(P, v, x) /\ SameCount(sent, redeemed)
  <2>1. PICK y \in Int : y = x + amount
    OBVIOUS
  <2>2. redeemed \in Sound(P, v, y - amount) /\ SameCount(sent, redeemed)
    BY <1>2, <2>1, SoundRedeem DEF redeemed
  <2>3. y - amount = x
    BY <2>1
  <2> QED BY <2>2, <2>3
<1>4. SameCount(s, sent) /\ SameCount(s, redeemed)
  BY <1>2, <1>3 DEF LedgerCall, SameBooks, SameCount
<1>5. CASE ~sent.ok
  <2>1. sent \in Sound(P, v, x)
    BY <1>2, <1>5, SoundFailed
  <2> QED BY <1>0, <1>4, <1>5, <2>1
<1>6. CASE sent.ok /\ redeemed.ok
  <2>1. burnt \in Sound(P, v, x) /\ LedgerCall(redeemed, burnt)
    BY <1>1, <1>3, SoundBurn DEF burnt
  <2>2. SameCount(s, burnt)
    BY <1>4, <2>1 DEF LedgerCall, SameBooks, SameCount
  <2> QED BY <1>0, <1>6, <2>1, <2>2
<1>7. CASE sent.ok /\ ~redeemed.ok
  <2>1. returned \in Sound(P, v, x) /\ SameCount(redeemed, returned)
    BY <1>3, SoundReturned DEF returned
  <2>2. SameCount(s, returned)
    BY <1>4, <2>1 DEF SameCount
  <2> QED BY <1>0, <1>7, <2>1, <2>2
<1> QED BY <1>5, <1>6, <1>7

-----------------------------------------------------------------------------
\* What becomes of a call.

\* Records with the same books.
Alike(s, t) ==
    /\ t \in StorageType /\ t.issuance = s.issuance /\ t.free = s.free /\ t.phase = s.phase
    /\ t.quota = s.quota /\ t.left = s.left /\ t.list = s.list /\ t.shares = s.shares
    /\ t.circulation = s.circulation

\* They keep as many promises, or fewer.
LEMMA SoundLike ==
    ASSUME NEW P, NEW Q \in SUBSET P, ShareAssetId \in AssetId, NEW v, NEW x,
           NEW s \in Sound(P, v, x), NEW t, Alike(s, t),
           "tracks" \in Q \/ "credited" \in Q => ~s.mistracked \/ t.mistracked,
           "whole" \in Q => s.ok
    PROVE  t \in Sound(Q, v, x)
<1>1. /\ InStep(s, PackAssets(P)) /\ Conserved(s) /\ ("tracks" \in P => Tracks(s))
      /\ ("credited" \in P => CreditsHolders(s))
      /\ ("whole" \in P /\ s.ok => Issued(s, v) /\ Covers(s, x))
  BY SoundFacts
<1>2. InStep(t, PackAssets(Q))
  <2>1. s.list \in Maps(Packs(s.left - 1, PackAssets(P)))
    BY <1>1 DEF InStep
  <2>2. PackAssets(P) \subseteq PackAssets(Q)
    BY DEF PackAssets
  <2>3. Packs(s.left - 1, PackAssets(P)) \subseteq Packs(s.left - 1, PackAssets(Q))
    BY <2>2 DEF Packs
  <2>4. s.list \in Maps(Packs(s.left - 1, PackAssets(Q)))
    BY <2>1, <2>3 DEF Maps
  <2> QED BY <1>1, <2>4 DEF InStep, Alike
<1>3. Conserved(t)
  BY <1>1 DEF Conserved, Alike
<1>4. ("tracks" \in Q => Tracks(t)) /\ ("credited" \in Q => CreditsHolders(t))
  BY <1>1 DEF Tracks, CreditsHolders, Alike
<1>5. "whole" \in Q => Issued(t, v) /\ Covers(t, x)
  <2>1. OutsideAll(t) = OutsideAll(s)
    BY DEF Alike, OutsideAll, OutsideOf
  <2> QED BY <1>1, <2>1 DEF Alike, Issued, Covers
<1> QED BY <1>2, <1>3, <1>4, <1>5 DEF Sound, Alike

\* The promises that stand after what has happened.
Standing(u) ==
    {p \in Promises :
        /\ p = "tracks" => "mistracked" \notin u
        /\ p = "credited" => u \cap {"untracked", "mistracked", "root"} = {}
        /\ p = "whole" => u \cap {"partial", "root"} = {}}

\* The invariant: the books are kept as far as the promises stand, and the rules
\* are those of genesis unless root has changed them.
Books == Storage \in Sound(Standing(upset), Filled(CurrentPhaseId, QuotaUsed), 0)
Rules ==
    /\ Setting /\ upset \subseteq Upset /\ ("root" \notin upset => Orderly)
    /\ now \in 0 .. MaxTime /\ LastBonusTime \in 0 .. now
SavingInv == Books /\ Rules

\* The fields of the storage.
LEMMA StorageIs ==
    /\ Storage.issuance = TotalIssuance /\ Storage.free = FreeBalance
    /\ Storage.collected = ShareAssetCollected /\ Storage.phase = CurrentPhaseId
    /\ Storage.quota = QuotaUsed /\ Storage.left = NumOfPhasesLeft
    /\ Storage.list = ShareUnreleasedList /\ Storage.shares = AccountShares
    /\ Storage.circulation = SharesCirculation /\ Storage.paused = Paused
    /\ Storage.ok = TRUE /\ Storage.panicked = FALSE /\ Storage.mistracked = FALSE
  BY DEF Storage

\* More disturbances, fewer promises; and they need no more than they have.
LEMMA StandingFacts ==
    ASSUME Rules, NEW more, NEW u, u = upset \cup more
    PROVE  /\ Standing(u) \in SUBSET Standing(upset) /\ Stand(Standing(u))
           /\ "root" \in more => Standing(u) \cap {"credited", "whole"} = {}
           /\ "untracked" \in more => "credited" \notin Standing(u)
<1>1. Standing(u) \in SUBSET Standing(upset)
  BY DEF Standing
<1>2. Standing(u) \cap {"credited", "whole"} # {} => "root" \notin upset
  BY DEF Standing
<1>3. Stand(Standing(u))
  BY <1>2 DEF Stand, Rules
<1>4. ("root" \in more => Standing(u) \cap {"credited", "whole"} = {})
      /\ ("untracked" \in more => "credited" \notin Standing(u))
  BY DEF Standing
<1> QED BY <1>1, <1>3, <1>4

\* At the start of a call the storage keeps what it will have to keep.
LEMMA SoundStart ==
    ASSUME SavingInv, NEW more, NEW P, P = Standing(upset \cup more)
    PROVE  /\ Storage \in Sound(P, Filled(Storage.phase, Storage.quota), 0) /\ Stand(P)
           /\ Storage \in StorageType /\ Filled(Storage.phase, Storage.quota) \in [PhaseId -> Nat]
<1>1. Storage \in Sound(Standing(upset), Filled(Storage.phase, Storage.quota), 0)
      /\ Stand(P) /\ P \in SUBSET Standing(upset)
  BY StorageIs, StandingFacts DEF SavingInv, Books
<1>2. Storage \in StorageType /\ ShareAssetId \in AssetId
  BY <1>1, SoundFacts, StandFacts
<1>3. Alike(Storage, Storage) /\ Storage.ok
  BY <1>2, StorageIs DEF Alike
<1>4. Storage \in Sound(P, Filled(Storage.phase, Storage.quota), 0)
  BY <1>1, <1>2, <1>3, SoundLike
<1>5. Filled(Storage.phase, Storage.quota) \in [PhaseId -> Nat]
  BY <1>2, PhaseNumbers
<1> QED BY <1>1, <1>2, <1>4, <1>5

\* The sets of sound records depend on the rules only,
LEMMA SoundFrame ==
    ASSUME ReservedBalance' = ReservedBalance, config' = config, PhaseIOU' = PhaseIOU,
           IOUAssetPhaseId' = IOUAssetPhaseId, NEW P, NEW v, NEW x
    PROVE  Sound(P, v, x)' = Sound(P, v, x)
  BY DEF Sound, InStep, Conserved, CreditsHolders, Issued, Covers, OutsideAll, OutsideOf, IOUs,
         PackAssets, ShareAssetId, CollectionAssetId, CollectionAccountId

\* and on none of them when there is little to promise.
LEMMA SoundRoot ==
    ASSUME ReservedBalance' = ReservedBalance, NEW P, P \cap {"credited", "whole"} = {}, NEW v, NEW x
    PROVE  Sound(P, v, x)' = Sound(P, v, x)
  BY DEF Sound, InStep, Conserved, PackAssets

\* The rules that a call leaves alone.
LEMMA RulesFrame ==
    ASSUME Rules, UNCHANGED <<ledgerRules, rootVars, clockVars>>,
           NEW u \in SUBSET Upset, upset' = upset \cup u,
           TotalIssuance' \in [AssetId -> Balance], FreeBalance' \in Ledger
    PROVE  Rules'
<1>1. /\ ReservedBalance' = ReservedBalance /\ Permissions' = Permissions
      /\ Restrictions' = Restrictions /\ Symbols' = Symbols /\ FromId' = FromId /\ ToId' = ToId
      /\ rootKey' = rootKey /\ config' = config /\ PhaseIOU' = PhaseIOU
      /\ IOUAssetPhaseId' = IOUAssetPhaseId /\ LastBonusTime' = LastBonusTime /\ now' = now
      /\ price' = price
  BY DEF ledgerRules, rootVars, clockVars, contextVars
<1>2. AssetsTypeOK'
  BY <1>1 DEF AssetsTypeOK, Rules, Setting, Ledger
<1>3. ConfigOK'
  BY <1>1 DEF ConfigOK, Rules, Setting, CollectionAssetId, ShareAssetId, ProfitAssetId,
              CollectionAccountId, ProfitPool, TeamAccountId
<1>4. Setting'
  BY <1>1, <1>2, <1>3 DEF Setting, Rules
<1>5. upset' \subseteq Upset /\ ("root" \notin upset' => Orderly')
  BY <1>1 DEF Rules, Orderly
<1> QED BY <1>1, <1>4, <1>5 DEF Rules

\* A storage that is alike to a sound record.
LEMMA BooksAfter ==
    ASSUME SavingInv, UNCHANGED <<ledgerRules, rootVars, clockVars>>,
           NEW u \in SUBSET Upset, upset' = upset \cup u,
           NEW t, t = Storage', NEW P, Standing(upset \cup u) \in SUBSET P,
           NEW s, s \in Sound(P, Filled(s.phase, s.quota), 0), Alike(s, t),
           s.mistracked => "mistracked" \in u, ~s.ok => "partial" \in u
    PROVE  SavingInv'
<1> DEFINE Q == Standing(upset \cup u)
<1>1. Q \in SUBSET P /\ ("tracks" \in Q \/ "credited" \in Q => ~s.mistracked)
      /\ ("whole" \in Q => s.ok)
  BY DEF Standing
<1>2. ShareAssetId \in AssetId
  BY DEF SavingInv, Rules, Setting, ConfigOK
<1>3. t \in Sound(Q, Filled(s.phase, s.quota), 0)
  <2> HIDE DEF Q
  <2> QED BY <1>1, <1>2, SoundLike
<1>4. t.phase = s.phase /\ t.quota = s.quota /\ t \in StorageType
  BY DEF Alike
<1>5. t.phase = CurrentPhaseId' /\ t.quota = QuotaUsed' /\ t.issuance = TotalIssuance'
      /\ t.free = FreeBalance'
  BY DEF Storage
<1>6. ReservedBalance' = ReservedBalance /\ config' = config /\ PhaseIOU' = PhaseIOU
      /\ IOUAssetPhaseId' = IOUAssetPhaseId
  BY DEF ledgerRules, rootVars
<1>7. PICK v : v = Filled(t.phase, t.quota)
  OBVIOUS
<1>8. PICK q : q = Q
  OBVIOUS
<1>9. Sound(q, v, 0)' = Sound(q, v, 0) /\ Standing(upset)' = q
  <2>1. Sound(q, v, 0)' = Sound(q, v, 0)
    BY <1>6, SoundFrame
  <2>2. Standing(upset)' = q
    BY <1>8
  <2> QED BY <2>1, <2>2
<1>10. Filled(CurrentPhaseId, QuotaUsed)' = v
  BY <1>5, <1>7
<1>11. Books'
  BY <1>3, <1>4, <1>7, <1>8, <1>9, <1>10 DEF Books
<1>12. TotalIssuance' \in [AssetId -> Balance] /\ FreeBalance' \in Ledger
  BY <1>4, <1>5, StorageFields
<1>13. Rules'
  BY <1>12, RulesFrame DEF SavingInv
<1> QED BY <1>11, <1>13 DEF SavingInv

\* A call that keeps the books on its copy of the storage keeps the invariant.
LEMMA Committed ==
    ASSUME SavingInv, NEW s, NEW more \in SUBSET Upset, Performed(s, more),
           s \in Broken \/ s \in Sound(Standing(upset \cup more), Filled(s.phase, s.quota), 0)
    PROVE  SavingInv'
<1> DEFINE partial == IF s.ok \/ Storage = [s EXCEPT !.ok = TRUE] THEN {} ELSE {"partial"}
           lost == IF s.mistracked THEN {"mistracked"} ELSE {}
           u == more \cup partial \cup lost
<1>1. s \in Sound(Standing(upset \cup more), Filled(s.phase, s.quota), 0) /\ s.panicked = FALSE
  <2>1. ~s.panicked /\ s \notin Broken
    BY DEF Performed, Commit, Broken
  <2>2. s \in StorageType
    BY <2>1, SoundFacts
  <2>3. s.panicked \in BOOLEAN
    BY <2>2, StorageFields
  <2> QED BY <2>1, <2>3
<1>2. s \in StorageType
  BY <1>1, SoundFacts
<1>3. UNCHANGED <<ledgerRules, rootVars, clockVars>> /\ upset' = upset \cup u
  <2>1. UNCHANGED <<ledgerRules, rootVars, clockVars>>
    BY DEF Performed, Commit
  <2>2. upset' = upset \cup more \cup partial \cup lost
    BY DEF Performed
  <2> QED BY <2>1, <2>2
<1>4. u \in SUBSET Upset
  BY DEF Upset
<1>5. Standing(upset \cup u) \in SUBSET Standing(upset \cup more)
  <2>1. upset \cup more \subseteq upset \cup u
    OBVIOUS
  <2> HIDE DEF u
  <2> QED BY <2>1 DEF Standing
<1>6. PICK t : t = Storage'
  OBVIOUS
<1>7. Alike(s, t)
  <2>1. /\ TotalIssuance' = s.issuance /\ FreeBalance' = s.free /\ ShareAssetCollected' = s.collected
        /\ CurrentPhaseId' = s.phase /\ QuotaUsed' = s.quota /\ NumOfPhasesLeft' = s.left
        /\ ShareUnreleasedList' = s.list /\ AccountShares' = s.shares
        /\ SharesCirculation' = s.circulation /\ Paused' = s.paused
    BY DEF Performed, Commit
  <2>2. t = [issuance |-> s.issuance, free |-> s.free, collected |-> s.collected,
             phase |-> s.phase, quota |-> s.quota, left |-> s.left, list |-> s.list,
             shares |-> s.shares, circulation |-> s.circulation, paused |-> s.paused,
             ok |-> TRUE, panicked |-> FALSE, mistracked |-> FALSE]
    BY <1>6, <2>1 DEF Storage
  <2>3. s.paused \in BOOLEAN
    BY <1>2, StorageFields
  <2>4. t \in StorageType
    BY <1>2, <2>2, <2>3, StorageFields DEF StorageType
  <2> QED BY <2>2, <2>4 DEF Alike
<1>8. s.mistracked => "mistracked" \in u
  OBVIOUS
<1>9. CASE s.ok \/ "partial" \in u
  <2>1. ~s.ok => "partial" \in u
    BY <1>9
  <2> HIDE DEF u
  <2> QED BY <1>1, <1>3, <1>4, <1>5, <1>6, <1>7, <1>8, <2>1, BooksAfter
<1>10. CASE ~s.ok /\ "partial" \notin u
  <2>1. Storage = [s EXCEPT !.ok = TRUE]
    BY <1>10
  <2>2. /\ Storage.issuance = s.issuance /\ Storage.free = s.free /\ Storage.phase = s.phase
        /\ Storage.quota = s.quota /\ Storage.left = s.left /\ Storage.list = s.list
        /\ Storage.shares = s.shares /\ Storage.circulation = s.circulation
    BY <1>2, <2>1 DEF StorageType
  <2>3. PICK r : r = Storage
    OBVIOUS
  <2>4. r \in Sound(Standing(upset \cup more), Filled(r.phase, r.quota), 0)
    BY <2>3, SoundStart
  <2>5. Alike(r, t)
    BY <1>7, <2>2, <2>3 DEF Alike
  <2>6. r.ok /\ ~r.mistracked
    BY <2>3, StorageIs
  <2> HIDE DEF u
  <2> QED BY <1>3, <1>4, <1>5, <1>6, <2>4, <2>5, <2>6, BooksAfter
<1> QED BY <1>9, <1>10

-----------------------------------------------------------------------------
\* The calls.

\* Nothing happens to a record that has panicked.
LEMMA BrokenStays ==
    ASSUME NEW s \in Broken, NEW a, NEW from, NEW to, NEW n
    PROVE  make_transfer(s, a, from, to, n) \in Broken /\ mint(s, a, to, n) \in Broken
<1>1. s \in StorageType /\ s.panicked /\ ~s.ok
  BY DEF Broken
<1>2. Fail(s) \in Broken
  BY <1>1 DEF Fail, Broken, StorageType
<1> QED BY <1>1, <1>2 DEF make_transfer, mint

\* The reserve to mint or burn is a number.
LEMMA ReserveIsNat ==
    ASSUME Setting, NEW n \in Nat
    PROVE  sbtc_to_reserved_mint(n) \in Nat
<1>1. RESERVED_MINT_RATIO \in Nat /\ PRICE_PRECISION \in Nat \ {0} /\ RESERVED_MINT_DIV \in Nat \ {0}
  BY SavingAssumption
<1>2. PICK d \in Nat : d = price * n * RESERVED_MINT_RATIO
  <2>1. PICK e \in Nat : e = price * n
    BY ProductIsNat DEF Setting
  <2> QED BY <1>1, <2>1, ProductIsNat
<1>3. PICK c \in Nat \ {0} : c = PRICE_PRECISION * RESERVED_MINT_DIV
  <2>1. PRICE_PRECISION * RESERVED_MINT_DIV \in Nat /\ PRICE_PRECISION * RESERVED_MINT_DIV # 0
    BY <1>1, ProductIsNat
  <2> QED BY <2>1
<1>4. Wrap(d) \in Nat
  BY WrapInt, MaxBalanceAssumption DEF Balance
<1>5. Wrap(d) \div c \in Nat
  BY <1>4
<1> QED BY <1>2, <1>3, <1>5 DEF sbtc_to_reserved_mint

\* Whom and what the calls are about.
LEMMA CallFacts ==
    /\ \A w \in Client : w \in AccountId
    /\ ReservedMintWallet \in AccountId /\ ReservedMintAssetId \in AssetId
    /\ \A n \in StakeAmount \cup RedeemAmount \cup ShareAmount \cup RootAmount : n \in Nat
    /\ \A p \in Trade : p[1] \in AccountId /\ p[2] \in AccountId
<1>1. Client \cup {ReservedMintWallet} \subseteq AccountId /\ Trade \subseteq AccountId \X AccountId
      /\ ReservedMintAssetId \in GenesisSymbols
  BY SavingAssumption
<1>2. GenesisSymbols \subseteq AssetId
  BY GenesisAssumption
<1>3. \A n \in StakeAmount \cup RedeemAmount \cup ShareAmount \cup RootAmount : n \in Nat
  BY CallAssumption, MaxBalanceAssumption DEF Balance
<1> QED BY <1>1, <1>2, <1>3

\* staking: what has been minted is covered by what is paid.
LEMMA StakingKeeps ==
    ASSUME SavingInv, NEW who \in Client, NEW amount \in StakeAmount, staking(who, amount)
    PROVE  SavingInv'
<1> DEFINE P == Standing(upset \cup {})
           r == create_staking(Storage, who, amount)
           paid == make_transfer(r.s, CollectionAssetId, who, CollectionAccountId, r.taken)
           t == mint(paid, ReservedMintAssetId, ReservedMintWallet, sbtc_to_reserved_mint(r.taken))
<1>1. Performed(t, {})
  BY DEF staking
<1>2. who \in AccountId /\ amount \in Nat /\ ReservedMintWallet \in AccountId
      /\ ReservedMintAssetId \in AssetId
  BY CallFacts
<1>3. Storage \in Sound(P, Filled(Storage.phase, Storage.quota), 0) /\ Stand(P)
      /\ Storage \in StorageType
  BY SoundStart
<1>4. r \in Stakes(P, 0, amount)
  <2>1. PICK s : s = Storage
    OBVIOUS
  <2>2. create_staking(s, who, amount) \in Stakes(P, 0, amount)
    <3> HIDE DEF P
    <3> QED BY <1>2, <1>3, <2>1, SoundCreateStaking
  <2> QED BY <2>1, <2>2
<1> HIDE DEF r, P
<1>5. /\ r.taken \in Nat
      /\ r.s \in Broken \/ r.s \in Sound(P, Filled(r.s.phase, r.s.quota), 0 - r.taken)
  BY <1>4 DEF Stakes
<1>6. PICK s, n, m : s = r.s /\ n = r.taken /\ m = sbtc_to_reserved_mint(r.taken)
  OBVIOUS
<1>7. m \in Nat /\ n \in Nat
  BY <1>3, <1>5, <1>6, ReserveIsNat, StandFacts
<1>8. t \in Broken \/ t \in Sound(P, Filled(t.phase, t.quota), 0)
  <2>1. CASE s \in Broken
    BY <1>6, <2>1, BrokenStays
  <2>2. CASE s \in Sound(P, Filled(s.phase, s.quota), 0 - n)
    <3>1. PICK v : v = Filled(s.phase, s.quota)
      OBVIOUS
    <3>2. paid \in Sound(P, v, 0) /\ LedgerCall(s, paid)
      <4>1. CollectionAssetId \in AssetId /\ CollectionAccountId \in AccountId
            /\ ("credited" \in P => CollectionAssetId # ShareAssetId)
            /\ ("whole" \in P => who # CollectionAccountId)
        BY <1>3, StandFacts, OrderlyFacts
      <4>2. PICK g \in Int : g = Gain(CollectionAssetId, who, CollectionAccountId, n)
        BY <1>7 DEF Gain
      <4>3. (0 - n) + g \in Int /\ (0 - n) + g <= (0 - n) + g /\ 0 - n \in Int
        BY <1>7
      <4>4. paid \in Sound(P, v, (0 - n) + g) /\ LedgerCall(s, paid)
        BY <1>2, <1>3, <1>6, <1>7, <2>2, <3>1, <4>1, <4>2, <4>3, SoundTransfer
      <4>5. CASE "whole" \in P
        <5>1. g = n
          BY <1>7, <4>1, <4>2, <4>5 DEF Gain
        <5>2. (0 - n) + g = 0
          BY <1>7, <5>1
        <5> QED BY <4>4, <5>2
      <4>6. CASE "whole" \notin P
        BY <4>4, <4>6, SoundAnyCover
      <4> QED BY <4>5, <4>6
    <3> HIDE DEF paid
    <3>3. "whole" \in P => ReservedMintAssetId \notin IOUs
      BY <1>3, StandFacts, OrderlyFacts
    <3>4. t \in Sound(P, v, 0) /\ LedgerCall(paid, t)
      <4>1. t = mint(paid, ReservedMintAssetId, ReservedMintWallet, m)
        BY <1>6
      <4> HIDE DEF t
      <4> QED BY <1>2, <1>3, <1>7, <3>2, <3>3, <4>1, SoundMint
    <3> HIDE DEF t
    <3>5. t.phase = s.phase /\ t.quota = s.quota
      BY <3>2, <3>4 DEF LedgerCall, SameBooks
    <3> QED BY <3>1, <3>4, <3>5
  <2> QED BY <1>5, <1>6, <2>1, <2>2
<1> HIDE DEF t
<1> QED BY <1>1, <1>8, Committed DEF P

\* redeem and sudo_redeem.
LEMMA RedeemKeeps ==
    ASSUME SavingInv, NEW who \in Client, NEW iou \in IOUs, NEW amount \in RedeemAmount,
           redeem(who, iou, amount) \/ sudo_redeem(who, iou, amount)
    PROVE  SavingInv'
<1> DEFINE P == Standing(upset \cup {})
           m == sbtc_to_reserved_mint(amount)
           burnt == burn(Storage, ReservedMintAssetId, ReservedMintWallet, m)
<1>1. who \in AccountId /\ amount \in Nat /\ ReservedMintWallet \in AccountId
      /\ ReservedMintAssetId \in AssetId
  BY CallFacts
<1>2. PICK s, v : s = Storage /\ v = Filled(Storage.phase, Storage.quota)
  OBVIOUS
<1>3. /\ s \in Sound(P, v, 0) /\ Stand(P) /\ v \in [PhaseId -> Nat]
      /\ ("whole" \in P => who # CollectionAccountId /\ ReservedMintWallet # CollectionAccountId)
  BY <1>2, SoundStart, StandFacts, OrderlyFacts
<1> HIDE DEF P
<1>4. burnt \in Sound(P, v, 0) /\ SameCount(s, burnt)
  <2>1. m \in Nat
    BY <1>1, <1>3, ReserveIsNat, StandFacts
  <2> HIDE DEF m
  <2>2. burnt \in Sound(P, v, 0) /\ LedgerCall(s, burnt)
    BY <1>1, <1>2, <1>3, <2>1, SoundBurn
  <2> QED BY <2>2 DEF LedgerCall, SameBooks, SameCount
<1>5. ASSUME NEW b \in Sound(P, v, 0), SameCount(s, b), NEW t, t = RedeemIOU(b, iou, who, amount),
             Performed(t, {})
      PROVE  SavingInv'
  <2>1. t \in Sound(P, v, 0) /\ SameCount(b, t)
    BY <1>1, <1>3, <1>5, SoundRedeemIOU
  <2>2. t \in Sound(P, Filled(t.phase, t.quota), 0)
    BY <1>2, <1>5, <2>1 DEF SameCount
  <2> QED BY <1>5, <2>2, Committed DEF P
<1> HIDE DEF burnt
<1>6. CASE redeem(who, iou, amount)
  <2>1. Performed(RedeemIOU(burnt, iou, who, amount), {})
    BY <1>6 DEF redeem, burnt
  <2> QED BY <1>4, <1>5, <2>1
<1>7. CASE sudo_redeem(who, iou, amount)
  <2>1. Performed(RedeemIOU(s, iou, who, amount), {})
    BY <1>2, <1>7 DEF sudo_redeem
  <2>2. SameCount(s, s)
    BY DEF SameCount
  <2> QED BY <1>3, <1>5, <2>1, <2>2
<1> QED BY <1>6, <1>7

\* Root mints or burns shares.
LEMMA RootSharesKeep ==
    ASSUME SavingInv, NEW who \in Client, NEW n \in RootAmount,
           MintShares(who, n) \/ BurnShares(who, n)
    PROVE  SavingInv'
<1> DEFINE more == {"root"}
           P == Standing(upset \cup more)
<1>1. who \in AccountId /\ n \in Nat /\ more \in SUBSET Upset
  BY CallFacts DEF Upset
<1>2. PICK s, v : s = Storage /\ v = Filled(Storage.phase, Storage.quota)
  OBVIOUS
<1>3. /\ s \in Sound(P, v, 0) /\ Stand(P) /\ v \in [PhaseId -> Nat] /\ "whole" \notin P
      /\ ShareAssetId \in AssetId
  BY <1>2, SoundStart, StandFacts, StandingFacts DEF SavingInv
<1> HIDE DEF P
<1>4. ASSUME NEW t \in Sound(P, v, 0), LedgerCall(s, t), Performed(t, more)
      PROVE  SavingInv'
  <2>1. t \in Sound(P, Filled(t.phase, t.quota), 0)
    BY <1>2, <1>4 DEF LedgerCall, SameBooks
  <2> QED BY <1>1, <1>4, <2>1, Committed DEF P
<1>5. CASE MintShares(who, n)
  <2>1. PICK t : t = mint(s, ShareAssetId, who, n)
    OBVIOUS
  <2>2. Performed(t, more)
    BY <1>2, <1>5, <2>1 DEF MintShares
  <2>3. t \in Sound(P, v, 0) /\ LedgerCall(s, t)
    BY <1>1, <1>3, <2>1, SoundMint
  <2> QED BY <1>4, <2>2, <2>3
<1>6. CASE BurnShares(who, n)
  <2>1. PICK t : t = burn(s, ShareAssetId, who, n)
    OBVIOUS
  <2>2. Performed(t, more)
    BY <1>2, <1>6, <2>1 DEF BurnShares
  <2>3. t \in Sound(P, v, 0) /\ LedgerCall(s, t)
    BY <1>1, <1>3, <2>1, SoundBurn
  <2> QED BY <1>4, <2>2, <2>3
<1> QED BY <1>5, <1>6

\* A transfer of shares with its hook: who holds more is credited with more.
LEMMA SoundShareTransfer ==
    ASSUME NEW P, Stand(P), NEW v, NEW s \in Sound(P, v, 0), s.ok, ~s.mistracked,
           NEW from \in AccountId, NEW to \in AccountId, from # to, NEW n \in Nat,
           NEW moved, moved = make_transfer(s, ShareAssetId, from, to, n), moved.ok,
           NEW t, t = track_share_asset_movement(moved, from, to, n)
    PROVE  t \in Sound(P, v, 0) /\ SameCount(s, t)
<1> DEFINE Q == P \ {"credited"}
<1>1. Stand(Q) /\ "credited" \notin Q /\ Q \in SUBSET P
  BY DEF Stand
<1>2. s \in StorageType /\ Conserved(s) /\ ("credited" \in P => CreditsHolders(s))
      /\ ShareAssetId \in AssetId /\ Setting /\ AssetsTypeOK /\ CollectionAccountId \in AccountId
  BY SoundFacts, StandFacts
<1>3. s \in Sound(Q, v, 0)
  <2>1. Alike(s, s)
    BY <1>2 DEF Alike
  <2> HIDE DEF Q
  <2> QED BY <1>1, <1>2, <2>1, SoundLike
<1>4. moved \in Sound(Q, v, 0) /\ LedgerCall(s, moved)
  <2>1. PICK g \in Int : g = Gain(ShareAssetId, from, to, n)
    <3>1. Gain(ShareAssetId, from, to, n) \in Int
      <4>1. (IF to = CollectionAccountId THEN n ELSE 0) \in Int
            /\ (IF from = CollectionAccountId THEN n ELSE 0) \in Int
        OBVIOUS
      <4> QED BY <4>1 DEF Gain
    <3> QED BY <3>1
  <2>2. 0 + g \in Int /\ 0 + g <= 0 + g
    OBVIOUS
  <2>3. moved \in Sound(Q, v, 0 + g) /\ LedgerCall(s, moved)
    <3> HIDE DEF Q
    <3> QED BY <1>1, <1>2, <1>3, <2>1, <2>2, SoundTransfer
  <2>4. CASE "whole" \in Q
    <3>1. ShareAssetId \notin IOUs \cup {CollectionAssetId}
      BY <2>4, StandFacts, OrderlyFacts
    <3>2. g = 0
      BY <2>1, <3>1 DEF Gain
    <3> QED BY <2>3, <3>2
  <2>5. CASE "whole" \notin Q
    BY <2>3, <2>5, SoundAnyCover
  <2> QED BY <2>4, <2>5
<1>5. moved \in StorageType /\ Conserved(moved) /\ InStep(moved, PackAssets(Q))
      /\ ("tracks" \in Q => Tracks(moved))
      /\ ("whole" \in Q => Issued(moved, v) /\ Covers(moved, 0))
  BY <1>4, SoundFacts
<1>6. /\ Tracked(moved, t) /\ (Tracks(moved) => Tracks(t))
      /\ \/ t.mistracked
         \/ \A w \in AccountId \ {CollectionAccountId} :
               Get(t.shares, w, 0) + (IF w = from THEN n ELSE 0)
                   = Get(moved.shares, w, 0) + (IF w = to THEN n ELSE 0)
  BY <1>5, TransferHook
<1>7. PackAssets(Q) = PackAssets(P)
  BY DEF PackAssets
<1>8. /\ t \in StorageType /\ t.issuance = moved.issuance /\ t.free = moved.free
      /\ t.phase = moved.phase /\ t.quota = moved.quota /\ t.left = moved.left
      /\ t.list = moved.list /\ t.ok = moved.ok /\ t.panicked = moved.panicked
  BY <1>6 DEF Tracked, SameBut
<1>9. SameCount(s, t)
  BY <1>4, <1>8 DEF LedgerCall, SameBooks, SameCount
<1>10. InStep(t, PackAssets(P)) /\ Conserved(t)
  BY <1>5, <1>7, <1>8 DEF InStep, Conserved
<1>11. "tracks" \in P => Tracks(t)
  BY <1>5, <1>6
<1>12. "credited" \in P => CreditsHolders(t)
  <2>1. SUFFICES ASSUME "credited" \in P, ~t.mistracked, NEW w \in AccountId \ {CollectionAccountId}
                 PROVE  Get(t.shares, w, 0) >= t.free[ShareAssetId][w]
    BY DEF CreditsHolders
  <2>2. Get(s.shares, w, 0) >= s.free[ShareAssetId][w]
    BY <1>2, <2>1 DEF CreditsHolders
  <2>3. moved.shares = s.shares /\ Paid(s.free, moved.free, ShareAssetId, from, to, n)
        /\ n <= s.free[ShareAssetId][from]
    BY <1>2, TransferKeeps
  <2>4. moved.free[ShareAssetId][w] + (IF w = from THEN n ELSE 0)
            = s.free[ShareAssetId][w] + (IF w = to THEN n ELSE 0)
    BY <1>2, <2>3, ConservedFacts DEF Paid
  <2>5. Get(t.shares, w, 0) + (IF w = from THEN n ELSE 0)
            = Get(s.shares, w, 0) + (IF w = to THEN n ELSE 0)
    BY <1>6, <2>1, <2>3
  <2>6. Get(t.shares, w, 0) \in Nat /\ Get(s.shares, w, 0) \in Nat
        /\ s.free[ShareAssetId][w] \in Nat /\ t.free[ShareAssetId][w] \in Nat
    BY <1>2, <1>8, <1>10, StorageFields, ConservedFacts
  <2> QED BY <1>8, <2>2, <2>4, <2>5, <2>6
<1>13. "whole" \in P => Issued(t, v) /\ Covers(t, 0)
  <2>1. OutsideAll(t) = OutsideAll(moved)
    BY <1>8 DEF OutsideAll, OutsideOf
  <2> QED BY <1>5, <1>8, <2>1 DEF Issued, Covers
<1>14. t \in Sound(P, v, 0)
  BY <1>8, <1>10, <1>11, <1>12, <1>13 DEF Sound
<1> QED BY <1>9, <1>14

\* on_asset_transfer after a transfer: shares change hands, a saving is made or
\* an IOU redeemed.
LEMMA SoundOnTransfer ==
    ASSUME NEW P, Stand(P), NEW v, NEW s, s \in Sound(P, v, 0), v = Filled(s.phase, s.quota),
           s.ok, ~s.mistracked,
           NEW a \in AssetId, NEW from \in AccountId, NEW to \in AccountId, NEW n \in Nat,
           "whole" \in P => from # CollectionAccountId,
           s.paused /\ a = ShareAssetId => "credited" \notin P,
           NEW moved, moved = make_transfer(s, a, from, to, n), moved.ok,
           NEW t, t = on_asset_transfer(moved, a, from, to, n)
    PROVE  t \in Broken \/ t \in Sound(P, Filled(t.phase, t.quota), 0)
<1>1. s \in StorageType /\ v \in [PhaseId -> Nat] /\ CollectionAccountId \in AccountId
  BY SoundFacts, StandFacts, PhaseNumbers
<1>2. moved.paused = s.paused
  BY <1>1, TransferCall
<1>3. ASSUME "credited" \in P => a # ShareAssetId \/ to = CollectionAccountId
      PROVE  /\ moved \in Sound(P, v, 0) /\ SameCount(s, moved)
             /\ to = CollectionAccountId /\ from # to /\ a \in IOUs \cup {CollectionAssetId} =>
                    moved \in Sound(P, v, n)
  <2>1. PICK i, j \in Nat : /\ i = (IF to = CollectionAccountId THEN n ELSE 0)
                            /\ j = (IF from = CollectionAccountId THEN n ELSE 0)
    OBVIOUS
  <2>2. Gain(a, from, to, n) = IF a \in IOUs \cup {CollectionAssetId} THEN i - j ELSE 0
    BY <2>1 DEF Gain
  <2>3. PICK g \in Int : g = Gain(a, from, to, n)
    BY <2>2
  <2>4. 0 + g \in Int /\ 0 + g <= 0 + g /\ 0 + g = g
    OBVIOUS
  <2>5. moved \in Sound(P, v, 0 + g) /\ LedgerCall(s, moved)
    BY <1>3, <2>3, <2>4, SoundTransfer
  <2>6. SameCount(s, moved)
    BY <2>5 DEF LedgerCall, SameBooks, SameCount
  <2>7. moved \in Sound(P, v, 0)
    <3>1. CASE "whole" \in P
      <4>1. 0 <= g
        BY <2>1, <2>2, <2>3, <3>1
      <4> QED BY <2>4, <2>5, <4>1, SoundLess
    <3>2. CASE "whole" \notin P
      BY <2>5, <3>2, SoundAnyCover
    <3> QED BY <3>1, <3>2
  <2>8. ASSUME to = CollectionAccountId, from # to, a \in IOUs \cup {CollectionAssetId}
        PROVE  moved \in Sound(P, v, n)
    <3>1. g = n
      BY <2>1, <2>2, <2>3, <2>8
    <3> QED BY <2>4, <2>5, <3>1
  <2> QED BY <2>6, <2>7, <2>8
<1>4. ASSUME NEW r, r \in Sound(P, v, 0), SameCount(s, r)
      PROVE  r \in Sound(P, Filled(r.phase, r.quota), 0)
  BY <1>4 DEF SameCount
<1>5. CASE from = to /\ a = ShareAssetId
  <2>1. moved = s
    <3>1. moved = [s EXCEPT !.free = Moved(@, a, from, to, n)]
      <4>1. moved = Fail(s) => ~moved.ok
        BY <1>1, FailFacts
      <4> QED BY <4>1 DEF make_transfer
    <3>2. Moved(s.free, a, from, to, n) = s.free
      BY <1>5 DEF Moved
    <3> QED BY <1>1, <3>1, <3>2 DEF StorageType
  <2>2. t = s
    BY <1>5, <2>1 DEF on_asset_transfer
  <2> QED BY <2>2
<1>6. CASE moved.paused /\ ~(from = to /\ a = ShareAssetId)
  <2>1. t = moved
    BY <1>6 DEF on_asset_transfer
  <2> QED BY <1>2, <1>3, <1>4, <1>6, <2>1
<1>7. CASE from = to /\ a # ShareAssetId
  <2>1. t = moved
    BY <1>7 DEF on_asset_transfer
  <2> QED BY <1>3, <1>4, <1>7, <2>1
<1>8. CASE ~moved.paused /\ from # to /\ a = ShareAssetId
  <2>1. t = track_share_asset_movement(moved, from, to, n)
    BY <1>8 DEF on_asset_transfer
  <2>2. t \in Sound(P, v, 0) /\ SameCount(s, t)
    BY <1>8, <2>1, SoundShareTransfer
  <2> QED BY <1>4, <2>2
<1>9. CASE ~moved.paused /\ from # to /\ a # ShareAssetId /\ to # CollectionAccountId
  <2>1. t = moved
    BY <1>9 DEF on_asset_transfer
  <2> QED BY <1>3, <1>4, <1>9, <2>1
<1>10. CASE ~moved.paused /\ from # to /\ a # ShareAssetId /\ to = CollectionAccountId
            /\ a = CollectionAssetId
  <2>1. PICK r : r = create_staking(moved, from, n)
    OBVIOUS
  <2>2. t = r.s
    BY <1>10, <2>1 DEF on_asset_transfer
  <2>3. moved \in Sound(P, Filled(moved.phase, moved.quota), n) /\ moved \in StorageType
    BY <1>3, <1>10, SoundFacts DEF SameCount
  <2>4. n \in Int
    OBVIOUS
  <2>5. r \in Stakes(P, n, n)
    BY <2>1, <2>3, <2>4, SoundCreateStaking
  <2>6. /\ r.taken \in Nat /\ r.rest \in Nat /\ r.taken + r.rest <= n
        /\ t \in Broken \/ t \in Sound(P, Filled(t.phase, t.quota), n - r.taken)
    BY <2>2, <2>5 DEF Stakes
  <2>7. PICK y \in Int : y = n - r.taken
    BY <2>6
  <2>8. 0 <= y
    BY <2>6, <2>7
  <2> QED BY <2>6, <2>7, <2>8, SoundLess
<1>11. CASE ~moved.paused /\ from # to /\ a # ShareAssetId /\ to = CollectionAccountId
            /\ a # CollectionAssetId /\ a \in IOUs
  <2>1. t = make_redeem(moved, a, from, n)
    BY <1>11 DEF on_asset_transfer, IOUs
  <2>2. moved \in Sound(P, v, n) /\ SameCount(s, moved) /\ n \in Int
    BY <1>3, <1>11
  <2>3. t \in Sound(P, v, n - n) /\ SameCount(moved, t)
    BY <1>1, <1>11, <2>1, <2>2, SoundRedeem
  <2>4. n - n = 0 /\ SameCount(s, t)
    BY <2>2, <2>3 DEF SameCount
  <2> QED BY <1>4, <2>3, <2>4
<1>12. CASE ~moved.paused /\ from # to /\ a # ShareAssetId /\ to = CollectionAccountId
            /\ a # CollectionAssetId /\ a \notin IOUs
  <2>1. t = moved
    BY <1>12 DEF on_asset_transfer, IOUs
  <2> QED BY <1>3, <1>4, <1>12, <2>1
<1> QED BY <1>5, <1>6, <1>7, <1>8, <1>9, <1>10, <1>11, <1>12

\* transfer, with both hooks.
LEMMA TransferKeepsBooks ==
    ASSUME SavingInv, NEW p \in Trade, NEW m \in Movement, transfer(m[1], p[1], p[2], m[2])
    PROVE  SavingInv'
<1> DEFINE more == (IF Paused /\ m[1] \in {ShareAssetId} \cup DOMAIN IOUAssetPhaseId
                    THEN {"untracked"} ELSE {})
                   \cup (IF p[1] = CollectionAccountId THEN {"root"} ELSE {})
           P == Standing(upset \cup more)
<1>1. PICK a, from, to, n : a = m[1] /\ from = p[1] /\ to = p[2] /\ n = m[2]
  OBVIOUS
<1>2. from \in AccountId /\ to \in AccountId
  BY <1>1, CallFacts
<1>3. a \in AssetId /\ n \in Nat
  <2>1. /\ m[1] \in {CollectionAssetId, ShareAssetId} \cup DOMAIN IOUAssetPhaseId
        /\ m[2] \in StakeAmount \cup ShareAmount \cup RedeemAmount
    BY DEF Movement
  <2>2. CollectionAssetId \in AssetId /\ ShareAssetId \in AssetId
    BY DEF SavingInv, Rules, Setting, ConfigOK
  <2>3. DOMAIN IOUAssetPhaseId \subseteq AssetId
    BY DEF SavingInv, Rules, Setting
  <2> QED BY <1>1, <2>1, <2>2, <2>3, CallFacts
<1>4. more \in SUBSET Upset
  BY DEF Upset
<1>5. PICK s, v : s = Storage /\ v = Filled(Storage.phase, Storage.quota)
  OBVIOUS
<1>6. /\ s \in Sound(P, v, 0) /\ Stand(P) /\ v = Filled(s.phase, s.quota) /\ s.ok /\ ~s.mistracked
      /\ s.paused = Paused
  <2> HIDE DEF more
  <2> QED BY <1>5, SoundStart, StorageIs
<1>7. /\ "whole" \in P => from # CollectionAccountId
      /\ s.paused /\ a = ShareAssetId => "credited" \notin P
  <2>1. from = CollectionAccountId => "root" \in more
    BY <1>1
  <2>2. s.paused /\ a = ShareAssetId => "untracked" \in more
    BY <1>1, <1>6
  <2>3. /\ "root" \in more => P \cap {"credited", "whole"} = {}
        /\ "untracked" \in more => "credited" \notin P
    <3> HIDE DEF more
    <3> QED BY StandingFacts DEF SavingInv
  <2> QED BY <2>1, <2>2, <2>3
<1> HIDE DEF P
<1>8. PICK moved, t : moved = make_transfer(s, a, from, to, n) /\ t = on_asset_transfer(moved, a, from, to, n)
  OBVIOUS
<1>9. moved.ok /\ Performed(t, more)
  BY <1>1, <1>5, <1>8 DEF transfer
<1> HIDE DEF more
<1>10. t \in Broken \/ t \in Sound(P, Filled(t.phase, t.quota), 0)
  BY <1>2, <1>3, <1>6, <1>7, <1>8, <1>9, SoundOnTransfer
<1> QED BY <1>4, <1>9, <1>10, Committed DEF P

\* Free balances that leave the books, and the IOUs, as they are.
FreeKept(P, s, v) ==
    {f \in Ledger : /\ [s EXCEPT !.free = f] \in Sound(P, v, 0)
                    /\ "whole" \in P => \A a \in IOUs : f[a] = s.free[a]}

\* One payment of the bonus.
LEMMA SoundPayBonus ==
    ASSUME NEW P, Stand(P), NEW v, NEW s \in StorageType, s.ok, NEW f \in FreeKept(P, s, v),
           should_exist(ProfitAssetId), can_do(ProfitAssetId, "Transferable"),
           NEW to \in AccountId, NEW n \in Nat
    PROVE  PayBonus(f, to, n) \in FreeKept(P, s, v)
<1>1. /\ f \in Ledger /\ [s EXCEPT !.free = f] \in Sound(P, v, 0) /\ ProfitAssetId \in AssetId
      /\ ProfitPool \in AccountId
  BY DEF FreeKept, Stand, Setting, ConfigOK
<1>2. CASE ~(n <= f[ProfitAssetId][ProfitPool])
  BY <1>2 DEF PayBonus
<1>3. CASE n <= f[ProfitAssetId][ProfitPool]
  <2>1. PICK r : r = [s EXCEPT !.free = f]
    OBVIOUS
  <2>2. r \in Sound(P, v, 0) /\ r.free = f /\ r.ok
    BY <1>1, <2>1 DEF StorageType
  <2>3. PICK t : t = make_transfer(r, ProfitAssetId, ProfitPool, to, n)
    OBVIOUS
  <2>4. PICK g : g = Moved(f, ProfitAssetId, ProfitPool, to, n)
    OBVIOUS
  <2>5. t = [r EXCEPT !.free = g]
    BY <1>3, <2>2, <2>3, <2>4 DEF make_transfer
  <2>6. t = [s EXCEPT !.free = g]
    BY <2>1, <2>5 DEF StorageType
  <2>7. t \in Sound(P, v, 0)
    <3>1. PICK i, j \in Nat : /\ i = (IF to = CollectionAccountId THEN n ELSE 0)
                              /\ j = (IF ProfitPool = CollectionAccountId THEN n ELSE 0)
      OBVIOUS
    <3>2. Gain(ProfitAssetId, ProfitPool, to, n)
              = IF ProfitAssetId \in IOUs \cup {CollectionAssetId} THEN i - j ELSE 0
      BY <3>1 DEF Gain
    <3>3. PICK y \in Int : y = Gain(ProfitAssetId, ProfitPool, to, n)
      BY <3>2
    <3>4. 0 + y = y /\ y <= 0 + y
      OBVIOUS
    <3>5. "credited" \in P => ProfitAssetId # ShareAssetId
      BY StandFacts, OrderlyFacts
    <3>6. t \in Sound(P, v, y)
      BY <1>1, <2>2, <2>3, <3>3, <3>4, <3>5, SoundTransfer
    <3>7. CASE "whole" \in P
      <4>1. ProfitAssetId \notin IOUs \cup {CollectionAssetId}
        BY <3>7, StandFacts, OrderlyFacts
      <4>2. y = 0
        BY <3>2, <3>3, <4>1
      <4> QED BY <3>6, <4>2
    <3>8. CASE "whole" \notin P
      BY <3>6, <3>8, SoundAnyCover
    <3> QED BY <3>7, <3>8
  <2>8. t \in StorageType /\ t.free = g
    BY <2>6, <2>7, SoundFacts DEF StorageType
  <2>9. g \in Ledger
    BY <2>8, StorageFields
  <2>10. PayBonus(f, to, n) = g
    BY <1>3, <2>4 DEF PayBonus
  <2>11. ASSUME "whole" \in P, NEW a \in IOUs PROVE g[a] = s.free[a]
    <3>1. a # ProfitAssetId /\ a \in AssetId /\ f[a] = s.free[a]
      BY <2>11, StandFacts, OrderlyFacts DEF FreeKept
    <3>2. g[a] = f[a]
      BY <1>1, <2>4, <3>1 DEF Moved, Ledger
    <3> QED BY <3>1, <3>2
  <2> QED BY <2>6, <2>7, <2>9, <2>10, <2>11 DEF FreeKept
<1> QED BY <1>2, <1>3

\* What the team gets.
LEMMA TeamShare ==
    ASSUME NEW total \in Balance
    PROVE  Wrap(total * 8) \div 10 \in Nat /\ total - (Wrap(total * 8) \div 10) \in Nat
<1>1. total \in Nat /\ MaxBalance \in Nat
  BY MaxBalanceAssumption DEF Balance
<1>2. PICK e \in Nat : e = total * 8
  BY <1>1
<1>3. Wrap(e) \in Nat /\ Wrap(e) <= e
  BY <1>1 DEF Wrap
<1>4. PICK w \in Nat : w = Wrap(e)
  BY <1>3
<1>5. w \div 10 \in Nat /\ total - (w \div 10) \in Nat
  BY <1>1, <1>2, <1>3, <1>4
<1> QED BY <1>2, <1>4, <1>5

\* dispatch_bonus, whatever the order of the accounts.
LEMMA SoundBonus ==
    ASSUME SavingInv, dispatch_bonus, NEW P, P = Standing(upset)
    PROVE  FreeBalance' \in FreeKept(P, Storage, Filled(CurrentPhaseId, QuotaUsed))
<1> DEFINE total == FreeBalance[ProfitAssetId][ProfitPool]
           users == Wrap(total * 8) \div 10
           v     == Filled(CurrentPhaseId, QuotaUsed)
           S     == FreeKept(P, Storage, v)
<1>1. /\ Storage \in Sound(P, v, 0) /\ Stand(P) /\ Storage \in StorageType
      /\ Storage.ok /\ Storage.free = FreeBalance /\ Storage.shares = AccountShares
      /\ Storage.circulation = SharesCirculation
  <2>1. Storage \in Sound(P, v, 0) /\ Stand(P)
    <3>1. upset \cup {} = upset
      OBVIOUS
    <3> QED BY <3>1, StandingFacts DEF SavingInv, Books
  <2> QED BY <2>1, SoundFacts, StorageIs
<1>2. /\ FreeBalance \in Ledger /\ ProfitAssetId \in AssetId /\ ProfitPool \in AccountId
      /\ TeamAccountId \in AccountId /\ AccountShares \in Maps(Balance) /\ SharesCirculation \in Nat
  BY <1>1, StorageFields DEF Stand, Setting, ConfigOK
<1>3. FreeBalance \in S
  <2>1. PICK r : r = Storage
    OBVIOUS
  <2>2. r \in StorageType /\ r.free = FreeBalance
    BY <1>1, <2>1
  <2>3. [r EXCEPT !.free = FreeBalance] = r
    BY <2>2 DEF StorageType
  <2> QED BY <1>1, <1>2, <2>1, <2>2, <2>3 DEF FreeKept
<1>4. users \in Nat /\ total - users \in Nat
  <2>1. total \in Balance
    BY <1>2 DEF Ledger
  <2> HIDE DEF total
  <2> QED BY <2>1, TeamShare
<1>5. PICK order \in SetToSeqs(DOMAIN AccountShares) : FreeBalance' = BonusDispatched(order)
  BY DEF dispatch_bonus
<1> DEFINE n == Len(order)
           bonus(w) == Wrap(AccountShares[w] * users) \div SharesCirculation
           first == PayBonus(FreeBalance, TeamAccountId, total - users)
           step(f, k) == PayBonus(f, order[k], bonus(order[k]))
           F == [k \in 1 .. n |-> [f \in S |-> step(f, k)]]
           IsIt(g) == g = [k \in 0 .. n |-> IF k = 0 THEN first ELSE step(g[k - 1], k)]
           paid == CHOOSE g : IsIt(g)
<1>6. FreeBalance' = IF should_exist(ProfitAssetId) /\ can_do(ProfitAssetId, "Transferable")
                     THEN paid[n] ELSE FreeBalance
  BY <1>5 DEF BonusDispatched
<1>7. n \in Nat /\ \A k \in 1 .. n : order[k] \in DOMAIN AccountShares
  <2>1. PICK D : D = DOMAIN AccountShares
    OBVIOUS
  <2>2. D \subseteq AccountId
    BY <1>2, <2>1, MapFacts
  <2>3. PICK c \in Nat : c = Cardinality(D)
    BY <2>2, AccountAssumption, FS_Subset, FS_CardinalityType
  <2>4. order \in [1 .. c -> D]
    BY <1>5, <2>1, <2>3 DEF SetToSeqs
  <2>5. n = c
    <3>1. order \in Seq(D)
      BY <2>4, IsASeq
    <3>2. DOMAIN order = 1 .. c /\ DOMAIN order = 1 .. n /\ n \in Nat
      BY <2>4, <3>1, LenProperties
    <3> QED BY <3>2
  <2> QED BY <2>1, <2>4, <2>5
<1> HIDE DEF n, users, total
<1>8. ASSUME should_exist(ProfitAssetId), can_do(ProfitAssetId, "Transferable")
      PROVE  paid[n] \in S
  <2>1. first \in S
    BY <1>1, <1>2, <1>3, <1>4, <1>8, SoundPayBonus
  <2>2. ASSUME NEW k \in 1 .. n, NEW f \in S PROVE step(f, k) \in S
    <3>1. PICK w : w = order[k]
      OBVIOUS
    <3>2. w \in DOMAIN AccountShares /\ w \in AccountId /\ AccountShares[w] \in Balance
      BY <1>2, <1>7, <3>1, MapFacts
    <3>3. SharesCirculation \in Nat \ {0}
      BY <1>2, <3>2 DEF dispatch_bonus, BonusPanics
    <3>4. bonus(w) \in Nat
      <4>1. AccountShares[w] \in Nat
        BY <3>2, MaxBalanceAssumption DEF Balance
      <4>2. PICK e \in Nat : e = AccountShares[w] * users
        BY <1>4, <4>1, ProductIsNat
      <4>3. Wrap(e) \in Nat
        BY WrapInt, MaxBalanceAssumption DEF Balance
      <4>4. Wrap(e) \div SharesCirculation \in Nat
        BY <3>3, <4>3
      <4> QED BY <4>2, <4>4
    <3> HIDE DEF bonus, v
    <3>5. PayBonus(f, w, bonus(w)) \in S
      BY <1>1, <1>8, <3>2, <3>4, SoundPayBonus
    <3> QED BY <3>1, <3>5
  <2> HIDE DEF S, first
  <2>3. F \in [1 .. n -> [S -> S]]
    <3> HIDE DEF step
    <3> QED BY <2>2
  <2>4. \E g : IsIt(g)
    <3> HIDE DEF F
    <3>1. PICK f \in [0 .. n -> S] : IsRun(f, F, first, n)
      BY <1>7, <2>1, <2>3, RunExists
    <3>2. /\ f[0] = first
          /\ \A k \in 1 .. n : f[k] = F[k][f[k - 1]] /\ f[k - 1] \in S
      <4>1. \A k \in 1 .. n : k - 1 \in 0 .. n
        BY <1>7
      <4> QED BY <3>1, <4>1 DEF IsRun
    <3> HIDE DEF step
    <3>3. \A k \in 1 .. n : f[k] = step(f[k - 1], k)
      BY <3>2 DEF F
    <3>4. \A k \in 0 .. n : f[k] = IF k = 0 THEN first ELSE step(f[k - 1], k)
      <4>1. \A k \in 0 .. n : k # 0 => k \in 1 .. n
        BY <1>7
      <4> QED BY <3>2, <3>3, <4>1
    <3>5. IsIt(f)
      BY <3>1, <3>4
    <3> QED BY <3>5
  <2>5. IsIt(paid)
    <3> HIDE DEF IsIt
    <3> QED BY <2>4
  <2> HIDE DEF paid, step, F
  <2>6. paid[0] = first /\ \A k \in 1 .. n : paid[k] = step(paid[k - 1], k)
    <3>1. 0 \in 0 .. n /\ \A k \in 1 .. n : k \in 0 .. n /\ k # 0
      BY <1>7
    <3> QED BY <2>5, <3>1
  <2>7. \A k \in 1 .. n : paid[k - 1] \in S => paid[k] \in S
    BY <2>2, <2>6
  <2>8. \A k \in 0 .. n : paid[k] \in S
    BY <1>7, <2>1, <2>6, <2>7, StepsStay
  <2> QED BY <1>7, <2>8
<1> QED BY <1>3, <1>6, <1>8

\* A step after which the storage is sound under the rules it finds.
LEMMA BooksKept ==
    ASSUME ReservedBalance' = ReservedBalance, NEW Q, Q = Standing(upset'),
           \/ config' = config /\ PhaseIOU' = PhaseIOU /\ IOUAssetPhaseId' = IOUAssetPhaseId
           \/ Q \cap {"credited", "whole"} = {},
           NEW t, t = Storage', t \in Sound(Q, Filled(t.phase, t.quota), 0)
    PROVE  Books'
<1>1. PICK v : v = Filled(t.phase, t.quota)
  OBVIOUS
<1>2. Sound(Q, v, 0)' = Sound(Q, v, 0)
  BY SoundFrame, SoundRoot
<1>3. t.phase = CurrentPhaseId' /\ t.quota = QuotaUsed'
  BY DEF Storage
<1>4. Standing(upset)' = Q
  BY DEF Standing
<1>5. Filled(CurrentPhaseId, QuotaUsed)' = v
  BY <1>1, <1>3
<1> QED BY <1>1, <1>2, <1>4, <1>5 DEF Books

\* The storage, when the variables it is made of stay.
LEMMA SameStorage ==
    ASSUME UNCHANGED <<TotalIssuance, phaseVars, shareVars>>
    PROVE  /\ Storage' = [issuance |-> TotalIssuance, free |-> FreeBalance',
                          collected |-> ShareAssetCollected, phase |-> CurrentPhaseId,
                          quota |-> QuotaUsed, left |-> NumOfPhasesLeft,
                          list |-> ShareUnreleasedList, shares |-> AccountShares,
                          circulation |-> SharesCirculation, paused |-> Paused',
                          ok |-> TRUE, panicked |-> FALSE, mistracked |-> FALSE]
           /\ FreeBalance' = FreeBalance /\ Paused' = Paused => Storage' = Storage
  BY DEF Storage, phaseVars, shareVars

\* A step that moves neither balances nor books.
LEMMA NothingMoves ==
    ASSUME SavingInv,
           UNCHANGED <<TotalIssuance, FreeBalance, ReservedBalance, phaseVars, shareVars>>,
           Paused' \in BOOLEAN, NEW u, upset' = upset \cup u,
           \/ config' = config /\ PhaseIOU' = PhaseIOU /\ IOUAssetPhaseId' = IOUAssetPhaseId
           \/ "root" \in u
    PROVE  Books'
<1> DEFINE Q == Standing(upset \cup u)
<1>1. PICK s, t : s = Storage /\ t = Storage'
  OBVIOUS
<1>2. s \in Sound(Q, Filled(s.phase, s.quota), 0) /\ s \in StorageType /\ s.ok /\ ~s.mistracked
      /\ ShareAssetId \in AssetId
  BY <1>1, SoundStart, StorageIs, StandFacts
<1>3. Alike(s, t)
  <2>1. /\ t.issuance = s.issuance /\ t.free = s.free /\ t.collected = s.collected
        /\ t.phase = s.phase /\ t.quota = s.quota /\ t.left = s.left /\ t.list = s.list
        /\ t.shares = s.shares /\ t.circulation = s.circulation
        /\ t = [issuance |-> s.issuance, free |-> s.free, collected |-> s.collected,
             phase |-> s.phase, quota |-> s.quota, left |-> s.left, list |-> s.list,
             shares |-> s.shares, circulation |-> s.circulation, paused |-> Paused',
             ok |-> TRUE, panicked |-> FALSE, mistracked |-> FALSE]
    BY <1>1, SameStorage, StorageIs
  <2>2. t \in StorageType
    BY <1>2, <2>1, StorageFields DEF StorageType
  <2> QED BY <2>1, <2>2 DEF Alike
<1>4. t \in Sound(Q, Filled(t.phase, t.quota), 0)
  <2>1. Q \in SUBSET Q
    OBVIOUS
  <2> HIDE DEF Q
  <2>2. t \in Sound(Q, Filled(s.phase, s.quota), 0)
    BY <1>2, <1>3, <2>1, SoundLike
  <2> QED BY <1>3, <2>2 DEF Alike
<1>5. "root" \in u => Q \cap {"credited", "whole"} = {}
  BY StandingFacts DEF SavingInv
<1>6. PICK q : q = Q
  OBVIOUS
<1>7. q = Standing(upset')
  BY <1>6
<1> QED BY <1>1, <1>4, <1>5, <1>6, <1>7, BooksKept

\* A step that pays the bonus.
LEMMA BonusMoves ==
    ASSUME SavingInv, dispatch_bonus,
           UNCHANGED <<TotalIssuance, ReservedBalance, rootVars, phaseVars, shareVars, Paused, upset>>
    PROVE  Books' /\ FreeBalance' \in Ledger
<1>1. PICK s, t, f, q : s = Storage /\ t = Storage' /\ f = FreeBalance' /\ q = Standing(upset)
  OBVIOUS
<1>2. f \in FreeKept(q, s, Filled(CurrentPhaseId, QuotaUsed))
  BY <1>1, SoundBonus
<1>3. f \in Ledger /\ [s EXCEPT !.free = f] \in Sound(q, Filled(s.phase, s.quota), 0)
  BY <1>1, <1>2, StorageIs DEF FreeKept
<1>4. t = [s EXCEPT !.free = f]
  <2> DEFINE r == [issuance |-> s.issuance, free |-> f, collected |-> s.collected,
                   phase |-> s.phase, quota |-> s.quota, left |-> s.left, list |-> s.list,
                   shares |-> s.shares, circulation |-> s.circulation, paused |-> s.paused,
                   ok |-> s.ok, panicked |-> s.panicked, mistracked |-> s.mistracked]
  <2>1. s \in StorageType
    BY <1>1, SoundFacts DEF SavingInv, Books
  <2>2. [s EXCEPT !.free = f] = r
    BY <2>1 DEF StorageType
  <2>3. t = r
    BY <1>1, SameStorage, StorageIs
  <2> QED BY <2>2, <2>3
<1>5. t.phase = s.phase /\ t.quota = s.quota
  BY <1>1, SameStorage, StorageIs
<1>6. t \in Sound(q, Filled(t.phase, t.quota), 0)
  BY <1>3, <1>4, <1>5
<1>7. q = Standing(upset')
  BY <1>1
<1>8. config' = config /\ PhaseIOU' = PhaseIOU /\ IOUAssetPhaseId' = IOUAssetPhaseId
  BY DEF rootVars
<1> QED BY <1>1, <1>3, <1>6, <1>7, <1>8, BooksKept

\* Calls of root.
LEMMA ConfigureKeeps ==
    ASSUME SavingInv, Configure
    PROVE  SavingInv'
<1>1. /\ Setting /\ AssetsTypeOK /\ ConfigOK /\ upset \subseteq Upset /\ Rules
      /\ Symbols \subseteq AssetId
  BY DEF SavingInv, Rules, Setting, AssetsTypeOK
<1>2. ASSUME NEW b \in BOOLEAN, Switch(b) PROVE SavingInv'
  <2>1. /\ UNCHANGED <<assetVars, rootVars, phaseVars, shareVars, clockVars, upset>>
        /\ Paused' \in BOOLEAN
    BY <1>2 DEF Switch
  <2>2. UNCHANGED <<TotalIssuance, FreeBalance, ReservedBalance, phaseVars, shareVars>>
        /\ config' = config /\ PhaseIOU' = PhaseIOU /\ IOUAssetPhaseId' = IOUAssetPhaseId
        /\ UNCHANGED <<ledgerRules, rootVars, clockVars>> /\ upset' = upset \cup {}
    BY <2>1 DEF assetVars, balanceVars, rootVars, ledgerRules
  <2>3. Books'
    BY <2>1, <2>2, NothingMoves
  <2>4. TotalIssuance' \in [AssetId -> Balance] /\ FreeBalance' \in Ledger
    BY <1>1, <2>2 DEF AssetsTypeOK, Ledger
  <2>5. Rules'
    <3>1. {} \in SUBSET Upset
      OBVIOUS
    <3> QED BY <1>1, <2>2, <2>4, <3>1, RulesFrame
  <2> QED BY <2>3, <2>5 DEF SavingInv
<1>3. ASSUME UNCHANGED <<assetVars, phaseVars, shareVars, Paused, clockVars>>
      PROVE  /\ UNCHANGED <<TotalIssuance, FreeBalance, ReservedBalance, phaseVars, shareVars>>
             /\ Paused' \in BOOLEAN /\ AssetsTypeOK' /\ price' \in Nat
             /\ now' \in 0 .. MaxTime /\ LastBonusTime' \in 0 .. now'
  <2>1. /\ TotalIssuance' = TotalIssuance /\ FreeBalance' = FreeBalance
        /\ ReservedBalance' = ReservedBalance /\ Permissions' = Permissions
        /\ Restrictions' = Restrictions /\ Symbols' = Symbols /\ FromId' = FromId /\ ToId' = ToId
        /\ rootKey' = rootKey /\ price' = price /\ now' = now /\ LastBonusTime' = LastBonusTime
        /\ Paused' = Paused
    BY <1>3 DEF assetVars, balanceVars, contextVars, clockVars
  <2>2. Paused \in BOOLEAN
    <3>1. Storage \in StorageType
      BY SoundFacts DEF SavingInv, Books
    <3> QED BY <3>1, StorageFields, StorageIs
  <2>3. AssetsTypeOK'
    BY <1>1, <2>1 DEF AssetsTypeOK
  <2>4. price' \in Nat /\ now' \in 0 .. MaxTime /\ LastBonusTime' \in 0 .. now'
    BY <2>1 DEF SavingInv, Rules, Setting
  <2> QED BY <1>3, <2>1, <2>2, <2>3, <2>4
<1>4. ASSUME NEW item \in Items, NEW value, Set(item, value),
             value \in IF item \in {"CollectionAssetId", "ShareAssetId", "ProfitAssetId"}
                       THEN AssetId ELSE AccountId
      PROVE  SavingInv'
  <2>1. /\ UNCHANGED <<assetVars, phaseVars, shareVars, Paused, clockVars>>
        /\ config' = [config EXCEPT ![item] = value] /\ PhaseIOU' = PhaseIOU
        /\ IOUAssetPhaseId' = IOUAssetPhaseId
        /\ upset' = IF value = config[item] THEN upset ELSE upset \cup {"root"}
    BY <1>4 DEF Set
  <2>2. PICK u \in SUBSET Upset : upset' = upset \cup u /\ (config' = config \/ "root" \in u)
    <3>1. CASE value = config[item]
      <4>1. config' = config
        BY <1>1, <2>1, <3>1 DEF ConfigOK
      <4>2. upset' = upset \cup {} /\ {} \in SUBSET Upset
        BY <2>1, <3>1
      <4> QED BY <4>1, <4>2
    <3>2. CASE value # config[item]
      <4>1. upset' = upset \cup {"root"} /\ {"root"} \in SUBSET Upset
        BY <2>1, <3>2 DEF Upset
      <4> QED BY <4>1
    <3> QED BY <3>1, <3>2
  <2>3. Books'
    BY <1>3, <2>1, <2>2, NothingMoves
  <2>4. ConfigOK'
    <3>1. config \in [Items -> AssetId \cup AccountId]
          /\ {config.CollectionAssetId, config.ShareAssetId, config.ProfitAssetId} \subseteq AssetId
          /\ {config.CollectionAccountId, config.ProfitPool, config.TeamAccountId} \subseteq AccountId
      BY <1>1 DEF ConfigOK, CollectionAssetId, ShareAssetId, ProfitAssetId, CollectionAccountId,
                  ProfitPool, TeamAccountId
    <3>2. config' \in [Items -> AssetId \cup AccountId]
      BY <1>4, <2>1, <3>1
    <3>3. \A i \in Items : config'[i] = IF i = item THEN value ELSE config[i]
      BY <2>1, <3>1
    <3>4. /\ {config'["CollectionAssetId"], config'["ShareAssetId"], config'["ProfitAssetId"]}
                 \subseteq AssetId
          /\ {config'["CollectionAccountId"], config'["ProfitPool"], config'["TeamAccountId"]}
                 \subseteq AccountId
      BY <1>4, <3>1, <3>3 DEF Items
    <3> QED BY <3>2, <3>4 DEF ConfigOK, CollectionAssetId, ShareAssetId, ProfitAssetId,
                              CollectionAccountId, ProfitPool, TeamAccountId
  <2>5. Setting'
    BY <1>1, <1>3, <2>1, <2>4 DEF Setting
  <2>6. upset' \subseteq Upset /\ ("root" \notin upset' => Orderly')
    BY <1>1, <2>1, <2>2 DEF Rules, Orderly
  <2>7. now' \in 0 .. MaxTime /\ LastBonusTime' \in 0 .. now'
    BY <1>3, <2>1
  <2> QED BY <2>3, <2>5, <2>6, <2>7 DEF SavingInv, Rules
<1>5. ASSUME NEW m \in NewIOU, set_iou_asset_id_for_phase(m[1], m[2]) PROVE SavingInv'
  <2>1. PICK p \in PhaseId, a \in AssetId : p = m[1] /\ a = m[2]
    BY CallAssumption
  <2>2. /\ UNCHANGED <<assetVars, config, phaseVars, shareVars, Paused, clockVars>>
        /\ PhaseIOU' = [PhaseIOU EXCEPT ![p] = a] /\ IOUAssetPhaseId' = Put(IOUAssetPhaseId, a, p)
        /\ upset' = upset \cup {"root"}
    BY <1>5, <2>1 DEF set_iou_asset_id_for_phase
  <2>3. UNCHANGED <<assetVars, phaseVars, shareVars, Paused, clockVars>> /\ config' = config
    BY <2>2
  <2>4. Books'
    BY <1>3, <2>2, <2>3, NothingMoves
  <2>5. ConfigOK'
    BY <1>1, <2>3 DEF ConfigOK, CollectionAssetId, ShareAssetId, ProfitAssetId,
              CollectionAccountId, ProfitPool, TeamAccountId
  <2>6. PhaseIOU' \in [PhaseId -> AssetId]
    BY <1>1, <2>2 DEF Setting
  <2>7. IOUAssetPhaseId' \in UNION {[A -> PhaseId] : A \in SUBSET AssetId}
    <3>1. PICK A \in SUBSET AssetId : IOUAssetPhaseId \in [A -> PhaseId]
      BY <1>1 DEF Setting
    <3>2. IOUAssetPhaseId' \in [A \cup {a} -> PhaseId]
      BY <2>2, <3>1 DEF Put
    <3>3. A \cup {a} \in SUBSET AssetId
      OBVIOUS
    <3> QED BY <3>2, <3>3
  <2>8. Setting'
    BY <1>3, <2>3, <2>5, <2>6, <2>7 DEF Setting
  <2>9. upset' \subseteq Upset /\ "root" \in upset'
    BY <1>1, <2>2 DEF Upset
  <2> QED BY <1>3, <2>3, <2>4, <2>8, <2>9 DEF SavingInv, Rules
<1>6. CASE force_release_bonus
  <2>1. dispatch_bonus /\ UNCHANGED <<TotalIssuance, ledgerRules, savingVars>>
    BY <1>6 DEF force_release_bonus
  <2>2. UNCHANGED <<TotalIssuance, ReservedBalance, rootVars, phaseVars, shareVars, Paused, upset>>
        /\ UNCHANGED <<ledgerRules, rootVars, clockVars>>
    BY <2>1 DEF ledgerRules, savingVars
  <2>3. Books' /\ FreeBalance' \in Ledger
    BY <2>1, <2>2, BonusMoves
  <2>4. TotalIssuance' \in [AssetId -> Balance]
    BY <1>1, <2>2 DEF AssetsTypeOK
  <2>5. Rules'
    <3>1. {} \in SUBSET Upset /\ upset' = upset \cup {}
      BY <2>2
    <3> QED BY <1>1, <2>2, <2>3, <2>4, <3>1, RulesFrame
  <2> QED BY <2>3, <2>5 DEF SavingInv
<1>7. \A w \in NewCollectionAccount \cup NewAccount : w \in AccountId
  BY CallAssumption
<1>8. \A a : should_exist(a) => a \in AssetId
  BY <1>1 DEF should_exist
<1>9. CASE pause \/ resume
  BY <1>2, <1>9 DEF pause, resume
<1>10. CASE \E a \in NewShareAsset : set_share_asset_id(a)
  BY <1>4, <1>8, <1>10 DEF set_share_asset_id, Items
<1>11. CASE \E a \in NewCollectionAsset : set_collection_asset_id(a)
  BY <1>4, <1>8, <1>11 DEF set_collection_asset_id, Items
<1>12. CASE \E a \in NewProfitAsset : set_profit_asset_id(a)
  BY <1>4, <1>8, <1>12 DEF set_profit_asset_id, Items
<1>13. CASE \E w \in NewCollectionAccount : set_collection_account(w)
  BY <1>4, <1>7, <1>13 DEF set_collection_account, Items
<1>14. CASE \E w \in NewAccount : set_profit_pool(w) \/ set_team_account_id(w)
  BY <1>4, <1>7, <1>14 DEF set_profit_pool, set_team_account_id, Items
<1>15. CASE \E m \in NewIOU : set_iou_asset_id_for_phase(m[1], m[2])
  BY <1>5, <1>15
<1> QED BY <1>6, <1>9, <1>10, <1>11, <1>12, <1>13, <1>14, <1>15 DEF Configure

\* on_initialize and the timestamp.
LEMMA NewBlockKeeps ==
    ASSUME SavingInv, NEW elapsed \in 0 .. 1, NewBlock(elapsed)
    PROVE  SavingInv'
<1>1. /\ UNCHANGED <<TotalIssuance, ledgerRules, rootVars, phaseVars, shareVars, Paused, price, upset>>
      /\ now' = now + elapsed /\ now + elapsed <= MaxTime
      /\ Rules /\ Setting /\ AssetsTypeOK /\ ConfigOK
  BY DEF NewBlock, SavingInv, Rules, Setting
<1>2. /\ ReservedBalance' = ReservedBalance /\ Permissions' = Permissions
      /\ Restrictions' = Restrictions /\ Symbols' = Symbols /\ FromId' = FromId /\ ToId' = ToId
      /\ rootKey' = rootKey /\ config' = config /\ PhaseIOU' = PhaseIOU
      /\ IOUAssetPhaseId' = IOUAssetPhaseId /\ price' = price /\ TotalIssuance' = TotalIssuance
      /\ upset' = upset /\ Paused' = Paused
  BY <1>1 DEF ledgerRules, rootVars, contextVars
<1>3. Books' /\ FreeBalance' \in Ledger
  <2>1. CASE dispatch_bonus
    BY <1>1, <1>2, <2>1, BonusMoves
  <2>2. CASE UNCHANGED FreeBalance
    <3>1. upset' = upset \cup {} /\ FreeBalance' \in Ledger
      BY <1>1, <1>2, <2>2 DEF AssetsTypeOK, Ledger
    <3>2. Paused' \in BOOLEAN
      <4>1. Storage \in StorageType
        BY SoundFacts DEF SavingInv, Books
      <4> QED BY <1>2, <4>1, StorageFields, StorageIs
    <3> QED BY <1>1, <1>2, <2>2, <3>1, <3>2, NothingMoves
  <2> QED BY <2>1, <2>2 DEF NewBlock
<1>4. now' \in 0 .. MaxTime /\ LastBonusTime' \in 0 .. now'
  <2>1. /\ now \in Nat /\ now <= MaxTime /\ LastBonusTime \in Nat /\ LastBonusTime <= now
        /\ MaxTime \in Nat /\ DAY \in Nat \ {0} /\ elapsed \in Nat
    BY <1>1, SavingAssumption DEF Rules
  <2>2. PICK d \in Nat : d = (now \div DAY) * DAY /\ d <= now
    <3>1. PICK q \in Nat : q = now \div DAY
      BY <2>1
    <3>2. q * DAY <= now
      BY <2>1, <3>1
    <3>3. q * DAY \in Nat
      BY <2>1, ProductIsNat
    <3> QED BY <3>1, <3>2, <3>3
  <2>3. LastBonusTime' \in {LastBonusTime, d} \/ (LastBonusTime' = LastBonusTime + DAY /\ now - LastBonusTime >= DAY)
    BY <2>2 DEF NewBlock, NextBonusTime, BonusIsDue
  <2> QED BY <1>1, <2>1, <2>2, <2>3
<1>5. AssetsTypeOK'
  BY <1>1, <1>2, <1>3 DEF AssetsTypeOK, Ledger
<1>6. ConfigOK'
  BY <1>1, <1>2 DEF ConfigOK, CollectionAssetId, ShareAssetId, ProfitAssetId,
              CollectionAccountId, ProfitPool, TeamAccountId
<1>7. Setting' /\ upset' \subseteq Upset /\ ("root" \notin upset' => Orderly')
  BY <1>1, <1>2, <1>5, <1>6 DEF Setting, Rules, Orderly
<1> QED BY <1>3, <1>4, <1>7 DEF SavingInv, Rules

\* The price and the rules of the ledger change, the books do not.
LEMMA EnvironmentKeeps ==
    ASSUME SavingInv, Environment
    PROVE  SavingInv'
<1>1. Rules /\ Setting /\ AssetsTypeOK /\ ConfigOK /\ price \in Nat
  BY DEF SavingInv, Rules, Setting
<1>2. Paused \in BOOLEAN
  <2>1. Storage \in StorageType
    BY SoundFacts DEF SavingInv, Books
  <2> QED BY <2>1, StorageFields, StorageIs
<1>3. ASSUME UNCHANGED <<balanceVars, rootVars, phaseVars, shareVars, Paused, LastBonusTime, now, upset>>,
             AssetsTypeOK', price' \in Nat
      PROVE  SavingInv'
  <2>1. /\ UNCHANGED <<TotalIssuance, FreeBalance, ReservedBalance, phaseVars, shareVars>>
        /\ config' = config /\ PhaseIOU' = PhaseIOU /\ IOUAssetPhaseId' = IOUAssetPhaseId
        /\ upset' = upset /\ Paused' = Paused /\ LastBonusTime' = LastBonusTime /\ now' = now
    BY <1>3 DEF balanceVars, rootVars
  <2>2. upset' = upset \cup {}
    BY <2>1
  <2>3. Books'
    BY <1>2, <2>1, <2>2, NothingMoves
  <2>4. ConfigOK'
    BY <1>1, <2>1 DEF ConfigOK, CollectionAssetId, ShareAssetId, ProfitAssetId,
                CollectionAccountId, ProfitPool, TeamAccountId
  <2>5. Setting' /\ upset' \subseteq Upset /\ ("root" \notin upset' => Orderly')
    BY <1>1, <1>3, <2>1, <2>4 DEF Setting, Rules, Orderly
  <2>6. now' \in 0 .. MaxTime /\ LastBonusTime' \in 0 .. now'
    BY <1>1, <2>1 DEF Rules
  <2> QED BY <2>3, <2>5, <2>6 DEF SavingInv, Rules
<1>4. ASSUME NEW p \in BTCPrice, price' = p,
             UNCHANGED <<assetVars, rootVars, phaseVars, shareVars, Paused, LastBonusTime, now, upset>>
      PROVE  SavingInv'
  <2>1. price' \in Nat
    BY <1>4, CallAssumption
  <2>2. UNCHANGED assetVars
    BY <1>4
  <2>3. AssetsTypeOK'
    BY <1>1, <2>2 DEF AssetsTypeOK, assetVars, balanceVars, contextVars
  <2> QED BY <1>3, <1>4, <2>1, <2>3 DEF assetVars
<1>5. ASSUME UNCHANGED savingVars
      PROVE  UNCHANGED <<rootVars, phaseVars, shareVars, Paused, LastBonusTime, now, upset>> /\ price' = price
  BY <1>5 DEF savingVars, clockVars
<1>6. ASSUME NEW a, NEW p \in NewPermission, UpdatePermission(a, p), UNCHANGED savingVars
      PROVE  SavingInv'
  <2>1. AssetsTypeOK'
    BY <1>1, <1>6, PermissionAssumption DEF AssetsTypeOK, UpdatePermission, balanceVars, contextVars
  <2> QED BY <1>1, <1>3, <1>5, <1>6, <2>1 DEF UpdatePermission
<1>7. ASSUME NEW a, NEW b \in BOOLEAN, UpdateRestriction(a, "Transferable", b), UNCHANGED savingVars
      PROVE  SavingInv'
  <2>1. AssetsTypeOK'
    <3>1. Restrictions' \in [AssetId -> SUBSET Restriction]
      BY <1>1, <1>7 DEF AssetsTypeOK, UpdateRestriction, Restriction
    <3> QED BY <1>1, <1>7, <3>1 DEF AssetsTypeOK, UpdateRestriction, balanceVars, contextVars
  <2> QED BY <1>1, <1>3, <1>5, <1>7, <2>1 DEF UpdateRestriction
<1> QED BY <1>4, <1>6, <1>7 DEF Environment

\* Every step keeps the invariant.
LEMMA SavingStep == SavingInv /\ [SavingNext]_vars => SavingInv'
<1> SUFFICES ASSUME SavingInv, [SavingNext]_vars PROVE SavingInv'
  OBVIOUS
<1>1. CASE Configure
  BY <1>1, ConfigureKeeps
<1>2. CASE \E who \in Client, n \in StakeAmount : staking(who, n)
  BY <1>2, StakingKeeps
<1>3. CASE \E who \in Client, iou \in DOMAIN IOUAssetPhaseId, n \in RedeemAmount :
              redeem(who, iou, n) \/ sudo_redeem(who, iou, n)
  BY <1>3, RedeemKeeps DEF IOUs
<1>4. CASE \E t \in Trade, m \in Movement : transfer(m[1], t[1], t[2], m[2])
  BY <1>4, TransferKeepsBooks
<1>5. CASE \E who \in Client, n \in RootAmount : MintShares(who, n) \/ BurnShares(who, n)
  BY <1>5, RootSharesKeep
<1>6. CASE \E elapsed \in 0 .. 1 : NewBlock(elapsed)
  BY <1>6, NewBlockKeeps
<1>7. CASE Environment
  BY <1>7, EnvironmentKeeps
<1>8. CASE UNCHANGED vars
  <2>1. UNCHANGED <<assetVars, savingVars>>
    BY <1>8 DEF vars
  <2>2. /\ UNCHANGED <<balanceVars, rootVars, phaseVars, shareVars, Paused, clockVars, upset>>
        /\ UNCHANGED <<ledgerRules, rootVars, clockVars>>
    BY <2>1 DEF assetVars, savingVars, ledgerRules, balanceVars
  <2>3. UNCHANGED Paused /\ UNCHANGED <<assetVars, rootVars, phaseVars, shareVars, clockVars, upset>>
    BY <2>1 DEF savingVars
  <2>4. Paused \in BOOLEAN
    <3>1. Storage \in StorageType
      BY SoundFacts DEF SavingInv, Books
    <3> QED BY <3>1, StorageFields, StorageIs
  <2>5. Switch(TRUE) \/ Switch(FALSE)
    BY <2>3, <2>4 DEF Switch
  <2> QED BY <2>5, ConfigureKeeps DEF Configure, pause, resume
<1> QED BY <1>1, <1>2, <1>3, <1>4, <1>5, <1>6, <1>7, <1>8 DEF SavingNext

\* Genesis: no IOUs, no shares, nothing to release.
LEMMA SavingGenesis == SavingInit => SavingInv
<1> SUFFICES ASSUME SavingInit PROVE SavingInv
  OBVIOUS
<1>1. AssetsInit /\ AssetsTypeOK /\ IssuanceIsHeld
  BY GenesisType, GenesisIssuance DEF SavingInit
<1>2. Orderly /\ upset = {} /\ now = 0 /\ LastBonusTime = 0 /\ price \in Nat
  BY CallAssumption DEF SavingInit, Orderly
<1>3. /\ GenesisIOU \in [PhaseId -> GenesisSymbols] /\ GenesisSymbols \subseteq AssetId
      /\ GenesisConfig \in [Items -> AssetId \cup AccountId] /\ NumOfPhases \in Nat \ {0} /\ MaxTime \in Nat
      /\ {GenesisConfig[i] : i \in {"CollectionAssetId", "ShareAssetId", "ProfitAssetId"}}
             \subseteq GenesisSymbols
      /\ {GenesisConfig[i] : i \in {"CollectionAccountId", "ProfitPool", "TeamAccountId"}}
             \subseteq AccountId
      /\ \A a \in Range(GenesisIOU) \cup {GenesisConfig.ShareAssetId}, w \in AccountId :
             Endowed[a][w] = 0
  BY SavingAssumption, GenesisAssumption
<1>4. ConfigOK
  <2>1. /\ GenesisConfig["CollectionAssetId"] \in AssetId /\ GenesisConfig["ShareAssetId"] \in AssetId
        /\ GenesisConfig["ProfitAssetId"] \in AssetId
        /\ GenesisConfig["CollectionAccountId"] \in AccountId
        /\ GenesisConfig["ProfitPool"] \in AccountId /\ GenesisConfig["TeamAccountId"] \in AccountId
    BY <1>3
  <2>2. config \in [Items -> AssetId \cup AccountId] /\ config = GenesisConfig
    BY <1>2, <1>3 DEF Orderly
  <2> QED BY <2>1, <2>2 DEF ConfigOK, CollectionAssetId, ShareAssetId, ProfitAssetId,
                              CollectionAccountId, ProfitPool, TeamAccountId
<1>5. Setting
  <2>1. PhaseIOU \in [PhaseId -> AssetId]
    BY <1>2, <1>3 DEF Orderly
  <2>2. IOUAssetPhaseId \in UNION {[A -> PhaseId] : A \in SUBSET AssetId}
    <3>1. IOUs \subseteq AssetId /\ \A a \in IOUs : IOUAssetPhaseId[a] \in PhaseId
      BY <1>2, OrderlyFacts
    <3>2. IOUAssetPhaseId = [a \in IOUs |-> IOUAssetPhaseId[a]]
      BY <1>2 DEF Orderly, IOUs, AntiFunction, Inverse
    <3>3. IOUAssetPhaseId \in [IOUs -> PhaseId]
      BY <3>1, <3>2
    <3> QED BY <3>1, <3>3
  <2> QED BY <1>1, <1>2, <1>4, <2>1, <2>2 DEF Setting
<1>6. Rules
  BY <1>2, <1>3, <1>5 DEF Rules
<1>7. ASSUME NEW a \in Range(GenesisIOU) \cup {GenesisConfig.ShareAssetId}
      PROVE  /\ a \in AssetId /\ TotalIssuance[a] = 0
             /\ \A w \in AccountId : FreeBalance[a][w] = 0
  <2>1. a \in GenesisSymbols /\ a \in AssetId
    <3>1. Range(GenesisIOU) \subseteq GenesisSymbols
      BY <1>3 DEF Range
    <3>2. GenesisConfig["ShareAssetId"] \in GenesisSymbols
      BY <1>3
    <3> QED BY <1>3, <3>1, <3>2
  <2>2. Endowed[a] \in [AccountId -> Balance] /\ \A w \in AccountId : Endowed[a][w] = 0
    BY <1>3, <2>1, GenesisAssumption
  <2>3. SumFunction(Endowed[a]) = 0
    BY <2>2, TotalOfNothing
  <2> QED BY <1>1, <2>1, <2>2, <2>3 DEF AssetsInit
<1>8. PICK s : s = Storage
  OBVIOUS
<1>9. /\ s.issuance = TotalIssuance /\ s.free = FreeBalance /\ s.collected = [w \in AccountId |-> 0]
      /\ s.phase = 1 /\ s.quota = 0 /\ s.left = NumOfPhases /\ s.list = <<>> /\ s.shares = <<>>
      /\ s.circulation = 0 /\ s.paused = FALSE /\ s.ok = TRUE /\ s.panicked = FALSE
      /\ s.mistracked = FALSE
      /\ s = [issuance |-> TotalIssuance, free |-> FreeBalance, collected |-> [w \in AccountId |-> 0],
              phase |-> 1, quota |-> 0, left |-> NumOfPhases, list |-> <<>>, shares |-> <<>>,
              circulation |-> 0, paused |-> FALSE, ok |-> TRUE, panicked |-> FALSE,
              mistracked |-> FALSE]
  BY <1>8 DEF Storage, SavingInit
<1>10. \A T : <<>> \in Maps(T)
  <2>1. \A T : <<>> \in [{} -> T]
    OBVIOUS
  <2> QED BY <2>1 DEF Maps
<1>11. s \in StorageType
  <2>1. 1 \in PhaseId /\ NumOfPhases \in PhaseId /\ 0 \in Balance
    BY <1>3, MaxBalanceAssumption DEF PhaseId, Balance
  <2>2. TotalIssuance \in [AssetId -> Balance] /\ FreeBalance \in Ledger
    BY <1>1 DEF AssetsTypeOK, Ledger
  <2>3. [w \in AccountId |-> 0] \in Uncollected
    BY DEF Uncollected
  <2>4. <<>> \in Maps(Seq(ReleasePack)) /\ <<>> \in Maps(Balance)
    BY <1>10
  <2> QED BY <1>9, <2>1, <2>2, <2>3, <2>4 DEF StorageType
<1>12. Conserved(s)
  BY <1>1, <1>9 DEF IssuanceIsHeld, Held, Conserved
<1>13. InStep(s, PackAssets(Standing(upset)))
  <2>1. Quota[1] \in Nat /\ NumOfPhases - 1 + 1 = NumOfPhases
    BY <1>3, <1>9, <1>11, PhaseNumbers
  <2> QED BY <1>9, <1>10, <2>1 DEF InStep
<1>14. Tracks(s)
  <2>1. SumFunction(<<>>) = 0
    BY SumOfNone DEF SumFunction
  <2> QED BY <1>9, <2>1 DEF Tracks
<1>15. CreditsHolders(s)
  <2>1. ShareAssetId = GenesisConfig.ShareAssetId
    BY <1>2 DEF Orderly, ShareAssetId
  <2>2. \A w \in AccountId : Get(s.shares, w, 0) = 0
    BY <1>9 DEF Get
  <2> QED BY <1>7, <1>9, <2>1, <2>2 DEF CreditsHolders
<1>16. Issued(s, Filled(1, 0))
  <2>1. \A p \in PhaseId : PhaseIOU[p] \in Range(GenesisIOU)
    BY <1>2, <1>3 DEF Orderly, Range
  <2>2. \A p \in PhaseId : Filled(1, 0)[p] = 0
    BY <1>3 DEF Filled, PhaseId
  <2> QED BY <1>7, <1>9, <2>1, <2>2 DEF Issued
<1>17. Covers(s, 0)
  <2>1. CollectionAccountId \in AccountId /\ CollectionAssetId \in AssetId
    BY <1>4 DEF ConfigOK
  <2>2. IOUs = Range(GenesisIOU) /\ IsFiniteSet(IOUs)
    <3>1. IOUs = Range(GenesisIOU)
      BY <1>2, <1>3 DEF Orderly, IOUs, AntiFunction, Inverse, Range
    <3> QED BY <1>2, <3>1, OrderlyFacts
  <2>3. \A a \in IOUs : OutsideOf(s, a) = 0
    BY <1>7, <1>9, <2>1, <2>2 DEF OutsideOf
  <2>4. OutsideAll(s) = 0
    <3>1. PICK f : f = [a \in IOUs |-> OutsideOf(s, a)]
      OBVIOUS
    <3>2. \A a \in IOUs : f[a] = 0
      BY <2>3, <3>1
    <3>3. SumFunctionOnSet(f, IOUs) = 0
      BY <2>2, <3>2, SumOfZeros
    <3> QED BY <3>1, <3>3 DEF OutsideAll, SumFunction
  <2>5. FreeBalance[CollectionAssetId][CollectionAccountId] \in Nat
    BY <1>1, <2>1, MaxBalanceAssumption DEF AssetsTypeOK, Balance
  <2> QED BY <1>9, <2>4, <2>5 DEF Covers
<1>18. s \in Sound(Standing(upset), Filled(1, 0), 0)
  BY <1>11, <1>12, <1>13, <1>14, <1>15, <1>16, <1>17 DEF Sound
<1>19. Books
  BY <1>8, <1>18 DEF Books, SavingInit
<1> QED BY <1>6, <1>19 DEF SavingInv

-----------------------------------------------------------------------------
\* What follows.

\* The invariant holds throughout.
LEMMA SavingInvariant == SavingSpec => []SavingInv
  BY SavingGenesis, SavingStep, PTL DEF SavingSpec

\* The facts of the invariant about the storage.
LEMMA InvFacts ==
    ASSUME SavingInv
    PROVE  /\ Storage \in StorageType /\ InStep(Storage, AssetId) /\ Conserved(Storage)
           /\ "mistracked" \in upset \/ SharesCirculation = SumFunction(AccountShares)
           /\ \/ upset \cap {"untracked", "mistracked", "root"} # {}
              \/ \A w \in AccountId \ {CollectionAccountId} :
                     Get(AccountShares, w, 0) >= FreeBalance[ShareAssetId][w]
           /\ \/ upset \cap {"partial", "root"} # {}
              \/ /\ Issued(Storage, Filled(CurrentPhaseId, QuotaUsed))
                 /\ OutsideAll(Storage) + 0 <= FreeBalance[CollectionAssetId][CollectionAccountId]
<1> DEFINE P == Standing(upset)
<1>1. Storage \in Sound(P, Filled(CurrentPhaseId, QuotaUsed), 0)
  BY DEF SavingInv, Books
<1>2. /\ "mistracked" \notin upset => "tracks" \in P
      /\ upset \cap {"untracked", "mistracked", "root"} = {} => "credited" \in P
      /\ upset \cap {"partial", "root"} = {} => "whole" \in P
  BY DEF Standing, Promises
<1> HIDE DEF P
<1>3. /\ Storage \in StorageType /\ InStep(Storage, PackAssets(P)) /\ Conserved(Storage)
      /\ ("tracks" \in P => Tracks(Storage)) /\ ("credited" \in P => CreditsHolders(Storage))
      /\ ("whole" \in P => Issued(Storage, Filled(CurrentPhaseId, QuotaUsed)) /\ Covers(Storage, 0))
  BY <1>1, SoundFacts, StorageIs
<1>4. InStep(Storage, AssetId)
  <2>1. PICK s : s = Storage
    OBVIOUS
  <2>2. s.list \in Maps(Packs(s.left - 1, PackAssets(P)))
    BY <1>3, <2>1 DEF InStep
  <2>3. PackAssets(P) \subseteq AssetId
    BY DEF PackAssets, SavingInv, Rules, Setting, ConfigOK
  <2>4. Packs(s.left - 1, PackAssets(P)) \subseteq Packs(s.left - 1, AssetId)
    BY <2>3 DEF Packs
  <2>5. s.list \in Maps(Packs(s.left - 1, AssetId))
    BY <2>2, <2>4 DEF Maps
  <2> QED BY <1>3, <2>1, <2>5 DEF InStep
<1> QED BY <1>2, <1>3, <1>4, StorageIs DEF Tracks, CreditsHolders, Covers

\* Every storage item of rio-saving holds a value of its declared type, whatever
\* is called in whatever order; LastBonusTime is never ahead of the clock.
THEOREM SavingTypeCorrect == SavingSpec => []SavingTypeOK
<1>1. SavingInv => SavingTypeOK
  <2> SUFFICES ASSUME SavingInv PROVE SavingTypeOK
    OBVIOUS
  <2>1. Storage \in StorageType
    BY InvFacts
  <2>2. /\ ShareAssetCollected \in [AccountId -> Balance] /\ CurrentPhaseId \in PhaseId
        /\ NumOfPhasesLeft \in PhaseId /\ QuotaUsed \in Balance
        /\ ShareUnreleasedList \in Maps(Seq(ReleasePack)) /\ AccountShares \in Maps(Balance)
        /\ SharesCirculation \in Balance /\ Paused \in BOOLEAN
    BY <2>1, StorageFields, StorageIs
  <2>3. /\ DOMAIN ShareUnreleasedList \subseteq AccountId
        /\ \A w \in DOMAIN ShareUnreleasedList : ShareUnreleasedList[w] \in Seq(ReleasePack)
    BY <2>2, MapFacts
  <2>4. DOMAIN AccountShares \subseteq AccountId /\ Range(AccountShares) \subseteq Balance
    BY <2>2, MapFacts DEF Range
  <2>5. /\ IOUAssetPhaseId \in UNION {[A -> PhaseId] : A \in SUBSET AssetId}
        /\ PhaseIOU \in [PhaseId -> AssetId] /\ upset \subseteq Upset
        /\ LastBonusTime \in 0 .. now /\ now \in 0 .. MaxTime
    BY DEF SavingInv, Rules, Setting
  <2> QED BY <2>2, <2>3, <2>4, <2>5 DEF SavingTypeOK
<1> QED BY <1>1, SavingInvariant, PTL

\* The shares that are credited to accounts add up to SharesCirculation, by which
\* the bonus is divided, unless tracking has given up (_pause) or the count wrapped.
THEOREM CirculationAddsUp == SavingSpec => []CirculationIsSumOfShares
<1>1. SavingInv => CirculationIsSumOfShares
  BY InvFacts DEF CirculationIsSumOfShares
<1> QED BY <1>1, SavingInvariant, PTL

\* Every account is credited with at least the shares it holds, while none moved
\* untracked: whatever is saved, released, redeemed or traded in between.
THEOREM HoldersStayCredited == SavingSpec => []HoldersAreCredited
<1>1. SavingInv => HoldersAreCredited
  BY InvFacts DEF HoldersAreCredited
<1> QED BY <1>1, SavingInvariant, PTL

\* The IOUs outside the collection account are covered by what it holds.
THEOREM IOUsStayBacked == SavingSpec => []IOUsAreBacked
<1>1. SavingInv => IOUsAreBacked
  <2> SUFFICES ASSUME SavingInv, upset \cap {"partial", "root"} = {}
               PROVE  SumFunction([a \in DOMAIN IOUAssetPhaseId |-> Outside(a)])
                          <= FreeBalance[CollectionAssetId][CollectionAccountId]
    BY DEF IOUsAreBacked
  <2>1. OutsideAll(Storage) + 0 <= FreeBalance[CollectionAssetId][CollectionAccountId]
    BY InvFacts
  <2>2. \A a : Outside(a) = OutsideOf(Storage, a)
    BY StorageIs DEF Outside, OutsideOf
  <2>3. [a \in DOMAIN IOUAssetPhaseId |-> Outside(a)] = [a \in IOUs |-> OutsideOf(Storage, a)]
    BY <2>2 DEF IOUs
  <2>4. SumFunction([a \in DOMAIN IOUAssetPhaseId |-> Outside(a)]) = OutsideAll(Storage)
    BY <2>3 DEF OutsideAll
  <2>5. OutsideAll(Storage) \in Nat
    <3>1. Setting /\ Orderly
      BY DEF SavingInv, Rules
    <3>2. PICK s : s = Storage
      OBVIOUS
    <3>3. s \in StorageType /\ Conserved(s)
      BY <3>2, InvFacts
    <3>4. ShareAssetId \in AssetId
      BY <3>1 DEF Setting, ConfigOK
    <3> QED BY <3>1, <3>2, <3>3, <3>4, OutsideAllChanges
  <2>6. OutsideAll(Storage) + 0 = OutsideAll(Storage)
    BY <2>5
  <2> QED BY <2>1, <2>4, <2>6
<1> QED BY <1>1, SavingInvariant, PTL

\* No phase issues more IOUs than its quota, also when one saving fills several.
THEOREM QuotaStaysKept == SavingSpec => []QuotaIsKept
<1>1. SavingInv => QuotaIsKept
  <2> SUFFICES ASSUME SavingInv PROVE QuotaIsKept
    OBVIOUS
  <2>1. NumOfPhasesLeft = NumOfPhases - CurrentPhaseId + 1 /\ QuotaUsed <= Quota[CurrentPhaseId]
    BY InvFacts, StorageIs DEF InStep
  <2>2. ASSUME upset \cap {"root", "partial"} = {}, NEW p \in PhaseId
        PROVE  TotalIssuance[PhaseIOU[p]] <= IF p > CurrentPhaseId THEN 0 ELSE Quota[p]
    <3>1. Issued(Storage, Filled(CurrentPhaseId, QuotaUsed))
      BY <2>2, InvFacts
    <3>2. TotalIssuance[PhaseIOU[p]] <= Filled(CurrentPhaseId, QuotaUsed)[p]
      BY <3>1, StorageIs DEF Issued
    <3>3. Storage \in StorageType
      BY InvFacts
    <3>4. /\ CurrentPhaseId \in PhaseId /\ CurrentPhaseId \in Nat /\ p \in Nat /\ Quota[p] \in Nat
          /\ QuotaUsed \in Nat
      BY <3>3, PhaseNumbers, StorageIs
    <3>5. TotalIssuance[PhaseIOU[p]] \in Nat
      <4>1. TotalIssuance \in [AssetId -> Balance] /\ PhaseIOU[p] \in AssetId
        BY DEF SavingInv, Rules, Setting, AssetsTypeOK
      <4> QED BY <4>1, MaxBalanceAssumption DEF Balance
    <3>6. Filled(CurrentPhaseId, QuotaUsed)[p]
              = IF p > CurrentPhaseId THEN 0 ELSE IF p = CurrentPhaseId THEN QuotaUsed ELSE Quota[p]
      BY DEF Filled
    <3> QED BY <2>1, <3>2, <3>4, <3>5, <3>6
  <2> QED BY <2>1, <2>2 DEF QuotaIsKept
<1> QED BY <1>1, SavingInvariant, PTL

\* Every release pack has one term for each change of phase to come.
THEOREM ScheduleStaysInStep == SavingSpec => []ScheduleIsInStep
<1>1. SavingInv => ScheduleIsInStep
  <2> SUFFICES ASSUME SavingInv, NEW w \in DOMAIN ShareUnreleasedList,
                      NEW i \in DOMAIN ShareUnreleasedList[w]
               PROVE  Len(ShareUnreleasedList[w][i].terms) = NumOfPhasesLeft - 1
    BY DEF ScheduleIsInStep
  <2>1. ShareUnreleasedList \in Maps(Packs(NumOfPhasesLeft - 1, AssetId))
    BY InvFacts, StorageIs DEF InStep
  <2>2. ShareUnreleasedList[w] \in Packs(NumOfPhasesLeft - 1, AssetId)
    BY <2>1, PackMaps
  <2> QED BY <2>2 DEF Packs
<1> QED BY <1>1, SavingInvariant, PTL

\* Minting, burning, transfers, releases and bonuses conserve every asset: what
\* is issued is what accounts hold, so that no addition of the ledger wraps.
THEOREM SavingConserves == SavingSpec => []IssuanceIsHeld
<1>1. SavingInv => IssuanceIsHeld
  BY InvFacts, StorageIs DEF Conserved, IssuanceIsHeld, Held
<1> QED BY <1>1, SavingInvariant, PTL
=============================================================================
