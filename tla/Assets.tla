------------------------------- MODULE Assets -------------------------------
(***************************************************************************)
(* rio-assets: the multi-asset ledger every other Rio module pays through. *)
(*                                                                         *)
(* Storage items are variables of the same name, dispatchables are         *)
(* actions.  A dispatchable that returns Err before its first write is a   *)
(* stuttering step and has no action of its own.  Functions other modules  *)
(* call (make_transfer, mint_free, ...) are operators: "...Ok" says when   *)
(* the call returns Ok, and a second operator gives the storage it writes. *)
(*                                                                         *)
(* Balances are u128.  Checked additions fail above MaxBalance; unchecked  *)
(* ones (`+=`) wrap, as they do in the release and the Wasm build.         *)
(***************************************************************************)
EXTENDS Naturals, FiniteSets, Functions

CONSTANTS
    AssetId,          \* asset identities
    AccountId,        \* accounts
    NoOwner,          \* Owner::None
    NoAsset,          \* the empty Option of FromId and ToId
    MaxBalance,       \* Balance::max_value()
    Amount,           \* the amounts callers pass in
    NewPermission,    \* the permission records root may install
    GenesisSymbols,   \* the assets of the genesis configuration
    Endowed,          \* their endowed accounts
    GenesisRestricted,\* those with the Transferable restriction
    GenesisRootKey    \* the sudo key at genesis

Balance == 0 .. MaxBalance
Owner == AccountId \cup {NoOwner}
PermissionLatest == [update : Owner, mint : Owner, burn : Owner]
Restriction == {"Transferable"}

ASSUME MaxBalanceAssumption == MaxBalance \in Nat
ASSUME AmountAssumption == Amount \subseteq Balance
ASSUME AccountAssumption == IsFiniteSet(AccountId)
ASSUME OwnerAssumption == NoOwner \notin AccountId
ASSUME AssetAssumption == NoAsset \notin AssetId
ASSUME PermissionAssumption == NewPermission \subseteq PermissionLatest
ASSUME GenesisAssumption ==
    /\ GenesisSymbols \subseteq AssetId
    /\ GenesisRestricted \subseteq GenesisSymbols
    /\ GenesisRootKey \in AccountId
    /\ Endowed \in [AssetId -> [AccountId -> Balance]]
    /\ \A a \in AssetId : SumFunction(Endowed[a]) \in Balance

VARIABLES
    TotalIssuance,
    FreeBalance,
    ReservedBalance,
    Permissions,
    Restrictions,
    Symbols,          \* the assets that have a symbol, that is, that exist
    FromId,
    ToId,
    rootKey           \* the sudo key T::RootKey reads

balanceVars == <<TotalIssuance, FreeBalance, ReservedBalance>>
contextVars == <<FromId, ToId>>
assetVars == <<balanceVars, Permissions, Restrictions, Symbols, contextVars,
               rootKey>>

NoPermission == [update |-> NoOwner, mint |-> NoOwner, burn |-> NoOwner]
OwnedBy(who) == [update |-> who, mint |-> who, burn |-> who]

-----------------------------------------------------------------------------
\* What other modules call.

should_exist(a) == a \in Symbols

can_do(a, r) == r \notin Restrictions[a]

\* Slip: an asset without an owner is open to everyone.
check_permission_open(a, who, what) == Permissions[a][what] \in {who, NoOwner}

check_permission(a, who, what) == Permissions[a][what] = who

Wrap(n) == n % (MaxBalance + 1)

MakeTransferOk(a, from, amount) ==
    /\ should_exist(a)
    /\ amount <= FreeBalance[a][from]
    /\ can_do(a, "Transferable")

\* make_transfer on given free balances; a self transfer writes nothing.
Moved(free, a, from, to, amount) ==
    IF from = to
    THEN free
    ELSE [free EXCEPT ![a][from] = @ - amount, ![a][to] = Wrap(@ + amount)]

Transferred(a, from, to, amount) == Moved(FreeBalance, a, from, to, amount)

\* Slip: mint_free with plain instead of checked additions.
MintFreeOk_unchecked(a, to, amount) ==
    /\ should_exist(a)
    /\ check_permission(a, rootKey, "mint")

MintFreeOk(a, to, amount) ==
    /\ should_exist(a)
    /\ check_permission(a, rootKey, "mint")
    /\ TotalIssuance[a] + amount <= MaxBalance
    /\ FreeBalance[a][to] + amount <= MaxBalance

Minted(a, to, amount) ==
    [issuance |-> [TotalIssuance EXCEPT ![a] = @ + amount],
     free     |-> [FreeBalance EXCEPT ![a][to] = @ + amount]]

BurnFreeOk(a, to, amount) ==
    /\ should_exist(a)
    /\ check_permission(a, rootKey, "burn")
    /\ amount <= TotalIssuance[a]
    /\ amount <= FreeBalance[a][to]

Burned(a, to, amount) ==
    [issuance |-> [TotalIssuance EXCEPT ![a] = @ - amount],
     free     |-> [FreeBalance EXCEPT ![a][to] = @ - amount]]

-----------------------------------------------------------------------------
\* Genesis: create_asset without an owner, then the restrictions, then the
\* endowed balances and their sum.

AssetsInit ==
    /\ Symbols = GenesisSymbols
    /\ rootKey = GenesisRootKey
    /\ FreeBalance = [a \in AssetId |-> [w \in AccountId |->
                        IF a \in GenesisSymbols THEN Endowed[a][w] ELSE 0]]
    /\ TotalIssuance = [a \in AssetId |->
                        IF a \in GenesisSymbols THEN SumFunction(Endowed[a]) ELSE 0]
    /\ ReservedBalance = [a \in AssetId |-> [w \in AccountId |-> 0]]
    /\ Permissions = [a \in AssetId |->
                        IF a \in GenesisSymbols THEN OwnedBy(rootKey) ELSE NoPermission]
    /\ Restrictions = [a \in AssetId |->
                        IF a \in GenesisRestricted THEN Restriction ELSE {}]
    /\ FromId = NoAsset
    /\ ToId = NoAsset

-----------------------------------------------------------------------------
\* Dispatchables.

\* Slip: create_asset without should_not_exist.
Create_again(a, initial) ==
    /\ Symbols' = Symbols \cup {a}
    /\ TotalIssuance' = [TotalIssuance EXCEPT ![a] = initial]
    /\ FreeBalance' = [FreeBalance EXCEPT ![a][rootKey] = initial]
    /\ Permissions' = [Permissions EXCEPT ![a] = OwnedBy(rootKey)]
    /\ UNCHANGED <<ReservedBalance, Restrictions, contextVars, rootKey>>

Create(a, initial) ==
    /\ a \notin Symbols
    /\ Symbols' = Symbols \cup {a}
    /\ TotalIssuance' = [TotalIssuance EXCEPT ![a] = initial]
    /\ FreeBalance' = [FreeBalance EXCEPT ![a][rootKey] = initial]
    /\ Permissions' = [Permissions EXCEPT ![a] = OwnedBy(rootKey)]
    /\ UNCHANGED <<ReservedBalance, Restrictions, contextVars, rootKey>>

Transfer(a, from, to, amount) ==
    /\ MakeTransferOk(a, from, amount)
    /\ FreeBalance' = Transferred(a, from, to, amount)
    /\ UNCHANGED <<TotalIssuance, ReservedBalance, Permissions, Restrictions,
                   Symbols, contextVars, rootKey>>

UpdatePermission(a, permission) ==
    /\ check_permission(a, rootKey, "update")
    /\ Permissions' = [Permissions EXCEPT ![a] = permission]
    /\ UNCHANGED <<balanceVars, Restrictions, Symbols, contextVars, rootKey>>

UpdateRestriction(a, restriction, notAllow) ==
    /\ Restrictions' = [Restrictions EXCEPT ![a] =
                            IF notAllow THEN @ \cup {restriction} ELSE @ \ {restriction}]
    /\ UNCHANGED <<balanceVars, Permissions, Symbols, contextVars, rootKey>>

Mint(a, to, amount) ==
    /\ MintFreeOk(a, to, amount)
    /\ TotalIssuance' = Minted(a, to, amount).issuance
    /\ FreeBalance' = Minted(a, to, amount).free
    /\ UNCHANGED <<ReservedBalance, Permissions, Restrictions, Symbols,
                   contextVars, rootKey>>

Burn(a, to, amount) ==
    /\ BurnFreeOk(a, to, amount)
    /\ TotalIssuance' = Burned(a, to, amount).issuance
    /\ FreeBalance' = Burned(a, to, amount).free
    /\ UNCHANGED <<ReservedBalance, Permissions, Restrictions, Symbols,
                   contextVars, rootKey>>

SetReserve(a, who, amount) ==
    /\ amount <= FreeBalance[a][who]
    /\ ReservedBalance' = [ReservedBalance EXCEPT ![a][who] = Wrap(@ + amount)]
    /\ FreeBalance' = [FreeBalance EXCEPT ![a][who] = @ - amount]
    /\ UNCHANGED <<TotalIssuance, Permissions, Restrictions, Symbols,
                   contextVars, rootKey>>

\* Slip: unreserve that credits `amount` instead of what was reserved.
SetUnreserve_uncapped(a, who, amount) ==
    LET actual == IF ReservedBalance[a][who] < amount THEN ReservedBalance[a][who]
                                                      ELSE amount
    IN  /\ FreeBalance' = [FreeBalance EXCEPT ![a][who] = Wrap(@ + amount)]
        /\ ReservedBalance' = [ReservedBalance EXCEPT ![a][who] = @ - actual]
        /\ UNCHANGED <<TotalIssuance, Permissions, Restrictions, Symbols,
                       contextVars, rootKey>>

\* unreserve moves what there is, up to `amount`, and cannot fail.
SetUnreserve(a, who, amount) ==
    LET actual == IF ReservedBalance[a][who] < amount THEN ReservedBalance[a][who]
                                                      ELSE amount
    IN  /\ FreeBalance' = [FreeBalance EXCEPT ![a][who] = Wrap(@ + actual)]
        /\ ReservedBalance' = [ReservedBalance EXCEPT ![a][who] = @ - actual]
        /\ UNCHANGED <<TotalIssuance, Permissions, Restrictions, Symbols,
                       contextVars, rootKey>>

\* sudo::set_key, outside this repository.
SetRootKey(who) ==
    /\ rootKey' = who
    /\ UNCHANGED <<balanceVars, Permissions, Restrictions, Symbols, contextVars>>

\* Calls that move balances.
BalanceNext ==
    \/ \E a \in AssetId, from, to \in AccountId, n \in Amount : Transfer(a, from, to, n)
    \/ \E a \in AssetId, to \in AccountId, n \in Amount : Mint(a, to, n)
    \/ \E a \in AssetId, to \in AccountId, n \in Amount : Burn(a, to, n)
    \/ \E a \in AssetId, who \in AccountId, n \in Amount : SetReserve(a, who, n)
    \/ \E a \in AssetId, who \in AccountId, n \in Amount : SetUnreserve(a, who, n)

\* Calls that change what exists and what is allowed.
GovernanceNext ==
    \/ \E a \in AssetId, n \in Amount : Create(a, n)
    \/ \E a \in AssetId, p \in NewPermission : UpdatePermission(a, p)
    \/ \E a \in AssetId, r \in Restriction, b \in BOOLEAN : UpdateRestriction(a, r, b)
    \/ \E who \in AccountId : SetRootKey(who)

AssetsNext == BalanceNext \/ GovernanceNext

AssetsSpec == AssetsInit /\ [][AssetsNext]_assetVars

-----------------------------------------------------------------------------
\* Every storage item of the ledger holds a value of its declared type; in
\* particular no balance leaves the u128 range.
AssetsTypeOK ==
    /\ TotalIssuance \in [AssetId -> Balance]
    /\ FreeBalance \in [AssetId -> [AccountId -> Balance]]
    /\ ReservedBalance \in [AssetId -> [AccountId -> Balance]]
    /\ Permissions \in [AssetId -> PermissionLatest]
    /\ Restrictions \in [AssetId -> SUBSET Restriction]
    /\ Symbols \subseteq AssetId
    /\ FromId \in AssetId \cup {NoAsset}
    /\ ToId \in AssetId \cup {NoAsset}
    /\ rootKey \in AccountId

\* All of an asset, free and reserved.
Held(a) == SumFunction(FreeBalance[a]) + SumFunction(ReservedBalance[a])

\* The issuance of an asset is the sum of all free and reserved balances after
\* any sequence of calls.  No function of the module maintains this on its own:
\* `set_free_balance` and `set_reserved_balance` (lib.rs 735-743) leave it to
\* their callers.  It is also why the unchecked `+=` of make_transfer and the
\* `+` of reserve and unreserve never wrap: what they add up is at most the
\* issuance, which mint_free checks.
IssuanceIsHeld == \A a \in AssetId : TotalIssuance[a] = Held(a)

\* Nothing is issued, held or permitted under an identity before `create`, so
\* that create_asset's plain inserts overwrite nothing.
NothingBeforeCreate ==
    \A a \in AssetId \ Symbols :
        /\ TotalIssuance[a] = 0
        /\ Permissions[a] = NoPermission
        /\ \A w \in AccountId : FreeBalance[a][w] = 0 /\ ReservedBalance[a][w] = 0

\* The permission to update and to mint has been given up.
Renounced(a) == a \in Symbols /\ Permissions[a].update = NoOwner
                              /\ Permissions[a].mint = NoOwner

\* Once update and mint permission of an asset are set to nobody, no sequence
\* of calls, a change of the sudo key and a second `create` included, brings
\* them back or increases its issuance (check_permission, lib.rs 678-710).
RenouncedStaysRenounced ==
    [][\A a \in AssetId : Renounced(a) =>
           /\ Renounced(a)'
           /\ TotalIssuance'[a] <= TotalIssuance[a]]_assetVars
=============================================================================
