# A TLA+ model of riochain

riochain is a Substrate blockchain (Substrate of early 2020) whose own logic is
in the runtime modules under `src/modules/`: a multi-asset ledger, fees, a
Bitcoin bridge, a price oracle, collateralised loans and a saving scheme. This
directory models those modules, checks them with TLC and proves with TLAPS what they promise:
conservation, backing and cover, for every number of accounts, loans, oracles and phases and
every width of a balance, and that the bridge implements an abstract specification of its
deposits.

## 1. Inventory

| Component | State it keeps | Operations | Interacts with |
|---|---|---|---|
| `rio-assets` | issuance, free and reserved balances, permissions, restrictions, symbols, the `FromId`/`ToId` context | `create`, `transfer`, `update_permission`, `update_restriction`, `mint`, `burn`, `set_reserve`, `set_unreserve` | called by all other modules; mints and burns as the sudo root key |
| `rio-fee`, `rio-transaction-payment` | collecting account, fee multiplier | charge inside `validate`, `set_account` | exchanges LOCKED_RFUEL for RFUEL in the ledger, drops imbalances |
| `rio-bridge` | pause switch, KYC list, admins, held deposits, deposit history, pending withdrawals | `deposit`, `withdraw`, `withdraw_finish`, `refund`, `mark_black`, `mark_white`, admin calls | mints SBTC, moves SBTC to and from a vault |
| `rio-price`, `rio-oracle` | reports, block of each oracle's last report, current price | `report`, end of block | members come from a collective; `OnChange` feeds `rio-loan` |
| `rio-loan` | packages, loans and three indexes of them, totals, thresholds, price | `apply`, `draw`, `repay`, `add_collateral`, `mark_liquidated`, root calls, start of block | moves collateral, mints and burns the loan asset |
| `rio-saving` | phases and their quota, packs of unreleased shares, shares of each account and in circulation, pause switch, time of the last bonus | `staking`, `redeem` and their sudo forms, `force_release_bonus`, nine root calls, hooks on mint, burn and transfer, bonus at start of block | mints, burns and moves IOUs, shares and the collected asset; reads the price; is called back by the ledger |
| runtime, node, primitives, scripts | configuration and glue | - | - |

What makes this code hard:

* **An error does not roll back.** In this Substrate a dispatchable that returns
  `Err` keeps what it wrote. Every operation that writes, calls and then may fail
  has to undo by hand, and the undoing may fail too. Only a panic discards a call.
* **A panic in `on_initialize` is fatal**: no block can be built any more.
* **Release arithmetic wraps.** Balances are `u128`; `checked_*` is used in some
  places and plain operators in others.
* **Blocks interleave with everybody**: a loan changes status, an oracle expires,
  an account is marked between any two calls of the same user.
* **The ledger calls back.** `rio-saving` acts inside other people's transfers: the hook
  runs after the money has moved and its error is dropped. Calls that the module makes
  itself go partly through the hooks (mint, burn) and partly around them
  (`make_transfer_with_event`), and its records of who holds what depend on which.
* **Several actors race for the same record**: admins with different rights,
  borrower and liquidation account, root changing the rules in between.

What makes each component correct:

* ledger: issuance is what is held; nothing exists before `create`; permissions
  given to nobody stay given away;
* fees: a charge conserves the assets, and locked fuel pays fees only;
* bridge: no Bitcoin transaction is credited twice or lost without a trace, KYC
  comes before large credits, the vault covers what is pending, SBTC is backed;
* price: one vote per oracle, recent votes only, a minority cannot move the price;
* loans: the indexes agree, collateral owed is there, debt on the books has been
  minted, liquidation is final and comes to every overdrawn loan, and the check of the
  loans at the start of a block does not panic (it can, see `loan_ratio` below, and the
  project shows that there is no other way than that);
* savings: IOUs are backed, shares released and unreleased are what the exchange rate
  promised, quotas are kept and releases stay in step with the phases, what may be redeemed
  is redeemed, the records of shares that the bonus is computed from agree with each other
  and with the ledger, missed bonuses are caught up.

## 2. Modules

| Module | Models | Composes |
|---|---|---|
| `Assets` | the ledger | - |
| `Fee` | fee charges | extends `Assets` |
| `Bridge` | the bridge | extends `Assets` |
| `Price` | price and oracle | - |
| `Loan` | loans | extends `Assets` |
| `Saving` | savings, with the hooks of the ledger | extends `Assets` |
| `Deposits` | what the bridge promises about deposits (abstract) | instantiated by `Bridge` |
| `Lists` | sorting and filtering of a list | used by `Price`, `Saving` |
| `Sums` | lemmas about sums, sorted and filtered lists, and repeated steps | extends `Lists` |
| `AssetsProofs` | theorems about the ledger | extends `Assets`, `Sums` |
| `FeeProofs` | theorems about charges | extends `Fee`, `AssetsProofs` |
| `BridgeProofs` | theorems about deposits, withdrawals and the backing of SBTC; the refinement of `Deposits` | extends `Bridge`, `AssetsProofs` |
| `PriceProofs` | theorems about the median and its votes | extends `Price`, `Sums` |
| `LoanProofs` | theorems about the loans and their ledger | extends `Loan`, `AssetsProofs` |
| `SavingProofs` | theorems about the savings and their ledger | extends `Saving`, `AssetsProofs` |
| `RedeemProofs` | the theorem that redemptions go through | extends `SavingProofs` |
| `MCAssets`, `MCFee`, `MCBridge`, `MCPrice`, `MCLoan`, `MCSaving` | small instances for TLC | |

State and actions keep the names of the source where TLA+ allows: a storage item
is a variable (or, for the settings of `rio-loan`, a field of `config`), a call is
an action with the call's arguments. Maps with absent entries are total functions
with a model value for "no entry". A call that fails without having written
anything is no step. A call that fails *after* writing is a step with exactly the
writes that remain: the failing mint in `SimpleDeposit` and `MarkWhite`, the
failing second mint in `apply` and `draw`, the failing burn in `repay`, the failing
fee transfer in `on_each_block`. Wrapping is `Wrap(n) == n % (MaxBalance + 1)`,
used where the code has a plain operator and left out where it has a checked one.

* **Assets.** `rootKey` is sudo's key (outside `src/modules`); `Mint` and `Burn`
  act with the rights of that key, as `RawOrigin::Root` does, so they fail when
  the permissions were given to someone else.
* **Fee.** `Charge` is the whole of `ChargeTransactionPayment::validate`: buy RFUEL
  from LOCKED_RFUEL, withdraw, deposit to the collecting account, and the drop of
  each imbalance, which adjusts the issuance with saturating arithmetic. The ghost
  `saturated` records that such an addition hit the limit. A charge that fails makes the
  transaction invalid and leaves nothing. The fee multiplier is abstracted: the
  adjusted part of the fee is any member of `Adjustable`.
* **Bridge.** `credited` and `lost` are ghosts: how often each Bitcoin transaction has
  minted, and which direct deposits were recorded and then not minted. `btcHeld` is the
  bitcoin received less that paid out.
* **Deposits.** A Bitcoin transaction is unseen, held, credited or lost, and once reported it
  has a claim (account and amount). It can be reported, held ones of an account can be
  released, perhaps some of them only, or dropped, all of them. The refinement mapping
  (`Promise` in `Bridge`) takes the claim from `DepositHistory` and the stage from the ghosts
  and, for held ones, from `PendingDepositList`.
* **Price.** The sort of the numbers in `median`, and the order that the `filter` of `on_finalize`
  keeps, are both `Ascending` of `Lists`: a bijection from places to indices that puts the values
  in order. It says what a sort gives without saying how, which is also what the proofs need.
  One action per report, and `OnFinalize` for the end of a block. The
  members of the oracle collective may change at any time (`ChangeMembers`, external).
* **Loan.** `NewBlock` is `on_initialize`, with the time of the previous block, then
  the timestamp. It is guarded by `BlockCanStart`, which says that `get_ltv` does not panic
  for any loan that the block looks at, neither before nor after a renewal: the collateral
  has a value, and the ratio, computed as a balance (`Ratio`), fits its narrower type
  (`LTV`, `u64` in the code, `0 .. MaxLTV` here), into which it is converted with an
  `unwrap`. Where it does not, there is no next block. Time counts in `TERMS_UNIT`s. `Vec<LoanId>` items are sets, because no
  function depends on their order. The ghost `switched` records that root has
  exchanged the assets of new packages.
* **Saving.** A call is a chain of writes that an error ends and does not undo; nested calls
  make the intermediate states matter (a saving releases packs in the middle of being made,
  and the hook of a mint writes the records). So a call is computed on a record `s` of the
  storage it may write, by operators named like the functions, and `Performed` makes the
  result the new state: all of it, also after an error (`s.ok = FALSE`), nothing after a panic
  (`s.panicked`). The loops over packs and accounts and the recursion of `create_staking` over
  phases (at most `NumOfPhases` deep) are recursive functions of the number of steps done. The
  filters of pack lists are `Kept` of `Lists`. A `ShareReleasePack` is the sequence of its remaining terms:
  `major` are all but the last of them, `minor` the last if it differs. The order in which
  `dispatch_bonus` visits the accounts is any order, since that of a `linked_map` depends on
  hashes. `staking` stands for `sudo_staking` too, which differs in who may call it. The hooks
  are those of the module, as in `rio-saving/src/mock.rs`; the runtime of this commit has `()`
  and does not construct the module. The ghost `upset` records what makes a property's
  promise void: a call that failed half way, root's interference, movements while
  paused, and a `_pause` by the tracking itself or a count of circulating shares that wrapped
  (line 1095 adds without a check).
  `ShareAssetCollected` is only ever reduced, so it stays zero: no code adds to it, although
  the comment at `rio-saving/src/lib.rs:265` says that shares sent in advance count; the model
  keeps the dead branches.

Modelling assumptions, stated in the modules' `ASSUME`s or in their next-state relations:

* the vault of the bridge, the pawn shop and the profit pool are spent by their
  modules only, and are not clients or borrowers themselves;
* SBTC is minted by the bridge only (other minting would make `Backed` meaningless);
* pawn shop and profit pool are different accounts (as in the genesis configuration), and
  the liquidation account is neither of them: liquidating from the pawn shop would pay the
  debt out of the collateral, and no check of the code prevents root from setting it so;
* the assets of the genesis configuration of the loans have been created at genesis, and the
  endowments of an asset add up to a balance;
* there are finitely many accounts;
* prices are positive: root can set zero through `set_price` of `rio-loan` (line 412), after
  which every block panics while there is a loan;
* the share asset, the collected asset and the profit asset of the genesis configuration of
  the savings are different assets, and the reserve asset is neither the share asset nor an
  IOU (`rio-saving/src/mock.rs:335`);
* in the run of `Saving`, an exchange rate is so large that the last term of a pack does not
  fall below zero (see the hazard at `rio-saving/src/lib.rs:1021`).

## 3. Runs

All specifications are `Init /\ [][Next]_vars`, and those of `Loan` and `Saving` have one
fairness condition more: `WF_vars(NewBlock(0))`. The chain goes on producing blocks whatever
the users do, and the work of a block (`on_initialize`) is not optional; that is what the
condition says, and no more. No call of a user, an oracle, an admin or root is owed, and
neither is the passing of time: `NewBlock(1)` is not fair, and the two liveness properties
speak of what blocks do at the time that has come. Deadlock is checked in every run.

| Run | Instance | Shows |
|---|---|---|
| `assets` | two assets (one created later), two accounts, balances 0..3 | conservation and permissions, with every overflow at the boundary reached |
| `fee` | RFUEL and LOCKED_RFUEL, fee account and user, balances 0..3 | imbalances cancel; locked fuel only pays fees |
| `bridge` | two symmetric clients, two symmetric Bitcoin transactions, amounts 1 and 3 on the two sides of the threshold 2, balances 0..4, permissions that make mints fail, two pending withdrawals per account | all bridge properties |
| `price` | three symmetric oracles, prices 1, 3, 7 of 0..7 (so that 3+7 wraps and 7 is an outlier), reports valid one block, five blocks | all price properties |
| `loan` | one borrower, two loans of one package, prices 1 and 2, three units of time, issuance so near its limit that a second mint fails, thresholds 8 and 9 of ratios 0..15 | all loan properties, with `OverdrawnIsLiquidated` under fairness of blocks |
| `saving` | two savers, one of whom has 2 of the collection asset to begin with, three phases with quotas 2, 1, 1 and exchange rates 4, 3, 1, three days of bonuses | all saving properties, with `BonusCatchesUp` under fairness of blocks |

The bounds are the smallest at which each case happens. For the ledger and the fees
two bits of balance suffice: the sum of two amounts overflows. For the bridge two
transactions are needed to put one mint of `mark_white` before a failing one, and two
pending withdrawals to tell the first from the last. For prices, three oracles give
odd and even medians and one dissenter against two. For loans, three units of time
take a loan through its term (1), the extension (1) and a renewal; two loans let fees
of one be paid out of collateral of the other. `MaxLTV` is so near above the thresholds that a
draw through the wrapped credit (`loan_draw`) makes a ratio that does not fit, and the run goes
on with calls while no block can be built. `MCLoan` has one state constraint,
`OneDisturbance`: of eight ways in which root departs from the initial configuration
(pause, exchange of an asset, thresholds, burn permission, a restriction on either
asset, a loan cap, a disabled package) the run explores each, but not two together, and
none at the very end of time.

For savings, three phases give a first phase whose packs have two more terms, a last phase
without a next one, and a saving of 2 that fills one phase and starts another. The rates make
a share count that does not divide by the terms, so that rounding and the shorter last term
happen. Savers trade shares and IOUs with each other, send them and the collected asset to
the collection account, and redeem one IOU at a time with shares in every mixture of free and
unreleased. `MCSaving` has the constraint `Bound`: at most one departure from the ordinary
(a paused module, an asset that cannot be minted or moved, a call that failed half way) and
that before the last phase; states that root has upset are checked but not pursued; bonuses
and prices vary in the first phase only, where they meet every kind of holding.

Two properties of the savings have exceptions that no state within these bounds shows, and that
the attempt to prove them did. `CirculationIsSumOfShares`: shares that leave the collection account
are counted by a plain `+=`, which wraps when root has minted enough shares while the
module was paused; a wrapped count is "mistracked". `QuotaIsKept`: a saving that fills a phase
counts its IOUs after minting them, so when the mint of the shares that comes in between fails
(`rio-saving/src/lib.rs:863`), IOUs stay that the quota does not count, and the phase can issue more
than its quota; the third conjunct leaves such histories out ("partial").

The violation runs each check one statement that a document or comment of the
repository makes and the code does not keep:

| Run | Statement | What the code does |
|---|---|---|
| `loan_draw` | "as long as the LTV of this loan is below the GlobalLTVLimit" (`rio-loan/src/lib.rs:455`) | `available_credit` wraps below zero, and any draw passes |
| `loan_total` | "平台当前总的loan金额" (`rio-loan/README.md:31`) | `mark_loan_liquidated` leaves `TotalLoan` as it was |
| `loan_ratio` | "when a loan's LTV reaches or is above this threshold, this loan must be been liquidating" (`rio-loan/src/lib.rs:256`) | a ratio that does not fit `u64` makes `get_ltv` panic in every block, and nothing is liquidated any more |
| `loan_fee` | "a small portion of its collateral will be cut as penalty" (`rio-loan/src/lib.rs:280`) | after an exchange of the collateral asset, the fees of older loans are taken in the new one |
| `saving_shares` | "追踪所有参与saving的用户持有的share asset的比例" (`rio-saving/README.md:27`) | redeemed shares leave around the hooks and stay credited in `AccountShares` |
| `saving_bonus` | "that's the checkpoint to calculate and release bonus" (`rio-saving/src/lib.rs:314`) | when the last circulating shares are burnt, the bonus divides by zero in `on_initialize` |

The exceptions of passing properties, and what becomes of the code there:

* `CollateralIsLocked` is silent once root has exchanged an asset; `loan_fee` shows why.
* `BlocksGoOn` and `OverdrawnIsLiquidated` are silent about loans whose ratio has outgrown its type;
  `loan_ratio` shows what happens then.
* `IOUsAreBacked`, `SharesMatchIOUs` and, for the issuance, `QuotaIsKept` are silent once a call has
  failed half way: a saving that fails after its first mint leaves IOUs that nobody has paid for.
* `NoSilentLoss` counts a direct deposit whose mint failed as accounted for by the ghost `lost`. The
  code does lose it, no document says otherwise, and the property says that nothing else is lost.
* `MajorityBoundsPrice` permits a price below a whole majority where a mean wraps, and nowhere else.

Other statements of the repository that the code does not keep need no run, since one line shows each:

* `Paused` of the bridge, "module level switch" (`rio-bridge/src/lib.rs:71`) and "Overall swith"
  (`rio-bridge/README.md:12`), is written and never read.
* "Deposit amount above this amount will trigger KYC" (`rio-bridge/src/lib.rs:75`): the check at line
  142 is `>=`, so a deposit of exactly the threshold is held too. `KycBeforeCredit` states
  the documented rule.
* `set_global_liquidation_threshold`, "设置触发清算的LTV" (`rio-loan/README.org:109`: sets the LTV that
  triggers liquidation), writes the warning threshold, and the setter of that one writes the
  liquidation threshold (`rio-loan/src/lib.rs:354`, 361).
* "Loans which are in liquidating, these loans will not be in "Loans" & "LoansByAccount""
  (`rio-loan/src/lib.rs:284`): `liquidate_loan` (line 1131) leaves them in both, and
  `mark_loan_liquidated` relies on it. `IndexesAgree` states what the code keeps.
* `LoanCap`, which `rio-loan/README.md:43` calls a hard cap, is compared with the total before the
  new loan and not at all by `draw`.
* `FromId` and `ToId`, which "would not store in blockchain" (`rio-assets/src/lib.rs:135`), stay in
  storage because `FromToContext::new` returns `()` and its `Drop` never runs.
* Nothing ever adds to `ShareAssetCollected` (above).

Definitions with a comment "Slip:" are deliberately wrong variants of the definition
that follows them. Put in its place, each makes one of the properties fail, which
shows that the property depends on the code.

## 4. Proofs

Every theorem holds for every value of the constants that satisfies the modules' `ASSUME`s:
any sets of accounts, assets and amounts, any width of a balance, any bounds. TLC evaluates
the `ASSUME`s on the instances of section 3, and each inductive invariant was checked with TLC on
those instances too (`SavingInv` with the maps of packs typed entry by entry, since TLC cannot
enumerate the set of all such maps).

**`Sums`.** Conservation, backing and cover speak of sums over accounts, loans or lists, which
the models write with `SumFunction` of the community modules. The induction
theorems of the library take the statement as a parameter, which the provers cannot
instantiate; the lemmas here argue by a *minimal counterexample* instead: the set of subsets on
which a claim fails is a set, and a nonempty set of finite sets has a minimal element
(`MinimalSubset`), from which one element can be taken out. That a sum exists at all
(`AccumulatorExists`) and does not depend on the order in which elements are chosen
(`SumTakesOut`) come first; then one change of a summand (`SumChanges`), a movement between two
(`SumMoves`), restriction, addition, monotony, reindexing, and the sums of lists that the
pending withdrawals need.

**`AssetsProofs`.**

* `AssetsTypeCorrect`: no balance leaves its width. Inductive as it stands, since
  every addition is either checked or wraps in the model.
* `NothingBeforeCreateHolds`: an asset without a symbol has no issuance, balance or
  owner. It needs that the permission check fails for an asset without owners.
* `RenouncedIsFinal`: once nobody may update or mint an asset, that stays so and its issuance
  does not grow; an action property, from the type invariant and from the guard of
  `create` against ids in use.
* `IssuanceIsAlwaysHeld`: conservation. The code adds to balances without a check wherever it
  has checked the issuance; this is sound because a balance is at most the issuance
  (`HeldFits`), which is conservation itself, so type and conservation are proved together.

**`FeeProofs`.** `ChargesCancelOut`: the two imbalances of a charge change the issuance by
opposite amounts when they are dropped, unless a saturating addition hits the limit.
`LockedIsNeverSpendable`: an action property; the RFUEL bought with LOCKED_RFUEL is at most the fee
that the same charge takes (`BoughtBounds`, `ChargeWrites`).

**`BridgeProofs`.**

* `BridgeTypeCorrect`;
* `DepositsSafe`: the inductive invariant `DepositInv`, of which `NeverCreditedTwice` and
  `NothingLostSilently` are the corollaries. "Credited at most once" is not
  inductive: `mark_black` makes transactions reportable again, so one has to know that
  what it forgets was never credited (`HeldIsRecorded`: a held deposit is recorded under
  its own account and amount, uncredited, and held once) and that an unrecorded
  transaction is uncredited (`UnseenIsFresh`). That a transaction is held only once is what
  makes the loop of `mark_white` credit each once, also when a mint fails half way: the
  part put back and the part minted are disjoint.
* `KycPrecedesCredit`: an action property. A direct deposit above the threshold needs
  a white account by the guard; one credited by `mark_white` was in the list of its account,
  under the claim its history shows, which is `HeldIsRecorded` again.

* `BridgeImplementsDeposits`, the refinement. `DepositInv` lets the stage of a transaction be
  told from the history and the ghosts alone (`StageFromHistory`), so that a step has to be
  compared in those only. Each bridge action that touches deposits is then a step of `Deposits`
  (`DepositIsReport`, `MarkBlackIsDrop`, `MarkWhiteIsRelease`), and every other action of the
  bridge and of the ledger is a stutter.

* `VaultAlwaysCovers` and `AlwaysBacked`, together one inductive invariant `VaultInv` with
  conservation. Crediting a balance wraps in the code; that a transfer into the vault or out of it
  arrives in full needs that no balance exceeds the issuance. Removing a request lowers the sum of
  pending withdrawals by exactly its amount, also when the same amount is pending twice
  (`RemoveFirstSum`), and a `mark_white` that fails half way mints just the deposits that fit
  (`MarkWhiteKeeps`).

**`PriceProofs`.** `PriceTypeCorrect`, `AlwaysOneVoteEach` and `ReportsAlwaysRecent` from the
inductive invariant `PriceInv`, in which "one vote each" is that no reporter occurs at two
places (`Distinct`). `MajorityAlwaysBounds`: among the sorted reports the middle ones have half of
the reports on each side, so a majority cannot lie on one side only (`MedianOfMajority`). The
price is never above what all of a majority gave, whatever the others report; it can be below
only where the reports are even in number and the sum of the middle two wraps (`MeanWraps`), which
the code does not check (`rio-price/src/lib.rs:113`). That
the sort exists is `AscendingExists`, again by a minimal counterexample.

**`LoanProofs`.**

* `LoanTypeCorrect` and `IndexesAlwaysAgree`, proved together (`LoanIndexInv`):
  a loan's fees are well typed because its package exists, which the indexes say.
* `CollateralAlwaysLocked` and `DebtAlwaysIssued`, from `LoanLedgerInv`. The code adds to debts,
  collateral, `TotalLoan`, `TotalCollateral` and `TotalProfit` with plain operators, which wrap. That
  they never do is a fact about the *ledger*: in every asset, debts do not exceed the issuance,
  and pledges plus what all others hold do not either (`LedgerCovers`), and the issuance itself
  is checked. This must be said of every asset, not of the current two, because root may
  exchange the assets while loans of the old ones run; the totals compare with the ledger only
  until then (`AssetsOfGenesis`, `TotalsCover`). Borrowers and the liquidation account have to be
  neither of the module's two accounts (`Parties`), and a new package must not take the number of
  one in use (`PackagesNumbered`): without this the step of `create_package` cannot be proved,
  since it would change the asset in which running loans are counted. In a block, the fees moved out
  of the pawn shop are the sum of what the renewed loans lose (`BlockFees`; a fee above the
  collateral would leave none, and then the ratio that follows divides by zero); when that transfer
  fails, loans lose more than the pawn shop, which the inequality permits.
* `LiquidationAlwaysFinal`: an action property from the same invariant. That the debt of a
  liquidating loan does not shrink, and that the auction's payment arrives in full, both depend
  on additions that do not wrap.

**`SavingProofs`.** `SavingTypeCorrect`, `CirculationAddsUp`, `HoldersStayCredited`, `IOUsStayBacked`,
`QuotaStaysKept`, `ScheduleStaysInStep` and `SavingConserves`, all from the invariant `SavingInv`.

* The states in the middle of a call matter, so the invariant is a set of storage records.
  `Sound(P, v, x)` are those that are well typed, conserve every asset and are in step with the
  schedule (`InStep`), and that keep the promises `P`: "tracks" (the circulation is the sum of
  the shares), "credited" (nobody is credited with less than he holds) and "whole" (while the
  call has not failed, phase `p` has issued at most `v[p]` IOUs, and the collection account covers
  the IOUs outside it with `x` to spare). The allowances are what changes within a call: a saving
  issues IOUs before the saver pays, so `x` goes below zero by what has been taken and
  comes back to 0 with the transfer; a redemption passes through an `x` as large as the IOUs that
  have been sent in, and pays out no more.
* Every function of the module takes a sound record to a sound one with other allowances
  (`SoundMint`, `SoundBurn`, `SoundTransfer`, `SoundRegister`, `SoundShift`, `SoundStakeInPhase`,
  `SoundRedeem`, ...). A loop is a recursive function of its step (`RunExists` in `Sums`),
  and what each step keeps, the loop keeps (`StepsStay`): so for `ReleaseTerms`,
  `shares_release_by_phase_change`, `create_staking` and the payments of `dispatch_bonus`, with
  any number of packs, accounts and phases.
* `Standing(upset)` says which promises a history leaves standing; `Books` is that the storage is
  sound for them with allowance 0. `Committed` takes a record back to a state: what a call
  writes keeps the books, since a call that failed has made itself known in the ghost.
* None of the conclusions is inductive alone: a transfer or a redemption arrives in full only
  because of conservation; the releases of a phase change fit their terms only because the schedule is
  in step; that a holder stays credited when his shares are taken needs that he was credited
  with them.

**`RedeemProofs`.** `RedeemableStaysRedeemed`: between `check_can_redeem` and the end of
`make_redeem` nothing fails, so the list of packs that is taken out of storage first is never lost.
The argument compares what the check adds up with what the redemption spends, for any rates
and any packs:

* the shares locked for the amount are at most those the IOUs were issued for (`LockedFits`), and
  every shortage that the check has accepted is made up from the packs of the phase, in whole terms
  and from the free shares that are left (`ShortagesMadeUp`, `RedeemGoesThrough`);
* that the account still holds what is burnt or sent at each step is conservation, and that the
  collection account can pay is `IOUsAreBacked`: both come from `SavingInv`, in the state that the
  call has reached by then;
* assets of the genesis never lose their symbol (`SymbolsStay`), so mints, burns and transfers
  fail only for the reasons that the property excludes.

The proof showed what the property has to exclude. It had left out every history with a departure
from the ordinary; only two kinds matter, a call that failed half way and root's own
burns and transfers. And it holds of accounts whose shares fit a balance: `free_share_asset +
unrel_total_balance` (`rio-saving/src/lib.rs:658`) wraps otherwise. It now also speaks of `redeem`,
which burns the reserve before it begins, and not of `sudo_redeem` alone.

`SharesStayMatched`: `RatesFit => (SavingSpec => []SharesMatchIOUs)`. What is saved in one phase or
in several, released term by term, merged with other packs, traded and redeemed in any
mixture leaves as many shares, free and unreleased, as the exchange rates give for the IOUs outside.

* The hypothesis `RatesFit` is about the constants only: the rate of every phase is a multiple of the
  number of its terms, or the terms are at most three and the rate at least two; and all the shares
  that the quotas allow, times the number of phases, fit a balance. The rates and quotas of
  `mock.rs:58-67` and `chain_spec.rs:349-355` are such, and so are those of the run (TLC evaluates
  `RatesFitHere`). Without it the property is false: the last term of a pack is a subtraction that
  wraps when rounding up has used up the shares before (`rio-saving/src/lib.rs:1021`).
* `Due(s)` is by how much the IOUs are worth more than the shares. The invariant `SharesInv` is that
  nothing is due, and that every pack fits (`AllFitIn`): its terms are equal, or they are two at
  most. The second part is what makes the first inductive: only a pack that fits can be
  split anew, after a merger or a redemption, into terms that add up to what it was
  (`AggregateReckons`, `AfterReckons`); that a redemption takes a number that keeps the terms equal
  is `LockedIsMultiple`.
* Savings, mints and releases keep the balance one pack at a time (`SavingReckons`, `TermsReckon`,
  `ShiftReckons`), and a saving in several phases one phase at a time (`StakeReckons`,
  `CreateReckons`). A redemption is out of balance in between: the IOUs sent in leave `Due` below
  zero by what they are worth (`SentFacts`), and `make_redeem` takes exactly so many shares
  (`MakeRedeemReckons`), since none of its numbers wraps: all shares are what is owed (`OwedFits`).
* `SavingInv` is needed throughout: quotas bound the IOUs and so the shares, conservation makes
  transfers and burns exact, and the schedule says how many terms are left.

Here too the proof showed what the property has to exclude. A history in which tracking has given up
is no longer excused; one in which IOUs reached the collection account while the module
was paused is, since nobody redeems them.

**Only model-checked.**

* `BlocksGoOn`: no block is stopped but by a loan whose ratio has outgrown its type. Whether every
  division of `on_initialize` is by something other than zero, and whether a renewal can take a ratio
  that fits beyond the type, depends on the numbers. A price of zero, or a collateral and a price whose product wraps to zero, are
  within the types and stop the chain; the run shows that prices and fees alone do not lead
  there. An assumption that excludes all such cases would be the statement itself.
* The liveness properties `OverdrawnIsLiquidated` and `BonusCatchesUp`: they rest on fairness.
* The violation runs, which are counterexamples.

## 5. Not modelled

* The update of the fee multiplier, events, logging, weights and RPC.
* Runtime, node, primitives and scripts: configuration, glue and network I/O.
* `rio-oracle`'s `Oracles` and staking parameters, which no code uses, and the parts of the
  `Currency` view of an asset that no module calls (or that are `unimplemented!`).
* The comparisons of asset ids of `rio-saving` with zero: an id of its configuration is
  always that of an asset.
* A network of nodes: all modules run inside one deterministic block execution, and consensus
  and storage are Substrate's. So there are no lost or reordered messages; what is
  unreliable here is that calls come in any order, or not at all, and that they fail half way.

## 6. Plan

1. Done: `Assets`, `Fee`, `Bridge`, `Price`, `Loan`, `Saving` with their runs; `Deposits` and
   its refinement by `Bridge`; proofs of all safety invariants and action properties that the
   runs check, except `BlocksGoOn`.
2. A condition on prices and packages under which `BlocksGoOn` can be proved, if there is one that
   a configuration can be checked against.
