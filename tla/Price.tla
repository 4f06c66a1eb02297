------------------------------- MODULE Price -------------------------------
(***************************************************************************)
(* rio-price and rio-oracle: members of the oracle collective report       *)
(* prices, and the end of every block makes the median of the reports the  *)
(* current price, then drops the reports of oracles that fell silent.      *)
(*                                                                         *)
(* The reports (rio-price) and the blocks they were made in (rio-oracle)   *)
(* are two storage items of two modules.  Prices are u128 and their sum    *)
(* wraps.                                                                  *)
(***************************************************************************)
EXTENDS Lists

CONSTANTS
    AccountId,      \* accounts that are ever members of the oracle collective
    MaxPrice,       \* Price::max_value()
    ReportedPrice,  \* the prices members report
    ReportInteval,  \* blocks a report stays valid
    MaxBlock        \* bound on the number of blocks

Price == 0 .. MaxPrice
PriceReport == [reporter : AccountId, price : Price]

ASSUME PriceAssumption ==
    /\ MaxPrice \in Nat
    /\ ReportedPrice \subseteq Price
    /\ ReportInteval \in Nat
    /\ MaxBlock \in Nat \ {0}

VARIABLES
    CurrentPrice,
    PriceReports,
    WitnessReport,
    block_number,
    members         \* the oracle collective, outside this repository

vars == <<CurrentPrice, PriceReports, WitnessReport, block_number, members>>

-----------------------------------------------------------------------------
\* Slip: the sum is not divided.
mean_sum(m, n) == m + n

mean(m, n) == ((m + n) % (MaxPrice + 1)) \div 2

\* Slip: the element after the middle one.
median_high(numbers) ==
    LET sorted == Ascending(numbers, DOMAIN numbers)
        n == Len(numbers)
    IN  numbers[sorted[IF n = 1 THEN 1 ELSE IF n \div 2 + 2 <= n THEN n \div 2 + 2 ELSE n]]

\* numbers[i] of the code, after the sort, is at(i + 1).
median(numbers) ==
    LET sorted == Ascending(numbers, DOMAIN numbers)
        at(i)  == numbers[sorted[i]]
        mid    == Len(numbers) \div 2
    IN  IF Len(numbers) > 1 /\ Len(numbers) % 2 = 0 THEN mean(at(mid), at(mid + 1))
                                                   ELSE at(mid + 1)

\* Slip: no oracle ever expires.
is_valid_always(who) == TRUE

is_valid(who) == WitnessReport[who] + ReportInteval >= block_number

Reporters == {PriceReports[i].reporter : i \in DOMAIN PriceReports}

\* Slip: every report is appended.
ReportsWith_append(who, price) == Append(PriceReports, [reporter |-> who, price |-> price])

\* A member's report replaces its last one or is appended.
ReportsWith(who, price) ==
    IF who \in Reporters
    THEN [i \in DOMAIN PriceReports |->
             IF PriceReports[i].reporter = who THEN [reporter |-> who, price |-> price]
                                               ELSE PriceReports[i]]
    ELSE Append(PriceReports, [reporter |-> who, price |-> price])

-----------------------------------------------------------------------------
Init ==
    /\ CurrentPrice = 0
    /\ PriceReports = <<>>
    /\ WitnessReport = [w \in AccountId |-> 0]
    /\ block_number = 1
    /\ members = AccountId

\* report: add_price and on_witnessed.
Report(who, price) ==
    /\ who \in members
    /\ PriceReports' = ReportsWith(who, price)
    /\ WitnessReport' = [WitnessReport EXCEPT ![who] = block_number]
    /\ UNCHANGED <<CurrentPrice, block_number, members>>

\* on_finalize, after which the next block begins.  The median is over all
\* reports, also those that this block drops.  OnChange, called when the price
\* differs, is () in the runtime.
OnFinalize ==
    LET price == median([i \in DOMAIN PriceReports |-> PriceReports[i].price])
    IN  /\ block_number < MaxBlock
        /\ CurrentPrice' = IF PriceReports # <<>> THEN price ELSE CurrentPrice
        /\ PriceReports' = Kept(PriceReports, {i \in DOMAIN PriceReports :
                                               is_valid(PriceReports[i].reporter)})
        /\ block_number' = block_number + 1
        /\ UNCHANGED <<WitnessReport, members>>

\* The collective replaces its members; their reports stay.
ChangeMembers(new) ==
    /\ members' = new
    /\ UNCHANGED <<CurrentPrice, PriceReports, WitnessReport, block_number>>

Next ==
    \/ \E who \in AccountId, p \in ReportedPrice : Report(who, p)
    \/ OnFinalize
    \/ \E new \in SUBSET AccountId : ChangeMembers(new)

Spec == Init /\ [][Next]_vars

-----------------------------------------------------------------------------
\* The storage items hold values of their types.
PriceTypeOK ==
    /\ CurrentPrice \in Price
    /\ PriceReports \in Seq(PriceReport)
    /\ WitnessReport \in [AccountId -> 0 .. MaxBlock]
    /\ block_number \in 1 .. MaxBlock
    /\ members \subseteq AccountId

\* However an oracle reports, falls silent, is dropped and comes back, it has
\* one vote in the median: add_price replaces its earlier report (lib.rs 80-100).
OneVoteEach == Cardinality(Reporters) = Len(PriceReports)

\* No report in the list was made more than ReportInteval + 1 blocks ago: the
\* median of a block may still use reports that expired with it, because
\* on_finalize drops them only afterwards, and none that expired before.
ReportsAreRecent ==
    \A who \in Reporters : /\ WitnessReport[who] >= 1
                           /\ WitnessReport[who] + ReportInteval + 1 >= block_number

\* The reports are even in number, and the sum of the middle two of them wraps.
MeanWraps ==
    LET prices == [i \in DOMAIN PriceReports |-> PriceReports[i].price]
        sorted == Ascending(prices, DOMAIN prices)
        mid    == Len(PriceReports) \div 2
    IN  /\ PriceReports # <<>> /\ Len(PriceReports) % 2 = 0
        /\ prices[sorted[mid]] + prices[sorted[mid + 1]] > MaxPrice

\* A minority of the oracles cannot move the price, however extreme its reports:
\* whenever the current price changes, any majority of the reporting oracles has
\* one that gave no less and one that gave no more.  Only where the mean of the
\* middle two of an even number of reports wraps may the price be below what all
\* of a majority gave; it is never above (lib.rs 112-130).
MajorityBoundsPrice ==
    [][CurrentPrice' # CurrentPrice =>
          \A M \in SUBSET DOMAIN PriceReports : 2 * Cardinality(M) > Len(PriceReports) =>
              /\ \E j \in M : CurrentPrice' <= PriceReports[j].price
              /\ MeanWraps \/ \E i \in M : PriceReports[i].price <= CurrentPrice']_vars
=============================================================================
