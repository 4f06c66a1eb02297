SPECIFICATION Spec
CONSTANTS
    AccountId = {o1, o2, o3}
    MaxPrice = 7
    ReportedPrice = {1, 3, 7}
    ReportInteval = 1
    MaxBlock = 5
SYMMETRY Symmetry
INVARIANTS
    PriceTypeOK
    OneVoteEach
    ReportsAreRecent
PROPERTIES
    MajorityBoundsPrice
