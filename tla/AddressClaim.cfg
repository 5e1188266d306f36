SPECIFICATION FairSpec
CONSTANTS
    Nodes = {1, 2, 3}
    Addresses = {1, 2, 3}
    ArbitraryRange = {2, 3}
    Preferred <- MCPreferred
    Arbitrary = {1, 2}
    Filter <- MCFilter
    MaxBatch = 2
    Scenarios <- MCScenarios
\* The bus comes to rest once everyone has an address.
CHECK_DEADLOCK FALSE
INVARIANTS
    AddressesDistinct
    TableAgrees
PROPERTY Settles
