CONSTANTS
    Old = Old
    Resumers = {c1}
    Recoverers = {c2}
    Workers = {w1}
    MaxDeaths = 1
SPECIFICATION FairSpec
INVARIANTS
    DuplicateStandsDown
    InFlightStayRouted
PROPERTIES
    ConsumedUnderTheName
    TakeoverLeavesAHolder
CHECK_DEADLOCK FALSE
