CONSTANTS
    NoEndDate = NoEndDate
    NoValue = NoValue
    h1 = h1
    h2 = h2
    h3 = h3
    Handlers = {h1, h2}
    Rooms <- MCRooms
    ReserveRequests <- AllRequests
    WrapperOutcomes = {"throws", "calls"}
    MaxReservations = 3
    MaxClock = 1
SPECIFICATION Spec
SYMMETRY Symmetry
INVARIANTS TypeOK NoOverlapWithWhatWasRead SoldAtMostOncePerHandler BookedAtAPriceOfThePast NobodyOwesMoreThanToday
PROPERTIES RowsOnlyGetCanceled RefusalHasAReason ImplementsLedger
