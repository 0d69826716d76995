CONSTANTS
    NoEndDate = NoEndDate
    NoValue = NoValue
    h1 = h1
    h2 = h2
    Handlers = {h1, h2}
    WrapperOutcomes = {"throws", "calls"}
    Requests <- MarketRequests
    RoleSets <- MCRoleSets
    MaxUsers = 1
    MaxCountries = 3
    MaxRooms = 2
    MaxReservations = 2
SPECIFICATION Spec
SYMMETRY Symmetry
INVARIANTS TypeOK ReportedRoomLacksOnlyTheUnlinked RoomsKeepTheirCountry HostsWereVerified CountryNamesAreBounded OnlyHalfMadeRoomsAreBooked
