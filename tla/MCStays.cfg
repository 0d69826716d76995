CONSTANTS
    NoEndDate = NoEndDate
    LastDay = 6
    LastClock = 5
    Percents = {20, 60, 120}
    Lengths = {1, 6, 7, 8, 27, 28}
    GuestCounts = {2}
    SomeStays <- MCStaysOf
    SomeRooms <- MCRooms
    Clocks <- MCClocks
SPECIFICATION Spec
INVARIANTS IntersectIsSharedNight BestDiscountAlone PriceNeverFalls PriceIsNotNegative
