CONSTANTS
    NoEndDate = NoEndDate
    NoValue = NoValue
    h1 = h1
    h2 = h2
    Handlers = {h1}
    WrapperOutcomes = {"throws"}
    Requests <- AccessRequests
    RoleSets <- AccessRoleSets
    MaxUsers = 2
    MaxCountries = 0
    MaxRooms = 0
    MaxReservations = 0
SPECIFICATION Spec
PROPERTIES RoleOfItsToken
