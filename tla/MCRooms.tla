------------------------------ MODULE MCRooms ------------------------------
(***************************************************************************)
(* Small instances of Rooms: every route that writes a country, a room or  *)
(* a reservation, with the tokens of the users and without one.            *)
(***************************************************************************)
EXTENDS Rooms, TLC

CONSTANTS h1, h2

MCRoleSets == {{}, {"Guest", "Admin"}}

\* 2 nights at 100 in SouthKorea.
FullPrice ==
    TotalPrice([price |-> 100, cleaningFee |-> 0, country |-> "SouthKorea", discounts |-> {}], 2, 1, 0)

MarketRequests ==
    {[route |-> "createCountry", token |-> NoValue, name |-> "SouthKorea"],
     [route |-> "removeCountry", token |-> 1, country |-> 1],
     [route |-> "removeCountry", token |-> NoValue, country |-> 1],
     [route |-> "findReservations", token |-> 1],
     [route |-> "reserve", token |-> 1, room |-> 1, checkIn |-> 1, checkOut |-> 3,
      guestCnt |-> 1, price |-> FullPrice]}
    \cup
    {[route |-> "createRoom", token |-> 1, country |-> 1, price |-> 100, cleaningFee |-> 0,
      groups |-> {"photos", "detailChoices", "amenities"}]}

AccessRequests == {[route |-> "findReservations", token |-> t] : t \in 1 .. MaxUsers}

AccessRoleSets == {{}, {"Guest"}, {"Admin"}}

Symmetry == Permutations(Handlers)
=============================================================================
