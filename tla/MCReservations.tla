--------------------------- MODULE MCReservations ---------------------------
(***************************************************************************)
(* Small instances of Reservations.  The discount of room 1 ends when day  *)
(* 0 begins; room 2 is priced so that a correct total has a fraction;      *)
(* room 9 does not exist.                                                  *)
(***************************************************************************)
EXTENDS Reservations, TLC

CONSTANTS h1, h2, h3

Special(percent, endDate) == [type |-> "Special", percent |-> percent, endDate |-> endDate]

MCRooms ==
    1 :> [price |-> 400, cleaningFee |-> 0, country |-> "SouthKorea",
          discounts |-> {Special(50, 0)}]
    @@ 2 :> [price |-> 10, cleaningFee |-> 1, country |-> "SouthKorea", discounts |-> {}]

\* The body a client sends that saw the price at the instant `clock`.
Body(room, checkIn, checkOut, clockSeen) ==
    [room |-> room, checkIn |-> checkIn, checkOut |-> checkOut, guestCnt |-> 1,
     price |-> TotalPrice(MCRooms[room], checkOut - checkIn, 1, clockSeen)]

\* A night inside a longer stay, stays that meet, and a price that is not there yet.
OneRoomRequests == {Body(1, 1, 4, 0), Body(1, 2, 3, 0), Body(1, 3, 4, 1)}

AllRequests ==
    OneRoomRequests \cup
    {Body(2, 2, 3, 0), [Body(1, 2, 3, 0) EXCEPT !.room = 9], [Body(1, 3, 3, 0) EXCEPT !.price = 0]}

Symmetry == Permutations(Handlers)
=============================================================================
