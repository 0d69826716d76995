---------------------------- MODULE Reservations ----------------------------
(***************************************************************************)
(* ReservationsService: reserving a room and cancelling a reservation,     *)
(* over the rows that PostgreSQL holds.                                    *)
(*                                                                         *)
(* Each in-flight HTTP request is a Handler, in any worker of the pm2      *)
(* cluster.  A handler runs from one `await` to the next without being     *)
(* interrupted, and between two awaits every other handler may run: the    *)
(* actions of this module are those runs.  Nothing spans the `await`s:     *)
(* the repositories use the pool, so each query commits by itself.         *)
(*                                                                         *)
(* WrapperOutcomes says what the wrapper that @Transactional() puts around *)
(* the handler of POST /reservations may do.  It looks up the namespace    *)
(* that initializeTransactionalContext() makes, which nothing here calls,  *)
(* so it throws: {"throws"} is the program as it is, whose POST            *)
(* /reservations never reaches the service.  A set with "calls" also lets  *)
(* the service run, as it does when the decorator is taken off; what holds *)
(* for both outcomes together holds for either.                            *)
(*                                                                         *)
(* A row is never deleted and ids are handed out in commit order, so the   *)
(* table is a sequence.                                                    *)
(***************************************************************************)
EXTENDS Stays, Sequences

CONSTANTS
    Handlers,         \* requests that may be in flight at the same time
    Rooms,            \* [room id -> the row of the room, its discounts, country]
    ReserveRequests,  \* bodies of POST /reservations
    WrapperOutcomes,  \* what the wrapper around `reserve` may do
    NoValue,          \* an undefined variable of a handler
    MaxReservations,  \* bound: rows in the table
    MaxClock          \* bound: half days

ReserveRequest == [room: Nat, checkIn: Int, checkOut: Int, guestCnt: Nat, price: Int]
CancelRequest  == [id: Nat]

\* serverError: an exception no filter knows; databaseError: a query that failed.
Answers == {"created", "wrongDates", "unavailable", "priceChanged", "canceled",
            "serverError", "databaseError"}

ASSUME ReservationsAssumption ==
    /\ IsFiniteSet(Handlers)
    /\ DOMAIN Rooms \subseteq Nat
    /\ ReserveRequests \subseteq ReserveRequest
    /\ WrapperOutcomes \subseteq {"throws", "calls"}
    /\ MaxReservations \in Nat
    /\ MaxClock \in Nat
    /\ NoValue \notin ReserveRequest \cup CancelRequest \cup Answers

ASSUME PricedRoomsAssumption == \A room \in DOMAIN Rooms : Rooms[room] \in PricedRoom

VARIABLES
    clock,         \* half days since the first day
    reservations,  \* the rows of the table, by id
    pc,            \* what the handler waits for
    request,       \* the body, or the id in the path
    loaded,        \* the rows the handler read, by id
    answer,        \* the last answer of the handler
    view,          \* history: how many rows there were when the handler read
    origin         \* history, by id: the handler that inserted, and its view

rows     == <<reservations, origin>>
handling == <<pc, request, loaded, answer, view>>
vars     == <<clock, rows, handling>>

ReserveSteps == {"findRoom", "validate", "insert", "inserted"}
CancelSteps  == {"findReservation", "update", "updated"}

Ids == DOMAIN reservations

ReservationsOf(room) == {id \in Ids : reservations[id].room = room}

----------------------------------------------------------------------------
Init ==
    /\ clock = 0
    /\ reservations = <<>>
    /\ origin = <<>>
    /\ pc = [h \in Handlers |-> "idle"]
    /\ request = [h \in Handlers |-> NoValue]
    /\ loaded = [h \in Handlers |-> <<>>]
    /\ answer = [h \in Handlers |-> NoValue]
    /\ view = [h \in Handlers |-> 0]

\* The handler returns (or throws): only its answer is left of it.
Answer(h, a) ==
    /\ pc' = [pc EXCEPT ![h] = "idle"]
    /\ request' = [request EXCEPT ![h] = NoValue]
    /\ loaded' = [loaded EXCEPT ![h] = <<>>]
    /\ view' = [view EXCEPT ![h] = 0]
    /\ answer' = [answer EXCEPT ![h] = a]

Receive(h, step, r) ==
    /\ pc[h] = "idle"
    /\ pc' = [pc EXCEPT ![h] = step]
    /\ request' = [request EXCEPT ![h] = r]
    /\ answer' = [answer EXCEPT ![h] = NoValue]
    /\ UNCHANGED <<clock, rows, loaded, view>>

\* findOne...OrFail throws an EntityNotFoundError, and APP_FILTER is given the
\* class of that error where the filter for it belongs: the answer is a 500.
MissingRow == "serverError"

Await(h, step) ==
    /\ pc' = [pc EXCEPT ![h] = step]
    /\ UNCHANGED <<request, answer>>

----------------------------------------------------------------------------
(* POST /reservations                                                      *)

\* The wrapper has no namespace and throws before it calls the handler: a 500.
WrapperThrows(h) ==
    /\ "throws" \in WrapperOutcomes
    /\ pc[h] = "idle"
    /\ Answer(h, "serverError")
    /\ UNCHANGED <<clock, rows>>

\* The wrapper calls the handler.  Bound: every request in flight has room for its row.
ReceiveReserve(h) ==
    /\ "calls" \in WrapperOutcomes
    /\ Len(reservations) + Cardinality({g \in Handlers : pc[g] \in ReserveSteps})
         < MaxReservations
    /\ \E r \in ReserveRequests : Receive(h, "findRoom", r)

\* findOneOrFail: one query reads the room, its reservations and its discounts.
FindRoom(h) ==
    /\ pc[h] = "findRoom"
    /\ \/ /\ request[h].room \in DOMAIN Rooms
          /\ Await(h, "validate")
          /\ loaded' = [loaded EXCEPT ![h] =
                           [id \in ReservationsOf(request[h].room) |-> reservations[id]]]
          /\ view' = [view EXCEPT ![h] = Len(reservations)]
       \/ /\ request[h].room \notin DOMAIN Rooms
          /\ Answer(h, MissingRow)
    /\ UNCHANGED <<clock, rows>>

Validate(h) ==
    /\ pc[h] = "validate"
    /\ LET verdict == Verdict(Rooms[request[h].room], request[h], loaded[h], clock)
       IN  \/ /\ verdict = "valid"
              /\ Await(h, "insert")
              /\ UNCHANGED <<loaded, view>>
           \/ /\ verdict # "valid"
              /\ Answer(h, verdict)
    /\ UNCHANGED <<clock, rows>>

\* Mutant: the status is not set before the insert.
NewReservationWithoutStatus(r) ==
    [room |-> r.room, checkIn |-> r.checkIn, checkOut |-> r.checkOut,
     guestCnt |-> r.guestCnt, price |-> r.price, status |-> NoValue]

NewReservation(r) ==
    [room |-> r.room, checkIn |-> r.checkIn, checkOut |-> r.checkOut,
     guestCnt |-> r.guestCnt, price |-> r.price, status |-> "REQUESTED"]

Insert(h) ==
    /\ pc[h] = "insert"
    /\ \/ /\ FitsPriceColumn(request[h].price)
          /\ Await(h, "inserted")
          /\ reservations' = Append(reservations, NewReservation(request[h]))
          /\ origin' = Append(origin, [handler |-> h, view |-> view[h]])
          /\ UNCHANGED <<loaded, view>>
       \/ /\ ~FitsPriceColumn(request[h].price)
          /\ Answer(h, "databaseError")
          /\ UNCHANGED rows
    /\ UNCHANGED clock

ReplyReserved(h) ==
    /\ pc[h] = "inserted"
    /\ Answer(h, "created")
    /\ UNCHANGED <<clock, rows>>

----------------------------------------------------------------------------
(* DELETE /reservations/:id                                                *)

ReceiveCancel(h) ==
    \E id \in 1 .. MaxReservations : Receive(h, "findReservation", [id |-> id])

FindReservation(h) ==
    /\ pc[h] = "findReservation"
    /\ \/ /\ request[h].id \in Ids
          /\ Await(h, "update")
          /\ loaded' = [loaded EXCEPT ![h] = [id \in {request[h].id} |-> reservations[id]]]
          /\ UNCHANGED view
       \/ /\ request[h].id \notin Ids
          /\ Answer(h, MissingRow)
    /\ UNCHANGED <<clock, rows>>

\* Mutant: cancelling twice takes the cancellation back.
UpdateToggling(h) ==
    /\ pc[h] = "update"
    /\ Await(h, "updated")
    /\ reservations' =
         [reservations EXCEPT ![request[h].id] =
            [loaded[h][request[h].id] EXCEPT
               !.status = IF @ = "CANCELED" THEN "REQUESTED" ELSE "CANCELED"]]
    /\ UNCHANGED <<clock, origin, loaded, view>>

\* save(entity): every column of the row becomes that of the loaded entity.
Update(h) ==
    /\ pc[h] = "update"
    /\ Await(h, "updated")
    /\ reservations' =
         [reservations EXCEPT ![request[h].id] =
            [loaded[h][request[h].id] EXCEPT !.status = "CANCELED"]]
    /\ UNCHANGED <<clock, origin, loaded, view>>

ReplyCanceled(h) ==
    /\ pc[h] = "updated"
    /\ Answer(h, "canceled")
    /\ UNCHANGED <<clock, rows>>

----------------------------------------------------------------------------
(* The environment.                                                        *)

\* A query is refused, or commits and its acknowledgement is lost: 500.
DatabaseError(h) ==
    /\ pc[h] \in {"findRoom", "insert", "inserted", "findReservation",
                  "update", "updated"}
    /\ Answer(h, "databaseError")
    /\ UNCHANGED <<clock, rows>>

\* The worker is killed: the request has no answer, its commits remain.  The
\* step stands where PostgreSQL is done with the last query it was sent.
Crash(h) ==
    /\ pc[h] # "idle"
    /\ Answer(h, NoValue)
    /\ UNCHANGED <<clock, rows>>

Tick ==
    /\ clock < MaxClock
    /\ clock' = clock + 1
    /\ UNCHANGED <<rows, handling>>

\* What a handler does once its request has arrived.
Step(h) ==
    \/ FindRoom(h) \/ Validate(h) \/ Insert(h) \/ ReplyReserved(h)
    \/ FindReservation(h) \/ Update(h) \/ ReplyCanceled(h)

Next ==
    \/ \E h \in Handlers :
         \/ Step(h) \/ ReceiveReserve(h) \/ ReceiveCancel(h)
         \/ DatabaseError(h) \/ Crash(h) \/ WrapperThrows(h)
    \/ Tick

Spec == Init /\ [][Next]_vars

----------------------------------------------------------------------------
(* Properties.                                                             *)

Reservation ==
    [room: DOMAIN Rooms, checkIn: Int, checkOut: Int, guestCnt: Nat, price: Int,
     status: Statuses]

\* Every variable has its type, and a handler holds the request its step is for.
TypeOK ==
    /\ clock \in Nat
    /\ reservations \in Seq(Reservation)
    /\ origin \in Seq([handler: Handlers, view: Nat])
    /\ Len(origin) = Len(reservations)
    /\ pc \in [Handlers -> {"idle"} \cup ReserveSteps \cup CancelSteps]
    /\ request \in [Handlers -> ReserveRequests \cup CancelRequest \cup {NoValue}]
    /\ answer \in [Handlers -> Answers \cup {NoValue}]
    /\ view \in [Handlers -> Nat]
    /\ DOMAIN loaded = Handlers
    /\ \A h \in Handlers :
         /\ pc[h] \in ReserveSteps => request[h] \in ReserveRequests
         /\ pc[h] \in CancelSteps => request[h] \in CancelRequest
         /\ pc[h] \in {"validate", "insert"} => request[h].room \in DOMAIN Rooms
         /\ pc[h] = "update" => request[h].id \in Ids \cap DOMAIN loaded[h]
         /\ \A id \in DOMAIN loaded[h] : loaded[h][id] \in Reservation

\* Both reservations keep the room, and some night is in both stays.
Overlap(a, b) ==
    /\ a.room = b.room
    /\ IsScheduled(a) /\ IsScheduled(b)
    /\ Nights(a) \cap Nights(b) # {}

(***************************************************************************)
(* What `reserve` guarantees although its read and its insert are two      *)
(* transactions: a reservation never shares a night with one that was      *)
(* already committed when its handler read the room.  A double booking     *)
(* therefore needs the second guest's read before the first one's insert.  *)
(***************************************************************************)
NoOverlapWithWhatWasRead ==
    \A a, b \in Ids : a <= origin[b].view => ~Overlap(reservations[a], reservations[b])

(***************************************************************************)
(* A night of a room is sold at most once per request that may be in       *)
(* flight: overbooking does not pile up over time, however many rounds of  *)
(* requests, cancellations and crashes there are.                          *)
(***************************************************************************)
SoldAtMostOncePerHandler ==
    \A first \in Ids : \A night \in Nights(reservations[first]) :
        Cardinality({id \in ReservationsOf(reservations[first].room) :
                        /\ IsScheduled(reservations[id])
                        /\ night \in Nights(reservations[id])}) <= Cardinality(Handlers)

\* The price in `stay`, when it still lay ahead.
WasPriceAt(stay, time) ==
    /\ ~WrongDates(stay, time)
    /\ ~PricingThrows(Rooms[stay.room])
    /\ stay.price = TotalPrice(Rooms[stay.room], StayDays(stay), stay.guestCnt, time)

HasAPriceOfThePast(stay) == \E time \in 0 .. clock : WasPriceAt(stay, time)

(***************************************************************************)
(* Validation and insert are two steps and discounts end between them, so  *)
(* a reservation may be stored at a price that is no longer that of the    *)
(* room.  It always is the price of some earlier moment at which the stay  *)
(* could still be booked, and an amount that the column can hold.          *)
(***************************************************************************)
BookedAtAPriceOfThePast ==
    \A id \in Ids :
        HasAPriceOfThePast(reservations[id]) /\ FitsPriceColumn(reservations[id].price)

(***************************************************************************)
(* The outdated price is never to the guest's cost: however long ago the   *)
(* reservation was made, nobody owes more than the stay costs today.       *)
(***************************************************************************)
NobodyOwesMoreThanToday ==
    \A id \in Ids :
        LET row == reservations[id]
        IN  row.price <= TotalPrice(Rooms[row.room], StayDays(row), row.guestCnt, clock)

(***************************************************************************)
(* A taken night is not sold again ('예약 불가능한 일정입니다.',           *)
(* room.entity.ts:136).  The service keeps this with one handler; two that *)
(* both read the room before either inserts break it.                      *)
(***************************************************************************)
NoDoubleBooking ==
    \A a, b \in Ids : a # b => ~Overlap(reservations[a], reservations[b])

\* A stored row, or that row after a cancellation.
Evolves(old, new) == new \in {old, [old EXCEPT !.status = "CANCELED"]}

(***************************************************************************)
(* The inductive invariant behind NoOverlapWithWhatWasRead and             *)
(* SoldAtMostOncePerHandler.                                               *)
(***************************************************************************)
\* What a handler has read is the row of today, up to a cancellation.
ReadIsFaithful(h) ==
    pc[h] \in {"validate", "update"} =>
        \A id \in DOMAIN loaded[h] : id \in Ids /\ Evolves(loaded[h][id], reservations[id])

\* It has read every reservation of the room that its view covers.
ReadIsComplete(h) ==
    pc[h] = "validate" =>
        \A id \in 1 .. view[h] : reservations[id].room = request[h].room => id \in DOMAIN loaded[h]

\* What is about to be inserted is apart from all that its view covers.
ValidatedStaysApart(h) ==
    pc[h] = "insert" =>
        \A id \in 1 .. view[h] : ~Overlap(reservations[id], NewReservation(request[h]))

\* While a handler is at work, nothing newer than its view is its own.
NewerRowsAreOthers(h) ==
    pc[h] \in {"validate", "insert"} =>
        /\ view[h] <= Len(reservations)
        /\ \A id \in Ids : id > view[h] => origin[id].handler # h

\* A reservation that was committed during the work on another is of another handler.
UnseenRowsAreOthers ==
    \A a, b \in Ids : a < b /\ origin[b].view < a => origin[a].handler # origin[b].handler

IInv ==
    /\ TypeOK
    /\ \A h \in Handlers :
         ReadIsFaithful(h) /\ ReadIsComplete(h) /\ ValidatedStaysApart(h) /\ NewerRowsAreOthers(h)
    /\ \A id \in Ids : origin[id].view < id
    /\ NoOverlapWithWhatWasRead
    /\ UnseenRowsAreOthers

(***************************************************************************)
(* Cancelling writes back a whole row that was read earlier; all the same  *)
(* no step changes a stay or its price, drops a row, or brings a canceled  *)
(* reservation back.                                                       *)
(***************************************************************************)
RowsOnlyGetCanceled ==
    [][\A id \in Ids :
         id \in DOMAIN reservations' /\ Evolves(reservations[id], reservations'[id])]_rows

\* The rows that stand against the request of h: what it read of them, and they themselves.
Reasons(h) ==
    {id \in DOMAIN loaded[h] \cap 1 .. view[h] :
        /\ loaded[h][id].room = request[h].room
        /\ IsScheduled(loaded[h][id])
        /\ Nights(loaded[h][id]) \cap Nights(request[h]) # {}
        /\ Evolves(loaded[h][id], reservations[id])}

(***************************************************************************)
(* A guest is refused a schedule only because of a reservation of the same *)
(* room that was committed and still scheduled when the handler read it,   *)
(* and that takes one of the nights asked for: canceled stays do not count *)
(* (room.entity.ts:182), and departure and arrival on the same day do not  *)
(* collide.  The row is in the table to this moment, the same up to a      *)
(* cancellation that came after the read.                                  *)
(***************************************************************************)
RefusalHasAReason ==
    [][\A h \in Handlers :
         pc[h] = "validate" /\ answer'[h] = "unavailable" => Reasons(h) # {}]_vars

----------------------------------------------------------------------------
(* The book that the table stands for.                                     *)

EntryOf(reservation, handler) ==
    [room |-> reservation.room, nights |-> Nights(reservation),
     state |-> IF IsScheduled(reservation) THEN "booked" ELSE "canceled", by |-> handler]

BookOfRows == [id \in Ids |-> EntryOf(reservations[id], origin[id].handler)]

RequestedStays == {[room |-> r.room, nights |-> Nights(r)] : r \in ReserveRequests}

Abstract == INSTANCE Ledger WITH book <- BookOfRows, Requested <- RequestedStays

(***************************************************************************)
(* reserve and cancel, with their separate reads and writes, failing       *)
(* queries and crashes, do what the book allows: a booking is one step,    *)
(* which respects all that was committed when its handler read the room,   *)
(* all that this handler ever inserted included, and every other step is a *)
(* cancellation of one row or changes nothing.                             *)
(***************************************************************************)
ImplementsLedger == Abstract!Spec
=============================================================================
