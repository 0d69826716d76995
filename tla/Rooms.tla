------------------------------- MODULE Rooms -------------------------------
(***************************************************************************)
(* RoomsService.create, and what becomes of its rooms: the countries they  *)
(* refer to and the reservations that are made in them, each request       *)
(* behind the guards of module Access.                                     *)
(*                                                                         *)
(* create inserts the row of the room, and then five groups of rows in     *)
(* parallel.  Each insert is a transaction: one may fail, because of what  *)
(* the body asks for (a rule that does not exist, a rate with a fraction)  *)
(* or of the database, while the others are stored.                        *)
(*                                                                         *)
(* Two groups of the body never reach the room.  The detail choices are    *)
(* inserted without the id of the room, and the amenities not at all:      *)
(* Repository.insert writes no rows of a many-to-many relation.            *)
(*                                                                         *)
(* WrapperOutcomes is that of module Reservations: @Transactional() also   *)
(* wraps the handler of POST /rooms, and at this commit the wrapper throws *)
(* before RoomsService.create.  {"throws"} is the program as it is, and    *)
(* "calls" adds what the services do once the wrapper calls them.          *)
(***************************************************************************)
EXTENDS Countries, Stays

CONSTANTS
    WrapperOutcomes,           \* what the wrapper around a handler may do
    MaxRooms, MaxReservations  \* bounds: rows

VARIABLES
    rooms,         \* rows, by id; `asked` is history: the groups of the body
    parts,         \* the groups of rows that are stored; `madeFor` is history: the
                   \* room they were inserted for, whatever room they refer to
    reservations,  \* rows, by id; `seen` is history: the groups that were read
    work,          \* by handler: its room, the inserts not yet done, the groups it read
    reported       \* history: the rooms that were answered to their hosts

catalogue == <<countries, rooms, parts, reservations, reported>>
vars      == <<access, catalogue, work>>

PartKinds == {"photos", "discounts", "ruleChoices", "customRules", "detailChoices"}

\* What a body may ask for.
BodyGroups == PartKinds \cup {"amenities"}

ASSUME RoomsAssumption ==
    /\ \A r \in Requests : r.route = "createRoom" => r.groups \subseteq BodyGroups
    /\ WrapperOutcomes \subseteq {"throws", "calls"}
    /\ NoValue \notin Nat

Nothing == [room |-> NoValue, pending |-> {}, seen |-> {}]

Init ==
    /\ AccessInit
    /\ CountriesInit
    /\ rooms = <<>>
    /\ parts = {}
    /\ reservations = <<>>
    /\ work = [h \in Handlers |-> Nothing]
    /\ reported = {}

NoWork(h) == work' = [work EXCEPT ![h] = Nothing]

\* The wrapper has no namespace and throws before it calls the handler: a 500.
WrapperThrows(h) ==
    /\ "throws" \in WrapperOutcomes
    /\ pc[h] \in {"createRoom", "reserve"}
    /\ Answer(h, "serverError")
    /\ NoWork(h)
    /\ UNCHANGED <<account, catalogue>>

----------------------------------------------------------------------------
(* POST /rooms                                                             *)

\* An empty array is inserted without a query; the discounts are always two rows.
Groups(body) == {"discounts"} \cup body.groups

\* Mutant: the host is not passed on.
NewRoomWithoutHost(h) ==
    [host |-> NoValue, country |-> request[h].country, price |-> request[h].price,
     cleaningFee |-> request[h].cleaningFee, asked |-> Groups(request[h])]

NewRoom(h) ==
    [host |-> acting[h], country |-> request[h].country, price |-> request[h].price,
     cleaningFee |-> request[h].cleaningFee, asked |-> Groups(request[h])]

\* The foreign key of the country is checked; a lost answer leaves a bare room.
InsertRoom(h) ==
    /\ "calls" \in WrapperOutcomes
    /\ pc[h] = "createRoom"
    /\ \/ /\ request[h].country \in LiveCountries
          /\ rooms' = Append(rooms, NewRoom(h))
          /\ \/ /\ Await(h, "insertParts")
                /\ work' = [work EXCEPT ![h].room = Len(rooms'),
                                        ![h].pending = Groups(request[h]) \cap PartKinds]
             \/ /\ \E a \in {"databaseError", NoValue} : Answer(h, a)
                /\ UNCHANGED work
       \/ /\ request[h].country \notin LiveCountries
          /\ Answer(h, "databaseError")
          /\ UNCHANGED <<rooms, work>>
    /\ UNCHANGED <<account, countries, parts, reservations, reported>>

\* Mutant: the discounts are not waited for.
DoneWithoutDiscounts(pending) == pending \subseteq {"discounts"}

\* parallelAsync.done() is fulfilled.
Done(pending) == pending = {}

\* The detail choices are inserted without the id of the room.
NewPart(kind, room) ==
    [kind |-> kind, room |-> IF kind = "detailChoices" THEN NoValue ELSE room, madeFor |-> room]

\* One insert is over, well or badly; the first failure is answered at once.
InsertPart(h, kind, succeeds) ==
    /\ pc[h] = "insertParts"
    /\ kind \in work[h].pending
    /\ LET room    == work[h].room
           pending == work[h].pending \ {kind}
           failed  == answer[h] # NoValue \/ ~succeeds
       IN  /\ parts' = IF succeeds THEN parts \cup {NewPart(kind, room)} ELSE parts
           /\ IF Done(pending)
              THEN /\ Answer(h, IF failed THEN "databaseError" ELSE "created")
                   /\ NoWork(h)
              ELSE /\ answer' = [answer EXCEPT ![h] = IF failed THEN "databaseError" ELSE NoValue]
                   /\ work' = [work EXCEPT ![h].pending = pending]
                   /\ UNCHANGED <<pc, request, acting>>
           /\ reported' = IF Done(pending) /\ ~failed THEN reported \cup {room} ELSE reported
    /\ UNCHANGED <<account, countries, rooms, reservations>>

\* The worker is killed; what PostgreSQL has not begun is not stored.
CrashInParts(h) ==
    /\ pc[h] = "insertParts"
    /\ Answer(h, answer[h])
    /\ NoWork(h)
    /\ UNCHANGED <<account, catalogue>>

----------------------------------------------------------------------------
(* POST /reservations, as in module Reservations: one query reads, another *)
(* inserts.  Time stands still here; all the stays are ahead.              *)

\* Mutant: rooms.create gives the discounts an end.
DiscountsWithEnd(room) == {[type |-> "Week", percent |-> 10, endDate |-> 9]}

\* The discounts that create inserts for a room: no endDate.
NewDiscounts(room) ==
    {[type |-> type, percent |-> 10, endDate |-> NoEndDate] : type \in {"Week", "Month"}}

\* The groups that refer to the room.
SeenParts(room) == {kind \in PartKinds : \E p \in parts : p.kind = kind /\ p.room = room}

\* What the query joins to the row of the room.
RoomAsRead(id) ==
    [price       |-> rooms[id].price,
     cleaningFee |-> rooms[id].cleaningFee,
     country     |-> countries[rooms[id].country],
     discounts   |-> IF "discounts" \in SeenParts(id) THEN NewDiscounts(id) ELSE {}]

Booked(room) == [id \in {i \in DOMAIN reservations : reservations[i].room = room} |-> reservations[id]]

FindAndValidate(h) ==
    /\ "calls" \in WrapperOutcomes
    /\ pc[h] = "reserve"
    /\ LET room    == request[h].room
           verdict == IF room \notin DOMAIN rooms THEN "serverError"
                      ELSE Verdict(RoomAsRead(room), request[h], Booked(room), 0)
       IN  \/ /\ verdict = "valid"
              /\ Await(h, "insertReservation")
              /\ work' = [work EXCEPT ![h].seen = SeenParts(room)]
           \/ /\ verdict # "valid"
              /\ Answer(h, verdict)
              /\ UNCHANGED work
    /\ UNCHANGED <<account, catalogue>>

NewReservation(h) ==
    [room |-> request[h].room, checkIn |-> request[h].checkIn,
     checkOut |-> request[h].checkOut, status |-> "REQUESTED", seen |-> work[h].seen]

InsertReservation(h) ==
    /\ pc[h] = "insertReservation"
    /\ reservations' = Append(reservations, NewReservation(h))
    /\ AnswerCommitted(h, "created")
    /\ NoWork(h)
    /\ UNCHANGED <<account, countries, rooms, parts, reported>>

----------------------------------------------------------------------------
\* Bounds: every request in flight has room for its row.
InFlight(route) == Cardinality({h \in Handlers : request[h] # NoValue /\ request[h].route = route})

Bounded ==
    /\ Len(countries) + InFlight("createCountry") <= MaxCountries
    /\ Len(rooms) + InFlight("createRoom") <= MaxRooms
    /\ Len(reservations) + InFlight("reserve") <= MaxReservations

\* Mutant: the relation has no foreign key.
NoForeignKey == {}

\* The countries that a foreign key of a room protects.
UsedCountries == {rooms[id].country : id \in DOMAIN rooms}

RoomStep(h) ==
    \/ WrapperThrows(h)
    \/ InsertRoom(h)
    \/ \E kind \in PartKinds, succeeds \in BOOLEAN : InsertPart(h, kind, succeeds)
    \/ CrashInParts(h)
    \/ FindAndValidate(h) \/ InsertReservation(h)
    \/ /\ Lose(h, {"createRoom", "reserve", "insertReservation"})
       /\ NoWork(h)
       /\ UNCHANGED catalogue

Next ==
    \/ AccessNext /\ UNCHANGED <<catalogue, work>> /\ Bounded'
    \/ \E h \in Handlers :
         /\ CountryStep(h, UsedCountries)
         /\ UNCHANGED <<rooms, parts, reservations, work, reported>>
    \/ \E h \in Handlers : RoomStep(h)

Spec == Init /\ [][Next]_vars

----------------------------------------------------------------------------
(* Properties.                                                             *)

\* Every variable has its type, and every row refers to rows that exist.
TypeOK ==
    /\ AccessTypeOK
    /\ \A id \in DOMAIN rooms : rooms[id].host \in DOMAIN users /\ rooms[id].asked \subseteq BodyGroups
    /\ parts \subseteq [kind: PartKinds, room: DOMAIN rooms \cup {NoValue}, madeFor: DOMAIN rooms]
    /\ \A id \in DOMAIN reservations : reservations[id].room \in DOMAIN rooms
    /\ reported \subseteq DOMAIN rooms
    /\ \A h \in Handlers :
         work[h].pending # {} => pc[h] = "insertParts" /\ work[h].room \in DOMAIN rooms

\* The groups that were inserted when the room was made.
MadeParts(room) == {kind \in PartKinds : \E p \in parts : p.kind = kind /\ p.madeFor = room}

(***************************************************************************)
(* A room that was reported to its host is not whole, but exactly two      *)
(* things are missing.  The rows that refer to it are those of the groups  *)
(* that the body asked for, and of no others, except its detail choices,   *)
(* which are stored without a room (rooms.service.ts:88), and its          *)
(* amenities, which are not stored (rooms.service.ts:55): whichever of the *)
(* parallel inserts was the last, and whatever others insert meanwhile.    *)
(***************************************************************************)
ReportedRoomLacksOnlyTheUnlinked ==
    \A room \in reported :
        /\ SeenParts(room) = rooms[room].asked \ {"detailChoices", "amenities"}
        /\ MadeParts(room) = rooms[room].asked \ {"amenities"}

(***************************************************************************)
(* A room's country is looked up, deleted and referred to by requests that *)
(* know nothing of each other; a room never loses its country.             *)
(***************************************************************************)
RoomsKeepTheirCountry == \A id \in DOMAIN rooms : rooms[id].country \in LiveCountries

(***************************************************************************)
(* Only a user whose address was verified at some time hosts a room,       *)
(* although saves of users that were read earlier come and go between the  *)
(* guards and the insert.                                                  *)
(***************************************************************************)
HostsWereVerified == \A id \in DOMAIN rooms : rooms[id].host \in activated

(***************************************************************************)
(* What create stores and what reserve reads do not fit: whoever gets a    *)
(* reservation got it while the discounts of the room were not stored, be  *)
(* it not yet or never.  A room that is whole cannot be reserved: its      *)
(* discounts have no endDate, and pricing them throws.                     *)
(***************************************************************************)
OnlyHalfMadeRoomsAreBooked ==
    \A id \in DOMAIN reservations : "discounts" \notin reservations[id].seen
=============================================================================
