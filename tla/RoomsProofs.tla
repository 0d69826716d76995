----------------------------- MODULE RoomsProofs -----------------------------
(***************************************************************************)
(* What holds of Rooms for every set of handlers and requests and every    *)
(* bound.  Types underlies the rest: each of the other invariants is kept  *)
(* by every step of a state of the right types, for reasons of its own.    *)
(***************************************************************************)
EXTENDS Rooms, SequenceTheorems, FiniteSetTheorems, TLAPS

(***************************************************************************)
(* Tables are sequences of rows, to which a row is added at the end.       *)
(***************************************************************************)
IsTable(table) == table \in Seq({table[id] : id \in DOMAIN table})

LEMMA TableIds ==
  ASSUME NEW table, IsTable(table)
  PROVE  Len(table) \in Nat /\ DOMAIN table = 1 .. Len(table)
BY LenProperties DEF IsTable

\* `next` is `table` and a new row.
Inserted(table, row, next) ==
    /\ IsTable(next)
    /\ DOMAIN next = DOMAIN table \cup {Len(next)}
    /\ Len(next) \notin DOMAIN table
    /\ \A id \in DOMAIN table : next[id] = table[id]
    /\ next[Len(next)] = row

LEMMA AppendedRow ==
  ASSUME NEW table, IsTable(table), NEW row, NEW next, next = Append(table, row)
  PROVE  Inserted(table, row, next)
<1> DEFINE rows == {table[id] : id \in DOMAIN table}
           more == rows \cup {row}
<1>1. table \in Seq(more)
  BY SeqMonotonic DEF IsTable
<1> HIDE DEF rows, more
<1>2. row \in more
  BY DEF more
<1>3. /\ next \in Seq(more)
      /\ Len(next) = Len(table) + 1
      /\ \A id \in 1 .. Len(table) : next[id] = table[id]
      /\ next[Len(table) + 1] = row
  BY <1>1, <1>2, AppendProperties
<1>4. /\ Len(table) \in Nat /\ DOMAIN table = 1 .. Len(table)
      /\ DOMAIN next = 1 .. Len(next)
  BY <1>1, <1>3, LenProperties
<1>5. next \in [1 .. Len(next) -> {next[id] : id \in DOMAIN next}]
  BY <1>3, <1>4, LenProperties
<1>6. IsTable(next)
  BY <1>3, <1>4, <1>5, SeqDef DEF IsTable
<1>7. QED
  BY <1>3, <1>4, <1>6 DEF Inserted

LEMMA OverwrittenRow ==
  ASSUME NEW table, IsTable(table), NEW id \in DOMAIN table, NEW row,
         NEW next, next = [table EXCEPT ![id] = row]
  PROVE  IsTable(next) /\ DOMAIN next = DOMAIN table
<1>1. /\ Len(table) \in Nat /\ DOMAIN table = 1 .. Len(table)
      /\ table = [i \in DOMAIN table |-> table[i]]
  BY LenProperties DEF IsTable
<1>2. next = [i \in DOMAIN table |-> IF i = id THEN row ELSE table[i]]
  BY <1>1
<1> DEFINE rows == {next[i] : i \in DOMAIN next}
<1>3. next \in [1 .. Len(table) -> rows]
  BY <1>1, <1>2
<1>4. DOMAIN next = DOMAIN table
  BY <1>2
<1> HIDE DEF rows
<1>5. next \in UNION {[1 .. n -> rows] : n \in Nat}
  BY <1>1, <1>3
<1>6. next \in Seq(rows)
  BY <1>5, SeqDef, Zenon
<1>7. QED
  BY <1>4, <1>6 DEF rows, IsTable

----------------------------------------------------------------------------
(***************************************************************************)
(* Types.  A step that has the name of a route has the request of it, and  *)
(* a request that is past the guards acts as a user.                       *)
(***************************************************************************)
IsPerHandler(f) == f = [h \in Handlers |-> f[h]]

UserRows == [verified: BOOLEAN, roles: SUBSET {"Guest", "Host", "Admin"}]

Accounts == users \in Seq(UserRows) /\ activated \subseteq DOMAIN users

Handling ==
    /\ IsPerHandler(pc) /\ IsPerHandler(answer)
    /\ request \in [Handlers -> Requests \cup {NoValue}]
    /\ acting \in [Handlers -> DOMAIN users \cup {NoValue}]
    /\ \A h \in Handlers :
         /\ (pc[h] = "idle") <=> (request[h] = NoValue)
         /\ pc[h] \in Routes => request[h].route = pc[h]
         /\ pc[h] = "createRoom" => acting[h] \in DOMAIN users

Work ==
    /\ work \in [Handlers -> [room: DOMAIN rooms \cup {NoValue},
                              pending: SUBSET PartKinds, seen: SUBSET PartKinds]]
    /\ \A h \in Handlers :
         /\ work[h].pending # {} => pc[h] = "insertParts"
         /\ pc[h] = "insertParts" => work[h].room \in DOMAIN rooms
         /\ pc[h] = "insertReservation" => request[h].room \in DOMAIN rooms

Rows ==
    /\ IsTable(countries) /\ IsTable(rooms) /\ IsTable(reservations)
    /\ \A id \in DOMAIN rooms : rooms[id].host \in DOMAIN users /\ rooms[id].asked \subseteq BodyGroups
    /\ parts \subseteq [kind: PartKinds, room: DOMAIN rooms \cup {NoValue}, madeFor: DOMAIN rooms]
    /\ \A id \in DOMAIN reservations : reservations[id].room \in DOMAIN rooms
    /\ reported \subseteq DOMAIN rooms

Types == Accounts /\ Handling /\ Work /\ Rows

LEMMA TypesImplyTypeOK == Types => TypeOK
BY DEF Types, Accounts, Handling, Work, Rows, TypeOK, AccessTypeOK, UserRows

LEMMA TypesInit == Init => Types
<1> SUFFICES ASSUME Init
             PROVE  Types
  OBVIOUS
<1>1. Accounts
  BY DEF Init, AccessInit, Accounts
<1>2. Handling
  BY AccessAssumption DEF Init, AccessInit, Handling, IsPerHandler, Routes
<1>3. Work
  BY DEF Init, AccessInit, Work, Nothing
<1>4. << >> \in Seq({}) /\ DOMAIN << >> = {}
  OBVIOUS
<1>5. Rows
  BY <1>4 DEF Init, CountriesInit, Rows, IsTable
<1>6. QED
  BY <1>1, <1>2, <1>3, <1>5 DEF Types

(***************************************************************************)
(* The two ways in which a handler goes on.                                *)
(***************************************************************************)
LEMMA HandlingAnswered ==
  Types /\ UNCHANGED account /\ (\E h \in Handlers : \E a : Answer(h, a)) => Handling'
BY AccessAssumption DEF Types, Handling, Answer, IsPerHandler, account, Routes

LEMMA HandlingAwaits ==
  ASSUME NEW h \in Handlers, NEW step, step \notin Routes \cup {"idle"}
  PROVE  Types /\ UNCHANGED account /\ pc[h] # "idle" /\ Await(h, step) => Handling'
BY AccessAssumption DEF Types, Handling, Await, IsPerHandler, account, Routes

(***************************************************************************)
(* A step that leaves the work alone, of a handler that has none and that  *)
(* begins none.                                                            *)
(***************************************************************************)
LEMMA NoWorkDone ==
  ASSUME NEW h \in Handlers
  PROVE  /\ Types /\ UNCHANGED work /\ DOMAIN rooms \subseteq DOMAIN rooms' /\ pc[h] # "insertParts"
         /\ pc'[h] \notin {"insertParts", "insertReservation"}
         /\ \A g \in Handlers \ {h} : pc'[g] = pc[g] /\ request'[g] = request[g]
         => Work'
BY DEF Types, Work

LEMMA AccessKeepsTypes == Types /\ AccessNext /\ UNCHANGED <<catalogue, work>> => Types'
<1> SUFFICES ASSUME Types, AccessNext, UNCHANGED <<catalogue, work>>
             PROVE  Types'
  OBVIOUS
<1> USE DEF Types
<1>1. ASSUME UNCHANGED account, Handling', Work'
      PROVE  Types'
  BY <1>1 DEF Accounts, Rows, IsTable, account, catalogue
<1>2. ASSUME NEW h \in Handlers, UNCHANGED account, NEW a, Answer(h, a),
             pc[h] # "insertParts"
      PROVE  Types'
  <2>1. Handling'
    BY <1>2, HandlingAnswered
  <2>2. Work'
    BY <1>2, NoWorkDone DEF Answer, Handling, IsPerHandler, catalogue
  <2>3. QED
    BY <1>1, <1>2, <2>1, <2>2
<1>3. ASSUME NEW h \in Handlers, Receive(h)
      PROVE  Types'
  <2>1. PICK r \in Requests :
          /\ request' = [request EXCEPT ![h] = r]
          /\ \/ r.route \in PublicRoutes /\ pc' = [pc EXCEPT ![h] = r.route]
             \/ pc' = [pc EXCEPT ![h] = "authenticate"]
    BY <1>3 DEF Receive
  <2>2. pc[h] = "idle" /\ UNCHANGED <<acting, account>> /\ answer' = [answer EXCEPT ![h] = NoValue]
    BY <1>3 DEF Receive
  <2>3. Handling'
    BY <2>1, <2>2, AccessAssumption DEF Handling, IsPerHandler, Routes, PublicRoutes, account
  <2>4. Work'
    BY <2>1, <2>2, NoWorkDone DEF Handling, IsPerHandler, catalogue, PublicRoutes
  <2>5. QED
    BY <1>1, <2>2, <2>3, <2>4
<1>4. ASSUME NEW h \in Handlers, ReceiveWithoutToken(h)
      PROVE  Types'
  BY <1>2, <1>4 DEF ReceiveWithoutToken
<1>5. ASSUME NEW h \in Handlers, Authenticate(h)
      PROVE  Types'
  <2>1. CASE Await(h, "authenticateAgain")
    <3>1. Handling'
      BY <1>5, <2>1, HandlingAwaits DEF Authenticate, Routes
    <3>2. Work'
      BY <1>5, <2>1, NoWorkDone DEF Authenticate, Await, Handling, IsPerHandler, catalogue
    <3>3. QED
      BY <1>1, <1>5, <3>1, <3>2 DEF Authenticate
  <2>2. CASE \E a : Answer(h, a)
    BY <1>2, <1>5, <2>2 DEF Authenticate
  <2>3. QED
    BY <1>5, <2>1, <2>2 DEF Authenticate
<1>6. ASSUME NEW h \in Handlers, AuthenticateAgain(h)
      PROVE  Types'
  <2>1. CASE Refusal(request[h].token) = NoValue
    <3>1. /\ pc[h] = "authenticateAgain" /\ UNCHANGED <<request, answer, account>>
          /\ pc' = [pc EXCEPT ![h] = request[h].route]
          /\ acting' = [acting EXCEPT ![h] = FoundUser(request[h].token)]
      BY <1>6, <2>1 DEF AuthenticateAgain
    <3>2. request[h] \in Requests /\ request[h].route \in Routes
      BY <3>1, AccessAssumption DEF Handling
    <3>3. FoundUser(request[h].token) \in DOMAIN users
      <4>1. users # << >>
        BY <2>1, AccessAssumption DEF Refusal
      <4>2. QED
        BY <4>1 DEF Accounts, FoundUser
    <3>4. Handling'
      BY <3>1, <3>2, <3>3, AccessAssumption DEF Handling, IsPerHandler, Routes, account
    <3>5. Work'
      BY <3>1, <3>2, NoWorkDone DEF Handling, IsPerHandler, catalogue, Routes
    <3>6. QED
      BY <1>1, <3>1, <3>4, <3>5
  <2>2. CASE Refusal(request[h].token) # NoValue
    BY <1>2, <1>6, <2>2 DEF AuthenticateAgain
  <2>3. QED
    BY <2>1, <2>2
<1>7. ASSUME NEW h \in Handlers, FindReservations(h)
      PROVE  Types'
  BY <1>2, <1>7 DEF FindReservations
<1>8. ASSUME NEW h \in Handlers, Lose(h, {"authenticate", "authenticateAgain", "findReservations"})
      PROVE  Types'
  BY <1>2, <1>8 DEF Lose
<1>9. ASSUME UNCHANGED handling, users' \in Seq(UserRows), DOMAIN users \subseteq DOMAIN users',
             activated' \subseteq DOMAIN users'
      PROVE  Types'
  <2>1. Handling'
    BY <1>9 DEF Handling, IsPerHandler, handling
  <2>2. Work'
    BY <1>9 DEF Work, handling, catalogue
  <2>3. Rows'
    BY <1>9 DEF Rows, IsTable, catalogue
  <2>4. QED
    BY <1>9, <2>1, <2>2, <2>3 DEF Accounts
<1>10. CASE SignUp
  <2>1. [verified |-> FALSE, roles |-> {}] \in UserRows
    BY DEF UserRows
  <2>2. users' \in Seq(UserRows) /\ DOMAIN users \subseteq DOMAIN users'
    <3>1. /\ users' \in Seq(UserRows) /\ Len(users') = Len(users) + 1
      BY <1>10, <2>1, AppendProperties DEF SignUp, Table!Insert, Accounts
    <3>2. QED
      BY <3>1, LenProperties DEF Accounts
  <2>3. QED
    BY <1>9, <1>10, <2>2 DEF SignUp, Table!Insert, Accounts
<1>11. CASE SaveUser
  <2>1. PICK u \in DOMAIN users, verified \in BOOLEAN, roles \in RoleSets :
          /\ users' = [users EXCEPT ![u] = [verified |-> verified, roles |-> roles]]
          /\ activated' = IF verified THEN activated \cup {u} ELSE activated
    BY <1>11 DEF SaveUser, Table!Save
  <2> DEFINE row == [verified |-> verified, roles |-> roles]
  <2>2. row \in UserRows
    BY AccessAssumption DEF UserRows
  <2>3. users' \in Seq(UserRows) /\ DOMAIN users' = DOMAIN users
    <3>1. users' = [users EXCEPT ![u] = row] /\ u \in 1 .. Len(users)
      BY <2>1, LenProperties DEF Accounts
    <3> HIDE DEF row
    <3>2. users' \in Seq(UserRows)
      BY <2>2, <3>1, ExceptSeq DEF Accounts
    <3>3. QED
      BY <3>1, <3>2
  <2>4. activated' \subseteq DOMAIN users
    BY <2>1 DEF Accounts
  <2>5. QED
    BY <1>9, <1>11, <2>3, <2>4 DEF SaveUser, Table!Save
<1>12. QED
  BY <1>3, <1>4, <1>5, <1>6, <1>7, <1>8, <1>10, <1>11 DEF AccessNext

LEMMA CountriesKeepTypes ==
  ASSUME NEW h \in Handlers, NEW used
  PROVE  Types /\ CountryStep(h, used) /\ UNCHANGED <<rooms, parts, reservations, work, reported>>
         => Types'
<1> SUFFICES ASSUME Types, CountryStep(h, used),
                    UNCHANGED <<rooms, parts, reservations, work, reported>>
             PROVE  Types'
  OBVIOUS
<1> USE DEF Types
<1>1. ASSUME UNCHANGED account, IsTable(countries)', Handling', Work'
      PROVE  Types'
  BY <1>1 DEF Accounts, Rows, IsTable, account
<1>2. ASSUME UNCHANGED account, IsTable(countries)', pc[h] # "insertParts", NEW a, Answer(h, a)
      PROVE  Types'
  <2>1. Work'
    BY <1>2, NoWorkDone DEF Answer, Handling, IsPerHandler
  <2>2. QED
    BY <1>1, <1>2, <2>1, HandlingAnswered
<1>3. ASSUME UNCHANGED account, UNCHANGED countries, pc[h] \in Routes,
             NEW step \in {"insertCountry", "deleteCountry"}, Await(h, step)
      PROVE  Types'
  <2>1. Handling'
    BY <1>3, HandlingAwaits, AccessAssumption DEF Routes
  <2>2. Work'
    BY <1>3, NoWorkDone DEF Await, Handling, IsPerHandler, Routes
  <2>3. QED
    BY <1>1, <1>3, <2>1, <2>2 DEF Rows, IsTable
<1>4. CASE FindCountryNamed(h)
  BY <1>2, <1>3, <1>4 DEF FindCountryNamed, Routes, Rows, IsTable
<1>5. CASE InsertCountry(h)
  <2>1. IsTable(countries)'
    <3>1. IsTable(countries) /\ countries' = Append(countries, request[h].name)
      BY <1>5 DEF InsertCountry, Rows
    <3>2. Inserted(countries, request[h].name, countries')
      BY <3>1, AppendedRow
    <3>3. QED
      BY <3>2 DEF Inserted
  <2>2. QED
    BY <1>2, <1>5, <2>1 DEF InsertCountry, AnswerCommitted
<1>6. CASE FindCountry(h)
  BY <1>2, <1>3, <1>6 DEF FindCountry, Routes, Rows, IsTable
<1>7. CASE DeleteCountry(h, used)
  <2>1. IsTable(countries)'
    <3>1. CASE request[h].country \in DOMAIN countries
      BY <1>7, <3>1, OverwrittenRow DEF DeleteCountry, Rows, IsTable
    <3>2. CASE request[h].country \notin DOMAIN countries
      <4>1. countries = [id \in DOMAIN countries |-> countries[id]]
        BY LenProperties DEF Rows, IsTable
      <4>2. UNCHANGED countries
        BY <1>7, <3>2, <4>1 DEF DeleteCountry
      <4>3. QED
        BY <4>2 DEF Rows, IsTable
    <3>3. QED
      BY <3>1, <3>2
  <2>2. QED
    BY <1>2, <1>7, <2>1 DEF DeleteCountry, AnswerCommitted
<1>8. CASE Lose(h, {"createCountry", "insertCountry", "removeCountry", "deleteCountry"})
            /\ UNCHANGED countries
  BY <1>2, <1>8 DEF Lose, Rows, IsTable
<1>9. QED
  BY <1>4, <1>5, <1>6, <1>7, <1>8 DEF CountryStep

LEMMA RoomsKeepTypes ==
  ASSUME NEW h \in Handlers
  PROVE  Types /\ RoomStep(h) => Types'
<1> SUFFICES ASSUME Types, RoomStep(h)
             PROVE  Types'
  OBVIOUS
<1> USE DEF Types
<1>1. ASSUME UNCHANGED account, Handling', Work', Rows'
      PROVE  Types'
  BY <1>1 DEF Accounts, account
<1>2. ASSUME NEW a, Answer(h, a), NoWork(h), DOMAIN rooms \subseteq DOMAIN rooms'
      PROVE  Work'
  BY <1>2 DEF Answer, NoWork, Nothing, Work, Handling, IsPerHandler
<1>3. ASSUME UNCHANGED catalogue
      PROVE  Rows' /\ DOMAIN rooms \subseteq DOMAIN rooms'
  <2>1. UNCHANGED <<rooms, parts, reservations, reported, countries>>
    BY <1>3 DEF catalogue
  <2>2. users' = users => Rows'
    BY <2>1 DEF Rows, IsTable
  <2>3. users' = users
    BY DEF RoomStep, WrapperThrows, InsertRoom, InsertPart, CrashInParts, FindAndValidate,
           InsertReservation, Lose, account
  <2>4. QED
    BY <2>1, <2>2, <2>3
<1>4. CASE InsertRoom(h)
  <2>1. pc[h] = "createRoom" /\ UNCHANGED <<account, countries, parts, reservations, reported>>
    BY <1>4 DEF InsertRoom
  <2>2. /\ request[h] \in Requests /\ request[h].route = "createRoom"
        /\ acting[h] \in DOMAIN users
    BY <2>1 DEF Handling, Routes
  <2>3. Groups(request[h]) \subseteq BodyGroups
    BY <2>2, RoomsAssumption DEF Groups, BodyGroups, PartKinds
  <2>4. CASE request[h].country \in LiveCountries
    <3>1. IsTable(rooms) /\ rooms' = Append(rooms, NewRoom(h))
      BY <1>4, <2>4 DEF InsertRoom, Rows
    <3>2. Inserted(rooms, NewRoom(h), rooms')
      BY <3>1, AppendedRow
    <3>3. Rows'
      <4>1. IsTable(countries)' /\ IsTable(reservations)'
        BY <2>1 DEF Rows, IsTable
      <4>2. NewRoom(h).host \in DOMAIN users /\ NewRoom(h).asked \subseteq BodyGroups
        BY <2>2, <2>3 DEF NewRoom
      <4>3. \A id \in DOMAIN rooms' : rooms'[id].host \in DOMAIN users /\ rooms'[id].asked \subseteq BodyGroups
        BY <3>2, <4>2 DEF Rows, Inserted
      <4>4. UNCHANGED <<users, parts, reservations, reported>>
        BY <2>1 DEF account
      <4>5. QED
        BY <3>2, <4>1, <4>3, <4>4 DEF Rows, Inserted
    <3>4. CASE /\ Await(h, "insertParts")
               /\ work' = [work EXCEPT ![h].room = Len(rooms'),
                                       ![h].pending = Groups(request[h]) \cap PartKinds]
      <4>1. Handling'
        BY <2>1, <3>4, HandlingAwaits DEF Routes
      <4>2. /\ work'[h] = [work[h] EXCEPT !.room = Len(rooms'), !.pending = Groups(request[h]) \cap PartKinds]
            /\ \A g \in Handlers \ {h} : work'[g] = work[g] /\ pc'[g] = pc[g]
            /\ pc'[h] = "insertParts" /\ UNCHANGED request
            /\ work' = [g \in Handlers |-> work'[g]]
        BY <3>4 DEF Await, Work, Handling, IsPerHandler
      <4>3. \A g \in Handlers \ {h} :
              /\ work'[g] \in [room: DOMAIN rooms' \cup {NoValue},
                                pending: SUBSET PartKinds, seen: SUBSET PartKinds]
              /\ work'[g].pending # {} => pc'[g] = "insertParts"
              /\ pc'[g] = "insertParts" => work'[g].room \in DOMAIN rooms'
              /\ pc'[g] = "insertReservation" => request'[g].room \in DOMAIN rooms'
        <5>1. DOMAIN rooms \subseteq DOMAIN rooms'
          BY <3>2 DEF Inserted
        <5>2. QED
          BY <4>2, <5>1 DEF Work
      <4>4. /\ work'[h] \in [room: DOMAIN rooms' \cup {NoValue},
                              pending: SUBSET PartKinds, seen: SUBSET PartKinds]
            /\ work'[h].room \in DOMAIN rooms'
        <5>1. Groups(request[h]) \cap PartKinds \in SUBSET PartKinds
          OBVIOUS
        <5>2. /\ work[h] \in [room: DOMAIN rooms \cup {NoValue},
                                pending: SUBSET PartKinds, seen: SUBSET PartKinds]
              /\ Len(rooms') \in DOMAIN rooms'
          BY <3>2 DEF Work, Inserted
        <5>3. QED
          BY <4>2, <5>1, <5>2
      <4>5. Work'
        BY <4>2, <4>3, <4>4 DEF Work
      <4>6. QED
        BY <1>1, <2>1, <3>3, <4>1, <4>5
    <3>5. CASE (\E a : Answer(h, a)) /\ UNCHANGED work
      <4>1. Work'
        BY <2>1, <3>2, <3>5, NoWorkDone DEF Inserted, Answer, Handling, IsPerHandler
      <4>2. QED
        BY <1>1, <2>1, <3>3, <3>5, <4>1, HandlingAnswered
    <3>6. QED
      BY <1>4, <2>4, <3>4, <3>5 DEF InsertRoom
  <2>5. CASE request[h].country \notin LiveCountries
    <3>1. Answer(h, "databaseError") /\ UNCHANGED <<rooms, work>>
      BY <1>4, <2>5 DEF InsertRoom
    <3>2. Work'
      BY <2>1, <3>1, NoWorkDone DEF Answer, Handling, IsPerHandler
    <3>3. Rows'
      BY <1>3, <2>1, <3>1 DEF catalogue
    <3>4. QED
      BY <1>1, <2>1, <3>1, <3>2, <3>3, HandlingAnswered
  <2>6. QED
    BY <2>4, <2>5
<1>5. ASSUME NEW kind \in PartKinds, NEW succeeds \in BOOLEAN, InsertPart(h, kind, succeeds)
      PROVE  Types'
  <2> DEFINE room    == work[h].room
             pending == work[h].pending \ {kind}
  <2>1. /\ pc[h] = "insertParts" /\ room \in DOMAIN rooms
        /\ UNCHANGED <<account, countries, rooms, reservations>>
    BY <1>5 DEF InsertPart, Work
  <2>2. parts' \subseteq parts \cup {NewPart(kind, room)} /\ reported' \subseteq reported \cup {room}
    BY <1>5 DEF InsertPart
  <2>3. Rows'
    BY <2>1, <2>2 DEF Rows, NewPart, account, IsTable
  <2>4. CASE Done(pending)
    <3>1. (\E a : Answer(h, a)) /\ NoWork(h)
      BY <1>5, <2>4 DEF InsertPart
    <3>2. QED
      BY <1>1, <1>2, <2>1, <2>3, <3>1, HandlingAnswered
  <2>5. CASE ~Done(pending)
    <3>1. /\ \E a : answer' = [answer EXCEPT ![h] = a]
          /\ work' = [work EXCEPT ![h].pending = pending]
          /\ UNCHANGED <<pc, request, acting>>
      BY <1>5, <2>5 DEF InsertPart
    <3>2. Handling'
      BY <2>1, <3>1 DEF Handling, IsPerHandler, account
    <3>3. Work'
      BY <2>1, <3>1 DEF Work
    <3>4. QED
      BY <1>1, <2>1, <2>3, <3>2, <3>3
  <2>6. QED
    BY <2>4, <2>5
<1>6. CASE CrashInParts(h)
  BY <1>1, <1>2, <1>3, <1>6, HandlingAnswered DEF CrashInParts
<1>7. CASE FindAndValidate(h)
  <2>1. pc[h] = "reserve" /\ UNCHANGED account /\ UNCHANGED catalogue
    BY <1>7 DEF FindAndValidate
  <2>2. CASE /\ Await(h, "insertReservation") /\ request[h].room \in DOMAIN rooms
             /\ work' = [work EXCEPT ![h].seen = SeenParts(request[h].room)]
    <3>1. Handling'
      BY <2>1, <2>2, HandlingAwaits DEF Routes
    <3>2. SeenParts(request[h].room) \subseteq PartKinds
      BY DEF SeenParts
    <3>3. Work'
      BY <2>1, <2>2, <3>2 DEF Work, Await, Handling, IsPerHandler, catalogue
    <3>4. QED
      BY <1>1, <1>3, <2>1, <3>1, <3>3
  <2>3. CASE (\E a : Answer(h, a)) /\ UNCHANGED work
    <3>1. Work'
      BY <2>1, <2>3, NoWorkDone DEF Answer, Handling, IsPerHandler, catalogue
    <3>2. QED
      BY <1>1, <1>3, <2>1, <2>3, <3>1, HandlingAnswered
  <2>4. QED
    BY <1>7, <2>2, <2>3 DEF FindAndValidate
<1>8. CASE InsertReservation(h)
  <2>1. /\ pc[h] = "insertReservation" /\ request[h].room \in DOMAIN rooms
        /\ UNCHANGED <<account, countries, rooms, parts, reported>>
        /\ reservations' = Append(reservations, NewReservation(h))
        /\ (\E a : Answer(h, a)) /\ NoWork(h)
    BY <1>8 DEF InsertReservation, AnswerCommitted, Work
  <2> IsTable(reservations)
    BY DEF Rows
  <2>2. Inserted(reservations, NewReservation(h), reservations')
    BY <2>1, AppendedRow
  <2>3. NewReservation(h).room = request[h].room
    BY DEF NewReservation
  <2>4. Rows'
    BY <2>1, <2>2, <2>3 DEF Rows, account, IsTable, Inserted
  <2>5. QED
    BY <1>1, <1>2, <2>1, <2>4, HandlingAnswered
<1>9. CASE Lose(h, {"createRoom", "reserve", "insertReservation"}) /\ NoWork(h) /\ UNCHANGED catalogue
  BY <1>1, <1>2, <1>3, <1>9, HandlingAnswered DEF Lose
<1>10. CASE WrapperThrows(h)
  BY <1>1, <1>2, <1>3, <1>10, HandlingAnswered DEF WrapperThrows
<1>11. QED
  BY <1>4, <1>5, <1>6, <1>7, <1>8, <1>9, <1>10 DEF RoomStep

THEOREM TypesHold == Spec => []Types
<1>1. Types /\ [Next]_vars => Types'
  <2> SUFFICES ASSUME Types, [Next]_vars
               PROVE  Types'
    OBVIOUS
  <2>1. CASE UNCHANGED vars
    BY <2>1 DEF vars, access, account, handling, catalogue, Types, Accounts, Handling, Work, Rows,
                IsTable, IsPerHandler
  <2>2. QED
    BY <2>1, AccessKeepsTypes, CountriesKeepTypes, RoomsKeepTypes DEF Next
<1>2. QED
  BY <1>1, TypesInit, PTL DEF Spec

THEOREM TypeCorrectness == Spec => []TypeOK
BY TypesHold, TypesImplyTypeOK, PTL

----------------------------------------------------------------------------
\* The guards lead to routes, not to the steps of one, and to createRoom only as
\* a user whom the last guard found verified.
Guarded(h) ==
    \/ pc'[h] = pc[h] /\ answer'[h] = answer[h] /\ acting'[h] = acting[h]
    \/ pc'[h] \in {"idle", "authenticate", "authenticateAgain"} \cup (Routes \ {"createRoom"})
    \/ /\ pc'[h] = "createRoom"
       /\ Refusal(request[h].token) = NoValue
       /\ acting'[h] = FoundUser(request[h].token)

LEMMA AccessIsGuarded == Types /\ AccessNext => \A g \in Handlers : Guarded(g)
<1> SUFFICES ASSUME Types, AccessNext, NEW g \in Handlers
             PROVE  Guarded(g)
  OBVIOUS
<1> USE DEF IsPerHandler, Guarded
<1>1. /\ IsPerHandler(pc) /\ IsPerHandler(answer) /\ IsPerHandler(acting)
      /\ request \in [Handlers -> Requests \cup {NoValue}]
      /\ \A h \in Handlers : (pc[h] = "idle") <=> (request[h] = NoValue)
  BY DEF Types, Handling
<1>2. ASSUME NEW h \in Handlers, NEW a, Answer(h, a)
      PROVE  Guarded(g)
  BY <1>1, <1>2 DEF Answer
<1>3. ASSUME NEW h \in Handlers, Receive(h)
      PROVE  Guarded(g)
  BY <1>1, <1>3, AccessAssumption DEF Receive, PublicRoutes, Routes
<1>4. ASSUME NEW h \in Handlers, Authenticate(h)
      PROVE  Guarded(g)
  <2>1. CASE Await(h, "authenticateAgain")
    BY <1>1, <2>1 DEF Await
  <2>2. CASE \E a : Answer(h, a)
    BY <1>2, <2>2
  <2>3. QED
    BY <1>4, <2>1, <2>2 DEF Authenticate
<1>5. ASSUME NEW h \in Handlers, AuthenticateAgain(h)
      PROVE  Guarded(g)
  <2>1. CASE /\ pc[h] = "authenticateAgain" /\ pc' = [pc EXCEPT ![h] = request[h].route]
             /\ Refusal(request[h].token) = NoValue /\ UNCHANGED answer
             /\ acting' = [acting EXCEPT ![h] = FoundUser(request[h].token)]
    BY <1>1, <2>1, AccessAssumption
  <2>2. CASE \E a : Answer(h, a)
    BY <1>2, <2>2
  <2>3. QED
    BY <1>5, <2>1, <2>2 DEF AuthenticateAgain
<1>6. ASSUME UNCHANGED handling
      PROVE  Guarded(g)
  BY <1>6 DEF handling
<1>7. QED
  BY <1>2, <1>3, <1>4, <1>5, <1>6
     DEF AccessNext, ReceiveWithoutToken, FindReservations, Lose, SignUp, SaveUser

----------------------------------------------------------------------------
(***************************************************************************)
(* The country of a room: its foreign key is checked by the statement that *)
(* inserts the room and by the one that deletes the country, however long  *)
(* ago the handlers looked the country up.                                 *)
(***************************************************************************)
THEOREM CountriesOfRoomsStay == Spec => []RoomsKeepTheirCountry
<1>1. Init => RoomsKeepTheirCountry
  BY DEF Init, RoomsKeepTheirCountry
<1>2. Types /\ RoomsKeepTheirCountry /\ [Next]_vars => RoomsKeepTheirCountry'
  <2> SUFFICES ASSUME Types, RoomsKeepTheirCountry, [Next]_vars
               PROVE  RoomsKeepTheirCountry'
    OBVIOUS
  <2> IsTable(rooms) /\ IsTable(countries)
    BY DEF Types, Rows
  <2>1. CASE UNCHANGED <<countries, rooms>>
    BY <2>1 DEF RoomsKeepTheirCountry, LiveCountries
  <2>2. ASSUME NEW h \in Handlers, InsertRoom(h)
        PROVE  RoomsKeepTheirCountry'
    <3>1. CASE request[h].country \in LiveCountries
      <4>1. rooms' = Append(rooms, NewRoom(h)) /\ UNCHANGED countries
        BY <2>2, <3>1 DEF InsertRoom
      <4>2. Inserted(rooms, NewRoom(h), rooms')
        BY <4>1, AppendedRow
      <4>3. QED
        BY <3>1, <4>1, <4>2 DEF RoomsKeepTheirCountry, LiveCountries, Inserted, NewRoom
    <3>2. CASE request[h].country \notin LiveCountries
      BY <2>1, <2>2, <3>2 DEF InsertRoom
    <3>3. QED
      BY <3>1, <3>2
  <2>3. ASSUME NEW h \in Handlers, InsertCountry(h), UNCHANGED rooms
        PROVE  RoomsKeepTheirCountry'
    <3>1. countries' = Append(countries, request[h].name)
      BY <2>3 DEF InsertCountry
    <3>2. Inserted(countries, request[h].name, countries')
      BY <3>1, AppendedRow
    <3>3. QED
      BY <2>3, <3>2 DEF RoomsKeepTheirCountry, LiveCountries, Inserted
  <2>4. ASSUME NEW h \in Handlers, DeleteCountry(h, UsedCountries), UNCHANGED rooms
        PROVE  RoomsKeepTheirCountry'
    <3>1. CASE UNCHANGED countries
      BY <2>1, <2>4, <3>1
    <3>2. CASE /\ request[h].country \notin UsedCountries
               /\ countries' = [countries EXCEPT ![request[h].country] = NoValue]
      BY <2>4, <3>2 DEF RoomsKeepTheirCountry, LiveCountries, UsedCountries
    <3>3. QED
      BY <2>4, <3>1, <3>2 DEF DeleteCountry
  <2>5. CASE UNCHANGED vars
    BY <2>1, <2>5 DEF vars, catalogue
  <2>6. CASE AccessNext /\ UNCHANGED <<catalogue, work>>
    BY <2>1, <2>6 DEF catalogue
  <2>7. ASSUME NEW h \in Handlers, CountryStep(h, UsedCountries), UNCHANGED rooms
        PROVE  RoomsKeepTheirCountry'
    BY <2>1, <2>3, <2>4, <2>7 DEF CountryStep, FindCountryNamed, FindCountry
  <2>8. ASSUME NEW h \in Handlers, RoomStep(h)
        PROVE  RoomsKeepTheirCountry'
    BY <2>1, <2>2, <2>8 DEF RoomStep, WrapperThrows, InsertPart, CrashInParts, FindAndValidate, InsertReservation,
                            catalogue
  <2>9. QED
    BY <2>5, <2>6, <2>7, <2>8 DEF Next
<1>3. QED
  BY <1>1, <1>2, TypesHold, PTL DEF Spec

----------------------------------------------------------------------------
(***************************************************************************)
(* Reservations: a handler that will insert one has not read any discount. *)
(***************************************************************************)
NoDiscountSeen ==
    /\ OnlyHalfMadeRoomsAreBooked
    /\ \A h \in Handlers : pc[h] = "insertReservation" => "discounts" \notin work[h].seen

\* Pricing a room whose discounts have no endDate throws.
LEMMA WholeRoomsAreRefused ==
  ASSUME NEW id \in DOMAIN rooms, NEW stay, NEW booked, NEW clock,
         Verdict(RoomAsRead(id), stay, booked, clock) = "valid"
  PROVE  "discounts" \notin SeenParts(id)
<1> SUFFICES ASSUME "discounts" \in SeenParts(id)
             PROVE  FALSE
  OBVIOUS
<1>2. RoomAsRead(id).discounts = NewDiscounts(id)
  BY DEF RoomAsRead
<1>3. \E d \in NewDiscounts(id) : d.endDate = NoEndDate
  <2>1. [type |-> "Week", percent |-> 10, endDate |-> NoEndDate] \in NewDiscounts(id)
    BY DEF NewDiscounts
  <2>2. QED
    BY <2>1
<1>4. PricingThrows(RoomAsRead(id))
  BY <1>2, <1>3 DEF PricingThrows
<1>5. QED
  BY <1>4 DEF Verdict

THEOREM BookedRoomsAreHalfMade == Spec => []OnlyHalfMadeRoomsAreBooked
<1>1. Init => NoDiscountSeen
  BY DEF Init, AccessInit, NoDiscountSeen, OnlyHalfMadeRoomsAreBooked
<1>2. Types /\ NoDiscountSeen /\ [Next]_vars => NoDiscountSeen'
  <2> SUFFICES ASSUME Types, NoDiscountSeen, [Next]_vars
               PROVE  NoDiscountSeen'
    OBVIOUS
  <2> IsTable(reservations) /\ IsPerHandler(pc)
    BY DEF Types, Rows, Handling
  <2> work \in [Handlers -> [room: DOMAIN rooms \cup {NoValue},
                            pending: SUBSET PartKinds, seen: SUBSET PartKinds]]
    BY DEF Types, Work
  <2>1. ASSUME UNCHANGED reservations,
               \A h \in Handlers : pc'[h] = "insertReservation" => pc[h] = pc'[h] /\ work'[h] = work[h]
        PROVE  NoDiscountSeen'
    BY <2>1 DEF NoDiscountSeen, OnlyHalfMadeRoomsAreBooked
  <2>2. CASE UNCHANGED vars
    BY <2>1, <2>2 DEF vars, catalogue, access, handling
  <2>3. CASE AccessNext /\ UNCHANGED <<catalogue, work>>
    <3>1. "insertReservation" \notin {"idle", "authenticate", "authenticateAgain"} \cup Routes
      BY DEF Routes
    <3>2. \A h \in Handlers : pc'[h] = "insertReservation" => pc[h] = pc'[h]
      BY <2>3, <3>1, AccessIsGuarded DEF Guarded
    <3>3. QED
      BY <2>1, <2>3, <3>2 DEF catalogue
  <2>4. ASSUME NEW h \in Handlers, CountryStep(h, UsedCountries), UNCHANGED <<reservations, work>>
        PROVE  NoDiscountSeen'
    BY <2>1, <2>4 DEF CountryStep, FindCountryNamed, InsertCountry, FindCountry, DeleteCountry,
                      Lose, Answer, AnswerCommitted, Await, IsPerHandler
  <2>5. ASSUME NEW h \in Handlers, RoomStep(h)
        PROVE  NoDiscountSeen'
    <3>1. CASE InsertReservation(h)
      <4>1. /\ reservations' = Append(reservations, NewReservation(h))
            /\ pc[h] = "insertReservation" /\ pc' = [pc EXCEPT ![h] = "idle"] /\ NoWork(h)
        BY <3>1 DEF InsertReservation, AnswerCommitted, Answer
      <4>2. Inserted(reservations, NewReservation(h), reservations')
        BY <4>1, AppendedRow
      <4>3. "discounts" \notin NewReservation(h).seen
        BY <4>1 DEF NewReservation, NoDiscountSeen
      <4>4. QED
        BY <4>1, <4>2, <4>3 DEF NoDiscountSeen, OnlyHalfMadeRoomsAreBooked, Inserted, NoWork, IsPerHandler
    <3>2. CASE FindAndValidate(h)
      <4>1. CASE /\ Await(h, "insertReservation") /\ request[h].room \in DOMAIN rooms
                 /\ work' = [work EXCEPT ![h].seen = SeenParts(request[h].room)]
                 /\ Verdict(RoomAsRead(request[h].room), request[h], Booked(request[h].room), 0) = "valid"
        <5>1. "discounts" \notin SeenParts(request[h].room)
          BY <4>1, WholeRoomsAreRefused
        <5>2. UNCHANGED reservations
          BY <3>2 DEF FindAndValidate, catalogue
        <5>3. QED
          BY <4>1, <5>1, <5>2 DEF NoDiscountSeen, OnlyHalfMadeRoomsAreBooked, Await, IsPerHandler
      <4>2. CASE (\E a : Answer(h, a)) /\ UNCHANGED work
        BY <2>1, <3>2, <4>2 DEF FindAndValidate, Answer, IsPerHandler, catalogue
      <4>3. QED
        BY <3>2, <4>1, <4>2 DEF FindAndValidate
    <3>3. CASE InsertRoom(h)
      BY <2>1, <3>3 DEF InsertRoom, Answer, Await, IsPerHandler
    <3>4. ASSUME NEW kind \in PartKinds, NEW succeeds \in BOOLEAN, InsertPart(h, kind, succeeds)
          PROVE  NoDiscountSeen'
      <4>1. UNCHANGED reservations /\ pc[h] = "insertParts"
        BY <3>4 DEF InsertPart
      <4>2. CASE Done(work[h].pending \ {kind})
        BY <2>1, <3>4, <4>1, <4>2 DEF InsertPart, Answer, NoWork, IsPerHandler
      <4>3. CASE ~Done(work[h].pending \ {kind})
        BY <2>1, <3>4, <4>1, <4>3 DEF InsertPart
      <4>4. QED
        BY <4>2, <4>3
    <3>5. CASE CrashInParts(h)
      BY <2>1, <3>5 DEF CrashInParts, Answer, NoWork, IsPerHandler, catalogue
    <3>6. CASE Lose(h, {"createRoom", "reserve", "insertReservation"}) /\ NoWork(h) /\ UNCHANGED catalogue
      BY <2>1, <3>6 DEF Lose, Answer, NoWork, IsPerHandler, catalogue
    <3>7. CASE WrapperThrows(h)
      BY <2>1, <3>7 DEF WrapperThrows, Answer, NoWork, IsPerHandler, catalogue
    <3>8. QED
      BY <2>5, <3>1, <3>2, <3>3, <3>4, <3>5, <3>6, <3>7 DEF RoomStep
  <2>6. QED
    BY <2>2, <2>3, <2>4, <2>5 DEF Next
<1>3. QED
  BY <1>1, <1>2, TypesHold, PTL DEF Spec, NoDiscountSeen

----------------------------------------------------------------------------
(***************************************************************************)
(* Rooms: what is stored for a room was asked for, and while no insert of  *)
(* a handler has failed, the groups that it no longer waits for are stored.*)
(***************************************************************************)
ToInsert(room) == rooms[room].asked \ {"amenities"}

ReportedIsStored ==
    \A room \in reported : \A kind \in ToInsert(room) : NewPart(kind, room) \in parts

StoredWasAsked ==
    \A p \in parts : p = NewPart(p.kind, p.madeFor) /\ p.kind \in rooms[p.madeFor].asked

DoneIsStored ==
    /\ ReportedIsStored
    /\ StoredWasAsked
    /\ \A h \in Handlers :
         pc[h] = "insertParts" =>
            /\ work[h].pending \subseteq ToInsert(work[h].room)
            /\ answer[h] = NoValue =>
                 \A kind \in ToInsert(work[h].room) \ work[h].pending :
                     NewPart(kind, work[h].room) \in parts

LEMMA LacksOnlyTheUnlinked ==
  ASSUME Types, ReportedIsStored, StoredWasAsked
  PROVE  ReportedRoomLacksOnlyTheUnlinked
<1> SUFFICES ASSUME NEW room \in reported
             PROVE  /\ SeenParts(room) = rooms[room].asked \ {"detailChoices", "amenities"}
                    /\ MadeParts(room) = rooms[room].asked \ {"amenities"}
  BY DEF ReportedRoomLacksOnlyTheUnlinked
<1>1. /\ room \in DOMAIN rooms /\ room # NoValue
      /\ rooms[room].asked \subseteq BodyGroups
      /\ parts \subseteq [kind: PartKinds, room: DOMAIN rooms \cup {NoValue}, madeFor: DOMAIN rooms]
      /\ \A id \in DOMAIN rooms : id # NoValue
  BY TableIds, RoomsAssumption DEF Types, Rows
<1>2. ASSUME NEW kind \in rooms[room].asked, kind # "amenities"
      PROVE  kind \in PartKinds /\ NewPart(kind, room) \in parts
  BY <1>1, <1>2 DEF ReportedIsStored, ToInsert, BodyGroups
<1>3. ASSUME NEW p \in parts
      PROVE  /\ p.kind \in PartKinds /\ p.kind # "amenities"
             /\ p.kind \in rooms[p.madeFor].asked
             /\ p.room = room => p.madeFor = room /\ p.kind # "detailChoices"
  BY <1>1 DEF StoredWasAsked, NewPart, PartKinds
<1>4. MadeParts(room) = rooms[room].asked \ {"amenities"}
  BY <1>2, <1>3 DEF MadeParts, NewPart
<1>5. SeenParts(room) = rooms[room].asked \ {"detailChoices", "amenities"}
  BY <1>2, <1>3 DEF SeenParts, NewPart
<1>6. QED
  BY <1>4, <1>5

(***************************************************************************)
(* A room that was reported to its host has all that was asked for, and    *)
(* nothing else, but the detail choices, which no row connects to it, and  *)
(* the amenities, which no row holds.                                      *)
(***************************************************************************)
THEOREM ReportedLacksOnlyTheUnlinked == Spec => []ReportedRoomLacksOnlyTheUnlinked
<1>1. Init => DoneIsStored
  BY DEF Init, AccessInit, DoneIsStored, ReportedIsStored, StoredWasAsked
<1>2. Types /\ DoneIsStored /\ [Next]_vars => DoneIsStored'
  <2> SUFFICES ASSUME Types, DoneIsStored, [Next]_vars
               PROVE  DoneIsStored'
    OBVIOUS
  <2>1. /\ IsTable(rooms) /\ IsPerHandler(pc) /\ IsPerHandler(answer) /\ reported \subseteq DOMAIN rooms
        /\ work \in [Handlers -> [room: DOMAIN rooms \cup {NoValue},
                                 pending: SUBSET PartKinds, seen: SUBSET PartKinds]]
        /\ \A h \in Handlers : pc[h] = "insertParts" => work[h].room \in DOMAIN rooms
        /\ \A p \in parts : p.madeFor \in DOMAIN rooms
    BY DEF Types, Rows, Handling, Work
  <2> USE DEF IsPerHandler, ToInsert
  <2>2. ASSUME UNCHANGED <<parts, reported>>,
               \A id \in DOMAIN rooms : id \in DOMAIN rooms' /\ rooms'[id] = rooms[id],
               \A h \in Handlers : pc'[h] = "insertParts" =>
                  pc[h] = pc'[h] /\ answer'[h] = answer[h] /\ work'[h] = work[h]
        PROVE  DoneIsStored'
    BY <2>1, <2>2 DEF DoneIsStored, ReportedIsStored, StoredWasAsked
  <2>3. CASE UNCHANGED vars
    BY <2>2, <2>3 DEF vars, catalogue, access, handling
  <2>4. CASE AccessNext /\ UNCHANGED <<catalogue, work>>
    <3>1. "insertParts" \notin {"idle", "authenticate", "authenticateAgain", "createRoom"} \cup Routes
      BY DEF Routes
    <3>2. \A h \in Handlers : pc'[h] = "insertParts" => pc[h] = pc'[h] /\ answer'[h] = answer[h]
      BY <2>4, <3>1, AccessIsGuarded DEF Guarded
    <3>3. QED
      BY <2>2, <2>4, <3>2 DEF catalogue
  <2>5. ASSUME NEW h \in Handlers, UNCHANGED <<rooms, parts, work, reported>>, pc[h] # "insertParts",
               \/ \E a : Answer(h, a)
               \/ \E step : step # "insertParts" /\ Await(h, step)
        PROVE  DoneIsStored'
    BY <2>1, <2>2, <2>5 DEF Answer, Await
  <2>6. ASSUME NEW h \in Handlers, CountryStep(h, UsedCountries),
               UNCHANGED <<rooms, parts, reservations, work, reported>>
        PROVE  DoneIsStored'
    BY <2>5, <2>6 DEF CountryStep, FindCountryNamed, InsertCountry, FindCountry, DeleteCountry,
                      Lose, AnswerCommitted
  <2>7. ASSUME NEW h \in Handlers, UNCHANGED <<rooms, parts, reported>>,
               \E a : Answer(h, a), NoWork(h)
        PROVE  DoneIsStored'
    BY <2>1, <2>2, <2>7 DEF Answer, NoWork
  <2>8. ASSUME NEW h \in Handlers, RoomStep(h)
        PROVE  DoneIsStored'
    <3>1. CASE InsertRoom(h)
      <4>1. pc[h] = "createRoom" /\ UNCHANGED <<parts, reported>>
        BY <3>1 DEF InsertRoom
      <4>2. CASE UNCHANGED <<rooms, work>> /\ \E a : Answer(h, a)
        BY <2>5, <4>1, <4>2
      <4>3. CASE rooms' = Append(rooms, NewRoom(h))
        <5>1. Inserted(rooms, NewRoom(h), rooms')
          BY <2>1, <4>3, AppendedRow
        <5>2. \A id \in DOMAIN rooms : id \in DOMAIN rooms' /\ rooms'[id] = rooms[id]
          BY <5>1 DEF Inserted
        <5>3. CASE UNCHANGED work /\ \E a : Answer(h, a)
          BY <2>1, <2>2, <4>1, <5>2, <5>3 DEF Answer
        <5>4. CASE /\ Await(h, "insertParts")
                   /\ work' = [work EXCEPT ![h].room = Len(rooms'),
                                           ![h].pending = Groups(request[h]) \cap PartKinds]
          <6>1. ToInsert(work[h].room)' = work'[h].pending
            <7>1. /\ work'[h].room = Len(rooms')
                  /\ work'[h].pending = Groups(request[h]) \cap PartKinds
              BY <2>1, <5>4
            <7>2. rooms'[Len(rooms')].asked = Groups(request[h])
              BY <5>1 DEF Inserted, NewRoom
            <7>3. Groups(request[h]) \subseteq BodyGroups
              <8>1. request[h] \in Requests /\ request[h].route = "createRoom"
                BY <4>1 DEF Types, Handling, Routes
              <8>2. QED
                BY <8>1, RoomsAssumption DEF Groups, BodyGroups, PartKinds
            <7>4. PartKinds = BodyGroups \ {"amenities"}
              BY DEF PartKinds, BodyGroups
            <7>5. QED
              BY <7>1, <7>2, <7>3, <7>4
          <6>2. \A g \in Handlers \ {h} :
                  pc'[g] = pc[g] /\ answer'[g] = answer[g] /\ work'[g] = work[g]
            BY <2>1, <5>4 DEF Await
          <6>3. QED
            BY <2>1, <4>1, <5>2, <6>1, <6>2 DEF DoneIsStored, ReportedIsStored, StoredWasAsked
        <5>5. QED
          BY <3>1, <4>3, <5>3, <5>4, <4>2 DEF InsertRoom
      <4>4. QED
        BY <3>1, <4>2, <4>3 DEF InsertRoom
    <3>2. ASSUME NEW kind \in PartKinds, NEW succeeds \in BOOLEAN, InsertPart(h, kind, succeeds)
          PROVE  DoneIsStored'
      <4> DEFINE room    == work[h].room
                 pending == work[h].pending \ {kind}
                 failed  == answer[h] # NoValue \/ ~succeeds
      <4>1. pc[h] = "insertParts" /\ UNCHANGED rooms /\ room \in DOMAIN rooms
        BY <2>1, <3>2 DEF InsertPart
      <4>2. parts \subseteq parts' /\ (succeeds => NewPart(kind, room) \in parts')
        BY <3>2 DEF InsertPart
      <4>3. /\ pending \subseteq ToInsert(room)
            /\ ~failed => \A k \in ToInsert(room) \ pending : NewPart(k, room) \in parts'
        BY <4>1, <4>2 DEF DoneIsStored
      <4>6. StoredWasAsked'
        <5>1. parts' \subseteq parts \cup {NewPart(kind, room)} /\ kind \in rooms[room].asked
          BY <3>2, <4>1 DEF InsertPart, DoneIsStored
        <5>2. QED
          BY <4>1, <5>1 DEF DoneIsStored, StoredWasAsked, NewPart
      <4>4. CASE Done(pending)
        <5>1. /\ \E a : Answer(h, a)
              /\ NoWork(h)
              /\ reported' = IF ~failed THEN reported \cup {room} ELSE reported
          BY <3>2, <4>4 DEF InsertPart
        <5>2. \A g \in Handlers : pc'[g] = "insertParts" =>
                 pc[g] = pc'[g] /\ answer'[g] = answer[g] /\ work'[g] = work[g]
          BY <2>1, <5>1 DEF Answer, NoWork
        <5>3. ReportedIsStored'
          BY <2>1, <4>1, <4>2, <4>3, <4>4, <5>1 DEF DoneIsStored, ReportedIsStored, Done
        <5>4. QED
          BY <2>1, <4>1, <4>2, <4>6, <5>2, <5>3 DEF DoneIsStored
      <4>5. CASE ~Done(pending)
        <5>1. /\ UNCHANGED <<pc, reported>>
              /\ answer' = [answer EXCEPT ![h] = IF failed THEN "databaseError" ELSE NoValue]
              /\ work' = [work EXCEPT ![h].pending = pending]
          BY <3>2, <4>5 DEF InsertPart
        <5>2. work'[h].room = room /\ work'[h].pending = pending
          BY <2>1, <5>1
        <5>3. answer'[h] = NoValue => ~failed
          BY <2>1, <5>1, AccessAssumption
        <5>4. \A g \in Handlers \ {h} : answer'[g] = answer[g] /\ work'[g] = work[g]
          BY <2>1, <5>1
        <5>5. ReportedIsStored'
          BY <2>1, <4>1, <4>2, <5>1 DEF DoneIsStored, ReportedIsStored
        <5> HIDE DEF room, pending, failed
        <5>6. QED
          BY <2>1, <4>1, <4>2, <4>3, <4>6, <5>1, <5>2, <5>3, <5>4, <5>5 DEF DoneIsStored
      <4>7. QED
        BY <4>4, <4>5
    <3>3. CASE CrashInParts(h)
      BY <2>7, <3>3 DEF CrashInParts, catalogue
    <3>4. CASE FindAndValidate(h)
      <4>1. CASE (\E a : Answer(h, a)) /\ UNCHANGED work
        BY <2>5, <3>4, <4>1 DEF FindAndValidate, catalogue
      <4>2. CASE /\ Await(h, "insertReservation")
                 /\ work' = [work EXCEPT ![h].seen = SeenParts(request[h].room)]
        <5>1. \A g \in Handlers : pc'[g] = "insertParts" =>
                 pc[g] = pc'[g] /\ answer'[g] = answer[g] /\ work'[g] = work[g]
          BY <2>1, <4>2 DEF Await
        <5>2. QED
          BY <2>2, <3>4, <5>1 DEF FindAndValidate, catalogue
      <4>3. QED
        BY <3>4, <4>1, <4>2 DEF FindAndValidate
    <3>5. CASE InsertReservation(h)
      BY <2>7, <3>5 DEF InsertReservation, AnswerCommitted
    <3>6. CASE Lose(h, {"createRoom", "reserve", "insertReservation"}) /\ NoWork(h) /\ UNCHANGED catalogue
      BY <2>7, <3>6 DEF Lose, catalogue
    <3>7. CASE WrapperThrows(h)
      BY <2>7, <3>7 DEF WrapperThrows, catalogue
    <3>8. QED
      BY <2>8, <3>1, <3>2, <3>3, <3>4, <3>5, <3>6, <3>7 DEF RoomStep
  <2>9. QED
    BY <2>3, <2>4, <2>6, <2>8 DEF Next
<1>3. Types /\ DoneIsStored => ReportedRoomLacksOnlyTheUnlinked
  BY LacksOnlyTheUnlinked DEF DoneIsStored
<1>4. QED
  BY <1>1, <1>2, <1>3, TypesHold, PTL DEF Spec

----------------------------------------------------------------------------
(***************************************************************************)
(* Hosts: whom a guard found verified was verified at some time, and that  *)
(* is all that can be said when the row is read and the insert comes later.*)
(***************************************************************************)
VerifiedActs ==
    /\ HostsWereVerified
    /\ \A u \in DOMAIN users : users[u].verified => u \in activated
    /\ \A h \in Handlers : pc[h] = "createRoom" => acting[h] \in activated

LEMMA UsersKeepVerifiedActs ==
  Types /\ VerifiedActs /\ (SignUp \/ SaveUser) =>
     /\ activated \subseteq activated'
     /\ \A u \in DOMAIN users' : users'[u].verified => u \in activated'
<1> SUFFICES ASSUME Types, VerifiedActs, SignUp \/ SaveUser
             PROVE  /\ activated \subseteq activated'
                    /\ \A u \in DOMAIN users' : users'[u].verified => u \in activated'
  OBVIOUS
<1>1. users \in Seq(UserRows)
  BY DEF Types, Accounts
<1>2. CASE SignUp
  <2> DEFINE row == [verified |-> FALSE, roles |-> {}]
  <2>1. row \in UserRows /\ ~row.verified
    BY DEF UserRows
  <2>2. users' = Append(users, row) /\ UNCHANGED activated
    BY <1>2 DEF SignUp, Table!Insert
  <2> HIDE DEF row
  <2>3. /\ users' \in Seq(UserRows) /\ Len(users') = Len(users) + 1
        /\ \A i \in 1 .. Len(users) : users'[i] = users[i]
        /\ users'[Len(users) + 1] = row
    BY <1>1, <2>1, <2>2, AppendProperties
  <2>4. Len(users) \in Nat /\ DOMAIN users = 1 .. Len(users) /\ DOMAIN users' = 1 .. Len(users) + 1
    BY <1>1, <2>3, LenProperties
  <2>5. \A u \in DOMAIN users' : (u \in DOMAIN users /\ users'[u] = users[u]) \/ users'[u] = row
    BY <2>3, <2>4
  <2>6. QED
    BY <2>1, <2>2, <2>5 DEF VerifiedActs
<1>3. CASE SaveUser
  <2>1. PICK u \in DOMAIN users, verified \in BOOLEAN, roles \in RoleSets :
          /\ users' = [users EXCEPT ![u] = [verified |-> verified, roles |-> roles]]
          /\ activated' = IF verified THEN activated \cup {u} ELSE activated
    BY <1>3 DEF SaveUser, Table!Save
  <2> DEFINE row == [verified |-> verified, roles |-> roles]
  <2>2. row.verified => verified
    OBVIOUS
  <2>3. activated \subseteq activated' /\ (verified => u \in activated')
    BY <2>1
  <2>4. users' = [users EXCEPT ![u] = row]
    BY <2>1
  <2> HIDE DEF row
  <2>5. \A v \in DOMAIN users' : v \in DOMAIN users /\ ((v = u /\ users'[v] = row) \/ users'[v] = users[v])
    BY <2>4
  <2>6. QED
    BY <2>2, <2>3, <2>5 DEF VerifiedActs
<1>4. QED
  BY <1>2, <1>3

THEOREM HostsAreVerified == Spec => []HostsWereVerified
<1>1. Init => VerifiedActs
  BY DEF Init, AccessInit, VerifiedActs, HostsWereVerified
<1>2. Types /\ VerifiedActs /\ [Next]_vars => VerifiedActs'
  <2> SUFFICES ASSUME Types, VerifiedActs, [Next]_vars
               PROVE  VerifiedActs'
    OBVIOUS
  <2>1. IsTable(rooms) /\ IsPerHandler(pc) /\ IsPerHandler(acting)
    BY DEF Types, Rows, Handling, IsPerHandler
  <2> USE DEF IsPerHandler
  <2>2. ASSUME UNCHANGED <<users, activated>>,
               \A id \in DOMAIN rooms' :
                  \/ id \in DOMAIN rooms /\ rooms'[id] = rooms[id]
                  \/ rooms'[id].host \in activated,
               \A h \in Handlers : pc'[h] = "createRoom" => acting'[h] \in activated
        PROVE  VerifiedActs'
    BY <2>2 DEF VerifiedActs, HostsWereVerified
  <2>3. CASE UNCHANGED vars
    BY <2>2, <2>3 DEF vars, catalogue, access, account, handling, VerifiedActs
  <2>4. CASE AccessNext /\ UNCHANGED <<catalogue, work>>
    <3>1. CASE SignUp \/ SaveUser
      <4>1. UNCHANGED <<pc, acting, rooms>>
        BY <2>4, <3>1 DEF SignUp, SaveUser, handling, catalogue
      <4>2. QED
        BY <3>1, <4>1, UsersKeepVerifiedActs DEF VerifiedActs, HostsWereVerified
    <3>2. CASE UNCHANGED account
      <4>1. ASSUME NEW h \in Handlers, Refusal(request[h].token) = NoValue
            PROVE  FoundUser(request[h].token) \in activated
        <5>1. users # << >> /\ users[1].verified
          BY <4>1, AccessAssumption DEF Refusal, FoundUser
        <5>2. 1 \in DOMAIN users
          BY <5>1, EmptySeq, LenProperties DEF Types, Accounts
        <5>3. QED
          BY <5>1, <5>2 DEF VerifiedActs, FoundUser
      <4>2. "createRoom" \notin {"idle", "authenticate", "authenticateAgain"} \cup (Routes \ {"createRoom"})
        OBVIOUS
      <4>3. \A h \in Handlers : pc'[h] = "createRoom" => acting'[h] \in activated
        BY <2>4, <4>1, <4>2, AccessIsGuarded DEF Guarded, VerifiedActs
      <4>4. QED
        BY <2>2, <2>4, <3>2, <4>3 DEF account, catalogue
    <3>3. QED
      BY <2>4, <3>1, <3>2 DEF AccessNext, Receive, ReceiveWithoutToken, Authenticate,
                              AuthenticateAgain, FindReservations, Lose
  <2>5. ASSUME NEW h \in Handlers, CountryStep(h, UsedCountries), UNCHANGED rooms
        PROVE  VerifiedActs'
    <3>1. UNCHANGED account
      BY <2>5 DEF CountryStep, FindCountryNamed, InsertCountry, FindCountry, DeleteCountry, Lose
    <3>2. (\E a : Answer(h, a)) \/ (\E step : step # "createRoom" /\ Await(h, step))
      BY <2>5 DEF CountryStep, FindCountryNamed, InsertCountry, FindCountry, DeleteCountry, Lose,
                  AnswerCommitted
    <3>3. \A g \in Handlers : pc'[g] = "createRoom" => pc[g] = "createRoom" /\ acting'[g] = acting[g]
      BY <2>1, <3>2 DEF Answer, Await
    <3>4. QED
      BY <2>2, <2>5, <3>1, <3>3 DEF account, VerifiedActs
  <2>6. ASSUME NEW h \in Handlers, RoomStep(h)
        PROVE  VerifiedActs'
    <3>1. UNCHANGED account
      BY <2>6 DEF RoomStep, WrapperThrows, InsertRoom, InsertPart, CrashInParts, FindAndValidate, InsertReservation, Lose
    <3>2. \/ \E a : Answer(h, a)
          \/ \E step : step # "createRoom" /\ Await(h, step)
          \/ UNCHANGED <<pc, acting>>
      BY <2>6 DEF RoomStep, WrapperThrows, InsertRoom, InsertPart, CrashInParts, FindAndValidate, InsertReservation,
                  Lose, AnswerCommitted
    <3>3. \A g \in Handlers : pc'[g] = "createRoom" => pc[g] = "createRoom" /\ acting'[g] = acting[g]
      BY <2>1, <3>2 DEF Answer, Await
    <3>4. CASE UNCHANGED rooms
      BY <2>2, <3>1, <3>3, <3>4 DEF account, VerifiedActs
    <3>5. CASE pc[h] = "createRoom" /\ rooms' = Append(rooms, NewRoom(h))
      <4>1. Inserted(rooms, NewRoom(h), rooms')
        BY <2>1, <3>5, AppendedRow
      <4>2. NewRoom(h).host \in activated
        BY <3>5 DEF NewRoom, VerifiedActs
      <4>3. QED
        BY <2>2, <3>1, <3>3, <4>1, <4>2 DEF account, VerifiedActs, Inserted
    <3>6. QED
      BY <2>6, <3>4, <3>5 DEF RoomStep, WrapperThrows, InsertRoom, InsertPart, CrashInParts, FindAndValidate,
                              InsertReservation, catalogue
  <2>7. QED
    BY <2>3, <2>4, <2>5, <2>6 DEF Next
<1>3. QED
  BY <1>1, <1>2, TypesHold, PTL DEF Spec, VerifiedActs

----------------------------------------------------------------------------
(***************************************************************************)
(* Names: a handler that found no country of a name counts with the rows   *)
(* of it, for it may still insert one.                                     *)
(***************************************************************************)
Named(n) == {id \in LiveCountries : countries[id] = n}

Inserting(n) == {h \in Handlers : pc[h] = "insertCountry" /\ request[h].name = n}

RowsAndInserts(n) ==
    /\ IsFiniteSet(Named(n))
    /\ Cardinality(Named(n)) + Cardinality(Inserting(n)) <= Cardinality(Handlers)

InsertingIsBounded == \A n : RowsAndInserts(n)

LEMMA InsertingFinite ==
  ASSUME NEW S \in SUBSET Handlers
  PROVE  IsFiniteSet(S) /\ Cardinality(S) \in Nat /\ Cardinality(S) <= Cardinality(Handlers)
         /\ Cardinality(Handlers) \in Nat
BY AccessAssumption, FS_Subset, FS_CardinalityType

LEMMA FewerIsBounded ==
  ASSUME NEW n
  PROVE  /\ RowsAndInserts(n)
         /\ Named(n)' \subseteq Named(n) /\ Inserting(n)' \subseteq Inserting(n)
         => RowsAndInserts(n)'
<1> SUFFICES ASSUME RowsAndInserts(n), Named(n)' \subseteq Named(n), Inserting(n)' \subseteq Inserting(n)
             PROVE  RowsAndInserts(n)'
  OBVIOUS
<1>1. /\ IsFiniteSet(Named(n)') /\ Cardinality(Named(n)') <= Cardinality(Named(n))
      /\ Cardinality(Named(n)) \in Nat /\ Cardinality(Named(n)') \in Nat
  BY FS_Subset, FS_CardinalityType DEF RowsAndInserts
<1>2. /\ Cardinality(Inserting(n)') <= Cardinality(Inserting(n))
      /\ Cardinality(Inserting(n)) \in Nat /\ Cardinality(Inserting(n)') \in Nat
      /\ Cardinality(Handlers) \in Nat
  <2>1. Inserting(n) \in SUBSET Handlers /\ Inserting(n)' \in SUBSET Handlers
    BY DEF Inserting
  <2>2. QED
    BY <2>1, InsertingFinite, FS_Subset
<1>3. QED
  BY <1>1, <1>2 DEF RowsAndInserts

LEMMA FindingKeepsBounded ==
  ASSUME NEW h \in Handlers, NEW n
  PROVE  /\ IsPerHandler(pc) /\ RowsAndInserts(n) /\ UNCHANGED countries
         /\ IsNewName(request[h].name) /\ Await(h, "insertCountry")
         => RowsAndInserts(n)'
<1> SUFFICES ASSUME IsPerHandler(pc), RowsAndInserts(n), UNCHANGED countries,
                    IsNewName(request[h].name), Await(h, "insertCountry")
             PROVE  RowsAndInserts(n)'
  OBVIOUS
<1>1. Named(n)' = Named(n) /\ UNCHANGED request
  BY DEF Named, LiveCountries, Await
<1>2. CASE request[h].name = n
  <2>1. Named(n) = {}
    BY <1>2 DEF Named, IsNewName
  <2>2. Inserting(n)' \in SUBSET Handlers
    BY DEF Inserting
  <2>3. Cardinality(Named(n)') = 0
    BY <1>1, <2>1, FS_EmptySet
  <2>4. QED
    BY <1>1, <2>2, <2>3, InsertingFinite DEF RowsAndInserts
<1>3. CASE request[h].name # n
  <2>1. Inserting(n)' \subseteq Inserting(n)
    BY <1>1, <1>3 DEF Inserting, Await, IsPerHandler
  <2>2. QED
    BY <1>1, <2>1, FewerIsBounded
<1>4. QED
  BY <1>2, <1>3

LEMMA InsertKeepsBounded ==
  ASSUME NEW h \in Handlers, NEW n
  PROVE  /\ IsTable(countries) /\ IsPerHandler(pc) /\ RowsAndInserts(n) /\ InsertCountry(h)
         => RowsAndInserts(n)'
<1> SUFFICES ASSUME IsTable(countries), IsPerHandler(pc), RowsAndInserts(n), InsertCountry(h)
             PROVE  RowsAndInserts(n)'
  OBVIOUS
<1> DEFINE new == Len(countries')
<1>1. /\ pc[h] = "insertCountry" /\ pc' = [pc EXCEPT ![h] = "idle"]
      /\ request' = [request EXCEPT ![h] = NoValue]
      /\ countries' = Append(countries, request[h].name)
  BY DEF InsertCountry, AnswerCommitted, Answer
<1>2. Inserted(countries, request[h].name, countries')
  BY <1>1, AppendedRow
<1>3. Inserting(n)' \subseteq Inserting(n) \ {h}
  BY <1>1 DEF Inserting, IsPerHandler
<1>4. CASE request[h].name # n
  <2>1. Named(n)' \subseteq Named(n)
    BY <1>2, <1>4 DEF Named, LiveCountries, Inserted
  <2>2. QED
    BY <1>3, <2>1, FewerIsBounded
<1>5. CASE request[h].name = n
  <2>1. Named(n)' \subseteq Named(n) \cup {new}
    BY <1>2 DEF Named, LiveCountries, Inserted
  <2>2. h \in Inserting(n) /\ Inserting(n) \in SUBSET Handlers
    BY <1>1, <1>5 DEF Inserting
  <2>3. /\ IsFiniteSet(Inserting(n)) /\ Cardinality(Inserting(n)) \in Nat
        /\ Cardinality(Handlers) \in Nat
    BY <2>2, InsertingFinite
  <2>4. /\ IsFiniteSet(Inserting(n) \ {h})
        /\ Cardinality(Inserting(n) \ {h}) = Cardinality(Inserting(n)) - 1
    BY <2>2, <2>3, FS_RemoveElement
  <2>5. /\ Cardinality(Inserting(n)') <= Cardinality(Inserting(n)) - 1
        /\ Cardinality(Inserting(n)') \in Nat
    BY <1>3, <2>4, FS_Subset, FS_CardinalityType
  <2>6. /\ IsFiniteSet(Named(n) \cup {new}) /\ Cardinality(Named(n)) \in Nat
        /\ Cardinality(Named(n) \cup {new}) <= Cardinality(Named(n)) + 1
    <3> HIDE DEF new
    <3>1. IsFiniteSet(Named(n))
      BY DEF RowsAndInserts
    <3>2. Cardinality(Named(n)) \in Nat
      BY <3>1, FS_CardinalityType
    <3>3. /\ IsFiniteSet(Named(n) \cup {new})
          /\ \/ Cardinality(Named(n) \cup {new}) = Cardinality(Named(n))
             \/ Cardinality(Named(n) \cup {new}) = Cardinality(Named(n)) + 1
      BY <3>1, FS_AddElement
    <3>4. QED
      BY <3>2, <3>3
  <2>7. /\ IsFiniteSet(Named(n)') /\ Cardinality(Named(n)') \in Nat
        /\ Cardinality(Named(n)') <= Cardinality(Named(n) \cup {new})
        /\ Cardinality(Named(n) \cup {new}) \in Nat
    BY <2>1, <2>6, FS_Subset, FS_CardinalityType
  <2>8. QED
    BY <2>3, <2>5, <2>6, <2>7 DEF RowsAndInserts
<1>6. QED
  BY <1>4, <1>5

THEOREM NamesAreBounded == Spec => []CountryNamesAreBounded
<1>1. Init => InsertingIsBounded
  <2> SUFFICES ASSUME Init, NEW n
               PROVE  RowsAndInserts(n)
    BY DEF InsertingIsBounded
  <2>1. Named(n) = {} /\ Inserting(n) = {}
    BY DEF Init, AccessInit, CountriesInit, Named, LiveCountries, Inserting
  <2>2. QED
    BY <2>1, FS_EmptySet, InsertingFinite DEF RowsAndInserts
<1>2. Types /\ InsertingIsBounded /\ [Next]_vars => InsertingIsBounded'
  <2> SUFFICES ASSUME Types, InsertingIsBounded, [Next]_vars, NEW n
               PROVE  RowsAndInserts(n)'
    BY DEF InsertingIsBounded
  <2>1. /\ IsTable(countries) /\ IsPerHandler(pc) /\ IsPerHandler(request)
        /\ RowsAndInserts(n)
    BY DEF Types, Rows, Handling, IsPerHandler, InsertingIsBounded
  <2> USE DEF IsPerHandler
  <2>2. ASSUME Named(n)' \subseteq Named(n),
               \A g \in Handlers : pc'[g] = "insertCountry" => pc[g] = pc'[g] /\ request'[g] = request[g]
        PROVE  RowsAndInserts(n)'
    <3>1. Inserting(n)' \subseteq Inserting(n)
      BY <2>2 DEF Inserting
    <3>2. QED
      BY <2>1, <2>2, <3>1, FewerIsBounded
  <2>3. ASSUME UNCHANGED countries
        PROVE  Named(n)' \subseteq Named(n)
    BY <2>3 DEF Named, LiveCountries
  <2>4. ASSUME NEW h \in Handlers, NEW a, Answer(h, a), Named(n)' \subseteq Named(n)
        PROVE  RowsAndInserts(n)'
    BY <2>1, <2>2, <2>4 DEF Answer
  <2>5. ASSUME NEW h \in Handlers, NEW step, step # "insertCountry", Await(h, step), UNCHANGED countries
        PROVE  RowsAndInserts(n)'
    BY <2>1, <2>2, <2>3, <2>5 DEF Await
  <2>6. CASE UNCHANGED vars
    BY <2>2, <2>3, <2>6 DEF vars, catalogue, access, handling
  <2>7. CASE AccessNext /\ UNCHANGED <<catalogue, work>>
    <3>1. UNCHANGED countries
      BY <2>7 DEF catalogue
    <3>2. ASSUME NEW h \in Handlers, Receive(h) \/ AuthenticateAgain(h)
          PROVE  RowsAndInserts(n)'
      <4>1. CASE \E a : Answer(h, a)
        BY <2>3, <2>4, <3>1, <4>1
      <4>2. CASE Receive(h)
        <5>1. /\ pc'[h] # "insertCountry"
              /\ \A g \in Handlers \ {h} : pc'[g] = pc[g] /\ request'[g] = request[g]
          BY <2>1, <4>2, AccessAssumption DEF Receive, Routes
        <5>2. QED
          BY <2>2, <2>3, <3>1, <5>1
      <4>3. CASE /\ pc[h] = "authenticateAgain" /\ pc' = [pc EXCEPT ![h] = request[h].route]
                 /\ UNCHANGED request
        <5>1. request[h].route # "insertCountry"
          BY <4>3, AccessAssumption DEF Types, Handling, Routes
        <5>2. QED
          BY <2>1, <2>2, <2>3, <3>1, <4>3, <5>1
      <4>4. QED
        BY <3>2, <4>1, <4>2, <4>3 DEF AuthenticateAgain
    <3>3. CASE SignUp \/ SaveUser
      BY <2>2, <2>3, <3>1, <3>3 DEF SignUp, SaveUser, handling
    <3>4. ASSUME NEW h \in Handlers,
                 (\E a : Answer(h, a)) \/ (\E step : step # "insertCountry" /\ Await(h, step))
          PROVE  RowsAndInserts(n)'
      BY <2>3, <2>4, <2>5, <3>1, <3>4
    <3>5. QED
      BY <2>7, <3>2, <3>3, <3>4
         DEF AccessNext, ReceiveWithoutToken, Authenticate, FindReservations, Lose
  <2>8. ASSUME NEW h \in Handlers, CountryStep(h, UsedCountries)
        PROVE  RowsAndInserts(n)'
    <3>1. CASE FindCountryNamed(h)
      BY <2>1, <2>3, <2>4, <3>1, FindingKeepsBounded DEF FindCountryNamed
    <3>2. CASE InsertCountry(h)
      BY <2>1, <3>2, InsertKeepsBounded
    <3>3. CASE FindCountry(h)
      BY <2>3, <2>4, <2>5, <3>3 DEF FindCountry
    <3>4. CASE DeleteCountry(h, UsedCountries)
      <4>1. Named(n)' \subseteq Named(n)
        BY <3>4 DEF DeleteCountry, Named, LiveCountries
      <4>2. QED
        BY <2>4, <3>4, <4>1 DEF DeleteCountry, AnswerCommitted
    <3>5. CASE Lose(h, {"createCountry", "insertCountry", "removeCountry", "deleteCountry"})
                /\ UNCHANGED countries
      BY <2>3, <2>4, <3>5 DEF Lose
    <3>6. QED
      BY <2>8, <3>1, <3>2, <3>3, <3>4, <3>5 DEF CountryStep
  <2>9. ASSUME NEW h \in Handlers, RoomStep(h)
        PROVE  RowsAndInserts(n)'
    <3>1. UNCHANGED countries
      BY <2>9 DEF RoomStep, WrapperThrows, InsertRoom, InsertPart, CrashInParts, FindAndValidate, InsertReservation,
                  catalogue
    <3>2. \/ \E a : Answer(h, a)
          \/ \E step : step # "insertCountry" /\ Await(h, step)
          \/ UNCHANGED <<pc, request>>
      BY <2>9 DEF RoomStep, WrapperThrows, InsertRoom, InsertPart, CrashInParts, FindAndValidate, InsertReservation,
                  Lose, AnswerCommitted
    <3>3. QED
      BY <2>2, <2>3, <2>4, <2>5, <3>1, <3>2
  <2>10. QED
    BY <2>6, <2>7, <2>8, <2>9 DEF Next
<1>3. Types /\ InsertingIsBounded => CountryNamesAreBounded
  <2> SUFFICES ASSUME InsertingIsBounded, NEW id \in LiveCountries
               PROVE  Cardinality(Named(countries[id])) <= Cardinality(Handlers)
    BY DEF CountryNamesAreBounded, Named
  <2> DEFINE n == countries[id]
  <2>1. RowsAndInserts(n)
    BY DEF InsertingIsBounded
  <2>2. Inserting(n) \in SUBSET Handlers
    BY DEF Inserting
  <2>3. Cardinality(Inserting(n)) \in Nat /\ Cardinality(Handlers) \in Nat
    BY <2>2, InsertingFinite
  <2>4. Cardinality(Named(n)) \in Nat
    BY <2>1, FS_CardinalityType DEF RowsAndInserts
  <2> HIDE DEF n
  <2>5. QED
    BY <2>1, <2>3, <2>4 DEF RowsAndInserts, n
<1>4. QED
  BY <1>1, <1>2, <1>3, TypesHold, PTL DEF Spec
=============================================================================
