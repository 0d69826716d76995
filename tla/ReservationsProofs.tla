------------------------- MODULE ReservationsProofs -------------------------
(***************************************************************************)
(* What holds of Reservations for every set of handlers, rooms, requests   *)
(* and every bound.                                                        *)
(***************************************************************************)
EXTENDS Reservations, StaysProofs, SequenceTheorems

(***************************************************************************)
(* Canceling never creates an overlap.                                     *)
(***************************************************************************)
LEMMA EvolvingKeepsApart ==
  ASSUME NEW a \in Reservation, NEW b \in Reservation, NEW c, NEW d,
         Evolves(a, c), Evolves(b, d), ~Overlap(a, b)
  PROVE  ~Overlap(c, d)
BY DEF Overlap, IsScheduled, Reservation, Evolves

(***************************************************************************)
(* Canceling twice is canceling once.                                      *)
(***************************************************************************)
LEMMA EvolvesTwice ==
  ASSUME NEW a \in Reservation, NEW b, NEW c, Evolves(a, b), Evolves(b, c)
  PROVE  Evolves(a, c)
BY DEF Reservation, Evolves

(***************************************************************************)
(* A canceled row is a row, and inserting or overwriting one keeps a       *)
(* sequence of rows a sequence of rows.                                    *)
(***************************************************************************)
LEMMA CanceledRow ==
  ASSUME NEW row \in Reservation
  PROVE  /\ [row EXCEPT !.status = "CANCELED"] \in Reservation
         /\ Evolves(row, row)
         /\ Evolves(row, [row EXCEPT !.status = "CANCELED"])
BY DEF Reservation, Statuses, Evolves

\* A row more at the end of a sequence.
LEMMA InsertedRow ==
  ASSUME NEW S, NEW table \in Seq(S), NEW row \in S, NEW next, next = Append(table, row)
  PROVE  /\ next \in Seq(S)
         /\ Len(next) = Len(table) + 1
         /\ \A id \in 1 .. Len(table) : next[id] = table[id]
         /\ next[Len(next)] = row
BY AppendProperties

\* A row of a sequence is replaced.
LEMMA UpdatedRow ==
  ASSUME NEW S, NEW table \in Seq(S), NEW id \in 1 .. Len(table), NEW row \in S,
         NEW next, next = [table EXCEPT ![id] = row]
  PROVE  /\ next \in Seq(S)
         /\ Len(next) = Len(table)
         /\ \A i \in 1 .. Len(table) : next[i] = IF i = id THEN row ELSE table[i]
BY ExceptSeq

----------------------------------------------------------------------------
(* Type correctness.                                                       *)

\* A step preserves TypeOK: one case per action.
LEMMA TypeStep == TypeOK /\ [Next]_vars => TypeOK'
<1> SUFFICES ASSUME TypeOK, [Next]_vars
             PROVE  TypeOK'
  OBVIOUS
<1> USE ReservationsAssumption DEF TypeOK, ReserveSteps, CancelSteps, Ids
<1>0. Ids = 1 .. Len(reservations) /\ \A id \in Ids : reservations[id] \in Reservation
  BY DEF Ids
<1>1. ASSUME NEW h \in Handlers, NEW a \in Answers \cup {NoValue},
             Answer(h, a), UNCHANGED <<clock, rows>>
      PROVE  TypeOK'
  BY <1>1 DEF Answer, rows
<1>2. CASE UNCHANGED vars
  BY <1>2 DEF vars, rows, handling
<1>3. CASE Tick
  BY <1>3 DEF Tick, rows, handling
<1>4. ASSUME NEW h \in Handlers, ReceiveReserve(h)
      PROVE  TypeOK'
  BY <1>4 DEF ReceiveReserve, Receive, rows
<1>5. ASSUME NEW h \in Handlers, ReceiveCancel(h)
      PROVE  TypeOK'
  BY <1>5 DEF ReceiveCancel, Receive, rows, CancelRequest
<1>6. ASSUME NEW h \in Handlers, FindRoom(h)
      PROVE  TypeOK'
  <2> USE <1>6 DEF FindRoom
  <2>1. CASE request[h].room \in DOMAIN Rooms
    <3> DEFINE read == [id \in ReservationsOf(request[h].room) |-> reservations[id]]
    <3>0. /\ loaded' = [loaded EXCEPT ![h] = read] /\ loaded'[h] = read
          /\ view' = [view EXCEPT ![h] = Len(reservations)]
      BY <2>1 DEF Answer
    <3>1. \A id \in DOMAIN loaded'[h] : loaded'[h][id] \in Reservation
      BY <1>0, <3>0 DEF ReservationsOf
    <3> HIDE DEF read
    <3>2. \A g \in Handlers : g # h => loaded'[g] = loaded[g]
      BY <3>0
    <3>3. view' \in [Handlers -> Nat] /\ DOMAIN loaded' = Handlers
      BY <3>0
    <3>4. QED
      BY <2>1, <3>1, <3>2, <3>3 DEF Await, rows
  <2>2. CASE request[h].room \notin DOMAIN Rooms
    BY <1>1, <2>2 DEF Answers, MissingRow
  <2>3. QED
    BY <2>1, <2>2
<1>7. ASSUME NEW h \in Handlers, Validate(h)
      PROVE  TypeOK'
  BY <1>1, <1>7 DEF Validate, Verdict, Await, Answers, rows
<1>8. ASSUME NEW h \in Handlers, Insert(h)
      PROVE  TypeOK'
  <2> USE <1>8 DEF Insert
  <2>1. CASE FitsPriceColumn(request[h].price)
    <3>1. NewReservation(request[h]) \in Reservation
      BY DEF NewReservation, Reservation, ReserveRequest, Statuses
    <3>2. reservations' \in Seq(Reservation) /\ Len(reservations') = Len(reservations) + 1
      <4>1. reservations' = Append(reservations, NewReservation(request[h]))
        BY <2>1
      <4>2. QED
        BY <3>1, <4>1, InsertedRow
    <3>3. /\ origin' \in Seq([handler: Handlers, view: Nat])
          /\ Len(origin') = Len(origin) + 1
      <4>1. [handler |-> h, view |-> view[h]] \in [handler: Handlers, view: Nat]
        OBVIOUS
      <4>2. origin' = Append(origin, [handler |-> h, view |-> view[h]])
        BY <2>1
      <4>3. QED
        BY <4>1, <4>2, InsertedRow
    <3>4. Ids \subseteq Ids'
      BY <3>2, <1>0 DEF Ids
    <3>5. QED
      BY <2>1, <3>2, <3>3, <3>4 DEF Await
  <2>2. CASE ~FitsPriceColumn(request[h].price)
    BY <1>1, <2>2 DEF Answers, rows
  <2>3. QED
    BY <2>1, <2>2
<1>9. ASSUME NEW h \in Handlers, ReplyReserved(h)
      PROVE  TypeOK'
  BY <1>1, <1>9 DEF ReplyReserved, Answers
<1>10. ASSUME NEW h \in Handlers, FindReservation(h)
       PROVE  TypeOK'
  <2> USE <1>10 DEF FindReservation
  <2>1. CASE request[h].id \in Ids
    <3>1. \A id \in DOMAIN loaded'[h] : loaded'[h][id] \in Reservation
      BY <1>0, <2>1 DEF Answer
    <3>2. \A g \in Handlers : g # h => loaded'[g] = loaded[g]
      BY <2>1
    <3>3. /\ DOMAIN loaded' = Handlers
          /\ request[h].id \in DOMAIN loaded'[h]
      BY <2>1
    <3>4. /\ pc' = [pc EXCEPT ![h] = "update"] /\ request' = request
          /\ UNCHANGED <<answer, view, clock, reservations, origin>>
      BY <2>1 DEF Await, Answer, rows
    <3>5. QED
      BY <2>1, <3>1, <3>2, <3>3, <3>4
  <2>2. CASE request[h].id \notin Ids
    BY <1>1, <2>2 DEF Answers, MissingRow
  <2>3. QED
    BY <2>1, <2>2
<1>11. ASSUME NEW h \in Handlers, Update(h)
       PROVE  TypeOK'
  <2> DEFINE id == request[h].id
             row == [loaded[h][id] EXCEPT !.status = "CANCELED"]
  <2>1. /\ id \in 1 .. Len(reservations)
        /\ loaded[h][id] \in Reservation
        /\ reservations' = [reservations EXCEPT ![id] = row]
    BY <1>0, <1>11 DEF Update
  <2>2. reservations' \in Seq(Reservation) /\ Len(reservations') = Len(reservations)
    <3>1. row \in Reservation
      BY <2>1, CanceledRow
    <3> HIDE DEF row, id
    <3>2. QED
      BY <2>1, <3>1, UpdatedRow
  <2>3. Ids' = Ids
    BY <1>0, <2>2 DEF Ids
  <2>4. QED
    BY <1>11, <2>2, <2>3 DEF Update, Await
<1>12. ASSUME NEW h \in Handlers, ReplyCanceled(h)
       PROVE  TypeOK'
  BY <1>1, <1>12 DEF ReplyCanceled, Answers
<1>13. ASSUME NEW h \in Handlers, DatabaseError(h)
       PROVE  TypeOK'
  BY <1>1, <1>13 DEF DatabaseError, Answers
<1>14. ASSUME NEW h \in Handlers, Crash(h)
       PROVE  TypeOK'
  BY <1>1, <1>14 DEF Crash
<1>15. ASSUME NEW h \in Handlers, WrapperThrows(h)
       PROVE  TypeOK'
  BY <1>1, <1>15 DEF WrapperThrows, Answers
<1>16. QED
  BY <1>2, <1>3, <1>4, <1>5, <1>6, <1>7, <1>8, <1>9, <1>10, <1>11, <1>12, <1>13, <1>14, <1>15
     DEF Next, Step

----------------------------------------------------------------------------
(* Every step moves the rows forward.                                      *)

\* The rows that were there still are, and at most canceled.
RowsEvolve ==
    /\ Len(reservations) <= Len(reservations')
    /\ Ids \subseteq Ids'
    /\ \A id \in Ids : Evolves(reservations[id], reservations'[id]) /\ origin'[id] = origin[id]

\* A step of the requests other than h's, or one that h does not take part in.
Untouched(h) ==
    /\ pc'[h] = pc[h] /\ request'[h] = request[h]
    /\ loaded'[h] = loaded[h] /\ view'[h] = view[h]
    /\ \A id \in Ids' \ Ids : origin'[id].handler # h

Handling(h) ==
    ReadIsFaithful(h) /\ ReadIsComplete(h) /\ ValidatedStaysApart(h) /\ NewerRowsAreOthers(h)

\* The ids are 1, 2, ... and every row is a Reservation.
LEMMA IdsAreAPrefix ==
  ASSUME TypeOK
  PROVE  /\ Ids = 1 .. Len(reservations)
         /\ Len(reservations) \in Nat
         /\ \A id \in Ids : /\ reservations[id] \in Reservation
                            /\ origin[id] \in [handler: Handlers, view: Nat]
<1>1. /\ reservations \in Seq(Reservation)
      /\ origin \in Seq([handler: Handlers, view: Nat])
      /\ Len(origin) = Len(reservations)
  BY DEF TypeOK
<1> HIDE DEF TypeOK
<1>2. Ids = 1 .. Len(reservations) /\ Len(reservations) \in Nat
  BY <1>1 DEF Ids
<1>3. \A id \in 1 .. Len(reservations) : reservations[id] \in Reservation
  BY <1>1
<1>4. \A id \in 1 .. Len(origin) : origin[id] \in [handler: Handlers, view: Nat]
  BY <1>1, ElementOfSeq, Zenon
<1>5. 1 .. Len(origin) = Ids
  BY <1>1, <1>2
<1>6. QED
  BY <1>2, <1>3, <1>4, <1>5, Zenon

\* What Insert does to the rows.
LEMMA InsertRows ==
  ASSUME IInv, NEW h \in Handlers, Insert(h), FitsPriceColumn(request[h].price)
  PROVE  /\ RowsEvolve
         /\ Len(reservations') = Len(reservations) + 1
         /\ Ids' = Ids \cup {Len(reservations')}
         /\ reservations'[Len(reservations')] = NewReservation(request[h])
         /\ origin'[Len(reservations')] = [handler |-> h, view |-> view[h]]
         /\ NewReservation(request[h]) \in Reservation
         /\ \A id \in Ids : reservations'[id] = reservations[id]
<1> USE DEF IInv
<1>1. NewReservation(request[h]) \in Reservation
  BY ReservationsAssumption
     DEF TypeOK, Insert, ReserveSteps, NewReservation, Reservation, ReserveRequest, Statuses
<1>2. [handler |-> h, view |-> view[h]] \in [handler: Handlers, view: Nat]
  BY DEF TypeOK
<1>3. /\ reservations' = Append(reservations, NewReservation(request[h]))
      /\ origin' = Append(origin, [handler |-> h, view |-> view[h]])
  BY DEF Insert
<1>4. /\ reservations \in Seq(Reservation)
      /\ origin \in Seq([handler: Handlers, view: Nat])
      /\ Len(origin) = Len(reservations)
      /\ Len(reservations) \in Nat
  BY DEF TypeOK
<1>5. /\ reservations' \in Seq(Reservation)
      /\ Len(reservations') = Len(reservations) + 1
      /\ \A id \in 1 .. Len(reservations) : reservations'[id] = reservations[id]
      /\ reservations'[Len(reservations')] = NewReservation(request[h])
  BY <1>1, <1>3, <1>4, InsertedRow
<1>6. /\ Len(origin') = Len(origin) + 1
      /\ \A id \in 1 .. Len(origin) : origin'[id] = origin[id]
      /\ origin'[Len(origin')] = [handler |-> h, view |-> view[h]]
  BY <1>2, <1>3, <1>4, InsertedRow
<1>7. Ids = 1 .. Len(reservations) /\ Ids' = 1 .. Len(reservations')
  BY <1>4, <1>5 DEF Ids
<1>8. QED
  BY <1>1, <1>4, <1>5, <1>6, <1>7 DEF RowsEvolve, Evolves

\* What Update does to the rows.
LEMMA UpdateRows ==
  ASSUME IInv, NEW h \in Handlers, Update(h)
  PROVE  /\ RowsEvolve /\ Ids' = Ids
         /\ request[h].id \in Ids
         /\ origin' = origin
         /\ \A i \in Ids : reservations'[i] =
              IF i = request[h].id THEN [reservations[i] EXCEPT !.status = "CANCELED"]
              ELSE reservations[i]
<1> DEFINE id  == request[h].id
           row == [loaded[h][id] EXCEPT !.status = "CANCELED"]
<1>1. /\ id \in Ids /\ id \in DOMAIN loaded[h]
      /\ loaded[h][id] \in Reservation
      /\ Evolves(loaded[h][id], reservations[id])
      /\ reservations' = [reservations EXCEPT ![id] = row]
      /\ origin' = origin
  BY DEF IInv, TypeOK, Update, ReadIsFaithful
<1>2. /\ reservations \in Seq(Reservation)
      /\ Ids = 1 .. Len(reservations)
      /\ Len(reservations) \in Nat
      /\ \A i \in Ids : reservations[i] \in Reservation
  BY IdsAreAPrefix DEF IInv, TypeOK
<1>3. row \in Reservation /\ Evolves(reservations[id], row)
  BY <1>1, <1>2, CanceledRow DEF Evolves, Reservation
<1>3a. row = [reservations[id] EXCEPT !.status = "CANCELED"]
  BY <1>1, <1>2 DEF Evolves, Reservation
<1> HIDE DEF row
<1>4. /\ reservations' \in Seq(Reservation)
      /\ Len(reservations') = Len(reservations)
      /\ \A i \in Ids : reservations'[i] = IF i = id THEN row ELSE reservations[i]
  BY <1>1, <1>2, <1>3, UpdatedRow
<1>5. Ids' = Ids
  BY <1>2, <1>4 DEF Ids
<1>6. \A i \in Ids : Evolves(reservations[i], reservations'[i])
  BY <1>1, <1>2, <1>3, <1>4, CanceledRow
<1>7. QED
  BY <1>1, <1>2, <1>3a, <1>4, <1>5, <1>6 DEF RowsEvolve

\* A step that leaves the rows alone keeps the ids.
LEMMA SameRows ==
  ASSUME IInv, UNCHANGED rows
  PROVE  RowsEvolve /\ Ids' = Ids
<1>1. /\ Len(reservations) \in Nat
      /\ \A id \in Ids : reservations[id] \in Reservation
  BY IdsAreAPrefix DEF IInv
<1>2. reservations' = reservations /\ origin' = origin /\ Ids' = Ids
  BY DEF rows, Ids
<1>3. \A id \in Ids : Evolves(reservations[id], reservations'[id])
  BY <1>1, <1>2, CanceledRow
<1>4. QED
  BY <1>1, <1>2, <1>3 DEF RowsEvolve

----------------------------------------------------------------------------
(* What a handler knows stays true while the others work.                  *)

\* What is known of a handler that does not move stays true.
LEMMA UntouchedKeeps ==
  ASSUME IInv, TypeOK', RowsEvolve, NEW h \in Handlers, Untouched(h)
  PROVE  Handling(h)'
<1> USE DEF Untouched
<1>0. /\ Handling(h)
      /\ \A id \in DOMAIN loaded[h] : loaded[h][id] \in Reservation
      /\ view[h] \in Nat
      /\ request[h] = request'[h]
  BY DEF IInv, Handling, TypeOK
<1>1. /\ Ids = 1 .. Len(reservations)
      /\ Len(reservations) \in Nat
      /\ \A id \in Ids : reservations[id] \in Reservation
  BY IdsAreAPrefix DEF IInv
<1>2. ReadIsFaithful(h)'
  BY <1>0, EvolvesTwice DEF Handling, ReadIsFaithful, RowsEvolve
<1>3. ReadIsComplete(h)'
  <2>1. ASSUME pc[h] = "validate", NEW id \in 1 .. view[h],
               reservations'[id].room = request[h].room
        PROVE  id \in DOMAIN loaded[h]
    <3>1. id \in Ids
      BY <1>0, <1>1, <2>1 DEF Handling, NewerRowsAreOthers
    <3>2. reservations[id].room = request[h].room
      BY <1>1, <2>1, <3>1 DEF RowsEvolve, Evolves, Reservation
    <3>3. QED
      BY <1>0, <2>1, <3>2 DEF Handling, ReadIsComplete
  <2>2. QED
    BY <2>1 DEF ReadIsComplete
<1>4. ValidatedStaysApart(h)'
  <2>1. ASSUME pc[h] = "insert", NEW id \in 1 .. view[h]
        PROVE  ~Overlap(reservations'[id], NewReservation(request[h]))
    <3>1. id \in Ids
      BY <1>0, <1>1, <2>1 DEF Handling, NewerRowsAreOthers
    <3>2. NewReservation(request[h]) \in Reservation
      BY <2>1, ReservationsAssumption
         DEF IInv, TypeOK, ReserveSteps, NewReservation, Reservation, ReserveRequest, Statuses
    <3>3. ~Overlap(reservations[id], NewReservation(request[h]))
      BY <1>0, <2>1 DEF Handling, ValidatedStaysApart
    <3>4. QED
      BY <1>1, <3>1, <3>2, <3>3, EvolvingKeepsApart, CanceledRow DEF RowsEvolve
  <2>2. QED
    BY <1>0, <2>1 DEF ValidatedStaysApart, NewReservation
<1>5. NewerRowsAreOthers(h)'
  <2>1. Len(reservations') \in Nat /\ Ids' = 1 .. Len(reservations')
    BY DEF TypeOK, Ids
  <2>2. ASSUME pc[h] \in {"validate", "insert"}
        PROVE  view[h] <= Len(reservations')
    BY <1>0, <1>1, <2>1, <2>2 DEF Handling, NewerRowsAreOthers, RowsEvolve
  <2>3. ASSUME pc[h] \in {"validate", "insert"}, NEW id \in Ids', id > view[h]
        PROVE  origin'[id].handler # h
    BY <1>0, <2>3 DEF Handling, NewerRowsAreOthers, RowsEvolve
  <2>4. QED
    BY <2>2, <2>3 DEF NewerRowsAreOthers
<1>6. QED
  BY <1>2, <1>3, <1>4, <1>5 DEF Handling

\* Nothing is claimed of a handler past its last query.
LEMMA AnsweredKnowsNothing ==
  ASSUME NEW h, pc'[h] \notin {"validate", "insert", "update"}
  PROVE  Handling(h)'
BY DEF Handling, ReadIsFaithful, ReadIsComplete, ValidatedStaysApart, NewerRowsAreOthers

----------------------------------------------------------------------------
(* Every step preserves the inductive invariant.                           *)

\* The steps after which h is idle, or waits for a first query or the reply.
Settles(h) ==
    /\ pc'[h] \notin {"validate", "insert", "update"}
    /\ \A g \in Handlers \ {h} : Untouched(g)

\* An answer ends the work of its handler and of no other.
LEMMA AnswerSettles ==
  ASSUME TypeOK, NEW h \in Handlers, NEW a, Answer(h, a), UNCHANGED rows
  PROVE  Settles(h)
<1>1. Ids' = Ids
  BY DEF rows, Ids
<1>2. QED
  BY <1>1 DEF TypeOK, Settles, Untouched, Answer

\* FindRoom: what was read is today's, and complete.
LEMMA FindRoomHandling ==
  ASSUME IInv, NEW h \in Handlers, FindRoom(h)
  PROVE  RowsEvolve /\ Ids' = Ids /\ \A g \in Handlers : Untouched(g) \/ Handling(g)'
<1>1. RowsEvolve /\ Ids' = Ids
  BY SameRows DEF FindRoom
<1>2. CASE request[h].room \in DOMAIN Rooms
  <2> DEFINE read == [id \in ReservationsOf(request[h].room) |-> reservations[id]]
  <2>1. /\ pc'[h] = "validate" /\ request' = request
        /\ loaded'[h] = read /\ view'[h] = Len(reservations)
        /\ reservations' = reservations
        /\ \A g \in Handlers \ {h} : Untouched(g)
    BY <1>1, <1>2 DEF FindRoom, Await, Answer, rows, IInv, TypeOK, Untouched
  <2>2. /\ Ids = 1 .. Len(reservations)
        /\ Len(reservations) \in Nat
        /\ \A id \in Ids : reservations[id] \in Reservation
    BY IdsAreAPrefix DEF IInv
  <2>3. ReadIsFaithful(h)'
    BY <1>1, <2>1, <2>2, CanceledRow DEF ReadIsFaithful, ReservationsOf
  <2>4. ReadIsComplete(h)'
    BY <2>1, <2>2 DEF ReadIsComplete, ReservationsOf
  <2>5. ValidatedStaysApart(h)'
    BY <2>1 DEF ValidatedStaysApart
  <2>6. NewerRowsAreOthers(h)'
    BY <1>1, <2>1, <2>2 DEF NewerRowsAreOthers
  <2>7. QED
    BY <1>1, <2>1, <2>3, <2>4, <2>5, <2>6 DEF Handling
<1>3. CASE request[h].room \notin DOMAIN Rooms
  BY <1>1, <1>3, AnswerSettles, AnsweredKnowsNothing DEF FindRoom, IInv, Settles
<1>4. QED
  BY <1>2, <1>3

\* A stay that passes validateReservation is apart from all that was read.
LEMMA ValidStayIsApart ==
  ASSUME IInv, NEW h \in Handlers, pc[h] = "validate",
         Verdict(Rooms[request[h].room], request[h], loaded[h], clock) = "valid", NEW id \in 1 .. view[h]
  PROVE  ~Overlap(reservations[id], NewReservation(request[h]))
<1> DEFINE r == request[h]
<1>1. r \in ReserveRequest
  BY ReservationsAssumption DEF IInv, TypeOK, ReserveSteps
<1>2. id \in Ids /\ reservations[id] \in Reservation
  BY IdsAreAPrefix DEF IInv, NewerRowsAreOthers, TypeOK
<1>3. IsAccommodable(loaded[h], r)
  BY DEF Verdict
<1>4. SUFFICES ASSUME Overlap(reservations[id], NewReservation(r))
               PROVE  FALSE
  OBVIOUS
<1>5. /\ reservations[id].room = r.room
      /\ IsScheduled(reservations[id])
      /\ \E n \in Nights(reservations[id]) : n \in Nights(r)
  BY <1>4 DEF Overlap, NewReservation, Nights
<1>6. /\ id \in DOMAIN loaded[h] /\ loaded[h][id] \in Reservation
      /\ Evolves(loaded[h][id], reservations[id])
  BY <1>5 DEF IInv, ReadIsComplete, ReadIsFaithful, TypeOK
<1>7. /\ IsScheduled(loaded[h][id])
      /\ loaded[h][id].checkIn = reservations[id].checkIn
      /\ loaded[h][id].checkOut = reservations[id].checkOut
  BY <1>5, <1>6 DEF Evolves, Reservation, IsScheduled
<1>8. Intersect(StayTerm(loaded[h][id]), StayTerm(r))
  BY <1>1, <1>2, <1>5, <1>7 DEF Intersect, StayTerm, Nights, Reservation, ReserveRequest
<1>9. QED
  BY <1>3, <1>6, <1>7, <1>8 DEF IsAccommodable

\* Validate: the stay is apart from all that was read.
LEMMA ValidateHandling ==
  ASSUME IInv, NEW h \in Handlers, Validate(h)
  PROVE  RowsEvolve /\ Ids' = Ids /\ \A g \in Handlers : Untouched(g) \/ Handling(g)'
<1>1. RowsEvolve /\ Ids' = Ids /\ reservations' = reservations /\ origin' = origin
  BY SameRows DEF Validate, rows
<1>2. CASE Verdict(Rooms[request[h].room], request[h], loaded[h], clock) = "valid"
  <2>1. /\ pc[h] = "validate" /\ pc'[h] = "insert" /\ request' = request
        /\ loaded' = loaded /\ view' = view
        /\ \A g \in Handlers \ {h} : Untouched(g)
    BY <1>1, <1>2 DEF Validate, Await, Answer, IInv, TypeOK, Untouched
  <2>2. ReadIsFaithful(h)' /\ ReadIsComplete(h)'
    BY <2>1 DEF ReadIsFaithful, ReadIsComplete
  <2>3. ValidatedStaysApart(h)'
    BY <1>1, <1>2, <2>1, ValidStayIsApart DEF ValidatedStaysApart, NewReservation
  <2>4. NewerRowsAreOthers(h)'
    BY <1>1, <2>1 DEF NewerRowsAreOthers, IInv
  <2>5. QED
    BY <1>1, <2>1, <2>2, <2>3, <2>4 DEF Handling
<1>3. CASE Verdict(Rooms[request[h].room], request[h], loaded[h], clock) # "valid"
  <2>1. Answer(h, Verdict(Rooms[request[h].room], request[h], loaded[h], clock)) /\ UNCHANGED rows
    BY <1>3 DEF Validate
  <2>2. QED
    BY <1>1, <2>1, AnswerSettles, AnsweredKnowsNothing DEF IInv, Settles
<1>4. QED
  BY <1>2, <1>3

\* FindReservation: what was read is today's.
LEMMA FindReservationHandling ==
  ASSUME IInv, NEW h \in Handlers, FindReservation(h)
  PROVE  RowsEvolve /\ Ids' = Ids /\ \A g \in Handlers : Untouched(g) \/ Handling(g)'
<1>1. RowsEvolve /\ Ids' = Ids /\ reservations' = reservations
  BY SameRows DEF FindReservation, rows
<1>2. CASE request[h].id \in Ids
  <2> DEFINE read == [id \in {request[h].id} |-> reservations[id]]
  <2>1. /\ pc'[h] = "update" /\ loaded'[h] = read
        /\ \A g \in Handlers \ {h} : Untouched(g)
    BY <1>1, <1>2 DEF FindReservation, Await, Answer, IInv, TypeOK, Untouched
  <2>2. reservations[request[h].id] \in Reservation
    BY <1>2, IdsAreAPrefix DEF IInv
  <2>3. ReadIsFaithful(h)'
    BY <1>1, <1>2, <2>1, <2>2, CanceledRow DEF ReadIsFaithful
  <2>4. ReadIsComplete(h)' /\ ValidatedStaysApart(h)' /\ NewerRowsAreOthers(h)'
    BY <2>1 DEF ReadIsComplete, ValidatedStaysApart, NewerRowsAreOthers
  <2>5. QED
    BY <1>1, <2>1, <2>3, <2>4 DEF Handling
<1>3. CASE request[h].id \notin Ids
  BY <1>1, <1>3, AnswerSettles, AnsweredKnowsNothing DEF FindReservation, IInv, Settles
<1>4. QED
  BY <1>2, <1>3

\* Update: the others' reads stay faithful.
LEMMA UpdateHandling ==
  ASSUME IInv, NEW h \in Handlers, Update(h)
  PROVE  RowsEvolve /\ Ids' = Ids /\ \A g \in Handlers : Untouched(g) \/ Handling(g)'
<1>1. RowsEvolve /\ Ids' = Ids
  BY UpdateRows
<1>2. pc'[h] = "updated" /\ \A g \in Handlers \ {h} : Untouched(g)
  BY <1>1 DEF Update, Await, IInv, TypeOK, Untouched
<1>3. QED
  BY <1>1, <1>2, AnsweredKnowsNothing

\* Insert: the new row is newer than every other view.
LEMMA InsertHandling ==
  ASSUME IInv, NEW h \in Handlers, Insert(h)
  PROVE  RowsEvolve /\ \A g \in Handlers : Untouched(g) \/ Handling(g)'
<1>1. CASE FitsPriceColumn(request[h].price)
  <2>1. RowsEvolve
    BY <1>1, InsertRows
  <2>2. pc'[h] = "inserted" /\ \A g \in Handlers \ {h} : Untouched(g)
    <3>1. \A id \in Ids' \ Ids : origin'[id].handler = h
      <4>1. /\ Ids' = Ids \cup {Len(reservations')}
            /\ origin'[Len(reservations')] = [handler |-> h, view |-> view[h]]
        BY <1>1, InsertRows
      <4>2. QED
        BY <4>1
    <3>2. QED
      BY <1>1, <3>1 DEF Insert, Await, Answer, IInv, TypeOK, Untouched
  <2>3. QED
    BY <2>1, <2>2, AnsweredKnowsNothing
<1>2. CASE ~FitsPriceColumn(request[h].price)
  <2>1. Answer(h, "databaseError") /\ UNCHANGED rows
    BY <1>2 DEF Insert
  <2>2. QED
    BY <2>1, SameRows, AnswerSettles, AnsweredKnowsNothing DEF IInv, Settles
<1>3. QED
  BY <1>1, <1>2

\* The steps that leave the rows alone and make the handler wait or answer.
LEMMA OtherHandling ==
  ASSUME IInv, NEW h \in Handlers,
         \/ ReceiveReserve(h) \/ ReceiveCancel(h) \/ ReplyReserved(h) \/ ReplyCanceled(h)
         \/ DatabaseError(h) \/ Crash(h) \/ WrapperThrows(h)
  PROVE  RowsEvolve /\ Ids' = Ids /\ \A g \in Handlers : Untouched(g) \/ Handling(g)'
<1>1. UNCHANGED rows
  BY DEF ReceiveReserve, ReceiveCancel, Receive, ReplyReserved, ReplyCanceled,
     DatabaseError, Crash, WrapperThrows
<1>2. RowsEvolve /\ Ids' = Ids
  BY <1>1, SameRows
<1>3. CASE ReceiveReserve(h) \/ ReceiveCancel(h)
  <2>1. PICK step \in {"findRoom", "findReservation"} : \E r : Receive(h, step, r)
    BY <1>3 DEF ReceiveReserve, ReceiveCancel
  <2>2. pc'[h] = step /\ \A g \in Handlers \ {h} : Untouched(g)
    BY <1>2, <2>1 DEF Receive, IInv, TypeOK, Untouched
  <2>3. QED
    BY <1>2, <2>1, <2>2, AnsweredKnowsNothing
<1>4. ASSUME NEW a, Answer(h, a)
      PROVE  \A g \in Handlers : Untouched(g) \/ Handling(g)'
  BY <1>1, <1>4, AnswerSettles, AnsweredKnowsNothing DEF IInv, Settles
<1>5. QED
  BY <1>2, <1>3, <1>4 DEF ReplyReserved, ReplyCanceled, DatabaseError, Crash, WrapperThrows

\* Every step keeps what is known of the handlers.
LEMMA StepHandling ==
  ASSUME IInv, [Next]_vars
  PROVE  RowsEvolve /\ \A h \in Handlers : Untouched(h) \/ Handling(h)'
<1>1. CASE UNCHANGED vars \/ Tick
  <2>1. UNCHANGED <<rows, handling>>
    BY <1>1 DEF vars, Tick
  <2>2. RowsEvolve /\ Ids' = Ids
    BY <2>1, SameRows
  <2>3. QED
    BY <2>1, <2>2 DEF handling, Untouched
<1>2. ASSUME NEW h \in Handlers,
             \/ Step(h) \/ ReceiveReserve(h) \/ ReceiveCancel(h)
             \/ DatabaseError(h) \/ Crash(h) \/ WrapperThrows(h)
      PROVE  RowsEvolve /\ \A g \in Handlers : Untouched(g) \/ Handling(g)'
  BY <1>2, FindRoomHandling, ValidateHandling, InsertHandling, FindReservationHandling,
     UpdateHandling, OtherHandling DEF Step
<1>3. QED
  BY <1>1, <1>2 DEF Next

\* A step that inserts is an Insert, which reads its handler's view.
LEMMA NewRow ==
  ASSUME IInv, [Next]_vars
  PROVE  \/ Ids' = Ids
         \/ \E h \in Handlers : Insert(h) /\ FitsPriceColumn(request[h].price)
<1>1. CASE UNCHANGED vars \/ Tick
  BY <1>1, SameRows DEF vars, Tick
<1>2. ASSUME NEW h \in Handlers,
             \/ Step(h) \/ ReceiveReserve(h) \/ ReceiveCancel(h)
             \/ DatabaseError(h) \/ Crash(h) \/ WrapperThrows(h),
             ~Insert(h)
      PROVE  Ids' = Ids
  BY <1>2, FindRoomHandling, ValidateHandling, FindReservationHandling,
     UpdateHandling, OtherHandling DEF Step
<1>3. ASSUME NEW h \in Handlers, Insert(h), ~FitsPriceColumn(request[h].price)
      PROVE  Ids' = Ids
  BY <1>3, SameRows DEF Insert
<1>4. QED
  BY <1>1, <1>2, <1>3 DEF Next

\* Every step preserves the inductive invariant.
LEMMA InvStep == IInv /\ [Next]_vars => IInv'
<1> SUFFICES ASSUME IInv, [Next]_vars
             PROVE  IInv'
  OBVIOUS
<1>1. TypeOK'
  BY TypeStep DEF IInv
<1>2. RowsEvolve
  BY StepHandling
<1>3. /\ Ids = 1 .. Len(reservations)
      /\ Len(reservations) \in Nat
      /\ \A id \in Ids : /\ reservations[id] \in Reservation
                         /\ origin[id] \in [handler: Handlers, view: Nat]
  BY IdsAreAPrefix DEF IInv
<1>4. ASSUME NEW h \in Handlers
      PROVE  Handling(h)'
  BY <1>1, <1>2, StepHandling, UntouchedKeeps
<1>5. ASSUME NEW a \in Ids, NEW b \in Ids, a <= origin[b].view
      PROVE  ~Overlap(reservations'[a], reservations'[b])
  BY <1>2, <1>3, <1>5, EvolvingKeepsApart DEF IInv, NoOverlapWithWhatWasRead, RowsEvolve
<1>6. CASE Ids' = Ids
  <2>1. \A id \in Ids' : origin'[id].view < id
    BY <1>2, <1>6 DEF IInv, RowsEvolve
  <2>2. NoOverlapWithWhatWasRead'
    BY <1>2, <1>5, <1>6 DEF NoOverlapWithWhatWasRead, RowsEvolve
  <2>3. UnseenRowsAreOthers'
    BY <1>2, <1>6 DEF IInv, UnseenRowsAreOthers, RowsEvolve
  <2>4. QED
    BY <1>1, <1>4, <2>1, <2>2, <2>3 DEF IInv, Handling
<1>7. ASSUME NEW h \in Handlers, Insert(h), FitsPriceColumn(request[h].price)
      PROVE  IInv'
  <2> DEFINE new == Len(reservations')
  <2>1. /\ new = Len(reservations) + 1
        /\ Ids' = Ids \cup {new}
        /\ reservations'[new] = NewReservation(request[h])
        /\ NewReservation(request[h]) \in Reservation
        /\ origin'[new] = [handler |-> h, view |-> view[h]]
    BY <1>7, InsertRows
  <2> HIDE DEF new
  <2>2. view[h] \in Nat /\ view[h] < new /\ pc[h] = "insert"
    BY <1>3, <1>7, <2>1 DEF IInv, NewerRowsAreOthers, TypeOK, Insert
  <2>3. \A id \in Ids' : origin'[id].view < id
    BY <1>2, <2>1, <2>2 DEF IInv, RowsEvolve
  <2>4. ASSUME NEW a \in Ids', a <= view[h]
        PROVE  ~Overlap(reservations'[a], reservations'[new])
    <3>1. a \in Ids /\ a \in 1 .. view[h]
      BY <1>3, <2>1, <2>4, <2>2
    <3>2. ~Overlap(reservations[a], NewReservation(request[h]))
      BY <2>2, <3>1 DEF IInv, ValidatedStaysApart
    <3>3. QED
      BY <1>2, <1>3, <2>1, <3>1, <3>2, EvolvingKeepsApart, CanceledRow DEF RowsEvolve
  <2>5. NoOverlapWithWhatWasRead'
    <3>1. ASSUME NEW a \in Ids', NEW b \in Ids, a <= origin'[b].view
          PROVE  a \in Ids /\ a <= origin[b].view
      BY <1>2, <1>3, <2>1, <3>1 DEF IInv, RowsEvolve
    <3>2. QED
      BY <1>5, <2>1, <2>4, <3>1 DEF NoOverlapWithWhatWasRead
  <2>6. UnseenRowsAreOthers'
    <3>1. ASSUME NEW a \in Ids, view[h] < a
          PROVE  origin'[a].handler # h
      BY <1>2, <2>2, <3>1 DEF IInv, NewerRowsAreOthers, RowsEvolve
    <3>2. ASSUME NEW a \in Ids', NEW b \in Ids, a < b
          PROVE  a \in Ids /\ origin'[a] = origin[a] /\ origin'[b] = origin[b]
      BY <1>2, <1>3, <2>1, <3>2 DEF RowsEvolve
    <3>3. QED
      BY <2>1, <3>1, <3>2 DEF IInv, UnseenRowsAreOthers
  <2>7. QED
    BY <1>1, <1>4, <2>3, <2>5, <2>6 DEF IInv, Handling
<1>8. QED
  BY <1>6, <1>7, NewRow

\* The invariant holds at the start.
LEMMA InvInit == Init => IInv
BY ReservationsAssumption
   DEF Init, IInv, TypeOK, ReadIsFaithful, ReadIsComplete, ValidatedStaysApart,
       NewerRowsAreOthers, NoOverlapWithWhatWasRead, UnseenRowsAreOthers, Ids,
       ReserveSteps, CancelSteps

----------------------------------------------------------------------------
(* The theorems.                                                           *)

(***************************************************************************)
(* Every reachable state of the reservation service satisfies IInv.        *)
(***************************************************************************)
THEOREM Invariance == Spec => []IInv
<1>1. Init => IInv
  BY InvInit
<1>2. IInv /\ [Next]_vars => IInv'
  BY InvStep
<1>3. QED
  BY <1>1, <1>2, PTL DEF Spec

(***************************************************************************)
(* Every variable of the reservation service has its type.                 *)
(***************************************************************************)
THEOREM TypeCorrectness == Spec => []TypeOK
<1>1. IInv => TypeOK
  BY DEF IInv
<1>2. QED
  BY <1>1, Invariance, PTL

(***************************************************************************)
(* No reservation shares a night with one that its handler could see.      *)
(***************************************************************************)
THEOREM SeenIsApart == Spec => []NoOverlapWithWhatWasRead
<1>1. IInv => NoOverlapWithWhatWasRead
  BY DEF IInv
<1>2. QED
  BY <1>1, Invariance, PTL

(***************************************************************************)
(* No step loses a row, changes a stay or undoes a cancellation.           *)
(***************************************************************************)
THEOREM CancelingIsFinal == Spec => RowsOnlyGetCanceled
<1>1. IInv /\ [Next]_vars =>
        [\A id \in Ids :
            id \in DOMAIN reservations' /\ Evolves(reservations[id], reservations'[id])]_rows
  BY StepHandling DEF RowsEvolve, Ids
<1>2. QED
  BY <1>1, Invariance, PTL DEF Spec, RowsOnlyGetCanceled

(***************************************************************************)
(* If at most one request is in flight at a time, no night is sold twice.  *)
(***************************************************************************)
THEOREM SerialServiceIsExact ==
  ASSUME \A g, h \in Handlers : g = h
  PROVE  Spec => []NoDoubleBooking
<1>1. ASSUME IInv, NEW a \in Ids, NEW b \in Ids, a < b
      PROVE  ~Overlap(reservations[a], reservations[b])
  <2>1. origin[a].handler \in Handlers /\ origin[b].handler \in Handlers
    BY <1>1, IdsAreAPrefix DEF IInv
  <2>2. ~(origin[b].view < a)
    BY <1>1, <2>1 DEF IInv, UnseenRowsAreOthers
  <2>3. a <= origin[b].view
    BY <1>1, <2>2, IdsAreAPrefix DEF IInv
  <2>4. QED
    BY <1>1, <2>3 DEF IInv, NoOverlapWithWhatWasRead
<1>2. IInv => NoDoubleBooking
  <2>1. ASSUME IInv, NEW a \in Ids, NEW b \in Ids, a # b
        PROVE  a < b \/ b < a
    BY <2>1, IdsAreAPrefix DEF IInv
  <2>2. \A r, s : Overlap(r, s) => Overlap(s, r)
    BY DEF Overlap
  <2>3. QED
    BY <1>1, <2>1, <2>2 DEF NoDoubleBooking
<1>3. QED
  BY <1>2, Invariance, PTL

(***************************************************************************)
(* The reservations that hold the same night of a room were inserted by    *)
(* different handlers: of two of them, the later one had not seen the      *)
(* earlier one.  So there are at most as many as handlers.                 *)
(***************************************************************************)
THEOREM OverbookingIsBounded == Spec => []SoldAtMostOncePerHandler
<1>1. ASSUME IInv, NEW first \in Ids, NEW night \in Nights(reservations[first])
      PROVE  Cardinality({id \in ReservationsOf(reservations[first].room) :
                             /\ IsScheduled(reservations[id])
                             /\ night \in Nights(reservations[id])}) <= Cardinality(Handlers)
  <2> DEFINE sold == {id \in ReservationsOf(reservations[first].room) :
                         /\ IsScheduled(reservations[id])
                         /\ night \in Nights(reservations[id])}
             soldBy == [id \in sold |-> origin[id].handler]
  <2>1. sold \subseteq Ids /\ Ids \subseteq Int
    BY <1>1, IdsAreAPrefix DEF IInv, ReservationsOf
  <2>2. \A a, b \in sold : Overlap(reservations[a], reservations[b])
    BY DEF Overlap, ReservationsOf
  <2>3. ASSUME NEW a \in sold, NEW b \in sold, a < b
        PROVE  origin[a].handler # origin[b].handler
    <3>1. origin[b].view \in Int
      BY <1>1, <2>1, IdsAreAPrefix DEF IInv
    <3>2. ~(a <= origin[b].view)
      BY <1>1, <2>1, <2>2 DEF IInv, NoOverlapWithWhatWasRead
    <3>3. UnseenRowsAreOthers
      BY <1>1 DEF IInv
    <3>4. a \in Ids /\ b \in Ids /\ a \in Int /\ b \in Int
      BY <2>1
    <3> HIDE DEF sold
    <3>5. origin[b].view < a
      BY <3>1, <3>2, <3>4
    <3>6. QED
      BY <2>3, <3>3, <3>4, <3>5 DEF UnseenRowsAreOthers
  <2>4. \A id \in sold : origin[id].handler \in Handlers
    BY <1>1, <2>1, IdsAreAPrefix DEF IInv
  <2> HIDE DEF sold
  <2>5. soldBy \in Injection(sold, Handlers)
    <3>1. soldBy \in [sold -> Handlers]
      BY <2>4
    <3>2. ASSUME NEW a \in sold, NEW b \in sold, soldBy[a] = soldBy[b]
          PROVE  a = b
      <4>1. a \in Int /\ b \in Int
        BY <2>1
      <4>2. ~(a < b) /\ ~(b < a)
        BY <2>3, <3>2
      <4>3. QED
        BY <4>1, <4>2
    <3>3. QED
      BY <3>1, <3>2 DEF Injection, IsInjective
  <2>6. IsFiniteSet(Handlers)
    BY ReservationsAssumption
  <2>7. Cardinality(sold) <= Cardinality(Handlers)
    BY <2>5, <2>6, FS_Injection
  <2>8. QED
    BY <2>7 DEF sold
<1>2. IInv => SoldAtMostOncePerHandler
  BY <1>1 DEF SoldAtMostOncePerHandler
<1>3. QED
  BY <1>2, Invariance, PTL

----------------------------------------------------------------------------
(* Why a guest is refused.                                                 *)

\* A handler that is at work has not answered yet.
NotAnswered(h) == pc[h] # "idle" => answer[h] = NoValue

\* It has read reservations of its room only, and none that is newer than its view.
ReadIsOfTheRoom(h) ==
    pc[h] = "validate" =>
        \A id \in DOMAIN loaded[h] : id <= view[h] /\ loaded[h][id].room = request[h].room

\* What is inserted, and every row, is a stay of at least one night.
InsertHasNights(h) == pc[h] = "insert" => request[h].checkIn < request[h].checkOut
RowsHaveNights == \A id \in Ids : reservations[id].checkIn < reservations[id].checkOut

RefusalInv ==
    /\ \A h \in Handlers : NotAnswered(h) /\ ReadIsOfTheRoom(h) /\ InsertHasNights(h)
    /\ RowsHaveNights

\* A step of h keeps what is said of the other handlers, which it leaves as they are.
LEMMA OthersStay ==
  ASSUME IInv, NEW h \in Handlers, NEW g \in Handlers, g # h,
         \/ Step(h) \/ ReceiveReserve(h) \/ ReceiveCancel(h)
         \/ DatabaseError(h) \/ Crash(h) \/ WrapperThrows(h)
  PROVE  /\ pc'[g] = pc[g] /\ request'[g] = request[g] /\ answer'[g] = answer[g]
         /\ loaded'[g] = loaded[g] /\ view'[g] = view[g]
<1> USE DEF IInv, TypeOK
<1>1. CASE Step(h)
  BY <1>1 DEF Step, FindRoom, Validate, Insert, ReplyReserved, FindReservation, Update,
     ReplyCanceled, Await, Answer
<1>2. CASE ReceiveReserve(h) \/ ReceiveCancel(h)
  BY <1>2 DEF ReceiveReserve, ReceiveCancel, Receive
<1>3. CASE DatabaseError(h) \/ Crash(h) \/ WrapperThrows(h)
  BY <1>3 DEF DatabaseError, Crash, WrapperThrows, Answer
<1>4. QED
  BY <1>1, <1>2, <1>3

\* After an answer nothing is said of its handler.
LEMMA AnsweredHasNoRead ==
  ASSUME TypeOK, NEW h \in Handlers, NEW a, Answer(h, a)
  PROVE  NotAnswered(h)' /\ ReadIsOfTheRoom(h)' /\ InsertHasNights(h)'
BY DEF TypeOK, Answer, NotAnswered, ReadIsOfTheRoom, InsertHasNights

\* A stay that passes validateReservation, and no other, is inserted.
LEMMA OwnStep ==
  ASSUME IInv, RefusalInv, NEW h \in Handlers,
         \/ Step(h) \/ ReceiveReserve(h) \/ ReceiveCancel(h)
         \/ DatabaseError(h) \/ Crash(h) \/ WrapperThrows(h)
  PROVE  NotAnswered(h)' /\ ReadIsOfTheRoom(h)' /\ InsertHasNights(h)'
<1>0. TypeOK /\ NotAnswered(h)
  BY DEF IInv, RefusalInv
<1> USE DEF NotAnswered, ReadIsOfTheRoom, InsertHasNights
<1>1. ASSUME NEW a, Answer(h, a)
      PROVE  NotAnswered(h)' /\ ReadIsOfTheRoom(h)' /\ InsertHasNights(h)'
  BY <1>0, <1>1, AnsweredHasNoRead
<1>2. CASE FindRoom(h) /\ request[h].room \in DOMAIN Rooms
  <2>1. /\ pc'[h] = "validate" /\ request' = request /\ answer' = answer
        /\ loaded'[h] = [id \in ReservationsOf(request[h].room) |-> reservations[id]]
        /\ view'[h] = Len(reservations) /\ pc[h] = "findRoom"
    BY <1>0, <1>2 DEF FindRoom, Await, Answer, TypeOK
  <2>2. Ids = 1 .. Len(reservations) /\ Len(reservations) \in Nat
    BY <1>0, IdsAreAPrefix
  <2>3. QED
    BY <1>0, <2>1, <2>2 DEF ReservationsOf
<1>3. CASE Validate(h) /\ Verdict(Rooms[request[h].room], request[h], loaded[h], clock) = "valid"
  <2>1. pc'[h] = "insert" /\ pc[h] = "validate" /\ request' = request /\ answer' = answer
    BY <1>0, <1>3 DEF Validate, Await, TypeOK
  <2>2. request[h] \in ReserveRequest
    BY <1>0, <2>1, ReservationsAssumption DEF TypeOK, ReserveSteps
  <2>3. ~WrongDates(request[h], clock)
    BY <1>3 DEF Verdict
  <2>4. request[h].checkIn < request[h].checkOut
    BY <2>2, <2>3 DEF WrongDates, ReserveRequest
  <2>5. QED
    BY <1>0, <2>1, <2>4
<1>4. CASE (Insert(h) /\ FitsPriceColumn(request[h].price)) \/ Update(h)
           \/ (FindReservation(h) /\ request[h].id \in Ids)
  BY <1>0, <1>4 DEF Insert, Update, FindReservation, Await, Answer, TypeOK
<1>5. CASE ReceiveReserve(h) \/ ReceiveCancel(h)
  BY <1>0, <1>5 DEF ReceiveReserve, ReceiveCancel, Receive, TypeOK
<1>6. QED
  BY <1>1, <1>2, <1>3, <1>4, <1>5
     DEF Step, FindRoom, Validate, Insert, ReplyReserved, FindReservation, ReplyCanceled,
         DatabaseError, Crash, WrapperThrows

\* Every step preserves what a refusal rests on.
LEMMA RefusalStep == IInv /\ RefusalInv /\ [Next]_vars => RefusalInv'
<1> SUFFICES ASSUME IInv, RefusalInv, [Next]_vars
             PROVE  RefusalInv'
  OBVIOUS
<1>1. /\ RowsEvolve
      /\ \A id \in Ids : reservations[id] \in Reservation
  BY StepHandling, IdsAreAPrefix DEF IInv
<1>2. RowsHaveNights'
  <2>1. \A id \in Ids : reservations'[id].checkIn < reservations'[id].checkOut
    BY <1>1 DEF RefusalInv, RowsHaveNights, RowsEvolve, Evolves, Reservation
  <2>2. ASSUME NEW h \in Handlers, Insert(h), FitsPriceColumn(request[h].price)
        PROVE  RowsHaveNights'
    <3>1. /\ Ids' = Ids \cup {Len(reservations')}
          /\ reservations'[Len(reservations')] = NewReservation(request[h])
      BY <2>2, InsertRows
    <3>2. request[h].checkIn < request[h].checkOut
      BY <2>2 DEF RefusalInv, InsertHasNights, Insert
    <3>3. QED
      BY <2>1, <3>1, <3>2 DEF RowsHaveNights, NewReservation
  <2>3. QED
    BY <2>1, <2>2, NewRow DEF RowsHaveNights
<1>3. ASSUME NEW g \in Handlers
      PROVE  NotAnswered(g)' /\ ReadIsOfTheRoom(g)' /\ InsertHasNights(g)'
  <2>1. NotAnswered(g) /\ ReadIsOfTheRoom(g) /\ InsertHasNights(g)
    BY DEF RefusalInv
  <2>2. CASE UNCHANGED vars \/ Tick
    BY <2>1, <2>2 DEF vars, Tick, handling, NotAnswered, ReadIsOfTheRoom, InsertHasNights
  <2>3. ASSUME NEW h \in Handlers,
               \/ Step(h) \/ ReceiveReserve(h) \/ ReceiveCancel(h)
               \/ DatabaseError(h) \/ Crash(h) \/ WrapperThrows(h)
        PROVE  NotAnswered(g)' /\ ReadIsOfTheRoom(g)' /\ InsertHasNights(g)'
    <3>1. CASE g = h
      BY <2>3, <3>1, OwnStep
    <3>2. CASE g # h
      BY <2>1, <2>3, <3>2, OthersStay DEF NotAnswered, ReadIsOfTheRoom, InsertHasNights
    <3>3. QED
      BY <3>1, <3>2
  <2>4. QED
    BY <2>2, <2>3 DEF Next
<1>4. QED
  BY <1>2, <1>3 DEF RefusalInv

\* The verdict is "unavailable" only for a night that is taken.
LEMMA UnavailableIsTaken ==
  ASSUME IInv, RefusalInv, NEW h \in Handlers, pc[h] = "validate",
         Verdict(Rooms[request[h].room], request[h], loaded[h], clock) = "unavailable"
  PROVE  Reasons(h) # {}
<1>1. request[h] \in ReserveRequest
  BY ReservationsAssumption DEF IInv, TypeOK, ReserveSteps
<1>2. ~WrongDates(request[h], clock) /\ ~IsAccommodable(loaded[h], request[h])
  BY DEF Verdict
<1>3. PICK id \in DOMAIN loaded[h] :
             IsScheduled(loaded[h][id]) /\ Intersect(StayTerm(loaded[h][id]), StayTerm(request[h]))
  BY <1>2 DEF IsAccommodable
<1>4. /\ id \in Ids /\ loaded[h][id] \in Reservation
      /\ Evolves(loaded[h][id], reservations[id])
      /\ id <= view[h] /\ loaded[h][id].room = request[h].room
      /\ view[h] \in Nat
  BY <1>3 DEF IInv, TypeOK, ReadIsFaithful, RefusalInv, ReadIsOfTheRoom
<1>5. id \in 1 .. view[h]
  BY <1>4, IdsAreAPrefix DEF IInv
<1>6. /\ reservations[id].checkIn = loaded[h][id].checkIn
      /\ reservations[id].checkOut = loaded[h][id].checkOut
  BY <1>4 DEF Evolves, Reservation
<1>7. loaded[h][id].checkIn < loaded[h][id].checkOut
  BY <1>4, <1>6 DEF RefusalInv, RowsHaveNights
<1>8. /\ loaded[h][id].checkIn \in Int /\ loaded[h][id].checkOut \in Int
      /\ request[h].checkIn \in Int /\ request[h].checkOut \in Int
      /\ request[h].checkIn < request[h].checkOut
  BY <1>1, <1>2, <1>4 DEF WrongDates, ReserveRequest, Reservation
<1>9. Nights(loaded[h][id]) \cap Nights(request[h]) # {}
  BY <1>3, <1>7, <1>8, StaysThatMeetShareANight
<1>10. id \in Reasons(h)
  BY <1>3, <1>4, <1>5, <1>9 DEF Reasons
<1>11. QED
  BY <1>10

(***************************************************************************)
(* Nobody is refused a room that is free: a request that is answered       *)
(* "unavailable" shares a night with a reservation of that room which was  *)
(* committed, and not canceled, when its handler read.                     *)
(***************************************************************************)
THEOREM RefusalIsJustified == Spec => RefusalHasAReason
<1>1. Init => RefusalInv
  BY DEF Init, RefusalInv, NotAnswered, ReadIsOfTheRoom, InsertHasNights, RowsHaveNights, Ids
<1>2. ASSUME IInv, RefusalInv, [Next]_vars, NEW g \in Handlers,
             pc[g] = "validate", answer'[g] = "unavailable"
      PROVE  Reasons(g) # {}
  <2>1. answer[g] = NoValue /\ NoValue # "unavailable"
    BY <1>2, ReservationsAssumption DEF RefusalInv, NotAnswered, Answers
  <2>2. ~UNCHANGED vars /\ ~Tick
    BY <1>2, <2>1 DEF vars, Tick, handling
  <2>3. PICK h \in Handlers :
               \/ Step(h) \/ ReceiveReserve(h) \/ ReceiveCancel(h)
               \/ DatabaseError(h) \/ Crash(h) \/ WrapperThrows(h)
    BY <1>2, <2>2 DEF Next
  <2>4. h = g
    BY <1>2, <2>1, <2>3, OthersStay
  <2>5. Validate(g)
    BY <1>2, <2>1, <2>3, <2>4
       DEF Step, FindRoom, Insert, ReplyReserved, FindReservation, Update, ReplyCanceled,
           ReceiveReserve, ReceiveCancel, Receive, DatabaseError, Crash, WrapperThrows, Answer, IInv, TypeOK
  <2>6. answer'[g] = Verdict(Rooms[request[g].room], request[g], loaded[g], clock)
    BY <1>2, <2>1, <2>5 DEF Validate, Await, Answer, IInv, TypeOK
  <2>7. QED
    BY <1>2, <2>6, UnavailableIsTaken
<1>3. IInv /\ RefusalInv /\ [Next]_vars =>
        [\A h \in Handlers :
           pc[h] = "validate" /\ answer'[h] = "unavailable" => Reasons(h) # {}]_vars
  BY <1>2
<1>4. QED
  BY <1>1, <1>3, RefusalStep, Invariance, PTL DEF Spec, RefusalHasAReason

----------------------------------------------------------------------------
(* What a guest owes.                                                      *)

\* What is about to be inserted was validated, now or earlier.
InsertHasAPrice(h) == pc[h] = "insert" => HasAPriceOfThePast(request[h])

PriceInv == BookedAtAPriceOfThePast /\ \A h \in Handlers : InsertHasAPrice(h)

\* The status does not matter for the price.
LEMMA PriceOfEvolved ==
  ASSUME NEW row \in Reservation, NEW next, Evolves(row, next), NEW time
  PROVE  next.price = row.price /\ (WasPriceAt(row, time) => WasPriceAt(next, time))
BY DEF Evolves, Reservation, WasPriceAt, WrongDates, StayDays

\* The price of a request is that of its row.
LEMMA PriceOfInserted ==
  ASSUME NEW r, NEW time, WasPriceAt(r, time)
  PROVE  WasPriceAt(NewReservation(r), time)
BY DEF NewReservation, WasPriceAt, WrongDates, StayDays

\* The past grows.
LEMMA PastStays ==
  ASSUME TypeOK, [Next]_vars, NEW time \in 0 .. clock
  PROVE  time \in 0 .. clock'
<1>1. clock \in Nat /\ clock' \in {clock, clock + 1}
  BY DEF TypeOK, Next, Step, vars, Tick, FindRoom, Validate, Insert, ReplyReserved,
     FindReservation, Update, ReplyCanceled, ReceiveReserve, ReceiveCancel, Receive,
     DatabaseError, Crash, WrapperThrows
<1>2. QED
  BY <1>1

\* The step of h that lets it insert is the validation of what it inserts.
LEMMA InsertIsValidated ==
  ASSUME TypeOK, NEW h \in Handlers, InsertHasAPrice(h),
         \/ Step(h) \/ ReceiveReserve(h) \/ ReceiveCancel(h)
         \/ DatabaseError(h) \/ Crash(h) \/ WrapperThrows(h),
         pc'[h] = "insert"
  PROVE  \E time \in 0 .. clock : WasPriceAt(request'[h], time)
<1>1. Validate(h) /\ Verdict(Rooms[request[h].room], request[h], loaded[h], clock) = "valid"
  BY DEF TypeOK, Step, FindRoom, Validate, Insert, ReplyReserved, FindReservation, Update,
     ReplyCanceled, ReceiveReserve, ReceiveCancel, Receive, DatabaseError, Crash, WrapperThrows, Answer, Await
<1>2. request' = request
  BY <1>1 DEF Validate, Await
<1>3. WasPriceAt(request[h], clock)
  BY <1>1 DEF Verdict, WasPriceAt
<1>4. QED
  BY <1>2, <1>3 DEF TypeOK

\* Every step preserves where the prices come from.
LEMMA PriceStep == IInv /\ PriceInv /\ [Next]_vars => PriceInv'
<1> SUFFICES ASSUME IInv, PriceInv, [Next]_vars
             PROVE  PriceInv'
  OBVIOUS
<1>1. /\ TypeOK /\ RowsEvolve
      /\ \A id \in Ids : reservations[id] \in Reservation
  BY StepHandling, IdsAreAPrefix DEF IInv
<1>2. BookedAtAPriceOfThePast'
  <2>1. ASSUME NEW id \in Ids
        PROVE  HasAPriceOfThePast(reservations[id])' /\ FitsPriceColumn(reservations'[id].price)
    <3>1. FitsPriceColumn(reservations[id].price)
      BY DEF PriceInv, BookedAtAPriceOfThePast
    <3>2. PICK time \in 0 .. clock : WasPriceAt(reservations[id], time)
      BY DEF PriceInv, BookedAtAPriceOfThePast, HasAPriceOfThePast
    <3>3. /\ reservations'[id].price = reservations[id].price
          /\ WasPriceAt(reservations'[id], time)
      BY <1>1, <3>2, PriceOfEvolved DEF RowsEvolve
    <3>4. QED
      BY <1>1, <3>1, <3>3, PastStays DEF HasAPriceOfThePast
  <2>2. ASSUME NEW h \in Handlers, Insert(h), FitsPriceColumn(request[h].price)
        PROVE  BookedAtAPriceOfThePast'
    <3>1. /\ Ids' = Ids \cup {Len(reservations')}
          /\ reservations'[Len(reservations')] = NewReservation(request[h])
      BY <2>2, InsertRows
    <3>2. PICK time \in 0 .. clock : WasPriceAt(request[h], time)
      BY <2>2 DEF PriceInv, InsertHasAPrice, HasAPriceOfThePast, Insert
    <3>3. WasPriceAt(reservations'[Len(reservations')], time)
      BY <3>1, <3>2, PriceOfInserted
    <3>4. \E t \in 0 .. clock' : WasPriceAt(reservations'[Len(reservations')], t)
      BY <1>1, <3>3, PastStays
    <3>5. FitsPriceColumn(reservations'[Len(reservations')].price)
      BY <2>2, <3>1 DEF NewReservation
    <3>6. QED
      BY <2>1, <3>1, <3>4, <3>5 DEF BookedAtAPriceOfThePast, HasAPriceOfThePast
  <2>3. QED
    BY <2>1, <2>2, NewRow DEF BookedAtAPriceOfThePast
<1>3. ASSUME NEW g \in Handlers
      PROVE  InsertHasAPrice(g)'
  <2>1. SUFFICES ASSUME pc'[g] = "insert"
                 PROVE  \E time \in 0 .. clock : WasPriceAt(request'[g], time)
    BY <1>1, PastStays DEF InsertHasAPrice, HasAPriceOfThePast
  <2>2. InsertHasAPrice(g)
    BY DEF PriceInv
  <2>3. CASE UNCHANGED vars \/ Tick
    BY <2>1, <2>2, <2>3 DEF vars, Tick, handling, InsertHasAPrice, HasAPriceOfThePast
  <2>4. ASSUME NEW h \in Handlers,
               \/ Step(h) \/ ReceiveReserve(h) \/ ReceiveCancel(h)
               \/ DatabaseError(h) \/ Crash(h) \/ WrapperThrows(h)
        PROVE  \E time \in 0 .. clock : WasPriceAt(request'[g], time)
    <3>1. CASE g = h
      BY <1>1, <2>1, <2>2, <2>4, <3>1, InsertIsValidated
    <3>2. CASE g # h
      BY <2>1, <2>2, <2>4, <3>2, OthersStay DEF InsertHasAPrice, HasAPriceOfThePast
    <3>3. QED
      BY <3>1, <3>2
  <2>5. QED
    BY <2>3, <2>4 DEF Next
<1>4. QED
  BY <1>2, <1>3 DEF PriceInv

LEMMA Pricing == Spec => [](IInv /\ PriceInv)
<1>1. Init => PriceInv
  BY DEF Init, PriceInv, BookedAtAPriceOfThePast, InsertHasAPrice, Ids
<1>2. QED
  BY <1>1, InvInit, InvStep, PriceStep, PTL DEF Spec

(***************************************************************************)
(* Although validating and inserting are two steps, every reservation has  *)
(* the price that its stay had at some moment before, at which it could    *)
(* still be booked.                                                        *)
(***************************************************************************)
THEOREM PricesAreOfThePast == Spec => []BookedAtAPriceOfThePast
<1>1. PriceInv => BookedAtAPriceOfThePast
  BY DEF PriceInv
<1>2. QED
  BY <1>1, Pricing, PTL

(***************************************************************************)
(* Because prices never fall, the price of the past is at most today's.    *)
(***************************************************************************)
THEOREM NobodyIsOvercharged == Spec => []NobodyOwesMoreThanToday
<1>1. ASSUME IInv, PriceInv, NEW id \in Ids
      PROVE  reservations[id].price
               <= TotalPrice(Rooms[reservations[id].room], StayDays(reservations[id]),
                             reservations[id].guestCnt, clock)
  <2> DEFINE row  == reservations[id]
             room == Rooms[row.room]
  <2>1. row \in Reservation /\ clock \in Nat
    BY <1>1, IdsAreAPrefix DEF IInv, TypeOK
  <2>2. PICK time \in 0 .. clock : WasPriceAt(row, time)
    BY <1>1 DEF PriceInv, BookedAtAPriceOfThePast, HasAPriceOfThePast
  <2>3. /\ room \in PricedRoom /\ ~PricingThrows(room)
        /\ StayDays(row) \in Int /\ row.guestCnt \in Int
    BY <2>1, <2>2, PricedRoomsAssumption DEF Reservation, WasPriceAt, StayDays
  <2>4. time \in Int /\ clock \in Int /\ time <= clock
    BY <2>1
  <2> HIDE DEF row, room
  <2>5. TotalPrice(room, StayDays(row), row.guestCnt, time)
          <= TotalPrice(room, StayDays(row), row.guestCnt, clock)
    BY <2>3, <2>4, TotalPriceRises
  <2>6. QED
    BY <2>2, <2>5 DEF WasPriceAt, row, room
<1>2. IInv /\ PriceInv => NobodyOwesMoreThanToday
  BY <1>1 DEF NobodyOwesMoreThanToday
<1>3. QED
  BY <1>2, Pricing, PTL

----------------------------------------------------------------------------
(* The refinement of Ledger.                                               *)

Entries == [room: DOMAIN Rooms, nights: SUBSET Int, state: {"booked", "canceled"}, by: Handlers]

\* A row and its handler make an entry of the book.
LEMMA EntryOfRow ==
  ASSUME NEW row \in Reservation, NEW h \in Handlers
  PROVE  EntryOf(row, h) \in Entries
<1>1. Nights(row) \subseteq Int
  BY DEF Nights, Reservation
<1>2. QED
  BY <1>1 DEF EntryOf, Entries, Reservation

\* One entry for each row.
BookMatches ==
    /\ BookOfRows \in Seq(Entries)
    /\ Len(BookOfRows) = Len(reservations)
    /\ DOMAIN BookOfRows = Ids
    /\ \A id \in Ids : BookOfRows[id] = EntryOf(reservations[id], origin[id].handler)

\* The book is a sequence with one entry for each row.
LEMMA BookMatchesRows == TypeOK => BookMatches
<1> SUFFICES ASSUME TypeOK
             PROVE  BookMatches
  OBVIOUS
<1>1. /\ Ids = 1 .. Len(reservations)
      /\ Len(reservations) \in Nat
      /\ \A id \in Ids : /\ reservations[id] \in Reservation
                         /\ origin[id].handler \in Handlers
  BY IdsAreAPrefix
<1>2. \A id \in 1 .. Len(reservations) :
         EntryOf(reservations[id], origin[id].handler) \in Entries
  BY <1>1, EntryOfRow
<1>3. BookOfRows \in [1 .. Len(reservations) -> Entries]
  BY <1>1, <1>2 DEF BookOfRows
<1>4. QED
  BY <1>1, <1>3, IsASeq, LenProperties, SeqDef DEF BookOfRows, BookMatches

\* A step leaves the rows alone, inserts one or cancels one.
LEMMA StepOnRows ==
  ASSUME [Next]_vars
  PROVE  \/ UNCHANGED rows
         \/ \E h \in Handlers : Insert(h) /\ FitsPriceColumn(request[h].price)
         \/ \E h \in Handlers : Update(h)
<1>1. CASE UNCHANGED vars \/ Tick
  BY <1>1 DEF vars, Tick
<1>2. ASSUME NEW h \in Handlers,
             \/ Step(h) \/ ReceiveReserve(h) \/ ReceiveCancel(h)
             \/ DatabaseError(h) \/ Crash(h) \/ WrapperThrows(h),
             ~Update(h), ~(Insert(h) /\ FitsPriceColumn(request[h].price))
      PROVE  UNCHANGED rows
  BY <1>2 DEF Step, FindRoom, Validate, Insert, ReplyReserved, FindReservation, ReplyCanceled,
              ReceiveReserve, ReceiveCancel, Receive, DatabaseError, Crash, WrapperThrows
<1>3. QED
  BY <1>1, <1>2 DEF Next

\* An insert is a booking that respects what its handler has read.
LEMMA InsertBooks ==
  ASSUME IInv, TypeOK', NEW h \in Handlers, Insert(h), FitsPriceColumn(request[h].price)
  PROVE  \E stay \in RequestedStays : Abstract!Book(h, stay)
<1> DEFINE r    == request[h]
           stay == [room |-> r.room, nights |-> Nights(r)]
           new  == Len(reservations')
<1>1. pc[h] = "insert" /\ r \in ReserveRequests /\ stay \in RequestedStays
  BY DEF IInv, TypeOK, Insert, ReserveSteps, RequestedStays
<1>2. /\ Len(reservations) \in Nat
      /\ Ids = 1 .. Len(reservations)
      /\ new = Len(reservations) + 1
      /\ Ids' = Ids \cup {new}
      /\ \A id \in Ids : reservations'[id] = reservations[id] /\ origin'[id] = origin[id]
      /\ reservations'[new] = NewReservation(r)
      /\ origin'[new] = [handler |-> h, view |-> view[h]]
  BY InsertRows, IdsAreAPrefix DEF IInv, RowsEvolve
<1>3. EntryOf(NewReservation(r), h) = Abstract!Entry(stay, h)
  BY DEF EntryOf, NewReservation, Abstract!Entry, Nights, IsScheduled
<1>4. Abstract!Entry(stay, h) \in Entries
  BY <1>3, InsertRows, EntryOfRow
<1> HIDE DEF stay, r, new
<1>5. /\ BookOfRows \in Seq(Entries) /\ BookOfRows' \in Seq(Entries)
      /\ Len(BookOfRows) = Len(reservations) /\ Len(BookOfRows') = Len(reservations')
      /\ \A id \in Ids : BookOfRows[id] = EntryOf(reservations[id], origin[id].handler)
      /\ \A id \in Ids' : BookOfRows'[id] = EntryOf(reservations'[id], origin'[id].handler)
  <2>1. TypeOK' => BookMatches'
    BY BookMatchesRows, PTL
  <2>2. QED
    BY <2>1, BookMatchesRows DEF IInv, BookMatches
<1>6. BookOfRows' = Append(BookOfRows, Abstract!Entry(stay, h))
  <2> DEFINE next == Append(BookOfRows, Abstract!Entry(stay, h))
  <2>1. /\ next \in Seq(Entries) /\ Len(next) = Len(BookOfRows) + 1
        /\ \A id \in 1 .. Len(BookOfRows) : next[id] = BookOfRows[id]
        /\ next[Len(BookOfRows) + 1] = Abstract!Entry(stay, h)
    BY <1>4, <1>5, AppendProperties
  <2>2. ASSUME NEW id \in Ids
        PROVE  BookOfRows'[id] = next[id]
    BY <1>2, <1>5, <2>1
  <2>3. BookOfRows'[new] = next[new]
    <3>1. BookOfRows'[new] = EntryOf(NewReservation(r), h)
      BY <1>2, <1>5
    <3>2. QED
      BY <1>2, <1>3, <1>5, <2>1, <3>1
  <2>4. Len(next) = Len(BookOfRows') /\ 1 .. Len(BookOfRows') = Ids \cup {new}
    BY <1>2, <1>5, <2>1 DEF new
  <2> HIDE DEF next
  <2>5. BookOfRows' = next
    BY <1>5, <2>1, <2>2, <2>3, <2>4, SeqEqual
  <2>6. QED
    BY <2>5 DEF next
<1>7. view[h] \in 0 .. Len(BookOfRows)
  BY <1>1, <1>2, <1>5 DEF IInv, NewerRowsAreOthers, TypeOK
<1>8. ASSUME NEW i \in 1 .. view[h], BookOfRows[i].state = "booked"
      PROVE  ~Abstract!Share(BookOfRows[i], stay)
  <2>0. i \in Ids
    BY <1>2, <1>5, <1>7
  <2>1. BookOfRows[i] = EntryOf(reservations[i], origin[i].handler)
    BY <1>5, <2>0
  <2>2. ~Overlap(reservations[i], NewReservation(request[h]))
    BY <1>1, <1>8 DEF IInv, ValidatedStaysApart
  <2>3. /\ BookOfRows[i].room = reservations[i].room
        /\ BookOfRows[i].nights = Nights(reservations[i])
        /\ IsScheduled(reservations[i])
    BY <1>8, <2>1 DEF EntryOf
  <2>4. /\ NewReservation(request[h]).room = stay.room
        /\ Nights(NewReservation(request[h])) = stay.nights
        /\ IsScheduled(NewReservation(request[h]))
    BY DEF NewReservation, IsScheduled, Nights, stay, r
  <2>5. QED
    BY <1>8, <2>2, <2>3, <2>4, Zenon DEF Abstract!Share, Overlap
<1>9. ASSUME NEW i \in view[h] + 1 .. Len(BookOfRows)
      PROVE  BookOfRows[i].by # h
  <2>1. i \in Ids /\ i > view[h] /\ BookOfRows[i] = EntryOf(reservations[i], origin[i].handler)
    BY <1>2, <1>5, <1>7
  <2>2. QED
    BY <1>1, <2>1 DEF IInv, NewerRowsAreOthers, EntryOf
<1>10. QED
  BY <1>1, <1>6, <1>7, <1>8, <1>9 DEF Abstract!Book

\* The update of a row cancels its entry.
LEMMA UpdateCancels ==
  ASSUME IInv, TypeOK', NEW h \in Handlers, Update(h)
  PROVE  \E i \in DOMAIN BookOfRows : Abstract!Cancel(i)
<1> DEFINE id   == request[h].id
           next == [BookOfRows EXCEPT ![id].state = "canceled"]
<1>1. /\ Ids' = Ids /\ id \in Ids /\ origin' = origin
      /\ \A i \in Ids : reservations'[i] =
           IF i = id THEN [reservations[i] EXCEPT !.status = "CANCELED"] ELSE reservations[i]
  BY UpdateRows
<1>2. /\ DOMAIN BookOfRows = Ids
      /\ \A i \in Ids : BookOfRows[i] = EntryOf(reservations[i], origin[i].handler)
      /\ reservations[id] \in Reservation
  BY <1>1, BookMatchesRows, IdsAreAPrefix DEF IInv, BookMatches
<1>3. BookOfRows' = [i \in Ids |-> EntryOf(reservations'[i], origin'[i].handler)]
  BY <1>1 DEF BookOfRows
<1>4. EntryOf(reservations'[id], origin'[id].handler) = [BookOfRows[id] EXCEPT !.state = "canceled"]
  <2> DEFINE row == [reservations[id] EXCEPT !.status = "CANCELED"]
  <2>1. reservations'[id] = row /\ origin'[id] = origin[id]
    BY <1>1
  <2>2. row.room = reservations[id].room /\ Nights(row) = Nights(reservations[id])
    BY <1>2 DEF Nights, Reservation
  <2>3. IsScheduled(row) = FALSE
    BY <1>2 DEF IsScheduled, Reservation
  <2> HIDE DEF row
  <2>4. EntryOf(row, origin[id].handler) =
          [EntryOf(reservations[id], origin[id].handler) EXCEPT !.state = "canceled"]
    BY <2>2, <2>3 DEF EntryOf
  <2>5. QED
    BY <1>1, <1>2, <2>1, <2>4
<1>5. BookOfRows' = next
  BY <1>1, <1>2, <1>3, <1>4 DEF BookOfRows
<1>6. QED
  BY <1>1, <1>2, <1>5 DEF Abstract!Cancel

(***************************************************************************)
(* The table of reservations, with everything that happens around its      *)
(* queries, implements the ledger.                                         *)
(***************************************************************************)
THEOREM Refinement == Spec => ImplementsLedger
<1>1. Init => Abstract!Init
  <2>1. ASSUME Init
        PROVE  BookOfRows = <<>>
    BY <2>1, BookMatchesRows, InvInit, EmptySeq DEF Init, IInv, BookMatches
  <2>2. QED
    BY <2>1 DEF Abstract!Init
<1>2. IInv /\ [Next]_vars => [Abstract!Next]_BookOfRows
  <2> SUFFICES ASSUME IInv, [Next]_vars
               PROVE  [Abstract!Next]_BookOfRows
    OBVIOUS
  <2>1. TypeOK'
    BY TypeStep DEF IInv
  <2>2. CASE UNCHANGED rows
    BY <2>2 DEF rows, BookOfRows, Ids
  <2>3. ASSUME NEW h \in Handlers, Insert(h), FitsPriceColumn(request[h].price)
        PROVE  Abstract!Next
    BY <2>1, <2>3, InsertBooks DEF Abstract!Next
  <2>4. ASSUME NEW h \in Handlers, Update(h)
        PROVE  Abstract!Next
    BY <2>1, <2>4, UpdateCancels DEF Abstract!Next
  <2>5. QED
    BY <2>2, <2>3, <2>4, StepOnRows
<1>3. QED
  BY <1>1, <1>2, Invariance, PTL DEF Spec, ImplementsLedger, Abstract!Spec
=============================================================================
