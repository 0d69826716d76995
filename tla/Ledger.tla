------------------------------- MODULE Ledger -------------------------------
(***************************************************************************)
(* What the reservations of airbnb-be promise, as a book in which a        *)
(* booking and a cancellation are one step each, whatever reads, writes,   *)
(* crashes and lost answers it takes to get there.                         *)
(*                                                                         *)
(* A booking respects an initial part of the book, and all that the agent  *)
(* who makes it has ever written is in that part.  With one agent this is  *)
(* the whole book, and no night is sold twice; with several, a night is    *)
(* sold twice only to bookings that were under way at the same time.       *)
(***************************************************************************)
EXTENDS Naturals, Sequences

CONSTANTS
    Handlers,   \* who books
    Requested   \* the stays that may be asked for: a room and its nights

VARIABLE book   \* all that was ever booked, in the order of the bookings

Share(entry, stay) == entry.room = stay.room /\ entry.nights \cap stay.nights # {}

Entry(stay, h) ==
    [room |-> stay.room, nights |-> stay.nights, state |-> "booked", by |-> h]

Init == book = <<>>

Book(h, stay) ==
    /\ book' = Append(book, Entry(stay, h))
    /\ \E respected \in 0 .. Len(book) :
         /\ \A i \in 1 .. respected : book[i].state = "booked" => ~Share(book[i], stay)
         /\ \A i \in respected + 1 .. Len(book) : book[i].by # h

Cancel(i) == book' = [book EXCEPT ![i].state = "canceled"]

Next ==
    \/ \E h \in Handlers, stay \in Requested : Book(h, stay)
    \/ \E i \in DOMAIN book : Cancel(i)

Spec == Init /\ [][Next]_book
=============================================================================
