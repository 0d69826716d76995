------------------------------- MODULE Quotes -------------------------------
(***************************************************************************)
(* What the domain methods of Stays promise of the stays and the quotes a  *)
(* guest can ask for.  A behaviour takes one case after the other: a pair  *)
(* of stays that are compared, or a room that is priced.                   *)
(***************************************************************************)
EXTENDS Stays

CONSTANTS SomeStays,   \* stays of at least one night
          SomeRooms,   \* rows of rooms, with their discounts and country
          Lengths,     \* numbers of nights
          GuestCounts,
          Clocks       \* instants at which a stay is priced

ASSUME QuotesAssumption ==
    /\ SomeStays \subseteq [checkIn : Int, checkOut : Int]
    /\ \A stay \in SomeStays : stay.checkIn < stay.checkOut
    /\ SomeRooms \subseteq PricedRoom
    /\ Lengths \subseteq Nat
    /\ GuestCounts \subseteq Nat
    /\ Clocks \subseteq Int

VARIABLE case

Init == case = [kind |-> "none"]

TakeStays ==
    /\ case.kind = "none"
    /\ \E a, b \in SomeStays : case' = [kind |-> "stays", a |-> a, b |-> b]

TakeQuote ==
    /\ case.kind = "none"
    /\ \E room \in SomeRooms, days \in Lengths, guestCnt \in GuestCounts, clock \in Clocks :
         /\ ~PricingThrows(room)
         /\ case' = [kind |-> "quote", room |-> room, days |-> days,
                     guestCnt |-> guestCnt, clock |-> clock]

Drop == case.kind # "none" /\ case' = [kind |-> "none"]

Next == TakeStays \/ TakeQuote \/ Drop

Spec == Init /\ [][Next]_case

----------------------------------------------------------------------------
Quote(room, clock) == TotalPrice(room, case.days, case.guestCnt, clock)

WithOnly(d) == [case.room EXCEPT !.discounts = {d}]

(***************************************************************************)
(* DateRange.intersect, applied to the ranges that getStayTerm returns,    *)
(* finds exactly the pairs of stays that have a night in common.           *)
(***************************************************************************)
IntersectIsSharedNight ==
    case.kind = "stays" =>
        (Intersect(StayTerm(case.a), StayTerm(case.b))
            <=> Nights(case.a) \cap Nights(case.b) # {})

(***************************************************************************)
(* calculateTotalPrice with several discounts: the guest pays what the     *)
(* room would cost with the best of them as its only discount.             *)
(***************************************************************************)
BestDiscountAlone ==
    case.kind = "quote" /\ case.room.discounts # {} =>
        \E d \in case.room.discounts : \A e \in case.room.discounts :
            /\ Quote(WithOnly(d), case.clock) <= Quote(WithOnly(e), case.clock)
            /\ Quote(case.room, case.clock) = Quote(WithOnly(d), case.clock)

(***************************************************************************)
(* As time passes discounts end and none begins: the price of a stay never *)
(* falls, so a guest who was quoted a price is never overcharged by it.    *)
(***************************************************************************)
PriceNeverFalls ==
    case.kind = "quote" =>
        \A later \in Clocks :
            case.clock <= later => Quote(case.room, case.clock) <= Quote(case.room, later)

\* No validator of the dto or the entity asks for it.
HasSaneTerms(room) ==
    /\ room.price >= 0
    /\ room.cleaningFee >= 0
    /\ \A d \in room.discounts : d.percent <= 100

(***************************************************************************)
(* No number of discounts can make the host pay, as long as each of them   *)
(* is of at most 100 percent and the host asks for no negative amount.     *)
(***************************************************************************)
PriceIsNotNegative ==
    case.kind = "quote" /\ HasSaneTerms(case.room) => Quote(case.room, case.clock) >= 0
=============================================================================
