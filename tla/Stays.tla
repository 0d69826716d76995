------------------------------- MODULE Stays -------------------------------
(***************************************************************************)
(* The domain methods of the entities Room, Reservation, Discount and      *)
(* Country that ReservationsService.reserve calls, as pure operators.      *)
(*                                                                         *)
(* Time.  checkIn and checkOut are whole UTC days (@IsOnlyDate, and the    *)
(* column transformer keeps the date part only), so a day is an integer.   *)
(* `new Date()` is an instant: the clock counts half days, and day d       *)
(* begins at the instant 2*d, so that an odd clock is a time strictly      *)
(* inside a day and an even one is midnight.                               *)
(*                                                                         *)
(* Money.  The code multiplies three times by a percentage, so every       *)
(* amount is an integer number of millionths: amount * Scale.  Rounding    *)
(* of the binary floating point is not modelled.                           *)
(***************************************************************************)
EXTENDS Integers, FiniteSets, FiniteSetsExt

CONSTANT NoEndDate  \* the endDate of a discount whose column is null

ASSUME NoEndDateAssumption == NoEndDate \notin Int

Scale == 100 * 100 * 100

DiscountTypes == {"Week", "Month", "Special"}
Statuses == {"REQUESTED", "ACCEPTED", "REJECTED", "FAEILED", "CHECKEDIN",
             "CHECKEDOUT", "CANCELED"}

CountryNames == {"SouthKorea", "Japan", "Bermuda", "Brazil", "BritishVirginIslands",
                 "Canada", "France", "Germany", "India", "Italy", "Lithuania",
                 "Mexico", "Netherlands", "Portugal", "Switzerland"}

IsScheduled(reservation) == reservation.status \in {"REQUESTED", "ACCEPTED"}

----------------------------------------------------------------------------
(* The nights of a stay, and when two stays collide.                       *)

Instant(day) == 2 * day

\* From the first night to the last one: the day before checkOut.
StayTerm(stay) == [startDate |-> stay.checkIn, endDate |-> stay.checkOut - 1]

\* Mutant: the third case of `intersect`, a range inside the other, is gone.
IntersectAtAnEnd(range, other) ==
    \/ range.startDate <= other.endDate /\ other.endDate <= range.endDate
    \/ range.startDate <= other.startDate /\ other.startDate <= range.endDate

Intersect(range, other) ==
    \/ range.startDate <= other.endDate /\ other.endDate <= range.endDate
    \/ range.startDate <= other.startDate /\ other.startDate <= range.endDate
    \/ other.startDate <= range.startDate /\ range.endDate <= other.endDate

\* What the guests mean by a stay: the nights they sleep there.
Nights(stay) == stay.checkIn .. (stay.checkOut - 1)

StayDays(stay) == stay.checkOut - stay.checkIn

WrongDates(stay, clock) ==
    \/ clock > Instant(stay.checkIn)
    \/ clock > Instant(stay.checkOut)
    \/ stay.checkIn >= stay.checkOut

\* Mutant: the canceled reservations are not filtered out.
IsAccommodableAlsoCanceled(booked, stay) ==
    ~ \E id \in DOMAIN booked : Intersect(StayTerm(booked[id]), StayTerm(stay))

\* `booked` maps the ids of a room's reservations to the rows that were read.
IsAccommodable(booked, stay) ==
    ~ \E id \in DOMAIN booked :
        /\ IsScheduled(booked[id])
        /\ Intersect(StayTerm(booked[id]), StayTerm(stay))

----------------------------------------------------------------------------
(* The price of a stay.                                                    *)

\* The columns that count, of the row of a room with its discounts and its country.
Discount == [type : DiscountTypes, percent : Int, endDate : Int \cup {NoEndDate}]

PricedRoom ==
    [price : Int, cleaningFee : Int, country : CountryNames,
     discounts : {ds \in SUBSET Discount : IsFiniteSet(ds)}]

IsSatisfied(type, stayDays) ==
    CASE type = "Week"    -> stayDays >= 7
      [] type = "Month"   -> stayDays >= 28
      [] type = "Special" -> TRUE

\* Mutant: the comparison of the endDate is the wrong way round.
HasNotEnded(discount, clock) == Instant(discount.endDate) > clock

HasEnded(discount, clock) == Instant(discount.endDate) < clock

\* Hundredths of the amount `fee` is counted in.
DiscountFee(discount, fee, stayDays, clock) ==
    IF HasEnded(discount, clock) \/ ~IsSatisfied(discount.type, stayDays)
    THEN 0
    ELSE fee * discount.percent

\* Mutant: the fees of all the discounts are added up.
SumOfDiscountFees(room, fee, stayDays, clock) ==
    MapThenSumSet(LAMBDA d : DiscountFee(d, fee, stayDays, clock), room.discounts)

\* The largest fee wins; the discounts are not added up.
RoomDiscountFee(room, fee, stayDays, clock) ==
    Max({0} \cup {DiscountFee(d, fee, stayDays, clock) : d \in room.discounts})

CommissionPercent == 15

\* A percentage of the commission, and an amount for each guest and day.
TaxStrategy(country) ==
    [percent |-> IF country = "SouthKorea" THEN 10 ELSE 5, amount |-> 0]

\* Millionths, of a fee in ten thousandths.
Tax(country, fee, stayDays, guestCnt) ==
    fee * TaxStrategy(country).percent
      + Scale * TaxStrategy(country).amount * guestCnt * stayDays

(***************************************************************************)
(* accommodationFee - discountFee + cleaningFee + serviceFee + taxFee, in  *)
(* millionths.  `lodging` is what the commission is taken of, in           *)
(* hundredths, and the tax is taken of the commission.                     *)
(***************************************************************************)
TotalPrice(room, stayDays, guestCnt, clock) ==
    LET fee     == room.price * stayDays
        lodging == 100 * (fee + room.cleaningFee)
                     - RoomDiscountFee(room, fee, stayDays, clock)
        service == CommissionPercent * lodging
    IN  100 * 100 * lodging + 100 * service
          + Tax(room.country, service, stayDays, guestCnt)

\* `this.endDate.getTime()` throws a TypeError when the row's endDate is null.
PricingThrows(room) == \E d \in room.discounts : d.endDate = NoEndDate

\* The column is an int: the insert of a price with a fraction is refused.
FitsPriceColumn(price) == price % Scale = 0

----------------------------------------------------------------------------
\* Mutant: the price of the request is taken as it is.
VerdictAtAnyPrice(room, stay, booked, clock) ==
    IF WrongDates(stay, clock) THEN "wrongDates"
    ELSE IF ~IsAccommodable(booked, stay) THEN "unavailable"
    ELSE IF PricingThrows(room) THEN "serverError"
    ELSE "valid"

\* What room.validateReservation(stay) throws, in the order of its checks.
Verdict(room, stay, booked, clock) ==
    IF WrongDates(stay, clock) THEN "wrongDates"
    ELSE IF ~IsAccommodable(booked, stay) THEN "unavailable"
    ELSE IF PricingThrows(room) THEN "serverError"
    ELSE IF stay.price # TotalPrice(room, StayDays(stay), stay.guestCnt, clock)
         THEN "priceChanged"
    ELSE "valid"
=============================================================================
