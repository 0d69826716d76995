------------------------------ MODULE MCStays ------------------------------
(***************************************************************************)
(* Every pair of short stays, and every quote of rooms with at most two    *)
(* discounts, in either of the tax classes.                                *)
(***************************************************************************)
EXTENDS Quotes, TLC

CONSTANTS LastDay,    \* bound: the stays lie in the days 0 .. LastDay
          LastClock,  \* bound: the instants are 0 .. LastClock
          Percents    \* percentages of the discounts that are tried

MCStaysOf ==
    {s \in [checkIn : 0 .. LastDay, checkOut : 0 .. LastDay] : s.checkIn < s.checkOut}

\* The discounts end on day 1 or 2, so that some clocks are before and some after.
MCDiscounts == [type : DiscountTypes, percent : Percents, endDate : {1, 2}]

\* One room has a discount without an endDate: it has no price.
MCRooms ==
    {[price |-> 4, cleaningFee |-> fee, discounts |-> ds, country |-> country] :
        ds \in {{}} \cup {{d, e} : d, e \in MCDiscounts}
                 \cup {{[type |-> "Week", percent |-> 20, endDate |-> NoEndDate]}},
        fee \in {0, 3}, country \in {"SouthKorea", "Japan"}}

MCClocks == 0 .. LastClock
=============================================================================
