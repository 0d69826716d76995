---------------------------- MODULE QuotesProofs ----------------------------
(***************************************************************************)
(* What holds of every pair of stays and of every quote: any number of     *)
(* discounts, any price and percentage, any number of nights and guests,   *)
(* at any time.                                                            *)
(***************************************************************************)
EXTENDS Quotes, StaysProofs

NoCase == [kind : {"none"}]

StaysCase == [kind : {"stays"}, a : SomeStays, b : SomeStays]

QuoteCase ==
    [kind : {"quote"}, room : {room \in SomeRooms : ~PricingThrows(room)},
     days : Lengths, guestCnt : GuestCounts, clock : Clocks]

CaseOK == case \in NoCase \cup StaysCase \cup QuoteCase

\* A case is a pair of stays, or a quote for a room that can be priced.
LEMMA CasesAreOK == Spec => []CaseOK
<1> USE DEF CaseOK, NoCase, StaysCase, QuoteCase
<1>1. Init => CaseOK
  BY DEF Init
<1>2. CaseOK /\ [Next]_case => CaseOK'
  BY DEF Next, TakeStays, TakeQuote, Drop
<1>3. QED
  BY <1>1, <1>2, PTL DEF Spec

\* The parts of a case.
LEMMA CaseParts ==
  ASSUME CaseOK
  PROVE  /\ case.kind = "stays" =>
              /\ case.a \in SomeStays
              /\ case.b \in SomeStays
         /\ case.kind = "quote" =>
              /\ case.room \in PricedRoom
              /\ ~PricingThrows(case.room)
              /\ case.days \in Nat
              /\ case.guestCnt \in Nat
              /\ case.clock \in Int
<1>1. case.kind = "stays" => case \in StaysCase
  BY DEF CaseOK, NoCase, StaysCase, QuoteCase
<1>2. case.kind = "quote" => case \in QuoteCase
  BY DEF CaseOK, NoCase, StaysCase, QuoteCase
<1>3. QED
  BY <1>1, <1>2, QuotesAssumption DEF StaysCase, QuoteCase

----------------------------------------------------------------------------
(***************************************************************************)
(* Whatever the two stays are, intersect finds the nights they share.      *)
(***************************************************************************)
THEOREM IntersectionIsExact == Spec => []IntersectIsSharedNight
<1>1. CaseOK => IntersectIsSharedNight
  BY CaseParts, StaysThatMeetShareANight, QuotesAssumption DEF IntersectIsSharedNight
<1>2. QED
  BY <1>1, CasesAreOK, PTL

(***************************************************************************)
(* Of any number of discounts, the best one alone decides the price.       *)
(***************************************************************************)
THEOREM TheBestDiscountDecides == Spec => []BestDiscountAlone
<1>1. ASSUME CaseOK, case.kind = "quote", case.room.discounts # {}
      PROVE  \E d \in case.room.discounts : \A e \in case.room.discounts :
               /\ Quote(WithOnly(d), case.clock) <= Quote(WithOnly(e), case.clock)
               /\ Quote(case.room, case.clock) = Quote(WithOnly(d), case.clock)
  <2> DEFINE room    == case.room
             days    == case.days
             clock   == case.clock
             fee     == room.price * days
             Fee(d)  == DiscountFee(d, fee, days, clock)
             Only(d) == RoomDiscountFee(WithOnly(d), fee, days, clock)
             best    == RoomDiscountFee(room, fee, days, clock)
  <2>1. /\ room \in PricedRoom /\ ~PricingThrows(room)
        /\ days \in Int /\ case.guestCnt \in Int /\ clock \in Int /\ fee \in Int
    BY <1>1, CaseParts DEF PricedRoom
  <2>2. \A d \in room.discounts : d \in Discount /\ d.endDate \in Int /\ Fee(d) \in Int
    <3>1. \A d \in room.discounts : d \in Discount /\ d.endDate \in Int
      BY <2>1 DEF PricedRoom, PricingThrows, Discount
    <3>2. QED
      BY <2>1, <3>1, FeeIsInt
  <2>3. \A d \in room.discounts :
          /\ WithOnly(d) \in PricedRoom /\ ~PricingThrows(WithOnly(d))
          /\ Only(d) = IF Fee(d) >= 0 THEN Fee(d) ELSE 0
    BY <2>1, <2>2, OnlyFee DEF WithOnly
  <2>4. /\ best \in Int /\ best >= 0
        /\ \A d \in room.discounts : best >= Fee(d)
        /\ best = 0 \/ \E d \in room.discounts : best = Fee(d)
    BY <2>1, RoomFee
  <2> HIDE DEF Fee, Only, best
  <2>5. PICK d \in room.discounts : Only(d) = best
    BY <1>1, <2>2, <2>3, <2>4
  <2>6. \A e \in room.discounts : Only(e) \in Int /\ Only(e) <= best
    BY <2>2, <2>3, <2>4
  <2>7. \A e \in room.discounts :
          /\ WithOnly(e).country = room.country
          /\ Lodging(WithOnly(e), days, clock) = 100 * (fee + room.cleaningFee) - Only(e)
    BY <2>1 DEF Lodging, WithOnly, PricedRoom, Only
  <2>8. Lodging(room, days, clock) = 100 * (fee + room.cleaningFee) - best
    BY DEF Lodging, best
  <2>9. \A e \in room.discounts :
          Lodging(WithOnly(d), days, clock) <= Lodging(WithOnly(e), days, clock)
    BY <2>1, <2>4, <2>5, <2>6, <2>7 DEF PricedRoom
  <2>10. ASSUME NEW e \in room.discounts
         PROVE  Quote(WithOnly(d), clock) <= Quote(WithOnly(e), clock)
    BY <2>1, <2>3, <2>5, <2>7, <2>9, PriceGrowsWithLodging DEF Quote
  <2>11. Quote(room, clock) = Quote(WithOnly(d), clock)
    BY <2>1, <2>3, <2>5, <2>7, <2>8, PriceIsAShareOfLodging DEF Quote
  <2>12. QED
    BY <2>5, <2>10, <2>11
<1>2. CaseOK => BestDiscountAlone
  BY <1>1 DEF BestDiscountAlone
<1>3. QED
  BY <1>2, CasesAreOK, PTL

(***************************************************************************)
(* The price of a stay never falls, whatever discounts the room has.       *)
(***************************************************************************)
THEOREM PricesNeverFall == Spec => []PriceNeverFalls
<1>1. CaseOK => PriceNeverFalls
  BY CaseParts, TotalPriceRises, QuotesAssumption DEF PriceNeverFalls, Quote
<1>2. QED
  BY <1>1, CasesAreOK, PTL

(***************************************************************************)
(* Discounts of at most 100 percent, however many, make no price negative. *)
(***************************************************************************)
THEOREM PricesAreNotNegative == Spec => []PriceIsNotNegative
<1>1. ASSUME CaseOK, case.kind = "quote", HasSaneTerms(case.room)
      PROVE  Quote(case.room, case.clock) >= 0
  <2> DEFINE room  == case.room
             days  == case.days
             clock == case.clock
             fee   == room.price * days
             best  == RoomDiscountFee(room, fee, days, clock)
  <2>1. /\ room \in PricedRoom /\ ~PricingThrows(room)
        /\ days \in Nat /\ case.guestCnt \in Int /\ clock \in Int
    BY <1>1, CaseParts
  <2>2. fee \in Int /\ fee >= 0 /\ room.cleaningFee \in Int /\ room.cleaningFee >= 0
    BY <1>1, <2>1 DEF PricedRoom, HasSaneTerms
  <2> HIDE DEF fee
  <2>3. \A d \in room.discounts : DiscountFee(d, fee, days, clock) <= 100 * fee
    <3>1. ASSUME NEW d \in room.discounts
          PROVE  DiscountFee(d, fee, days, clock) <= 100 * fee
      <4>1. d.percent \in Int /\ d.percent <= 100
        BY <1>1, <2>1 DEF PricedRoom, Discount, HasSaneTerms
      <4>2. fee * d.percent <= 100 * fee
        BY <2>2, <4>1
      <4>3. QED
        BY <2>2, <4>2 DEF DiscountFee
    <3>2. QED
      BY <3>1
  <2>4. best \in Int /\ best <= 100 * fee
    <3>1. /\ best \in Int
          /\ best = 0 \/ \E d \in room.discounts : best = DiscountFee(d, fee, days, clock)
      BY <2>1, <2>2, RoomFee
    <3> HIDE DEF best
    <3>2. QED
      BY <2>2, <2>3, <3>1
  <2>5. Lodging(room, days, clock) \in Int /\ Lodging(room, days, clock) >= 0
    BY <2>2, <2>4 DEF Lodging, fee
  <2>6. Quote(room, clock)
          = (11500 + 15 * TaxStrategy(room.country).percent) * Lodging(room, days, clock)
    BY <2>1, PriceIsAShareOfLodging DEF Quote
  <2>7. QED
    BY <2>5, <2>6 DEF TaxStrategy
<1>2. CaseOK => PriceIsNotNegative
  BY <1>1 DEF PriceIsNotNegative
<1>3. QED
  BY <1>2, CasesAreOK, PTL
=============================================================================
