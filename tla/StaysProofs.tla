---------------------------- MODULE StaysProofs ----------------------------
(***************************************************************************)
(* Facts about the domain methods, for every room, stay and instant.       *)
(***************************************************************************)
EXTENDS Stays, FiniteSetTheorems, WellFoundedInduction, TLAPS

(***************************************************************************)
(* getStayTerm and intersect: two stays that have a night in common are    *)
(* found to intersect, and two stays of at least one night that intersect  *)
(* have a night in common.                                                 *)
(***************************************************************************)
LEMMA StaysThatMeetShareANight ==
  ASSUME NEW a, a.checkIn \in Int, a.checkOut \in Int, a.checkIn < a.checkOut,
         NEW b, b.checkIn \in Int, b.checkOut \in Int, b.checkIn < b.checkOut
  PROVE  Intersect(StayTerm(a), StayTerm(b)) <=> Nights(a) \cap Nights(b) # {}
<1>1. ASSUME Intersect(StayTerm(a), StayTerm(b))
      PROVE  \E n \in Int : n \in Nights(a) /\ n \in Nights(b)
  <2>1. CASE a.checkIn <= b.checkIn
    <3>1. b.checkIn \in Nights(a) /\ b.checkIn \in Nights(b)
      BY <1>1, <2>1 DEF Intersect, StayTerm, Nights
    <3>2. QED
      BY <3>1
  <2>2. CASE b.checkIn < a.checkIn
    <3>1. a.checkIn \in Nights(a) /\ a.checkIn \in Nights(b)
      BY <1>1, <2>2 DEF Intersect, StayTerm, Nights
    <3>2. QED
      BY <3>1
  <2>3. QED
    BY <2>1, <2>2
<1>2. ASSUME NEW n \in Nights(a), n \in Nights(b)
      PROVE  Intersect(StayTerm(a), StayTerm(b))
  BY <1>2 DEF Intersect, StayTerm, Nights
<1>3. QED
  BY <1>1, <1>2

----------------------------------------------------------------------------
(* The largest fee.                                                        *)

Below == {pair \in Nat \X Nat : pair[1] < pair[2]}

\* The naturals have no infinite descent: a set of them has a least element.
LEMMA BelowIsWellFounded == IsWellFoundedOn(Below, Nat)
BY NatLessThanWellFounded DEF OpToRel, Below

HasMax(S) == \E m \in S : \A x \in S : m >= x

(***************************************************************************)
(* A finite set of integers that is not empty has a largest element: of    *)
(* the subsets that had none, a smallest would have one without any of its *)
(* elements, and that or the element would be the largest of it.           *)
(***************************************************************************)
LEMMA MaxExists ==
  ASSUME NEW S \in SUBSET Int, IsFiniteSet(S), S # {}
  PROVE  HasMax(S)
<1> DEFINE Bad   == {U \in SUBSET S : U # {} /\ ~HasMax(U)}
           Sizes == {Cardinality(U) : U \in Bad}
<1>1. SUFFICES ASSUME Bad # {}
               PROVE  FALSE
  OBVIOUS
<1>2. \A U \in Bad : IsFiniteSet(U) /\ Cardinality(U) \in Nat
  BY FS_Subset, FS_CardinalityType
<1>3. PICK n \in Sizes : \A k \in Sizes : <<k, n>> \notin Below
  <2> HIDE DEF Bad
  <2>1. Sizes \subseteq Nat /\ Sizes # {}
    BY <1>1, <1>2
  <2> HIDE DEF Sizes
  <2>2. QED
    BY <2>1, WFMin, BelowIsWellFounded
<1>4. PICK U \in Bad : n = Cardinality(U)
  OBVIOUS
<1>5. PICK x \in U : TRUE
  OBVIOUS
<1> DEFINE V == U \ {x}
<1>6. IsFiniteSet(V) /\ Cardinality(V) = n - 1 /\ n \in Nat
  BY <1>2, <1>4, <1>5, FS_RemoveElement
<1>7. V \notin Bad
  <2>1. SUFFICES ASSUME V \in Bad
                 PROVE  FALSE
    OBVIOUS
  <2>2. n - 1 \in Sizes /\ n - 1 \in Nat
    BY <1>2, <1>6, <2>1
  <2>3. <<n - 1, n>> \in Below
    BY <1>6, <2>2 DEF Below
  <2>4. QED
    BY <1>3, <2>2, <2>3
<1>8. CASE V = {}
  BY <1>4, <1>5, <1>8 DEF HasMax
<1>9. CASE V # {}
  <2>1. PICK m \in V : \A y \in V : m >= y
    BY <1>7, <1>9 DEF HasMax
  <2>2. x \in Int /\ m \in Int
    BY <1>5, <2>1
  <2>3. CASE m >= x
    BY <1>4, <1>5, <2>1, <2>2, <2>3 DEF HasMax
  <2>4. CASE ~(m >= x)
    BY <1>4, <1>5, <2>1, <2>2, <2>4 DEF HasMax
  <2>5. QED
    BY <2>3, <2>4
<1>10. QED
  BY <1>8, <1>9

LEMMA MaxIsReached ==
  ASSUME NEW S \in SUBSET Int, IsFiniteSet(S), S # {}
  PROVE  Max(S) \in S /\ \A x \in S : Max(S) >= x
BY MaxExists DEF HasMax, Max

----------------------------------------------------------------------------
(* The discounts of a room.                                                *)

LEMMA FeeIsInt ==
  ASSUME NEW d \in Discount, d.endDate \in Int,
         NEW fee \in Int, NEW days \in Int, NEW clock \in Int
  PROVE  DiscountFee(d, fee, days, clock) \in Int
BY DEF Discount, DiscountFee

\* A discount gives nothing more as time passes: it ends, and none begins.
LEMMA FeeFalls ==
  ASSUME NEW d \in Discount, d.endDate \in Int, NEW fee \in Int, NEW days \in Int,
         NEW clock \in Int, NEW later \in Int, clock <= later
  PROVE  DiscountFee(d, fee, days, later) \in {0, DiscountFee(d, fee, days, clock)}
BY DEF Discount, DiscountFee, HasEnded, Instant

\* The fee of a room is the largest of 0 and the fees of its discounts.
LEMMA RoomFee ==
  ASSUME NEW room \in PricedRoom, ~PricingThrows(room),
         NEW fee \in Int, NEW days \in Int, NEW clock \in Int
  PROVE  /\ RoomDiscountFee(room, fee, days, clock) \in Int
         /\ RoomDiscountFee(room, fee, days, clock) >= 0
         /\ \A d \in room.discounts :
              RoomDiscountFee(room, fee, days, clock) >= DiscountFee(d, fee, days, clock)
         /\ \/ RoomDiscountFee(room, fee, days, clock) = 0
            \/ \E d \in room.discounts :
                 RoomDiscountFee(room, fee, days, clock) = DiscountFee(d, fee, days, clock)
<1> DEFINE F    == [d \in room.discounts |-> DiscountFee(d, fee, days, clock)]
           Fees == {DiscountFee(d, fee, days, clock) : d \in room.discounts}
<1>1. room.discounts \subseteq Discount /\ IsFiniteSet(room.discounts)
  BY DEF PricedRoom
<1>2. \A d \in room.discounts : d.endDate \in Int
  BY <1>1 DEF PricingThrows, Discount
<1>3. Fees \subseteq Int
  BY <1>1, <1>2, FeeIsInt
<1>4. IsFiniteSet(Fees)
  <2>1. F \in Surjection(room.discounts, Fees)
    BY DEF Surjection
  <2> HIDE DEF F, Fees
  <2>2. QED
    BY <1>1, <2>1, FS_Surjection
<1>5. /\ RoomDiscountFee(room, fee, days, clock) \in {0} \cup Fees
      /\ \A x \in {0} \cup Fees : RoomDiscountFee(room, fee, days, clock) >= x
  <2> HIDE DEF Fees
  <2>1. IsFiniteSet({0} \cup Fees)
    BY <1>4, FS_Singleton, FS_Union
  <2>2. RoomDiscountFee(room, fee, days, clock) = Max({0} \cup Fees)
    BY DEF RoomDiscountFee, Fees
  <2>3. QED
    BY <1>3, <2>1, <2>2, MaxIsReached
<1>6. /\ RoomDiscountFee(room, fee, days, clock) \in Int
      /\ RoomDiscountFee(room, fee, days, clock) >= 0
  BY <1>3, <1>5
<1>7. \A d \in room.discounts :
        RoomDiscountFee(room, fee, days, clock) >= DiscountFee(d, fee, days, clock)
  BY <1>5
<1>8. \/ RoomDiscountFee(room, fee, days, clock) = 0
      \/ \E d \in room.discounts :
           RoomDiscountFee(room, fee, days, clock) = DiscountFee(d, fee, days, clock)
  BY <1>5
<1>9. QED
  BY <1>6, <1>7, <1>8

\* With one discount the fee is that of the discount, if it is not negative.
LEMMA OnlyFee ==
  ASSUME NEW room \in PricedRoom, NEW d \in Discount, d.endDate \in Int,
         NEW fee \in Int, NEW days \in Int, NEW clock \in Int
  PROVE  LET x == DiscountFee(d, fee, days, clock)
         IN  /\ [room EXCEPT !.discounts = {d}] \in PricedRoom
             /\ ~PricingThrows([room EXCEPT !.discounts = {d}])
             /\ RoomDiscountFee([room EXCEPT !.discounts = {d}], fee, days, clock)
                  = IF x >= 0 THEN x ELSE 0
<1> DEFINE only == [room EXCEPT !.discounts = {d}]
<1>1. only \in PricedRoom /\ only.discounts = {d}
  BY FS_Singleton DEF PricedRoom
<1>2. ~PricingThrows(only)
  BY <1>1, NoEndDateAssumption DEF PricingThrows
<1>3. DiscountFee(d, fee, days, clock) \in Int
  BY FeeIsInt
<1> HIDE DEF only
<1>4. RoomDiscountFee(only, fee, days, clock)
        = IF DiscountFee(d, fee, days, clock) >= 0 THEN DiscountFee(d, fee, days, clock) ELSE 0
  BY <1>1, <1>2, <1>3, RoomFee
<1>5. QED
  BY <1>1, <1>2, <1>4 DEF only

\* The fee of a room gives nothing more as time passes.
LEMMA RoomFeeFalls ==
  ASSUME NEW room \in PricedRoom, ~PricingThrows(room), NEW fee \in Int, NEW days \in Int,
         NEW clock \in Int, NEW later \in Int, clock <= later
  PROVE  RoomDiscountFee(room, fee, days, later) <= RoomDiscountFee(room, fee, days, clock)
<1>1. room.discounts \subseteq Discount /\ \A d \in room.discounts : d.endDate \in Int
  BY DEF PricedRoom, PricingThrows, Discount
<1>2. \A d \in room.discounts :
        DiscountFee(d, fee, days, later) \in {0, DiscountFee(d, fee, days, clock)}
  BY <1>1, FeeFalls
<1>3. QED
  BY <1>2, RoomFee

----------------------------------------------------------------------------
(* The price.                                                              *)

\* Hundredths of what the commission is taken of.
Lodging(room, days, clock) ==
    100 * (room.price * days + room.cleaningFee)
      - RoomDiscountFee(room, room.price * days, days, clock)

LEMMA LodgingIsInt ==
  ASSUME NEW room \in PricedRoom, ~PricingThrows(room), NEW days \in Int, NEW clock \in Int
  PROVE  Lodging(room, days, clock) \in Int
<1>1. room.price * days \in Int /\ room.cleaningFee \in Int
  BY DEF PricedRoom
<1>2. RoomDiscountFee(room, room.price * days, days, clock) \in Int
  BY <1>1, RoomFee
<1>3. QED
  BY <1>1, <1>2 DEF Lodging

(***************************************************************************)
(* calculatePriceInDetail: the commission is a share of the lodging and    *)
(* the tax a share of the commission, so that the total is the lodging at  *)
(* a rate of the country, whatever the number of guests.                   *)
(***************************************************************************)
LEMMA PriceIsAShareOfLodging ==
  ASSUME NEW room \in PricedRoom, ~PricingThrows(room), NEW days \in Int,
         NEW guestCnt \in Int, NEW clock \in Int
  PROVE  TotalPrice(room, days, guestCnt, clock)
           = (11500 + 15 * TaxStrategy(room.country).percent) * Lodging(room, days, clock)
<1> DEFINE lodging == Lodging(room, days, clock)
<1>1. lodging \in Int
  BY LodgingIsInt
<1>2. TotalPrice(room, days, guestCnt, clock)
        = 10000 * lodging + 100 * (15 * lodging) + Tax(room.country, 15 * lodging, days, guestCnt)
  BY DEF TotalPrice, Lodging, CommissionPercent
<1> HIDE DEF lodging
<1>3. Tax(room.country, 15 * lodging, days, guestCnt)
        = 15 * lodging * TaxStrategy(room.country).percent
  <2>1. Scale * 0 * guestCnt * days = 0
    BY DEF Scale
  <2>2. QED
    BY <1>1, <2>1 DEF Tax, TaxStrategy
<1>4. QED
  BY <1>1, <1>2, <1>3 DEF TaxStrategy, lodging

\* What costs more lodging costs more, the same room at another time or on other terms.
LEMMA PriceGrowsWithLodging ==
  ASSUME NEW a \in PricedRoom, ~PricingThrows(a), NEW b \in PricedRoom, ~PricingThrows(b),
         a.country = b.country, NEW days \in Int, NEW guestCnt \in Int,
         NEW s \in Int, NEW t \in Int,
         Lodging(a, days, s) <= Lodging(b, days, t)
  PROVE  /\ TotalPrice(a, days, guestCnt, s) \in Int
         /\ TotalPrice(a, days, guestCnt, s) <= TotalPrice(b, days, guestCnt, t)
<1>1. Lodging(a, days, s) \in Int /\ Lodging(b, days, t) \in Int
  BY LodgingIsInt
<1>2. /\ TotalPrice(a, days, guestCnt, s)
           = (11500 + 15 * TaxStrategy(a.country).percent) * Lodging(a, days, s)
      /\ TotalPrice(b, days, guestCnt, t)
           = (11500 + 15 * TaxStrategy(b.country).percent) * Lodging(b, days, t)
  BY PriceIsAShareOfLodging
<1>3. TaxStrategy(a.country).percent \in {5, 10}
  BY DEF TaxStrategy
<1>4. QED
  BY <1>1, <1>2, <1>3

(***************************************************************************)
(* The price of a stay never falls as time passes.                         *)
(***************************************************************************)
LEMMA TotalPriceRises ==
  ASSUME NEW room \in PricedRoom, ~PricingThrows(room), NEW days \in Int,
         NEW guestCnt \in Int, NEW clock \in Int, NEW later \in Int, clock <= later
  PROVE  /\ TotalPrice(room, days, guestCnt, clock) \in Int
         /\ TotalPrice(room, days, guestCnt, clock) <= TotalPrice(room, days, guestCnt, later)
<1>1. room.price * days \in Int /\ room.cleaningFee \in Int
  BY DEF PricedRoom
<1>2. /\ RoomDiscountFee(room, room.price * days, days, later)
           <= RoomDiscountFee(room, room.price * days, days, clock)
      /\ RoomDiscountFee(room, room.price * days, days, clock) \in Int
      /\ RoomDiscountFee(room, room.price * days, days, later) \in Int
  BY <1>1, RoomFeeFalls, RoomFee
<1>3. Lodging(room, days, clock) <= Lodging(room, days, later)
  BY <1>1, <1>2 DEF Lodging
<1>4. QED
  BY <1>3, PriceGrowsWithLodging
=============================================================================
