-------------------------- MODULE AccountingProofs -------------------------
(***************************************************************************)
(* Lemmas about one fill and one position, for any instruments, fills and  *)
(* widths: a fill moves lots and money exactly, and the position it leaves *)
(* is well formed.  That it is also one the keeper accepts again rests on  *)
(* one bound, lo * scale * |net_qty| <= open_cost <= hi * scale * |net_qty|, *)
(* with lo and hi the least and the greatest price of the key: rounding a  *)
(* share of the cost to the nearest integer cannot cross an integer bound. *)
(***************************************************************************)
EXTENDS Accounting, TLAPS

LEMMA NotionalType ==
    ASSUME NEW price \in Int, NEW a \in Int, NEW m \in Int
    PROVE  Notional(price, a, m) \in Int /\ Notional(price, 0, m) = 0
BY DEF Notional

LEMMA RoundingType ==
    ASSUME NEW n \in Int, NEW d \in Int, d > 0
    PROVE  DivRoundHalfEven(n, d) \in Int
BY DEF DivRoundHalfEven

-----------------------------------------------------------------------------
(* One accepted fill. *)

(* What a fill and a spec look like once validation has passed. *)
LEMMA FillTypes ==
    ASSUME NEW f, FitsFill(f)
    PROVE  /\ f.price \in Int /\ f.qty \in Int /\ f.fee \in Int
           /\ f.side \in {"Buy", "Sell"}
BY WidthAssumption DEF FitsFill

LEMMA ValidatedFill ==
    ASSUME NEW f, FitsFill(f), Validated(f)
    PROVE  /\ f.price \in Int /\ f.price > 0
           /\ f.qty \in Int /\ f.qty > 0
           /\ f.fee \in Int /\ f.fee >= 0
           /\ f.side \in {"Buy", "Sell"}
           /\ Lookup(f) \in DOMAIN Specs
           /\ Scale(f) \in Int /\ Scale(f) > 0
           /\ SpecOf(f).instrument = f.instrument /\ SpecOf(f).venue = f.venue
<1>1. Lookup(f) \in DOMAIN Specs /\ FillError(f, SpecOf(f)) = "Ok"
  BY DEF Validated, FillVerdict
<1>2. Scale(f) \in Int
  BY <1>1, SpecAssumption DEF Scale, SpecOf
<1>3. /\ ~(f.price <= 0 \/ f.qty <= 0 \/ f.fee < 0) /\ PositiveSpec(SpecOf(f))
      /\ SpecOf(f).instrument = f.instrument /\ SpecOf(f).venue = f.venue
  BY <1>1 DEF FillError
<1> QED
  BY <1>1, <1>2, <1>3, FillTypes DEF Scale, PositiveSpec

(* Fills of one key have one scale and one venue, since their specs name   *)
(* one instrument.                                                         *)
LEMMA OneEconomyPerKey ==
    ASSUME NEW f, NEW g, FitsFill(f), FitsFill(g), Validated(f), Validated(g),
           PositionKey(f) = PositionKey(g)
    PROVE  Scale(f) = Scale(g) /\ f.venue = g.venue
<1>1. f.instrument = g.instrument
  BY DEF PositionKey
<1>2. /\ Lookup(f) \in DOMAIN Specs /\ Lookup(g) \in DOMAIN Specs
      /\ SpecOf(f).instrument = SpecOf(g).instrument
      /\ SpecOf(f).venue = f.venue /\ SpecOf(g).venue = g.venue
  BY <1>1, ValidatedFill
<1> QED
  BY <1>2, EconomyAssumption DEF Scale, SpecOf

(* What an accepted fill has passed. *)
LEMMA AcceptedFill ==
    ASSUME NEW f, NEW books, Answer(books, f) = "Ok"
    PROVE  /\ Validated(f)
           /\ ValidPosition(HeldIn(books, PositionKey(f)))
           /\ ~Overflows(HeldIn(books, PositionKey(f)), f, Scale(f))
<1>1. Validated(f)
  BY DEF Answer, Validated
<1>2. TransitionError(HeldIn(books, PositionKey(f)), f, Scale(f)) = "Ok"
  BY <1>1 DEF Answer
<1> QED
  BY <1>1, <1>2 DEF TransitionError

(* The lots are moved exactly and the money adds up, in each of the three  *)
(* cases of transition.                                                    *)
LEMMA MoveConserves ==
    ASSUME NEW p \in Position, NEW f, NEW m \in Int,
           f.price \in Int, f.qty \in Int, f.qty > 0,
           f.side \in {"Buy", "Sell"},
           p.net_qty = 0 => p.open_cost = 0
    PROVE  LET moved == Moved(p, f, m)
               qty   == NewQty(p, f)
               paid  == Sign(f) * Notional(f.price, f.qty, m)
               Worth(q, pnl, cost) == IF q < 0 THEN pnl + cost ELSE pnl - cost
           IN  /\ moved.cost \in Int /\ moved.realized \in Int /\ qty \in Int
               /\ Worth(qty, p.realized_pnl + moved.realized, moved.cost)
                     = Worth(p.net_qty, p.realized_pnl, p.open_cost) - paid
<1> DEFINE moved == Moved(p, f, m)
           qty   == NewQty(p, f)
           whole == Notional(f.price, f.qty, m)
           held  == Abs(p.net_qty)
<1>1. /\ p.net_qty \in Int /\ p.open_cost \in Int /\ p.realized_pnl \in Int
      /\ whole \in Int /\ held \in Int
  <2>1. p.net_qty \in Int /\ p.open_cost \in Int /\ p.realized_pnl \in Int
    BY DEF Position
  <2>2. held \in Int
    BY <2>1 DEF Abs
  <2>3. whole \in Int
    BY NotionalType
  <2> QED
    BY <2>1, <2>2, <2>3
<1>2. Sign(f) \in {1, -1} /\ qty = p.net_qty + Sign(f) * f.qty /\ qty \in Int
      /\ (f.side = "Buy" => Sign(f) = 1) /\ (f.side = "Sell" => Sign(f) = -1)
  BY <1>1 DEF Sign, NewQty
<1>3. CASE SameDirection(p, f)
  <2>1. /\ moved.cost = p.open_cost + whole /\ moved.realized = 0
    BY <1>3 DEF Moved, Adding
  <2>2. CASE f.side = "Buy"
    <3>1. p.net_qty >= 0 /\ qty > 0
      BY <1>1, <1>2, <1>3, <2>2 DEF SameDirection
    <3> HIDE DEF moved, qty, whole
    <3> QED
      BY <1>1, <1>2, <2>1, <2>2, <3>1 DEF moved, qty, whole
  <2>3. CASE f.side = "Sell"
    <3>1. p.net_qty <= 0 /\ qty < 0
      BY <1>1, <1>2, <1>3, <2>3 DEF SameDirection
    <3> HIDE DEF moved, qty, whole
    <3> QED
      BY <1>1, <1>2, <2>1, <2>3, <3>1 DEF moved, qty, whole
  <2> QED
    BY <2>2, <2>3
<1>4. CASE ~SameDirection(p, f)
  <2> DEFINE closed == IF held < f.qty THEN held ELSE f.qty
             opened == f.qty - closed
             exit   == Notional(f.price, closed, m)
             again  == Notional(f.price, opened, m)
  <2>1. /\ closed \in Int /\ opened \in Int /\ held > 0
        /\ exit \in Int /\ again \in Int /\ whole = exit + again
    <3>1. closed \in Int /\ opened \in Int /\ closed + opened = f.qty
      BY <1>1
    <3>2. held > 0
      BY <1>1, <1>4 DEF SameDirection, Abs
    <3> HIDE DEF closed, opened
    <3>3. exit \in Int /\ again \in Int
      BY <3>1, NotionalType
    <3>4. whole = exit + again
      BY <3>1 DEF Notional
    <3> QED
      BY <3>1, <3>2, <3>3, <3>4
  <2>2. \/ p.net_qty > 0 /\ f.side = "Sell"
        \/ p.net_qty < 0 /\ f.side = "Buy"
    BY <1>1, <1>4 DEF SameDirection
  <2>3. PICK allocated \in Int :
          /\ moved.realized = IF p.net_qty > 0 THEN exit - allocated
                                               ELSE allocated - exit
          /\ moved.cost = IF closed < held THEN p.open_cost - allocated
                                           ELSE again
          /\ closed < held \/ allocated = p.open_cost
    <3>1. CASE closed < held
      <4>0. p.open_cost * closed \in Int
        BY <1>1, <2>1
      <4>1. DivRoundHalfEven(p.open_cost * closed, held) \in Int
        BY <4>0, <1>1, <2>1, RoundingType
      <4> QED
        BY <1>4, <3>1, <4>1 DEF Moved, Closing
    <3>2. CASE ~(closed < held)
      BY <1>1, <1>4, <3>2 DEF Moved, Closing
    <3> QED
      BY <3>1, <3>2
  <2>4. CASE closed < held
    <3>1. again = 0 /\ exit = whole
      <4>1. closed = f.qty /\ opened = 0
        BY <1>1, <2>4
      <4>2. again = 0
        BY <4>1, NotionalType
      <4> QED
        BY <4>1, <4>2
    <3>2. (p.net_qty > 0 => qty > 0) /\ (p.net_qty < 0 => qty < 0)
      BY <1>1, <1>2, <2>2, <2>4 DEF Abs
    <3> HIDE DEF moved, qty, whole, held, closed, opened, exit, again
    <3> QED
      BY <1>1, <1>2, <2>1, <2>2, <2>3, <2>4, <3>1, <3>2 DEF moved, qty, whole
  <2>5. CASE ~(closed < held)
    <3>1. (p.net_qty > 0 => qty <= 0) /\ (p.net_qty < 0 => qty >= 0)
      BY <1>1, <1>2, <2>2, <2>5 DEF Abs
    <3>2. qty = 0 => again = 0
      <4>1. qty = 0 => opened = 0
        BY <1>1, <1>2, <2>2, <2>5 DEF Abs
      <4>2. ASSUME opened = 0
            PROVE  again = 0
        BY <4>2, NotionalType
      <4> QED
        BY <4>1, <4>2
    <3> HIDE DEF moved, qty, whole, held, closed, opened, exit, again
    <3> QED
      BY <1>1, <1>2, <2>1, <2>2, <2>3, <2>5, <3>1, <3>2 DEF moved, qty, whole
  <2> QED
    BY <2>4, <2>5
<1> QED
  BY <1>3, <1>4

(* The position an accepted fill leaves is well formed, and its magnitude  *)
(* is an i64.                                                              *)
LEMMA AfterType ==
    ASSUME NEW p \in Position, NEW f, FitsFill(f), Validated(f), ValidPosition(p)
    PROVE  After(p, f, Scale(f)) \in Position
<1> DEFINE m     == Scale(f)
           moved == Moved(p, f, m)
           qty   == NewQty(p, f)
           after == After(p, f, m)
<1>1. /\ m \in Int /\ m > 0
      /\ f.price \in Int /\ f.qty \in Int /\ f.fee \in Int /\ f.qty > 0
      /\ f.side \in {"Buy", "Sell"}
  BY ValidatedFill
<1> HIDE DEF m
<1>2. moved.cost \in Int /\ moved.realized \in Int /\ qty \in Int
  BY <1>1, MoveConserves DEF ValidPosition
<1>3. /\ after.net_qty = qty
      /\ after = [net_qty |-> qty, avg_entry_price |-> after.avg_entry_price,
                  open_cost |-> moved.cost,
                  realized_pnl |-> p.realized_pnl + moved.realized,
                  fees |-> p.fees + f.fee]
      /\ after.avg_entry_price = IF qty = 0 THEN NoPrice
                       ELSE DivRoundHalfEven(moved.cost, Abs(qty) * m)
  BY DEF After
<1>4. after.avg_entry_price \in Int
  <2>1. CASE qty = 0
    BY <1>3, <2>1 DEF NoPrice
  <2>2. CASE qty # 0
    <3>1. Abs(qty) \in Int /\ Abs(qty) > 0
      BY <1>2, <2>2 DEF Abs
    <3> DEFINE unit == Abs(qty) * m
    <3>2. unit \in Int /\ unit > 0
      BY <1>1, <3>1
    <3> HIDE DEF unit, moved, qty
    <3>3. DivRoundHalfEven(moved.cost, unit) \in Int
      BY <1>2, <3>2, RoundingType
    <3> QED
      BY <1>3, <2>2, <3>3 DEF unit
  <2> QED
    BY <2>1, <2>2
<1>5. p.realized_pnl \in Int /\ p.fees \in Int
  BY <1>1 DEF Position
<1> HIDE DEF moved, qty
<1>6. after \in Position
  <2> HIDE DEF after
  <2> QED
    BY <1>1, <1>2, <1>3, <1>4, <1>5 DEF Position
<1> QED
  BY <1>6 DEF m

(* Unless it overflows its magnitude is an i64. *)
LEMMA AfterFits ==
    ASSUME NEW p, NEW f, NEW m, After(p, f, m) \in Position, ~Overflows(p, f, m)
    PROVE  /\ After(p, f, m).net_qty \in -I64Max - 1 .. I64Max
           /\ After(p, f, m).net_qty # -I64Max - 1
<1> DEFINE qty == After(p, f, m).net_qty
<1>1. qty \in Int /\ I64Max \in Nat
  BY WidthAssumption DEF Position
<1>2. qty # 0 => Fits64(Abs(qty))
  BY DEF Overflows
<1> HIDE DEF qty
<1>3. qty \in -I64Max - 1 .. I64Max /\ qty # -I64Max - 1
  BY <1>1, <1>2 DEF Fits64, Abs
<1> QED
  BY <1>3 DEF qty

-----------------------------------------------------------------------------
(* Rounding never leaves an interval with integer ends. *)

LEMMA Quotient ==
    ASSUME NEW a \in Int, NEW b \in Int, b > 0
    PROVE  /\ a \div b \in Int
           /\ a % b \in 0 .. b - 1
           /\ a = b * (a \div b) + (a % b)
BY SMT

LEMMA Cancel ==
    ASSUME NEW x \in Int, NEW y \in Int, NEW d \in Int, d > 0, x * d < y * d
    PROVE  x < y
BY SMT

LEMMA Scaling ==
    ASSUME NEW x \in Int, NEW y \in Int, NEW d \in Int, d >= 0, x <= y
    PROVE  x * d <= y * d
BY SMT

LEMMA RoundingBounds ==
    ASSUME NEW n \in Int, NEW d \in Int, d > 0, NEW b \in Int
    PROVE  /\ n <= b * d => DivRoundHalfEven(n, d) <= b
           /\ b * d <= n => b <= DivRoundHalfEven(n, d)
<1> DEFINE q == n \div d
           r == n % d
           x == DivRoundHalfEven(n, d)
<1>1. /\ q \in Int /\ r \in Int /\ 0 <= r /\ r < d
      /\ n = d * q + r
  BY Quotient
<1>2. x \in {q, q + 1} /\ (r = 0 => x = q)
  BY <1>1 DEF DivRoundHalfEven
<1> HIDE DEF q, r, x
<1>3. ASSUME n <= b * d
      PROVE  x <= b
  <2>1. q * d <= b * d
    BY <1>1, <1>3
  <2>2. CASE q >= b
    <3>1. b * d <= q * d
      BY <1>1, <2>2, Scaling
    <3>2. r = 0
      BY <1>1, <1>3, <3>1
    <3>3. ~(b < q)
      <4>1. (b + 1) * d <= q * d \/ ~(b < q)
        BY <1>1, Scaling
      <4> QED
        BY <4>1, <2>1, <1>1
    <3> QED
      BY <3>2, <3>3, <1>1, <1>2
  <2>3. CASE ~(q >= b)
    BY <2>3, <1>1, <1>2
  <2> QED
    BY <2>2, <2>3
<1>4. ASSUME b * d <= n
      PROVE  b <= x
  <2>1. b * d < (q + 1) * d
    BY <1>1, <1>4
  <2>2. b < q + 1
    BY <2>1, <1>1, Cancel
  <2> QED
    BY <2>2, <1>1, <1>2
<1> QED
  BY <1>3, <1>4 DEF x

-----------------------------------------------------------------------------
(* Every sequence of fills leaves a position the keeper accepts. *)

(* Fills as their type can hold them. *)
AllFit(F) == \A f \in F : FitsFill(f)

ValidatedFills(F, k) == {f \in F : PositionKey(f) = k /\ Validated(f)}

PricesOf(F, k) == {f.price : f \in ValidatedFills(F, k)}

(* The cost of `size` lots lies between two of the key's prices. *)
CostInRange(F, k, cost, size, m) ==
    \E lo, hi \in PricesOf(F, k) : lo * (size * m) <= cost /\ cost <= hi * (size * m)

(* The strengthening of NeverInvalidPosition and EntryPriceInRange: the    *)
(* open cost is that of the open lots at prices the key has seen, which,   *)
(* unlike the entry price, is not rounded anew.                            *)
SoundAt(F, p, k) ==
    /\ ValidPosition(p)
    /\ p.net_qty # 0 =>
          /\ \E g \in ValidatedFills(F, k) :
                CostInRange(F, k, p.open_cost, Abs(p.net_qty), Scale(g))
          /\ \E lo \in PricesOf(F, k) : lo <= p.avg_entry_price
          /\ \E hi \in PricesOf(F, k) : p.avg_entry_price <= hi

LEMMA PricesArePositive ==
    ASSUME NEW F, AllFit(F), NEW k, NEW x \in PricesOf(F, k)
    PROVE  x \in Int /\ x > 0
<1>1. PICK f \in F : Validated(f) /\ f.price = x
  BY DEF PricesOf, ValidatedFills
<1> QED
  BY <1>1, ValidatedFill DEF AllFit

(* A cost in range gives a positive cost and an entry price in range. *)
LEMMA RangeIsSound ==
    ASSUME NEW F, AllFit(F), NEW k, NEW cost \in Int, NEW size \in Int, size > 0,
           NEW m \in Int, m > 0, CostInRange(F, k, cost, size, m)
    PROVE  LET price == DivRoundHalfEven(cost, size * m)
           IN  /\ cost > 0 /\ price \in Int /\ price > 0
               /\ \E lo \in PricesOf(F, k) : lo <= price
               /\ \E hi \in PricesOf(F, k) : price <= hi
<1> DEFINE unit  == size * m
           price == DivRoundHalfEven(cost, unit)
<1>1. unit \in Int /\ unit > 0
  BY SMT
<1>2. PICK lo \in PricesOf(F, k), hi \in PricesOf(F, k) :
         lo * unit <= cost /\ cost <= hi * unit
  BY DEF CostInRange
<1> HIDE DEF unit
<1>3. lo \in Int /\ lo > 0 /\ hi \in Int
  BY PricesArePositive
<1>4. price \in Int /\ lo <= price /\ price <= hi
  BY <1>1, <1>2, <1>3, RoundingType, RoundingBounds
<1>5. cost > 0
  <2>1. 1 * unit <= lo * unit
    BY <1>1, <1>3, Scaling
  <2>2. lo * unit \in Int
    BY <1>1, <1>3
  <2> QED
    BY <1>1, <1>2, <2>1, <2>2
<1> QED
  BY <1>3, <1>4, <1>5 DEF unit

(* Opening a position, and adding to one, at one of the key's prices. *)
LEMMA OpeningInRange ==
    ASSUME NEW F, AllFit(F), NEW k, NEW m \in Int, NEW x \in PricesOf(F, k), NEW n \in Int
    PROVE  CostInRange(F, k, Notional(x, n, m), n, m)
<1>1. x \in Int
  BY PricesArePositive
<1>2. Notional(x, n, m) = x * (n * m) /\ x * (n * m) \in Int
  BY <1>1 DEF Notional
<1> QED
  BY <1>2 DEF CostInRange

LEMMA AddingInRange ==
    ASSUME NEW F, AllFit(F), NEW k, NEW cost \in Int, NEW size \in Int, NEW m \in Int, m > 0,
           \/ size = 0 /\ cost = 0
           \/ size > 0 /\ CostInRange(F, k, cost, size, m),
           NEW x \in PricesOf(F, k), NEW n \in Int, n > 0
    PROVE  CostInRange(F, k, cost + Notional(x, n, m), size + n, m)
<1>1. x \in Int
  BY PricesArePositive
<1>2. n * m \in Int /\ n * m >= 0 /\ size * m \in Int
  BY SMT
<1>3. Notional(x, n, m) = x * (n * m)
  BY <1>1 DEF Notional
<1>4. \A y \in Int : y * ((size + n) * m) = y * (size * m) + y * (n * m)
  BY SMT
<1>5. CASE size = 0 /\ cost = 0
  <2>1. x * ((size + n) * m) = cost + Notional(x, n, m)
    BY <1>1, <1>3, <1>5
  <2>2. x * ((size + n) * m) \in Int
    BY <1>1
  <2> QED
    BY <2>1, <2>2 DEF CostInRange
<1>6. CASE size > 0 /\ CostInRange(F, k, cost, size, m)
  <2>1. PICK lo \in PricesOf(F, k), hi \in PricesOf(F, k) :
           lo * (size * m) <= cost /\ cost <= hi * (size * m)
    BY <1>6 DEF CostInRange
  <2>2. lo \in Int /\ hi \in Int
    BY PricesArePositive
  <2>3. size * m >= 0
    BY <1>6
  <2> DEFINE least == IF x < lo THEN x ELSE lo
             most  == IF x > hi THEN x ELSE hi
  <2>4. /\ least \in PricesOf(F, k) /\ least \in Int /\ least <= lo /\ least <= x
        /\ most \in PricesOf(F, k) /\ most \in Int /\ hi <= most /\ x <= most
    BY <1>1, <2>2
  <2> HIDE DEF least, most
  <2> DEFINE a == size * m
             b == n * m
  <2>5. a \in Int /\ a >= 0 /\ b \in Int /\ b >= 0
    BY <1>2, <2>3
  <2> HIDE DEF a, b
  <2>6. least * a <= lo * a /\ least * b <= x * b
    BY <1>1, <2>2, <2>4, <2>5, Scaling
  <2>7. hi * a <= most * a /\ x * b <= most * b
    BY <1>1, <2>2, <2>4, <2>5, Scaling
  <2>8. /\ least * a \in Int /\ least * b \in Int /\ lo * a \in Int
        /\ hi * a \in Int /\ most * a \in Int /\ most * b \in Int /\ x * b \in Int
    BY <1>1, <2>2, <2>4, <2>5
  <2>9. least * a + least * b <= cost + x * b /\ cost + x * b <= most * a + most * b
    BY <2>1, <2>6, <2>7, <2>8 DEF a
  <2>10. /\ least * ((size + n) * m) <= cost + Notional(x, n, m)
         /\ cost + Notional(x, n, m) <= most * ((size + n) * m)
    BY <1>3, <1>4, <2>4, <2>9 DEF a, b
  <2> QED
    BY <2>4, <2>10 DEF CostInRange
<1> QED
  BY <1>5, <1>6

(* Closing some of the lots with a rounded share of the cost: the share of *)
(* the bounds is exact, and rounding does not cross it.                    *)
LEMMA TakingInRange ==
    ASSUME NEW F, AllFit(F), NEW k, NEW cost \in Int, NEW size \in Int, NEW m \in Int, m > 0,
           CostInRange(F, k, cost, size, m),
           NEW n \in Int, 0 < n, n < size
    PROVE  CostInRange(F, k, cost - DivRoundHalfEven(cost * n, size), size - n, m)
<1> DEFINE share == DivRoundHalfEven(cost * n, size)
           left  == size - n
<1>1. PICK lo \in PricesOf(F, k), hi \in PricesOf(F, k) :
         lo * (size * m) <= cost /\ cost <= hi * (size * m)
  BY DEF CostInRange
<1>2. lo \in Int /\ hi \in Int /\ left \in Int /\ left > 0 /\ size = left + n
      /\ cost * n \in Int /\ cost * left \in Int /\ size > 0
  BY PricesArePositive
<1>3. share \in Int
  BY <1>2, RoundingType
<1>4. ASSUME NEW y \in Int
      PROVE  /\ y * (left * m) \in Int /\ y * (size * m) \in Int
             /\ (cost - y * (left * m)) * size
                   = cost * n + (cost * left - (y * (size * m)) * left)
  <2>1. size \in Int /\ left \in Int
    BY <1>2
  <2> DEFINE w == y * m
  <2>2. w \in Int
    OBVIOUS
  <2>3. y * (left * m) = w * left /\ y * (size * m) = w * size
    BY <2>1
  <2> HIDE DEF w, left
  <2>4. (cost - w * left) * size = cost * size - (w * left) * size
    BY <2>1, <2>2
  <2>5. cost * size = cost * left + cost * n
    BY <1>2, <2>1
  <2>6. (w * left) * size = (w * size) * left
    BY <2>1, <2>2
  <2>7. w * left \in Int /\ w * size \in Int /\ (w * size) * left \in Int
        /\ cost * size \in Int
    BY <2>1, <2>2
  <2> QED
    BY <1>2, <2>3, <2>4, <2>5, <2>6, <2>7
<1> HIDE DEF left, share
<1>5. lo * (left * m) <= cost - share
  <2> DEFINE low == lo * (left * m)
             u   == lo * (size * m)
  <2>1. /\ low \in Int /\ u \in Int /\ u <= cost
        /\ (cost - low) * size = cost * n + (cost * left - u * left)
    BY <1>1, <1>2, <1>4
  <2> HIDE DEF low, u
  <2>2. u * left <= cost * left /\ u * left \in Int
    BY <1>2, <2>1, Scaling
  <2>3. cost * n <= (cost - low) * size
    BY <1>2, <2>1, <2>2
  <2>4. share <= cost - low
    BY <1>2, <2>1, <2>3, RoundingBounds DEF share
  <2> QED
    BY <1>3, <2>1, <2>4 DEF low
<1>6. cost - share <= hi * (left * m)
  <2> DEFINE high == hi * (left * m)
             u    == hi * (size * m)
  <2>1. /\ high \in Int /\ u \in Int /\ cost <= u
        /\ (cost - high) * size = cost * n + (cost * left - u * left)
    BY <1>1, <1>2, <1>4
  <2> HIDE DEF high, u
  <2>2. cost * left <= u * left /\ u * left \in Int
    BY <1>2, <2>1, Scaling
  <2>3. (cost - high) * size <= cost * n
    BY <1>2, <2>1, <2>2
  <2>4. cost - high <= share
    BY <1>2, <2>1, <2>3, RoundingBounds DEF share
  <2> QED
    BY <1>3, <2>1, <2>4 DEF high
<1> QED
  BY <1>5, <1>6 DEF CostInRange, left, share

(* In each case of transition the cost left open is that of the open lots. *)
LEMMA MovedInRange ==
    ASSUME NEW F, AllFit(F),
           NEW p \in Position, NEW f \in F, Validated(f),
           SoundAt(F, p, PositionKey(f))
    PROVE  LET moved == Moved(p, f, Scale(f))
               qty   == NewQty(p, f)
           IN  /\ qty = 0 => moved.cost = 0
               /\ qty # 0 =>
                     CostInRange(F, PositionKey(f), moved.cost, Abs(qty), Scale(f))
<1> DEFINE k     == PositionKey(f)
           m     == Scale(f)
           moved == Moved(p, f, m)
           qty   == NewQty(p, f)
           held  == Abs(p.net_qty)
<1>1. /\ f.price \in PricesOf(F, k) /\ f.price \in Int
      /\ f.qty \in Int /\ f.qty > 0 /\ f.side \in {"Buy", "Sell"}
      /\ m \in Int /\ m > 0
      /\ p.net_qty \in Int /\ p.open_cost \in Int
      /\ held \in Int /\ held >= 0 /\ (held = 0 <=> p.net_qty = 0)
  BY ValidatedFill DEF Position, Abs, PricesOf, ValidatedFills, AllFit
<1>2. \/ held = 0 /\ p.open_cost = 0
      \/ held > 0 /\ CostInRange(F, k, p.open_cost, held, m)
  <2>1. CASE p.net_qty = 0
    BY <1>1, <2>1 DEF SoundAt, ValidPosition
  <2>2. CASE p.net_qty # 0
    <3>1. PICK g \in ValidatedFills(F, k) :
             CostInRange(F, k, p.open_cost, held, Scale(g))
      BY <2>2 DEF SoundAt
    <3>2. Scale(g) = m
      BY OneEconomyPerKey DEF ValidatedFills, AllFit
    <3> QED
      BY <1>1, <2>2, <3>1, <3>2
  <2> QED
    BY <2>1, <2>2
<1>3. qty = IF f.side = "Buy" THEN p.net_qty + f.qty ELSE p.net_qty - f.qty
  BY <1>1 DEF NewQty, Sign
<1>4. CASE SameDirection(p, f)
  <2>1. moved.cost = p.open_cost + Notional(f.price, f.qty, m)
    BY <1>4 DEF Moved, Adding
  <2>2. qty # 0 /\ Abs(qty) = held + f.qty
    BY <1>1, <1>3, <1>4 DEF SameDirection, Abs
  <2> HIDE DEF moved, qty, held, k, m
  <2>3. CostInRange(F, k, p.open_cost + Notional(f.price, f.qty, m), held + f.qty, m)
    BY <1>1, <1>2, AddingInRange
  <2> QED
    BY <2>1, <2>2, <2>3 DEF moved, qty, held, k, m
<1>5. CASE ~SameDirection(p, f)
  <2>1. \/ p.net_qty > 0 /\ f.side = "Sell"
        \/ p.net_qty < 0 /\ f.side = "Buy"
    BY <1>1, <1>5 DEF SameDirection
  <2>2. CASE f.qty < held
    <3>1. qty # 0 /\ Abs(qty) = held - f.qty
      BY <1>1, <1>3, <2>1, <2>2 DEF Abs
    <3>2. moved.cost = p.open_cost - DivRoundHalfEven(p.open_cost * f.qty, held)
      BY <1>1, <1>5, <2>2 DEF Moved, Closing
    <3> HIDE DEF moved, qty, held, k, m
    <3>3. CostInRange(F, k, p.open_cost - DivRoundHalfEven(p.open_cost * f.qty, held),
                      held - f.qty, m)
      BY <1>1, <1>2, <2>2, TakingInRange
    <3> QED
      BY <3>1, <3>2, <3>3 DEF moved, qty, held, k, m
  <2>3. CASE ~(f.qty < held)
    <3> DEFINE opened == f.qty - held
    <3>1. moved.cost = Notional(f.price, opened, m)
      <4>1. (IF held < f.qty THEN held ELSE f.qty) = held
        BY <1>1, <2>3
      <4> QED
        BY <4>1, <1>1, <1>5, <2>3 DEF Moved, Closing
    <3>2. opened \in Int /\ opened >= 0 /\ Abs(qty) = opened
          /\ (qty = 0 <=> opened = 0)
      BY <1>1, <1>3, <2>1, <2>3 DEF Abs
    <3> HIDE DEF moved, qty, held, k, m, opened
    <3>3. CASE opened = 0
      <4>1. Notional(f.price, 0, m) = 0
        BY <1>1, NotionalType
      <4>2. qty = 0 /\ moved.cost = 0
        BY <3>1, <3>2, <3>3, <4>1
      <4> QED
        BY <4>2 DEF moved, qty, m
    <3>4. CASE opened # 0
      <4>1. CostInRange(F, k, Notional(f.price, opened, m), opened, m)
        BY <1>1, <3>2, <3>4, OpeningInRange
      <4> QED
        BY <3>1, <3>2, <3>4, <4>1 DEF moved, qty, k, m
    <3> QED
      BY <3>3, <3>4
  <2> QED
    BY <2>2, <2>3
<1> QED
  BY <1>4, <1>5

(* So the position a fill leaves is sound, whether or not it overflows. *)
LEMMA AfterSound ==
    ASSUME NEW F, AllFit(F),
           NEW p \in Position, NEW f \in F, Validated(f),
           SoundAt(F, p, PositionKey(f))
    PROVE  SoundAt(F, After(p, f, Scale(f)), PositionKey(f))
<1> DEFINE k     == PositionKey(f)
           m     == Scale(f)
           moved == Moved(p, f, m)
           qty   == NewQty(p, f)
           after == After(p, f, m)
<1>1. /\ f \in ValidatedFills(F, k) /\ f.price \in Int
      /\ f.qty \in Int /\ f.qty > 0 /\ f.side \in {"Buy", "Sell"}
      /\ f.fee \in Int /\ f.fee >= 0 /\ m \in Int /\ m > 0
      /\ p.fees \in Int /\ p.fees >= 0
  BY ValidatedFill DEF Position, SoundAt, ValidPosition, ValidatedFills, AllFit
<1>2. /\ after.net_qty = qty /\ after.open_cost = moved.cost
      /\ after.fees = p.fees + f.fee
      /\ after.avg_entry_price = IF qty = 0 THEN NoPrice
                       ELSE DivRoundHalfEven(moved.cost, Abs(qty) * m)
  BY DEF After
<1>3. moved.cost \in Int /\ qty \in Int
  BY <1>1, MoveConserves DEF SoundAt, ValidPosition
<1>4. /\ qty = 0 => moved.cost = 0
      /\ qty # 0 => CostInRange(F, k, moved.cost, Abs(qty), m)
  BY MovedInRange
<1> HIDE DEF k, m, moved, qty, after
<1>5. ASSUME qty = 0
      PROVE  SoundAt(F, after, k)
  BY <1>1, <1>2, <1>4, <1>5 DEF SoundAt, ValidPosition
<1>6. ASSUME qty # 0
      PROVE  SoundAt(F, after, k)
  <2>1. Abs(qty) \in Int /\ Abs(qty) > 0
    BY <1>3, <1>6 DEF Abs
  <2>2. /\ after.open_cost > 0 /\ after.avg_entry_price > 0
        /\ \E lo \in PricesOf(F, k) : lo <= after.avg_entry_price
        /\ \E hi \in PricesOf(F, k) : after.avg_entry_price <= hi
    <3> DEFINE cost  == moved.cost
               size  == Abs(qty)
               price == DivRoundHalfEven(cost, size * m)
    <3>1. /\ cost \in Int /\ size \in Int /\ size > 0
          /\ CostInRange(F, k, cost, size, m)
          /\ after.open_cost = cost /\ after.avg_entry_price = price
      BY <1>2, <1>3, <1>4, <1>6, <2>1
    <3> HIDE DEF cost, size
    <3>2. /\ cost > 0 /\ price > 0
          /\ \E lo \in PricesOf(F, k) : lo <= price
          /\ \E hi \in PricesOf(F, k) : price <= hi
      BY <1>1, <3>1, RangeIsSound
    <3> QED
      BY <3>1, <3>2
  <2>3. CostInRange(F, k, after.open_cost, Abs(after.net_qty), m)
    BY <1>2, <1>4, <1>6
  <2>4. ValidPosition(after)
    BY <1>1, <1>2, <1>6, <2>2 DEF ValidPosition
  <2> QED
    BY <1>1, <2>2, <2>3, <2>4 DEF SoundAt, m
<1> QED
  BY <1>5, <1>6 DEF k, m, after

LEMMA FlatSound ==
    ASSUME NEW F, NEW k
    PROVE  Flat \in Position /\ SoundAt(F, Flat, k)
BY DEF Position, Flat, NoPrice, SoundAt, ValidPosition

-----------------------------------------------------------------------------
(* The books. *)

WellFormed(books) == \A k \in DOMAIN books : books[k] \in Position

SoundBooks(F, books) == \A k \in DOMAIN books : SoundAt(F, books[k], k)

LEMMA HeldType ==
    ASSUME NEW books, WellFormed(books), NEW k
    PROVE  HeldIn(books, k) \in Position
BY FlatSound DEF WellFormed, HeldIn

LEMMA HeldSound ==
    ASSUME NEW F, NEW books, SoundBooks(F, books), NEW k
    PROVE  SoundAt(F, HeldIn(books, k), k)
BY FlatSound DEF SoundBooks, HeldIn

LEMMA BookedAt ==
    ASSUME NEW books, NEW f
    PROVE  /\ DOMAIN Booked(books, f) = DOMAIN books \cup {PositionKey(f)}
           /\ \A k : HeldIn(Booked(books, f), k)
                       = IF k = PositionKey(f) THEN After(HeldIn(books, k), f, Scale(f))
                                               ELSE HeldIn(books, k)
           /\ \A k \in DOMAIN books \cup {PositionKey(f)} :
                 Booked(books, f)[k] = HeldIn(Booked(books, f), k)
BY DEF Booked, HeldIn

LEMMA BookedWellFormed ==
    ASSUME NEW books, WellFormed(books), NEW f, FitsFill(f), Answer(books, f) = "Ok"
    PROVE  WellFormed(Booked(books, f))
<1> DEFINE k == PositionKey(f)
           p == HeldIn(books, k)
<1>1. After(p, f, Scale(f)) \in Position
  BY HeldType, AcceptedFill, AfterType
<1>2. \A j \in DOMAIN Booked(books, f) :
         Booked(books, f)[j] = IF j = k THEN After(p, f, Scale(f)) ELSE books[j]
  BY DEF Booked
<1>3. DOMAIN Booked(books, f) = DOMAIN books \cup {k}
  BY BookedAt
<1> HIDE DEF k, p
<1>4. \A j \in DOMAIN Booked(books, f) : Booked(books, f)[j] \in Position
  BY <1>1, <1>2, <1>3 DEF WellFormed
<1> QED
  BY <1>4 DEF WellFormed

LEMMA BookedSound ==
    ASSUME NEW F, AllFit(F),
           NEW books, WellFormed(books), SoundBooks(F, books), NEW f \in F, Validated(f)
    PROVE  SoundBooks(F, Booked(books, f))
<1> DEFINE k == PositionKey(f)
           p == HeldIn(books, k)
<1>1. SoundAt(F, After(p, f, Scale(f)), k)
  BY HeldType, HeldSound, AfterSound
<1>2. \A j \in DOMAIN Booked(books, f) :
         Booked(books, f)[j] = IF j = k THEN After(p, f, Scale(f)) ELSE books[j]
  BY DEF Booked
<1> HIDE DEF k, p
<1> QED
  BY <1>1, <1>2, BookedAt DEF SoundBooks, k

(* So a fill that passes validation is applied or overflows. *)
LEMMA SoundAnswer ==
    ASSUME NEW F, AllFit(F),
           NEW books, WellFormed(books), SoundBooks(F, books), NEW f \in F, Validated(f)
    PROVE  Answer(books, f) \in {"Ok", "ArithmeticOverflow"}
<1> DEFINE k == PositionKey(f)
           p == HeldIn(books, k)
<1>1. ValidPosition(p)
  BY HeldSound DEF SoundAt
<1>2. ValidPosition(After(p, f, Scale(f)))
  BY HeldType, HeldSound, AfterSound DEF SoundAt
<1> HIDE DEF p
<1>3. TransitionError(p, f, Scale(f)) \in {"Ok", "ArithmeticOverflow"}
  BY <1>1, <1>2, Zenon DEF TransitionError
<1> QED
  BY <1>3 DEF Answer, p

=============================================================================
