---------------------------- MODULE Accounting ----------------------------
(***************************************************************************)
(* What the position keeper computes, apart from what it stores            *)
(* (crates/position_keeper/src/lib.rs): the key and the spec of a fill,    *)
(* its validation, and the transition of one position by one fill.         *)
(*                                                                         *)
(* The code computes with checked i64 and i128 arithmetic.  Here a result  *)
(* is computed exactly, next to the set of intermediate values each width  *)
(* must hold; if one does not fit, the answer is ArithmeticOverflow.       *)
(***************************************************************************)
EXTENDS Instruments

CONSTANT Specs      \* <<venue, symbol>> -> instrument spec, what lookup finds

ASSUME SpecAssumption ==
    \A s \in DOMAIN Specs :
        /\ Specs[s].tick_micro \in Int
        /\ Specs[s].lot_qty_e9 \in Int
        /\ Specs[s].micro_per_tick_lot \in Int
(* What construction of the registry guarantees (OneEconomyPerInstrument). *)
ASSUME EconomyAssumption ==
    \A s, t \in DOMAIN Specs :
        Specs[s].instrument = Specs[t].instrument =>
            /\ Specs[s].micro_per_tick_lot = Specs[t].micro_per_tick_lot
            /\ Specs[s].venue = Specs[t].venue

(* A fill as its type can hold it. *)
FitsFill(f) ==
    /\ f.side \in {"Buy", "Sell"}
    /\ f.price \in -I64Max - 1 .. I64Max
    /\ f.qty \in -I64Max - 1 .. I64Max
    /\ f.fee \in -I128Max - 1 .. I128Max

(* Mutant: one position per account.                                       *)
PositionKeyOfAccount(f) == <<f.account>>

PositionKey(f) == <<f.account, f.instrument>>

Lookup(f) == <<f.venue, f.symbol>>

SpecOf(f) == Specs[Lookup(f)]

Scale(f) == SpecOf(f).micro_per_tick_lot

(* What a fill must pass before its position is looked at. *)
FillVerdict(f) ==
    IF Lookup(f) \in DOMAIN Specs THEN FillError(f, SpecOf(f)) ELSE "UnknownSymbol"

Validated(f) == FillVerdict(f) = "Ok"

-----------------------------------------------------------------------------
Position == [net_qty : Int, avg_entry_price : Int, open_cost : Int,
             realized_pnl : Int, fees : Int]

NoPrice == -1       \* avg_entry_price = None

Flat == [net_qty |-> 0, avg_entry_price |-> NoPrice, open_cost |-> 0,
         realized_pnl |-> 0, fees |-> 0]

-----------------------------------------------------------------------------
(* Arithmetic. *)

Abs(x) == IF x < 0 THEN -x ELSE x

Sign(f) == IF f.side = "Buy" THEN 1 ELSE -1

Notional(price, qty, m) == price * qty * m

(* Mutant: up, even when the division is exact.                            *)
DivRoundUp(numerator, denominator) == numerator \div denominator + 1

(* To the nearest integer, ties to the even one; numerator >= 0 and        *)
(* denominator > 0, or the code answers with an overflow.                  *)
DivRoundHalfEven(numerator, denominator) ==
    LET quotient == numerator \div denominator
        doubled  == 2 * (numerator % denominator)
    IN  IF doubled < denominator \/ (doubled = denominator /\ quotient % 2 = 0)
        THEN quotient ELSE quotient + 1

(* validate_position. *)
ValidPosition(p) ==
    /\ p.fees >= 0
    /\ IF p.net_qty = 0
       THEN p.open_cost = 0 /\ p.avg_entry_price = NoPrice
       ELSE p.open_cost > 0 /\ p.avg_entry_price > 0

-----------------------------------------------------------------------------
(* One fill against one position: the quantities it closes and opens, the  *)
(* cost left open, what it realizes, and the intermediate values.          *)

(* Mutant: selling more of a short position is not seen as adding.         *)
SameDirectionLong(p, f) ==
    \/ p.net_qty = 0
    \/ p.net_qty > 0 /\ f.side = "Buy"

SameDirection(p, f) ==
    \/ p.net_qty = 0
    \/ p.net_qty > 0 /\ f.side = "Buy"
    \/ p.net_qty < 0 /\ f.side = "Sell"

Adding(p, f, m) ==
    LET added == Notional(f.price, f.qty, m)
    IN  [closed   |-> 0,
         opened   |-> f.qty,
         realized |-> 0,
         cost     |-> p.open_cost + added,
         wide     |-> {f.price * f.qty, added, p.open_cost + added},
         narrow   |-> {p.net_qty + Sign(f) * f.qty}]

(* Closing less than the position takes a rounded share of its cost;       *)
(* closing all of it takes all the cost; what the fill has beyond that     *)
(* opens a position the other way.                                         *)
Closing(p, f, m) ==
    LET held      == Abs(p.net_qty)
        closed    == IF held < f.qty THEN held ELSE f.qty
        opened    == f.qty - closed
        exit      == Notional(f.price, closed, m)
        reopened  == Notional(f.price, opened, m)
        partial   == closed < held
        share     == p.open_cost * closed
        allocated == IF partial THEN DivRoundHalfEven(share, held)
                                ELSE p.open_cost
        realized  == IF p.net_qty > 0 THEN exit - allocated ELSE allocated - exit
    IN  [closed   |-> closed,
         opened   |-> opened,
         realized |-> realized,
         cost     |-> IF partial THEN p.open_cost - allocated ELSE reopened,
         wide     |-> {f.price * closed, exit, f.price * opened, reopened,
                       realized, p.open_cost - allocated}
                      \cup IF partial THEN {share, 2 * (share % held), allocated}
                                      ELSE {},
         narrow   |-> {held, opened}
                      \cup IF partial THEN {p.net_qty + Sign(f) * f.qty} ELSE {}]

(* Mutants: the cost left open recomputed from the rounded average; a      *)
(* reversal that forgets the cost of what it opens.                        *)
MovedByAverage(p, f, m) ==
    LET moved == Closing(p, f, m)
        left  == Abs(p.net_qty) - moved.closed
    IN  IF SameDirection(p, f) THEN Adding(p, f, m)
        ELSE IF left = 0 THEN moved
        ELSE [moved EXCEPT !.cost = Notional(p.avg_entry_price, left, m)]

MovedOpensFree(p, f, m) ==
    IF SameDirection(p, f) THEN Adding(p, f, m)
    ELSE [Closing(p, f, m) EXCEPT !.cost = IF Abs(p.net_qty) > f.qty THEN @ ELSE 0]

Moved(p, f, m) == IF SameDirection(p, f) THEN Adding(p, f, m) ELSE Closing(p, f, m)

(* In every branch the lots add up. *)
NewQty(p, f) == p.net_qty + Sign(f) * f.qty

After(p, f, m) ==
    LET moved == Moved(p, f, m)
        qty   == NewQty(p, f)
    IN  [net_qty         |-> qty,
         avg_entry_price |-> IF qty = 0 THEN NoPrice
                             ELSE DivRoundHalfEven(moved.cost, Abs(qty) * m),
         open_cost       |-> moved.cost,
         realized_pnl    |-> p.realized_pnl + moved.realized,
         fees            |-> p.fees + f.fee]

(* Mutant: the magnitude of the new quantity is taken unchecked.           *)
OverflowsButAbs(p, f, m) ==
    LET moved == Moved(p, f, m)
        after == After(p, f, m)
    IN  \/ \E x \in moved.narrow : ~Fits64(x)
        \/ \E x \in moved.wide \cup {after.realized_pnl, after.fees} : ~Fits128(x)
        \/ after.net_qty # 0 /\ ~Fits64(after.avg_entry_price)

Overflows(p, f, m) ==
    LET moved == Moved(p, f, m)
        after == After(p, f, m)
        unit  == Abs(after.net_qty) * m
    IN  \/ \E x \in moved.narrow : ~Fits64(x)
        \/ \E x \in moved.wide \cup {after.realized_pnl, after.fees} : ~Fits128(x)
        \/ /\ after.net_qty # 0
           /\ \/ ~Fits64(Abs(after.net_qty)) \/ ~Fits128(unit)
              \/ moved.cost < 0 \/ ~Fits128(2 * (moved.cost % unit))
              \/ ~Fits64(after.avg_entry_price)

TransitionError(p, f, m) ==
    IF ~ValidPosition(p) THEN "InvalidPosition"
    ELSE IF Overflows(p, f, m) THEN "ArithmeticOverflow"
    ELSE IF ~ValidPosition(After(p, f, m)) THEN "InvalidPosition"
    ELSE "Ok"

-----------------------------------------------------------------------------
(* The books: a position for each key that has traded. *)

NoBooks == [k \in {} |-> Flat]

HeldIn(books, k) == IF k \in DOMAIN books THEN books[k] ELSE Flat

(* apply's answer to a fill, and the books it leaves if that is "Ok". *)
Answer(books, f) ==
    IF Validated(f) THEN TransitionError(HeldIn(books, PositionKey(f)), f, Scale(f))
                    ELSE FillVerdict(f)

Booked(books, f) ==
    [k \in DOMAIN books \cup {PositionKey(f)} |->
        IF k = PositionKey(f) THEN After(HeldIn(books, k), f, Scale(f)) ELSE books[k]]

=============================================================================
