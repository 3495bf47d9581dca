-------------------------- MODULE MCPositionKeeper -------------------------
(***************************************************************************)
(* A finite instance of PositionKeeper.  A perp whose scale is 2 and a     *)
(* binary of 200 ticks to the dollar, so that its legal band is 2..198;    *)
(* fills at the edges of the band and beyond, sizes that round, reverse    *)
(* and overflow; and one fill for every way validation can refuse.         *)
(***************************************************************************)
EXTENDS PositionKeeper

Perp   == [venue |-> 0, symbol |-> "btc", kind |-> "Perp", instrument |-> "BTC",
           tick_micro |-> 1, lot_qty_e9 |-> 1, micro_per_tick_lot |-> 2]
Binary == [venue |-> 1, symbol |-> "cut", kind |-> "Binary", instrument |-> "CUT",
           tick_micro |-> 1, lot_qty_e9 |-> 1, micro_per_tick_lot |-> 1]

MCSpecs == [s \in {<<0, "btc">>, <<1, "cut">>} |->
               IF s[1] = 0 THEN Perp ELSE Binary]

Trade(spec, side, price, qty) ==
    [account |-> "x", venue |-> spec.venue, symbol |-> spec.symbol,
     kind |-> spec.kind, instrument |-> spec.instrument,
     side |-> side, price |-> price, qty |-> qty, fee |-> 1]

Side == {"Buy", "Sell"}

PerpFills == {Trade(Perp, s, p, q) : s \in Side, p \in {1, 5}, q \in {1, 2, 3}}

BinaryFills ==
    {Trade(Binary, s, p, q) : s \in Side, p \in {2, 198, 199}, q \in {1, 3}}

(* i64 here ends at 200. *)
HugeFills == {Trade(Perp, s, 1, q) : s \in Side, q \in {199, 200}}

InvalidFills ==
    {[Trade(Perp, "Buy", 1, 1) EXCEPT !.symbol = "eth"],
     [Trade(Perp, "Buy", 1, 1) EXCEPT !.instrument = "CUT"],
     [Trade(Perp, "Buy", 1, 1) EXCEPT !.price = 0],
     [Trade(Perp, "Buy", 1, 1) EXCEPT !.qty = 0],
     [Trade(Perp, "Buy", 1, 1) EXCEPT !.fee = -1]}

MCFillInput == PerpFills \cup BinaryFills \cup HugeFills \cup InvalidFills

=============================================================================
