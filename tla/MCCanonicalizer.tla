-------------------------- MODULE MCCanonicalizer --------------------------
(***************************************************************************)
(* A finite instance of Canonicalizer.  A dollar is 1000 micro units, a    *)
(* unit of quantity is 10, so a price has three decimals and a quantity    *)
(* one.                                                                    *)
(***************************************************************************)
EXTENDS Canonicalizer

Candidate(venue, kind, symbol, instrument, tick, lot) ==
    [venue |-> venue, symbol |-> symbol, instrument |-> instrument,
     kind |-> kind, tick_micro |-> tick, lot_qty_e9 |-> lot,
     micro_per_tick_lot |-> 0]

(* Two symbols of one perp, one with the same scale but another tick, a    *)
(* perp and a binary that claim each other's instrument, a symbol listed   *)
(* on both venues, and specs that are wrong in every way.                  *)
MCCandidateSpec ==
    {Candidate("Hl", "Perp", "btc", "BTC", 5, 4),
     Candidate("Hl", "Perp", "xbt", "BTC", 5, 4),
     Candidate("Hl", "Perp", "mbtc", "BTC", 4, 5),
     Candidate("Hl", "Perp", "big", "CUT", 10, 10),
     Candidate("Pm", "Binary", "cut", "CUT", 10, 10),
     Candidate("Pm", "Binary", "btc", "HALF", 5, 10),
     Candidate("Pm", "Binary", "coarse", "COARSE", 20, 10),
     Candidate("Pm", "Perp", "mixed", "MIXED", 10, 10),
     Candidate("Hl", "Perp", "frac", "FRAC", 1, 1),
     Candidate("Hl", "Perp", "none", "NONE", 0, 10),
     Candidate("Hl", "Perp", "huge", "HUGE", 1000000, 1000)}

Text(neg, int, frac) == [neg |-> neg, int |-> int, frac |-> frac]

Plus(int, frac) == Text(FALSE, int, frac)

Dash == 10      \* a character that is not a digit

(* 0.005, .01, 1, 1.50, 1.500 and a zero too many, off every tick, finer   *)
(* than the scale, a tick too large for i64, too large to parse, zero,     *)
(* negative, empty, and not a number.                                      *)
Prices ==
    {Plus(<<0>>, <<0, 0, 5>>), Plus(<<>>, <<0, 1>>), Plus(<<1>>, <<>>),
     Plus(<<1>>, <<5, 0>>), Plus(<<1>>, <<5, 0, 0, 0>>),
     Plus(<<0>>, <<0, 0, 3>>), Plus(<<1>>, <<0, 0, 0, 5>>),
     Plus(<<2>>, <<0, 0, 5>>), Plus(<<9, 9, 9, 9, 9, 9>>, <<>>),
     Plus(<<0>>, <<0>>), Text(TRUE, <<1>>, <<>>), Plus(<<>>, <<>>),
     Plus(<<1>>, <<Dash, 5>>)}

Sizes ==
    {Plus(<<2>>, <<>>), Plus(<<0>>, <<8>>), Plus(<<2>>, <<0, 0>>),
     Plus(<<0>>, <<2>>), Plus(<<0>>, <<8, 1>>), Plus(<<0>>, <<>>),
     Text(TRUE, <<2>>, <<>>), Plus(<<9, 9, 9>>, <<6>>), Plus(<<Dash>>, <<>>)}

Fees ==
    {Plus(<<0>>, <<0, 0, 1>>), Text(TRUE, <<0>>, <<>>),
     Text(TRUE, <<1>>, <<>>), Plus(<<>>, <<>>)}

Hl(symbol, side, px, qty, fee) ==
    [symbol |-> symbol, side |-> side, px |-> px, qty |-> qty, fee |-> fee]

MCHlEvent ==
    {Hl("btc", side, px, qty, fee) :
        side \in {"buy", "hold"}, px \in Prices, qty \in Sizes, fee \in Fees}
    \cup {Hl(symbol, "sell", px, qty, Plus(<<0>>, <<>>)) :
            symbol \in {"xbt", "mbtc", "doge"}, px \in Prices, qty \in Sizes}

(* A cent is 10 micro units of 500 grains.  Around 0, 1 and 2, the middle, *)
(* 99, 100 and 101 cents: exact, one grain off, within tolerance of dear   *)
(* prices only, outside it, and half a cent off.                           *)
MCPrice ==
    {p \in {cent * 5000 + off : cent \in {0, 1, 2, 50, 99, 100, 101},
                                off \in {-1, 0, 1, 60, 200, 2500}} : p > 0}
    \cup {0, NotFinite}

Pm(market, outcome_, action, price, size, fee_bps) ==
    [market |-> market, outcome |-> outcome_, action |-> action,
     price |-> price, size |-> size, fee_bps |-> fee_bps]

MCPmEvent ==
    {Pm(market, outcome_, action, price, 3, fee_bps) :
        market \in {"cut", "btc", "coarse"}, outcome_ \in {"YES", "NO"},
        action \in {"BUY", "SELL"}, price \in MCPrice, fee_bps \in {7, 250}}
    \cup {Pm("cut", "MAYBE", "BUY", 250000, 1, 0), Pm("cut", "YES", "HOLD", 250000, 1, 0),
          Pm("cut", "YES", "BUY", 250000, 0, 0), Pm("cut", "YES", "BUY", 250000, 1, -1),
          Pm("cut", "YES", "BUY", 250000, 30, 900), Pm("none", "YES", "BUY", 250000, 1, 0)}

=============================================================================
