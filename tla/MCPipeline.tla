----------------------------- MODULE MCPipeline ----------------------------
(***************************************************************************)
(* A finite instance of Pipeline: small files of the kinds the fixtures    *)
(* hold, in every order, and a file of matched trades.                     *)
(***************************************************************************)
EXTENDS Pipeline

Event(v, id, n, wire) == [venue |-> v, event_id |-> id, seq |-> n, wire |-> wire]

Trade(account, side, price, qty, fee) ==
    [account |-> account, side |-> side, price |-> price, qty |-> qty, fee |-> fee]

(* Hl: a buy, its reformatted copy, a partial close that rounds, a         *)
(* reversal one number later, with a conflicting copy, and an event that   *)
(* is rejected.  Pm: ids of Hl's again, at the ends of the band.           *)
Buy      == Event(0, "a", 1, "plain")
BuyAgain == Event(0, "a", 1, "padded")
Add      == Event(0, "b", 2, "plain")
Reduce   == Event(0, "c", 3, "plain")
Turn     == Event(0, "d", 5, "plain")
Conflict == Event(0, "d", 5, "other")
Unknown  == Event(0, "e", 6, "bad")
Low      == Event(1, "a", 1, "plain")
High     == Event(1, "b", 2, "plain")

(* Two rounds' worth of one account, too much for an i64.                  *)
Big      == Event(0, "h", 8, "plain")
Bigger   == Event(0, "i", 9, "plain")

Matched  == <<Event(0, "m1", 11, "plain"), Event(0, "m2", 12, "plain"),
              Event(0, "m3", 13, "plain"), Event(0, "m4", 14, "plain")>>

MCTrade ==
    Buy       :> Trade("A", "Buy", 10, 2, 1)  @@ BuyAgain :> Trade("A", "Buy", 10, 2, 1)
    @@ Add    :> Trade("A", "Buy", 11, 1, 2)  @@ Reduce   :> Trade("A", "Sell", 13, 1, 1)
    @@ Turn    :> Trade("A", "Sell", 12, 5, 1) @@ Conflict :> Trade("A", "Sell", 12, 4, 1)
    @@ Low    :> Trade("A", "Buy", 1, 3, 0)   @@ High     :> Trade("B", "Sell", 99, 3, 2)
    @@ Big    :> Trade("A", "Buy", 10, 150, 0) @@ Bigger  :> Trade("A", "Buy", 11, 150, 0)
    @@ Matched[1] :> Trade("A", "Buy", 10, 3, 1) @@ Matched[2] :> Trade("B", "Sell", 10, 3, 2)
    @@ Matched[3] :> Trade("A", "Sell", 12, 3, 3) @@ Matched[4] :> Trade("B", "Buy", 12, 3, 4)

MCRawEvent == DOMAIN MCTrade \cup {Unknown}

Fill_(e) ==
    [venue |-> e.venue, event_id |-> e.event_id, seq |-> e.seq,
     symbol |-> e.venue, instrument |-> e.venue,
     kind |-> IF e.venue = 0 THEN "Perp" ELSE "Binary"] @@ MCTrade[e]

MCCanon == [e \in MCRawEvent |-> IF e = Unknown THEN Rejected ELSE Fill_(e)]

MCFill == {Fill_(e) : e \in DOMAIN MCTrade}

MCSpecs ==
    <<0, 0>> :> [venue |-> 0, symbol |-> 0, instrument |-> 0, kind |-> "Perp",
                 tick_micro |-> 5, lot_qty_e9 |-> 4, micro_per_tick_lot |-> 2]
    @@
    <<1, 1>> :> [venue |-> 1, symbol |-> 1, instrument |-> 1, kind |-> "Binary",
                 tick_micro |-> 10, lot_qty_e9 |-> 10, micro_per_tick_lot |-> 10]

(* The orders of a list of texts. *)
Orders(texts) ==
    {[i \in DOMAIN texts |-> texts[p[i]]] : p \in Permutations(DOMAIN texts)}

PmFiles == {<<Low, High>>, <<High, Blank, Buy, Low, Malformed>>}

MCInput ==
    {[files |-> (0 :> hl @@ 1 :> pm), sorted |-> sorted] :
        hl \in Orders(<<Buy, BuyAgain, Turn, Conflict>>)
               \cup Orders(<<Add, Malformed, Reduce, Buy>>)
               \cup Orders(<<Unknown, Turn, Buy, Add>>),
        pm \in PmFiles, sorted \in BOOLEAN}
    \cup
    {[files |-> (0 :> Matched @@ 1 :> << >>), sorted |-> TRUE],
     [files |-> (0 :> <<Big, Bigger>> @@ 1 :> <<Low>>), sorted |-> FALSE]}

(* What the reader can make of a text. *)
MCRawLine == {ReadLine(v, text) : v \in {0, 1}, text \in Text}

MCStamp == 1 .. MaxArrivals

=============================================================================
