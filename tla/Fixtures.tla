------------------------------ MODULE Fixtures -----------------------------
(***************************************************************************)
(* The fixture generator of crates/types/src/fixtures.rs, one file per     *)
(* behaviour: a stream of either venue with disorder, repetitions and four *)
(* planted events at its end, or the matched trades of two market makers.  *)
(* The standard registry is built first, since that is what every user of  *)
(* the fixtures canonicalizes them against.                                *)
(*                                                                         *)
(* The generator's random draws are free choices.  Of an event the stream  *)
(* keeps its number and id; its text is in `latest` when it is pushed,     *)
(* next to what the generator meant by it.  The time stamps and, in the    *)
(* venues' streams, the accounts are left out.                             *)
(***************************************************************************)
EXTENDS Canonicalizer

CONSTANTS
    Lines,              \* HL_LINES and PM_LINES: file -> length
    SwapEvery,          \* file -> every how many events two are swapped
    DupEvery,           \* file -> every how many events one is repeated
    Rounds,             \* rounds of matched trades: 25
    BtcTicks, EthTicks, PmTicks,        \* the prices that can be drawn
    Lots, Fees, Sizes,                  \* and the sizes and fees
    MatchedBase,        \* first price of the matched trades: 133_000
    PoisonDollars       \* digits of the planted Hl prices: 67412

Stream == {"hl", "pm"}

(* Room for the planted events, and no event is swapped twice.  A swap     *)
(* right after a repetition, or at one, would exchange an event with a     *)
(* copy of its neighbour and plant no disorder.                            *)
ASSUME CadenceAssumption ==
    \A f \in Stream :
        /\ Lines[f] \in Nat /\ Lines[f] >= 4
        /\ SwapEvery[f] \in Nat /\ SwapEvery[f] >= 2 /\ DupEvery[f] \in Nat \ {0}
        /\ \A n \in 2 .. Lines[f] - 4 :
              n % SwapEvery[f] = 0 => n % DupEvery[f] # 0 /\ (n - 1) % DupEvery[f] # 0

(* The price of the repetition planted under one id with two sizes.        *)
PoisonTicks == 2 * Horner(PoisonDollars) + 1

(* Prices, sizes and fees are positive and small: their texts have at most *)
(* nine digits, and in micro-dollars and e9 units they fit the integers.   *)
ASSUME DrawAssumption ==
    /\ PriceDigits = 6 /\ QtyDigits >= 4
    /\ Rounds \in Nat /\ MatchedBase \in Nat \ {0}
    /\ PoisonDollars \in Seq(Digit) /\ PoisonDollars # << >>
    /\ \A ticks \in BtcTicks \cup EthTicks \cup {1, PoisonTicks}
                   \cup (MatchedBase .. MatchedBase + 4 * Rounds + 6) :
          /\ ticks \in Nat \ {0} /\ ticks <= I64Max
          /\ 5 * ticks < Tens[9] /\ 500000 * ticks <= I128Max
    /\ \A lots \in Lots \cup 1 .. 40 :
          /\ lots \in Nat \ {0} /\ lots <= I64Max
          /\ lots < Tens[9] /\ lots * Tens[QtyDigits - 3] <= I128Max
    /\ \A micro \in Fees \cup 1 .. 4 * Rounds + 300 :
          micro \in Nat /\ micro < Tens[9] /\ micro <= I128Max
    /\ \A ticks \in PmTicks : ticks \in Nat /\ 100 <= ticks /\ ticks <= 9900
    /\ 10000 <= I64Max
    /\ \A size \in Sizes \cup 1 .. 5 :
          /\ size \in Nat \ {0} /\ size <= I64Max
          /\ 9900 * size * 100 * 30 + 5000 <= I128Max

VARIABLES
    file,               \* which generator runs
    events,             \* what it has pushed
    last_seq, ordinal,
    planted,            \* how many of the four last events are pushed
    latest,             \* the event last pushed, and its meaning
    sum_fees            \* of the matched trades

gvars == <<file, events, last_seq, ordinal, planted, latest, sum_fees>>

-----------------------------------------------------------------------------
(* Registry::standard. *)

Listed(venue, kind, symbol, tick, lot) ==
    [venue |-> venue, symbol |-> symbol, instrument |-> symbol, kind |-> kind,
     tick_micro |-> tick, lot_qty_e9 |-> lot, micro_per_tick_lot |-> 0]

StandardSpecs ==
    <<Listed("Hl", "Perp", "BTC-PERP", Dollar \div 2, Whole \div 10000),
      Listed("Hl", "Perp", "ETH-PERP", Dollar \div 20, Whole \div 1000),
      Listed("Pm", "Binary", "FED-CUT-SEP", Dollar \div 10000, Whole),
      Listed("Pm", "Binary", "CPI-ABOVE-AUG", Dollar \div 10000, Whole)>>

Taken == Cardinality(DOMAIN by_symbol)

(* The specs are taken in the order listed. *)
BuildStandard ==
    /\ verdict = "Open"
    /\ IF Taken < Len(StandardSpecs)
       THEN Add(StandardSpecs[Taken + 1]) \/ Refuse(StandardSpecs[Taken + 1])
       ELSE Finish
    /\ UNCHANGED <<event, outcome, gvars>>

-----------------------------------------------------------------------------
(* Numbers as text. *)

DigitsOf(n, width) == [i \in 1 .. width |-> (n \div Tens[width - i]) % 10]

WidthOf(n) == CHOOSE w \in 1 .. 10 : (w = 1 \/ n >= Tens[w - 1]) /\ n < Tens[w]

(* Mutant: the decimals are not padded.                                    *)
FormatScaledBare(value, decimals) ==
    LET whole    == value \div Tens[decimals]
        fraction == value % Tens[decimals]
    IN  [neg  |-> FALSE,
         int  |-> DigitsOf(whole, WidthOf(whole)),
         frac |-> DigitsOf(fraction, WidthOf(fraction))]

(* Whole part and decimals, the latter padded with zeros on the left. *)
FormatScaled(value, decimals) ==
    LET whole == value \div Tens[decimals]
    IN  [neg  |-> FALSE,
         int  |-> DigitsOf(whole, WidthOf(whole)),
         frac |-> DigitsOf(value % Tens[decimals], decimals)]

TicksToPx(symbol, ticks) ==
    FormatScaled(5 * ticks, IF symbol = "BTC-PERP" THEN 1 ELSE 2)

LotsToQty(symbol, lots) == FormatScaled(lots, IF symbol = "BTC-PERP" THEN 4 ELSE 3)

MicroToFee(micro) == FormatScaled(micro, PriceDigits)

-----------------------------------------------------------------------------
(* The events.  What one is meant to become goes with it: ticks and size   *)
(* as drawn, or the reason it is to be rejected for.                       *)

HlOrder(symbol, side, ticks, lots, fee) ==
    [event |-> [symbol |-> symbol, side |-> side,
                px     |-> TicksToPx(symbol, ticks),
                qty    |-> LotsToQty(symbol, lots),
                fee    |-> MicroToFee(fee)],
     error |-> "Ok", ticks |-> ticks, qty |-> lots, fee |-> fee]

PmOrder(market, outcome_, action, ticks, size, fee_bps) ==
    [event |-> [market |-> market, outcome |-> outcome_, action |-> action,
                price  |-> ticks * ((Grain * Dollar) \div 10000),
                size   |-> size, fee_bps |-> fee_bps],
     error |-> "Ok", ticks |-> ticks, qty |-> size, fee |-> fee_bps]

HlDraws ==
    {HlOrder("BTC-PERP", side, ticks, lots, fee) :
        side \in {"buy", "sell"}, ticks \in BtcTicks, lots \in Lots, fee \in Fees}
    \cup
    {HlOrder("ETH-PERP", side, ticks, lots, fee) :
        side \in {"buy", "sell"}, ticks \in EthTicks, lots \in Lots, fee \in Fees}

PmDraws ==
    {PmOrder(market, outcome_, action, ticks, size, fee_bps) :
        market \in {"FED-CUT-SEP", "CPI-ABOVE-AUG"}, outcome_ \in {"YES", "NO"},
        action \in {"BUY", "SELL"}, ticks \in PmTicks, size \in Sizes,
        fee_bps \in {10, 20, 30}}

Draws == [hl |-> HlDraws, pm |-> PmDraws]

(* An unknown symbol, a bad price, and one id with two sizes. *)
PlantedHl ==
    <<[HlOrder("BTC-PERP", "buy", 1, 10000, 100) EXCEPT
          !.event.symbol = "DOGE-PERP", !.error = "UnknownSymbol"],
      [HlOrder("BTC-PERP", "sell", 1, 30, 200) EXCEPT
          !.event.px = [neg |-> FALSE, int |-> PoisonDollars, frac |-> <<3, 0>>],
          !.error = "OffTick"],
      HlOrder("BTC-PERP", "buy", PoisonTicks, 20, 300),
      HlOrder("BTC-PERP", "buy", PoisonTicks, 40, 300)>>

PlantedPm ==
    <<[PmOrder("UNKNOWN-MKT", "YES", "BUY", 5000, 3, 10) EXCEPT
          !.error = "UnknownSymbol"],
      [PmOrder("FED-CUT-SEP", "YES", "SELL", 50, 4, 20) EXCEPT
          !.error = "PriceOutOfRange"],
      PmOrder("CPI-ABOVE-AUG", "NO", "BUY", 3000, 2, 30),
      PmOrder("CPI-ABOVE-AUG", "NO", "BUY", 3000, 5, 30)>>

Planted == [hl |-> PlantedHl, pm |-> PlantedPm]

(* Mutant: the size is drawn per leg.                                      *)
MatchedLegUnequal(n) ==
    LET round == n \div 4
        leg   == n % 4
        open  == MatchedBase + 4 * round
        close == open + 2 + (round % 5)
    IN  [order   |-> HlOrder("BTC-PERP", IF leg \in {0, 3} THEN "buy" ELSE "sell",
                             IF leg \in {0, 1} THEN open ELSE close,
                             10 + (n % 21), 100 + 4 * round + leg),
         account |-> IF leg \in {0, 2} THEN "mm-A" ELSE "mm-B"]

(* Leg n of the matched trades: A buys from B, and later sells back.       *)
MatchedLeg(n) ==
    LET round == n \div 4
        leg   == n % 4
        open  == MatchedBase + 4 * round
        close == open + 2 + (round % 5)
    IN  [order   |-> HlOrder("BTC-PERP", IF leg \in {0, 3} THEN "buy" ELSE "sell",
                             IF leg \in {0, 1} THEN open ELSE close,
                             10 + (round % 21), 100 + 4 * round + leg),
         account |-> IF leg \in {0, 2} THEN "mm-A" ELSE "mm-B"]

-----------------------------------------------------------------------------
(* The loops. *)

Swapped(s) ==
    IF Len(s) < 2 THEN s
    ELSE [s EXCEPT ![Len(s) - 1] = s[Len(s)], ![Len(s)] = s[Len(s) - 1]]

(* Mutant: the swap is made before the event is pushed.                    *)
WithDefectsSwapsEarly(s, e, n) ==
    LET pushed == Append(IF n % SwapEvery[file] = 0 THEN Swapped(s) ELSE s, e)
    IN  IF n % DupEvery[file] = 0 /\ Len(pushed) < Lines[file] - 4
        THEN Append(pushed, e) ELSE pushed

(* Event e, the n-th drawn, joins s, with the defects due at n. *)
WithDefects(s, e, n) ==
    LET pushed  == Append(s, e)
        swapped == IF n % SwapEvery[file] = 0 THEN Swapped(pushed) ELSE pushed
    IN  IF n % DupEvery[file] = 0 /\ Len(swapped) < Lines[file] - 4
        THEN Append(swapped, e) ELSE swapped

Steps == 1 .. 2

GeneratorInit ==
    /\ Init
    /\ file \in Stream \cup {"matched"}
    /\ events = << >>
    /\ last_seq = [hl |-> 999, pm |-> 87999, matched |-> 199999][file]
    /\ ordinal = 0
    /\ planted = 0
    /\ latest = << >>
    /\ sum_fees = 0

Running == verdict = "Ok" /\ UNCHANGED <<rvars, event, outcome, file>>

DrawEvent(order) ==
    /\ Running
    /\ file \in Stream
    /\ planted = 0 /\ Len(events) < Lines[file] - 4
    /\ ordinal' = ordinal + 1
    /\ \E step \in Steps : last_seq' = last_seq + step
    /\ events' = WithDefects(events, [seq |-> last_seq', id |-> ordinal'], ordinal')
    /\ latest' = order
    /\ UNCHANGED <<planted, sum_fees>>

(* The fourth is the third with another size. *)
PlantEvent ==
    /\ Running
    /\ file \in Stream
    /\ Len(events) >= Lines[file] - 4 /\ planted < 4
    /\ planted' = planted + 1
    /\ last_seq' = IF planted = 3 THEN last_seq ELSE last_seq + 1
    /\ events' = Append(events, [seq |-> last_seq',
                                 id  |-> <<-1, -2, -3, -3>>[planted']])
    /\ latest' = Planted[file][planted']
    /\ UNCHANGED <<ordinal, sum_fees>>

MatchTrade ==
    /\ Running
    /\ file = "matched"
    /\ ordinal < 4 * Rounds
    /\ ordinal' = ordinal + 1
    /\ last_seq' = last_seq + 1
    /\ events' = Append(events, [seq |-> last_seq', id |-> ordinal])
    /\ latest' = MatchedLeg(ordinal).order
    /\ sum_fees' = sum_fees + MatchedLeg(ordinal).order.fee
    /\ UNCHANGED planted

(* The generator returns. *)
Return ==
    /\ IF file = "matched" THEN ordinal = 4 * Rounds ELSE planted = 4
    /\ UNCHANGED <<vars, gvars>>

GeneratorNext ==
    \/ BuildStandard
    \/ file \in Stream /\ \E order \in Draws[file] : DrawEvent(order)
    \/ PlantEvent
    \/ MatchTrade
    \/ Return

GeneratorSpec == GeneratorInit /\ [][GeneratorNext]_<<vars, gvars>>

-----------------------------------------------------------------------------
(* Properties. *)

Canonical(order) ==
    IF "px" \in DOMAIN order.event THEN CanonicalizeHl(order.event)
                                   ELSE CanonicalizePm(order.event)

(* What is written is what was drawn: each event, formatted and then       *)
(* canonicalized, gives back its ticks and its size (a NO price from the   *)
(* other end) and, on Hl, its fee; each planted event is rejected for      *)
(* the reason the manifest records (fixtures.rs:53-76, 117-133, 204-216,   *)
(* 310-336; convert.rs:20-74, 109-236).                                    *)
EventsMeanWhatWasDrawn ==
    latest # << >> =>
        LET result == Canonical(latest)
        IN  /\ result.error = latest.error
            /\ result.error = "Ok" =>
                  /\ result.fill.qty = latest.qty
                  /\ IF "px" \in DOMAIN latest.event
                     THEN result.fill.price = latest.ticks /\ result.fill.fee = latest.fee
                     ELSE result.fill.price = IF latest.event.outcome = "YES"
                                              THEN latest.ticks ELSE 10000 - latest.ticks

(* First seen after a later number, in file order. *)
Overtaken ==
    {e \in Range(events) : \E i \in DOMAIN events :
        events[i].seq > e.seq /\ \A j \in DOMAIN events : events[j] = e => i < j}

(* Swaps and repetitions leave the stream what its users rely on: a number *)
(* belongs to one id and an id to one number, so that sorted by number it  *)
(* can be delivered without a walk-back; in file order the events          *)
(* overtaken are exactly those just before a multiple of SwapEvery, no     *)
(* repetition hiding a swap or adding disorder of its own; and no          *)
(* repetition takes the place of a planted event                           *)
(* (fixtures.rs:17-20, 107-111, 135-141, 168-185; types/tests/ingest.rs:   *)
(* 91-94; the raw order test of ingester/tests/pipeline.rs:129-141).       *)
StreamIsAsPlanted ==
    /\ \A i, j \in DOMAIN events :
          (events[i].seq = events[j].seq) <=> (events[i].id = events[j].id)
    /\ file \in Stream =>
          {e.id : e \in Overtaken}
              = {n - 1 : n \in {m \in 2 .. ordinal : m % SwapEvery[file] = 0}}
    /\ planted = 4 => Len(events) = Lines[file]

(* The fill a leg becomes, and a quantity of it seen from the buyer. *)
LegFill(n) == Canonical(MatchedLeg(n).order).fill

Signed(n, x) == IF LegFill(n).side = "Buy" THEN x ELSE -x

Legs == 0 .. ordinal - 1

(* The sum of a quantity over the first legs, taken in their order. *)
SumOver(f, legs) ==
    LET sum[n \in 0 .. legs] == IF n = 0 THEN 0 ELSE sum[n - 1] + f[n - 1]
    IN  sum[legs]

OfAccount(a, f) == [n \in Legs |-> IF MatchedLeg(n).account = a THEN f[n] ELSE 0]

(* After every round of matched trades both makers are flat, what one paid *)
(* the other received, and sum_fees is what the canonical fills are        *)
(* charged (fixtures.rs:275-308; the conserved sums of                     *)
(* ingester/tests/pipeline.rs:143-168).                                    *)
MatchedConserves ==
    (file = "matched" /\ verdict = "Ok" /\ ordinal % 4 = 0) =>
        LET lots    == [n \in Legs |-> Signed(n, LegFill(n).qty)]
            paid    == [n \in Legs |-> Signed(n, LegFill(n).price * LegFill(n).qty)]
            Held(a) == SumOver(OfAccount(a, lots), ordinal)
            Paid(a) == SumOver(OfAccount(a, paid), ordinal)
        IN  /\ Held("mm-A") = 0 /\ Held("mm-B") = 0
            /\ Paid("mm-A") + Paid("mm-B") = 0
            /\ sum_fees = SumOver([n \in Legs |-> LegFill(n).fee], ordinal)

=============================================================================
