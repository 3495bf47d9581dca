--------------------------- MODULE Canonicalizer ---------------------------
(***************************************************************************)
(* Canonicalization (crates/types/src/convert.rs): an event of either      *)
(* venue becomes a fill in integer ticks, lots and micro-dollars, or is    *)
(* rejected with the first reason found.  It runs against a registry that  *)
(* construction has finished and nothing changes afterwards.               *)
(*                                                                         *)
(* An Hl decimal is what is left of its text once it is trimmed and its    *)
(* sign and its dot are split off: two sequences of characters, of which   *)
(* 0 .. 9 are digits.  A Pm price is a float; here it is an integer number *)
(* of grains, so fine that rounding is told from tolerance, or NotFinite,  *)
(* which stands for every price whose scaled value is not finite.  The     *)
(* fields that are only copied into the fill are left out.                 *)
(***************************************************************************)
EXTENDS Registry, SequencesExt

CONSTANTS
    HlEvent, PmEvent,
    PriceDigits,        \* decimals of a micro-dollar: 6
    QtyDigits,          \* decimals of an e9 quantity: 9
    Grain,              \* grains of price to a micro-dollar
    Precision,          \* 1 / (8 * f64::EPSILON), the relative tolerance
    NotFinite

(* 10 ^ n. *)
Tens[n \in Nat] == IF n = 0 THEN 1 ELSE 10 * Tens[n - 1]

ASSUME ScaleAssumption ==
    /\ PriceDigits \in Nat /\ Dollar = Tens[PriceDigits]
    /\ QtyDigits \in Nat /\ Whole = Tens[QtyDigits]
    /\ Grain \in Nat \ {0} /\ Precision \in Nat \ {0}
    /\ NotFinite \notin Int

ASSUME EventAssumption ==
    /\ \A e \in HlEvent : DOMAIN e = {"symbol", "side", "px", "qty", "fee"}
    /\ \A e \in PmEvent :
          DOMAIN e = {"market", "outcome", "action", "price", "size", "fee_bps"}

VARIABLES
    event,              \* the event canonicalized, << >> before
    outcome             \* its fill, or the reason it was rejected for

NoFill(reason) == [error |-> reason]

-----------------------------------------------------------------------------
(* parse_fixed. *)

Digit == 0 .. 9

Horner(digits) ==
    LET value[i \in 0 .. Len(digits)] ==
            IF i = 0 THEN 0 ELSE 10 * value[i - 1] + digits[i]
    IN  value[Len(digits)]

Magnitude(t, scale) ==
    LET kept == SubSeq(t.frac, 1, IF Len(t.frac) < scale THEN Len(t.frac) ELSE scale)
    IN  Horner(t.int \o kept) * Tens[scale - Len(kept)]

(* Mutant: decimals beyond the scale are cut off.                          *)
ParsesLoosely(t, scale) ==
    /\ t.int \o t.frac # << >>
    /\ \A i \in DOMAIN t.int : t.int[i] \in Digit
    /\ \A i \in DOMAIN t.frac : t.frac[i] \in Digit
    /\ Fits128(Magnitude(t, scale))

(* Only zeros may follow the last decimal kept.  The loop's value never    *)
(* shrinks, so it overflows on the way exactly if its end does not fit.    *)
Parses(t, scale) ==
    /\ t.int \o t.frac # << >>
    /\ \A i \in DOMAIN t.int : t.int[i] \in Digit
    /\ \A i \in DOMAIN t.frac :
          t.frac[i] \in Digit /\ (i > scale => t.frac[i] = 0)
    /\ Fits128(Magnitude(t, scale))

ParsedValue(t, scale) == IF t.neg THEN -Magnitude(t, scale) ELSE Magnitude(t, scale)

(* Texts are sequences of character codes. *)
ASSUME TextAssumption ==
    \A e \in HlEvent : \A t \in {e.px, e.qty, e.fee} :
        t.neg \in BOOLEAN /\ t.int \in Seq(Nat) /\ t.frac \in Seq(Nat)

ASSUME PmAssumption ==
    \A e \in PmEvent :
        /\ e.price = NotFinite \/ e.price \in Int
        /\ e.size \in Int /\ Fits64(e.size) /\ e.fee_bps \in Int

-----------------------------------------------------------------------------
(* Hl. *)

PxMicro(e)  == ParsedValue(e.px, PriceDigits)
QtyE9(e)    == ParsedValue(e.qty, QtyDigits)
FeeMicro(e) == ParsedValue(e.fee, PriceDigits)

HlError(e) ==
    LET spec == by_symbol[<<"Hl", e.symbol>>]
    IN
    IF <<"Hl", e.symbol>> \notin DOMAIN by_symbol       THEN "UnknownSymbol"
    ELSE IF spec.venue # "Hl"                           THEN "UnknownSymbol"
    ELSE IF ~PositiveSpec(spec)                         THEN "InvalidFill"
    ELSE IF e.side \notin {"buy", "sell"}               THEN "UnknownSide"
    ELSE IF ~Parses(e.px, PriceDigits) \/ PxMicro(e) <= 0
                                                        THEN "MalformedDecimal"
    ELSE IF PxMicro(e) % spec.tick_micro # 0            THEN "OffTick"
    ELSE IF ~Fits64(PxMicro(e) \div spec.tick_micro)    THEN "ArithmeticOverflow"
    ELSE IF ~Parses(e.qty, QtyDigits)                   THEN "MalformedDecimal"
    ELSE IF QtyE9(e) <= 0                               THEN "InvalidQuantity"
    ELSE IF QtyE9(e) % spec.lot_qty_e9 # 0              THEN "OffLot"
    ELSE IF ~Fits64(QtyE9(e) \div spec.lot_qty_e9)      THEN "ArithmeticOverflow"
    ELSE IF ~Parses(e.fee, PriceDigits) \/ FeeMicro(e) < 0
                                                        THEN "MalformedDecimal"
    ELSE "Ok"

HlFill(e) ==
    LET spec == by_symbol[<<"Hl", e.symbol>>]
    IN  [venue      |-> "Hl",
         symbol     |-> e.symbol,
         instrument |-> spec.instrument,
         kind       |-> spec.kind,
         side       |-> IF e.side = "buy" THEN "Buy" ELSE "Sell",
         price      |-> PxMicro(e) \div spec.tick_micro,
         qty        |-> QtyE9(e) \div spec.lot_qty_e9,
         fee        |-> FeeMicro(e)]

CanonicalizeHl(e) ==
    IF HlError(e) # "Ok" THEN NoFill(HlError(e))
                         ELSE [error |-> "Ok", fill |-> HlFill(e)]

-----------------------------------------------------------------------------
(* Pm. *)

Flip(side) == IF side = "Buy" THEN "Sell" ELSE "Buy"

GrainsPerTick(spec) == Grain * spec.tick_micro

(* To the nearest tick, half a tick upwards; prices here are positive. *)
RawTicks(e, spec) ==
    (2 * e.price + GrainsPerTick(spec)) \div (2 * GrainsPerTick(spec))

OffTick(e, spec) ==
    LET unit == GrainsPerTick(spec)
        off  == e.price - RawTicks(e, spec) * unit
    IN  Precision * (IF off < 0 THEN -off ELSE off)
            > (IF e.price > unit THEN e.price ELSE unit)

PriceError(e, spec) ==
    IF e.price = NotFinite                              THEN "MalformedDecimal"
    ELSE IF e.price <= 0 \/ spec.tick_micro <= 0        THEN "MalformedDecimal"
    ELSE IF OffTick(e, spec)                            THEN "OffTick"
    ELSE IF RawTicks(e, spec) > I64Max                  THEN "ArithmeticOverflow"
    ELSE "Ok"

NotionalMicro(e, spec) == RawTicks(e, spec) * e.size * spec.micro_per_tick_lot

FeeOverflows(e, spec) ==
    \E x \in {RawTicks(e, spec) * e.size,
              NotionalMicro(e, spec),
              NotionalMicro(e, spec) * e.fee_bps,
              NotionalMicro(e, spec) * e.fee_bps + 5000} : ~Fits128(x)

(* Mutant: the fee is rounded down.                                        *)
PmFeeDown(e, spec) == (NotionalMicro(e, spec) * e.fee_bps) \div 10000

(* Charged on the price of the outcome traded, half up. *)
PmFee(e, spec) == (NotionalMicro(e, spec) * e.fee_bps + 5000) \div 10000

PmError(e) ==
    LET spec == by_symbol[<<"Pm", e.market>>]
    IN
    IF <<"Pm", e.market>> \notin DOMAIN by_symbol       THEN "UnknownSymbol"
    ELSE IF spec.venue # "Pm"                           THEN "UnknownSymbol"
    ELSE IF ~PositiveSpec(spec)                         THEN "InvalidFill"
    ELSE IF e.action \notin {"BUY", "SELL"}             THEN "UnknownSide"
    ELSE IF e.size <= 0                                 THEN "InvalidQuantity"
    ELSE IF e.fee_bps < 0                               THEN "InvalidFee"
    ELSE IF PriceError(e, spec) # "Ok"                  THEN PriceError(e, spec)
    ELSE IF ~Fits64(Full(spec))                         THEN "ArithmeticOverflow"
    ELSE IF \/ RawTicks(e, spec) < Lowest(spec)
            \/ RawTicks(e, spec) > Highest(spec)        THEN "PriceOutOfRange"
    ELSE IF FeeOverflows(e, spec)                       THEN "ArithmeticOverflow"
    ELSE IF e.outcome \notin {"YES", "NO"}              THEN "UnknownOutcome"
    ELSE "Ok"

(* Mutant: the side is flipped, the price is not.                          *)
FoldedSideOnly(e, spec) ==
    LET action == IF e.action = "BUY" THEN "Buy" ELSE "Sell"
    IN  IF e.outcome = "YES" THEN <<action, RawTicks(e, spec)>>
        ELSE <<Flip(action), RawTicks(e, spec)>>

(* Trading NO is trading YES the other way at the complement of the price. *)
Folded(e, spec) ==
    LET action == IF e.action = "BUY" THEN "Buy" ELSE "Sell"
    IN  IF e.outcome = "YES" THEN <<action, RawTicks(e, spec)>>
        ELSE <<Flip(action), Full(spec) - RawTicks(e, spec)>>

PmFill(e) ==
    LET spec == by_symbol[<<"Pm", e.market>>]
    IN  [venue      |-> "Pm",
         symbol     |-> e.market,
         instrument |-> spec.instrument,
         kind       |-> spec.kind,
         side       |-> Folded(e, spec)[1],
         price      |-> Folded(e, spec)[2],
         qty        |-> e.size,
         fee        |-> PmFee(e, spec)]

CanonicalizePm(e) ==
    IF PmError(e) # "Ok" THEN NoFill(PmError(e))
                         ELSE [error |-> "Ok", fill |-> PmFill(e)]

-----------------------------------------------------------------------------
(* The registry is built, then one event is canonicalized: the result      *)
(* depends on nothing else, so one event per behaviour is enough.          *)

vars == <<rvars, event, outcome>>

Init ==
    /\ RegistryInit
    /\ event = << >>
    /\ outcome = NoFill("none yet")

Build == RegistryNext /\ UNCHANGED <<event, outcome>>

Canonicalize(e, result) ==
    /\ verdict = "Ok"
    /\ event = << >>
    /\ event' = e
    /\ outcome' = result
    /\ UNCHANGED rvars

Next ==
    \/ Build
    \/ \E e \in HlEvent : Canonicalize(e, CanonicalizeHl(e))
    \/ \E e \in PmEvent : Canonicalize(e, CanonicalizePm(e))

Spec == Init /\ [][Next]_vars

-----------------------------------------------------------------------------
(* Properties. *)

Error == {"Ok", "none yet", "UnknownSymbol", "UnknownSide", "UnknownOutcome",
          "MalformedDecimal", "OffTick", "OffLot", "PriceOutOfRange",
          "InvalidQuantity", "InvalidFee", "InvalidFill", "ArithmeticOverflow"}

TypeOK ==
    /\ RegistryTypeOK
    /\ outcome.error \in Error
    /\ outcome.error = "Ok" =>
          /\ outcome.fill.price \in -I64Max - 1 .. I64Max
          /\ outcome.fill.qty \in -I64Max - 1 .. I64Max
          /\ outcome.fill.fee \in -I128Max - 1 .. I128Max

Accepted == outcome.error = "Ok"

IsHl == "px" \in DOMAIN event

IsPm == "price" \in DOMAIN event

(* The number a text denotes, times 10^scale, as a fraction of integers:   *)
(* the reference parse_fixed and the divisions by tick and lot are held    *)
(* against.  Each digit counts by its place.                               *)
Numeral(digits) ==
    LET sum[i \in 0 .. Len(digits)] ==
            IF i = 0 THEN 0 ELSE sum[i - 1] + digits[i] * Tens[Len(digits) - i]
    IN  sum[Len(digits)]

IsDecimal(t) ==
    LET characters == t.int \o t.frac
    IN  characters # << >> /\ Range(characters) \subseteq Digit

Above(t, scale) == Numeral(t.int \o t.frac) * Tens[scale]

Below(t, unit) == unit * Tens[Len(t.frac)]

IsMultiple(t, scale, unit, limit) ==
    /\ IsDecimal(t)
    /\ t.neg => Above(t, scale) = 0
    /\ Above(t, scale) % Below(t, unit) = 0
    /\ Above(t, scale) \div Below(t, unit) <= limit
    /\ Above(t, scale) \div Below(t, 1) <= I128Max

(* An Hl event whose symbol and side are known is accepted exactly when    *)
(* its decimals denote, without rounding, a positive whole number of ticks *)
(* and of lots and a nonnegative fee, all within their widths; and then    *)
(* the fill holds those numbers, however the text was written              *)
(* (convert.rs:20-74, 115-148).                                            *)
HlFillsAreExact ==
    (/\ IsHl /\ <<"Hl", event.symbol>> \in DOMAIN by_symbol
     /\ event.side \in {"buy", "sell"}) =>
        LET spec  == by_symbol[<<"Hl", event.symbol>>]
            ticks == Above(event.px, PriceDigits)
            lots  == Above(event.qty, QtyDigits)
            fee   == Above(event.fee, PriceDigits)
        IN  /\ Accepted <=>
                  /\ IsMultiple(event.px, PriceDigits, spec.tick_micro, I64Max)
                  /\ IsMultiple(event.qty, QtyDigits, spec.lot_qty_e9, I64Max)
                  /\ IsMultiple(event.fee, PriceDigits, 1, I128Max)
                  /\ ticks > 0 /\ lots > 0
            /\ Accepted =>
                  /\ outcome.fill.price * Below(event.px, spec.tick_micro) = ticks
                  /\ outcome.fill.qty * Below(event.qty, spec.lot_qty_e9) = lots
                  /\ outcome.fill.fee * Below(event.fee, 1) = fee

(* Every fill canonicalized against a registry that construction accepted  *)
(* passes the position keeper's own validation, which checks other things  *)
(* in another order in another crate: what reaches the tape is never       *)
(* refused as invalid or out of range (convert.rs:98-236;                  *)
(* instrument.rs:58-103; position_keeper/src/lib.rs:183-209).              *)
CanonicalFillsAreValid ==
    Accepted => LET f == outcome.fill
                IN  FillError(f, by_symbol[<<f.venue, f.symbol>>]) = "Ok"

(* The same trade told from the other outcome: buying NO at p is selling   *)
(* YES at one dollar less p.                                               *)
Complement(e) ==
    [e EXCEPT !.outcome = IF @ = "YES" THEN "NO" ELSE "YES",
              !.action  = IF @ = "BUY" THEN "SELL" ELSE "BUY",
              !.price   = Dollar * Grain - @]

(* Both tellings of a trade give the same side, price and size, and a      *)
(* price that is a whole number of ticks is accepted in both or in neither *)
(* (convert.rs:193-217).                                                   *)
ComplementsAgree ==
    (IsPm /\ Accepted) =>
        LET other == CanonicalizePm(Complement(event))
            spec  == by_symbol[<<"Pm", event.market>>]
        IN  /\ other.error = "Ok" =>
                  [other.fill EXCEPT !.fee = outcome.fill.fee] = outcome.fill
            /\ (event.price % GrainsPerTick(spec) = 0
                    /\ ~FeeOverflows(Complement(event), spec)) =>
                  other.error = "Ok"

(* A Pm fee is within half a micro-dollar of the fee rate times the money  *)
(* that changed hands at the price of the outcome traded, although the     *)
(* fill only keeps the folded price (convert.rs:204-212).                  *)
FeeIsNearest ==
    (IsPm /\ Accepted) =>
        LET f     == outcome.fill
            spec  == by_symbol[<<"Pm", event.market>>]
            paid  == IF event.outcome = "YES" THEN f.price ELSE Full(spec) - f.price
            exact == paid * f.qty * spec.micro_per_tick_lot * event.fee_bps
        IN  /\ 10000 * f.fee - exact <= 5000
            /\ exact - 10000 * f.fee < 5000

=============================================================================
