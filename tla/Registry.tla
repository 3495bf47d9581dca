------------------------------ MODULE Registry -----------------------------
(***************************************************************************)
(* Construction of the instrument registry (Registry::try_from_specs of    *)
(* crates/types/src/instrument.rs): specs are taken one at a time, checked *)
(* on their own and against those already taken, and stored with their     *)
(* derived scale.  The first bad spec ends the construction.               *)
(***************************************************************************)
EXTENDS Instruments

CONSTANTS
    CandidateSpec,      \* the specs a caller may list
    Whole               \* one unit of quantity in e9 units: 1_000_000_000

InstrumentSpec ==
    [venue : {"Hl", "Pm"}, symbol : STRING, instrument : STRING,
     kind : {"Perp", "Binary"}, tick_micro : Int, lot_qty_e9 : Int,
     micro_per_tick_lot : Int]

ASSUME WholeAssumption     == Whole \in Nat \ {0}
ASSUME CandidateAssumption == CandidateSpec \subseteq InstrumentSpec

VARIABLES
    by_symbol,          \* <<venue, symbol>> -> spec
    by_instrument,      \* instrument -> the first spec that carries it
    verdict             \* "Open" while specs are taken, then the result

rvars == <<by_symbol, by_instrument, verdict>>

SymbolOf(spec) == <<spec.venue, spec.symbol>>

Product(spec) == spec.tick_micro * spec.lot_qty_e9

(* The caller's micro_per_tick_lot is overwritten. *)
Derived(spec) == [spec EXCEPT !.micro_per_tick_lot = Product(spec) \div Whole]

(* Mutant: equal scales are taken for equal economics.                     *)
SameEconomicsByScale(a, b) ==
    a.kind = b.kind /\ a.micro_per_tick_lot = b.micro_per_tick_lot

SameEconomics(a, b) ==
    /\ a.kind = b.kind
    /\ a.tick_micro = b.tick_micro
    /\ a.lot_qty_e9 = b.lot_qty_e9
    /\ a.micro_per_tick_lot = b.micro_per_tick_lot

(* Mutant: a dollar need not be a multiple of a hundred ticks.             *)
FitsVenueAnyTick(spec) ==
    \/ spec.venue = "Hl" /\ spec.kind = "Perp"
    \/ /\ spec.venue = "Pm" /\ spec.kind = "Binary"
       /\ spec.lot_qty_e9 = Whole
       /\ Dollar % spec.tick_micro = 0

(* Perps trade on Hl; binaries on Pm, in whole contracts, at ticks that    *)
(* divide a hundredth of a dollar.                                         *)
FitsVenue(spec) ==
    \/ spec.venue = "Hl" /\ spec.kind = "Perp"
    \/ /\ spec.venue = "Pm" /\ spec.kind = "Binary"
       /\ spec.lot_qty_e9 = Whole
       /\ Dollar % spec.tick_micro = 0
       /\ Full(spec) % 100 = 0

SpecError(spec) ==
    IF spec.tick_micro <= 0 \/ spec.lot_qty_e9 <= 0     THEN "InvalidSpec"
    ELSE IF ~FitsVenue(spec)                            THEN "InvalidSpec"
    ELSE IF ~Fits128(Product(spec))                     THEN "ArithmeticOverflow"
    ELSE IF Product(spec) % Whole # 0                   THEN "InvalidSpec"
    ELSE IF Derived(spec).micro_per_tick_lot <= 0       THEN "InvalidSpec"
    ELSE IF SymbolOf(spec) \in DOMAIN by_symbol         THEN "DuplicateSymbol"
    ELSE IF /\ spec.instrument \in DOMAIN by_instrument
            /\ ~SameEconomics(by_instrument[spec.instrument], Derived(spec))
                                                        THEN "InconsistentInstrument"
    ELSE "Ok"

RegistryInit ==
    /\ by_symbol = << >>
    /\ by_instrument = << >>
    /\ verdict = "Open"

Add(spec) ==
    /\ verdict = "Open"
    /\ SpecError(spec) = "Ok"
    /\ by_symbol' =
          [s \in DOMAIN by_symbol \cup {SymbolOf(spec)} |->
              IF s = SymbolOf(spec) THEN Derived(spec) ELSE by_symbol[s]]
    /\ by_instrument' =
          [i \in DOMAIN by_instrument \cup {spec.instrument} |->
              IF i \in DOMAIN by_instrument THEN by_instrument[i]
                                            ELSE Derived(spec)]
    /\ UNCHANGED verdict

Refuse(spec) ==
    /\ verdict = "Open"
    /\ SpecError(spec) # "Ok"
    /\ verdict' = SpecError(spec)
    /\ UNCHANGED <<by_symbol, by_instrument>>

(* The list of specs is exhausted. *)
Finish ==
    /\ verdict = "Open"
    /\ verdict' = "Ok"
    /\ UNCHANGED <<by_symbol, by_instrument>>

RegistryNext ==
    \/ \E spec \in CandidateSpec : Add(spec) \/ Refuse(spec)
    \/ Finish

RegistrySpec == RegistryInit /\ [][RegistryNext]_rvars

-----------------------------------------------------------------------------
(* Properties. *)

RegistryTypeOK ==
    /\ \A s \in DOMAIN by_symbol :
          /\ by_symbol[s] \in {Derived(spec) : spec \in CandidateSpec}
          /\ SymbolOf(by_symbol[s]) = s
    /\ \A i \in DOMAIN by_instrument : by_instrument[i].instrument = i
    /\ verdict \in {"Open", "Ok", "InvalidSpec", "ArithmeticOverflow",
                    "DuplicateSymbol", "InconsistentInstrument"}

(* However many symbols carry one instrument, and in whatever order they   *)
(* were listed, any two of them agree on everything but the symbol, though *)
(* each was compared with the first only; on the venue too, although it is *)
(* not compared.  So a position, which is kept per instrument, has one     *)
(* scale and is fed by one venue (instrument.rs:62-73, 89-101;             *)
(* position_keeper/src/lib.rs:27-31).                                      *)
OneEconomyPerInstrument ==
    \A s, t \in DOMAIN by_symbol :
        by_symbol[s].instrument = by_symbol[t].instrument =>
            by_symbol[s] = [by_symbol[t] EXCEPT !.symbol = by_symbol[s].symbol]

=============================================================================
