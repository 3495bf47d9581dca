---------------------------- MODULE Instruments ----------------------------
(***************************************************************************)
(* What the converter, the registry and the position keeper share: the     *)
(* integer widths, instrument specs and the check of a fill against its    *)
(* spec.                                                                   *)
(*                                                                         *)
(* The code computes with checked i64 and i128 arithmetic and with prices  *)
(* in millionths of a dollar.  Here these are constants, so that small     *)
(* instances reach the ends of the ranges.                                 *)
(***************************************************************************)
EXTENDS Integers

CONSTANTS
    Dollar,             \* one dollar in micro units: 1_000_000
    I64Max, I128Max

ASSUME WidthAssumption ==
    /\ I64Max \in Nat /\ I128Max \in Nat /\ I64Max <= I128Max
    /\ Dollar \in Nat \ {0}

(* Mutant: one past the end of i64.                                        *)
Fits64Loose(x) == -I64Max - 1 <= x /\ x <= I64Max + 1

Fits64(x)  == -I64Max - 1 <= x /\ x <= I64Max
Fits128(x) == -I128Max - 1 <= x /\ x <= I128Max

PositiveSpec(spec) ==
    spec.tick_micro > 0 /\ spec.lot_qty_e9 > 0 /\ spec.micro_per_tick_lot > 0

(* A binary pays a dollar or nothing: its prices run over full ticks, and  *)
(* the legal ones leave a hundredth out at each end.                       *)
Full(spec)    == Dollar \div spec.tick_micro
Lowest(spec)  == Full(spec) \div 100
Highest(spec) == Full(spec) - Lowest(spec)

(* Mutant: the ends of the band are illegal.                               *)
FillErrorInsideBand(f, spec) ==
    IF f.price <= 0 \/ f.qty <= 0 \/ f.fee < 0          THEN "InvalidFill"
    ELSE IF spec.kind # "Binary"                        THEN "Ok"
    ELSE IF f.price <= Lowest(spec) \/ f.price >= Highest(spec)
                                                        THEN "PriceOutOfRange"
    ELSE "Ok"

(* validate_fill of the position keeper. *)
FillError(f, spec) ==
    IF \/ f.venue # spec.venue \/ f.kind # spec.kind
       \/ f.instrument # spec.instrument                THEN "InvalidFill"
    ELSE IF f.price <= 0 \/ f.qty <= 0 \/ f.fee < 0     THEN "InvalidFill"
    ELSE IF ~PositiveSpec(spec)                         THEN "InvalidFill"
    ELSE IF spec.kind # "Binary"                        THEN "Ok"
    ELSE IF Dollar % spec.tick_micro # 0                THEN "InvalidFill"
    ELSE IF ~Fits64(Full(spec))                         THEN "ArithmeticOverflow"
    ELSE IF f.price < Lowest(spec) \/ f.price > Highest(spec)
                                                        THEN "PriceOutOfRange"
    ELSE "Ok"

=============================================================================
