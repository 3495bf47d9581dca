--------------------------- MODULE PositionKeeper --------------------------
(***************************************************************************)
(* Cost-basis accounting of crates/position_keeper/src/lib.rs: apply takes *)
(* one fill, validates it against the instrument's spec, and either moves  *)
(* the position of (account, instrument) or refuses and changes nothing.   *)
(* What it computes is in Accounting.                                      *)
(***************************************************************************)
EXTENDS Accounting

CONSTANTS
    FillInput,      \* the fills a consumer of the tape may hand over
    MaxFills        \* bound on the fills applied

ASSUME BoundAssumption == MaxFills \in Nat
ASSUME FillAssumption == \A f \in FillInput : FitsFill(f)

VARIABLES
    positions,      \* (account, instrument) -> position
    cash,           \* history: what each key paid and received for its fills
    lots,           \* history: the signed lots each key traded
    applied         \* history: how many fills were applied

vars == <<positions, cash, lots, applied>>

Key == {PositionKey(f) : f \in FillInput}

Before(k) == HeldIn(positions, k)

ApplyResult(f) == Answer(positions, f)

-----------------------------------------------------------------------------
Init ==
    /\ positions = NoBooks
    /\ cash = [k \in Key |-> 0]
    /\ lots = [k \in Key |-> 0]
    /\ applied = 0

Apply(f) ==
    /\ applied < MaxFills
    /\ ApplyResult(f) = "Ok"
    /\ positions' = Booked(positions, f)
    /\ cash' = [cash EXCEPT ![PositionKey(f)] =
                   @ - Sign(f) * Notional(f.price, f.qty, Scale(f))]
    /\ lots' = [lots EXCEPT ![PositionKey(f)] = @ + Sign(f) * f.qty]
    /\ applied' = applied + 1

ApplyRefused(f) ==
    /\ ApplyResult(f) # "Ok"
    /\ UNCHANGED vars

Next == \E f \in FillInput : Apply(f) \/ ApplyRefused(f)

Spec == Init /\ [][Next]_vars

-----------------------------------------------------------------------------
(* Properties. *)

TypeOK ==
    /\ DOMAIN positions \subseteq Key
    /\ \A k \in DOMAIN positions :
          /\ positions[k] \in Position
          /\ positions[k].net_qty \in -I64Max - 1 .. I64Max
    /\ cash \in [Key -> Int]
    /\ lots \in [Key -> Int]
    /\ applied \in 0 .. MaxFills

(* No micro-dollar is created or lost: whatever was added, partially       *)
(* closed with rounding, closed or reversed, the money a key received is   *)
(* what it realized less the cost still open (long) or plus it (short),    *)
(* exactly; once flat, realized_pnl is the cash (lib.rs:76-142).           *)
CashIdentity ==
    \A k \in Key :
        LET p == Before(k)
        IN  /\ p.net_qty = lots[k]
            /\ cash[k] = IF p.net_qty < 0 THEN p.realized_pnl + p.open_cost
                                          ELSE p.realized_pnl - p.open_cost

(* A fill that passes validation can only be refused for overflow: no      *)
(* sequence of fills brings a position into a state that validate_position *)
(* rejects, neither before nor after the next one (lib.rs:64, 170,         *)
(* 211-228).                                                               *)
NeverInvalidPosition ==
    \A f \in FillInput : ApplyResult(f) # "InvalidPosition"

(* Rounding never drifts: after any history of partial closes, the entry   *)
(* price of an open position lies between the lowest and the highest price *)
(* its fills could have had; for a binary, within its legal band           *)
(* (lib.rs:91-100, 144-152, 237-248).                                      *)
Prices(k) ==
    {f.price : f \in {g \in FillInput : PositionKey(g) = k /\ Validated(g)}}

EntryPriceInRange ==
    \A k \in DOMAIN positions : positions[k].net_qty # 0 =>
        /\ \E lo \in Prices(k) : lo <= positions[k].avg_entry_price
        /\ \E hi \in Prices(k) : positions[k].avg_entry_price <= hi

(* Every position can be mirrored: net_qty is never i64::MIN, the one      *)
(* value whose magnitude is not an i64, though checked_add would allow it  *)
(* (lib.rs:77-79, 149, 268-270).                                           *)
NetQtyHasMirror ==
    \A k \in DOMAIN positions : positions[k].net_qty # -I64Max - 1

(* What apply reports accounts for the fill: the lots it closed and opened *)
(* are its quantity, the position shrinks by one and grows by the other,   *)
(* and profit is realized only on what was closed (lib.rs:75-142,          *)
(* 172-180).                                                               *)
DeltaAccountsForFill ==
    \A f \in FillInput : ApplyResult(f) = "Ok" =>
        LET before == Before(PositionKey(f))
            moved  == Moved(before, f, Scale(f))
            after  == After(before, f, Scale(f))
        IN  /\ moved.closed >= 0 /\ moved.opened >= 0
            /\ moved.closed + moved.opened = f.qty
            /\ Abs(after.net_qty)
                  = Abs(before.net_qty) - moved.closed + moved.opened
            /\ moved.closed = 0 => moved.realized = 0

=============================================================================
