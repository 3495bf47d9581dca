------------------------ MODULE PositionKeeperProofs -----------------------
(***************************************************************************)
(* Type correctness, the cash identity, the bound on net_qty, and that a   *)
(* position stays valid with its entry price within the prices traded, for *)
(* any instruments, any fills and any widths.                              *)
(***************************************************************************)
EXTENDS PositionKeeper, AccountingProofs

LEMMA FillsFit == AllFit(FillInput)
BY FillAssumption DEF AllFit

-----------------------------------------------------------------------------
(* One accepted fill. *)

LEMMA AppliedFill ==
    ASSUME NEW f \in FillInput, ApplyResult(f) = "Ok"
    PROVE  /\ PositionKey(f) \in Key
           /\ f.price \in Int /\ f.qty \in Int /\ f.fee \in Int /\ f.qty > 0
           /\ f.side \in {"Buy", "Sell"} /\ Scale(f) \in Int /\ Scale(f) > 0
           /\ FitsFill(f) /\ Validated(f)
           /\ ValidPosition(Before(PositionKey(f)))
           /\ ~Overflows(Before(PositionKey(f)), f, Scale(f))
<1>1. FitsFill(f) /\ PositionKey(f) \in Key
  BY FillAssumption DEF Key
<1>2. /\ Validated(f) /\ ValidPosition(Before(PositionKey(f)))
      /\ ~Overflows(Before(PositionKey(f)), f, Scale(f))
  BY AcceptedFill DEF ApplyResult, Before
<1> QED
  BY <1>1, <1>2, ValidatedFill

LEMMA BeforeType ==
    ASSUME TypeOK, NEW k
    PROVE  Before(k) \in Position
BY HeldType DEF TypeOK, WellFormed, Before

(* The position an accepted fill leaves is well formed, and its magnitude  *)
(* is an i64.                                                              *)
LEMMA AfterApplied ==
    ASSUME TypeOK, NEW f \in FillInput, ApplyResult(f) = "Ok"
    PROVE  LET after == After(Before(PositionKey(f)), f, Scale(f))
           IN  /\ after \in Position
               /\ after.net_qty \in -I64Max - 1 .. I64Max
               /\ after.net_qty # -I64Max - 1
<1>1. After(Before(PositionKey(f)), f, Scale(f)) \in Position
  BY AppliedFill, BeforeType, AfterType
<1> QED
  BY <1>1, AppliedFill, AfterFits

-----------------------------------------------------------------------------
(* The invariants. *)

IInv == TypeOK /\ CashIdentity /\ NetQtyHasMirror

LEMMA IInvInit == Init => IInv
BY WidthAssumption, BoundAssumption
   DEF Init, IInv, TypeOK, CashIdentity, NetQtyHasMirror, Before, HeldIn, NoBooks, Flat

LEMMA ApplyKeepsIInv ==
    ASSUME IInv, NEW f \in FillInput, Apply(f)
    PROVE  IInv'
<1> USE DEF IInv
<1> DEFINE k     == PositionKey(f)
           p     == Before(k)
           m     == Scale(f)
           after == After(p, f, m)
<1>1. /\ ApplyResult(f) = "Ok" /\ applied < MaxFills
      /\ DOMAIN positions' = DOMAIN positions \cup {k}
      /\ positions'[k] = after
      /\ \A j \in DOMAIN positions \ {k} : positions'[j] = positions[j]
      /\ cash' = [cash EXCEPT ![k] = @ - Sign(f) * Notional(f.price, f.qty, m)]
      /\ lots' = [lots EXCEPT ![k] = @ + Sign(f) * f.qty]
      /\ applied' = applied + 1
  BY DEF Apply, Booked, Before
<1>2. /\ k \in Key /\ m \in Int /\ f.price \in Int /\ f.qty \in Int
      /\ f.qty > 0 /\ f.side \in {"Buy", "Sell"} /\ ValidPosition(p)
  BY <1>1, AppliedFill
<1>3. /\ after \in Position /\ after.net_qty \in -I64Max - 1 .. I64Max
      /\ after.net_qty # -I64Max - 1
  BY <1>1, AfterApplied
<1>4. p \in Position
  BY BeforeType
<1> HIDE DEF k, p, m, after
<1>5. /\ Sign(f) * Notional(f.price, f.qty, m) \in Int
      /\ Sign(f) * f.qty \in Int
  <2>1. Sign(f) \in Int
    BY DEF Sign
  <2>2. Notional(f.price, f.qty, m) \in Int
    BY <1>2, NotionalType
  <2> QED
    BY <1>2, <2>1, <2>2
<1>6. TypeOK'
  <2>1. DOMAIN positions' \subseteq Key
    BY <1>1, <1>2 DEF TypeOK
  <2>2. \A j \in DOMAIN positions' :
           /\ positions'[j] \in Position
           /\ positions'[j].net_qty \in -I64Max - 1 .. I64Max
    BY <1>1, <1>3 DEF TypeOK
  <2>3. cash' \in [Key -> Int] /\ lots' \in [Key -> Int]
    BY <1>1, <1>2, <1>5 DEF TypeOK
  <2>4. applied' \in 0 .. MaxFills
    BY <1>1, BoundAssumption DEF TypeOK
  <2> QED
    BY <2>1, <2>2, <2>3, <2>4 DEF TypeOK
<1>7. NetQtyHasMirror'
  BY <1>1, <1>3 DEF NetQtyHasMirror
<1>8. CashIdentity'
  <2>1. \A j \in Key \ {k} : /\ Before(j)' = Before(j)
                             /\ cash'[j] = cash[j] /\ lots'[j] = lots[j]
    BY <1>1 DEF Before, HeldIn, TypeOK
  <2>2. /\ Before(k)' = after
        /\ cash'[k] = cash[k] - Sign(f) * Notional(f.price, f.qty, m)
        /\ lots'[k] = lots[k] + Sign(f) * f.qty
    BY <1>1, <1>2 DEF Before, HeldIn, TypeOK
  <2>3. /\ p.net_qty = lots[k]
        /\ cash[k] = IF p.net_qty < 0 THEN p.realized_pnl + p.open_cost
                                      ELSE p.realized_pnl - p.open_cost
    BY <1>2 DEF CashIdentity, p
  <2>4. /\ after.net_qty = p.net_qty + Sign(f) * f.qty
        /\ after.realized_pnl = p.realized_pnl + Moved(p, f, m).realized
        /\ after.open_cost = Moved(p, f, m).cost
    BY DEF after, After, NewQty
  <2>5. (IF after.net_qty < 0 THEN after.realized_pnl + after.open_cost
                              ELSE after.realized_pnl - after.open_cost)
           = (IF p.net_qty < 0 THEN p.realized_pnl + p.open_cost
                               ELSE p.realized_pnl - p.open_cost)
             - Sign(f) * Notional(f.price, f.qty, m)
    BY <1>2, <1>4, <2>4, MoveConserves DEF ValidPosition, NewQty
  <2>6. /\ after.net_qty = lots'[k]
        /\ cash'[k] = IF after.net_qty < 0
                      THEN after.realized_pnl + after.open_cost
                      ELSE after.realized_pnl - after.open_cost
    BY <2>2, <2>3, <2>4, <2>5
  <2> QED
    BY <2>1, <2>2, <2>6 DEF CashIdentity
<1> QED
  BY <1>6, <1>7, <1>8

LEMMA IInvStep == IInv /\ [Next]_vars => IInv'
<1> SUFFICES ASSUME IInv, [Next]_vars
             PROVE  IInv'
  OBVIOUS
<1>1. ASSUME NEW f \in FillInput, Apply(f)
      PROVE  IInv'
  BY <1>1, ApplyKeepsIInv
<1>2. CASE UNCHANGED vars
  BY <1>2 DEF vars, IInv, TypeOK, CashIdentity, NetQtyHasMirror, Before, HeldIn
<1>3. ASSUME NEW f \in FillInput, ApplyRefused(f)
      PROVE  IInv'
  BY <1>2, <1>3 DEF ApplyRefused
<1> QED
  BY <1>1, <1>2, <1>3 DEF Next

LEMMA Inductive == Spec => []IInv
BY IInvInit, IInvStep, PTL DEF Spec

(* Positions stay within their types, whatever fills are handed over. *)
THEOREM TypeCorrect == Spec => []TypeOK
<1>1. IInv => TypeOK
  BY DEF IInv
<1> QED
  BY <1>1, Inductive, PTL

(* No micro-dollar is created or lost by adding, closing, rounding or      *)
(* reversing, for every instrument scale and every sequence of fills.      *)
THEOREM CashConserved == Spec => []CashIdentity
<1>1. IInv => CashIdentity
  BY DEF IInv
<1> QED
  BY <1>1, Inductive, PTL

(* net_qty never becomes i64::MIN, so every position can be closed by a    *)
(* fill of its own magnitude.                                              *)
THEOREM MirrorExists == Spec => []NetQtyHasMirror
<1>1. IInv => NetQtyHasMirror
  BY DEF IInv
<1> QED
  BY <1>1, Inductive, PTL

-----------------------------------------------------------------------------
(* Every sequence of fills leaves a position the keeper accepts. *)

(* The strengthening of NeverInvalidPosition and EntryPriceInRange: the    *)
(* open cost is that of the open lots at prices the key has seen, which,   *)
(* unlike the entry price, is not rounded anew.                            *)
SoundPositions == SoundBooks(FillInput, positions)

LEMMA SoundInductive == Spec => []SoundPositions
<1>1. Init => SoundPositions
  BY DEF Init, SoundPositions, SoundBooks, NoBooks
<1>2. TypeOK /\ SoundPositions /\ [Next]_vars => SoundPositions'
  <2> SUFFICES ASSUME TypeOK, SoundPositions, [Next]_vars
               PROVE  SoundPositions'
    OBVIOUS
  <2>1. ASSUME NEW f \in FillInput, Apply(f)
        PROVE  SoundPositions'
    <3>1. Validated(f) /\ WellFormed(positions) /\ SoundBooks(FillInput, positions)
      BY <2>1, AppliedFill DEF Apply, TypeOK, WellFormed, SoundPositions
    <3>2. SoundBooks(FillInput, Booked(positions, f))
      BY <3>1, FillsFit, BookedSound
    <3> QED
      BY <2>1, <3>2 DEF Apply, SoundPositions
  <2>2. CASE UNCHANGED vars
    BY <2>2 DEF vars, SoundPositions
  <2>3. ASSUME NEW f \in FillInput, ApplyRefused(f)
        PROVE  SoundPositions'
    BY <2>2, <2>3 DEF ApplyRefused
  <2> QED
    BY <2>1, <2>2, <2>3 DEF Next
<1> QED
  BY <1>1, <1>2, TypeCorrect, PTL DEF Spec

(* No sequence of fills brings a position into a state that the keeper     *)
(* itself refuses, before or after the next one: for every instrument a    *)
(* fill that passes validation is applied or overflows.                    *)
THEOREM PositionsStayValid == Spec => []NeverInvalidPosition
<1>1. TypeOK /\ SoundPositions => NeverInvalidPosition
  <2> SUFFICES ASSUME TypeOK, SoundPositions, NEW f \in FillInput
               PROVE  ApplyResult(f) # "InvalidPosition"
    BY DEF NeverInvalidPosition
  <2>1. CASE Validated(f)
    <3>1. WellFormed(positions) /\ SoundBooks(FillInput, positions)
      BY DEF TypeOK, WellFormed, SoundPositions
    <3>2. Answer(positions, f) \in {"Ok", "ArithmeticOverflow"}
      BY <2>1, <3>1, FillsFit, SoundAnswer
    <3> QED
      BY <3>2 DEF ApplyResult
  <2>2. CASE ~Validated(f)
    <3>1. FillVerdict(f) \in
             {"Ok", "UnknownSymbol", "InvalidFill", "ArithmeticOverflow", "PriceOutOfRange"}
      BY DEF FillVerdict, FillError
    <3> QED
      BY <2>2, <3>1 DEF ApplyResult, Answer
  <2> QED
    BY <2>1, <2>2
<1> QED
  BY <1>1, TypeCorrect, SoundInductive, PTL

(* After any history the entry price of an open position lies between two  *)
(* prices of its own fills.                                                *)
THEOREM EntryPriceBounded == Spec => []EntryPriceInRange
<1>1. SoundPositions => EntryPriceInRange
  <2>1. \A k : Prices(k) = PricesOf(FillInput, k)
    BY DEF Prices, PricesOf, ValidatedFills
  <2> QED
    BY <2>1 DEF SoundPositions, SoundBooks, SoundAt, EntryPriceInRange
<1> QED
  BY <1>1, SoundInductive, PTL

(* What apply reports as closed and opened is all of the fill and all the  *)
(* position moved, and nothing is realized on what was only opened.        *)
THEOREM DeltaAccounts == Spec => []DeltaAccountsForFill
<1>1. ASSUME TypeOK, NEW f \in FillInput, ApplyResult(f) = "Ok"
      PROVE  LET p     == Before(PositionKey(f))
                 moved == Moved(p, f, Scale(f))
                 after == After(p, f, Scale(f))
             IN  /\ moved.closed >= 0 /\ moved.opened >= 0
                 /\ moved.closed + moved.opened = f.qty
                 /\ Abs(after.net_qty)
                       = Abs(p.net_qty) - moved.closed + moved.opened
                 /\ moved.closed = 0 => moved.realized = 0
  <2> DEFINE p     == Before(PositionKey(f))
             m     == Scale(f)
             moved == Moved(p, f, m)
             qty   == NewQty(p, f)
             held  == Abs(p.net_qty)
  <2>1. /\ f.qty \in Int /\ f.qty > 0 /\ f.side \in {"Buy", "Sell"}
        /\ p.net_qty \in Int
    BY <1>1, AppliedFill, BeforeType DEF Position
  <2>2. After(p, f, m).net_qty = qty
    BY DEF After
  <2> HIDE DEF p, m
  <2>3. qty = IF f.side = "Buy" THEN p.net_qty + f.qty ELSE p.net_qty - f.qty
    BY <2>1 DEF NewQty, Sign
  <2>4. held \in Int /\ held >= 0
    BY <2>1 DEF Abs
  <2> DEFINE Accounted == /\ moved.closed >= 0 /\ moved.opened >= 0
                          /\ moved.closed + moved.opened = f.qty
                          /\ Abs(qty) = held - moved.closed + moved.opened
                          /\ moved.closed = 0 => moved.realized = 0
  <2>5. ASSUME SameDirection(p, f)
        PROVE  Accounted
    <3>1. moved.closed = 0 /\ moved.opened = f.qty /\ moved.realized = 0
      BY <2>5 DEF Moved, Adding
    <3>2. Abs(qty) = held + f.qty
      BY <2>1, <2>3, <2>5 DEF SameDirection, Abs
    <3> HIDE DEF moved, qty, held
    <3> QED
      BY <2>1, <2>4, <3>1, <3>2
  <2>6. ASSUME ~SameDirection(p, f)
        PROVE  Accounted
    <3>1. /\ moved.closed = IF held < f.qty THEN held ELSE f.qty
          /\ moved.opened = f.qty - moved.closed
      BY <2>6 DEF Moved, Closing
    <3>2. \/ p.net_qty > 0 /\ f.side = "Sell"
          \/ p.net_qty < 0 /\ f.side = "Buy"
      BY <2>1, <2>6 DEF SameDirection
    <3>3. held > 0 /\ Abs(qty) = held - moved.closed + moved.opened
      BY <2>1, <2>3, <3>1, <3>2 DEF Abs
    <3>4. moved.closed > 0 /\ moved.opened >= 0 /\ moved.closed + moved.opened = f.qty
      BY <2>1, <2>4, <3>1, <3>3
    <3> HIDE DEF moved, qty, held
    <3> QED
      BY <2>1, <2>4, <3>1, <3>3, <3>4
  <2> QED
    BY <2>2, <2>5, <2>6 DEF p, m
<1>2. TypeOK => DeltaAccountsForFill
  BY <1>1 DEF DeltaAccountsForFill
<1> QED
  BY <1>2, TypeCorrect, PTL

=============================================================================
