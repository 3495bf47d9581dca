----------------------------- MODULE MCFixtures ----------------------------
(***************************************************************************)
(* A finite instance of Fixtures.  Prices have their six decimals;         *)
(* quantities have five instead of nine, and Hl trades at a thousandth of  *)
(* its prices, so that every product fits TLC's integers.  The streams are *)
(* a few lines long: in one the last repetition does not fit, in the other *)
(* it just does.                                                           *)
(***************************************************************************)
EXTENDS Fixtures

MCLines     == [hl |-> 11, pm |-> 12]
MCSwapEvery == [hl |-> 5, pm |-> 5]
MCDupEvery  == [hl |-> 3, pm |-> 3]

(* The real cadences never plant a swap next to a repetition either.       *)
ASSUME RealCadences ==
    \A n \in 2 .. 496 :
        /\ n % 41 = 0 => n % 37 # 0 /\ (n - 1) % 37 # 0
        /\ n % 43 = 0 => n % 31 # 0 /\ (n - 1) % 31 # 0

MCPoisonDollars == <<6, 7>>

MCStandardSpec == Range(StandardSpecs)

MCHlEvent == {order.event : order \in HlDraws \cup Range(PlantedHl)}

MCPmEvent == {order.event : order \in PmDraws \cup Range(PlantedPm)}

=============================================================================
