------------------------------ MODULE SortKey ------------------------------
(***************************************************************************)
(* The vocabulary every tape module shares: venues in priority order,      *)
(* stamped fills, and SORT_KEY = (recv_ts, venue, venue_seq), the total    *)
(* order the single-writer tape follows.                                   *)
(*                                                                         *)
(* A venue is the lane index `venue as usize`, so a smaller number is a    *)
(* higher priority.  A fill is any record with a venue and a sequence      *)
(* number; the rest of its payload never influences the order.             *)
(***************************************************************************)
EXTENDS Integers, Sequences, Functions

CONSTANTS
    K,      \* how many venues (lanes) there are; the code has two
    Fill,   \* the canonical fills that can be pushed
    Stamp   \* the receive timestamps the caller can use

Venue == 0 .. K - 1

ASSUME KAssumption     == K \in Nat \ {0}
ASSUME StampAssumption == Stamp \subseteq Nat
ASSUME FillAssumption  == \A f \in Fill : f.venue \in Venue /\ f.seq \in Nat

(* What a lane buffers: the pair (recv_ts, fill). *)
Stamped == [recv_ts : Stamp, fill : Fill]

(* What the tape holds. *)
SequencedFill == [global_seq : Nat \ {0}, recv_ts : Stamp, fill : Fill]

(* a sorts strictly before b. *)
KeyLess(a, b) ==
    \/ a.recv_ts < b.recv_ts
    \/ /\ a.recv_ts = b.recv_ts
       /\ \/ a.fill.venue < b.fill.venue
          \/ a.fill.venue = b.fill.venue /\ a.fill.seq < b.fill.seq

(* A tape entry without its position. *)
Unsequenced(e) == [recv_ts |-> e.recv_ts, fill |-> e.fill]

=============================================================================
