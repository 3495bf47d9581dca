---------------------------- MODULE MCSequencer ----------------------------
(***************************************************************************)
(* A finite instance of Sequencer: both venues, sequence numbers up to     *)
(* MaxSeq on each, stamps up to MaxStamp.  venue_seq is strictly           *)
(* increasing on a lane, so these two bounds bound the run.                *)
(***************************************************************************)
EXTENDS Sequencer

CONSTANTS MaxSeq, MaxStamp

MCFill == [venue : Venue, seq : 1 .. MaxSeq]

MCStamp == 0 .. MaxStamp

=============================================================================
