------------------------------ MODULE Pipeline -----------------------------
(***************************************************************************)
(* The whole path of a fill, as the integration tests drive it             *)
(* (crates/ingester/tests/pipeline.rs, common/mod.rs): files are read, and *)
(* sorted or left in file order; lines of the two venues are interleaved,  *)
(* stamped 1, 2, 3, ... and caught, with a drain after each; a flush ends  *)
(* the stream; then a fresh keeper applies the tape, and the caller panics *)
(* on the first fill it refuses.                                           *)
(***************************************************************************)
EXTENDS Streams, Accounting

CONSTANT Input          \* [files : Venue -> Seq(Text), sorted : BOOLEAN]

ASSUME StampsAssumption == 1 .. MaxArrivals \subseteq Stamp

(* As in the fixtures, a venue's numbers identify its events.              *)
ASSUME InputAssumption ==
    /\ \A input \in Input : \A v \in Venue :
          input.files[v] \in Seq(Text) /\ Len(input.files[v]) <= MaxArrivals
    /\ \A a, b \in RawEvent :
          a.venue = b.venue => (a.seq = b.seq <=> a.event_id = b.event_id)

(* Every canonical fill has the widths of its type.                        *)
ASSUME FillWidthAssumption == \A f \in Fill : FitsFill(f)

VARIABLES
    source,             \* the input of this run
    lines,              \* Venue -> the lines it delivers
    taken,              \* Venue -> how many of them have arrived
    pc,                 \* where the caller is
    positions, cash, lots, applied      \* of the position keeper

kvars == <<positions, cash, lots, applied>>

pvars == <<allvars, source, lines, taken, pc, kvars>>

Keeper == INSTANCE PositionKeeper WITH FillInput <- Fill, MaxFills <- MaxArrivals

PipelineInit ==
    /\ IngesterInit
    /\ Keeper!Init
    /\ source \in Input
    /\ lines = [v \in Venue |->
                  IF source.sorted THEN SortedBySeq(ReadNdjson(v, source.files[v]))
                                   ELSE ReadNdjson(v, source.files[v])]
    /\ taken = [v \in Venue |-> 0]
    /\ pc = "catch"

(* Which venue speaks next is the riffle's choice. *)
Catch(v) ==
    /\ pc = "catch"
    /\ taken[v] < Len(lines[v])
    /\ taken' = [taken EXCEPT ![v] = @ + 1]
    /\ FillCaught(arrivals + 1, lines[v][taken'[v]])
    /\ pc' = "drain"
    /\ UNCHANGED <<source, lines, kvars>>

CallDrain ==
    /\ pc = "drain"
    /\ DrainReady
    /\ pc' = "draining"
    /\ UNCHANGED <<ivars, source, lines, taken, kvars>>

CallFlush ==
    /\ pc = "catch"
    /\ \A v \in Venue : taken[v] = Len(lines[v])
    /\ Flush
    /\ pc' = "draining"
    /\ UNCHANGED <<ivars, source, lines, taken, kvars>>

Draining ==
    /\ pc = "draining"
    /\ \/ (\E v \in Venue : DrainEmit(v)) /\ UNCHANGED pc
       \/ DrainReturn /\ pc' = IF sealed THEN "apply" ELSE "catch"
    /\ UNCHANGED <<ivars, source, lines, taken, kvars>>

ApplyNext ==
    /\ pc = "apply"
    /\ applied < Len(tape)
    /\ \/ Keeper!Apply(Published[applied + 1]) /\ UNCHANGED pc
       \/ /\ Keeper!ApplyResult(Published[applied + 1]) # "Ok"
          /\ pc' = "panicked"
          /\ UNCHANGED kvars
    /\ UNCHANGED <<allvars, source, lines, taken>>

Finish ==
    /\ pc = "apply"
    /\ applied = Len(tape)
    /\ pc' = "done"
    /\ UNCHANGED <<allvars, source, lines, taken, kvars>>

Ended == pc \in {"done", "panicked"} /\ UNCHANGED pvars

PipelineNext ==
    \/ \E v \in Venue : Catch(v)
    \/ CallDrain
    \/ CallFlush
    \/ Draining
    \/ ApplyNext
    \/ Finish
    \/ Ended

PipelineSpec == PipelineInit /\ [][PipelineNext]_pvars

-----------------------------------------------------------------------------
(* Properties. *)

Streamed == pc \in {"apply", "done", "panicked"}

(* Whatever the interleaving, a venue's fills come out as its own stream   *)
(* alone determines: the first copies of its valid events in their order,  *)
(* without those an earlier event has overtaken.  Just these count as out  *)
(* of order, so in the producers' order none does, since logical stamps    *)
(* never tie (ingester lib.rs:63-150; common/mod.rs:39-48; pipeline.rs:65, *)
(* 129-141; Algo.md I1).                                                   *)
VenuesArePublishedAlone ==
    Streamed =>
        /\ \A v \in Venue : OfVenue(v, Published) = Kept(lines[v])
        /\ stats.out_of_order =
              Cardinality(UNION {{v} \X (Fresh(lines[v]) \ OnTime(lines[v])) : v \in Venue})
        /\ source.sorted => stats.out_of_order = 0

(* Of two conflicting copies of an event the first in the file is the one  *)
(* remembered, whether the lines were sorted or not: sorting must not turn *)
(* them round (common/mod.rs:13-16; lib.rs:76-98).                         *)
FirstCopyInFileWins ==
    \A k \in DOMAIN seen :
        LET v      == seen[k].event.venue
            file   == source.files[v]
            Copies == {i \in DOMAIN file : Parsed(v, file[i]) # Malformed /\ KeyOf(file[i]) = k}
        IN  \E i \in Copies : seen[k].event = file[i] /\ \A j \in Copies : i <= j

(* No text of a file is lost between the reader and the queues: once the   *)
(* stream has ended every line that is not blank was accepted, counted as  *)
(* a repetition or quarantined, and what is no event of its own venue is   *)
(* in the dead letters under the venue of the file (stream.rs:75-92;       *)
(* lib.rs:64-71).                                                          *)
NoTextIsLost ==
    Streamed =>
        LET Texts(v) == {i \in DOMAIN source.files[v] : source.files[v][i] # Blank}
            Bad(v)   == {i \in Texts(v) : source.files[v][i] \notin RawEvent
                                          \/ source.files[v][i].venue # v}
        IN  /\ Cardinality(UNION {{v} \X Texts(v) : v \in Venue})
                  = stats.accepted + stats.duplicates + stats.dead_lettered
            /\ \A v \in Venue :
                  Cardinality({i \in Letters("Malformed") : dead_letters[i].venue = v})
                      = Cardinality(Bad(v))

(* The keeper refuses a published fill for overflow only: what passed      *)
(* canonicalization is valid to it, and the fills applied before leave a   *)
(* valid position (common/mod.rs:51-59; position_keeper lib.rs:32-73).     *)
TapeAppliesButForOverflow ==
    (pc = "apply" /\ applied < Len(tape)) =>
        Keeper!ApplyResult(Published[applied + 1]) \in {"Ok", "ArithmeticOverflow"}

(* The books of a fresh keeper that is handed these fills, none refused.   *)
BooksAfter(fills) ==
    LET books[n \in 0 .. Len(fills)] ==
            IF n = 0 THEN NoBooks ELSE Booked(books[n - 1], fills[n])
    IN  books[Len(fills)]

(* Positions do not depend on how the venues interleave: each one is what  *)
(* its own venue's stream, kept alone, would have made of it               *)
(* (pipeline.rs:113-127; position_keeper lib.rs:27-64).                    *)
PositionsIndependentOfInterleave ==
    pc = "done" =>
        LET Alone(v) == BooksAfter(Kept(lines[v]))
        IN  /\ DOMAIN positions = UNION {DOMAIN Alone(v) : v \in Venue}
            /\ \A v \in Venue : \A k \in DOMAIN Alone(v) : positions[k] = Alone(v)[k]

Paid(f) == Sign(f) * Notional(f.price, f.qty, Scale(f))

(* What a position has cost, net of what it has realized. *)
Spent(p) == (IF p.net_qty < 0 THEN -p.open_cost ELSE p.open_cost) - p.realized_pnl

SumPaid(fills) == SumFunction([i \in DOMAIN fills |-> Paid(fills[i])])
SumFees(fills) == SumFunction([i \in DOMAIN fills |-> fills[i].fee])

(* Over all accounts, what was realized less what is still open is the     *)
(* money that changed hands, and fees are what the fills were charged; so  *)
(* trades that match conserve both (pipeline.rs:143-168).                  *)
BooksBalance ==
    pc = "done" =>
        /\ SumFunction([k \in DOMAIN positions |-> Spent(positions[k])])
              = SumFunction([v \in Venue |-> SumPaid(Kept(lines[v]))])
        /\ SumFunction([k \in DOMAIN positions |-> positions[k].fees])
              = SumFunction([v \in Venue |-> SumFees(Kept(lines[v]))])

=============================================================================
