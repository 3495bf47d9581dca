-------------------------- MODULE RealtimeHarness --------------------------
(***************************************************************************)
(* The realtime harness of crates/ingester/tests/ordering_realtime.rs: a   *)
(* thread per venue stamps each line with the shared clock and sends it    *)
(* down a channel of its own; the main thread collects one channel after   *)
(* the other until the senders hang up, merges the arrivals by stamp, and  *)
(* catches and drains them one by one.  At the end it ticks every venue    *)
(* one past the last stamp, which must finish the tape without a flush,    *)
(* checks the tape, replays it into a second sequencer, venue by venue,    *)
(* and asks whether streams that overlapped in time are interleaved.       *)
(*                                                                         *)
(* A failed assertion or unwrap stops the main thread for good: they are   *)
(* guards, and Terminates says that none of them fails.  The one exception *)
(* is an unwrap that fails, and panics, on files in which a venue trades   *)
(* nothing.                                                                *)
(***************************************************************************)
EXTENDS Streams

CONSTANTS
    Source,             \* the files: functions Venue -> Seq(Text)
    MaxClock            \* bound on the clock, in milliseconds since its base

ASSUME ClockAssumption  == MaxClock \in Nat \ {0} /\ 1 .. MaxClock + 1 \subseteq Stamp
ASSUME SourceAssumption == \A files \in Source : \A v \in Venue : files[v] \in Seq(Text)

VARIABLES
    clock,
    lines,              \* Venue -> the lines its thread sends
    held,               \* Venue -> the stamp taken for the line not yet sent
    channel,            \* Venue -> the stamps of the lines sent, in order
    collected,          \* how many channels main has collected
    taken,              \* Venue -> how many arrivals are merged
    last_stamp,
    pc,                 \* where main is
    ticked,             \* how many venues are ticked at the end
    replayed,           \* how many fills are pushed again
    lanes2, next_global_seq2, sealed2, draining2, tape2     \* the replay

threads == <<clock, lines, held, channel>>
main    == <<collected, taken, last_stamp, pc, ticked, replayed>>
replay  == <<lanes2, next_global_seq2, sealed2, draining2, tape2>>

hvars == <<allvars, threads, main, replay>>

Replay == INSTANCE Sequencer WITH
    lanes <- lanes2, next_global_seq <- next_global_seq2, sealed <- sealed2,
    draining <- draining2, tape <- tape2

None == 0           \* no stamp is held
EpochBase == 1      \* what the clock starts from

HarnessInit ==
    /\ IngesterInit
    /\ Replay!Init
    /\ clock = EpochBase
    /\ \E files \in Source :
          lines = [v \in Venue |-> SortedBySeq(ReadNdjson(v, files[v]))]
    /\ held = [v \in Venue |-> None]
    /\ channel = [v \in Venue |-> << >>]
    /\ collected = 0
    /\ taken = [v \in Venue |-> 0]
    /\ last_stamp = 0
    /\ pc = "collect"
    /\ ticked = 0
    /\ replayed = 0

-----------------------------------------------------------------------------
(* The clock and the sender threads; a sleep is any wait before a stamp.   *)

Advance ==
    /\ clock < MaxClock
    /\ clock' = clock + 1
    /\ UNCHANGED <<lines, held, channel, allvars, main, replay>>

TakeStamp(v) ==
    /\ held[v] = None
    /\ Len(channel[v]) < Len(lines[v])
    /\ held' = [held EXCEPT ![v] = clock]
    /\ UNCHANGED <<clock, lines, channel, allvars, main, replay>>

Send(v) ==
    /\ held[v] # None
    /\ channel' = [channel EXCEPT ![v] = Append(@, held[v])]
    /\ held' = [held EXCEPT ![v] = None]
    /\ UNCHANGED <<clock, lines, allvars, main, replay>>

HungUp(v) == Len(channel[v]) = Len(lines[v])

-----------------------------------------------------------------------------
(* The main thread. *)

(* No venue's stamps walk back, nor behind the epoch base. *)
StampsAscend ==
    \A v \in Venue :
        /\ \A n \in 1 .. Len(channel[v]) - 1 : channel[v][n] <= channel[v][n + 1]
        /\ \A n \in DOMAIN channel[v] : channel[v][n] >= EpochBase

(* The next channel is drained to its end, once its sender is gone; when   *)
(* all are, the stamps are checked.                                        *)
Collect ==
    /\ pc = "collect"
    /\ IF collected = K THEN StampsAscend /\ pc' = "catch" /\ UNCHANGED collected
       ELSE HungUp(collected) /\ collected' = collected + 1 /\ UNCHANGED pc
    /\ UNCHANGED <<threads, allvars, taken, last_stamp, ticked, replayed, replay>>

More(v) == taken[v] < Len(lines[v])

NextStamp(v) == channel[v][taken[v] + 1]

(* The arrival merged next: the least stamp, the first venue at a tie. *)
IsNext(v) ==
    /\ More(v)
    /\ \A w \in Venue : More(w) =>
          \/ NextStamp(v) < NextStamp(w)
          \/ NextStamp(v) = NextStamp(w) /\ v <= w

Catch(v) ==
    /\ pc = "catch"
    /\ IsNext(v)
    /\ FillCaught(NextStamp(v), lines[v][taken[v] + 1])
    /\ taken' = [taken EXCEPT ![v] = @ + 1]
    /\ last_stamp' = IF last_stamp < NextStamp(v) THEN NextStamp(v) ELSE last_stamp
    /\ pc' = "drain"
    /\ UNCHANGED <<threads, collected, ticked, replayed, replay>>

(* Mutant: ticked to the last stamp, not past it.                          *)
LastTickAtStamp == last_stamp

LastTick == last_stamp + 1

TickIdle ==
    /\ pc = "catch"
    /\ \A v \in Venue : ~More(v)
    /\ ticked < K
    /\ Tick(ticked, LastTick)
    /\ ticked' = ticked + 1
    /\ pc' = IF ticked' = K THEN "drain" ELSE "catch"
    /\ UNCHANGED <<threads, ivars, collected, taken, last_stamp, replayed, replay>>

CallDrain ==
    /\ pc = "drain"
    /\ DrainReady
    /\ pc' = "draining"
    /\ UNCHANGED <<threads, ivars, collected, taken, last_stamp, ticked, replayed, replay>>

Draining ==
    /\ pc = "draining"
    /\ \/ (\E v \in Venue : DrainEmit(v)) /\ UNCHANGED pc
       \/ DrainReturn /\ pc' = IF ticked = K THEN "idle" ELSE "catch"
    /\ UNCHANGED <<threads, ivars, collected, taken, last_stamp, ticked, replayed, replay>>

(* Nothing is left, and the flush returns an empty vector. *)
FlushNothing ==
    /\ \/ pc = "idle" /\ Buffered = {} /\ Flush /\ pc' = "flush"
       \/ pc = "flush" /\ DrainReturn /\ pc' = "assert"
    /\ UNCHANGED <<threads, ivars, collected, taken, last_stamp, ticked, replayed, replay>>

Places(v) == {i \in DOMAIN tape : tape[i].fill.venue = v}

(* Numbered without a gap, by stamps that never walk back, each venue by   *)
(* its own numbers, and neighbours of one stamp by their venues.           *)
TapeInOrder ==
    /\ \A i \in DOMAIN tape : tape[i].global_seq = i
    /\ \A i \in 1 .. Len(tape) - 1 : tape[i].recv_ts <= tape[i + 1].recv_ts
    /\ \A v \in Venue : \A i, j \in Places(v) : i < j => tape[i].fill.seq < tape[j].fill.seq
    /\ \A i \in 1 .. Len(tape) - 1 :
          tape[i].recv_ts = tape[i + 1].recv_ts => tape[i].fill.venue <= tape[i + 1].fill.venue

AssertTape ==
    /\ pc = "assert"
    /\ Len(tape) = stats.accepted
    /\ stats.out_of_order = 0
    /\ TapeInOrder
    /\ pc' = "replay"
    /\ UNCHANGED <<threads, allvars, collected, taken, last_stamp, ticked, replayed, replay>>

(* All of the first venue, then all of the next, each in the tape's order. *)
VenueMajor ==
    LET order == StablySorted(DOMAIN tape, [i \in DOMAIN tape |-> tape[i].fill.venue])
    IN  [k \in DOMAIN tape |-> tape[order[k]]]

ReplayPush ==
    /\ pc = "replay"
    /\ replayed < Len(tape)
    /\ replayed' = replayed + 1
    /\ LET out == VenueMajor[replayed']
       IN  Replay!Push(out.fill.venue, out.recv_ts, out.fill)
    /\ UNCHANGED <<threads, allvars, collected, taken, last_stamp, pc, ticked>>

ReplayFlush ==
    /\ pc = "replay"
    /\ replayed = Len(tape)
    /\ \/ ~sealed2 /\ Replay!Flush /\ UNCHANGED pc
       \/ (\E v \in Venue : Replay!DrainEmit(v)) /\ UNCHANGED pc
       \/ Replay!DrainReturn /\ pc' = "compare"
    /\ UNCHANGED <<threads, allvars, collected, taken, last_stamp, ticked, replayed>>

Compare ==
    /\ pc = "compare"
    /\ tape2 = tape
    /\ pc' = "overlap"
    /\ UNCHANGED <<threads, allvars, collected, taken, last_stamp, ticked, replayed, replay>>

(* If a later venue began before an earlier one was over, the tape shows   *)
(* the later one in front of some fill of the earlier.                     *)
Interleaved ==
    \A v, w \in Venue :
        (v < w /\ \E i \in Places(v), j \in Places(w) : tape[j].recv_ts < tape[i].recv_ts) =>
            \E i \in Places(v), j \in Places(w) : j < i

(* The last stamp of a venue, or the first, is unwrapped: without a fill   *)
(* of the venue there is none.                                             *)
AssertOverlap ==
    /\ pc = "overlap"
    /\ \/ (\E v \in Venue : Places(v) = {}) /\ pc' = "panicked"
       \/ (\A v \in Venue : Places(v) # {}) /\ Interleaved /\ pc' = "done"
    /\ UNCHANGED <<threads, allvars, collected, taken, last_stamp, ticked, replayed, replay>>

Ended == pc \in {"done", "panicked"} /\ UNCHANGED hvars

Sender(v) == TakeStamp(v) \/ Send(v)

Main ==
    \/ Collect
    \/ \E v \in Venue : Catch(v)
    \/ TickIdle
    \/ CallDrain
    \/ Draining
    \/ FlushNothing
    \/ AssertTape
    \/ ReplayPush
    \/ ReplayFlush
    \/ Compare
    \/ AssertOverlap

HarnessNext ==
    \/ Advance
    \/ \E v \in Venue : Sender(v)
    \/ Main
    \/ Ended

HarnessSpec == HarnessInit /\ [][HarnessNext]_hvars

(* The operating system runs every thread.  Nothing is assumed of the      *)
(* clock: all lines may be stamped within one millisecond.                 *)
FairHarness ==
    /\ HarnessSpec
    /\ \A v \in Venue : WF_hvars(Sender(v))
    /\ WF_hvars(Main)

-----------------------------------------------------------------------------
(* Properties. *)

(* With both streams idle, one tick past the last stamp and one drain      *)
(* leave nothing behind: the tape holds every venue's fills, each with the *)
(* stamp its thread took, before any flush (ordering_realtime.rs:105-113;  *)
(* sequencer.rs:98-109, 123-134; Algo.md I4).                              *)
TicksFinishTheTape ==
    pc \notin {"collect", "catch", "drain", "draining"} =>
        /\ Buffered = {}
        /\ \A v \in Venue : OfVenue(v, Published) = Kept(lines[v])
        /\ \A i \in DOMAIN tape : \E n \in DOMAIN lines[tape[i].fill.venue] :
              /\ channel[tape[i].fill.venue][n] = tape[i].recv_ts
              /\ Canon[lines[tape[i].fill.venue][n].parsed] = tape[i].fill

(* The tape is a function of its stamped fills alone: pushed again one     *)
(* venue after the other and flushed once, they give the tape that         *)
(* incremental drains gave, ties and numbers included                      *)
(* (ordering_realtime.rs:146-157; sequencer.rs:111-170; Algo.md I2, I5).   *)
ReplayReproducesTape ==
    pc \in {"compare", "overlap", "panicked", "done"} => tape2 = tape

(* The harness comes to its end: no thread waits for ever on a channel,    *)
(* and no assertion or unwrap on the way fails, those on stamps, on the    *)
(* tape and its replay, and on overlapping streams included; only files in *)
(* which some venue has nothing to trade end in a panic                    *)
(* (ordering_realtime.rs:44-184).                                          *)
Terminates ==
    <>(pc = IF \A v \in Venue : Kept(lines[v]) # << >> THEN "done" ELSE "panicked")

=============================================================================
