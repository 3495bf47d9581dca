----------------------------- MODULE Sequencer -----------------------------
(***************************************************************************)
(* The K-way merger of crates/ingester/src/sequencer.rs: one FIFO buffer,  *)
(* one recv_ts frontier and one venue_seq guard per venue, and a single    *)
(* writer of global_seq.                                                   *)
(*                                                                         *)
(* Every method takes &mut self, so calls do not overlap.  The drain loop  *)
(* is still unfolded into one step per popped fill: `draining` says which  *)
(* drain is running ("no" between calls) and every other operation waits   *)
(* for "no".  `tape` is the concatenation of all vectors the drains have   *)
(* returned, which is how every caller uses them.                          *)
(***************************************************************************)
EXTENDS SortKey

VARIABLES
    lanes,              \* Venue -> its buffer, frontier and last_seq
    next_global_seq,
    sealed,
    draining,           \* the drain in progress
    tape

vars == <<lanes, next_global_seq, sealed, draining, tape>>

NoSeq == -1     \* last_seq = None

Lane == [buffer : Seq(Stamped), frontier : Nat, last_seq : Nat \cup {NoSeq}]

(* Mutant: a frontier that starts at a sentinel below every stamp.         *)
NewLaneUnstamped == [buffer |-> << >>, frontier |-> NoSeq, last_seq |-> NoSeq]

NewLane == [buffer |-> << >>, frontier |-> 0, last_seq |-> NoSeq]

-----------------------------------------------------------------------------
(* One lane. *)

(* `lane.frontier.max(now_ts)` *)
Ticked(lane, now_ts) ==
    [lane EXCEPT !.frontier = IF @ < now_ts THEN now_ts ELSE @]

(* Mutant: the seal is not checked.                                        *)
PushResultUnsealed(lane, venue, recv_ts, fill) ==
    IF fill.venue # venue THEN "VenueMismatch"
    ELSE IF recv_ts < lane.frontier THEN "RecvTsWalkback"
    ELSE IF lane.last_seq # NoSeq /\ fill.seq <= lane.last_seq THEN "SeqWalkback"
    ELSE "Ok"

(* Mutant: venue_seq may walk back.                                        *)
PushResultAnySeq(lane, venue, recv_ts, fill) ==
    IF sealed THEN "Sealed"
    ELSE IF fill.venue # venue THEN "VenueMismatch"
    ELSE IF recv_ts < lane.frontier THEN "RecvTsWalkback"
    ELSE "Ok"

(* What push answers; the checks are made in this order. *)
PushResult(lane, venue, recv_ts, fill) ==
    IF sealed THEN "Sealed"
    ELSE IF fill.venue # venue THEN "VenueMismatch"
    ELSE IF recv_ts < lane.frontier THEN "RecvTsWalkback"
    ELSE IF lane.last_seq # NoSeq /\ fill.seq <= lane.last_seq THEN "SeqWalkback"
    ELSE "Ok"

(* Mutant: the push leaves the frontier to the ticks.                      *)
PushedBehind(lane, recv_ts, fill) ==
    [buffer   |-> Append(lane.buffer, [recv_ts |-> recv_ts, fill |-> fill]),
     frontier |-> lane.frontier,
     last_seq |-> fill.seq]

Pushed(lane, recv_ts, fill) ==
    [buffer   |-> Append(lane.buffer, [recv_ts |-> recv_ts, fill |-> fill]),
     frontier |-> recv_ts,
     last_seq |-> fill.seq]

Popped(lane) == [lane EXCEPT !.buffer = Tail(@)]

-----------------------------------------------------------------------------
(* The head scan and the emit gate. *)

NonEmpty(v) == lanes[v].buffer # << >>

HeadOf(v) == Head(lanes[v].buffer)

(* Mutant: `<=` in the scan, so that the last lane keeps a tie.            *)
IsBestLast(v) ==
    /\ NonEmpty(v)
    /\ \A w \in Venue : NonEmpty(w) =>
          \/ HeadOf(v).recv_ts < HeadOf(w).recv_ts
          \/ HeadOf(v).recv_ts = HeadOf(w).recv_ts /\ w <= v

(* The scan keeps the first lane with the least stamp. *)
IsBest(v) ==
    /\ NonEmpty(v)
    /\ \A w \in Venue : NonEmpty(w) =>
          \/ HeadOf(v).recv_ts < HeadOf(w).recv_ts
          \/ HeadOf(v).recv_ts = HeadOf(w).recv_ts /\ v <= w

(* Mutants: the scalar watermark `recv_ts <= min(frontier)`, the strict    *)
(* one, and a merge that waits for a head on every lane.                   *)
EmittableAtTie(v, recv_ts) ==
    \A other \in Venue \ {v} : lanes[other].frontier >= recv_ts

EmittableStrict(v, recv_ts) ==
    \A other \in Venue \ {v} : lanes[other].frontier > recv_ts

EmittableByHeads(v, recv_ts) ==
    \A other \in Venue \ {v} : NonEmpty(other)

(* Higher-priority lanes strictly past the stamp, lower-priority lanes at  *)
(* least at it; a lane never gates its own head.                           *)
Emittable(v, recv_ts) ==
    \A other \in Venue \ {v} :
        IF other < v THEN lanes[other].frontier > recv_ts
                     ELSE lanes[other].frontier >= recv_ts

(* Mutant: a flush that is gated like any drain.                           *)
CanEmitGated(v) ==
    /\ IsBest(v)
    /\ Emittable(v, HeadOf(v).recv_ts)

(* The loop of drain pops this lane next. *)
CanEmit(v) ==
    /\ IsBest(v)
    /\ draining = "ready" => Emittable(v, HeadOf(v).recv_ts)

-----------------------------------------------------------------------------
(* The operations. *)

Init ==
    /\ lanes = [v \in Venue |-> NewLane]
    /\ next_global_seq = 1
    /\ sealed = FALSE
    /\ draining = "no"
    /\ tape = << >>

Push(venue, recv_ts, fill) ==
    /\ draining = "no"
    /\ PushResult(lanes[venue], venue, recv_ts, fill) = "Ok"
    /\ lanes' = [lanes EXCEPT ![venue] = Pushed(@, recv_ts, fill)]
    /\ UNCHANGED <<next_global_seq, sealed, draining, tape>>

(* A refused push leaves the sequencer as it was. *)
PushRefused(venue, recv_ts, fill) ==
    /\ draining = "no"
    /\ PushResult(lanes[venue], venue, recv_ts, fill) # "Ok"
    /\ UNCHANGED vars

Tick(venue, now_ts) ==
    /\ draining = "no"
    /\ lanes' = [lanes EXCEPT ![venue] = Ticked(@, now_ts)]
    /\ UNCHANGED <<next_global_seq, sealed, draining, tape>>

DrainReady ==
    /\ draining = "no"
    /\ draining' = "ready"
    /\ UNCHANGED <<lanes, next_global_seq, sealed, tape>>

Flush ==
    /\ draining = "no"
    /\ draining' = "flush"
    /\ sealed' = TRUE
    /\ UNCHANGED <<lanes, next_global_seq, tape>>

(* One turn of the loop in drain. *)
DrainEmit(v) ==
    /\ draining # "no"
    /\ CanEmit(v)
    /\ lanes' = [lanes EXCEPT ![v] = Popped(@)]
    /\ tape' = Append(tape, [global_seq |-> next_global_seq,
                             recv_ts    |-> HeadOf(v).recv_ts,
                             fill       |-> HeadOf(v).fill])
    /\ next_global_seq' = next_global_seq + 1
    /\ UNCHANGED <<sealed, draining>>

(* The loop's break: nothing buffered, or the best head is gated. *)
DrainReturn ==
    /\ draining # "no"
    /\ \A v \in Venue : ~CanEmit(v)
    /\ draining' = "no"
    /\ UNCHANGED <<lanes, next_global_seq, sealed, tape>>

Next ==
    \/ \E v \in Venue, t \in Stamp, f \in Fill :
          Push(v, t, f) \/ PushRefused(v, t, f)
    \/ \E v \in Venue, t \in Stamp : Tick(v, t)
    \/ DrainReady
    \/ Flush
    \/ \E v \in Venue : DrainEmit(v)
    \/ DrainReturn

Spec == Init /\ [][Next]_vars

(* Callers drain after every arrival, and a drain, once called, runs to    *)
(* its end.  Nothing forces pushes, ticks or a flush.                      *)
Fairness ==
    /\ WF_vars(DrainReady)
    /\ WF_vars(\E v \in Venue : DrainEmit(v))
    /\ WF_vars(DrainReturn)

FairSpec == Spec /\ Fairness

-----------------------------------------------------------------------------
(* Properties. *)

TypeOK ==
    /\ lanes \in [Venue -> Lane]
    /\ next_global_seq \in Nat \ {0}
    /\ sealed \in BOOLEAN
    /\ draining \in {"no", "ready", "flush"}
    /\ tape \in Seq(SequencedFill)

Buffered == UNION {Range(lanes[v].buffer) : v \in Venue}

(* However pushes, ticks and drains interleave, the concatenated drains    *)
(* are strictly increasing in SORT_KEY and numbered 1, 2, 3, ... without a *)
(* gap (the head scan and next_global_seq of drain, sequencer.rs:139-169). *)
TapeInSortKeyOrder ==
    \A i, j \in DOMAIN tape :
        /\ tape[i].global_seq = i
        /\ i < j => KeyLess(tape[i], tape[j])

(* What is published is final: neither a fill still buffered nor any fill  *)
(* a lane would still accept sorts before or ties with an entry of the     *)
(* tape (the soundness of the emit gate, sequencer.rs:123-134, against the *)
(* acceptance checks of push, sequencer.rs:63-96).                         *)
PublishedIsFinal ==
    \A i \in DOMAIN tape :
        /\ \A e \in Buffered : KeyLess(tape[i], e)
        /\ \A v \in Venue, t \in Stamp, f \in Fill :
              PushResult(lanes[v], v, t, f) = "Ok" =>
                  KeyLess(tape[i], [recv_ts |-> t, fill |-> f])

(* The earliest key lane w could still be given. *)
LeastPushable(w) ==
    [recv_ts |-> lanes[w].frontier,
     fill    |-> [venue |-> w, seq |-> lanes[w].last_seq + 1]]

(* A ready drain stops only when every fill it leaves behind is unsafe:    *)
(* some other lane could still accept an event that sorts before it.  So   *)
(* the gate is no stricter than it must be, and stopping at the first      *)
(* blocked head never holds back a later head that was safe (the break at  *)
(* sequencer.rs:156-158; Algo.md:133).                                     *)
DrainLeavesOnlyUnsafe ==
    (draining = "ready" /\ \A v \in Venue : ~CanEmit(v)) =>
        \A e \in Buffered : \E w \in Venue \ {e.fill.venue} :
            /\ PushResult(lanes[w], w, lanes[w].frontier,
                          LeastPushable(w).fill) = "Ok"
            /\ KeyLess(LeastPushable(w), e)

(* When a flush has returned, nothing is left behind, and later calls find *)
(* nothing new to publish: the sealed tape is complete and final           *)
(* (sequencer.rs:64-66, 113-116).                                          *)
SealedTapeIsComplete ==
    sealed /\ draining # "flush" => Buffered = {}

(* The merger implements the abstract tape: no stamped fill is lost,       *)
(* invented, repeated or reordered between push and publication, and none  *)
(* is accepted behind the published past or after the seal.                *)
Abstract == INSTANCE Tape WITH
    accepted <- {Unsequenced(tape[i]) : i \in DOMAIN tape} \cup Buffered

ImplementsTape == Abstract!Spec

(* A buffered fill that every frontier has passed is published by the      *)
(* drains that follow, whatever the other calls do: the merge cannot stall *)
(* on a fill that is safe (sequencer.rs:107-109, 123-134).                 *)
SafeFillsArePublished ==
    \A f \in Fill :
        (/\ \E e \in Buffered : e.fill = f /\
              \A w \in Venue : lanes[w].frontier > e.recv_ts)
        ~> (\E i \in DOMAIN tape : tape[i].fill = f)

(* Once flush is called, every buffered fill reaches the tape, whatever    *)
(* the frontiers say (sequencer.rs:113-116).                               *)
FlushPublishesAll == sealed ~> [](Buffered = {})

=============================================================================
