------------------------------ MODULE Ingester -----------------------------
(***************************************************************************)
(* The ingest task of crates/ingester/src/lib.rs on top of the sequencer:  *)
(* fill_caught ticks the venue's lane, canonicalizes the event, tells      *)
(* retransmits from conflicting copies, and pushes what survives.          *)
(*                                                                         *)
(* Canonicalization is a function of the event alone: the instrument       *)
(* source never changes.  A rejected event canonicalizes to Rejected, of   *)
(* which the code's Err(reason) and the remembered `fill: None` are the    *)
(* two faces.                                                              *)
(***************************************************************************)
EXTENDS Sequencer, FiniteSetsExt

CONSTANTS
    RawEvent,       \* what the venues can send, once parsed
    Canon,          \* RawEvent -> the canonical fill, or Rejected
    Rejected,
    Malformed,      \* `parsed` of a line that is not an event
    RawLine,        \* the lines that arrive: wrapper label and payload
    U64,            \* the modulus of unsigned subtraction
    MaxArrivals     \* bound on the calls of fill_caught

ASSUME CanonAssumption ==
    /\ Rejected \notin Fill
    /\ Malformed \notin RawEvent
    /\ RawLine \subseteq [venue : Venue, parsed : RawEvent \cup {Malformed}]
    /\ Canon \in [RawEvent -> Fill \cup {Rejected}]
    /\ \A e \in RawEvent :
          /\ e.venue \in Venue
          /\ Canon[e] # Rejected => /\ Canon[e].venue = e.venue
                                    /\ Canon[e].event_id = e.event_id
ASSUME BoundAssumption == U64 \in Nat \ {0} /\ MaxArrivals \in Nat
ASSUME SeqAssumption   == \A f \in Fill : f.seq < U64     \* seq: u64

VARIABLES
    seen,           \* (venue, event_id) -> the first observed copy
    max_seq,        \* venue -> the last accepted sequence number, or NoSeq
    dead_letters,
    alerts,
    stats,
    arrivals        \* calls of fill_caught so far; bounds the model

ivars == <<seen, max_seq, dead_letters, alerts, stats, arrivals>>

allvars == <<vars, ivars>>

NoId == "no id"     \* String::new(), the id of a malformed line

(* Mutants: a sequence number makes another event of it; ids are shared by *)
(* the venues.                                                             *)
KeyOfNumbered(e) == <<e.venue, e.event_id, e.seq>>

KeyOfIdOnly(e) == <<e.event_id>>

KeyOf(e) == <<e.venue, e.event_id>>

IngesterInit ==
    /\ Init
    /\ seen = << >>
    /\ max_seq = [v \in Venue |-> NoSeq]
    /\ dead_letters = << >>
    /\ alerts = << >>
    /\ stats = [accepted |-> 0, duplicates |-> 0, byzantine |-> 0,
                dead_lettered |-> 0, out_of_order |-> 0, gaps |-> 0]
    /\ arrivals = 0

-----------------------------------------------------------------------------
(* fill_caught, one definition per way out. *)

(* Mutant: the count taken before the caller's.                            *)
DeadLetterRecounts(venue, event_id, reason, line, counted) ==
    /\ dead_letters' = Append(dead_letters,
                              [venue |-> venue, event_id |-> event_id,
                               reason |-> reason, text |-> line.parsed])
    /\ stats' = [stats EXCEPT !.dead_lettered = @ + 1]

(* Quarantine a line; `counted` is what stats already holds by then. *)
DeadLetter(venue, event_id, reason, line, counted) ==
    /\ dead_letters' = Append(dead_letters,
                              [venue |-> venue, event_id |-> event_id,
                               reason |-> reason, text |-> line.parsed])
    /\ stats' = [counted EXCEPT !.dead_lettered = @ + 1]

Reason(kind) == [kind |-> kind, error |-> "Ok"]

OutOfOrder(error) == [kind |-> "OutOfOrder", error |-> error]

(* Two valid copies are compared as canonical fills; otherwise only a      *)
(* verbatim repeat is the same copy.                                       *)
SameCopy(previous, event) ==
    IF previous.fill # Rejected /\ Canon[event] # Rejected
    THEN previous.fill = Canon[event]
    ELSE previous.event = event

(* Mutant: the canonical fill is not kept.                                 *)
RememberRaw(event) ==
    seen' = [k \in DOMAIN seen \cup {KeyOf(event)} |->
                IF k = KeyOf(event)
                THEN [event |-> event, fill |-> Rejected]
                ELSE seen[k]]

Remember(event) ==
    seen' = [k \in DOMAIN seen \cup {KeyOf(event)} |->
                IF k = KeyOf(event)
                THEN [event |-> event, fill |-> Canon[event]]
                ELSE seen[k]]

(* Mutant: the tick overwrites the frontier.                               *)
TickedLaneAnyWay(venue, recv_ts) == [lanes[venue] EXCEPT !.frontier = recv_ts]

TickedLane(venue, recv_ts) == Ticked(lanes[venue], recv_ts)

(* Mutant: only accepted fills move the frontier.                          *)
JustTickNever(venue, recv_ts) == UNCHANGED lanes

JustTick(venue, recv_ts) ==
    lanes' = [lanes EXCEPT ![venue] = TickedLane(venue, recv_ts)]

CatchMalformed(recv_ts, line) ==
    /\ line.parsed = Malformed
    /\ JustTick(line.venue, recv_ts)
    /\ DeadLetter(line.venue, NoId, Reason("Malformed"), line, stats)
    /\ UNCHANGED <<seen, max_seq, alerts>>

CatchRetransmit(recv_ts, line, event) ==
    /\ KeyOf(event) \in DOMAIN seen
    /\ SameCopy(seen[KeyOf(event)], event)
    /\ JustTick(event.venue, recv_ts)
    /\ stats' = [stats EXCEPT !.duplicates = @ + 1]
    /\ UNCHANGED <<seen, max_seq, dead_letters, alerts>>

CatchConflict(recv_ts, line, event) ==
    /\ KeyOf(event) \in DOMAIN seen
    /\ ~SameCopy(seen[KeyOf(event)], event)
    /\ JustTick(event.venue, recv_ts)
    /\ alerts' = Append(alerts, KeyOf(event))
    /\ DeadLetter(event.venue, event.event_id, Reason("Byzantine"), line,
                  [stats EXCEPT !.byzantine = @ + 1])
    /\ UNCHANGED <<seen, max_seq>>

CatchRejected(recv_ts, line, event) ==
    /\ KeyOf(event) \notin DOMAIN seen
    /\ Canon[event] = Rejected
    /\ JustTick(event.venue, recv_ts)
    /\ Remember(event)
    /\ DeadLetter(event.venue, event.event_id, Reason("Rejected"), line, stats)
    /\ UNCHANGED <<max_seq, alerts>>

(* What push answers for a new valid fill, the lane having been ticked. *)
PushAnswer(recv_ts, event) ==
    PushResult(TickedLane(event.venue, recv_ts), event.venue, recv_ts,
               Canon[event])

(* Unsigned, so a walk-back would wrap around. *)
NewGaps(venue, seq) ==
    IF max_seq[venue] = NoSeq THEN 0 ELSE (seq - max_seq[venue] - 1) % U64

CatchAccepted(recv_ts, line, event) ==
    /\ KeyOf(event) \notin DOMAIN seen
    /\ Canon[event] # Rejected
    /\ PushAnswer(recv_ts, event) = "Ok"
    /\ lanes' = [lanes EXCEPT ![event.venue] =
                    Pushed(TickedLane(event.venue, recv_ts), recv_ts,
                           Canon[event])]
    /\ Remember(event)
    /\ max_seq' = [max_seq EXCEPT ![event.venue] = Canon[event].seq]
    /\ stats' = [stats EXCEPT
                    !.gaps = @ + NewGaps(event.venue, Canon[event].seq),
                    !.accepted = @ + 1]
    /\ UNCHANGED <<dead_letters, alerts>>

(* Mutant: an out-of-order event is not remembered.                        *)
CatchOutOfOrderForgets(recv_ts, line, event) ==
    /\ KeyOf(event) \notin DOMAIN seen
    /\ Canon[event] # Rejected
    /\ PushAnswer(recv_ts, event) # "Ok"
    /\ JustTick(event.venue, recv_ts)
    /\ DeadLetter(event.venue, event.event_id,
                  OutOfOrder(PushAnswer(recv_ts, event)), line,
                  [stats EXCEPT !.out_of_order = @ + 1])
    /\ UNCHANGED <<seen, max_seq, alerts>>

CatchOutOfOrder(recv_ts, line, event) ==
    /\ KeyOf(event) \notin DOMAIN seen
    /\ Canon[event] # Rejected
    /\ PushAnswer(recv_ts, event) # "Ok"
    /\ JustTick(event.venue, recv_ts)
    /\ Remember(event)
    /\ DeadLetter(event.venue, event.event_id,
                  OutOfOrder(PushAnswer(recv_ts, event)), line,
                  [stats EXCEPT !.out_of_order = @ + 1])
    /\ UNCHANGED <<max_seq, alerts>>

(* The payload owns its venue: of a parsed line the wrapper's label is not *)
(* read.                                                                   *)
FillCaught(recv_ts, line) ==
    /\ draining = "no"
    /\ arrivals < MaxArrivals
    /\ arrivals' = arrivals + 1
    /\ \/ CatchMalformed(recv_ts, line)
       \/ /\ line.parsed # Malformed
          /\ \/ CatchRetransmit(recv_ts, line, line.parsed)
             \/ CatchConflict(recv_ts, line, line.parsed)
             \/ CatchRejected(recv_ts, line, line.parsed)
             \/ CatchAccepted(recv_ts, line, line.parsed)
             \/ CatchOutOfOrder(recv_ts, line, line.parsed)
    /\ UNCHANGED <<next_global_seq, sealed, draining, tape>>

(* tick, drain_ready and flush hand over to the sequencer. *)
Delegate ==
    /\ \/ \E v \in Venue, t \in Stamp : Tick(v, t)
       \/ DrainReady
       \/ Flush
       \/ \E v \in Venue : DrainEmit(v)
       \/ DrainReturn
    /\ UNCHANGED ivars

IngesterNext ==
    \/ \E recv_ts \in Stamp, line \in RawLine : FillCaught(recv_ts, line)
    \/ Delegate

IngesterSpec == IngesterInit /\ [][IngesterNext]_allvars

-----------------------------------------------------------------------------
(* Properties. *)

Letter ==
    [venue    : Venue,
     event_id : {e.event_id : e \in RawEvent} \cup {NoId},
     reason   : [kind  : {"Malformed", "Byzantine", "Rejected", "OutOfOrder"},
                 error : {"Ok", "Sealed", "VenueMismatch", "RecvTsWalkback",
                          "SeqWalkback"}],
     text     : RawEvent \cup {Malformed}]

IngesterTypeOK ==
    /\ TypeOK
    /\ DOMAIN seen \subseteq {KeyOf(e) : e \in RawEvent}
    /\ \A k \in DOMAIN seen :
          /\ seen[k].event \in RawEvent
          /\ seen[k].fill = Canon[seen[k].event]
    /\ max_seq \in [Venue -> Nat \cup {NoSeq}]
    /\ dead_letters \in Seq(Letter)
    /\ alerts \in Seq(DOMAIN seen)
    /\ stats \in [{"accepted", "duplicates", "byzantine", "dead_lettered",
                   "out_of_order", "gaps"} -> Nat]
    /\ arrivals \in 0 .. MaxArrivals

AcceptedFills ==
    {tape[i].fill : i \in DOMAIN tape} \cup {e.fill : e \in Buffered}

(* The buffered fills, by lane and place. *)
Waiting == UNION {{v} \X DOMAIN lanes[v].buffer : v \in Venue}

Depth == Cardinality(Waiting)

Letters(kind) == {i \in DOMAIN dead_letters : dead_letters[i].reason.kind = kind}

EventOf(f) == <<f.venue, f.event_id>>

(* However often, in whatever form and however late its copies arrive, an  *)
(* event is on the tape or in a buffer at most once, and then as the       *)
(* canonical form of the first copy observed (lib.rs:76-98, 120-135).      *)
OneCopyPerEvent ==
    /\ \A i, j \in DOMAIN tape :
          EventOf(tape[i].fill) = EventOf(tape[j].fill) => i = j
    /\ \A v, w \in Venue :
          \A i \in DOMAIN lanes[v].buffer, j \in DOMAIN lanes[w].buffer :
              EventOf(lanes[v].buffer[i].fill) = EventOf(lanes[w].buffer[j].fill)
                  => v = w /\ i = j
    /\ \A i \in DOMAIN tape, e \in Buffered : EventOf(tape[i].fill) # EventOf(e.fill)
    /\ \A f \in AcceptedFills :
          EventOf(f) \in DOMAIN seen /\ seen[EventOf(f)].fill = f

(* A fill is quarantined as byzantine only against another copy of itself: *)
(* the first copy is an event of the same venue under the same id, is not  *)
(* the same on the wire, and is not the same once canonical.  Neither the  *)
(* other venue's ids nor a reformatted retransmit are ever taken for a     *)
(* conflict (lib.rs:72-98).                                                *)
ConflictsAreReal ==
    \A i \in Letters("Byzantine") :
        LET letter == dead_letters[i]
            first  == seen[KeyOf(letter.text)]
        IN  /\ first.event.venue = letter.venue
            /\ first.event.event_id = letter.event_id
            /\ first.event # letter.text
            /\ first.fill # Rejected => Canon[letter.text] # first.fill

(* Nothing is lost silently: every arrival is an accepted fill, a counted  *)
(* duplicate or a dead letter, the counters agree with the queues they     *)
(* count, and accepted fills are exactly those buffered or on the tape     *)
(* (lib.rs:100-152, 186-202; Algo.md I8).                                  *)
Accounting ==
    /\ arrivals = stats.accepted + stats.duplicates + stats.dead_lettered
    /\ stats.accepted = Len(tape) + Depth
    /\ stats.dead_lettered = Len(dead_letters)
    /\ stats.byzantine = Len(alerts)
    /\ stats.byzantine = Cardinality(Letters("Byzantine"))
    /\ stats.out_of_order = Cardinality(Letters("OutOfOrder"))

(* The gaps of a venue: numbers between its first and last accepted fill   *)
(* that no accepted fill carries.                                          *)
Missing(v) ==
    LET seqs == {f.seq : f \in {g \in AcceptedFills : g.venue = v}}
    IN  IF seqs = {} THEN {} ELSE (Min(seqs) .. Max(seqs)) \ seqs

(* stats.gaps, summed one push at a time with unsigned subtraction, is the *)
(* number of sequence numbers missing from the accepted fills: it never    *)
(* wraps and never counts a number twice, whatever was quarantined in      *)
(* between (lib.rs:122-125).                                               *)
GapsCountMissing ==
    stats.gaps = Cardinality(UNION {{v} \X Missing(v) : v \in Venue})

(* A fill quarantined as rejected or out of order stays off the tape for   *)
(* good, and its retransmits do not quarantine it again (lib.rs:116-119,   *)
(* 136-148).                                                               *)
QuarantinedOnce ==
    LET quarantined == Letters("Rejected") \cup Letters("OutOfOrder")
        Key(i) == KeyOf(dead_letters[i].text)
    IN  \A i \in quarantined :
          /\ \A f \in AcceptedFills : KeyOf(f) # Key(i)
          /\ \A j \in quarantined \ {i} : Key(j) # Key(i)

(* Every arrival, whatever becomes of it, moves its venue's frontier up to *)
(* its stamp, so that bad traffic on one venue cannot hold back the other  *)
(* (lib.rs:66-67, 75; Algo.md I4).                                         *)
ArrivalsAdvanceFrontier ==
    [][\A t \in Stamp, line \in RawLine : FillCaught(t, line) =>
          LET v == IF line.parsed = Malformed THEN line.venue
                                              ELSE line.parsed.venue
          IN  lanes'[v].frontier >= t]_allvars

(* fill_caught ticks the lane and pushes onto it in one call; taken        *)
(* together the two are still one step of the sequencer, so all the        *)
(* sequencer promises holds of the ingester (lib.rs:75, 120).              *)
ImplementsSequencer == Spec

-----------------------------------------------------------------------------
(* What the source's comments say. *)

(* types/src/ingest.rs:20-22: an OutOfOrder letter means that venue_seq or *)
(* recv_ts walked back.                                                    *)
OutOfOrderMeansWalkback ==
    \A i \in Letters("OutOfOrder") :
        dead_letters[i].reason.error \in {"RecvTsWalkback", "SeqWalkback"}

(* lib.rs:16-17: of several copies, the first correct one is canonical; so *)
(* a copy is quarantined as a conflict only when an earlier copy was       *)
(* correct, or when it is not correct itself.                              *)
FirstCorrectCopyIsCanonical ==
    \A i \in Letters("Byzantine") :
        \/ Canon[dead_letters[i].text] = Rejected
        \/ seen[KeyOf(dead_letters[i].text)].fill # Rejected

=============================================================================
