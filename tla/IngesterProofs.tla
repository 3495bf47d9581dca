--------------------------- MODULE IngesterProofs --------------------------
(***************************************************************************)
(* The ingester is a sequencer: each of its steps, fill_caught with its    *)
(* tick and its push included, is one step of Sequencer or leaves the      *)
(* sequencer alone.  What is proved of Sequencer then holds of it.         *)
(*                                                                         *)
(* What it remembers is sound.  The inductive invariant is Known: `seen`   *)
(* holds, per id, an event of that id and what it canonicalizes to; letters *)
(* name events seen; an accepted fill is the one remembered for its event  *)
(* and has one place, in a buffer or on the tape; no quarantined event has *)
(* one; and max_seq is the lanes' last_seq.                                *)
(*                                                                         *)
(* Its counters, at the end, count what they say.                          *)
(***************************************************************************)
EXTENDS Ingester, SequencerProofs, SequenceTheorems, FiniteSetTheorems

(* A push the ticked lane accepts, the lane as it was accepts too, and     *)
(* with the same effect.                                                   *)
LEMMA TickThenPushIsPush ==
    ASSUME NEW lane \in Lane, NEW v \in Venue, NEW t \in Stamp, NEW f \in Fill,
           PushResult(Ticked(lane, t), v, t, f) = "Ok"
    PROVE  /\ PushResult(lane, v, t, f) = "Ok"
           /\ Pushed(Ticked(lane, t), t, f) = Pushed(lane, t, f)
<1>1. /\ lane.frontier \in Nat /\ t \in Nat
      /\ Ticked(lane, t).buffer = lane.buffer
      /\ Ticked(lane, t).last_seq = lane.last_seq
      /\ Ticked(lane, t).frontier
            = IF lane.frontier < t THEN t ELSE lane.frontier
  BY StampedKey DEF Ticked, Lane
<1>2. PushResult(lane, v, t, f) = "Ok"
  BY <1>1 DEF PushResult
<1>3. Pushed(Ticked(lane, t), t, f) = Pushed(lane, t, f)
  BY <1>1 DEF Pushed
<1> QED
  BY <1>2, <1>3

LEMMA CatchIsSequencerStep ==
    ASSUME TypeOK, NEW t \in Stamp, NEW line \in RawLine, FillCaught(t, line)
    PROVE  Next
<1>1. /\ draining = "no"
      /\ UNCHANGED <<next_global_seq, sealed, draining, tape>>
      /\ line.venue \in Venue
      /\ line.parsed # Malformed => line.parsed \in RawEvent
      /\ \A e \in RawEvent : e.venue \in Venue /\ Canon[e] \in Fill \cup {Rejected}
  BY CanonAssumption DEF FillCaught
<1>2. ASSUME NEW v \in Venue, JustTick(v, t)
      PROVE  Next
  <2>1. Tick(v, t)
    BY <1>1, <1>2 DEF JustTick, TickedLane, Tick
  <2> QED
    BY <2>1 DEF Next
<1>3. CASE CatchMalformed(t, line)
  BY <1>1, <1>2, <1>3 DEF CatchMalformed
<1>4. CASE line.parsed # Malformed
  <2> DEFINE e == line.parsed
  <2>1. e \in RawEvent /\ e.venue \in Venue
    BY <1>1, <1>4
  <2>2. CASE CatchRetransmit(t, line, e)
    BY <1>2, <2>1, <2>2 DEF CatchRetransmit
  <2>3. CASE CatchConflict(t, line, e)
    BY <1>2, <2>1, <2>3 DEF CatchConflict
  <2>4. CASE CatchRejected(t, line, e)
    BY <1>2, <2>1, <2>4 DEF CatchRejected
  <2>5. CASE CatchOutOfOrder(t, line, e)
    BY <1>2, <2>1, <2>5 DEF CatchOutOfOrder
  <2>6. CASE CatchAccepted(t, line, e)
    <3> DEFINE v == e.venue
               f == Canon[e]
    <3>1. /\ v \in Venue /\ f \in Fill /\ lanes[v] \in Lane
          /\ PushResult(Ticked(lanes[v], t), v, t, f) = "Ok"
          /\ lanes' = [lanes EXCEPT ![v] = Pushed(Ticked(lanes[v], t), t, f)]
      BY <1>1, <2>1, <2>6 DEF CatchAccepted, PushAnswer, TickedLane, TypeOK
    <3> HIDE DEF v, f
    <3>2. /\ PushResult(lanes[v], v, t, f) = "Ok"
          /\ Pushed(Ticked(lanes[v], t), t, f) = Pushed(lanes[v], t, f)
      BY <3>1, TickThenPushIsPush
    <3>3. Push(v, t, f)
      BY <1>1, <3>1, <3>2 DEF Push
    <3> QED
      BY <3>1, <3>3 DEF Next
  <2> QED
    BY <1>4, <2>2, <2>3, <2>4, <2>5, <2>6 DEF FillCaught, CatchMalformed
<1> QED
  BY <1>3, <1>4 DEF FillCaught

LEMMA IngesterStepIsSequencerStep ==
    TypeOK /\ [IngesterNext]_allvars => [Next]_vars
<1>1. ASSUME TypeOK, NEW t \in Stamp, NEW line \in RawLine, FillCaught(t, line)
      PROVE  Next
  BY <1>1, CatchIsSequencerStep
<1>2. ASSUME Delegate
      PROVE  Next
  BY <1>2 DEF Delegate, Next
<1>3. UNCHANGED allvars => UNCHANGED vars
  BY DEF allvars
<1> QED
  BY <1>1, <1>2, <1>3 DEF IngesterNext

(* Every behaviour of the ingester is one of the sequencer. *)
THEOREM IngesterRefinement == IngesterSpec => ImplementsSequencer
<1>1. IngesterInit => Init
  BY DEF IngesterInit
<1> QED
  BY <1>1, TypeInit, IngesterStepIsSequencerStep, TypeStep, PTL
     DEF IngesterSpec, Spec, ImplementsSequencer

(* So whatever mixture of lines, duplicates, conflicts and malformed input *)
(* is caught, the published tape is in order and final.                    *)
THEOREM IngesterTape == IngesterSpec => [](TapeInSortKeyOrder /\ PublishedIsFinal)
BY IngesterRefinement, TapeOrder, Finality, PTL DEF ImplementsSequencer

-----------------------------------------------------------------------------
(* The ways out of fill_caught, by what they change. *)

(* Nothing is pushed. *)
BuffersKept ==
    \A v \in Venue : /\ lanes'[v].buffer = lanes[v].buffer
                     /\ lanes'[v].last_seq = lanes[v].last_seq

(* The first copy of an event is remembered. *)
FirstSeen(e) == KeyOf(e) \notin DOMAIN seen /\ Remember(e)

Buffers(e, t) ==
    /\ FirstSeen(e)
    /\ Canon[e] \in Fill /\ e.venue \in Venue
    /\ max_seq' = [max_seq EXCEPT ![e.venue] = Canon[e].seq]
    /\ \A v \in Venue :
          lanes'[v] = IF v = e.venue
                      THEN Pushed(Ticked(lanes[v], t), t, Canon[e])
                      ELSE lanes[v]
    /\ dead_letters' = dead_letters

(* A dead letter of an event names it; one is byzantine against a copy     *)
(* already seen, another only of an event not seen before.                 *)
Quarantines(letter) ==
    /\ letter \in Letter
    /\ dead_letters' = Append(dead_letters, letter)
    /\ letter.reason.kind # "Malformed" =>
          /\ letter.text \in RawEvent
          /\ letter.venue = letter.text.venue
          /\ letter.event_id = letter.text.event_id
    /\ letter.reason.kind = "Malformed" => seen' = seen
    /\ letter.reason.kind = "Byzantine" =>
          /\ seen' = seen
          /\ KeyOf(letter.text) \in DOMAIN seen
          /\ ~SameCopy(seen[KeyOf(letter.text)], letter.text)
    /\ letter.reason.kind \in {"Rejected", "OutOfOrder"} => FirstSeen(letter.text)

LEMMA JustTickEffect ==
    ASSUME TypeOK, NEW v \in Venue, NEW t \in Stamp, JustTick(v, t)
    PROVE  BuffersKept /\ lanes'[v].frontier >= t
<1>1. \A w \in Venue : lanes'[w] = IF w = v THEN Ticked(lanes[v], t) ELSE lanes[w]
  BY DEF JustTick, TickedLane, TypeOK
<1>2. lanes[v].frontier \in Nat /\ t \in Nat
  BY StampedKey DEF TypeOK, Lane
<1>3. /\ Ticked(lanes[v], t).buffer = lanes[v].buffer
      /\ Ticked(lanes[v], t).last_seq = lanes[v].last_seq
      /\ Ticked(lanes[v], t).frontier
            = IF lanes[v].frontier < t THEN t ELSE lanes[v].frontier
  BY DEF Ticked, TypeOK, Lane
<1> QED
  BY <1>1, <1>2, <1>3 DEF BuffersKept

LEMMA RawEventTypes ==
    /\ \A line \in RawLine : /\ line.venue \in Venue
                             /\ line.parsed \in RawEvent \cup {Malformed}
    /\ \A e \in RawEvent :
          /\ e.venue \in Venue /\ e # Malformed
          /\ Canon[e] \in Fill \cup {Rejected}
          /\ Canon[e] # Rejected => Canon[e] \in Fill /\ EventOf(Canon[e]) = KeyOf(e)
BY CanonAssumption DEF EventOf, KeyOf

LEMMA PushAnswers ==
    ASSUME NEW lane, NEW v, NEW t, NEW f
    PROVE  PushResult(lane, v, t, f) \in
              {"Ok", "Sealed", "VenueMismatch", "RecvTsWalkback", "SeqWalkback"}
BY DEF PushResult

(* Every way out is one of these: a repetition, an accepted fill, a letter. *)
LEMMA CatchCases ==
    ASSUME TypeOK, NEW t \in Stamp, NEW line \in RawLine, FillCaught(t, line)
    PROVE  /\ tape' = tape
           /\ \/ BuffersKept /\ max_seq' = max_seq /\ seen' = seen
                 /\ dead_letters' = dead_letters
              \/ \E letter : BuffersKept /\ max_seq' = max_seq /\ Quarantines(letter)
              \/ \E e \in RawEvent : Buffers(e, t)
<1> DEFINE e == line.parsed
<1>1. /\ line.venue \in Venue /\ e \in RawEvent \cup {Malformed}
      /\ tape' = tape
  BY RawEventTypes DEF FillCaught
<1>2. CASE CatchMalformed(t, line)
  <2> DEFINE letter == [venue |-> line.venue, event_id |-> NoId,
                        reason |-> Reason("Malformed"), text |-> e]
  <2>1. /\ JustTick(line.venue, t) /\ e = Malformed
        /\ dead_letters' = Append(dead_letters, letter)
        /\ seen' = seen /\ max_seq' = max_seq
    BY <1>2 DEF CatchMalformed, DeadLetter
  <2>2. letter \in Letter /\ letter.reason.kind = "Malformed"
    BY <1>1 DEF Letter, Reason
  <2> HIDE DEF letter
  <2>3. Quarantines(letter)
    BY <2>1, <2>2 DEF Quarantines
  <2> QED
    BY <1>1, <2>1, <2>3, JustTickEffect
<1>3. CASE e # Malformed
  <2>1. e \in RawEvent /\ e.venue \in Venue
    BY <1>1, <1>3, RawEventTypes
  <2>2. CASE CatchRetransmit(t, line, e)
    BY <1>1, <2>1, <2>2, JustTickEffect DEF CatchRetransmit
  <2>3. CASE CatchConflict(t, line, e)
    <3> DEFINE letter == [venue |-> e.venue, event_id |-> e.event_id,
                          reason |-> Reason("Byzantine"), text |-> e]
    <3>1. /\ JustTick(e.venue, t)
          /\ dead_letters' = Append(dead_letters, letter)
          /\ seen' = seen /\ max_seq' = max_seq
          /\ KeyOf(e) \in DOMAIN seen /\ ~SameCopy(seen[KeyOf(e)], e)
      BY <2>3 DEF CatchConflict, DeadLetter
    <3>2. /\ letter \in Letter /\ letter.reason.kind = "Byzantine"
          /\ letter.text = e /\ letter.venue = e.venue /\ letter.event_id = e.event_id
      BY <2>1 DEF Letter, Reason
    <3> HIDE DEF letter, e
    <3>3. Quarantines(letter)
      BY <2>1, <3>1, <3>2 DEF Quarantines
    <3> QED
      BY <1>1, <2>1, <3>1, <3>3, JustTickEffect
  <2>4. CASE CatchRejected(t, line, e)
    <3> DEFINE letter == [venue |-> e.venue, event_id |-> e.event_id,
                          reason |-> Reason("Rejected"), text |-> e]
    <3>1. /\ JustTick(e.venue, t)
          /\ dead_letters' = Append(dead_letters, letter)
          /\ FirstSeen(e) /\ max_seq' = max_seq
      BY <2>4 DEF CatchRejected, DeadLetter, FirstSeen
    <3>2. /\ letter \in Letter /\ letter.reason.kind = "Rejected"
          /\ letter.text = e /\ letter.venue = e.venue /\ letter.event_id = e.event_id
      BY <2>1 DEF Letter, Reason
    <3> HIDE DEF letter, e
    <3>3. Quarantines(letter)
      BY <2>1, <3>1, <3>2 DEF Quarantines
    <3> QED
      BY <1>1, <2>1, <3>1, <3>3, JustTickEffect
  <2>5. CASE CatchOutOfOrder(t, line, e)
    <3> DEFINE answer == PushAnswer(t, e)
               letter == [venue |-> e.venue, event_id |-> e.event_id,
                          reason |-> OutOfOrder(answer), text |-> e]
    <3>1. /\ JustTick(e.venue, t)
          /\ dead_letters' = Append(dead_letters, letter)
          /\ FirstSeen(e) /\ max_seq' = max_seq
      BY <2>5 DEF CatchOutOfOrder, DeadLetter, FirstSeen
    <3>2. answer \in {"Ok", "Sealed", "VenueMismatch", "RecvTsWalkback", "SeqWalkback"}
      BY PushAnswers DEF PushAnswer
    <3> HIDE DEF answer
    <3>3. /\ letter \in Letter /\ letter.reason.kind = "OutOfOrder"
          /\ letter.text = e /\ letter.venue = e.venue /\ letter.event_id = e.event_id
      BY <2>1, <3>2 DEF Letter, OutOfOrder
    <3> HIDE DEF letter, e
    <3>4. Quarantines(letter)
      BY <2>1, <3>1, <3>3 DEF Quarantines
    <3> QED
      BY <1>1, <2>1, <3>1, <3>4, JustTickEffect
  <2>6. CASE CatchAccepted(t, line, e)
    <3>1. Canon[e] \in Fill
      BY <2>1, <2>6, RawEventTypes DEF CatchAccepted
    <3>2. Buffers(e, t)
      BY <2>1, <2>6, <3>1 DEF CatchAccepted, Buffers, FirstSeen, TickedLane, TypeOK
    <3> QED
      BY <1>1, <2>1, <3>2
  <2> QED
    BY <1>3, <2>2, <2>3, <2>4, <2>5, <2>6 DEF FillCaught, CatchMalformed
<1> QED
  BY <1>2, <1>3 DEF FillCaught

-----------------------------------------------------------------------------
(* The frontier. *)

(* Whatever becomes of an arrival, its venue's frontier reaches its stamp: *)
(* bad traffic on one venue never holds back the other.                    *)
THEOREM ArrivalsAdvance == IngesterSpec => ArrivalsAdvanceFrontier
<1>1. ASSUME TypeOK, NEW t \in Stamp, NEW line \in RawLine, FillCaught(t, line)
      PROVE  lanes'[IF line.parsed = Malformed THEN line.venue
                                               ELSE line.parsed.venue].frontier >= t
  <2> DEFINE e == line.parsed
             v == IF e = Malformed THEN line.venue ELSE e.venue
  <2>1. v \in Venue
    BY RawEventTypes
  <2>2. CASE JustTick(v, t)
    BY <1>1, <2>1, <2>2, JustTickEffect
  <2>3. CASE e # Malformed /\ CatchAccepted(t, line, e)
    <3>1. lanes'[v].frontier = t
      BY <1>1, <2>1, <2>3 DEF CatchAccepted, Pushed, TypeOK
    <3> QED
      BY <3>1, StampedKey
  <2>4. JustTick(v, t) \/ (e # Malformed /\ CatchAccepted(t, line, e))
    BY <1>1 DEF FillCaught, CatchMalformed, CatchRetransmit, CatchConflict,
                CatchRejected, CatchOutOfOrder
  <2> QED
    BY <2>2, <2>3, <2>4
<1>2. TypeOK /\ [IngesterNext]_allvars =>
         [\A t \in Stamp, line \in RawLine : FillCaught(t, line) =>
             LET v == IF line.parsed = Malformed THEN line.venue
                                                 ELSE line.parsed.venue
             IN  lanes'[v].frontier >= t]_allvars
  BY <1>1
<1>3. IngesterSpec => []TypeOK
  BY IngesterRefinement, TypeCorrect, PTL DEF ImplementsSequencer
<1> QED
  BY <1>2, <1>3, PTL DEF IngesterSpec, ArrivalsAdvanceFrontier

-----------------------------------------------------------------------------
(* What the ingester knows. *)

(* What is remembered under a key is a copy of the event of that key. *)
SeenSound ==
    \A k \in DOMAIN seen : /\ seen[k].event \in RawEvent
                           /\ seen[k].fill = Canon[seen[k].event]
                           /\ KeyOf(seen[k].event) = k

(* A dead letter names its event, which is remembered. *)
LettersSound ==
    /\ dead_letters \in Seq(Letter)
    /\ \A i \in DOMAIN dead_letters :
          LET letter == dead_letters[i] IN
          /\ letter.reason.kind # "Malformed" =>
                /\ letter.text \in RawEvent
                /\ letter.venue = letter.text.venue
                /\ letter.event_id = letter.text.event_id
                /\ KeyOf(letter.text) \in DOMAIN seen
          /\ letter.reason.kind = "Byzantine" =>
                ~SameCopy(seen[KeyOf(letter.text)], letter.text)

(* Nothing is accepted that is not the remembered copy of its event. *)
AcceptedKnown ==
    \A f \in AcceptedFills : EventOf(f) \in DOMAIN seen /\ seen[EventOf(f)].fill = f

(* No event has two places. *)
PlacedOnce ==
    /\ \A i, j \in DOMAIN tape :
          EventOf(tape[i].fill) = EventOf(tape[j].fill) => i = j
    /\ \A v, w \in Venue :
          \A i \in DOMAIN lanes[v].buffer, j \in DOMAIN lanes[w].buffer :
              EventOf(lanes[v].buffer[i].fill) = EventOf(lanes[w].buffer[j].fill)
                  => v = w /\ i = j
    /\ \A i \in DOMAIN tape, v \in Venue : \A j \in DOMAIN lanes[v].buffer :
          EventOf(tape[i].fill) # EventOf(lanes[v].buffer[j].fill)

Quarantined(i) ==
    i \in DOMAIN dead_letters /\ dead_letters[i].reason.kind \in {"Rejected", "OutOfOrder"}

QuarantinedApart ==
    \A i \in DOMAIN dead_letters : Quarantined(i) =>
        /\ \A f \in AcceptedFills : EventOf(f) # KeyOf(dead_letters[i].text)
        /\ \A j \in DOMAIN dead_letters : Quarantined(j) /\ j # i =>
              KeyOf(dead_letters[j].text) # KeyOf(dead_letters[i].text)

(* The ingester's guard on the sequence numbers is the lane's. *)
MaxSeqIsLastSeq == max_seq = [v \in Venue |-> lanes[v].last_seq]

Known ==
    /\ TypeOK
    /\ SeenSound
    /\ LettersSound
    /\ AcceptedKnown
    /\ PlacedOnce
    /\ QuarantinedApart
    /\ MaxSeqIsLastSeq

LEMMA Membership ==
    ASSUME NEW f
    PROVE  f \in AcceptedFills <=>
              \/ \E i \in DOMAIN tape : tape[i].fill = f
              \/ \E v \in Venue : \E j \in DOMAIN lanes[v].buffer :
                    lanes[v].buffer[j].fill = f
BY DEF AcceptedFills, Buffered, Range

LEMMA RememberEffect ==
    ASSUME SeenSound, NEW e \in RawEvent, FirstSeen(e)
    PROVE  /\ SeenSound'
           /\ DOMAIN seen' = DOMAIN seen \cup {KeyOf(e)}
           /\ \A k \in DOMAIN seen : seen'[k] = seen[k]
           /\ seen'[KeyOf(e)].fill = Canon[e]
<1>1. /\ KeyOf(e) \notin DOMAIN seen
      /\ seen' = [k \in DOMAIN seen \cup {KeyOf(e)} |->
                    IF k = KeyOf(e) THEN [event |-> e, fill |-> Canon[e]] ELSE seen[k]]
  BY DEF FirstSeen, Remember
<1>2. /\ DOMAIN seen' = DOMAIN seen \cup {KeyOf(e)}
      /\ \A k \in DOMAIN seen : seen'[k] = seen[k]
      /\ seen'[KeyOf(e)] = [event |-> e, fill |-> Canon[e]]
  BY <1>1
<1>3. SeenSound'
  BY <1>2 DEF SeenSound, KeyOf
<1> QED
  BY <1>2, <1>3

(* The steps, by what they change. *)
LEMMA StepCases ==
    ASSUME TypeOK, [IngesterNext]_allvars
    PROVE  \/ /\ BuffersKept /\ UNCHANGED <<tape, max_seq, seen, dead_letters>>
           \/ /\ BuffersKept /\ UNCHANGED <<tape, max_seq>>
              /\ \E letter : Quarantines(letter)
           \/ /\ tape' = tape
              /\ \E e \in RawEvent, t \in Stamp : Buffers(e, t)
           \/ /\ \E v \in Venue : DrainEmit(v)
              /\ UNCHANGED <<max_seq, seen, dead_letters>>
<1>1. ASSUME NEW t \in Stamp, NEW line \in RawLine, FillCaught(t, line)
      PROVE  \/ /\ BuffersKept /\ UNCHANGED <<tape, max_seq, seen, dead_letters>>
             \/ /\ BuffersKept /\ UNCHANGED <<tape, max_seq>>
                /\ \E letter : Quarantines(letter)
             \/ /\ tape' = tape
                /\ \E e \in RawEvent, s \in Stamp : Buffers(e, s)
  BY <1>1, CatchCases
<1>2. CASE Delegate
  <2>1. UNCHANGED <<max_seq, seen, dead_letters>>
    BY <1>2 DEF Delegate, ivars
  <2>2. ASSUME NEW v \in Venue, NEW t \in Stamp, Tick(v, t)
        PROVE  BuffersKept /\ tape' = tape
    BY <2>2, JustTickEffect DEF Tick, JustTick, TickedLane, TypeOK
  <2>3. DrainReady \/ Flush \/ DrainReturn => BuffersKept /\ tape' = tape
    BY DEF DrainReady, Flush, DrainReturn, BuffersKept
  <2> QED
    BY <1>2, <2>1, <2>2, <2>3 DEF Delegate
<1>3. CASE UNCHANGED allvars
  BY <1>3 DEF allvars, vars, ivars, BuffersKept
<1> QED
  BY <1>1, <1>2, <1>3 DEF IngesterNext

-----------------------------------------------------------------------------
(* What each kind of step does to the places of the fills. *)

LEMMA KeptPlaces ==
    ASSUME BuffersKept, tape' = tape
    PROVE  /\ AcceptedFills' = AcceptedFills
           /\ PlacedOnce => PlacedOnce'
<1>1. \A v \in Venue : lanes'[v].buffer = lanes[v].buffer
  BY DEF BuffersKept
<1>2. Buffered' = Buffered
  BY <1>1 DEF Buffered
<1> QED
  BY <1>1, <1>2 DEF AcceptedFills, PlacedOnce

(* A push: one more place, at the end of its lane. *)
LEMMA PushedPlaces ==
    ASSUME TypeOK, NEW e \in RawEvent, NEW t \in Stamp, Buffers(e, t), tape' = tape
    PROVE  \A w \in Venue : \A j \in DOMAIN lanes'[w].buffer :
              LET new == lanes'[w].buffer[j].fill IN
              \/ j \in DOMAIN lanes[w].buffer /\ new = lanes[w].buffer[j].fill
              \/ w = e.venue /\ j = Len(lanes[w].buffer) + 1 /\ new = Canon[e]
<1> SUFFICES ASSUME NEW w \in Venue, NEW j \in DOMAIN lanes'[w].buffer
             PROVE  LET new == lanes'[w].buffer[j].fill IN
                    \/ j \in DOMAIN lanes[w].buffer /\ new = lanes[w].buffer[j].fill
                    \/ w = e.venue /\ j = Len(lanes[w].buffer) + 1 /\ new = Canon[e]
  OBVIOUS
<1>1. lanes[w] \in Lane /\ lanes[w].buffer \in Seq(Stamped)
  BY DEF TypeOK, Lane
<1>2. CASE w # e.venue
  BY <1>2 DEF Buffers
<1>3. CASE w = e.venue
  <2>1. lanes'[w].buffer = Append(lanes[w].buffer, [recv_ts |-> t, fill |-> Canon[e]])
    <3>1. Ticked(lanes[w], t).buffer = lanes[w].buffer
      BY <1>1 DEF Ticked, Lane
    <3>2. lanes'[w] = Pushed(Ticked(lanes[w], t), t, Canon[e])
      BY <1>3 DEF Buffers
    <3> QED
      BY <3>1, <3>2 DEF Pushed
  <2> DEFINE n == Len(lanes[w].buffer)
             b == lanes'[w].buffer
  <2>2. /\ n \in Nat /\ DOMAIN lanes[w].buffer = 1 .. n /\ DOMAIN b = 1 .. (n + 1)
        /\ \A i \in 1 .. n : b[i] = lanes[w].buffer[i]
        /\ b[n + 1] = [recv_ts |-> t, fill |-> Canon[e]]
    BY <1>1, <2>1
  <2> HIDE DEF n, b
  <2>3. /\ j \in 1 .. n => b[j] = lanes[w].buffer[j]
        /\ j \in 1 .. n \/ j = n + 1
    BY <2>2 DEF b
  <2>4. j = n + 1 => b[j].fill = Canon[e]
    BY <2>2
  <2> QED
    BY <1>3, <2>2, <2>3, <2>4 DEF n, b
<1> QED
  BY <1>2, <1>3

LEMMA PushedFills ==
    ASSUME TypeOK, NEW e \in RawEvent, NEW t \in Stamp, Buffers(e, t), tape' = tape
    PROVE  \A f \in AcceptedFills' : f \in AcceptedFills \/ f = Canon[e]
<1> SUFFICES ASSUME NEW f \in AcceptedFills'
             PROVE  f \in AcceptedFills \/ f = Canon[e]
  OBVIOUS
<1>1. \/ \E i \in DOMAIN tape : tape[i].fill = f
      \/ \E v \in Venue : \E j \in DOMAIN lanes'[v].buffer : lanes'[v].buffer[j].fill = f
  BY DEF AcceptedFills, Buffered, Range
<1>2. ASSUME NEW v \in Venue, NEW j \in DOMAIN lanes'[v].buffer,
             lanes'[v].buffer[j].fill = f
      PROVE  f \in AcceptedFills \/ f = Canon[e]
  BY <1>2, PushedPlaces, Membership
<1> QED
  BY <1>1, <1>2, Membership

(* The head of lane v moves to the end of the tape. *)
LEMMA EmittedPlaces ==
    ASSUME TypeOK, NEW v \in Venue, DrainEmit(v)
    PROVE  /\ 1 \in DOMAIN lanes[v].buffer
           /\ Len(tape) \in Nat /\ DOMAIN tape = 1 .. Len(tape)
           /\ DOMAIN tape' = 1 .. (Len(tape) + 1)
           /\ \A i \in DOMAIN tape : tape'[i] = tape[i]
           /\ tape'[Len(tape) + 1].fill = lanes[v].buffer[1].fill
           /\ \A w \in Venue : DOMAIN lanes[w].buffer \subseteq Nat \ {0}
           /\ \A w \in Venue : \A j \in DOMAIN lanes'[w].buffer :
                 LET old == IF w = v THEN j + 1 ELSE j IN
                 /\ j \in Nat \ {0}
                 /\ old \in DOMAIN lanes[w].buffer
                 /\ lanes'[w].buffer[j] = lanes[w].buffer[old]
<1>1. /\ lanes[v].buffer \in Seq(Stamped) /\ lanes[v].buffer # << >>
      /\ lanes[v] \in Lane /\ tape \in Seq(SequencedFill)
      /\ \A w \in Venue : lanes[w].buffer \in Seq(Stamped)
  BY DEF TypeOK, Lane, DrainEmit, CanEmit, IsBest, NonEmpty
<1>2. \A w \in Venue : lanes'[w] = IF w = v THEN Popped(lanes[v]) ELSE lanes[w]
  BY DEF DrainEmit, TypeOK
<1>3. Popped(lanes[v]).buffer = Tail(lanes[v].buffer)
  BY <1>1 DEF Popped, Lane
<1>4. /\ 1 \in DOMAIN lanes[v].buffer
      /\ Len(tape) \in Nat /\ DOMAIN tape = 1 .. Len(tape)
      /\ \A w \in Venue : DOMAIN lanes[w].buffer \subseteq Nat \ {0}
  BY <1>1
<1>5. /\ DOMAIN tape' = 1 .. (Len(tape) + 1)
      /\ \A i \in DOMAIN tape : tape'[i] = tape[i]
      /\ tape'[Len(tape) + 1].fill = lanes[v].buffer[1].fill
  BY <1>1 DEF DrainEmit, HeadOf
<1>6. ASSUME NEW w \in Venue, NEW j \in DOMAIN lanes'[w].buffer
      PROVE  LET old == IF w = v THEN j + 1 ELSE j IN
             /\ j \in Nat \ {0}
             /\ old \in DOMAIN lanes[w].buffer
             /\ lanes'[w].buffer[j] = lanes[w].buffer[old]
  <2>1. CASE w = v
    <3>1. lanes'[v].buffer = Tail(lanes[v].buffer)
      BY <1>2, <1>3
    <3> QED
      BY <2>1, <3>1, <1>1
  <2>2. CASE w # v
    BY <2>2, <1>1, <1>2
  <2> QED
    BY <2>1, <2>2
<1> QED
  BY <1>4, <1>5, <1>6

LEMMA EmittedFills ==
    ASSUME TypeOK, NEW v \in Venue, DrainEmit(v)
    PROVE  AcceptedFills' \subseteq AcceptedFills
<1> SUFFICES ASSUME NEW f \in AcceptedFills'
             PROVE  f \in AcceptedFills
  OBVIOUS
<1>1. \/ \E i \in DOMAIN tape' : tape'[i].fill = f
      \/ \E w \in Venue : \E j \in DOMAIN lanes'[w].buffer : lanes'[w].buffer[j].fill = f
  BY DEF AcceptedFills, Buffered, Range
<1>2. ASSUME NEW i \in DOMAIN tape', tape'[i].fill = f
      PROVE  f \in AcceptedFills
  <2>1. i \in DOMAIN tape \/ i = Len(tape) + 1
    BY EmittedPlaces
  <2> QED
    BY <1>2, <2>1, EmittedPlaces, Membership
<1>3. ASSUME NEW w \in Venue, NEW j \in DOMAIN lanes'[w].buffer,
             lanes'[w].buffer[j].fill = f
      PROVE  f \in AcceptedFills
  BY <1>3, EmittedPlaces, Membership
<1> QED
  BY <1>1, <1>2, <1>3

LEMMA EmittedOnce ==
    ASSUME TypeOK, PlacedOnce, NEW v \in Venue, DrainEmit(v)
    PROVE  PlacedOnce'
<1> DEFINE n == Len(tape)
           Old(w, j) == IF w = v THEN j + 1 ELSE j
<1>1. /\ 1 \in DOMAIN lanes[v].buffer
      /\ n \in Nat /\ DOMAIN tape = 1 .. n /\ DOMAIN tape' = 1 .. (n + 1)
      /\ \A i \in DOMAIN tape : tape'[i] = tape[i]
      /\ tape'[n + 1].fill = lanes[v].buffer[1].fill
  BY EmittedPlaces
<1>2. \A w \in Venue : \A j \in DOMAIN lanes'[w].buffer :
         /\ j \in Nat \ {0}
         /\ Old(w, j) \in DOMAIN lanes[w].buffer
         /\ lanes'[w].buffer[j] = lanes[w].buffer[Old(w, j)]
         /\ w = v => Old(w, j) # 1
  BY EmittedPlaces
<1>3. \A w \in Venue : \A i, j \in Nat : Old(w, i) = Old(w, j) => i = j
  OBVIOUS
<1>4. \A i \in DOMAIN tape' : i \in DOMAIN tape \/ i = n + 1
  BY <1>1
<1> HIDE DEF n, Old
<1>5. ASSUME NEW i \in DOMAIN tape', NEW j \in DOMAIN tape',
             EventOf(tape'[i].fill) = EventOf(tape'[j].fill)
      PROVE  i = j
  BY <1>1, <1>4, <1>5 DEF PlacedOnce
<1>6. ASSUME NEW w \in Venue, NEW u \in Venue,
             NEW i \in DOMAIN lanes'[w].buffer, NEW j \in DOMAIN lanes'[u].buffer,
             EventOf(lanes'[w].buffer[i].fill) = EventOf(lanes'[u].buffer[j].fill)
      PROVE  w = u /\ i = j
  <2>1. w = u /\ Old(w, i) = Old(u, j)
    BY <1>2, <1>6 DEF PlacedOnce
  <2> QED
    BY <2>1, <1>2, <1>3
<1>7. ASSUME NEW i \in DOMAIN tape', NEW w \in Venue,
             NEW j \in DOMAIN lanes'[w].buffer
      PROVE  EventOf(tape'[i].fill) # EventOf(lanes'[w].buffer[j].fill)
  <2>1. CASE i \in DOMAIN tape
    BY <2>1, <1>1, <1>2 DEF PlacedOnce
  <2>2. CASE i = n + 1
    <3>1. EventOf(lanes[v].buffer[1].fill) = EventOf(lanes[w].buffer[Old(w, j)].fill)
             => v = w /\ Old(w, j) = 1
      BY <1>1, <1>2 DEF PlacedOnce
    <3> QED
      BY <3>1, <2>2, <1>1, <1>2
  <2> QED
    BY <2>1, <2>2, <1>4
<1> QED
  BY <1>5, <1>6, <1>7 DEF PlacedOnce

LEMMA PushedOnce ==
    ASSUME TypeOK, PlacedOnce, AcceptedKnown,
           NEW e \in RawEvent, NEW t \in Stamp, Buffers(e, t), tape' = tape
    PROVE  PlacedOnce'
<1>1. EventOf(Canon[e]) \notin DOMAIN seen
  BY RawEventTypes, CanonAssumption DEF Buffers, FirstSeen
<1>2. /\ \A i \in DOMAIN tape : EventOf(tape[i].fill) \in DOMAIN seen
      /\ \A v \in Venue : \A j \in DOMAIN lanes[v].buffer :
            EventOf(lanes[v].buffer[j].fill) \in DOMAIN seen
  BY Membership DEF AcceptedKnown
<1> DEFINE Old(w, j) == /\ j \in DOMAIN lanes[w].buffer
                        /\ lanes'[w].buffer[j].fill = lanes[w].buffer[j].fill
           New(w, j) == /\ w = e.venue /\ j = Len(lanes[w].buffer) + 1
                        /\ lanes'[w].buffer[j].fill = Canon[e]
<1>3. \A w \in Venue : \A j \in DOMAIN lanes'[w].buffer : Old(w, j) \/ New(w, j)
  BY PushedPlaces
<1>4. ASSUME NEW w \in Venue, NEW u \in Venue,
             NEW i \in DOMAIN lanes'[w].buffer, NEW j \in DOMAIN lanes'[u].buffer,
             EventOf(lanes'[w].buffer[i].fill) = EventOf(lanes'[u].buffer[j].fill)
      PROVE  w = u /\ i = j
  <2>1. CASE Old(w, i) /\ Old(u, j)
    BY <2>1, <1>4 DEF PlacedOnce
  <2>2. CASE New(w, i) /\ New(u, j)
    BY <2>2
  <2>3. ~(Old(w, i) /\ New(u, j)) /\ ~(New(w, i) /\ Old(u, j))
    BY <1>1, <1>2, <1>4
  <2> QED
    BY <2>1, <2>2, <2>3, <1>3
<1>5. ASSUME NEW i \in DOMAIN tape, NEW w \in Venue,
             NEW j \in DOMAIN lanes'[w].buffer
      PROVE  EventOf(tape[i].fill) # EventOf(lanes'[w].buffer[j].fill)
  <2>1. CASE Old(w, j)
    BY <2>1 DEF PlacedOnce
  <2>2. CASE New(w, j)
    BY <2>2, <1>1, <1>2
  <2> QED
    BY <2>1, <2>2, <1>3
<1> QED
  BY <1>4, <1>5 DEF PlacedOnce

-----------------------------------------------------------------------------
(* The inductive invariant. *)

(* Nothing remembered is forgotten or replaced. *)
SeenGrows ==
    /\ DOMAIN seen \subseteq DOMAIN seen'
    /\ \A k \in DOMAIN seen : seen'[k] = seen[k]

LEMMA KnownInit == IngesterInit => Known
<1> SUFFICES ASSUME IngesterInit
             PROVE  Known
  OBVIOUS
<1>1. /\ seen = << >> /\ dead_letters = << >> /\ tape = << >>
      /\ max_seq = [v \in Venue |-> NoSeq] /\ Init
      /\ \A v \in Venue : lanes[v] = NewLane
  BY DEF IngesterInit, Init
<1>2. /\ DOMAIN seen = {} /\ DOMAIN dead_letters = {} /\ DOMAIN tape = {}
      /\ dead_letters \in Seq(Letter)
      /\ \A v \in Venue : DOMAIN lanes[v].buffer = {}
  BY <1>1 DEF NewLane
<1>3. \A f : f \notin AcceptedFills
  BY <1>2, Membership
<1>4. MaxSeqIsLastSeq
  BY <1>1 DEF MaxSeqIsLastSeq, NewLane
<1>5. TypeOK
  BY <1>1, TypeInit
<1>6. SeenSound /\ LettersSound
  BY <1>2 DEF SeenSound, LettersSound
<1>7. AcceptedKnown /\ PlacedOnce /\ QuarantinedApart
  BY <1>2, <1>3 DEF AcceptedKnown, PlacedOnce, QuarantinedApart
<1> QED
  BY <1>4, <1>5, <1>6, <1>7 DEF Known

LEMMA AcceptedStaysKnown ==
    ASSUME AcceptedKnown, SeenGrows, AcceptedFills' \subseteq AcceptedFills
    PROVE  AcceptedKnown'
BY DEF AcceptedKnown, SeenGrows

LEMMA SameLettersStaySound ==
    ASSUME LettersSound, SeenGrows, dead_letters' = dead_letters
    PROVE  LettersSound'
BY DEF LettersSound, SeenGrows, SameCopy

LEMMA LetterAdded ==
    ASSUME LettersSound, NEW letter, Quarantines(letter)
    PROVE  LET n == Len(dead_letters) IN
           /\ n \in Nat /\ DOMAIN dead_letters = 1 .. n
           /\ dead_letters' \in Seq(Letter)
           /\ DOMAIN dead_letters' = 1 .. (n + 1)
           /\ \A i \in DOMAIN dead_letters' :
                 \/ i \in DOMAIN dead_letters /\ dead_letters'[i] = dead_letters[i]
                 \/ i = n + 1 /\ dead_letters'[i] = letter
<1>1. /\ dead_letters \in Seq(Letter) /\ letter \in Letter
      /\ dead_letters' = Append(dead_letters, letter)
  BY DEF LettersSound, Quarantines
<1> QED
  BY <1>1

(* A quarantined letter's event is remembered, and is not one seen before  *)
(* unless the letter is byzantine.                                         *)
LEMMA LetterRemembered ==
    ASSUME SeenSound, NEW letter, Quarantines(letter)
    PROVE  /\ SeenSound' /\ SeenGrows
           /\ letter.reason.kind # "Malformed" => KeyOf(letter.text) \in DOMAIN seen'
<1>1. letter.reason.kind \in {"Malformed", "Byzantine", "Rejected", "OutOfOrder"}
  BY DEF Quarantines, Letter
<1>2. CASE letter.reason.kind \in {"Malformed", "Byzantine"}
  <2>1. seen' = seen
    BY <1>2 DEF Quarantines
  <2>2. letter.reason.kind # "Malformed" => KeyOf(letter.text) \in DOMAIN seen
    BY <1>2 DEF Quarantines
  <2> QED
    BY <2>1, <2>2 DEF SeenSound, SeenGrows
<1>3. CASE letter.reason.kind \in {"Rejected", "OutOfOrder"}
  <2>1. letter.text \in RawEvent /\ FirstSeen(letter.text)
    BY <1>3 DEF Quarantines
  <2> QED
    BY <2>1, RememberEffect DEF SeenGrows
<1> QED
  BY <1>1, <1>2, <1>3

LEMMA LetterStaysSound ==
    ASSUME SeenSound, LettersSound, NEW letter, Quarantines(letter)
    PROVE  LettersSound'
<1>1. SeenGrows /\ (letter.reason.kind # "Malformed" => KeyOf(letter.text) \in DOMAIN seen')
  BY LetterRemembered
<1>2. letter.reason.kind = "Byzantine" => seen' = seen
  BY DEF Quarantines
<1> SUFFICES ASSUME NEW i \in DOMAIN dead_letters'
             PROVE  LET l == dead_letters'[i] IN
                    /\ l.reason.kind # "Malformed" =>
                          /\ l.text \in RawEvent
                          /\ l.venue = l.text.venue
                          /\ l.event_id = l.text.event_id
                          /\ KeyOf(l.text) \in DOMAIN seen'
                    /\ l.reason.kind = "Byzantine" =>
                          ~SameCopy(seen'[KeyOf(l.text)], l.text)
  BY LetterAdded DEF LettersSound, SameCopy
<1>3. CASE i \in DOMAIN dead_letters /\ dead_letters'[i] = dead_letters[i]
  <2> DEFINE l == dead_letters[i]
  <2>1. /\ l.reason.kind # "Malformed" =>
              /\ l.text \in RawEvent
              /\ l.venue = l.text.venue
              /\ l.event_id = l.text.event_id
              /\ KeyOf(l.text) \in DOMAIN seen
        /\ l.reason.kind = "Byzantine" => ~SameCopy(seen[KeyOf(l.text)], l.text)
    BY <1>3 DEF LettersSound
  <2>2. l.reason.kind # "Malformed" => seen'[KeyOf(l.text)] = seen[KeyOf(l.text)]
                                       /\ KeyOf(l.text) \in DOMAIN seen'
    BY <2>1, <1>1 DEF SeenGrows
  <2> QED
    BY <1>3, <2>1, <2>2
<1>4. CASE dead_letters'[i] = letter
  BY <1>1, <1>2, <1>4 DEF Quarantines
<1> QED
  BY <1>3, <1>4, LetterAdded

(* A new letter is about an event that was not seen before, or byzantine;  *)
(* what was accepted and what was quarantined has been seen.               *)
LEMMA LetterStaysApart ==
    ASSUME LettersSound, AcceptedKnown, QuarantinedApart, AcceptedFills' = AcceptedFills,
           NEW letter, Quarantines(letter)
    PROVE  QuarantinedApart'
<1> DEFINE Apart(l) == l.reason.kind \in {"Rejected", "OutOfOrder"}
<1>1. Apart(letter) => KeyOf(letter.text) \notin DOMAIN seen
  BY DEF Quarantines, FirstSeen
<1>2. \A f \in AcceptedFills : EventOf(f) \in DOMAIN seen
  BY DEF AcceptedKnown
<1>3. \A i \in DOMAIN dead_letters :
         Apart(dead_letters[i]) => KeyOf(dead_letters[i].text) \in DOMAIN seen
  BY DEF LettersSound
<1>4. \A i \in DOMAIN dead_letters : Apart(dead_letters[i]) =>
         /\ \A f \in AcceptedFills : EventOf(f) # KeyOf(dead_letters[i].text)
         /\ \A j \in DOMAIN dead_letters : Apart(dead_letters[j]) /\ j # i =>
               KeyOf(dead_letters[j].text) # KeyOf(dead_letters[i].text)
  BY DEF QuarantinedApart, Quarantined
<1>5. \A i \in DOMAIN dead_letters' :
         \/ i \in DOMAIN dead_letters /\ dead_letters'[i] = dead_letters[i]
         \/ i = Len(dead_letters) + 1 /\ dead_letters'[i] = letter
  BY LetterAdded
<1> HIDE DEF Apart
<1>6. ASSUME NEW i \in DOMAIN dead_letters', Apart(dead_letters'[i])
      PROVE  /\ \A f \in AcceptedFills : EventOf(f) # KeyOf(dead_letters'[i].text)
             /\ \A j \in DOMAIN dead_letters' : Apart(dead_letters'[j]) /\ j # i =>
                   KeyOf(dead_letters'[j].text) # KeyOf(dead_letters'[i].text)
  <2>1. \A f \in AcceptedFills : EventOf(f) # KeyOf(dead_letters'[i].text)
    BY <1>1, <1>2, <1>4, <1>5, <1>6
  <2>2. ASSUME NEW j \in DOMAIN dead_letters', Apart(dead_letters'[j]), j # i
        PROVE  KeyOf(dead_letters'[j].text) # KeyOf(dead_letters'[i].text)
    BY <1>1, <1>3, <1>4, <1>5, <1>6, <2>2
  <2> QED
    BY <2>1, <2>2
<1> QED
  BY <1>6 DEF QuarantinedApart, Quarantined, Apart

LEMMA SameMaxSeq ==
    ASSUME MaxSeqIsLastSeq, BuffersKept, max_seq' = max_seq
    PROVE  MaxSeqIsLastSeq'
BY DEF MaxSeqIsLastSeq, BuffersKept

LEMMA PushKnown ==
    ASSUME Known, NEW e \in RawEvent, NEW t \in Stamp, Buffers(e, t), tape' = tape
    PROVE  /\ SeenSound' /\ LettersSound' /\ AcceptedKnown'
           /\ QuarantinedApart' /\ MaxSeqIsLastSeq'
<1> USE DEF Known
<1>1. /\ FirstSeen(e) /\ KeyOf(e) \notin DOMAIN seen
      /\ Canon[e] \in Fill /\ EventOf(Canon[e]) = KeyOf(e)
      /\ dead_letters' = dead_letters
  BY RawEventTypes, CanonAssumption DEF Buffers, FirstSeen
<1>2. SeenSound' /\ SeenGrows /\ KeyOf(e) \in DOMAIN seen'
      /\ seen'[KeyOf(e)].fill = Canon[e]
  BY <1>1, RememberEffect DEF SeenGrows
<1>3. LettersSound'
  BY <1>1, <1>2, SameLettersStaySound
<1>4. \A f \in AcceptedFills' : f \in AcceptedFills \/ f = Canon[e]
  BY PushedFills
<1>5. AcceptedKnown'
  BY <1>1, <1>2, <1>4 DEF AcceptedKnown, SeenGrows
<1>6. QuarantinedApart'
  <2>1. \A i \in DOMAIN dead_letters : Quarantined(i) =>
           KeyOf(dead_letters[i].text) \in DOMAIN seen
    BY DEF LettersSound, Quarantined
  <2> QED
    BY <1>1, <1>4, <2>1 DEF QuarantinedApart, Quarantined
<1>7. MaxSeqIsLastSeq'
  <2>1. /\ max_seq = [v \in Venue |-> lanes[v].last_seq]
        /\ max_seq' = [max_seq EXCEPT ![e.venue] = Canon[e].seq]
    BY DEF Buffers, MaxSeqIsLastSeq
  <2>2. ASSUME NEW v \in Venue
        PROVE  max_seq'[v] = lanes'[v].last_seq
    <3>1. CASE v = e.venue
      <4>1. lanes'[v] = Pushed(Ticked(lanes[v], t), t, Canon[e])
        BY <3>1 DEF Buffers
      <4> QED
        BY <2>1, <3>1, <4>1 DEF Pushed
    <3>2. CASE v # e.venue
      BY <2>1, <3>2 DEF Buffers
    <3> QED
      BY <3>1, <3>2
  <2>3. max_seq' = [v \in Venue |-> max_seq'[v]]
    BY <2>1
  <2> QED
    BY <2>2, <2>3 DEF MaxSeqIsLastSeq
<1> QED
  BY <1>2, <1>3, <1>5, <1>6, <1>7

LEMMA KnownStep == Known /\ [IngesterNext]_allvars => Known'
<1> SUFFICES ASSUME Known, [IngesterNext]_allvars
             PROVE  Known'
  OBVIOUS
<1> USE DEF Known
<1>1. TypeOK'
  BY IngesterStepIsSequencerStep, TypeStep
<1>2. CASE BuffersKept /\ UNCHANGED <<tape, max_seq, seen, dead_letters>>
  <2>1. AcceptedFills' = AcceptedFills /\ PlacedOnce' /\ MaxSeqIsLastSeq'
    BY <1>2, KeptPlaces, SameMaxSeq
  <2>2. SeenSound' /\ LettersSound' /\ AcceptedKnown' /\ QuarantinedApart'
    BY <1>2, <2>1
       DEF SeenSound, LettersSound, SameCopy, AcceptedKnown, QuarantinedApart,
           Quarantined
  <2> QED
    BY <1>1, <2>1, <2>2
<1>3. ASSUME NEW letter, Quarantines(letter), BuffersKept, UNCHANGED <<tape, max_seq>>
      PROVE  Known'
  <2>1. AcceptedFills' = AcceptedFills /\ PlacedOnce' /\ MaxSeqIsLastSeq'
    BY <1>3, KeptPlaces, SameMaxSeq
  <2>2. SeenSound' /\ SeenGrows
    BY <1>3, LetterRemembered
  <2>3. AcceptedKnown'
    BY <2>1, <2>2, AcceptedStaysKnown
  <2>4. LettersSound'
    BY <1>3, LetterStaysSound
  <2>5. QuarantinedApart'
    BY <1>3, <2>1, LetterStaysApart
  <2> QED
    BY <1>1, <2>1, <2>2, <2>3, <2>4, <2>5
<1>4. ASSUME NEW e \in RawEvent, NEW t \in Stamp, Buffers(e, t), tape' = tape
      PROVE  Known'
  BY <1>1, <1>4, PushKnown, PushedOnce
<1>5. ASSUME NEW v \in Venue, DrainEmit(v), UNCHANGED <<max_seq, seen, dead_letters>>
      PROVE  Known'
  <2>1. PlacedOnce' /\ AcceptedFills' \subseteq AcceptedFills
    BY <1>5, EmittedOnce, EmittedFills
  <2>2. SeenSound' /\ LettersSound' /\ AcceptedKnown' /\ QuarantinedApart'
    BY <1>5, <2>1
       DEF SeenSound, LettersSound, SameCopy, AcceptedKnown, QuarantinedApart,
           Quarantined
  <2>3. MaxSeqIsLastSeq'
    BY <1>5 DEF DrainEmit, Popped, TypeOK, Lane, MaxSeqIsLastSeq
  <2> QED
    BY <1>1, <2>1, <2>2, <2>3
<1> QED
  BY <1>2, <1>3, <1>4, <1>5, StepCases

(* The ingester remembers one copy of each event it has met, accepts an    *)
(* event at most once, and its guard on the sequence numbers is the lane's.*)
THEOREM IngesterInductive == IngesterSpec => []Known
BY KnownInit, KnownStep, PTL DEF IngesterSpec

(* No event is accepted twice, whatever its copies look like.              *)
THEOREM OneCopy == IngesterSpec => []OneCopyPerEvent
<1>1. Known => OneCopyPerEvent
  <2> SUFFICES ASSUME Known
               PROVE  OneCopyPerEvent
    OBVIOUS
  <2>1. ASSUME NEW i \in DOMAIN tape, NEW e \in Buffered
        PROVE  EventOf(tape[i].fill) # EventOf(e.fill)
    <3>1. PICK v \in Venue : e \in Range(lanes[v].buffer)
      BY DEF Buffered
    <3>2. PICK j \in DOMAIN lanes[v].buffer : e = lanes[v].buffer[j]
      BY <3>1 DEF Range
    <3> QED
      BY <3>2 DEF Known, PlacedOnce
  <2> QED
    BY <2>1 DEF Known, PlacedOnce, AcceptedKnown, OneCopyPerEvent
<1> QED
  BY <1>1, IngesterInductive, PTL

(* Only a different copy of the same event is ever taken for a conflict.   *)
THEOREM Conflicts == IngesterSpec => []ConflictsAreReal
<1>1. Known => ConflictsAreReal
  <2> SUFFICES ASSUME Known, NEW i \in Letters("Byzantine")
               PROVE  LET letter == dead_letters[i]
                          first  == seen[KeyOf(letter.text)]
                      IN  /\ first.event.venue = letter.venue
                          /\ first.event.event_id = letter.event_id
                          /\ first.event # letter.text
                          /\ first.fill # Rejected => Canon[letter.text] # first.fill
    BY DEF ConflictsAreReal
  <2> DEFINE letter == dead_letters[i]
             first  == seen[KeyOf(letter.text)]
  <2>1. /\ letter.text \in RawEvent
        /\ letter.venue = letter.text.venue
        /\ letter.event_id = letter.text.event_id
        /\ KeyOf(letter.text) \in DOMAIN seen
        /\ ~SameCopy(first, letter.text)
    BY DEF Letters, Known, LettersSound
  <2>2. /\ first.fill = Canon[first.event]
        /\ KeyOf(first.event) = KeyOf(letter.text)
    BY <2>1 DEF Known, SeenSound
  <2> HIDE DEF letter, first
  <2>3. first.event.venue = letter.venue /\ first.event.event_id = letter.event_id
    BY <2>1, <2>2 DEF KeyOf
  <2>4. first.event # letter.text /\ (first.fill # Rejected => Canon[letter.text] # first.fill)
    BY <2>1, <2>2 DEF SameCopy
  <2> QED
    BY <2>3, <2>4 DEF letter, first
<1> QED
  BY <1>1, IngesterInductive, PTL

(* An event quarantined as rejected or out of order is neither accepted    *)
(* later nor quarantined again.                                            *)
THEOREM Quarantine == IngesterSpec => []QuarantinedOnce
<1>1. Known => QuarantinedOnce
  BY DEF Known, QuarantinedApart, Quarantined, QuarantinedOnce, Letters, EventOf, KeyOf
<1> QED
  BY <1>1, IngesterInductive, PTL

(* The ingester's own guard on sequence numbers never disagrees with the   *)
(* lane's.                                                                 *)
THEOREM GuardsAgree == IngesterSpec => []MaxSeqIsLastSeq
BY IngesterInductive, PTL DEF Known

-----------------------------------------------------------------------------
(* Type correctness. *)

Counter == {"accepted", "duplicates", "byzantine", "dead_lettered",
            "out_of_order", "gaps"}

Counted ==
    /\ alerts \in Seq(DOMAIN seen)
    /\ stats \in [Counter -> Nat]
    /\ arrivals \in 0 .. MaxArrivals

(* The subtraction wraps, so what it adds to the gaps is a number.         *)
LEMMA NewGapsType ==
    ASSUME TypeOK, MaxSeqIsLastSeq, NEW v \in Venue, NEW n \in Nat
    PROVE  NewGaps(v, n) \in Nat
<1>1. max_seq[v] \in Int
  BY DEF TypeOK, MaxSeqIsLastSeq, Lane, NoSeq
<1>2. n - max_seq[v] - 1 \in Int /\ U64 \in Nat \ {0}
  BY <1>1, BoundAssumption
<1> QED
  BY <1>2 DEF NewGaps

LEMMA Bump ==
    ASSUME NEW s \in [Counter -> Nat], NEW c \in Counter, NEW n \in Nat
    PROVE  [s EXCEPT ![c] = @ + n] \in [Counter -> Nat]
<1>1. s[c] + n \in Nat
  OBVIOUS
<1> QED
  BY <1>1

LEMMA CatchCounted ==
    ASSUME TypeOK, SeenSound, MaxSeqIsLastSeq, Counted,
           NEW t \in Stamp, NEW line \in RawLine, FillCaught(t, line)
    PROVE  Counted'
<1> DEFINE e == line.parsed
<1>1. /\ arrivals' = arrivals + 1 /\ arrivals < MaxArrivals
      /\ arrivals \in Nat /\ MaxArrivals \in Nat
  BY BoundAssumption DEF FillCaught, Counted
<1>2. arrivals' \in 0 .. MaxArrivals
  BY <1>1
<1>3. stats \in [Counter -> Nat] /\ alerts \in Seq(DOMAIN seen)
  BY DEF Counted
<1> DEFINE Bumped(c) == [stats EXCEPT ![c] = @ + 1]
<1>4. ASSUME NEW c \in Counter
      PROVE  /\ Bumped(c) \in [Counter -> Nat]
             /\ [Bumped(c) EXCEPT !.dead_lettered = @ + 1] \in [Counter -> Nat]
  <2>1. Bumped(c) \in [Counter -> Nat]
    BY <1>3, Bump
  <2> HIDE DEF Bumped
  <2>2. [Bumped(c) EXCEPT !["dead_lettered"] = @ + 1] \in [Counter -> Nat]
    BY <2>1, Bump DEF Counter
  <2> QED
    BY <2>1, <2>2
<1>5. {"byzantine", "dead_lettered", "duplicates", "out_of_order"} \subseteq Counter
  BY DEF Counter
<1> HIDE DEF Bumped
<1>6. CASE CatchMalformed(t, line)
  <2>1. /\ stats' = Bumped("dead_lettered")
        /\ alerts' = alerts /\ seen' = seen
    BY <1>6 DEF CatchMalformed, DeadLetter, Bumped
  <2> QED
    BY <1>2, <1>3, <1>4, <1>5, <2>1 DEF Counted
<1>7. CASE e # Malformed
  <2>1. e \in RawEvent
    BY <1>7, RawEventTypes
  <2>2. CASE CatchRetransmit(t, line, e)
    <3>1. /\ stats' = Bumped("duplicates")
          /\ alerts' = alerts /\ seen' = seen
      BY <2>2 DEF CatchRetransmit, Bumped
    <3> QED
      BY <1>2, <1>3, <1>4, <1>5, <3>1 DEF Counted
  <2>3. CASE CatchConflict(t, line, e)
    <3> DEFINE k == KeyOf(e)
    <3>1. /\ stats' = [Bumped("byzantine") EXCEPT !.dead_lettered = @ + 1]
          /\ k \in DOMAIN seen /\ alerts' = Append(alerts, k) /\ seen' = seen
      BY <2>3 DEF CatchConflict, DeadLetter, Bumped
    <3> HIDE DEF k
    <3>2. alerts' \in Seq(DOMAIN seen')
      BY <1>3, <3>1
    <3> QED
      BY <1>2, <1>4, <1>5, <3>1, <3>2 DEF Counted
  <2>4. ASSUME FirstSeen(e), alerts' = alerts
        PROVE  alerts' \in Seq(DOMAIN seen')
    <3>1. DOMAIN seen \subseteq DOMAIN seen'
      BY <2>1, <2>4, RememberEffect
    <3> QED
      BY <1>3, <2>4, <3>1, SeqMonotonic
  <2>5. CASE CatchRejected(t, line, e)
    <3>1. /\ stats' = Bumped("dead_lettered")
          /\ FirstSeen(e) /\ alerts' = alerts
      BY <2>5 DEF CatchRejected, DeadLetter, FirstSeen, Bumped
    <3> QED
      BY <1>2, <1>4, <1>5, <2>4, <3>1 DEF Counted
  <2>6. CASE CatchOutOfOrder(t, line, e)
    <3>1. /\ stats' = [Bumped("out_of_order") EXCEPT !.dead_lettered = @ + 1]
          /\ FirstSeen(e) /\ alerts' = alerts
      BY <2>6 DEF CatchOutOfOrder, DeadLetter, FirstSeen, Bumped
    <3> QED
      BY <1>2, <1>4, <1>5, <2>4, <3>1 DEF Counted
  <2>7. CASE CatchAccepted(t, line, e)
    <3> DEFINE g == NewGaps(e.venue, Canon[e].seq)
    <3>1. /\ stats' = [stats EXCEPT !.gaps = @ + g, !.accepted = @ + 1]
          /\ FirstSeen(e) /\ alerts' = alerts /\ Canon[e] # Rejected
      BY <2>7 DEF CatchAccepted, FirstSeen
    <3>2. g \in Nat
      BY <2>1, <3>1, RawEventTypes, FillAssumption, NewGapsType
    <3> HIDE DEF g
    <3>3. stats["gaps"] + g \in Nat /\ stats["accepted"] + 1 \in Nat
      BY <1>3, <3>2 DEF Counter
    <3>4. stats' \in [Counter -> Nat]
      BY <1>3, <3>1, <3>3 DEF Counter
    <3> QED
      BY <1>2, <2>4, <3>1, <3>4 DEF Counted
  <2> QED
    BY <1>7, <2>2, <2>3, <2>5, <2>6, <2>7 DEF FillCaught, CatchMalformed
<1> QED
  BY <1>6, <1>7 DEF FillCaught

LEMMA CountedInit == IngesterInit => Counted
<1> SUFFICES ASSUME IngesterInit
             PROVE  Counted
  OBVIOUS
<1>1. /\ alerts \in Seq(DOMAIN seen) /\ arrivals \in 0 .. MaxArrivals
  BY BoundAssumption DEF IngesterInit
<1>2. stats \in [Counter -> Nat]
  BY DEF IngesterInit, Counter
<1> QED
  BY <1>1, <1>2 DEF Counted

LEMMA CountedStep ==
    Known /\ Counted /\ [IngesterNext]_allvars => Counted'
<1>1. ASSUME Known, Counted, NEW t \in Stamp, NEW line \in RawLine, FillCaught(t, line)
      PROVE  Counted'
  BY <1>1, CatchCounted DEF Known
<1>2. Counted /\ (Delegate \/ UNCHANGED allvars) => Counted'
  BY DEF Counted, Delegate, allvars, ivars
<1> QED
  BY <1>1, <1>2 DEF IngesterNext

(* Every variable of the ingester keeps its type in every behaviour: what  *)
(* is remembered is a copy of an event together with its canonical form,   *)
(* an alert names a remembered event, and no counter is negative.          *)
THEOREM IngesterTypes == IngesterSpec => []IngesterTypeOK
<1>1. Known /\ Counted => IngesterTypeOK
  <2> SUFFICES ASSUME Known, Counted
               PROVE  IngesterTypeOK
    OBVIOUS
  <2>1. /\ DOMAIN seen \subseteq {KeyOf(e) : e \in RawEvent}
        /\ \A k \in DOMAIN seen : /\ seen[k].event \in RawEvent
                                  /\ seen[k].fill = Canon[seen[k].event]
    BY DEF Known, SeenSound
  <2>2. max_seq \in [Venue -> Nat \cup {NoSeq}]
    BY DEF Known, TypeOK, Lane, MaxSeqIsLastSeq
  <2> QED
    BY <2>1, <2>2 DEF Known, LettersSound, Counted, Counter, IngesterTypeOK
<1> QED
  BY <1>1, IngesterInductive, CountedInit, CountedStep, PTL DEF IngesterSpec

-----------------------------------------------------------------------------
(* The ways out of fill_caught, by what they count. *)

Counts(C) ==
    \A c \in Counter \ {"gaps"} : stats'[c] = stats[c] + (IF c \in C THEN 1 ELSE 0)

CountsRepetition ==
    /\ BuffersKept
    /\ Counts({"duplicates"})
    /\ stats'.gaps = stats.gaps
    /\ UNCHANGED <<dead_letters, alerts>>

CountsLetter(letter) ==
    /\ BuffersKept
    /\ letter \in Letter
    /\ dead_letters' = Append(dead_letters, letter)
    /\ Counts({"dead_lettered"}
              \cup (IF letter.reason.kind = "Byzantine" THEN {"byzantine"} ELSE {})
              \cup (IF letter.reason.kind = "OutOfOrder" THEN {"out_of_order"} ELSE {}))
    /\ stats'.gaps = stats.gaps
    /\ Len(alerts') = Len(alerts) + (IF letter.reason.kind = "Byzantine" THEN 1 ELSE 0)

CountsAccepted(e, t) ==
    /\ Buffers(e, t)
    /\ Counts({"accepted"})
    /\ stats'.gaps = stats.gaps + NewGaps(e.venue, Canon[e].seq)
    /\ lanes[e.venue].last_seq = NoSeq \/ Canon[e].seq > lanes[e.venue].last_seq
    /\ UNCHANGED <<dead_letters, alerts>>

LEMMA BumpTwo ==
    ASSUME NEW s \in [Counter -> Nat], NEW c \in Counter, NEW d \in Counter, c # d,
           NEW m \in Nat, NEW n \in Nat
    PROVE  LET r == [[s EXCEPT ![c] = @ + m] EXCEPT ![d] = @ + n] IN
           /\ r[c] = s[c] + m /\ r[d] = s[d] + n
           /\ \A x \in Counter \ {c, d} : r[x] = s[x]
<1> DEFINE q == [s EXCEPT ![c] = @ + m]
           r == [q EXCEPT ![d] = @ + n]
<1>1. /\ DOMAIN q = Counter /\ q[c] = s[c] + m
      /\ \A x \in Counter \ {c} : q[x] = s[x]
  OBVIOUS
<1> HIDE DEF q
<1>2. r[d] = q[d] + n /\ \A x \in Counter \ {d} : r[x] = q[x]
  BY <1>1
<1> HIDE DEF r
<1>3. r[c] = s[c] + m /\ r[d] = s[d] + n /\ \A x \in Counter \ {c, d} : r[x] = s[x]
  BY <1>1, <1>2
<1> QED
  BY <1>3 DEF r, q

LEMMA CatchCounts ==
    ASSUME Known, Counted, NEW t \in Stamp, NEW line \in RawLine, FillCaught(t, line)
    PROVE  /\ arrivals' = arrivals + 1 /\ tape' = tape
           /\ \/ CountsRepetition
              \/ \E letter : CountsLetter(letter)
              \/ \E e \in RawEvent : CountsAccepted(e, t)
<1> DEFINE e == line.parsed
<1>1. /\ arrivals' = arrivals + 1 /\ tape' = tape
      /\ line.venue \in Venue /\ e \in RawEvent \cup {Malformed}
  BY RawEventTypes DEF FillCaught
<1>2. TypeOK /\ stats \in [Counter -> Nat] /\ alerts \in Seq(DOMAIN seen)
  BY DEF Known, Counted
<1>3. CASE CatchMalformed(t, line)
  <2> DEFINE letter == [venue |-> line.venue, event_id |-> NoId,
                        reason |-> Reason("Malformed"), text |-> e]
  <2>1. /\ JustTick(line.venue, t) /\ e = Malformed
        /\ dead_letters' = Append(dead_letters, letter)
        /\ stats' = [stats EXCEPT !.dead_lettered = @ + 1]
        /\ alerts' = alerts
    BY <1>3 DEF CatchMalformed, DeadLetter
  <2>2. letter \in Letter /\ letter.reason.kind = "Malformed"
    BY <1>1 DEF Letter, Reason
  <2> HIDE DEF letter
  <2>3. BuffersKept
    BY <1>1, <1>2, <2>1, JustTickEffect
  <2>4. CountsLetter(letter)
    BY <1>2, <2>1, <2>2, <2>3 DEF CountsLetter, Counts, Counter
  <2> QED
    BY <1>1, <2>4
<1>4. CASE e # Malformed
  <2>1. e \in RawEvent /\ e.venue \in Venue
    BY <1>1, <1>4, RawEventTypes
  <2>2. CASE CatchRetransmit(t, line, e)
    <3>1. /\ JustTick(e.venue, t)
          /\ stats' = [stats EXCEPT !.duplicates = @ + 1]
          /\ UNCHANGED <<dead_letters, alerts>>
      BY <2>2 DEF CatchRetransmit
    <3>2. BuffersKept
      BY <1>2, <2>1, <3>1, JustTickEffect
    <3>3. CountsRepetition
      BY <1>2, <3>1, <3>2 DEF CountsRepetition, Counts, Counter
    <3> QED
      BY <1>1, <3>3
  <2>3. CASE CatchConflict(t, line, e)
    <3> DEFINE letter == [venue |-> e.venue, event_id |-> e.event_id,
                          reason |-> Reason("Byzantine"), text |-> e]
               k == KeyOf(e)
    <3>1. /\ JustTick(e.venue, t)
          /\ dead_letters' = Append(dead_letters, letter)
          /\ stats' = [[stats EXCEPT !["byzantine"] = @ + 1] EXCEPT !["dead_lettered"] = @ + 1]
          /\ k \in DOMAIN seen /\ alerts' = Append(alerts, k)
      BY <2>3 DEF CatchConflict, DeadLetter
    <3>2. /\ letter \in Letter /\ letter.reason.kind = "Byzantine"
      BY <2>1 DEF Letter, Reason
    <3> HIDE DEF letter, e, k
    <3>3. BuffersKept
      BY <1>2, <2>1, <3>1, JustTickEffect
    <3>4. Len(alerts') = Len(alerts) + 1
      BY <1>2, <3>1
    <3>5. /\ stats'["byzantine"] = stats["byzantine"] + 1
          /\ stats'["dead_lettered"] = stats["dead_lettered"] + 1
          /\ \A x \in Counter \ {"byzantine", "dead_lettered"} : stats'[x] = stats[x]
      BY <1>2, <3>1, BumpTwo DEF Counter
    <3>6. Counts({"dead_lettered", "byzantine"}) /\ stats'.gaps = stats.gaps
      BY <1>2, <3>5 DEF Counts, Counter
    <3>7. {"dead_lettered"} \cup {"byzantine"} \cup {} = {"dead_lettered", "byzantine"}
      OBVIOUS
    <3>8. CountsLetter(letter)
      BY <3>1, <3>2, <3>3, <3>4, <3>6, <3>7 DEF CountsLetter
    <3> QED
      BY <1>1, <3>8
  <2>4. CASE CatchRejected(t, line, e)
    <3> DEFINE letter == [venue |-> e.venue, event_id |-> e.event_id,
                          reason |-> Reason("Rejected"), text |-> e]
    <3>1. /\ JustTick(e.venue, t)
          /\ dead_letters' = Append(dead_letters, letter)
          /\ stats' = [stats EXCEPT !.dead_lettered = @ + 1]
          /\ alerts' = alerts
      BY <2>4 DEF CatchRejected, DeadLetter
    <3>2. /\ letter \in Letter /\ letter.reason.kind = "Rejected"
      BY <2>1 DEF Letter, Reason
    <3> HIDE DEF letter, e
    <3>3. BuffersKept
      BY <1>2, <2>1, <3>1, JustTickEffect
    <3>4. CountsLetter(letter)
      BY <1>2, <3>1, <3>2, <3>3 DEF CountsLetter, Counts, Counter
    <3> QED
      BY <1>1, <3>4
  <2>5. CASE CatchOutOfOrder(t, line, e)
    <3> DEFINE answer == PushAnswer(t, e)
               letter == [venue |-> e.venue, event_id |-> e.event_id,
                          reason |-> OutOfOrder(answer), text |-> e]
    <3>1. /\ JustTick(e.venue, t)
          /\ dead_letters' = Append(dead_letters, letter)
          /\ stats' = [[stats EXCEPT !["out_of_order"] = @ + 1] EXCEPT !["dead_lettered"] = @ + 1]
          /\ alerts' = alerts
      BY <2>5 DEF CatchOutOfOrder, DeadLetter
    <3>2. answer \in {"Ok", "Sealed", "VenueMismatch", "RecvTsWalkback", "SeqWalkback"}
      BY PushAnswers DEF PushAnswer
    <3> HIDE DEF answer
    <3>3. /\ letter \in Letter /\ letter.reason.kind = "OutOfOrder"
      BY <2>1, <3>2 DEF Letter, OutOfOrder
    <3> HIDE DEF letter, e
    <3>4. BuffersKept
      BY <1>2, <2>1, <3>1, JustTickEffect
    <3>5. /\ stats'["out_of_order"] = stats["out_of_order"] + 1
          /\ stats'["dead_lettered"] = stats["dead_lettered"] + 1
          /\ \A x \in Counter \ {"out_of_order", "dead_lettered"} : stats'[x] = stats[x]
      BY <1>2, <3>1, BumpTwo DEF Counter
    <3>6. CountsLetter(letter)
      BY <1>2, <3>1, <3>3, <3>4, <3>5 DEF CountsLetter, Counts, Counter
    <3> QED
      BY <1>1, <3>6
  <2>6. CASE CatchAccepted(t, line, e)
    <3> DEFINE g == NewGaps(e.venue, Canon[e].seq)
               f == Canon[e]
    <3>1. f \in Fill
      BY <2>1, <2>6, RawEventTypes DEF CatchAccepted
    <3>2. Buffers(e, t)
      BY <1>2, <2>1, <2>6, <3>1 DEF CatchAccepted, Buffers, FirstSeen, TickedLane, TypeOK
    <3>3. /\ stats' = [[stats EXCEPT !["gaps"] = @ + g] EXCEPT !["accepted"] = @ + 1]
          /\ UNCHANGED <<dead_letters, alerts>>
          /\ PushResult(Ticked(lanes[e.venue], t), e.venue, t, f) = "Ok"
      BY <2>6 DEF CatchAccepted, PushAnswer, TickedLane
    <3>4. Ticked(lanes[e.venue], t).last_seq = lanes[e.venue].last_seq
      BY <1>2, <2>1 DEF Ticked, TypeOK, Lane
    <3>5. lanes[e.venue].last_seq = NoSeq \/ f.seq > lanes[e.venue].last_seq
      <4>1. f.seq \in Int /\ lanes[e.venue].last_seq \in Int
        BY <1>2, <2>1, <3>1, FillAssumption DEF TypeOK, Lane, NoSeq
      <4> HIDE DEF f
      <4> QED
        BY <3>3, <3>4, <4>1 DEF PushResult
    <3>6. Counts({"accepted"}) /\ stats'.gaps = stats.gaps + g
      <4>1. g \in Nat
        BY <2>1, <3>1, FillAssumption, NewGapsType DEF Known
      <4> HIDE DEF g
      <4>2. /\ stats'["gaps"] = stats["gaps"] + g
            /\ stats'["accepted"] = stats["accepted"] + 1
            /\ \A x \in Counter \ {"gaps", "accepted"} : stats'[x] = stats[x]
        BY <1>2, <3>3, <4>1, BumpTwo DEF Counter
      <4> QED
        BY <1>2, <4>2 DEF Counts, Counter
    <3>7. CountsAccepted(e, t)
      BY <3>2, <3>3, <3>5, <3>6 DEF CountsAccepted
    <3> QED
      BY <1>1, <2>1, <3>7
  <2> QED
    BY <1>4, <2>2, <2>3, <2>4, <2>5, <2>6 DEF FillCaught, CatchMalformed
<1> QED
  BY <1>3, <1>4 DEF FillCaught

-----------------------------------------------------------------------------
(* Accounting. *)

LEMMA WaitingMember ==
    ASSUME NEW p
    PROVE  p \in Waiting <=>
              \E v \in Venue : \E i \in DOMAIN lanes[v].buffer : p = <<v, i>>
BY DEF Waiting

LEMMA KeptWaiting ==
    ASSUME BuffersKept
    PROVE  Waiting' = Waiting
BY DEF BuffersKept, Waiting

LEMMA PushedWaiting ==
    ASSUME TypeOK, IsFiniteSet(Waiting),
           NEW e \in RawEvent, NEW t \in Stamp, Buffers(e, t)
    PROVE  IsFiniteSet(Waiting') /\ Cardinality(Waiting') = Cardinality(Waiting) + 1
<1> DEFINE v == e.venue
           n == Len(lanes[v].buffer)
<1>1. v \in Venue /\ lanes[v] \in Lane /\ lanes[v].buffer \in Seq(Stamped)
  BY DEF Buffers, TypeOK, Lane
<1>2. lanes'[v].buffer = Append(lanes[v].buffer, [recv_ts |-> t, fill |-> Canon[e]])
  <2>1. Ticked(lanes[v], t).buffer = lanes[v].buffer
    BY <1>1 DEF Ticked, Lane
  <2>2. lanes'[v] = Pushed(Ticked(lanes[v], t), t, Canon[e])
    BY <1>1 DEF Buffers
  <2> QED
    BY <2>1, <2>2 DEF Pushed
<1>3. /\ n \in Nat /\ DOMAIN lanes[v].buffer = 1 .. n
      /\ DOMAIN lanes'[v].buffer = (1 .. n) \cup {n + 1}
  BY <1>1, <1>2
<1>4. \A w \in Venue \ {v} : lanes'[w] = lanes[w]
  BY DEF Buffers
<1> HIDE DEF v, n
<1>5. Waiting' = Waiting \cup {<<v, n + 1>>}
  BY <1>1, <1>3, <1>4 DEF Waiting
<1>6. <<v, n + 1>> \notin Waiting
  BY <1>3, WaitingMember
<1> QED
  BY <1>5, <1>6, FS_AddElement

LEMMA EmittedWaiting ==
    ASSUME TypeOK, IsFiniteSet(Waiting), NEW v \in Venue, DrainEmit(v)
    PROVE  IsFiniteSet(Waiting') /\ Cardinality(Waiting') = Cardinality(Waiting) - 1
<1> DEFINE n == Len(lanes[v].buffer)
<1>1. /\ lanes[v] \in Lane /\ lanes[v].buffer \in Seq(Stamped) /\ lanes[v].buffer # << >>
  BY DEF TypeOK, Lane, DrainEmit, CanEmit, IsBest, NonEmpty
<1>2. /\ \A w \in Venue \ {v} : lanes'[w] = lanes[w]
      /\ lanes'[v].buffer = Tail(lanes[v].buffer)
  BY <1>1 DEF DrainEmit, TypeOK, Popped, Lane
<1>3. /\ n \in DOMAIN lanes[v].buffer
      /\ DOMAIN lanes'[v].buffer = DOMAIN lanes[v].buffer \ {n}
  BY <1>1, <1>2
<1> HIDE DEF n
<1>4. Waiting' = Waiting \ {<<v, n>>}
  <2>1. \A w \in Venue : \A i :
           i \in DOMAIN lanes'[w].buffer
              <=> i \in DOMAIN lanes[w].buffer /\ <<w, i>> # <<v, n>>
    BY <1>2, <1>3
  <2>2. \A p : p \in Waiting' <=>
           \E w \in Venue : \E i \in DOMAIN lanes'[w].buffer : p = <<w, i>>
    BY DEF Waiting
  <2>3. ASSUME NEW p
        PROVE  p \in Waiting' <=> p \in Waiting /\ p # <<v, n>>
    BY <2>1, <2>2, WaitingMember
  <2> QED
    BY <2>3
<1>5. <<v, n>> \in Waiting
  BY <1>3, WaitingMember
<1> QED
  BY <1>4, <1>5, FS_RemoveElement

LEMMA LetterCounted ==
    ASSUME LettersSound, NEW letter \in Letter,
           dead_letters' = Append(dead_letters, letter), NEW kind
    PROVE  Cardinality(Letters(kind)') = Cardinality(Letters(kind))
              + (IF letter.reason.kind = kind THEN 1 ELSE 0)
<1> DEFINE n == Len(dead_letters)
<1>1. /\ n \in Nat /\ DOMAIN dead_letters = 1 .. n
      /\ DOMAIN dead_letters' = (1 .. n) \cup {n + 1}
      /\ \A i \in 1 .. n : dead_letters'[i] = dead_letters[i]
      /\ dead_letters'[n + 1] = letter
  BY DEF LettersSound
<1> HIDE DEF n
<1>2. n + 1 \notin 1 .. n
  BY <1>1
<1>3. IsFiniteSet(Letters(kind)) /\ n + 1 \notin Letters(kind)
  <2>1. Letters(kind) \subseteq 1 .. n
    BY <1>1 DEF Letters
  <2>2. IsFiniteSet(1 .. n)
    BY <1>1, FS_Interval
  <2> QED
    BY <1>2, <2>1, <2>2, FS_Subset
<1>4. Cardinality(Letters(kind)) \in Nat
  BY <1>3, FS_CardinalityType
<1>5. CASE letter.reason.kind = kind
  <2>1. Letters(kind)' = Letters(kind) \cup {n + 1}
    BY <1>1, <1>5 DEF Letters
  <2> QED
    BY <1>3, <1>5, <2>1, FS_AddElement
<1>6. CASE letter.reason.kind # kind
  <2>1. Letters(kind)' = Letters(kind)
    BY <1>1, <1>6 DEF Letters
  <2> QED
    BY <1>4, <1>6, <2>1
<1> QED
  BY <1>5, <1>6

LEMMA AccountTypes ==
    ASSUME Known, Counted, IsFiniteSet(Waiting)
    PROVE  /\ \A c \in Counter : stats[c] \in Nat
           /\ arrivals \in Nat /\ Len(tape) \in Nat
           /\ Len(dead_letters) \in Nat /\ Len(alerts) \in Nat
           /\ Cardinality(Waiting) \in Nat
<1>1. /\ stats \in [Counter -> Nat] /\ arrivals \in Nat
      /\ tape \in Seq(SequencedFill) /\ dead_letters \in Seq(Letter)
      /\ alerts \in Seq(DOMAIN seen)
  BY BoundAssumption DEF Known, TypeOK, LettersSound, Counted
<1>2. Cardinality(Waiting) \in Nat
  BY FS_CardinalityType
<1> QED
  BY <1>1, <1>2

LEMMA CatchAccounts ==
    ASSUME Known, Counted, Accounting, IsFiniteSet(Waiting),
           NEW t \in Stamp, NEW line \in RawLine, FillCaught(t, line)
    PROVE  Accounting' /\ IsFiniteSet(Waiting')
<1>1. arrivals' = arrivals + 1 /\ tape' = tape
  BY CatchCounts
<1>2. /\ \A c \in Counter : stats[c] \in Nat
      /\ arrivals \in Nat /\ Len(tape) \in Nat
      /\ Len(dead_letters) \in Nat /\ Len(alerts) \in Nat
      /\ Cardinality(Waiting) \in Nat
  BY AccountTypes
<1>3. /\ arrivals = stats["accepted"] + stats["duplicates"] + stats["dead_lettered"]
      /\ stats["accepted"] = Len(tape) + Cardinality(Waiting)
      /\ stats["dead_lettered"] = Len(dead_letters)
      /\ stats["byzantine"] = Len(alerts)
      /\ stats["byzantine"] = Cardinality(Letters("Byzantine"))
      /\ stats["out_of_order"] = Cardinality(Letters("OutOfOrder"))
  BY DEF Accounting, Depth
<1>4. /\ stats["accepted"] \in Nat /\ stats["duplicates"] \in Nat
      /\ stats["dead_lettered"] \in Nat /\ stats["byzantine"] \in Nat
      /\ stats["out_of_order"] \in Nat
  BY <1>2 DEF Counter
<1>5. SUFFICES
      /\ arrivals' = stats'["accepted"] + stats'["duplicates"] + stats'["dead_lettered"]
      /\ stats'["accepted"] = Len(tape') + Cardinality(Waiting')
      /\ stats'["dead_lettered"] = Len(dead_letters')
      /\ stats'["byzantine"] = Len(alerts')
      /\ stats'["byzantine"] = Cardinality(Letters("Byzantine")')
      /\ stats'["out_of_order"] = Cardinality(Letters("OutOfOrder")')
      /\ IsFiniteSet(Waiting')
  BY DEF Accounting, Depth
<1>6. CASE CountsRepetition
  <2>1. /\ stats'["accepted"] = stats["accepted"]
        /\ stats'["duplicates"] = stats["duplicates"] + 1
        /\ stats'["dead_lettered"] = stats["dead_lettered"]
        /\ stats'["byzantine"] = stats["byzantine"]
        /\ stats'["out_of_order"] = stats["out_of_order"]
    BY <1>4, <1>6 DEF CountsRepetition, Counts, Counter
  <2>2. Waiting' = Waiting /\ UNCHANGED <<dead_letters, alerts>>
    BY <1>6, KeptWaiting DEF CountsRepetition
  <2>3. /\ Letters("Byzantine")' = Letters("Byzantine")
        /\ Letters("OutOfOrder")' = Letters("OutOfOrder")
    BY <2>2 DEF Letters
  <2>4. arrivals' = stats'["accepted"] + stats'["duplicates"] + stats'["dead_lettered"]
    BY <1>1, <1>3, <1>4, <2>1
  <2>5. stats'["accepted"] = Len(tape') + Cardinality(Waiting')
    BY <1>1, <1>3, <2>1, <2>2
  <2>6. stats'["dead_lettered"] = Len(dead_letters') /\ stats'["byzantine"] = Len(alerts')
    BY <1>3, <2>1, <2>2
  <2>7. stats'["byzantine"] = Cardinality(Letters("Byzantine")')
    BY <1>3, <2>1, <2>3
  <2>8. stats'["out_of_order"] = Cardinality(Letters("OutOfOrder")')
    BY <1>3, <2>1, <2>3
  <2>9. IsFiniteSet(Waiting')
    BY <2>2
  <2> QED
    BY <2>4, <2>5, <2>6, <2>7, <2>8, <2>9
<1>7. ASSUME NEW letter, CountsLetter(letter)
      PROVE  /\ arrivals' = stats'["accepted"] + stats'["duplicates"] + stats'["dead_lettered"]
             /\ stats'["accepted"] = Len(tape') + Cardinality(Waiting')
             /\ stats'["dead_lettered"] = Len(dead_letters')
             /\ stats'["byzantine"] = Len(alerts')
             /\ stats'["byzantine"] = Cardinality(Letters("Byzantine")')
             /\ stats'["out_of_order"] = Cardinality(Letters("OutOfOrder")')
             /\ IsFiniteSet(Waiting')
  <2> DEFINE One(kind) == IF letter.reason.kind = kind THEN 1 ELSE 0
  <2>1. /\ stats'["accepted"] = stats["accepted"]
        /\ stats'["duplicates"] = stats["duplicates"]
        /\ stats'["dead_lettered"] = stats["dead_lettered"] + 1
        /\ stats'["byzantine"] = stats["byzantine"] + One("Byzantine")
        /\ stats'["out_of_order"] = stats["out_of_order"] + One("OutOfOrder")
    BY <1>4, <1>7 DEF CountsLetter, Counts, Counter
  <2>2. /\ Waiting' = Waiting
        /\ letter \in Letter /\ dead_letters' = Append(dead_letters, letter)
        /\ Len(alerts') = Len(alerts) + One("Byzantine")
    BY <1>7, KeptWaiting DEF CountsLetter
  <2>3. LettersSound /\ dead_letters \in Seq(Letter)
    BY DEF Known, LettersSound
  <2>4. Len(dead_letters') = Len(dead_letters) + 1
    BY <2>2, <2>3
  <2>5. /\ Cardinality(Letters("Byzantine")')
              = Cardinality(Letters("Byzantine")) + One("Byzantine")
        /\ Cardinality(Letters("OutOfOrder")')
              = Cardinality(Letters("OutOfOrder")) + One("OutOfOrder")
    BY <2>2, <2>3, LetterCounted
  <2> HIDE DEF One
  <2>7. arrivals' = stats'["accepted"] + stats'["duplicates"] + stats'["dead_lettered"]
    BY <1>1, <1>3, <1>4, <2>1
  <2>8. stats'["accepted"] = Len(tape') + Cardinality(Waiting')
    BY <1>1, <1>3, <2>1, <2>2
  <2>9. stats'["dead_lettered"] = Len(dead_letters') /\ stats'["byzantine"] = Len(alerts')
    BY <1>3, <2>1, <2>2, <2>4
  <2>10. stats'["byzantine"] = Cardinality(Letters("Byzantine")')
    BY <1>3, <2>1, <2>5
  <2>11. stats'["out_of_order"] = Cardinality(Letters("OutOfOrder")')
    BY <1>3, <2>1, <2>5
  <2>12. IsFiniteSet(Waiting')
    BY <2>2
  <2> QED
    BY <2>7, <2>8, <2>9, <2>10, <2>11, <2>12
<1>8. ASSUME NEW e \in RawEvent, CountsAccepted(e, t)
      PROVE  /\ arrivals' = stats'["accepted"] + stats'["duplicates"] + stats'["dead_lettered"]
             /\ stats'["accepted"] = Len(tape') + Cardinality(Waiting')
             /\ stats'["dead_lettered"] = Len(dead_letters')
             /\ stats'["byzantine"] = Len(alerts')
             /\ stats'["byzantine"] = Cardinality(Letters("Byzantine")')
             /\ stats'["out_of_order"] = Cardinality(Letters("OutOfOrder")')
             /\ IsFiniteSet(Waiting')
  <2>1. /\ stats'["accepted"] = stats["accepted"] + 1
        /\ stats'["duplicates"] = stats["duplicates"]
        /\ stats'["dead_lettered"] = stats["dead_lettered"]
        /\ stats'["byzantine"] = stats["byzantine"]
        /\ stats'["out_of_order"] = stats["out_of_order"]
    BY <1>4, <1>8 DEF CountsAccepted, Counts, Counter
  <2>2. IsFiniteSet(Waiting') /\ Cardinality(Waiting') = Cardinality(Waiting) + 1
    BY <1>8, PushedWaiting DEF CountsAccepted, Known
  <2>3. UNCHANGED <<dead_letters, alerts>>
    BY <1>8 DEF CountsAccepted
  <2>4. /\ Letters("Byzantine")' = Letters("Byzantine")
        /\ Letters("OutOfOrder")' = Letters("OutOfOrder")
    BY <2>3 DEF Letters
  <2>5. arrivals' = stats'["accepted"] + stats'["duplicates"] + stats'["dead_lettered"]
    BY <1>1, <1>3, <1>4, <2>1
  <2>6. stats'["accepted"] = Len(tape') + Cardinality(Waiting')
    BY <1>1, <1>2, <1>3, <2>1, <2>2
  <2>7. stats'["dead_lettered"] = Len(dead_letters') /\ stats'["byzantine"] = Len(alerts')
    BY <1>3, <2>1, <2>3
  <2>8. stats'["byzantine"] = Cardinality(Letters("Byzantine")')
    BY <1>3, <2>1, <2>4
  <2>9. stats'["out_of_order"] = Cardinality(Letters("OutOfOrder")')
    BY <1>3, <2>1, <2>4
  <2> QED
    BY <2>2, <2>5, <2>6, <2>7, <2>8, <2>9
<1> QED
  BY <1>6, <1>7, <1>8, CatchCounts

LEMMA DelegateAccounts ==
    ASSUME Known, Accounting, Counted, IsFiniteSet(Waiting), Delegate
    PROVE  Accounting' /\ IsFiniteSet(Waiting')
<1>1. UNCHANGED <<stats, arrivals, dead_letters, alerts>>
  BY DEF Delegate, ivars
<1>2. TypeOK
  BY DEF Known
<1>3. ASSUME Len(tape') + Cardinality(Waiting') = Len(tape) + Cardinality(Waiting),
             IsFiniteSet(Waiting')
      PROVE  Accounting' /\ IsFiniteSet(Waiting')
  BY <1>1, <1>3 DEF Accounting, Depth, Letters
<1>4. ASSUME NEW v \in Venue, NEW t \in Stamp, Tick(v, t)
      PROVE  BuffersKept /\ tape' = tape
  BY <1>2, <1>4, JustTickEffect DEF Tick, JustTick, TickedLane, TypeOK
<1>5. DrainReady \/ Flush \/ DrainReturn => BuffersKept /\ tape' = tape
  BY DEF DrainReady, Flush, DrainReturn, BuffersKept
<1>6. CASE BuffersKept /\ tape' = tape
  BY <1>3, <1>6, KeptWaiting
<1>7. ASSUME NEW v \in Venue, DrainEmit(v)
      PROVE  Accounting' /\ IsFiniteSet(Waiting')
  <2>1. IsFiniteSet(Waiting') /\ Cardinality(Waiting') = Cardinality(Waiting) - 1
    BY <1>2, <1>7, EmittedWaiting
  <2>2. tape \in Seq(SequencedFill) /\ Len(tape) \in Nat
    BY <1>2 DEF TypeOK
  <2>3. Len(tape') = Len(tape) + 1
    BY <1>7, <2>2 DEF DrainEmit
  <2>4. Cardinality(Waiting) \in Nat
    BY FS_CardinalityType
  <2> QED
    BY <1>3, <2>1, <2>2, <2>3, <2>4
<1> QED
  BY <1>4, <1>5, <1>6, <1>7 DEF Delegate

(* Every arrival is accounted for: it was accepted, and then is buffered   *)
(* or on the tape, or it was a counted repetition, or it is a dead letter. *)
THEOREM NothingIsLost == IngesterSpec => []Accounting
<1> DEFINE Accounted == Known /\ Counted /\ Accounting /\ IsFiniteSet(Waiting)
<1>1. IngesterInit => Accounted
  <2> SUFFICES ASSUME IngesterInit
               PROVE  Accounting /\ IsFiniteSet(Waiting)
    BY KnownInit, CountedInit
  <2>1. /\ tape = << >> /\ dead_letters = << >> /\ alerts = << >> /\ arrivals = 0
        /\ \A v \in Venue : lanes[v].buffer = << >>
        /\ \A c \in Counter : stats[c] = 0
    BY DEF IngesterInit, Init, NewLane, Counter
  <2>2. Waiting = {}
    BY <2>1, WaitingMember
  <2>3. Letters("Byzantine") = {} /\ Letters("OutOfOrder") = {}
    BY <2>1 DEF Letters
  <2>4. /\ stats["accepted"] = 0 /\ stats["duplicates"] = 0
        /\ stats["dead_lettered"] = 0 /\ stats["byzantine"] = 0
        /\ stats["out_of_order"] = 0
        /\ Len(tape) = 0 /\ Len(dead_letters) = 0 /\ Len(alerts) = 0
    BY <2>1 DEF Counter
  <2>5. Depth = 0 /\ IsFiniteSet(Waiting)
    BY <2>2, FS_EmptySet DEF Depth
  <2>6. Cardinality(Letters("Byzantine")) = 0 /\ Cardinality(Letters("OutOfOrder")) = 0
    BY <2>3, FS_EmptySet
  <2> QED
    BY <2>1, <2>4, <2>5, <2>6 DEF Accounting
<1>2. Accounted /\ [IngesterNext]_allvars => Accounted'
  <2> SUFFICES ASSUME Accounted, [IngesterNext]_allvars
               PROVE  Accounting' /\ IsFiniteSet(Waiting')
    BY KnownStep, CountedStep
  <2>1. ASSUME NEW t \in Stamp, NEW line \in RawLine, FillCaught(t, line)
        PROVE  Accounting' /\ IsFiniteSet(Waiting')
    BY <2>1, CatchAccounts
  <2>2. CASE UNCHANGED allvars
    BY <2>2 DEF allvars, vars, ivars, Accounting, Depth, Waiting, Letters
  <2> QED
    BY <2>1, <2>2, DelegateAccounts DEF IngesterNext
<1> QED
  BY <1>1, <1>2, PTL DEF IngesterSpec

-----------------------------------------------------------------------------
(* The accepted fills, exactly. *)

LEMMA MembershipNext ==
    ASSUME NEW f
    PROVE  f \in AcceptedFills' <=>
              \/ \E i \in DOMAIN tape' : tape'[i].fill = f
              \/ \E v \in Venue : \E j \in DOMAIN lanes'[v].buffer :
                    lanes'[v].buffer[j].fill = f
BY DEF AcceptedFills, Buffered, Range

LEMMA AcceptedTypes ==
    ASSUME TypeOK, NEW f \in AcceptedFills
    PROVE  f \in Fill /\ f.seq \in Nat
<1>1. ASSUME NEW i \in DOMAIN tape, tape[i].fill = f
      PROVE  f \in Fill
  <2>1. tape[i] \in SequencedFill
    BY DEF TypeOK
  <2> QED
    BY <1>1, <2>1 DEF SequencedFill
<1>2. ASSUME NEW v \in Venue, NEW j \in DOMAIN lanes[v].buffer,
             lanes[v].buffer[j].fill = f
      PROVE  f \in Fill
  <2>1. lanes[v].buffer[j] \in Stamped
    BY DEF TypeOK, Lane
  <2> QED
    BY <1>2, <2>1 DEF Stamped
<1>3. f \in Fill
  BY <1>1, <1>2, Membership
<1> QED
  BY <1>3, FillAssumption

LEMMA PushedExactly ==
    ASSUME TypeOK, NEW e \in RawEvent, NEW t \in Stamp, Buffers(e, t), tape' = tape
    PROVE  AcceptedFills' = AcceptedFills \cup {Canon[e]}
<1> DEFINE v == e.venue
           n == Len(lanes[v].buffer)
<1>1. v \in Venue /\ lanes[v] \in Lane /\ lanes[v].buffer \in Seq(Stamped)
  BY DEF Buffers, TypeOK, Lane
<1>2. lanes'[v].buffer = Append(lanes[v].buffer, [recv_ts |-> t, fill |-> Canon[e]])
  <2>1. Ticked(lanes[v], t).buffer = lanes[v].buffer
    BY <1>1 DEF Ticked, Lane
  <2>2. lanes'[v] = Pushed(Ticked(lanes[v], t), t, Canon[e])
    BY <1>1 DEF Buffers
  <2> QED
    BY <2>1, <2>2 DEF Pushed
<1>3. /\ n + 1 \in DOMAIN lanes'[v].buffer
      /\ lanes'[v].buffer[n + 1] = [recv_ts |-> t, fill |-> Canon[e]]
      /\ \A j \in DOMAIN lanes[v].buffer : /\ j \in DOMAIN lanes'[v].buffer
                                           /\ lanes'[v].buffer[j] = lanes[v].buffer[j]
  <2> DEFINE s == lanes[v].buffer
             u == lanes'[v].buffer
             x == [recv_ts |-> t, fill |-> Canon[e]]
  <2>1. s \in Seq(Stamped) /\ u = Append(s, x)
    BY <1>1, <1>2
  <2> HIDE DEF s, u, x
  <2>2. /\ Len(s) + 1 \in DOMAIN u /\ u[Len(s) + 1] = x
        /\ \A j \in DOMAIN s : j \in DOMAIN u /\ u[j] = s[j]
    BY <2>1
  <2> QED
    BY <2>2 DEF s, u, x
<1>4. \A w \in Venue \ {v} : lanes'[w] = lanes[w]
  BY DEF Buffers
<1> HIDE DEF v, n
<1>5. Canon[e] \in AcceptedFills'
  BY <1>1, <1>3, MembershipNext
<1>6. ASSUME NEW f \in AcceptedFills
      PROVE  f \in AcceptedFills'
  <2>1. ASSUME NEW w \in Venue, NEW j \in DOMAIN lanes[w].buffer,
               lanes[w].buffer[j].fill = f
        PROVE  f \in AcceptedFills'
    BY <1>3, <1>4, <2>1, MembershipNext
  <2> QED
    BY <2>1, Membership, MembershipNext
<1> QED
  BY <1>5, <1>6, PushedFills

LEMMA EmittedExactly ==
    ASSUME TypeOK, NEW v \in Venue, DrainEmit(v)
    PROVE  AcceptedFills' = AcceptedFills
<1>1. /\ lanes[v] \in Lane /\ lanes[v].buffer \in Seq(Stamped) /\ lanes[v].buffer # << >>
  BY DEF TypeOK, Lane, DrainEmit, CanEmit, IsBest, NonEmpty
<1>2. /\ \A w \in Venue \ {v} : lanes'[w] = lanes[w]
      /\ lanes'[v].buffer = Tail(lanes[v].buffer)
  BY <1>1 DEF DrainEmit, TypeOK, Popped, Lane
<1>3. \A j \in DOMAIN lanes[v].buffer :
         \/ j = 1
         \/ /\ j - 1 \in DOMAIN lanes'[v].buffer
            /\ lanes'[v].buffer[j - 1] = lanes[v].buffer[j]
  BY <1>1, <1>2
<1>4. /\ \A i \in DOMAIN tape : i \in DOMAIN tape' /\ tape'[i] = tape[i]
      /\ Len(tape) + 1 \in DOMAIN tape'
      /\ tape'[Len(tape) + 1].fill = lanes[v].buffer[1].fill
  BY EmittedPlaces
<1>5. ASSUME NEW f \in AcceptedFills
      PROVE  f \in AcceptedFills'
  <2>1. ASSUME NEW i \in DOMAIN tape, tape[i].fill = f
        PROVE  f \in AcceptedFills'
    BY <1>4, <2>1, MembershipNext
  <2>2. ASSUME NEW w \in Venue, NEW j \in DOMAIN lanes[w].buffer,
               lanes[w].buffer[j].fill = f
        PROVE  f \in AcceptedFills'
    <3>1. CASE w # v
      BY <1>2, <2>2, <3>1, MembershipNext
    <3>2. CASE w = v /\ j = 1
      BY <1>4, <2>2, <3>2, MembershipNext
    <3>3. CASE w = v /\ j # 1
      BY <1>3, <2>2, <3>3, MembershipNext
    <3> QED
      BY <3>1, <3>2, <3>3
  <2> QED
    BY <2>1, <2>2, Membership
<1> QED
  BY <1>5, EmittedFills

-----------------------------------------------------------------------------
(* The numbers missing from a set. *)

MissingOf(S) == IF S = {} THEN {} ELSE (Min(S) .. Max(S)) \ S

LEMMA MinMax ==
    ASSUME NEW S, S \subseteq Nat, NEW m \in S, \A x \in S : x <= m
    PROVE  Max(S) = m /\ Min(S) \in S /\ \A x \in S : Min(S) <= x
<1>1. Max(S) \in S /\ \A x \in S : Max(S) >= x
  BY DEF Max
<1>2. \E x \in S : \A y \in S : x <= y
  BY LeastOfNaturals
<1>3. Min(S) \in S /\ \A x \in S : Min(S) <= x
  BY <1>2 DEF Min
<1> DEFINE max == Max(S)
<1>4. max \in Nat /\ m \in Nat /\ max <= m /\ max >= m
  BY <1>1
<1> HIDE DEF max
<1>5. max = m
  BY <1>4
<1> QED
  BY <1>3, <1>5 DEF max

(* A first number misses nothing. *)
LEMMA MissingOfOne ==
    ASSUME NEW n \in Nat
    PROVE  MissingOf({n}) = {}
<1>1. Max({n}) = n /\ Min({n}) = n
  BY MinMax
<1> QED
  BY <1>1 DEF MissingOf

(* A number past the last adds what it skips. *)
LEMMA MissingOfNext ==
    ASSUME NEW S, S \subseteq Nat, NEW last \in S, \A x \in S : x <= last,
           NEW n \in Nat, n > last
    PROVE  /\ MissingOf(S \cup {n}) = MissingOf(S) \cup ((last + 1) .. (n - 1))
           /\ \A x \in MissingOf(S) : x < last + 1
<1> DEFINE T == S \cup {n}
<1>1. Max(S) = last /\ Min(S) \in S /\ \A x \in S : Min(S) <= x
  BY MinMax
<1>2. T \subseteq Nat /\ n \in T /\ \A x \in T : x <= n
  OBVIOUS
<1>3. Max(T) = n /\ Min(T) \in T /\ \A x \in T : Min(T) <= x
  BY <1>2, MinMax
<1>4. Min(S) \in Nat /\ Min(S) <= last /\ last \in Nat
  BY <1>1
<1>5. Min(T) = Min(S)
  <2>1. Min(S) \in T /\ \A x \in T : Min(S) <= x
    BY <1>1, <1>4
  <2> DEFINE a == Min(S)
             b == Min(T)
  <2>2. a \in Nat /\ b \in Nat /\ a <= b /\ b <= a
    BY <1>2, <1>3, <2>1
  <2> HIDE DEF a, b
  <2>3. a = b
    BY <2>2
  <2> QED
    BY <2>3 DEF a, b
<1>6. MissingOf(S) = (Min(S) .. last) \ S
  BY <1>1 DEF MissingOf
<1>7. MissingOf(T) = (Min(S) .. n) \ T
  BY <1>3, <1>5, <1>2 DEF MissingOf
<1> DEFINE lo == Min(S)
<1>8. lo \in Nat /\ lo <= last
  BY <1>4
<1> HIDE DEF lo
<1>9. ASSUME NEW x
      PROVE  x \in (lo .. n) \ T <=> x \in ((lo .. last) \ S) \cup ((last + 1) .. (n - 1))
  BY <1>4, <1>8
<1>10. MissingOf(T) = MissingOf(S) \cup ((last + 1) .. (n - 1))
  BY <1>6, <1>7, <1>9 DEF lo
<1>11. \A x \in MissingOf(S) : x < last + 1
  BY <1>4, <1>6
<1> QED
  BY <1>10, <1>11

-----------------------------------------------------------------------------
(* Gaps. *)

(* The sequence numbers of a venue's accepted fills. *)
Carried(v) == {f.seq : f \in {g \in AcceptedFills : g.venue = v}}

Holes == UNION {{v} \X Missing(v) : v \in Venue}

(* A lane's last_seq is the greatest number its venue has had accepted. *)
LastIsGreatest ==
    \A v \in Venue :
        /\ lanes[v].last_seq = NoSeq => Carried(v) = {}
        /\ lanes[v].last_seq # NoSeq =>
              /\ lanes[v].last_seq \in Carried(v)
              /\ \A n \in Carried(v) : n <= lanes[v].last_seq

GapsTallied ==
    /\ stats["gaps"] = Cardinality(Holes)
    /\ IsFiniteSet(Holes)
    /\ LastIsGreatest

LEMMA MissingIsOfCarried ==
    /\ \A v : Missing(v) = MissingOf(Carried(v))
    /\ \A v : Missing(v)' = MissingOf(Carried(v)')
BY DEF Missing, MissingOf, Carried

LEMMA HoleMember ==
    ASSUME NEW p
    PROVE  p \in Holes <=> \E v \in Venue : \E n \in Missing(v) : p = <<v, n>>
BY DEF Holes

LEMMA CarriedTypes ==
    ASSUME TypeOK, NEW v \in Venue
    PROVE  Carried(v) \subseteq Nat
BY AcceptedTypes DEF Carried

(* While nothing is accepted, nothing changes. *)
LEMMA SameFillsSameGaps ==
    ASSUME GapsTallied, AcceptedFills' = AcceptedFills, stats'["gaps"] = stats["gaps"],
           \A v \in Venue : lanes'[v].last_seq = lanes[v].last_seq
    PROVE  GapsTallied'
<1>1. \A v \in Venue : Carried(v)' = Carried(v)
  BY DEF Carried
<1>2. \A v \in Venue : Missing(v)' = Missing(v)
  BY <1>1, MissingIsOfCarried
<1>3. Holes' = Holes
  BY <1>2 DEF Holes
<1> QED
  BY <1>1, <1>3 DEF GapsTallied, LastIsGreatest

(* The lane accepts only what exceeds its last number, so the subtraction  *)
(* of NewGaps does not wrap.                                               *)
LEMMA NoWrap ==
    ASSUME NEW last \in Nat, NEW n \in Nat, n > last, n < U64
    PROVE  (n - last - 1) % U64 = n - last - 1
<1>1. n - last - 1 \in 0 .. (U64 - 1) /\ U64 \in Nat \ {0}
  BY BoundAssumption
<1> DEFINE d == n - last - 1
<1>2. d \in 0 .. (U64 - 1)
  BY <1>1
<1> HIDE DEF d
<1>3. d % U64 = d
  BY <1>1, <1>2
<1> QED
  BY <1>3 DEF d

LEMMA AcceptedTallies ==
    ASSUME Known, Counted, GapsTallied, NEW e \in RawEvent, NEW t \in Stamp,
           CountsAccepted(e, t), tape' = tape
    PROVE  GapsTallied'
<1> DEFINE v    == e.venue
           n    == Canon[e].seq
           last == lanes[v].last_seq
<1>1. /\ TypeOK /\ Buffers(e, t) /\ v \in Venue
      /\ Canon[e] \in Fill /\ Canon[e].venue = v /\ n \in Nat /\ n < U64
      /\ last \in Nat \cup {NoSeq} /\ (last = NoSeq \/ n > last)
      /\ max_seq[v] = last
  <2>1. TypeOK /\ Buffers(e, t) /\ v \in Venue /\ Canon[e] \in Fill
    BY DEF Known, CountsAccepted, Buffers
  <2>2. Canon[e].venue = v
    BY <2>1, CanonAssumption
  <2>3. n \in Nat /\ n < U64
    BY <2>1, FillAssumption, SeqAssumption
  <2> QED
    BY <2>1, <2>2, <2>3 DEF Known, CountsAccepted, TypeOK, Lane, MaxSeqIsLastSeq
<1>2. AcceptedFills' = AcceptedFills \cup {Canon[e]}
  BY <1>1, PushedExactly
<1>3. /\ lanes'[v].last_seq = n
      /\ \A w \in Venue \ {v} : lanes'[w] = lanes[w]
  <2>1. lanes'[v] = Pushed(Ticked(lanes[v], t), t, Canon[e])
    BY <1>1 DEF Buffers
  <2>2. lanes'[v].last_seq = n
    BY <2>1 DEF Pushed
  <2>3. \A w \in Venue \ {v} : lanes'[w] = lanes[w]
    BY <1>1 DEF Buffers
  <2> QED
    BY <2>2, <2>3
<1>4. /\ stats'["gaps"] = stats["gaps"] + NewGaps(v, n)
      /\ stats["gaps"] \in Nat
  BY DEF CountsAccepted, Counted, Counter
<1> HIDE DEF v, n, last
<1>5. /\ Carried(v)' = Carried(v) \cup {n}
      /\ \A w \in Venue \ {v} : Carried(w)' = Carried(w)
  BY <1>1, <1>2 DEF Carried, n
<1>6. Carried(v) \subseteq Nat
  BY <1>1, CarriedTypes
<1>7. \A w \in Venue \ {v} : Missing(w)' = Missing(w)
  BY <1>5, MissingIsOfCarried
<1>8. LastIsGreatest'
  <2>1. ASSUME NEW w \in Venue, w # v
        PROVE  /\ lanes'[w].last_seq = NoSeq => Carried(w)' = {}
               /\ lanes'[w].last_seq # NoSeq =>
                     /\ lanes'[w].last_seq \in Carried(w)'
                     /\ \A m \in Carried(w)' : m <= lanes'[w].last_seq
    <3>1. lanes'[w] = lanes[w] /\ Carried(w)' = Carried(w)
      BY <2>1, <1>3, <1>5
    <3> QED
      BY <3>1 DEF GapsTallied, LastIsGreatest
  <2>2. n # NoSeq /\ n \in Carried(v)'
    BY <1>1, <1>5 DEF NoSeq
  <2>3. \A m \in Carried(v)' : m <= n
    <3>1. last = NoSeq => Carried(v) = {}
      BY <1>1 DEF GapsTallied, LastIsGreatest, last
    <3>2. last # NoSeq => \A m \in Carried(v) : m <= last
      BY <1>1 DEF GapsTallied, LastIsGreatest, last
    <3> QED
      BY <1>1, <1>5, <1>6, <3>1, <3>2
  <2> QED
    BY <1>3, <2>1, <2>2, <2>3 DEF LastIsGreatest
<1>9. CASE last = NoSeq
  <2>1. Carried(v) = {}
    BY <1>1, <1>9 DEF GapsTallied, LastIsGreatest, last
  <2>2. Missing(v)' = {} /\ Missing(v) = {}
    <3>1. Carried(v)' = {n}
      BY <1>5, <2>1
    <3> QED
      BY <1>1, <2>1, <3>1, MissingIsOfCarried, MissingOfOne DEF MissingOf
  <2>3. \A w \in Venue : Missing(w)' = Missing(w)
    BY <1>7, <2>2
  <2>4. Holes' = Holes
    BY <2>3 DEF Holes
  <2>5. NewGaps(v, n) = 0
    BY <1>1, <1>9 DEF NewGaps
  <2>6. stats'["gaps"] = stats["gaps"]
    BY <1>4, <2>5
  <2> QED
    BY <1>8, <2>4, <2>6 DEF GapsTallied
<1>10. CASE last # NoSeq
  <2> DEFINE Skipped == (last + 1) .. (n - 1)
  <2>1. last \in Nat /\ n > last
    BY <1>1, <1>10
  <2>2. last \in Carried(v) /\ \A m \in Carried(v) : m <= last
    BY <1>1, <1>10 DEF GapsTallied, LastIsGreatest, last
  <2>3. /\ Missing(v)' = Missing(v) \cup Skipped
        /\ \A x \in Missing(v) : x < last + 1
    BY <1>1, <1>5, <1>6, <2>1, <2>2, MissingIsOfCarried, MissingOfNext
  <2>4. IsFiniteSet(Skipped) /\ Cardinality(Skipped) = n - last - 1
    <3>1. last + 1 \in Int /\ n - 1 \in Int
      BY <1>1, <2>1
    <3>2. IsFiniteSet(Skipped)
          /\ Cardinality(Skipped)
                = IF last + 1 > n - 1 THEN 0 ELSE (n - 1) - (last + 1) + 1
      BY <3>1, FS_Interval
    <3> QED
      BY <1>1, <2>1, <3>2
  <2>5. \A x \in Skipped : x \in Int /\ x >= last + 1
    BY <1>1, <2>1
  <2> HIDE DEF Skipped
  <2>6. IsFiniteSet({v} \X Skipped) /\ Cardinality({v} \X Skipped) = n - last - 1
    <3>1. IsFiniteSet({v}) /\ Cardinality({v}) = 1
      BY FS_Singleton
    <3> QED
      <4>1. /\ IsFiniteSet({v} \X Skipped)
            /\ Cardinality({v} \X Skipped) = Cardinality({v}) * Cardinality(Skipped)
        BY <2>4, <3>1, FS_Product
      <4>2. n - last - 1 \in Int
        BY <1>1, <2>1
      <4> QED
        BY <2>4, <3>1, <4>1, <4>2
  <2>7. Holes' = Holes \cup ({v} \X Skipped)
    <3>1. \A p : p \in Holes' <=>
             \E w \in Venue : \E m \in Missing(w)' : p = <<w, m>>
      BY DEF Holes
    <3>2. ASSUME NEW p
          PROVE  p \in Holes' <=> p \in Holes \cup ({v} \X Skipped)
      BY <1>1, <1>7, <2>3, <3>1, HoleMember
    <3> QED
      BY <3>2
  <2>8. Holes \cap ({v} \X Skipped) = {}
    <3>1. \A x \in Missing(v) : x \notin Skipped
      BY <2>1, <2>3, <2>5
    <3>2. ASSUME NEW p \in Holes, p \in {v} \X Skipped
          PROVE  FALSE
      BY <3>1, <3>2, HoleMember
    <3> QED
      BY <3>2
  <2>9. /\ IsFiniteSet(Holes')
        /\ Cardinality(Holes') = Cardinality(Holes) + (n - last - 1)
    <3>1. IsFiniteSet(Holes)
      BY DEF GapsTallied
    <3>2. /\ IsFiniteSet(Holes')
          /\ Cardinality(Holes') = Cardinality(Holes) + Cardinality({v} \X Skipped)
                                    - Cardinality(Holes \cap ({v} \X Skipped))
      BY <2>6, <2>7, <3>1, FS_Union
    <3>3. Cardinality(Holes \cap ({v} \X Skipped)) = 0
      BY <2>8, FS_EmptySet
    <3>4. Cardinality(Holes) \in Nat
      BY <3>1, FS_CardinalityType
    <3> QED
      BY <1>1, <2>1, <2>6, <3>2, <3>3, <3>4
  <2>10. NewGaps(v, n) = n - last - 1
    BY <1>1, <1>10, <2>1, NoWrap DEF NewGaps
  <2>11. stats'["gaps"] = Cardinality(Holes')
    BY <1>4, <2>9, <2>10 DEF GapsTallied
  <2> QED
    BY <1>8, <2>9, <2>11 DEF GapsTallied
<1> QED
  BY <1>9, <1>10

LEMMA TalliesStep ==
    ASSUME Known, Counted, GapsTallied, [IngesterNext]_allvars
    PROVE  GapsTallied'
<1>1. TypeOK
  BY DEF Known
<1>2. ASSUME BuffersKept, tape' = tape, stats'["gaps"] = stats["gaps"]
      PROVE  GapsTallied'
  <2>1. AcceptedFills' = AcceptedFills /\ \A v \in Venue : lanes'[v].last_seq = lanes[v].last_seq
    BY <1>2, KeptPlaces DEF BuffersKept
  <2> QED
    BY <1>2, <2>1, SameFillsSameGaps
<1>3. ASSUME NEW t \in Stamp, NEW line \in RawLine, FillCaught(t, line)
      PROVE  GapsTallied'
  <2>1. tape' = tape
    BY <1>3, CatchCounts
  <2>2. CASE CountsRepetition
    BY <1>2, <2>1, <2>2 DEF CountsRepetition
  <2>3. ASSUME NEW letter, CountsLetter(letter)
        PROVE  GapsTallied'
    BY <1>2, <2>1, <2>3 DEF CountsLetter
  <2>4. ASSUME NEW e \in RawEvent, CountsAccepted(e, t)
        PROVE  GapsTallied'
    BY <2>1, <2>4, AcceptedTallies
  <2> QED
    BY <1>3, <2>2, <2>3, <2>4, CatchCounts
<1>4. CASE Delegate
  <2>1. stats' = stats
    BY <1>4 DEF Delegate, ivars
  <2>2. ASSUME NEW v \in Venue, NEW t \in Stamp, Tick(v, t)
        PROVE  BuffersKept /\ tape' = tape
    BY <1>1, <2>2, JustTickEffect DEF Tick, JustTick, TickedLane, TypeOK
  <2>3. DrainReady \/ Flush \/ DrainReturn => BuffersKept /\ tape' = tape
    BY DEF DrainReady, Flush, DrainReturn, BuffersKept
  <2>4. ASSUME NEW v \in Venue, DrainEmit(v)
        PROVE  GapsTallied'
    <3>1. AcceptedFills' = AcceptedFills
      BY <1>1, <2>4, EmittedExactly
    <3>2. \A w \in Venue : lanes'[w].last_seq = lanes[w].last_seq
      BY <1>1, <2>4 DEF DrainEmit, TypeOK, Popped, Lane
    <3> QED
      BY <2>1, <3>1, <3>2, SameFillsSameGaps
  <2> QED
    BY <1>2, <1>4, <2>1, <2>2, <2>3, <2>4 DEF Delegate
<1>5. CASE UNCHANGED allvars
  BY <1>2, <1>5 DEF allvars, vars, ivars, BuffersKept
<1> QED
  BY <1>3, <1>4, <1>5 DEF IngesterNext

(* stats.gaps is the number of sequence numbers missing between a venue's  *)
(* first and last accepted fill: the unsigned subtraction never wraps.     *)
THEOREM GapsAreMissing == IngesterSpec => []GapsCountMissing
<1>1. IngesterInit => GapsTallied
  <2> SUFFICES ASSUME IngesterInit
               PROVE  GapsTallied
    OBVIOUS
  <2>1. /\ tape = << >> /\ stats["gaps"] = 0
        /\ \A v \in Venue : lanes[v].buffer = << >> /\ lanes[v].last_seq = NoSeq
    BY DEF IngesterInit, Init, NewLane
  <2>2. AcceptedFills = {}
    BY <2>1, Membership
  <2>3. \A v \in Venue : Carried(v) = {}
    BY <2>2 DEF Carried
  <2>4. \A v \in Venue : Missing(v) = {}
    BY <2>3, MissingIsOfCarried DEF MissingOf
  <2>5. Holes = {}
    BY <2>4, HoleMember
  <2>6. LastIsGreatest
    BY <2>1, <2>3 DEF LastIsGreatest
  <2> QED
    BY <2>1, <2>5, <2>6, FS_EmptySet DEF GapsTallied
<1>2. GapsTallied => GapsCountMissing
  BY DEF GapsTallied, GapsCountMissing, Holes
<1> DEFINE Tallied == Known /\ Counted /\ GapsTallied
<1>3. Tallied /\ [IngesterNext]_allvars => Tallied'
  BY KnownStep, CountedStep, TalliesStep
<1>4. IngesterInit => Tallied
  BY <1>1, KnownInit, CountedInit
<1> QED
  BY <1>2, <1>3, <1>4, PTL DEF IngesterSpec

=============================================================================
