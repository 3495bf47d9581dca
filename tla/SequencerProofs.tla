-------------------------- MODULE SequencerProofs --------------------------
(***************************************************************************)
(* Type correctness and the safety properties of Sequencer for any number  *)
(* of venues, any fills and any stamps.                                    *)
(***************************************************************************)
EXTENDS Sequencer, TLAPS, WellFoundedInduction

(* e sorts before everything the lane buffers. *)
Precedes(e, lane) ==
    \A j \in DOMAIN lane.buffer : KeyLess(e, lane.buffer[j])

(* What e knows of lane v once published: its stamp is behind the          *)
(* frontier, or at it with nothing of v left that could sort before it.    *)
Passed(e, lane, v) ==
    \/ e.recv_ts < lane.frontier
    \/ /\ e.recv_ts = lane.frontier
       /\ \/ e.fill.venue < v
          \/ e.fill.venue = v /\ e.fill.seq <= lane.last_seq

(* The lane holds its own venue's fills, behind its frontier and its       *)
(* last_seq, in SORT_KEY order.                                            *)
LaneOrdered(lane, v) ==
    \A i \in DOMAIN lane.buffer :
        /\ lane.buffer[i].fill.venue = v
        /\ lane.buffer[i].recv_ts <= lane.frontier
        /\ lane.buffer[i].fill.seq <= lane.last_seq
        /\ \A j \in DOMAIN lane.buffer :
              i < j => KeyLess(lane.buffer[i], lane.buffer[j])

LanesOrdered == \A v \in Venue : LaneOrdered(lanes[v], v)

TapePrecedesLanes ==
    \A i \in DOMAIN tape, v \in Venue : Precedes(tape[i], lanes[v])

(* Until the seal, every lane has passed every published entry. *)
TapePassed ==
    ~sealed => \A i \in DOMAIN tape, v \in Venue : Passed(tape[i], lanes[v], v)

TapeNumbered == next_global_seq = Len(tape) + 1

FlushSeals ==
    /\ draining = "flush" => sealed
    /\ sealed /\ draining # "flush" =>
          \A v \in Venue : lanes[v].buffer = << >>

IInv ==
    /\ TypeOK
    /\ LanesOrdered
    /\ TapePrecedesLanes
    /\ TapePassed
    /\ TapeNumbered
    /\ TapeInSortKeyOrder
    /\ FlushSeals

-----------------------------------------------------------------------------
(* Type correctness. *)

(* A lane stays a lane through a tick, an accepted push and a pop. *)
LEMMA LaneTypes ==
    ASSUME NEW lane \in Lane
    PROVE  /\ \A t \in Stamp : Ticked(lane, t) \in Lane
           /\ \A t \in Stamp, f \in Fill : Pushed(lane, t, f) \in Lane
           /\ lane.buffer # << >> =>
                /\ Popped(lane) \in Lane
                /\ Head(lane.buffer) \in Stamped
<1>1. lane.buffer \in Seq(Stamped) /\ lane.frontier \in Nat
      /\ lane.last_seq \in Nat \cup {NoSeq}
  BY DEF Lane
<1>2. ASSUME NEW t \in Stamp
      PROVE  Ticked(lane, t) \in Lane
  BY <1>1, StampAssumption DEF Ticked, Lane
<1>3. ASSUME NEW t \in Stamp, NEW f \in Fill
      PROVE  Pushed(lane, t, f) \in Lane
  <2>1. [recv_ts |-> t, fill |-> f] \in Stamped
    BY DEF Stamped
  <2>2. Append(lane.buffer, [recv_ts |-> t, fill |-> f]) \in Seq(Stamped)
    BY <1>1, <2>1
  <2>3. t \in Nat /\ f.seq \in Nat
    BY StampAssumption, FillAssumption
  <2> QED
    BY <2>2, <2>3 DEF Pushed, Lane
<1>4. ASSUME lane.buffer # << >>
      PROVE  Popped(lane) \in Lane /\ Head(lane.buffer) \in Stamped
  <2>1. Tail(lane.buffer) \in Seq(Stamped) /\ Head(lane.buffer) \in Stamped
    BY <1>1, <1>4
  <2> QED
    BY <1>1, <2>1 DEF Popped, Lane
<1> QED
  BY <1>2, <1>3, <1>4

(* Every step keeps every variable in its type. *)
LEMMA TypeStep == TypeOK /\ [Next]_vars => TypeOK'
<1> SUFFICES ASSUME TypeOK, [Next]_vars
             PROVE  TypeOK'
  OBVIOUS
<1> USE DEF TypeOK
<1>1. ASSUME NEW v \in Venue, NEW t \in Stamp, NEW f \in Fill, Push(v, t, f)
      PROVE  TypeOK'
  <2>1. Pushed(lanes[v], t, f) \in Lane
    BY LaneTypes
  <2> QED
    BY <1>1, <2>1 DEF Push
<1>2. ASSUME NEW v \in Venue, NEW t \in Stamp, NEW f \in Fill,
             PushRefused(v, t, f)
      PROVE  TypeOK'
  BY <1>2 DEF PushRefused, vars
<1>3. ASSUME NEW v \in Venue, NEW t \in Stamp, Tick(v, t)
      PROVE  TypeOK'
  <2>1. Ticked(lanes[v], t) \in Lane
    BY LaneTypes
  <2> QED
    BY <1>3, <2>1 DEF Tick
<1>4. CASE DrainReady
  BY <1>4 DEF DrainReady
<1>5. CASE Flush
  BY <1>5 DEF Flush
<1>6. ASSUME NEW v \in Venue, DrainEmit(v)
      PROVE  TypeOK'
  <2>1. lanes[v] \in Lane /\ lanes[v].buffer # << >>
    BY <1>6 DEF DrainEmit, CanEmit, IsBest, NonEmpty
  <2>2. Popped(lanes[v]) \in Lane /\ HeadOf(v) \in Stamped
    BY <2>1, LaneTypes DEF HeadOf
  <2>3. [global_seq |-> next_global_seq, recv_ts |-> HeadOf(v).recv_ts,
         fill |-> HeadOf(v).fill] \in SequencedFill
    BY <2>2 DEF Stamped, SequencedFill
  <2>4. tape' \in Seq(SequencedFill)
    BY <1>6, <2>3 DEF DrainEmit
  <2> QED
    BY <1>6, <2>2, <2>4 DEF DrainEmit
<1>7. CASE DrainReturn
  BY <1>7 DEF DrainReturn
<1>8. CASE UNCHANGED vars
  BY <1>8 DEF vars
<1> QED
  BY <1>1, <1>2, <1>3, <1>4, <1>5, <1>6, <1>7, <1>8 DEF Next

(* The initial state is well typed. *)
LEMMA TypeInit == Init => TypeOK
<1>1. NewLane \in Lane
  BY DEF NewLane, Lane
<1>2. Init => lanes \in [Venue -> Lane]
  BY <1>1 DEF Init
<1>3. Init => tape \in Seq(SequencedFill)
  BY DEF Init
<1>4. Init => next_global_seq \in Nat \ {0}
  BY DEF Init
<1>5. Init => sealed \in BOOLEAN /\ draining \in {"no", "ready", "flush"}
  BY Zenon DEF Init
<1> QED
  BY <1>2, <1>3, <1>4, <1>5 DEF TypeOK

(* Every variable of the sequencer keeps its type in every behaviour, for  *)
(* any number of lanes and any fills and stamps.                           *)
THEOREM TypeCorrect == Spec => []TypeOK
BY TypeInit, TypeStep, PTL DEF Spec

-----------------------------------------------------------------------------
(* SORT_KEY and the lanes. *)

LEMMA StampedKey ==
    /\ \A e \in Stamped : /\ e.recv_ts \in Nat /\ e.recv_ts \in Stamp
                          /\ e.fill \in Fill
                          /\ e.fill.venue \in Int /\ e.fill.seq \in Int
    /\ \A e \in SequencedFill : /\ e.recv_ts \in Nat
                                /\ e.fill.venue \in Int /\ e.fill.seq \in Int
    /\ \A t \in Stamp : t \in Nat
    /\ \A f \in Fill : f.venue \in Int /\ f.seq \in Nat
    /\ \A v \in Venue : v \in Int
<1>1. \A f \in Fill : f.venue \in Int /\ f.seq \in Nat
  BY FillAssumption, KAssumption DEF Venue
<1>2. \A t \in Stamp : t \in Nat
  BY StampAssumption
<1>3. \A v \in Venue : v \in Int
  BY KAssumption DEF Venue
<1> QED
  BY <1>1, <1>2, <1>3 DEF Stamped, SequencedFill

LEMMA KeyLessTransitive ==
    ASSUME NEW a, NEW b, NEW c,
           a.recv_ts \in Nat, b.recv_ts \in Nat, c.recv_ts \in Nat,
           a.fill.venue \in Int, b.fill.venue \in Int, c.fill.venue \in Int,
           a.fill.seq \in Int, b.fill.seq \in Int, c.fill.seq \in Int,
           KeyLess(a, b), KeyLess(b, c)
    PROVE  KeyLess(a, c)
BY DEF KeyLess

(* A fill that comes after all the lane has taken keeps the lane in order  *)
(* and behind the published entries.                                       *)
LEMMA LaterKeepsOrder ==
    ASSUME NEW v \in Venue, NEW lane \in Lane, LaneOrdered(lane, v),
           NEW t \in Stamp, NEW f \in Fill,
           f.venue = v, lane.frontier <= t, lane.last_seq < f.seq
    PROVE  /\ LaneOrdered(Pushed(lane, t, f), v)
           /\ \A e \in SequencedFill :
                 Precedes(e, lane) /\ Passed(e, lane, v) =>
                     /\ Precedes(e, Pushed(lane, t, f))
                     /\ Passed(e, Pushed(lane, t, f), v)
<1> DEFINE new   == [recv_ts |-> t, fill |-> f]
           after == Pushed(lane, t, f)
           n     == Len(lane.buffer)
<1>1. /\ lane.buffer \in Seq(Stamped) /\ lane.frontier \in Nat
      /\ lane.last_seq \in Nat \cup {NoSeq}
      /\ n \in Nat
  BY DEF Lane
<1>2. f.venue = v /\ lane.frontier <= t /\ f.seq > lane.last_seq
  BY <1>1, StampedKey DEF NoSeq
<1>3. /\ after.buffer = Append(lane.buffer, new)
      /\ after.frontier = t /\ after.last_seq = f.seq
  BY DEF Pushed
<1>4. /\ DOMAIN lane.buffer = 1 .. n /\ DOMAIN after.buffer = 1 .. (n + 1)
      /\ \A i \in 1 .. n : /\ after.buffer[i] = lane.buffer[i]
                           /\ lane.buffer[i] \in Stamped
      /\ after.buffer[n + 1] = new
  BY <1>1, <1>3
<1>5. /\ new.recv_ts = t /\ new.fill = f
      /\ t \in Nat /\ f.venue \in Int /\ f.seq \in Nat /\ v \in Int
      /\ lane.last_seq \in Int
  BY <1>1, StampedKey DEF NoSeq
<1>6. \A i \in 1 .. n : /\ lane.buffer[i].recv_ts \in Nat
                        /\ lane.buffer[i].fill.venue \in Int
                        /\ lane.buffer[i].fill.seq \in Int
  BY <1>4, StampedKey
<1> HIDE DEF new, after, n
<1>7. ASSUME NEW i \in 1 .. n
      PROVE  /\ lane.buffer[i].fill.venue = v
             /\ lane.buffer[i].recv_ts <= t
             /\ lane.buffer[i].fill.seq < f.seq
             /\ KeyLess(lane.buffer[i], new)
  <2>1. /\ lane.buffer[i].fill.venue = v
        /\ lane.buffer[i].recv_ts <= lane.frontier
        /\ lane.buffer[i].fill.seq <= lane.last_seq
    BY <1>4 DEF LaneOrdered
  <2>2. lane.buffer[i].recv_ts <= t /\ lane.buffer[i].fill.seq < f.seq
    BY <2>1, <1>1, <1>2, <1>5, <1>6
  <2> QED
    BY <2>1, <2>2, <1>2, <1>5, <1>6 DEF KeyLess
<1>8. LaneOrdered(after, v)
  <2> SUFFICES ASSUME NEW i \in 1 .. (n + 1)
               PROVE  /\ after.buffer[i].fill.venue = v
                      /\ after.buffer[i].recv_ts <= after.frontier
                      /\ after.buffer[i].fill.seq <= after.last_seq
                      /\ \A j \in 1 .. (n + 1) :
                            i < j => KeyLess(after.buffer[i], after.buffer[j])
    BY <1>4 DEF LaneOrdered
  <2>1. CASE i = n + 1
    BY <2>1, <1>1, <1>2, <1>3, <1>4, <1>5
  <2>2. CASE i \in 1 .. n
    <3>1. /\ after.buffer[i].fill.venue = v
          /\ after.buffer[i].recv_ts <= after.frontier
          /\ after.buffer[i].fill.seq <= after.last_seq
      <4>1. after.buffer[i] = lane.buffer[i]
        BY <2>2, <1>4
      <4>2. /\ lane.buffer[i].fill.venue = v
            /\ lane.buffer[i].recv_ts <= t
            /\ lane.buffer[i].fill.seq < f.seq
        BY <2>2, <1>7
      <4>3. lane.buffer[i].fill.seq <= f.seq
        BY <4>2, <2>2, <1>5, <1>6
      <4> QED
        BY <4>1, <4>2, <4>3, <1>3
    <3>2. ASSUME NEW j \in 1 .. (n + 1), i < j
          PROVE  KeyLess(after.buffer[i], after.buffer[j])
      <4>1. CASE j = n + 1
        BY <4>1, <2>2, <1>4, <1>7
      <4>2. CASE j \in 1 .. n
        BY <4>2, <3>2, <2>2, <1>4 DEF LaneOrdered
      <4> QED
        BY <4>1, <4>2, <1>1
    <3> QED
      BY <3>1, <3>2
  <2> QED
    BY <2>1, <2>2, <1>1
<1>9. ASSUME NEW e \in SequencedFill, Precedes(e, lane), Passed(e, lane, v)
      PROVE  Precedes(e, after) /\ Passed(e, after, v)
  <2>1. e.recv_ts \in Nat /\ e.fill.venue \in Int /\ e.fill.seq \in Int
    BY StampedKey
  <2>2. KeyLess(e, new)
    BY <2>1, <1>9, <1>1, <1>2, <1>5 DEF Passed, KeyLess
  <2>3. Precedes(e, after)
    BY <2>2, <1>9, <1>1, <1>4 DEF Precedes
  <2>4. Passed(e, after, v)
    BY <2>1, <1>9, <1>1, <1>2, <1>3, <1>5 DEF Passed
  <2> QED
    BY <2>3, <2>4
<1> QED
  BY <1>8, <1>9 DEF after

(* So does a push that is accepted. *)
LEMMA PushKeepsOrder ==
    ASSUME NEW v \in Venue, NEW lane \in Lane, LaneOrdered(lane, v),
           NEW t \in Stamp, NEW f \in Fill,
           PushResult(lane, v, t, f) = "Ok"
    PROVE  /\ LaneOrdered(Pushed(lane, t, f), v)
           /\ \A e \in SequencedFill :
                 Precedes(e, lane) /\ Passed(e, lane, v) =>
                     /\ Precedes(e, Pushed(lane, t, f))
                     /\ Passed(e, Pushed(lane, t, f), v)
<1>1. lane.frontier \in Nat /\ lane.last_seq \in Nat \cup {NoSeq}
  BY DEF Lane
<1>2. f.venue = v /\ lane.frontier <= t /\ lane.last_seq < f.seq
  BY <1>1, StampedKey DEF PushResult, NoSeq
<1> QED
  BY <1>2, LaterKeepsOrder

LEMMA TickKeepsOrder ==
    ASSUME NEW v \in Venue, NEW lane \in Lane, LaneOrdered(lane, v),
           NEW t \in Stamp
    PROVE  /\ LaneOrdered(Ticked(lane, t), v)
           /\ \A e \in SequencedFill :
                 /\ Precedes(e, lane) => Precedes(e, Ticked(lane, t))
                 /\ Passed(e, lane, v) => Passed(e, Ticked(lane, t), v)
<1> DEFINE after == Ticked(lane, t)
<1>1. /\ lane.buffer \in Seq(Stamped) /\ lane.frontier \in Nat /\ t \in Nat
      /\ \A i \in DOMAIN lane.buffer : lane.buffer[i] \in Stamped
  BY StampedKey DEF Lane
<1>2. /\ after.buffer = lane.buffer /\ after.last_seq = lane.last_seq
      /\ after.frontier \in Nat /\ lane.frontier <= after.frontier
  BY <1>1 DEF Ticked, Lane
<1> HIDE DEF after
<1>3. LaneOrdered(after, v)
  BY <1>1, <1>2, StampedKey DEF LaneOrdered
<1>4. ASSUME NEW e \in SequencedFill
      PROVE  /\ Precedes(e, lane) => Precedes(e, after)
             /\ Passed(e, lane, v) => Passed(e, after, v)
  BY <1>1, <1>2, StampedKey DEF Precedes, Passed
<1> QED
  BY <1>3, <1>4 DEF after

(* The popped head sorts before what its lane keeps, and its lane has      *)
(* passed it.                                                              *)
LEMMA PopKeepsOrder ==
    ASSUME NEW v \in Venue, NEW lane \in Lane, LaneOrdered(lane, v),
           lane.buffer # << >>
    PROVE  /\ LaneOrdered(Popped(lane), v)
           /\ Precedes(Head(lane.buffer), Popped(lane))
           /\ Passed(Head(lane.buffer), Popped(lane), v)
           /\ \A e \in SequencedFill :
                 /\ Precedes(e, lane) => /\ Precedes(e, Popped(lane))
                                         /\ KeyLess(e, Head(lane.buffer))
                 /\ Passed(e, lane, v) => Passed(e, Popped(lane), v)
<1> DEFINE after == Popped(lane)
           n     == Len(lane.buffer)
<1>1. /\ lane.buffer \in Seq(Stamped) /\ lane.frontier \in Nat
      /\ lane.last_seq \in Int
      /\ n \in Nat /\ n >= 1
      /\ DOMAIN lane.buffer = 1 .. n
      /\ \A i \in DOMAIN lane.buffer : lane.buffer[i] \in Stamped
  BY DEF Lane, NoSeq
<1>2. /\ after.frontier = lane.frontier /\ after.last_seq = lane.last_seq
      /\ after.buffer = Tail(lane.buffer)
  BY DEF Popped, Lane
<1>3. /\ DOMAIN after.buffer = 1 .. (n - 1)
      /\ \A i \in 1 .. (n - 1) : after.buffer[i] = lane.buffer[i + 1]
      /\ Head(lane.buffer) = lane.buffer[1]
  BY <1>1, <1>2
<1> HIDE DEF after, n
<1>4. \A i \in 1 .. (n - 1) : i + 1 \in 1 .. n /\ 1 < i + 1
  BY <1>1
<1>5. LaneOrdered(after, v)
  <2> SUFFICES ASSUME NEW i \in 1 .. (n - 1)
               PROVE  /\ after.buffer[i].fill.venue = v
                      /\ after.buffer[i].recv_ts <= after.frontier
                      /\ after.buffer[i].fill.seq <= after.last_seq
                      /\ \A j \in 1 .. (n - 1) :
                            i < j => KeyLess(after.buffer[i], after.buffer[j])
    BY <1>3 DEF LaneOrdered
  <2>1. /\ after.buffer[i].fill.venue = v
        /\ after.buffer[i].recv_ts <= after.frontier
        /\ after.buffer[i].fill.seq <= after.last_seq
    BY <1>1, <1>2, <1>3, <1>4 DEF LaneOrdered
  <2>2. ASSUME NEW j \in 1 .. (n - 1), i < j
        PROVE  KeyLess(after.buffer[i], after.buffer[j])
    <3>1. i + 1 \in 1 .. n /\ j + 1 \in 1 .. n /\ i + 1 < j + 1
      BY <2>2, <1>1
    <3> QED
      BY <3>1, <1>1, <1>3 DEF LaneOrdered
  <2> QED
    BY <2>1, <2>2
<1>6. Precedes(Head(lane.buffer), after)
  <2> SUFFICES ASSUME NEW j \in 1 .. (n - 1)
               PROVE  KeyLess(lane.buffer[1], lane.buffer[j + 1])
    BY <1>3 DEF Precedes
  <2>1. 1 \in 1 .. n /\ j + 1 \in 1 .. n /\ 1 < j + 1
    BY <1>1
  <2> QED
    BY <2>1, <1>1 DEF LaneOrdered
<1>7. Passed(Head(lane.buffer), after, v)
  <2>1. 1 \in 1 .. n
    BY <1>1
  <2>2. /\ lane.buffer[1].fill.venue = v
        /\ lane.buffer[1].recv_ts <= lane.frontier
        /\ lane.buffer[1].fill.seq <= lane.last_seq
        /\ lane.buffer[1].recv_ts \in Nat
    BY <2>1, <1>1, StampedKey DEF LaneOrdered
  <2> QED
    BY <2>2, <1>1, <1>2, <1>3 DEF Passed
<1>8. ASSUME NEW e \in SequencedFill
      PROVE  /\ Precedes(e, lane) => /\ Precedes(e, after)
                                     /\ KeyLess(e, Head(lane.buffer))
             /\ Passed(e, lane, v) => Passed(e, after, v)
  BY <1>1, <1>2, <1>3, <1>4 DEF Precedes, Passed
<1> QED
  BY <1>5, <1>6, <1>7, <1>8 DEF after

-----------------------------------------------------------------------------
(* The head scan. *)

LEMMA LeastOfNaturals ==
    ASSUME NEW T, T \subseteq Nat, T # {}
    PROVE  \E x \in T : \A y \in T : x <= y
<1> DEFINE R == OpToRel(<, Nat)
<1>1. IsWellFoundedOn(R, Nat)
  BY NatLessThanWellFounded
<1>2. \A x, y \in Nat : y < x => <<y, x>> \in R
  BY DEF OpToRel
<1> HIDE DEF R
<1>3. PICK x \in T : \A y \in T : ~(<<y, x>> \in R)
  BY <1>1, WFMin
<1>4. ASSUME NEW y \in T
      PROVE  x <= y
  <2>1. x \in Nat /\ y \in Nat
    OBVIOUS
  <2>2. ~(y < x)
    BY <1>2, <1>3, <2>1
  <2> QED
    BY <2>1, <2>2
<1> QED
  BY <1>4

LEMMA HeadTypes ==
    ASSUME TypeOK, NEW v \in Venue, NonEmpty(v)
    PROVE  /\ HeadOf(v) \in Stamped /\ HeadOf(v).recv_ts \in Nat
           /\ HeadOf(v) = lanes[v].buffer[1]
           /\ 1 \in DOMAIN lanes[v].buffer
<1>1. lanes[v].buffer \in Seq(Stamped) /\ lanes[v].buffer # << >>
  BY DEF TypeOK, Lane, NonEmpty
<1> QED
  BY <1>1, StampedKey DEF HeadOf

(* Whenever something is buffered, the scan finds a best lane. *)
LEMMA BestExists ==
    ASSUME TypeOK, NEW u \in Venue, NonEmpty(u)
    PROVE  \E v \in Venue : IsBest(v)
<1> DEFINE T == {HeadOf(v).recv_ts : v \in {w \in Venue : NonEmpty(w)}}
<1>1. T \subseteq Nat /\ T # {}
  BY HeadTypes
<1> HIDE DEF T
<1>2. PICK t \in T : \A s \in T : t <= s
  BY <1>1, LeastOfNaturals
<1> DEFINE V == {v \in Venue : NonEmpty(v) /\ HeadOf(v).recv_ts = t}
<1>3. V \subseteq Nat /\ V # {}
  BY KAssumption DEF Venue, T
<1> HIDE DEF V
<1>4. PICK v \in V : \A w \in V : v <= w
  BY <1>3, LeastOfNaturals
<1>5. v \in Venue /\ NonEmpty(v) /\ HeadOf(v).recv_ts = t
  BY DEF V
<1>6. ASSUME NEW w \in Venue, NonEmpty(w)
      PROVE  \/ HeadOf(v).recv_ts < HeadOf(w).recv_ts
             \/ HeadOf(v).recv_ts = HeadOf(w).recv_ts /\ v <= w
  <2>1. HeadOf(w).recv_ts \in T
    BY <1>6 DEF T
  <2>2. t \in Nat /\ HeadOf(w).recv_ts \in Nat /\ t <= HeadOf(w).recv_ts
    BY <2>1, <1>1, <1>2
  <2>3. CASE HeadOf(w).recv_ts = t
    BY <2>3, <1>4, <1>5, <1>6 DEF V
  <2>4. CASE HeadOf(w).recv_ts # t
    BY <2>2, <2>4, <1>5
  <2> QED
    BY <2>3, <2>4
<1> QED
  BY <1>5, <1>6 DEF IsBest

(* The best head sorts before everything another lane buffers. *)
LEMMA BestPrecedes ==
    ASSUME TypeOK, LanesOrdered, NEW v \in Venue, IsBest(v),
           NEW w \in Venue, w # v
    PROVE  Precedes(HeadOf(v), lanes[w])
<1> SUFFICES ASSUME NEW j \in DOMAIN lanes[w].buffer
             PROVE  KeyLess(HeadOf(v), lanes[w].buffer[j])
  BY DEF Precedes
<1>1. lanes[w].buffer \in Seq(Stamped) /\ lanes[w].buffer # << >>
  BY DEF TypeOK, Lane
<1>2. NonEmpty(v) /\ NonEmpty(w)
  BY <1>1 DEF IsBest, NonEmpty
<1>3. /\ HeadOf(v) \in Stamped /\ HeadOf(w) \in Stamped
      /\ lanes[w].buffer[j] \in Stamped
      /\ HeadOf(v) = lanes[v].buffer[1] /\ 1 \in DOMAIN lanes[v].buffer
      /\ HeadOf(w) = lanes[w].buffer[1] /\ 1 \in DOMAIN lanes[w].buffer
  BY <1>1, <1>2, HeadTypes
<1>4. HeadOf(v).fill.venue = v /\ HeadOf(w).fill.venue = w
  BY <1>3 DEF LanesOrdered, LaneOrdered
<1>5. KeyLess(HeadOf(v), HeadOf(w))
  <2>1. \/ HeadOf(v).recv_ts < HeadOf(w).recv_ts
        \/ HeadOf(v).recv_ts = HeadOf(w).recv_ts /\ v <= w
    BY <1>2 DEF IsBest
  <2>2. v \in Int /\ w \in Int
    BY StampedKey
  <2> QED
    BY <1>4, <2>1, <2>2 DEF KeyLess
<1>6. CASE j = 1
  BY <1>3, <1>5, <1>6
<1>7. CASE j # 1
  <2>1. 1 < j
    BY <1>1, <1>7
  <2>2. KeyLess(HeadOf(w), lanes[w].buffer[j])
    BY <1>3, <2>1 DEF LanesOrdered, LaneOrdered
  <2> QED
    BY <1>3, <1>5, <2>2, KeyLessTransitive, StampedKey
<1> QED
  BY <1>6, <1>7

(* A head the gate lets through has been passed by every other lane. *)
LEMMA EmittablePassed ==
    ASSUME TypeOK, LanesOrdered, NEW v \in Venue, NonEmpty(v),
           Emittable(v, HeadOf(v).recv_ts), NEW w \in Venue, w # v
    PROVE  Passed(HeadOf(v), lanes[w], w)
<1>1. HeadOf(v) = lanes[v].buffer[1] /\ 1 \in DOMAIN lanes[v].buffer
      /\ HeadOf(v).recv_ts \in Nat
  BY HeadTypes
<1>2. HeadOf(v).fill.venue = v
  BY <1>1 DEF LanesOrdered, LaneOrdered
<1>3. lanes[w].frontier \in Nat /\ v \in Int /\ w \in Int
  BY StampedKey DEF TypeOK, Lane
<1>4. IF w < v THEN lanes[w].frontier > HeadOf(v).recv_ts
               ELSE lanes[w].frontier >= HeadOf(v).recv_ts
  BY DEF Emittable
<1> QED
  BY <1>1, <1>2, <1>3, <1>4 DEF Passed

-----------------------------------------------------------------------------
(* The inductive invariant. *)

LEMMA IInvInit == Init => IInv
<1> SUFFICES ASSUME Init
             PROVE  IInv
  OBVIOUS
<1>1. TypeOK
  BY TypeInit
<1>2. /\ \A v \in Venue : lanes[v].buffer = << >>
      /\ tape = << >> /\ next_global_seq = 1
  BY DEF Init, NewLane
<1>3. DOMAIN tape = {} /\ Len(tape) = 0
      /\ \A v \in Venue : DOMAIN lanes[v].buffer = {}
  BY <1>2
<1>4. FlushSeals
  BY Zenon DEF Init, FlushSeals
<1>5. LanesOrdered
  BY <1>3 DEF LanesOrdered, LaneOrdered
<1>6. TapePrecedesLanes /\ TapePassed /\ TapeNumbered /\ TapeInSortKeyOrder
  BY <1>2, <1>3
     DEF TapePrecedesLanes, TapePassed, TapeNumbered, TapeInSortKeyOrder
<1> QED
  BY <1>1, <1>4, <1>5, <1>6 DEF IInv

LEMMA PushKeepsIInv ==
    ASSUME IInv, TypeOK', NEW v \in Venue, NEW t \in Stamp, NEW f \in Fill,
           Push(v, t, f)
    PROVE  IInv'
<1> USE DEF IInv
<1>1. /\ lanes[v] \in Lane /\ LaneOrdered(lanes[v], v)
      /\ PushResult(lanes[v], v, t, f) = "Ok"
      /\ \A w \in Venue :
            lanes'[w] = IF w = v THEN Pushed(lanes[v], t, f) ELSE lanes[w]
      /\ UNCHANGED <<next_global_seq, sealed, draining, tape>>
  BY DEF Push, TypeOK, LanesOrdered
<1>2. ~sealed
  BY <1>1 DEF PushResult
<1>3. LanesOrdered'
  BY <1>1, PushKeepsOrder DEF LanesOrdered
<1>4. \A i \in DOMAIN tape :
         tape[i] \in SequencedFill /\ Precedes(tape[i], lanes[v])
         /\ Passed(tape[i], lanes[v], v)
  BY <1>2 DEF TypeOK, TapePrecedesLanes, TapePassed
<1>5. TapePrecedesLanes'
  BY <1>1, <1>4, PushKeepsOrder DEF TapePrecedesLanes
<1>6. TapePassed'
  BY <1>1, <1>2, <1>4, PushKeepsOrder DEF TapePassed
<1>7. TapeNumbered' /\ TapeInSortKeyOrder'
  BY <1>1 DEF TapeNumbered, TapeInSortKeyOrder
<1>8. FlushSeals'
  <2>1. draining # "flush"
    BY <1>2 DEF FlushSeals
  <2> QED
    BY <1>1, <1>2, <2>1 DEF FlushSeals
<1> QED
  BY <1>3, <1>5, <1>6, <1>7, <1>8

LEMMA TickKeepsIInv ==
    ASSUME IInv, TypeOK', NEW v \in Venue, NEW t \in Stamp, Tick(v, t)
    PROVE  IInv'
<1> USE DEF IInv
<1>1. /\ lanes[v] \in Lane /\ LaneOrdered(lanes[v], v)
      /\ \A w \in Venue :
            lanes'[w] = IF w = v THEN Ticked(lanes[v], t) ELSE lanes[w]
      /\ Ticked(lanes[v], t).buffer = lanes[v].buffer
      /\ UNCHANGED <<next_global_seq, sealed, draining, tape>>
  BY DEF Tick, TypeOK, LanesOrdered, Ticked, Lane
<1>2. LanesOrdered'
  BY <1>1, TickKeepsOrder DEF LanesOrdered
<1>3. \A i \in DOMAIN tape :
         tape[i] \in SequencedFill /\ Precedes(tape[i], lanes[v])
  BY DEF TypeOK, TapePrecedesLanes
<1>4. TapePrecedesLanes'
  BY <1>1, <1>3, TickKeepsOrder DEF TapePrecedesLanes
<1>5. TapePassed'
  BY <1>1, <1>3, TickKeepsOrder DEF TapePassed
<1>6. TapeNumbered' /\ TapeInSortKeyOrder'
  BY <1>1 DEF TapeNumbered, TapeInSortKeyOrder
<1>7. FlushSeals'
  BY <1>1 DEF FlushSeals
<1> QED
  BY <1>2, <1>4, <1>5, <1>6, <1>7

LEMMA EmitKeepsIInv ==
    ASSUME IInv, TypeOK', NEW v \in Venue, DrainEmit(v)
    PROVE  IInv'
<1> USE DEF IInv
<1> DEFINE best == [global_seq |-> next_global_seq,
                    recv_ts    |-> HeadOf(v).recv_ts,
                    fill       |-> HeadOf(v).fill]
           n    == Len(tape)
<1>1. /\ IsBest(v) /\ NonEmpty(v)
      /\ draining \in {"ready", "flush"}
      /\ draining = "ready" => Emittable(v, HeadOf(v).recv_ts)
      /\ tape' = Append(tape, best)
      /\ next_global_seq' = next_global_seq + 1
      /\ UNCHANGED <<sealed, draining>>
  BY DEF DrainEmit, CanEmit, IsBest, TypeOK
<1>2. /\ lanes[v] \in Lane /\ LaneOrdered(lanes[v], v)
      /\ lanes[v].buffer # << >>
      /\ HeadOf(v) = Head(lanes[v].buffer)
      /\ HeadOf(v) \in Stamped
      /\ \A w \in Venue :
            lanes'[w] = IF w = v THEN Popped(lanes[v]) ELSE lanes[w]
  BY <1>1, HeadTypes DEF DrainEmit, TypeOK, LanesOrdered, NonEmpty, HeadOf
<1>3. /\ best.recv_ts = HeadOf(v).recv_ts /\ best.fill = HeadOf(v).fill
      /\ best.global_seq = n + 1 /\ n \in Nat
  BY DEF TapeNumbered, TypeOK
<1>4. /\ DOMAIN tape = 1 .. n /\ DOMAIN tape' = 1 .. (n + 1)
      /\ Len(tape') = n + 1
      /\ \A i \in 1 .. n : tape'[i] = tape[i] /\ tape[i] \in SequencedFill
      /\ tape'[n + 1] = best
  BY <1>1 DEF TypeOK
<1> HIDE DEF best, n
<1>5. LanesOrdered'
  BY <1>2, PopKeepsOrder DEF LanesOrdered
<1>6. \A w \in Venue : Precedes(best, lanes'[w])
  <2>1. \A w \in Venue : Precedes(HeadOf(v), lanes'[w])
    BY <1>1, <1>2, PopKeepsOrder, BestPrecedes
  <2> QED
    BY <2>1, <1>3 DEF Precedes, KeyLess
<1>7. \A i \in 1 .. n : KeyLess(tape[i], best)
  <2>1. \A i \in 1 .. n : KeyLess(tape[i], HeadOf(v))
    BY <1>2, <1>4, PopKeepsOrder DEF TapePrecedesLanes
  <2> QED
    BY <2>1, <1>3 DEF KeyLess
<1>8. TapePrecedesLanes'
  <2>1. ASSUME NEW i \in 1 .. n, NEW w \in Venue
        PROVE  Precedes(tape[i], lanes'[w])
    BY <1>2, <1>4, PopKeepsOrder DEF TapePrecedesLanes
  <2> QED
    BY <2>1, <1>3, <1>4, <1>6 DEF TapePrecedesLanes
<1>9. TapePassed'
  <2> SUFFICES ASSUME ~sealed
               PROVE  \A i \in DOMAIN tape', w \in Venue :
                         Passed(tape'[i], lanes'[w], w)
    BY <1>1 DEF TapePassed
  <2>1. draining = "ready"
    BY <1>1 DEF FlushSeals
  <2>2. ASSUME NEW i \in 1 .. n, NEW w \in Venue
        PROVE  Passed(tape[i], lanes'[w], w)
    BY <1>2, <1>4, PopKeepsOrder DEF TapePassed
  <2>3. ASSUME NEW w \in Venue
        PROVE  Passed(best, lanes'[w], w)
    <3>1. Passed(HeadOf(v), lanes'[w], w)
      BY <2>1, <1>1, <1>2, PopKeepsOrder, EmittablePassed
    <3> QED
      BY <3>1, <1>3 DEF Passed
  <2> QED
    BY <2>2, <2>3, <1>3, <1>4
<1>10. TapeNumbered'
  BY <1>1, <1>3, <1>4 DEF TapeNumbered, n
<1>11. TapeInSortKeyOrder'
  <2>1. ASSUME NEW i \in 1 .. (n + 1), NEW j \in 1 .. (n + 1)
        PROVE  /\ tape'[i].global_seq = i
               /\ i < j => KeyLess(tape'[i], tape'[j])
    <3>1. i \in 1 .. n \/ i = n + 1
      BY <1>3
    <3>2. j \in 1 .. n \/ j = n + 1
      BY <1>3
    <3>3. CASE i = n + 1
      BY <3>3, <1>3, <1>4
    <3>4. CASE i \in 1 .. n /\ j = n + 1
      BY <3>4, <1>4, <1>7 DEF TapeInSortKeyOrder
    <3>5. CASE i \in 1 .. n /\ j \in 1 .. n
      BY <3>5, <1>4 DEF TapeInSortKeyOrder
    <3> QED
      BY <3>1, <3>2, <3>3, <3>4, <3>5
  <2> QED
    BY <2>1, <1>4 DEF TapeInSortKeyOrder
<1>12. FlushSeals'
  <2>1. draining = "flush"  \/ ~sealed
    BY <1>1, <1>2 DEF FlushSeals
  <2> QED
    BY <2>1, <1>1 DEF FlushSeals
<1> QED
  BY <1>5, <1>8, <1>9, <1>10, <1>11, <1>12

LEMMA ReturnKeepsIInv ==
    ASSUME IInv, TypeOK', DrainReturn
    PROVE  IInv'
<1> USE DEF IInv
<1>1. /\ UNCHANGED <<lanes, next_global_seq, sealed, tape>>
      /\ draining' = "no" /\ draining # "no"
      /\ \A v \in Venue : ~CanEmit(v)
  BY DEF DrainReturn
<1>2. LanesOrdered' /\ TapePrecedesLanes' /\ TapePassed' /\ TapeNumbered'
      /\ TapeInSortKeyOrder'
  BY <1>1 DEF LanesOrdered, TapePrecedesLanes, TapePassed, TapeNumbered,
              TapeInSortKeyOrder
<1>3. FlushSeals'
  <2>1. draining = "flush" => \A v \in Venue : ~NonEmpty(v)
    BY <1>1, BestExists DEF CanEmit
  <2> QED
    BY <1>1, <2>1 DEF FlushSeals, NonEmpty
<1> QED
  BY <1>2, <1>3

LEMMA IInvStep == IInv /\ [Next]_vars => IInv'
<1> SUFFICES ASSUME IInv, [Next]_vars
             PROVE  IInv'
  OBVIOUS
<1>1. TypeOK'
  BY TypeStep DEF IInv
<1>2. ASSUME NEW v \in Venue, NEW t \in Stamp, NEW f \in Fill, Push(v, t, f)
      PROVE  IInv'
  BY <1>1, <1>2, PushKeepsIInv
<1>3. ASSUME NEW v \in Venue, NEW t \in Stamp, Tick(v, t)
      PROVE  IInv'
  BY <1>1, <1>3, TickKeepsIInv
<1>4. CASE DrainReady
  BY <1>1, <1>4 DEF DrainReady, IInv, LanesOrdered, TapePrecedesLanes,
     TapePassed, TapeNumbered, TapeInSortKeyOrder, FlushSeals
<1>5. CASE Flush
  BY <1>1, <1>5 DEF Flush, IInv, LanesOrdered, TapePrecedesLanes,
     TapePassed, TapeNumbered, TapeInSortKeyOrder, FlushSeals
<1>6. ASSUME NEW v \in Venue, DrainEmit(v)
      PROVE  IInv'
  BY <1>1, <1>6, EmitKeepsIInv
<1>7. CASE DrainReturn
  BY <1>1, <1>7, ReturnKeepsIInv
<1>8. CASE UNCHANGED vars
  BY <1>1, <1>8 DEF vars, IInv, LanesOrdered, TapePrecedesLanes,
     TapePassed, TapeNumbered, TapeInSortKeyOrder, FlushSeals
<1>9. ASSUME NEW v \in Venue, NEW t \in Stamp, NEW f \in Fill,
             PushRefused(v, t, f)
      PROVE  IInv'
  BY <1>8, <1>9 DEF PushRefused
<1> QED
  BY <1>2, <1>3, <1>4, <1>5, <1>6, <1>7, <1>8, <1>9 DEF Next

(* The strengthening holds in every reachable state. *)
THEOREM Inductive == Spec => []IInv
BY IInvInit, IInvStep, PTL DEF Spec

-----------------------------------------------------------------------------
(* The safety properties. *)

(* The tape is strictly increasing in SORT_KEY and numbered without gaps,  *)
(* however pushes, ticks, drains and flushes interleave.                   *)
THEOREM TapeOrder == Spec => []TapeInSortKeyOrder
<1>1. IInv => TapeInSortKeyOrder
  BY DEF IInv
<1> QED
  BY <1>1, Inductive, PTL

(* A fill a lane accepts sorts after every entry already published. *)
LEMMA AcceptedAfterTape ==
    ASSUME IInv, NEW i \in DOMAIN tape,
           NEW v \in Venue, NEW t \in Stamp, NEW f \in Fill,
           PushResult(lanes[v], v, t, f) = "Ok"
    PROVE  KeyLess(tape[i], [recv_ts |-> t, fill |-> f])
<1> USE DEF IInv
<1>1. /\ lanes[v] \in Lane /\ LaneOrdered(lanes[v], v)
      /\ tape[i] \in SequencedFill
  BY DEF TypeOK, LanesOrdered
<1>2. ~sealed
  BY DEF PushResult
<1>3. Precedes(tape[i], Pushed(lanes[v], t, f))
  BY <1>1, <1>2, PushKeepsOrder DEF TapePrecedesLanes, TapePassed
<1>4. /\ lanes[v].buffer \in Seq(Stamped)
      /\ Pushed(lanes[v], t, f).buffer
            = Append(lanes[v].buffer, [recv_ts |-> t, fill |-> f])
  BY <1>1 DEF Lane, Pushed
<1>5. Len(lanes[v].buffer) + 1 \in DOMAIN Pushed(lanes[v], t, f).buffer
  BY <1>4
<1>6. Pushed(lanes[v], t, f).buffer[Len(lanes[v].buffer) + 1]
         = [recv_ts |-> t, fill |-> f]
  BY <1>4
<1> QED
  BY <1>3, <1>5, <1>6 DEF Precedes

(* Publication is final: nothing buffered, and nothing a lane would still  *)
(* accept, sorts before or ties with a published entry.                    *)
THEOREM Finality == Spec => []PublishedIsFinal
<1>1. IInv => PublishedIsFinal
  <2> SUFFICES ASSUME IInv, NEW i \in DOMAIN tape
               PROVE  /\ \A e \in Buffered : KeyLess(tape[i], e)
                      /\ \A v \in Venue, t \in Stamp, f \in Fill :
                            PushResult(lanes[v], v, t, f) = "Ok" =>
                                KeyLess(tape[i], [recv_ts |-> t, fill |-> f])
    BY DEF PublishedIsFinal
  <2>1. \A e \in Buffered : KeyLess(tape[i], e)
    BY DEF IInv, TapePrecedesLanes, Precedes, Buffered, Range
  <2> QED
    BY <2>1, AcceptedAfterTape
<1> QED
  BY <1>1, Inductive, PTL

(* When a flush has returned every accepted fill is on the tape. *)
THEOREM FlushComplete == Spec => []SealedTapeIsComplete
<1>1. IInv => SealedTapeIsComplete
  BY DEF IInv, FlushSeals, SealedTapeIsComplete, Buffered, Range
<1> QED
  BY <1>1, Inductive, PTL

(* A blocked head blocks everything: when a ready drain stops, each fill   *)
(* it leaves is one that some other lane could still get in front of.      *)
THEOREM DrainMaximal == Spec => []DrainLeavesOnlyUnsafe
<1>1. IInv => DrainLeavesOnlyUnsafe
  <2> SUFFICES ASSUME IInv, draining = "ready",
                      \A v \in Venue : ~CanEmit(v),
                      NEW u \in Venue, NEW k \in DOMAIN lanes[u].buffer
               PROVE  \E w \in Venue \ {lanes[u].buffer[k].fill.venue} :
                        /\ PushResult(lanes[w], w, lanes[w].frontier,
                                      LeastPushable(w).fill) = "Ok"
                        /\ KeyLess(LeastPushable(w), lanes[u].buffer[k])
    BY DEF DrainLeavesOnlyUnsafe, Buffered, Range
  <2> DEFINE e == lanes[u].buffer[k]
  <2> USE DEF IInv
  <2>1. lanes[u].buffer \in Seq(Stamped) /\ lanes[u].buffer # << >>
    BY DEF TypeOK, Lane
  <2>2. NonEmpty(u)
    BY <2>1 DEF NonEmpty
  <2>3. /\ HeadOf(u) = lanes[u].buffer[1] /\ 1 \in DOMAIN lanes[u].buffer
        /\ HeadOf(u).recv_ts \in Nat /\ e \in Stamped
    BY <2>1, <2>2, HeadTypes
  <2>4. /\ e.fill.venue = u /\ e.recv_ts <= lanes[u].frontier
        /\ e.recv_ts \in Nat /\ u \in Int
    BY <2>3, StampedKey DEF LanesOrdered, LaneOrdered
  <2>5. HeadOf(u).recv_ts <= e.recv_ts
    <3>1. CASE k = 1
      BY <3>1, <2>3, <2>4
    <3>2. CASE k # 1
      <4>1. 1 < k
        BY <3>2, <2>1
      <4>2. KeyLess(HeadOf(u), e)
        BY <4>1, <2>3 DEF LanesOrdered, LaneOrdered
      <4> QED
        BY <4>2, <2>3, <2>4 DEF KeyLess
    <3> QED
      BY <3>1, <3>2
  <2>6. PICK b \in Venue : IsBest(b)
    BY <2>2, BestExists
  <2> DEFINE t == HeadOf(b).recv_ts
  <2>7. t \in Nat /\ b \in Int
    BY <2>6, HeadTypes, StampedKey DEF IsBest
  <2>8. t < HeadOf(u).recv_ts \/ (t = HeadOf(u).recv_ts /\ b <= u)
    BY <2>2, <2>6 DEF IsBest
  <2>9. PICK w \in Venue \ {b} :
           ~(IF w < b THEN lanes[w].frontier > t ELSE lanes[w].frontier >= t)
    BY <2>6 DEF CanEmit, Emittable
  <2>10. lanes[w].frontier \in Nat /\ lanes[w].last_seq \in Int /\ w \in Int
    BY StampedKey DEF TypeOK, Lane, NoSeq
  <2> HIDE DEF t, e
  <2>11. \/ lanes[w].frontier < e.recv_ts
         \/ lanes[w].frontier = e.recv_ts /\ w < u
    BY <2>3, <2>4, <2>5, <2>7, <2>8, <2>9, <2>10
  <2>12. w # u
    BY <2>4, <2>10, <2>11
  <2>13. KeyLess(LeastPushable(w), e)
    BY <2>4, <2>11 DEF KeyLess, LeastPushable
  <2>14. ~sealed
    BY <2>1 DEF FlushSeals
  <2>15. PushResult(lanes[w], w, lanes[w].frontier, LeastPushable(w).fill)
            = "Ok"
    BY <2>10, <2>14 DEF PushResult, LeastPushable
  <2> QED
    BY <2>4, <2>12, <2>13, <2>15 DEF e
<1> QED
  BY <1>1, Inductive, PTL

-----------------------------------------------------------------------------
(* The sequencer implements the abstract tape. *)

AcceptedSoFar == {Unsequenced(tape[i]) : i \in DOMAIN tape} \cup Buffered

(* The two modules speak of the same SORT_KEY. *)
LEMMA SameVocabulary ==
    /\ \A a, b : Abstract!KeyLess(a, b) <=> KeyLess(a, b)
    /\ Abstract!Published = {Unsequenced(tape[i]) : i \in DOMAIN tape}
    /\ Abstract!Stamped = Stamped
BY DEF Abstract!KeyLess, KeyLess, Abstract!Published, Abstract!Unsequenced,
       Unsequenced, Abstract!Stamped, Stamped

LEMMA PushAccepts ==
    ASSUME IInv, NEW v \in Venue, NEW t \in Stamp, NEW f \in Fill,
           Push(v, t, f)
    PROVE  Abstract!Accept([recv_ts |-> t, fill |-> f])
<1> USE DEF IInv
<1> DEFINE new == [recv_ts |-> t, fill |-> f]
<1>1. /\ lanes[v] \in Lane /\ LaneOrdered(lanes[v], v)
      /\ PushResult(lanes[v], v, t, f) = "Ok"
      /\ \A w \in Venue :
            lanes'[w] = IF w = v THEN Pushed(lanes[v], t, f) ELSE lanes[w]
      /\ tape' = tape /\ sealed' = sealed
  BY DEF Push, TypeOK, LanesOrdered
<1>2. ~sealed /\ f.venue = v
  BY <1>1 DEF PushResult
<1>3. /\ lanes[v].buffer \in Seq(Stamped)
      /\ Pushed(lanes[v], t, f).buffer = Append(lanes[v].buffer, new)
  BY <1>1 DEF Lane, Pushed
<1>4. \A p \in {Unsequenced(tape[i]) : i \in DOMAIN tape} : KeyLess(p, new)
  <2>1. ASSUME NEW i \in DOMAIN tape
        PROVE  KeyLess(Unsequenced(tape[i]), new)
    <3>1. KeyLess(tape[i], new)
      BY <1>1, AcceptedAfterTape
    <3> QED
      BY <3>1 DEF Unsequenced, KeyLess
  <2> QED
    BY <2>1
<1>5. \A q \in Buffered : KeyLess(q, new) \/ KeyLess(new, q)
  <2> SUFFICES ASSUME NEW w \in Venue, NEW j \in DOMAIN lanes[w].buffer
               PROVE  \/ KeyLess(lanes[w].buffer[j], new)
                      \/ KeyLess(new, lanes[w].buffer[j])
    BY DEF Buffered, Range
  <2> DEFINE q == lanes[w].buffer[j]
  <2>1. lanes[w].buffer \in Seq(Stamped)
    BY DEF TypeOK, Lane
  <2>2. /\ q \in Stamped /\ q.recv_ts \in Nat /\ q.fill.venue = w
        /\ q.fill.seq <= lanes[w].last_seq /\ q.recv_ts <= lanes[w].frontier
        /\ q.fill.seq \in Int /\ w \in Int /\ v \in Int /\ t \in Nat
        /\ f.seq \in Nat
    BY <2>1, StampedKey DEF LanesOrdered, LaneOrdered
  <2>3. w = v => q.recv_ts <= t /\ q.fill.seq < f.seq
    <3>1. t >= lanes[v].frontier /\ f.seq > lanes[v].last_seq
          /\ lanes[v].frontier \in Nat /\ lanes[v].last_seq \in Int
      BY <1>1, <2>2 DEF PushResult, Lane, NoSeq
    <3> QED
      BY <3>1, <2>2
  <2> HIDE DEF q
  <2>4. KeyLess(q, new) \/ KeyLess(new, q)
    BY <2>2, <2>3, <1>2 DEF KeyLess
  <2> QED
    BY <2>4 DEF q
<1>6. Buffered' = Buffered \cup {new}
  <2>1. Range(Append(lanes[v].buffer, new)) = Range(lanes[v].buffer) \cup {new}
    <3>1. /\ DOMAIN Append(lanes[v].buffer, new)
                = (DOMAIN lanes[v].buffer) \cup {Len(lanes[v].buffer) + 1}
          /\ \A i \in DOMAIN lanes[v].buffer :
                Append(lanes[v].buffer, new)[i] = lanes[v].buffer[i]
          /\ Append(lanes[v].buffer, new)[Len(lanes[v].buffer) + 1] = new
      BY <1>3
    <3> HIDE DEF new
    <3> QED
      BY <3>1 DEF Range
  <2>2. Buffered' = UNION {Range(lanes'[w].buffer) : w \in Venue}
    BY DEF Buffered
  <2>3. \A w \in Venue : Range(lanes'[w].buffer) =
           IF w = v THEN Range(lanes[w].buffer) \cup {new}
                    ELSE Range(lanes[w].buffer)
    BY <1>1, <1>3, <2>1
  <2> HIDE DEF new
  <2> QED
    BY <2>2, <2>3 DEF Buffered
<1> QED
  BY <1>1, <1>2, <1>4, <1>5, <1>6, SameVocabulary
     DEF Abstract!Accept, Unsequenced

LEMMA EmitPublishes ==
    ASSUME IInv, NEW v \in Venue, DrainEmit(v)
    PROVE  HeadOf(v) \in Stamped /\ Abstract!Publish(HeadOf(v))
<1> USE DEF IInv
<1> DEFINE best == HeadOf(v)
<1>1. /\ IsBest(v) /\ NonEmpty(v)
      /\ tape' = Append(tape, [global_seq |-> Len(tape) + 1,
                               recv_ts    |-> best.recv_ts,
                               fill       |-> best.fill])
      /\ sealed' = sealed
  BY DEF DrainEmit, CanEmit, IsBest, TapeNumbered
<1>2. /\ lanes[v].buffer \in Seq(Stamped) /\ lanes[v].buffer # << >>
      /\ best = lanes[v].buffer[1] /\ 1 \in DOMAIN lanes[v].buffer
      /\ best \in Stamped
      /\ \A w \in Venue :
            lanes'[w] = IF w = v THEN Popped(lanes[v]) ELSE lanes[w]
      /\ Popped(lanes[v]).buffer = Tail(lanes[v].buffer)
  BY <1>1, HeadTypes DEF DrainEmit, TypeOK, Lane, NonEmpty, Popped
<1>3. Range(lanes[v].buffer) = Range(Tail(lanes[v].buffer)) \cup {best}
  <2> DEFINE n == Len(lanes[v].buffer)
  <2>1. /\ n \in Nat /\ n >= 1 /\ DOMAIN lanes[v].buffer = 1 .. n
        /\ DOMAIN Tail(lanes[v].buffer) = 1 .. (n - 1)
        /\ \A i \in 1 .. (n - 1) :
              Tail(lanes[v].buffer)[i] = lanes[v].buffer[i + 1]
    BY <1>2
  <2> HIDE DEF n
  <2>2. \A i \in 1 .. n : i = 1 \/ i - 1 \in 1 .. (n - 1)
    BY <2>1
  <2>3. \A i \in 1 .. (n - 1) : i + 1 \in 1 .. n
    BY <2>1
  <2>4. \A x \in Range(lanes[v].buffer) :
           x = best \/ x \in Range(Tail(lanes[v].buffer))
    <3> SUFFICES ASSUME NEW i \in 1 .. n, i # 1
                 PROVE  lanes[v].buffer[i] \in Range(Tail(lanes[v].buffer))
      BY <1>2, <2>1 DEF Range
    <3>1. i - 1 \in 1 .. (n - 1) /\ (i - 1) + 1 = i
      BY <2>2
    <3>2. Tail(lanes[v].buffer)[i - 1] = lanes[v].buffer[i]
      BY <3>1, <2>1
    <3> QED
      BY <3>1, <3>2, <2>1 DEF Range
  <2>5. \A x \in Range(Tail(lanes[v].buffer)) : x \in Range(lanes[v].buffer)
    BY <2>1, <2>3 DEF Range
  <2> QED
    BY <2>4, <2>5, <1>2 DEF Range
<1>4. \A q \in Range(Tail(lanes[v].buffer)) : KeyLess(best, q)
  <2>1. Precedes(best, Popped(lanes[v]))
    BY <1>2, PopKeepsOrder DEF TypeOK, LanesOrdered, HeadOf
  <2> QED
    BY <2>1, <1>2 DEF Precedes, Range
<1>5. \A w \in Venue \ {v} : \A q \in Range(lanes[w].buffer) : KeyLess(best, q)
  BY <1>1, BestPrecedes DEF Precedes, Range
<1>6. ~KeyLess(best, best)
  BY <1>2, StampedKey DEF KeyLess
<1>7. \A q \in Buffered \ {best} : KeyLess(best, q)
  BY <1>3, <1>4, <1>5 DEF Buffered
<1>8. best \in Buffered
  BY <1>3 DEF Buffered
<1>9. Abstract!Pending = Buffered
  <2>1. \A q \in Buffered : \A i \in DOMAIN tape : q # Unsequenced(tape[i])
    <3> SUFFICES ASSUME NEW w \in Venue, NEW j \in DOMAIN lanes[w].buffer,
                        NEW i \in DOMAIN tape
                 PROVE  lanes[w].buffer[j] # Unsequenced(tape[i])
      BY DEF Buffered, Range
    <3>1. /\ KeyLess(tape[i], lanes[w].buffer[j])
          /\ lanes[w].buffer[j] \in Stamped
      BY DEF TapePrecedesLanes, Precedes, TypeOK, Lane
    <3>2. KeyLess(Unsequenced(tape[i]), lanes[w].buffer[j])
      BY <3>1 DEF Unsequenced, KeyLess
    <3>3. ~KeyLess(lanes[w].buffer[j], lanes[w].buffer[j])
      BY <3>1, StampedKey DEF KeyLess
    <3> QED
      BY <3>2, <3>3
  <2> QED
    BY <2>1, SameVocabulary DEF Abstract!Pending
<1>10. Buffered' \cup {best} = Buffered
  <2>1. Buffered' = UNION {Range(lanes'[w].buffer) : w \in Venue}
    BY DEF Buffered
  <2>2. \A w \in Venue : Range(lanes'[w].buffer) =
           IF w = v THEN Range(Tail(lanes[v].buffer)) ELSE Range(lanes[w].buffer)
    BY <1>2
  <2> QED
    BY <2>1, <2>2, <1>3 DEF Buffered
<1>11. {Unsequenced(tape'[i]) : i \in DOMAIN tape'}
          = {Unsequenced(tape[i]) : i \in DOMAIN tape} \cup {best}
  <2> DEFINE n     == Len(tape)
             entry == [global_seq |-> Len(tape) + 1,
                       recv_ts    |-> best.recv_ts,
                       fill       |-> best.fill]
  <2>1. /\ n \in Nat /\ DOMAIN tape = 1 .. n /\ DOMAIN tape' = 1 .. (n + 1)
        /\ \A i \in 1 .. n : tape'[i] = tape[i]
        /\ tape'[n + 1] = entry
    BY <1>1 DEF TypeOK
  <2>2. Unsequenced(entry) = best
    BY <1>2 DEF Unsequenced, Stamped
  <2> HIDE DEF n, entry, best
  <2>3. 1 .. (n + 1) = (1 .. n) \cup {n + 1}
    BY <2>1
  <2> QED
    BY <2>1, <2>2, <2>3
<1>12. best = [recv_ts |-> best.recv_ts, fill |-> best.fill]
  BY <1>2 DEF Stamped
<1>13. AcceptedSoFar' = AcceptedSoFar
  <2>1. AcceptedSoFar'
           = {Unsequenced(tape'[i]) : i \in DOMAIN tape'} \cup Buffered'
    BY DEF AcceptedSoFar, Unsequenced
  <2> HIDE DEF best
  <2> QED
    BY <2>1, <1>10, <1>11 DEF AcceptedSoFar
<1> QED
  BY <1>1, <1>2, <1>7, <1>8, <1>9, <1>13, SameVocabulary
     DEF Abstract!Publish, AcceptedSoFar

(* Every step of the sequencer is a step of the abstract tape or a stutter. *)
LEMMA StepImplements ==
    IInv /\ [Next]_vars => [Abstract!Next]_(Abstract!vars)
<1> SUFFICES ASSUME IInv, [Next]_vars
             PROVE  [Abstract!Next]_(Abstract!vars)
  OBVIOUS
<1>1. ASSUME NEW v \in Venue, NEW t \in Stamp, NEW f \in Fill, Push(v, t, f)
      PROVE  Abstract!Next
  <2>1. [recv_ts |-> t, fill |-> f] \in Stamped
    BY DEF Stamped
  <2> QED
    BY <1>1, <2>1, PushAccepts, SameVocabulary DEF Abstract!Next
<1>2. ASSUME NEW v \in Venue, NEW t \in Stamp, Tick(v, t)
      PROVE  UNCHANGED Abstract!vars
  <2>1. \A w \in Venue : lanes'[w].buffer = lanes[w].buffer
    BY <1>2 DEF Tick, Ticked, IInv, TypeOK, Lane
  <2>2. Buffered' = Buffered
    BY <2>1 DEF Buffered
  <2>3. tape' = tape /\ sealed' = sealed
    BY <1>2 DEF Tick
  <2> QED
    BY <2>2, <2>3 DEF Abstract!vars, Unsequenced
<1>3. CASE DrainReady
  BY <1>3 DEF DrainReady, Abstract!vars, Unsequenced, Buffered
<1>4. CASE Flush
  BY <1>4 DEF Flush, Abstract!Next, Abstract!Seal, Unsequenced, Buffered
<1>5. ASSUME NEW v \in Venue, DrainEmit(v)
      PROVE  Abstract!Next
  BY <1>5, EmitPublishes, SameVocabulary DEF Abstract!Next
<1>6. CASE DrainReturn
  BY <1>6 DEF DrainReturn, Abstract!vars, Unsequenced, Buffered
<1>7. CASE UNCHANGED vars
  BY <1>7 DEF vars, Abstract!vars, Unsequenced, Buffered
<1>8. ASSUME NEW v \in Venue, NEW t \in Stamp, NEW f \in Fill,
             PushRefused(v, t, f)
      PROVE  UNCHANGED Abstract!vars
  BY <1>7, <1>8 DEF PushRefused, vars, Abstract!vars, Unsequenced, Buffered
<1> QED
  BY <1>1, <1>2, <1>3, <1>4, <1>5, <1>6, <1>7, <1>8 DEF Next

(* The merger publishes exactly what it accepted, once, in order, never    *)
(* behind the published past and never after the seal.                     *)
THEOREM Refinement == Spec => ImplementsTape
<1>1. Init => Abstract!Init
  <2> SUFFICES ASSUME Init
               PROVE  Abstract!Init
    OBVIOUS
  <2>1. tape = << >> /\ \A v \in Venue : lanes[v].buffer = << >>
    BY DEF Init, NewLane
  <2>2. Buffered = {} /\ {Unsequenced(tape[i]) : i \in DOMAIN tape} = {}
    BY <2>1 DEF Buffered, Range
  <2>3. sealed = FALSE
    BY Zenon DEF Init
  <2> QED
    BY <2>1, <2>2, <2>3 DEF Abstract!Init
<1> QED
  BY <1>1, StepImplements, Inductive, PTL
     DEF Spec, ImplementsTape, Abstract!Spec

=============================================================================
