--------------------------- MODULE PipelineProofs ---------------------------
(***************************************************************************)
(* Proofs about Pipeline: for any files, cut into any interleaving, the    *)
(* caller's run is a run of the ingester and then one of the keeper, and   *)
(* at its end each venue has on the tape what its own file determines, and *)
(* the books are what the venues' own fills make of them.                  *)
(***************************************************************************)
EXTENDS Pipeline, StreamsProofs, AccountingProofs

-----------------------------------------------------------------------------
(* The lines and how far they have been taken. *)

LinesFrom(input, v) ==
    IF input.sorted THEN SortedBySeq(ReadNdjson(v, input.files[v]))
                    ELSE ReadNdjson(v, input.files[v])

Setup ==
    /\ source \in Input
    /\ lines = [v \in Venue |-> LinesFrom(source, v)]
    /\ taken \in [Venue -> Nat]
    /\ \A v \in Venue : taken[v] <= Len(lines[v])
    /\ applied \in Nat

LEMMA LinesTypes ==
    ASSUME NEW input \in Input, NEW v \in Venue
    PROVE  LinesFrom(input, v) \in Seq(LinesOf(v))
BY InputAssumption, ReadNdjsonReads, SortedBySeqSorts DEF LinesFrom

LEMMA SetupTypes ==
    ASSUME Setup, NEW v \in Venue
    PROVE  /\ lines[v] = LinesFrom(source, v)
           /\ lines[v] \in Seq(LinesOf(v)) /\ Len(lines[v]) \in Nat
           /\ taken[v] \in Nat /\ taken[v] <= Len(lines[v])
<1>1. lines[v] = LinesFrom(source, v) /\ lines[v] \in Seq(LinesOf(v))
  BY LinesTypes DEF Setup
<1> QED
  BY <1>1 DEF Setup

LEMMA SetupInit == PipelineInit => Setup
<1> SUFFICES ASSUME PipelineInit
             PROVE  Setup
  OBVIOUS
<1>1. /\ source \in Input /\ lines = [v \in Venue |-> LinesFrom(source, v)]
      /\ taken = [v \in Venue |-> 0]
  BY DEF PipelineInit, LinesFrom
<1>2. ASSUME NEW v \in Venue
      PROVE  0 <= Len(lines[v])
  <2>1. lines[v] \in Seq(LinesOf(v))
    BY <1>1, LinesTypes
  <2> QED
    BY <2>1
<1>3. applied = 0
  BY DEF PipelineInit, Keeper!Init
<1> QED
  BY <1>1, <1>2, <1>3 DEF Setup

(* What a catch does, and with which line. *)
LEMMA CatchEffect ==
    ASSUME Setup, Counted, NEW v \in Venue, Catch(v)
    PROVE  /\ taken[v] < Len(lines[v])
           /\ taken' = [taken EXCEPT ![v] = @ + 1] /\ taken'[v] = taken[v] + 1
           /\ arrivals + 1 \in Stamp /\ arrivals \in Nat /\ arrivals' = arrivals + 1
           /\ lines[v][taken[v] + 1] \in LinesOf(v) /\ lines[v][taken[v] + 1] \in RawLine
           /\ FillCaught(arrivals + 1, lines[v][taken[v] + 1])
           /\ pc = "catch" /\ pc' = "drain" /\ UNCHANGED <<source, lines, kvars>>
<1>1. /\ taken[v] < Len(lines[v])
      /\ taken' = [taken EXCEPT ![v] = @ + 1]
      /\ FillCaught(arrivals + 1, lines[v][taken'[v]])
      /\ pc = "catch" /\ pc' = "drain" /\ UNCHANGED <<source, lines, kvars>>
  BY DEF Catch
<1>2. taken'[v] = taken[v] + 1
  BY <1>1 DEF Setup
<1>3. lines[v] \in Seq(LinesOf(v)) /\ taken[v] \in Nat
  BY SetupTypes
<1>4. lines[v][taken[v] + 1] \in LinesOf(v)
  BY <1>1, <1>3
<1>5. lines[v][taken[v] + 1] \in RawLine
  BY <1>4 DEF LinesOf
<1>6. arrivals < MaxArrivals /\ arrivals' = arrivals + 1
  BY <1>1 DEF FillCaught
<1>7. arrivals \in Nat /\ arrivals + 1 \in Stamp
  BY <1>6, StampsAssumption, BoundAssumption DEF Counted
<1> QED
  BY <1>1, <1>2, <1>4, <1>5, <1>6, <1>7

LEMMA StepIsIngesterStep ==
    Setup /\ Counted /\ [PipelineNext]_pvars => [IngesterNext]_allvars
<1> SUFFICES ASSUME Setup, Counted, [PipelineNext]_pvars
             PROVE  [IngesterNext]_allvars
  OBVIOUS
<1>1. CASE \E v \in Venue : Catch(v)
  BY <1>1, CatchEffect DEF IngesterNext
<1>2. CASE CallDrain \/ CallFlush \/ Draining
  BY <1>2 DEF CallDrain, CallFlush, Draining, IngesterNext, Delegate
<1>3. CASE ApplyNext \/ Finish \/ Ended \/ UNCHANGED pvars
  BY <1>3 DEF ApplyNext, Finish, Ended, pvars
<1> QED
  BY <1>1, <1>2, <1>3 DEF PipelineNext

LEMMA SetupStep == Setup /\ Counted /\ [PipelineNext]_pvars => Setup'
<1> SUFFICES ASSUME Setup, Counted, [PipelineNext]_pvars
             PROVE  Setup'
  OBVIOUS
<1>1. CASE \E v \in Venue : Catch(v)
  <2> PICK v \in Venue : Catch(v)
    BY <1>1
  <2>1. /\ taken[v] < Len(lines[v]) /\ taken' = [taken EXCEPT ![v] = @ + 1]
        /\ source' = source /\ lines' = lines /\ applied' = applied
    BY CatchEffect DEF kvars
  <2>2. taken' \in [Venue -> Nat]
    BY <2>1 DEF Setup
  <2>3. ASSUME NEW w \in Venue
        PROVE  taken'[w] <= Len(lines'[w])
    <3>1. taken[w] \in Nat /\ Len(lines[w]) \in Nat /\ taken[w] <= Len(lines[w])
      BY SetupTypes
    <3>2. taken'[w] = IF w = v THEN taken[w] + 1 ELSE taken[w]
      BY <2>1 DEF Setup
    <3> QED
      BY <2>1, <3>1, <3>2
  <2> QED
    BY <2>1, <2>2, <2>3 DEF Setup
<1>2. CASE UNCHANGED <<source, lines, taken, kvars>>
  BY <1>2 DEF Setup, kvars
<1>3. CASE ApplyNext
  <2>1. applied' \in Nat
    BY <1>3 DEF Setup, ApplyNext, Keeper!Apply, kvars
  <2> QED
    BY <1>3, <2>1 DEF Setup, ApplyNext
<1> QED
  BY <1>1, <1>2, <1>3 DEF PipelineNext, CallDrain, CallFlush, Draining, Finish, Ended, pvars

(* What every run of the ingester keeps. *)
Sound == IInv /\ Known /\ Counted /\ Setup

LEMMA SoundInit == PipelineInit => Sound
<1>1. PipelineInit => IngesterInit /\ Init
  BY DEF PipelineInit, IngesterInit
<1> QED
  BY <1>1, IInvInit, KnownInit, CountedInit, SetupInit DEF Sound

LEMMA SoundStep == Sound /\ [PipelineNext]_pvars => Sound'
<1> SUFFICES ASSUME Sound, [PipelineNext]_pvars
             PROVE  Sound'
  OBVIOUS
<1>1. [IngesterNext]_allvars
  BY StepIsIngesterStep DEF Sound
<1>2. [Next]_vars
  BY <1>1, IngesterStepIsSequencerStep DEF Sound, Known
<1> QED
  BY <1>1, <1>2, IInvStep, KnownStep, CountedStep, SetupStep DEF Sound

(* The caller drives the ingester as it may be driven: the whole path is a *)
(* run of the ingester, with all that holds of every such run              *)
(* (common/mod.rs:37-47).                                                 *)
THEOREM RunsTheIngester == PipelineSpec => IngesterSpec
<1>1. PipelineInit => IngesterInit
  BY DEF PipelineInit
<1>2. Sound /\ [PipelineNext]_pvars => [IngesterNext]_allvars
  BY StepIsIngesterStep DEF Sound
<1> QED
  BY <1>1, <1>2, SoundInit, SoundStep, PTL DEF PipelineSpec, IngesterSpec

-----------------------------------------------------------------------------
(* Where the caller is. *)

AllTaken == \A v \in Venue : taken[v] = Len(lines[v])

Phases ==
    /\ pc \in {"catch", "drain", "draining", "apply", "done", "panicked"}
    /\ pc \in {"catch", "drain"} => ~sealed /\ draining = "no"
    /\ pc = "draining" =>
          /\ draining = IF sealed THEN "flush" ELSE "ready"
          /\ sealed => AllTaken
    /\ Streamed => sealed /\ draining = "no" /\ AllTaken

LEMMA PhasesInit == PipelineInit => Phases
BY DEF PipelineInit, IngesterInit, Init, Phases, Streamed

LEMMA PhasesStep == Sound /\ Phases /\ [PipelineNext]_pvars => Phases'
<1> SUFFICES ASSUME Sound, Phases, [PipelineNext]_pvars
             PROVE  Phases'
  OBVIOUS
<1>1. CASE \E v \in Venue : Catch(v)
  <2>1. /\ pc = "catch" /\ pc' = "drain"
        /\ sealed' = sealed /\ draining' = draining
    BY <1>1 DEF Catch, FillCaught
  <2> QED
    BY <2>1 DEF Phases, Streamed
<1>2. CASE CallDrain
  <2>1. /\ pc = "drain" /\ pc' = "draining"
        /\ draining' = "ready" /\ sealed' = sealed
    BY <1>2 DEF CallDrain, DrainReady
  <2> QED
    BY <2>1 DEF Phases, Streamed
<1>3. CASE CallFlush
  <2>1. /\ AllTaken /\ pc' = "draining" /\ draining' = "flush" /\ sealed' = TRUE
        /\ lines' = lines /\ taken' = taken
    BY <1>3 DEF CallFlush, Flush, AllTaken
  <2>2. AllTaken'
    BY <2>1 DEF AllTaken
  <2> QED
    BY <2>1, <2>2 DEF Phases, Streamed
<1>4. CASE Draining
  <2>1. pc = "draining" /\ lines' = lines /\ taken' = taken
    BY <1>4 DEF Draining
  <2>2. AllTaken => AllTaken'
    BY <2>1 DEF AllTaken
  <2>3. CASE (\E v \in Venue : DrainEmit(v)) /\ UNCHANGED pc
    <3>1. sealed' = sealed /\ draining' = draining /\ pc' = pc
      BY <2>3 DEF DrainEmit
    <3> QED
      BY <2>1, <2>2, <3>1 DEF Phases, Streamed
  <2>4. CASE DrainReturn /\ pc' = IF sealed THEN "apply" ELSE "catch"
    <3>1. sealed' = sealed /\ draining' = "no"
      BY <2>4 DEF DrainReturn
    <3>2. sealed \in BOOLEAN
      BY DEF Sound, IInv, TypeOK
    <3>3. CASE sealed
      <4>1. pc' = "apply" /\ AllTaken'
        BY <2>1, <2>2, <2>4, <3>3 DEF Phases
      <4> QED
        BY <3>1, <3>3, <4>1 DEF Phases, Streamed
    <3>4. CASE ~sealed
      <4>1. pc' = "catch"
        BY <2>4, <3>4
      <4> QED
        BY <3>1, <3>4, <4>1 DEF Phases, Streamed
    <3> QED
      BY <3>3, <3>4
  <2> QED
    BY <1>4, <2>3, <2>4 DEF Draining
<1>5. CASE ApplyNext \/ Finish \/ Ended \/ UNCHANGED pvars
  <2>1. /\ UNCHANGED <<sealed, draining, lines, taken>>
        /\ pc' = pc \/ (Streamed /\ pc' \in {"done", "panicked"})
    BY <1>5 DEF ApplyNext, Finish, Ended, pvars, allvars, vars, Streamed
  <2>2. AllTaken => AllTaken'
    BY <2>1 DEF AllTaken
  <2> QED
    BY <2>1, <2>2 DEF Phases, Streamed
<1> QED
  BY <1>1, <1>2, <1>3, <1>4, <1>5 DEF PipelineNext

-----------------------------------------------------------------------------
(* How far the ingester is. *)

TakenOf == [v \in Venue |-> 1 .. taken[v]]

LateOf == [v \in Venue |-> Late(lines[v]) \cap 1 .. taken[v]]

NoEventOf(v) == {k \in 1 .. taken[v] : lines[v][k].parsed = Malformed}

Progress ==
    /\ \A v \in Venue : lanes[v].frontier <= arrivals
    /\ \A v \in Venue : Follows(v, lines[v], taken[v], Out(v), seen, lanes[v].last_seq)
    /\ Cardinality(Pairs(TakenOf)) = arrivals
    /\ Cardinality(Pairs(LateOf)) = stats.out_of_order
    /\ \A v \in Venue : Cardinality(MalformedOf(v)) = Cardinality(NoEventOf(v))

LEMMA CountsAreFinite ==
    ASSUME Setup, NEW v \in Venue
    PROVE  /\ IsFiniteSet(TakenOf[v]) /\ IsFiniteSet(LateOf[v]) /\ IsFiniteSet(NoEventOf(v))
           /\ TakenOf[v] = 1 .. taken[v]
           /\ LateOf[v] = Late(lines[v]) \cap 1 .. taken[v]
<1>1. IsFiniteSet(1 .. taken[v])
  <2>1. taken[v] \in Int /\ 1 \in Int
    BY SetupTypes
  <2> QED
    BY <2>1, FS_Interval
<1>2. TakenOf[v] = 1 .. taken[v] /\ LateOf[v] = Late(lines[v]) \cap 1 .. taken[v]
  BY DEF TakenOf, LateOf
<1>3. LateOf[v] \subseteq 1 .. taken[v] /\ NoEventOf(v) \subseteq 1 .. taken[v]
  BY <1>2 DEF NoEventOf
<1> QED
  BY <1>1, <1>2, <1>3, FS_Subset

LEMMA ProgressInit == PipelineInit => Progress
<1> SUFFICES ASSUME PipelineInit
             PROVE  Progress
  OBVIOUS
<1>1. /\ Setup /\ Init /\ seen = << >> /\ arrivals = 0 /\ stats.out_of_order = 0
      /\ dead_letters = << >> /\ taken = [v \in Venue |-> 0]
  BY SetupInit DEF PipelineInit, IngesterInit
<1>2. ASSUME NEW v \in Venue
      PROVE  /\ lanes[v].frontier <= arrivals
             /\ Follows(v, lines[v], taken[v], Out(v), seen, lanes[v].last_seq)
             /\ TakenOf[v] = {} /\ LateOf[v] = {}
             /\ MalformedOf(v) = {} /\ NoEventOf(v) = {}
  <2>1. taken[v] = 0 /\ 1 .. 0 = {} /\ lines[v] \in Seq(LinesOf(v))
    BY <1>1, SetupTypes
  <2>2. lanes[v].frontier <= arrivals
    BY <1>1 DEF Init, NewLane
  <2>3. Follows(v, lines[v], taken[v], Out(v), seen, lanes[v].last_seq)
    BY <1>1, <2>1, FollowsNone
  <2>4. TakenOf[v] = {} /\ LateOf[v] = {} /\ NoEventOf(v) = {}
    BY <2>1 DEF TakenOf, LateOf, NoEventOf
  <2>5. MalformedOf(v) = {}
    BY <1>1 DEF MalformedOf, Letters
  <2> QED
    BY <2>2, <2>3, <2>4, <2>5
<1>3. Pairs(TakenOf) = {} /\ Pairs(LateOf) = {}
  BY <1>2, PairMember
<1> QED
  BY <1>1, <1>2, <1>3, FS_EmptySet DEF Progress

(* Steps of the sequencer, the keeper or nobody. *)
LEMMA ProgressKept ==
    ASSUME Sound, Progress, UNCHANGED <<ivars, lines, taken>>,
           \/ BuffersKept /\ tape' = tape /\ \A v \in Venue : lanes'[v].frontier = lanes[v].frontier
           \/ \E w \in Venue : DrainEmit(w)
    PROVE  Progress'
<1>1. UNCHANGED <<seen, stats, arrivals, dead_letters, lines, taken>>
  BY DEF ivars
<1>2. TypeOK /\ LanesOrdered
  BY DEF Sound, IInv
<1>3. ASSUME NEW v \in Venue
      PROVE  lanes'[v].frontier <= arrivals
  <2>1. ASSUME NEW w \in Venue, DrainEmit(w)
        PROVE  lanes'[v].frontier = lanes[v].frontier
    BY <1>2, <2>1 DEF DrainEmit, Popped, TypeOK, Lane
  <2>2. lanes'[v].frontier = lanes[v].frontier
    BY <2>1
  <2> QED
    BY <2>2 DEF Progress
<1>4. ASSUME NEW v \in Venue
      PROVE  Follows(v, lines[v], taken[v], Out(v)', seen', lanes'[v].last_seq)
  BY <1>1, <1>2, FollowsKept DEF Progress
<1>5. /\ Pairs(TakenOf)' = Pairs(TakenOf) /\ Pairs(LateOf)' = Pairs(LateOf)
      /\ \A v \in Venue : MalformedOf(v)' = MalformedOf(v) /\ NoEventOf(v)' = NoEventOf(v)
  BY <1>1 DEF Pairs, TakenOf, LateOf, MalformedOf, Letters, NoEventOf
<1> QED
  BY <1>1, <1>3, <1>4, <1>5 DEF Progress

LEMMA ProgressCatch ==
    ASSUME Sound, Phases, Progress, NEW v \in Venue, Catch(v)
    PROVE  Progress'
<1> DEFINE t    == arrivals + 1
           m    == taken[v]
           list == lines[v]
           line == list[m + 1]
<1>1. /\ m < Len(list) /\ taken' = [taken EXCEPT ![v] = @ + 1]
      /\ t \in Stamp /\ arrivals \in Nat /\ arrivals' = t
      /\ line \in LinesOf(v) /\ FillCaught(t, line)
      /\ pc = "catch" /\ source' = source /\ lines' = lines
  BY CatchEffect DEF Sound
<1>2. /\ Known /\ Counted /\ Setup /\ ~sealed
      /\ list \in Seq(LinesOf(v)) /\ m \in Nat
  BY <1>1, SetupTypes DEF Sound, Phases
<1>3. lanes[v].frontier <= t
  <2>1. lanes[v].frontier <= arrivals /\ lanes[v].frontier \in Nat
    BY DEF Progress, Sound, IInv, TypeOK, Lane
  <2> QED
    BY <1>1, <2>1
<1>4. Advances(v, t)
  BY <1>1, <1>2, <1>3, CatchLine
<1>5. ASSUME NEW w \in Venue
      PROVE  taken'[w] = IF w = v THEN m + 1 ELSE taken[w]
  BY <1>1, <1>2 DEF Setup
<1>6. ASSUME NEW w \in Venue
      PROVE  lanes'[w].frontier <= arrivals'
  <2>1. CASE w = v
    BY <1>1, <1>4, <2>1 DEF Advances
  <2>2. CASE w # v
    <3>1. lanes'[w] = lanes[w]
      BY <1>4, <2>2 DEF Advances
    <3>2. lanes[w].frontier <= arrivals /\ lanes[w].frontier \in Nat
      BY DEF Progress, Sound, IInv, TypeOK, Lane
    <3> QED
      BY <1>1, <3>1, <3>2
  <2> QED
    BY <2>1, <2>2
<1>7. /\ Follows(v, list, m + 1, Out(v)', seen', lanes'[v].last_seq)
      /\ stats'.out_of_order = stats.out_of_order + (IF m + 1 \in Late(list) THEN 1 ELSE 0)
  <2>1. Follows(v, list, m, Out(v), seen, lanes[v].last_seq)
    BY DEF Progress
  <2> HIDE DEF t, m, list
  <2> QED
    BY <1>1, <1>2, <1>3, <2>1, FollowsCatch
<1>8. ASSUME NEW w \in Venue, w # v
      PROVE  Follows(w, lines[w], taken[w], Out(w)', seen', lanes'[w].last_seq)
  <2>1. Follows(w, lines[w], taken[w], Out(w), seen, lanes[w].last_seq)
    BY DEF Progress
  <2> HIDE DEF t, m, list, line
  <2> QED
    BY <1>1, <1>2, <1>3, <1>8, <2>1, FollowsOther
<1>9. ASSUME NEW w \in Venue
      PROVE  Cardinality(MalformedOf(w)')
                = Cardinality(MalformedOf(w)) + (IF w = v /\ line.parsed = Malformed THEN 1 ELSE 0)
  <2> HIDE DEF t, m, list, line
  <2> QED
    BY <1>1, <1>2, <1>3, MalformedLetters
<1>10. ASSUME NEW w \in Venue
       PROVE  Follows(w, lines[w], taken[w], Out(w), seen, lanes[w].last_seq)'
  <2>1. lines'[w] = lines[w]
    BY <1>1
  <2>2. CASE w = v
    BY <1>5, <1>7, <2>1, <2>2
  <2>3. CASE w # v
    BY <1>5, <1>8, <2>1, <2>3
  <2> QED
    BY <2>2, <2>3
<1> HIDE DEF t, list, line
<1>11. /\ 1 .. m + 1 = 1 .. m \cup {m + 1} /\ m + 1 \notin 1 .. m
  BY <1>2
<1>12. Cardinality(Pairs(TakenOf)') = arrivals'
  <2>1. /\ TakenOf'[v] = TakenOf[v] \cup {m + 1} /\ m + 1 \notin TakenOf[v]
        /\ \A w \in Venue \ {v} : TakenOf'[w] = TakenOf[w]
    BY <1>5, <1>11 DEF TakenOf
  <2>2. \A w \in Venue : IsFiniteSet(TakenOf[w])
    BY <1>2, CountsAreFinite
  <2>3. Cardinality(Pairs(TakenOf')) = Cardinality(Pairs(TakenOf)) + 1
    BY <2>1, <2>2, PairsGrow
  <2>4. Pairs(TakenOf)' = Pairs(TakenOf')
    BY DEF Pairs
  <2> QED
    BY <1>1, <2>3, <2>4 DEF Progress, t
<1>13. Cardinality(Pairs(LateOf)') = stats'.out_of_order
  <2>1. /\ LateOf[v] = Late(list) \cap 1 .. m
        /\ LateOf'[v] = Late(list) \cap 1 .. m + 1
        /\ \A w \in Venue \ {v} : LateOf'[w] = LateOf[w]
    BY <1>1, <1>5 DEF LateOf, list
  <2>2. \A w \in Venue : IsFiniteSet(LateOf[w])
    BY <1>2, CountsAreFinite
  <2>3. Pairs(LateOf)' = Pairs(LateOf')
    BY DEF Pairs
  <2>4. CASE m + 1 \in Late(list)
    <3>1. LateOf'[v] = LateOf[v] \cup {m + 1} /\ m + 1 \notin LateOf[v]
      BY <1>11, <2>1, <2>4
    <3>2. Cardinality(Pairs(LateOf')) = Cardinality(Pairs(LateOf)) + 1
      BY <2>1, <2>2, <3>1, PairsGrow
    <3> QED
      BY <1>7, <2>3, <2>4, <3>2 DEF Progress
  <2>5. CASE m + 1 \notin Late(list)
    <3>1. LateOf'[v] = LateOf[v]
      BY <1>11, <2>1, <2>5
    <3>2. \A w \in Venue : LateOf'[w] = LateOf[w]
      BY <2>1, <3>1
    <3>3. Pairs(LateOf') = Pairs(LateOf)
      BY <3>2 DEF Pairs
    <3>4. stats.out_of_order \in Nat
      BY <1>2 DEF Counted, Counter
    <3> QED
      BY <1>7, <2>3, <2>5, <3>3, <3>4 DEF Progress
  <2> QED
    BY <2>4, <2>5
<1>14. ASSUME NEW w \in Venue
       PROVE  Cardinality(MalformedOf(w)') = Cardinality(NoEventOf(w)')
  <2>1. /\ Cardinality(MalformedOf(w)) = Cardinality(NoEventOf(w))
        /\ IsFiniteSet(NoEventOf(w))
    BY <1>2, CountsAreFinite DEF Progress
  <2>2. Cardinality(NoEventOf(w)) \in Nat
    BY <2>1, FS_CardinalityType
  <2>3. NoEventOf(w)' = {k \in 1 .. taken'[w] : lines[w][k].parsed = Malformed}
    BY <1>1 DEF NoEventOf
  <2>4. CASE w = v /\ line.parsed = Malformed
    <3>1. NoEventOf(w)' = NoEventOf(w) \cup {m + 1}
      <4>1. ASSUME NEW k
            PROVE  k \in NoEventOf(w)' <=> k \in NoEventOf(w) \/ k = m + 1
        <5>1. k \in 1 .. m + 1 <=> k \in 1 .. m \/ k = m + 1
          BY <1>11
        <5> QED
          BY <1>5, <2>3, <2>4, <5>1 DEF NoEventOf, list, line
      <4> QED
        BY <4>1
    <3>2. m + 1 \notin NoEventOf(w)
      BY <1>11, <2>4 DEF NoEventOf
    <3>3. Cardinality(NoEventOf(w)') = Cardinality(NoEventOf(w)) + 1
      BY <2>1, <3>1, <3>2, FS_AddElement
    <3> QED
      BY <1>9, <2>1, <2>4, <3>3
  <2>5. CASE ~(w = v /\ line.parsed = Malformed)
    <3>1. ASSUME NEW k
          PROVE  k \in NoEventOf(w)' <=> k \in NoEventOf(w)
      <4>1. CASE w # v
        BY <1>5, <2>3, <4>1 DEF NoEventOf
      <4>2. CASE w = v
        <5>1. k \in 1 .. m + 1 <=> k \in 1 .. m \/ k = m + 1
          BY <1>11
        <5>2. k = m + 1 => lines[w][k].parsed # Malformed
          BY <2>5, <4>2 DEF list, line
        <5> QED
          BY <1>5, <2>3, <4>2, <5>1, <5>2 DEF NoEventOf
      <4> QED
        BY <4>1, <4>2
    <3>2. NoEventOf(w)' = NoEventOf(w)
      BY <3>1
    <3> QED
      BY <1>9, <2>1, <2>2, <2>5, <3>2
  <2> QED
    BY <2>4, <2>5
<1> QED
  BY <1>6, <1>10, <1>12, <1>13, <1>14 DEF Progress

LEMMA ProgressStep == Sound /\ Phases /\ Progress /\ [PipelineNext]_pvars => Progress'
<1> SUFFICES ASSUME Sound, Phases, Progress, [PipelineNext]_pvars
             PROVE  Progress'
  OBVIOUS
<1>1. CASE \E v \in Venue : Catch(v)
  BY <1>1, ProgressCatch
<1>2. CASE Draining /\ \E v \in Venue : DrainEmit(v)
  BY <1>2, ProgressKept DEF Draining
<1>3. CASE \/ CallDrain \/ CallFlush \/ (Draining /\ DrainReturn)
           \/ ApplyNext \/ Finish \/ Ended \/ UNCHANGED pvars
  <2>1. UNCHANGED <<ivars, lines, taken, lanes, tape>>
    BY <1>3 DEF CallDrain, DrainReady, CallFlush, Flush, Draining, DrainReturn, ApplyNext,
                Finish, Ended, pvars, allvars, vars
  <2>2. BuffersKept /\ \A v \in Venue : lanes'[v].frontier = lanes[v].frontier
    BY <2>1 DEF BuffersKept
  <2> QED
    BY <2>1, <2>2, ProgressKept
<1> QED
  BY <1>1, <1>2, <1>3 DEF PipelineNext, Draining

(* At any point of any run, what the ingester remembers, queues and has    *)
(* published is what the lines taken so far determine, venue by venue, and *)
(* the caller is where its loop must be (common/mod.rs:37-48;              *)
(* lib.rs:63-150).                                                         *)
THEOREM PipelineInductive == PipelineSpec => [](Sound /\ Phases /\ Progress)
<1>1. PipelineInit => Sound /\ Phases /\ Progress
  BY SoundInit, PhasesInit, ProgressInit
<1>2. Sound /\ Phases /\ Progress /\ [PipelineNext]_pvars => (Sound /\ Phases /\ Progress)'
  BY SoundStep, PhasesStep, ProgressStep
<1> QED
  BY <1>1, <1>2, PTL DEF PipelineSpec

-----------------------------------------------------------------------------
(* The end of the stream. *)

LEMMA NothingWaits ==
    ASSUME Sound, Phases, Streamed, NEW v \in Venue
    PROVE  /\ lanes[v].buffer = << >>
           /\ Out(v) = OfVenue(v, Published)
           /\ taken[v] = Len(lines[v])
<1>1. sealed /\ draining = "no" /\ AllTaken
  BY DEF Phases
<1>2. lanes[v].buffer = << >> /\ TypeOK
  BY <1>1 DEF Sound, IInv, FlushSeals
<1>3. OfVenue(v, Published) \in Seq(Fill)
  BY <1>2, PublishedTypes
<1>4. FillsOf(lanes[v].buffer) = << >>
  BY <1>2 DEF FillsOf
<1>5. Out(v) = OfVenue(v, Published) \o << >>
  BY <1>4 DEF Out
<1> QED
  BY <1>1, <1>2, <1>3, <1>5, ConcatEmptySeq DEF AllTaken

(* In the producers' order no event is overtaken. *)
LEMMA SortedNeverLate ==
    ASSUME NEW input \in Input, input.sorted, NEW v \in Venue
    PROVE  Late(LinesFrom(input, v)) = {}
<1> DEFINE list == LinesFrom(input, v)
<1>1. list \in Seq(LinesOf(v))
  BY LinesTypes
<1>2. \A k, l \in DOMAIN list : k < l => SeqKey(list[k]) <= SeqKey(list[l])
  <2>1. input.files[v] \in Seq(Text) /\ list = SortedBySeq(ReadNdjson(v, input.files[v]))
    BY InputAssumption DEF LinesFrom
  <2> HIDE DEF list
  <2> QED
    BY <2>1, SortedPlaces
<1> HIDE DEF list
<1>3. ASSUME NEW i \in Fresh(list), NEW j \in Fresh(list), j < i
      PROVE  list[j].parsed.seq < list[i].parsed.seq
  <2>1. /\ i \in DOMAIN list /\ j \in DOMAIN list /\ i \in Nat /\ j \in Nat
        /\ list[i].parsed # Malformed /\ list[j].parsed # Malformed
    BY <1>1 DEF Fresh
  <2>2. /\ list[i].parsed \in RawEvent /\ list[i].parsed.venue = v
        /\ list[j].parsed \in RawEvent /\ list[j].parsed.venue = v
        /\ list[i].parsed.seq \in Nat /\ list[j].parsed.seq \in Nat
    BY <1>1, <2>1, LineTypes
  <2>3. list[j].parsed.seq <= list[i].parsed.seq
    BY <1>2, <1>3, <2>1 DEF SeqKey
  <2>4. list[j].parsed.event_id # list[i].parsed.event_id
    <3>1. j \in 1 .. i - 1
      BY <1>1, <1>3, <2>1
    <3> QED
      BY <2>1, <3>1 DEF Fresh
  <2>5. list[j].parsed.seq # list[i].parsed.seq
    BY <2>2, <2>4, InputAssumption
  <2> QED
    BY <2>2, <2>3, <2>5
<1>4. OnTime(list) = Fresh(list)
  BY <1>3 DEF OnTime
<1> QED
  BY <1>4 DEF Late, list

LEMMA PublishedAlone ==
    ASSUME Sound, Phases, Progress, Streamed
    PROVE  VenuesArePublishedAlone
<1>1. Setup
  BY DEF Sound
<1>2. ASSUME NEW v \in Venue
      PROVE  OfVenue(v, Published) = Kept(lines[v])
  <2>1. lines[v] \in Seq(LinesOf(v)) /\ taken[v] = Len(lines[v])
    BY <1>1, SetupTypes, NothingWaits
  <2>2. Out(v) = KeptTo(lines[v], Len(lines[v]))
    BY <2>1 DEF Progress, Follows
  <2> QED
    BY <2>1, <2>2, KeptAll, NothingWaits
<1>3. ASSUME NEW v \in Venue
      PROVE  LateOf[v] = Fresh(lines[v]) \ OnTime(lines[v])
  <2>1. lines[v] \in Seq(LinesOf(v)) /\ taken[v] = Len(lines[v])
    BY <1>1, SetupTypes, NothingWaits
  <2>2. Late(lines[v]) \subseteq 1 .. taken[v]
    BY <2>1 DEF Late, Fresh
  <2> QED
    BY <2>2 DEF LateOf, Late
<1>4. Pairs(LateOf) = UNION {{v} \X (Fresh(lines[v]) \ OnTime(lines[v])) : v \in Venue}
  BY <1>3 DEF Pairs
<1>5. stats.out_of_order
         = Cardinality(UNION {{v} \X (Fresh(lines[v]) \ OnTime(lines[v])) : v \in Venue})
  BY <1>4 DEF Progress
<1>6. ASSUME source.sorted
      PROVE  stats.out_of_order = 0
  <2>1. ASSUME NEW v \in Venue
        PROVE  LateOf[v] = {}
    BY <1>1, <1>6, SetupTypes, SortedNeverLate DEF LateOf, Setup
  <2>2. Pairs(LateOf) = {}
    BY <2>1, PairMember
  <2> QED
    BY <2>2, FS_EmptySet DEF Progress
<1> QED
  BY <1>2, <1>5, <1>6 DEF VenuesArePublishedAlone

(* However the two files are cut into each other, each venue's part of the *)
(* tape, and how many of its events are late, is what its own lines say    *)
(* (ingester lib.rs:63-150; common/mod.rs:39-48).                          *)
THEOREM VenuesAlone == PipelineSpec => []VenuesArePublishedAlone
<1>1. Sound /\ Phases /\ Progress => VenuesArePublishedAlone
  <2>1. CASE Streamed
    BY <2>1, PublishedAlone
  <2>2. CASE ~Streamed
    BY <2>2 DEF VenuesArePublishedAlone
  <2> QED
    BY <2>1, <2>2
<1> QED
  BY <1>1, PipelineInductive, PTL

-----------------------------------------------------------------------------
(* From the lines back to the file. *)

LEMMA LinesArePlaced ==
    ASSUME NEW input \in Input, NEW v \in Venue
    PROVE  /\ input.files[v] \in Seq(Text)
           /\ \E place : Placed(v, input.files[v], LinesFrom(input, v), place)
<1>1. input.files[v] \in Seq(Text)
  BY InputAssumption
<1>2. CASE input.sorted
  BY <1>1, <1>2, SortedPlaces DEF LinesFrom
<1>3. CASE ~input.sorted
  BY <1>1, <1>3, ReadPlaces DEF LinesFrom
<1> QED
  BY <1>1, <1>2, <1>3

(* The first line about an event is the first copy in the file. *)
LEMMA FirstLineIsFirstCopy ==
    ASSUME NEW v \in Venue, NEW file \in Seq(Text), NEW list, NEW place,
           Placed(v, file, list, place), DOMAIN list \subseteq Nat,
           NEW j \in DOMAIN list, NEW e \in RawEvent, list[j].parsed = e,
           \A i \in DOMAIN list :
              i < j => list[i].parsed = Malformed \/ KeyOf(list[i].parsed) # KeyOf(e)
    PROVE  /\ place[j] \in DOMAIN file /\ e = file[place[j]]
           /\ Parsed(v, file[place[j]]) # Malformed
           /\ \A i \in DOMAIN file :
                 Parsed(v, file[i]) # Malformed /\ KeyOf(file[i]) = KeyOf(e) => place[j] <= i
<1>1. /\ place \in [DOMAIN list -> Texts(file)]
      /\ \A i \in Texts(file) : \E k \in DOMAIN list : place[k] = i
      /\ \A k \in DOMAIN list : list[k] = ReadLine(v, file[place[k]])
  BY BijectionFacts DEF Placed
<1>2. Texts(file) \subseteq DOMAIN file /\ DOMAIN file \subseteq Nat
  BY DEF Texts
<1>3. e # Malformed /\ e = Parsed(v, file[place[j]])
  BY <1>1, CanonAssumption DEF ReadLine
<1>4. e = file[place[j]] /\ e.venue = v
  BY <1>3 DEF Parsed
<1>5. ASSUME NEW i \in DOMAIN file, Parsed(v, file[i]) # Malformed, KeyOf(file[i]) = KeyOf(e)
      PROVE  place[j] <= i
  <2>1. file[i] \in RawEvent /\ file[i].venue = v /\ Parsed(v, file[i]) = file[i]
    BY <1>5 DEF Parsed
  <2>2. i \in Texts(file)
    BY <2>1, LineAssumption DEF Texts
  <2>3. PICK k \in DOMAIN list : place[k] = i
    BY <1>1, <2>2
  <2>4. list[k].parsed = file[i]
    BY <1>1, <2>1, <2>3 DEF ReadLine
  <2>5. ~(k < j)
    BY <1>5, <2>1, <2>4, CanonAssumption
  <2>6. k \in Nat /\ j \in Nat /\ place[j] \in Nat /\ place[k] \in Nat
    BY <1>1, <1>2
  <2>7. CASE k = j
    BY <2>3, <2>6, <2>7
  <2>8. CASE j < k
    <3>1. file[i].event_id = e.event_id
      BY <1>5 DEF KeyOf
    <3>2. file[i].seq = e.seq
      BY <1>4, <2>1, <3>1, InputAssumption
    <3>3. SeqKey(list[j]) = SeqKey(list[k])
      BY <1>3, <1>5, <2>1, <2>4, <3>2 DEF SeqKey
    <3>4. place[j] < place[k]
      BY <2>8, <3>3 DEF Placed
    <3> QED
      BY <2>3, <2>6, <3>4
  <2> QED
    BY <2>5, <2>6, <2>7, <2>8
<1> QED
  BY <1>1, <1>2, <1>3, <1>4, <1>5

LEMMA FirstCopyOfKey ==
    ASSUME Sound, Progress, NEW k \in DOMAIN seen
    PROVE  \E i \in DOMAIN source.files[seen[k].event.venue] :
              LET v    == seen[k].event.venue
                  file == source.files[v] IN
              /\ Parsed(v, file[i]) # Malformed /\ KeyOf(file[i]) = k
              /\ seen[k].event = file[i]
              /\ \A h \in DOMAIN file :
                    Parsed(v, file[h]) # Malformed /\ KeyOf(file[h]) = k => i <= h
<1> DEFINE e    == seen[k].event
           v    == e.venue
           list == lines[v]
           file == source.files[v]
<1>1. e \in RawEvent /\ KeyOf(e) = k /\ v \in Venue
  BY CanonAssumption DEF Sound, Known, SeenSound
<1>2. /\ source \in Input /\ list = LinesFrom(source, v) /\ list \in Seq(LinesOf(v))
      /\ taken[v] \in Nat /\ taken[v] <= Len(list)
  BY <1>1, SetupTypes DEF Sound, Setup
<1>3. FirstsKnown(v, list, taken[v], seen)
  BY <1>1 DEF Progress, Follows
<1>4. file \in Seq(Text) /\ \E place : Placed(v, file, list, place)
  BY <1>1, <1>2, LinesArePlaced
<1>5. PICK place : Placed(v, file, list, place)
  BY <1>4
<1>6. PICK j \in 1 .. taken[v] :
         /\ list[j].parsed = e
         /\ \A i \in 1 .. j - 1 : list[i].parsed # Malformed => KeyOf(list[i].parsed) # k
  BY <1>3 DEF FirstsKnown
<1>7. j \in DOMAIN list /\ DOMAIN list \subseteq Nat
      /\ \A i \in DOMAIN list : i < j => i \in 1 .. j - 1
  BY <1>2
<1> HIDE DEF list, file, e, v
<1>8. /\ place[j] \in DOMAIN file /\ e = file[place[j]]
      /\ Parsed(v, file[place[j]]) # Malformed
      /\ \A i \in DOMAIN file :
            Parsed(v, file[i]) # Malformed /\ KeyOf(file[i]) = KeyOf(e) => place[j] <= i
  BY <1>1, <1>4, <1>5, <1>6, <1>7, FirstLineIsFirstCopy
<1> QED
  BY <1>1, <1>8 DEF file, e, v

(* The first copy of an event in the venue's file is the one remembered,   *)
(* whether the lines were sorted or not (common/mod.rs:13-16;              *)
(* lib.rs:76-98).                                                          *)
THEOREM FirstCopies == PipelineSpec => []FirstCopyInFileWins
<1>1. Sound /\ Phases /\ Progress => FirstCopyInFileWins
  BY FirstCopyOfKey DEF FirstCopyInFileWins
<1> QED
  BY <1>1, PipelineInductive, PTL

-----------------------------------------------------------------------------
(* Every text is accounted for. *)

(* The texts that are no event of the venue whose file they are in. *)
BadTexts(v, file) == {i \in Texts(file) : file[i] \notin RawEvent \/ file[i].venue # v}

LEMMA LinesMatchTexts ==
    ASSUME NEW v \in Venue, NEW file \in Seq(Text), NEW list \in Seq(LinesOf(v)), NEW place,
           Placed(v, file, list, place)
    PROVE  /\ IsFiniteSet(Texts(file)) /\ Cardinality(Texts(file)) = Len(list)
           /\ Cardinality(BadTexts(v, file))
                 = Cardinality({k \in DOMAIN list : list[k].parsed = Malformed})
<1> DEFINE D   == DOMAIN list
           bad == {k \in D : list[k].parsed = Malformed}
           at  == [k \in bad |-> place[k]]
<1>1. /\ place \in [D -> Texts(file)]
      /\ \A k, l \in D : place[k] = place[l] => k = l
      /\ \A i \in Texts(file) : \E k \in D : place[k] = i
      /\ \A k \in D : list[k] = ReadLine(v, file[place[k]])
      /\ place \in Bijection(D, Texts(file))
  BY BijectionFacts DEF Placed
<1>2. D = 1 .. Len(list) /\ Len(list) \in Nat
  OBVIOUS
<1>3. IsFiniteSet(D) /\ Cardinality(D) = Len(list)
  <2> DEFINE n == Len(list)
  <2>1. n \in Nat /\ n \in Int /\ 1 \in Int
    BY <1>2
  <2> HIDE DEF n
  <2>2. IsFiniteSet(1 .. n) /\ Cardinality(1 .. n) = n
    BY <2>1, FS_Interval
  <2> QED
    BY <1>2, <2>2 DEF n
<1> HIDE DEF D
<1>4. IsFiniteSet(Texts(file)) /\ Cardinality(Texts(file)) = Len(list)
  BY <1>1, <1>3, FS_Bijection DEF ExistsBijection
<1>5. ASSUME NEW k \in D
      PROVE  k \in bad <=> place[k] \in BadTexts(v, file)
  <2>1. place[k] \in Texts(file) /\ list[k].parsed = Parsed(v, file[place[k]])
    <3>1. place[k] \in Texts(file)
      BY <1>1
    <3>2. list[k] = ReadLine(v, file[place[k]])
      BY <1>1
    <3>3. ReadLine(v, file[place[k]]).parsed = Parsed(v, file[place[k]])
      BY DEF ReadLine
    <3> QED
      BY <3>1, <3>2, <3>3
  <2>2. place[k] \in BadTexts(v, file)
           <=> ~(file[place[k]] \in RawEvent /\ file[place[k]].venue = v)
    BY <2>1 DEF BadTexts
  <2>3. Parsed(v, file[place[k]]) = Malformed
           <=> ~(file[place[k]] \in RawEvent /\ file[place[k]].venue = v)
    BY CanonAssumption DEF Parsed
  <2> QED
    BY <2>1, <2>2, <2>3
<1>6. at \in [bad -> BadTexts(v, file)]
  BY <1>5
<1>7. \A k, l \in bad : at[k] = at[l] => k = l
  BY <1>1
<1>8. ASSUME NEW i \in BadTexts(v, file)
      PROVE  \E k \in bad : at[k] = i
  <2>1. PICK k \in D : place[k] = i
    BY <1>1 DEF BadTexts
  <2> QED
    BY <1>5, <2>1
<1>9. IsFiniteSet(bad)
  BY <1>3, FS_Subset
<1> HIDE DEF bad
<1>10. at \in Bijection(bad, BadTexts(v, file))
  BY <1>6, <1>7, <1>8 DEF Bijection, Injection, Surjection, IsInjective
<1>11. Cardinality(BadTexts(v, file)) = Cardinality(bad)
  BY <1>9, <1>10, FS_Bijection DEF ExistsBijection
<1> QED
  BY <1>4, <1>11 DEF bad, D

LEMMA TextsAreKept ==
    ASSUME Sound, Phases, Progress, Accounting, Streamed
    PROVE  NoTextIsLost
<1> DEFINE file(v) == source.files[v]
           texts   == [v \in Venue |-> Texts(file(v))]
<1>1. Setup /\ source \in Input
  BY DEF Sound, Setup
<1>2. ASSUME NEW v \in Venue
      PROVE  /\ IsFiniteSet(Texts(file(v))) /\ Cardinality(Texts(file(v))) = taken[v]
             /\ Cardinality(BadTexts(v, file(v))) = Cardinality(NoEventOf(v))
  <2>1. /\ lines[v] = LinesFrom(source, v) /\ lines[v] \in Seq(LinesOf(v))
        /\ taken[v] = Len(lines[v])
    BY <1>1, SetupTypes, NothingWaits
  <2>2. file(v) \in Seq(Text) /\ \E place : Placed(v, file(v), lines[v], place)
    BY <1>1, <2>1, LinesArePlaced
  <2>3. PICK place : Placed(v, file(v), lines[v], place)
    BY <2>2
  <2>4. /\ IsFiniteSet(Texts(file(v))) /\ Cardinality(Texts(file(v))) = Len(lines[v])
        /\ Cardinality(BadTexts(v, file(v)))
              = Cardinality({k \in DOMAIN lines[v] : lines[v][k].parsed = Malformed})
    <3> HIDE DEF file
    <3> QED
      BY <2>1, <2>2, <2>3, LinesMatchTexts
  <2>5. {k \in DOMAIN lines[v] : lines[v][k].parsed = Malformed} = NoEventOf(v)
    BY <2>1 DEF NoEventOf
  <2> QED
    BY <2>1, <2>4, <2>5
<1>3. ASSUME NEW v \in Venue
      PROVE  /\ IsFiniteSet(TakenOf[v]) /\ IsFiniteSet(texts[v])
             /\ Cardinality(TakenOf[v]) = Cardinality(texts[v])
  <2>1. TakenOf[v] = 1 .. taken[v] /\ taken[v] \in Nat
    BY <1>1, SetupTypes, CountsAreFinite
  <2>2. IsFiniteSet(1 .. taken[v]) /\ Cardinality(1 .. taken[v]) = taken[v]
    BY <2>1, FS_Interval
  <2> QED
    BY <1>2, <2>1, <2>2
<1>4. Cardinality(Pairs(texts)) = arrivals
  <2> HIDE DEF texts
  <2>1. Cardinality(Pairs(TakenOf)) = Cardinality(Pairs(texts))
    BY <1>3, PairsOfOneSize
  <2> QED
    BY <2>1 DEF Progress
<1>5. arrivals = stats.accepted + stats.duplicates + stats.dead_lettered
  BY DEF Accounting
<1>6. Pairs(texts)
         = UNION {{v} \X {i \in DOMAIN source.files[v] : source.files[v][i] # Blank} : v \in Venue}
  BY DEF Pairs, Texts
<1>7. ASSUME NEW v \in Venue
      PROVE  Cardinality({i \in Letters("Malformed") : dead_letters[i].venue = v})
                = Cardinality({i \in {h \in DOMAIN source.files[v] : source.files[v][h] # Blank} :
                                  source.files[v][i] \notin RawEvent
                                  \/ source.files[v][i].venue # v})
  BY <1>2 DEF Progress, MalformedOf, BadTexts, Texts
<1> QED
  BY <1>4, <1>5, <1>6, <1>7 DEF NoTextIsLost

(* Every text of the files that is not blank is accepted, a repetition or  *)
(* quarantined, and each that is no event of its own venue is quarantined  *)
(* under it (stream.rs:75-92; lib.rs:64-71).                               *)
THEOREM TextsAreAccounted == PipelineSpec => []NoTextIsLost
<1>1. Sound /\ Phases /\ Progress /\ Accounting => NoTextIsLost
  <2>1. CASE Streamed
    BY <2>1, TextsAreKept
  <2>2. CASE ~Streamed
    BY <2>2 DEF NoTextIsLost
  <2> QED
    BY <2>1, <2>2
<1> QED
  BY <1>1, PipelineInductive, RunsTheIngester, NothingIsLost, PTL

-----------------------------------------------------------------------------
(* Seen from the keeper, the path is a keeper that is handed fills one     *)
(* after the other (common/mod.rs:49-59).                                  *)
THEOREM RunsTheKeeper == PipelineSpec => Keeper!Spec
<1>1. PipelineInit => Keeper!Init
  BY DEF PipelineInit
<1>2. Sound /\ [PipelineNext]_pvars => [Keeper!Next]_(Keeper!vars)
  <2> SUFFICES ASSUME Sound, [PipelineNext]_pvars
               PROVE  [Keeper!Next]_(Keeper!vars)
    OBVIOUS
  <2>1. CASE ApplyNext /\ Keeper!Apply(Published[applied + 1])
    <3>1. Published[applied + 1] \in Fill
      <4>1. Published \in Seq(Fill) /\ Len(Published) = Len(tape)
        BY PublishedTypes DEF Sound, IInv, TypeOK, Published
      <4>2. applied \in Nat
        BY DEF Sound, Setup
      <4> QED
        BY <2>1, <4>1, <4>2 DEF ApplyNext
    <3> QED
      BY <2>1, <3>1 DEF Keeper!Next
  <2>2. CASE UNCHANGED kvars
    BY <2>2 DEF kvars, Keeper!vars
  <2>3. (ApplyNext /\ Keeper!Apply(Published[applied + 1])) \/ UNCHANGED kvars
    BY DEF PipelineNext, Catch, CallDrain, CallFlush, Draining, ApplyNext, Finish, Ended, pvars
  <2> QED
    BY <2>1, <2>2, <2>3
<1> QED
  BY <1>1, <1>2, PipelineInductive, PTL DEF PipelineSpec, Keeper!Spec

-----------------------------------------------------------------------------
(* The keeper's instance computes what this module's own operators do. *)

LEMMA KeeperArithmetic ==
    /\ \A x : /\ Keeper!Abs(x) = Abs(x)
              /\ Keeper!Fits64(x) = Fits64(x) /\ Keeper!Fits128(x) = Fits128(x)
    /\ \A f : Keeper!Sign(f) = Sign(f)
    /\ \A x, y, z : Keeper!Notional(x, y, z) = Notional(x, y, z)
    /\ \A x, y : Keeper!DivRoundHalfEven(x, y) = DivRoundHalfEven(x, y)
    /\ Keeper!NoPrice = NoPrice
    /\ Keeper!Flat = Flat
BY Zenon DEF Keeper!Abs, Abs, Keeper!Fits64, Fits64, Keeper!Fits128, Fits128,
             Keeper!Sign, Sign, Keeper!Notional, Notional,
             Keeper!DivRoundHalfEven, DivRoundHalfEven,
             Keeper!NoPrice, NoPrice, Keeper!Flat, Flat

LEMMA KeeperValidates ==
    ASSUME NEW f
    PROVE  /\ Keeper!FillVerdict(f) = FillVerdict(f)
           /\ Keeper!Validated(f) = Validated(f)
           /\ Keeper!Scale(f) = Scale(f) /\ Keeper!PositionKey(f) = PositionKey(f)
<1>1. ASSUME NEW s
      PROVE  Keeper!FillError(f, s) = FillError(f, s)
  BY Zenon DEF Keeper!FillError, FillError, Keeper!PositiveSpec, PositiveSpec,
               Keeper!Full, Full, Keeper!Lowest, Lowest, Keeper!Highest, Highest,
               Keeper!Fits64, Fits64
<1>2. Keeper!FillVerdict(f) = FillVerdict(f)
  BY <1>1, Zenon DEF Keeper!FillVerdict, FillVerdict, Keeper!Lookup, Lookup,
                     Keeper!SpecOf, SpecOf
<1>3. Keeper!Validated(f) = Validated(f)
  BY <1>2, Zenon DEF Keeper!Validated, Validated
<1>4. Keeper!Scale(f) = Scale(f) /\ Keeper!PositionKey(f) = PositionKey(f)
  BY Zenon DEF Keeper!Lookup, Lookup, Keeper!SpecOf, SpecOf, Keeper!Scale, Scale,
               Keeper!PositionKey, PositionKey
<1> QED
  BY <1>2, <1>3, <1>4

LEMMA KeeperMoves ==
    ASSUME NEW p, NEW f, NEW m
    PROVE  /\ Keeper!After(p, f, m) = After(p, f, m)
           /\ Keeper!TransitionError(p, f, m) = TransitionError(p, f, m)
<1>1. /\ Keeper!SameDirection(p, f) = SameDirection(p, f)
      /\ Keeper!NewQty(p, f) = NewQty(p, f)
  BY Zenon DEF Keeper!SameDirection, SameDirection, Keeper!NewQty, NewQty, Keeper!Sign, Sign
<1>2. ASSUME NEW q
      PROVE  Keeper!ValidPosition(q) = ValidPosition(q)
  BY Zenon DEF Keeper!ValidPosition, ValidPosition, Keeper!NoPrice, NoPrice
<1>3. Keeper!Adding(p, f, m) = Adding(p, f, m)
  BY Zenon DEF Keeper!Adding, Adding, Keeper!Notional, Notional, Keeper!Sign, Sign
<1>4. Keeper!Closing(p, f, m) = Closing(p, f, m)
  BY Zenon DEF Keeper!Closing, Closing, Keeper!Notional, Notional, Keeper!Abs, Abs,
               Keeper!DivRoundHalfEven, DivRoundHalfEven, Keeper!Sign, Sign
<1>5. Keeper!Moved(p, f, m) = Moved(p, f, m)
  BY <1>1, <1>3, <1>4, Zenon DEF Keeper!Moved, Moved
<1>6. Keeper!After(p, f, m) = After(p, f, m)
  BY <1>1, <1>5, KeeperArithmetic, Zenon DEF Keeper!After, After
<1>7. Keeper!Overflows(p, f, m) = Overflows(p, f, m)
  BY <1>5, <1>6, KeeperArithmetic, Zenon DEF Keeper!Overflows, Overflows
<1>8. Keeper!TransitionError(p, f, m) = TransitionError(p, f, m)
  BY <1>2, <1>6, <1>7, Zenon DEF Keeper!TransitionError, TransitionError
<1> QED
  BY <1>6, <1>8

LEMMA KeeperBooks ==
    ASSUME NEW f
    PROVE  /\ Keeper!ApplyResult(f) = Answer(positions, f)
           /\ Keeper!Booked(positions, f) = Booked(positions, f)
<1>1. ASSUME NEW k
      PROVE  Keeper!HeldIn(positions, k) = HeldIn(positions, k)
  BY KeeperArithmetic, Zenon DEF Keeper!HeldIn, HeldIn
<1>2. Keeper!Answer(positions, f) = Answer(positions, f)
  BY <1>1, KeeperValidates, KeeperMoves, Zenon DEF Keeper!Answer, Answer
<1>3. Keeper!Booked(positions, f) = Booked(positions, f)
  BY <1>1, KeeperValidates, KeeperMoves, Zenon DEF Keeper!Booked, Booked
<1> QED
  BY <1>2, <1>3 DEF Keeper!ApplyResult

-----------------------------------------------------------------------------
(* Sums of the values of a function over a finite set, which the library   *)
(* computes by taking elements out one after the other.                    *)

FirstOf(S) == CHOOSE x \in S : TRUE

(* g gives the sum of f over every part of S. *)
Sums(g, f, S) ==
    /\ g[{}] = 0
    /\ \A T \in SUBSET S : T # {} => g[T] = f[FirstOf(T)] + g[T \ {FirstOf(T)}]

IsTable(g, f, S) ==
    g = [T \in SUBSET S |-> IF T = {} THEN 0 ELSE f[FirstOf(T)] + g[T \ {FirstOf(T)}]]

SumTable(f, S) == CHOOSE g : IsTable(g, f, S)

LEMMA SumFromTable ==
    ASSUME NEW f, NEW S
    PROVE  SumFunctionOnSet(f, S) = SumTable(f, S)[S]
BY DEF SumFunctionOnSet, FoldFunctionOnSet, MapThenFoldSet, SumTable, IsTable, FirstOf

LEMMA FirstIsTaken ==
    ASSUME NEW S, IsFiniteSet(S), NEW T \in SUBSET S, T # {}
    PROVE  /\ FirstOf(T) \in T /\ T \ {FirstOf(T)} \in SUBSET S
           /\ \A x \in T : /\ IsFiniteSet(T \ {x})
                           /\ Cardinality(T) \in Nat /\ Cardinality(T \ {x}) \in Nat
                           /\ Cardinality(T \ {x}) = Cardinality(T) - 1
<1>1. FirstOf(T) \in T
  BY DEF FirstOf
<1>2. IsFiniteSet(T) /\ Cardinality(T) \in Nat
  BY FS_Subset, FS_CardinalityType
<1>3. ASSUME NEW x \in T
      PROVE  /\ IsFiniteSet(T \ {x}) /\ Cardinality(T \ {x}) \in Nat
             /\ Cardinality(T \ {x}) = Cardinality(T) - 1
  BY <1>2, FS_RemoveElement, FS_CardinalityType
<1> QED
  BY <1>1, <1>2, <1>3

(* The recursion has a solution, built up by the number of elements. *)
LEMMA SumTableExists ==
    ASSUME NEW f, NEW S, IsFiniteSet(S)
    PROVE  \E g : IsTable(g, f, S)
<1> DEFINE Turn(g, T) == IF T = {} THEN 0 ELSE f[FirstOf(T)] + g[T \ {FirstOf(T)}]
           Upto(n)    == {T \in SUBSET S : Cardinality(T) <= n}
           Has(n)     == \E g : g = [T \in SUBSET S |-> g[T]]
                               /\ \A T \in Upto(n) : g[T] = Turn(g, T)
           N          == Cardinality(S)
           Bad        == {n \in 0 .. N : ~Has(n)}
<1>0. N \in Nat /\ \A T \in SUBSET S : Cardinality(T) \in Nat /\ Cardinality(T) <= N
  BY FS_CardinalityType, FS_Subset
<1>1. Has(N)
  <2> SUFFICES ASSUME Bad # {}
               PROVE  FALSE
    <3>1. N \in 0 .. N
      BY <1>0
    <3> HIDE DEF Has, N
    <3> QED
      BY <3>1
  <2>1. PICK x \in Bad : \A y \in Bad : x <= y
    <3>1. Bad \subseteq Nat
      BY <1>0
    <3> HIDE DEF Bad
    <3> QED
      BY <3>1, LeastOfNaturals
  <2>2. x # 0
    <3> DEFINE g == [T \in SUBSET S |-> 0]
    <3>1. \A T \in Upto(0) : T = {}
      BY <1>0, FS_EmptySet, FS_Subset
    <3>2. \A T \in Upto(0) : g[T] = Turn(g, T)
      BY <3>1
    <3>3. g = [T \in SUBSET S |-> g[T]]
      OBVIOUS
    <3> HIDE DEF g, Turn, Upto
    <3>4. Has(0)
      BY <3>2, <3>3
    <3> QED
      BY <3>4
  <2>3. x \in Nat /\ x - 1 \in 0 .. N /\ Has(x - 1)
    <3>1. x \in 0 .. N /\ ~Has(x)
      OBVIOUS
    <3>2. x \in Nat /\ x - 1 \in 0 .. N /\ ~(x <= x - 1)
      BY <1>0, <2>2, <3>1
    <3> HIDE DEF Has, N
    <3> QED
      BY <2>1, <3>2
  <2>4. PICK g : g = [T \in SUBSET S |-> g[T]]
                 /\ \A T \in Upto(x - 1) : g[T] = Turn(g, T)
    BY <2>3
  <2> DEFINE h == [T \in SUBSET S |-> Turn(g, T)]
  <2>5. ASSUME NEW T \in Upto(x), T # {}
        PROVE  h[T \ {FirstOf(T)}] = g[T \ {FirstOf(T)}]
    <3>1. T \in SUBSET S /\ T \ {FirstOf(T)} \in SUBSET S
          /\ Cardinality(T \ {FirstOf(T)}) \in Nat
          /\ Cardinality(T \ {FirstOf(T)}) = Cardinality(T) - 1
      BY <2>5, FirstIsTaken
    <3>2. T \ {FirstOf(T)} \in Upto(x - 1)
      <4>1. Cardinality(T) <= x /\ Cardinality(T) \in Nat
        BY <1>0, <3>1
      <4> QED
        BY <2>3, <3>1, <4>1
    <3>3. g[T \ {FirstOf(T)}] = Turn(g, T \ {FirstOf(T)})
      BY <2>4, <3>2
    <3> HIDE DEF Turn
    <3> QED
      BY <3>1, <3>3
  <2>6. ASSUME NEW T \in Upto(x)
        PROVE  h[T] = Turn(h, T)
    <3>1. h[T] = Turn(g, T)
      OBVIOUS
    <3> HIDE DEF h
    <3> QED
      BY <2>5, <2>6, <3>1
  <2>7. h = [T \in SUBSET S |-> h[T]]
    OBVIOUS
  <2> HIDE DEF h, Turn, Upto
  <2>8. Has(x)
    BY <2>6, <2>7
  <2> QED
    BY <2>8
<1>2. PICK g : g = [T \in SUBSET S |-> g[T]] /\ \A T \in Upto(N) : g[T] = Turn(g, T)
  BY <1>1
<1>3. \A T \in SUBSET S : g[T] = Turn(g, T)
  BY <1>0, <1>2
<1>4. g = [T \in SUBSET S |-> Turn(g, T)]
  <2> HIDE DEF Turn
  <2> QED
    BY <1>2, <1>3
<1>5. IsTable(g, f, S)
  BY <1>4 DEF IsTable
<1> QED
  BY <1>5

LEMMA TableSums ==
    ASSUME NEW f, NEW S, IsFiniteSet(S)
    PROVE  Sums(SumTable(f, S), f, S)
<1> DEFINE g == SumTable(f, S)
<1>1. IsTable(g, f, S)
  BY SumTableExists DEF SumTable
<1>2. g = [T \in SUBSET S |-> IF T = {} THEN 0 ELSE f[FirstOf(T)] + g[T \ {FirstOf(T)}]]
  BY <1>1 DEF IsTable
<1> HIDE DEF g
<1>3. g[{}] = 0
  <2>1. {} \in SUBSET S
    OBVIOUS
  <2> QED
    BY <1>2, <2>1
<1>4. ASSUME NEW T \in SUBSET S, T # {}
      PROVE  g[T] = f[FirstOf(T)] + g[T \ {FirstOf(T)}]
  BY <1>2, <1>4
<1> QED
  BY <1>3, <1>4 DEF Sums, g

(* Among some parts of a finite set one is smallest. *)
LEMMA SmallestPart ==
    ASSUME NEW S, IsFiniteSet(S), NEW P, P \subseteq SUBSET S, P # {}
    PROVE  \E T \in P : \A U \in P : Cardinality(T) <= Cardinality(U)
<1> DEFINE sizes == {Cardinality(T) : T \in P}
<1>1. sizes \subseteq Nat /\ sizes # {}
  BY FS_Subset, FS_CardinalityType
<1> HIDE DEF sizes
<1>2. PICK n \in sizes : \A m \in sizes : n <= m
  BY <1>1, LeastOfNaturals
<1> QED
  BY <1>2 DEF sizes

LEMMA SumsAreUnique ==
    ASSUME NEW f, NEW g, NEW h, NEW S, IsFiniteSet(S), Sums(g, f, S), Sums(h, f, S)
    PROVE  \A T \in SUBSET S : g[T] = h[T]
<1> DEFINE Bad == {T \in SUBSET S : g[T] # h[T]}
<1> SUFFICES ASSUME Bad # {}
             PROVE  FALSE
  OBVIOUS
<1>1. PICK T \in Bad : \A U \in Bad : Cardinality(T) <= Cardinality(U)
  <2>1. Bad \subseteq SUBSET S
    OBVIOUS
  <2> HIDE DEF Bad
  <2> QED
    BY <2>1, SmallestPart
<1>2. T # {} /\ T \in SUBSET S /\ g[T] # h[T]
  <2>1. g[{}] = h[{}]
    BY DEF Sums
  <2> QED
    BY <2>1
<1> DEFINE U == T \ {FirstOf(T)}
<1>3. /\ U \in SUBSET S /\ Cardinality(U) \in Nat /\ Cardinality(T) \in Nat
      /\ Cardinality(U) = Cardinality(T) - 1
  BY <1>2, FirstIsTaken
<1>4. g[T] = f[FirstOf(T)] + g[U] /\ h[T] = f[FirstOf(T)] + h[U]
  BY <1>2 DEF Sums
<1> HIDE DEF U
<1>5. ~(Cardinality(T) <= Cardinality(U))
  BY <1>3
<1>6. g[U] = h[U]
  BY <1>1, <1>3, <1>5
<1> QED
  BY <1>4, <1>6

(* Any element may be taken out first. *)
LEMMA SumsTakeOut ==
    ASSUME NEW S, IsFiniteSet(S), NEW f, \A x \in S : f[x] \in Int, NEW g, Sums(g, f, S)
    PROVE  /\ \A T \in SUBSET S : g[T] \in Int
           /\ \A T \in SUBSET S : \A x \in T : g[T] = f[x] + g[T \ {x}]
<1> DEFINE Good(T) == g[T] \in Int /\ \A x \in T : g[T] = f[x] + g[T \ {x}]
           Bad     == {T \in SUBSET S : ~Good(T)}
<1> SUFFICES ASSUME Bad # {}
             PROVE  FALSE
  OBVIOUS
<1>1. PICK T \in Bad : \A U \in Bad : Cardinality(T) <= Cardinality(U)
  <2>1. Bad \subseteq SUBSET S
    OBVIOUS
  <2> HIDE DEF Bad
  <2> QED
    BY <2>1, SmallestPart
<1>2. T # {} /\ T \in SUBSET S
  <2>1. g[{}] = 0 /\ {} \in SUBSET S
    BY DEF Sums
  <2>2. Good({})
    BY <2>1
  <2>3. T \in SUBSET S /\ ~Good(T)
    OBVIOUS
  <2> HIDE DEF Good
  <2> QED
    BY <2>2, <2>3
<1>3. ASSUME NEW U, U \subseteq T, U # T
      PROVE  Good(U)
  <2>1. U \in SUBSET S /\ IsFiniteSet(T)
    BY <1>2, <1>3, FS_Subset
  <2>2. /\ Cardinality(U) \in Nat /\ Cardinality(T) \in Nat
        /\ Cardinality(U) < Cardinality(T)
    BY <1>3, <2>1, FS_Subset, FS_CardinalityType
  <2>3. ~(Cardinality(T) <= Cardinality(U))
    BY <2>2
  <2> HIDE DEF Good
  <2> QED
    BY <1>1, <2>1, <2>3
<1> DEFINE c == FirstOf(T)
<1>4. c \in T /\ g[T] = f[c] + g[T \ {c}]
  BY <1>2, FirstIsTaken DEF Sums
<1> HIDE DEF c
<1>5. f[c] \in Int /\ g[T \ {c}] \in Int /\ g[T] \in Int
  <2>1. f[c] \in Int
    BY <1>2, <1>4
  <2>2. T \ {c} \subseteq T /\ T \ {c} # T
    BY <1>4
  <2>3. g[T \ {c}] \in Int
    BY <1>3, <2>2
  <2> QED
    BY <1>4, <2>1, <2>3
<1>6. ASSUME NEW x \in T
      PROVE  g[T] = f[x] + g[T \ {x}]
  <2>1. CASE x = c
    BY <1>4, <2>1
  <2>2. CASE x # c
    <3> DEFINE V == (T \ {c}) \ {x}
    <3>1. /\ V = (T \ {x}) \ {c} /\ x \in T \ {c} /\ c \in T \ {x}
          /\ T \ {c} \subseteq T /\ T \ {c} # T /\ T \ {x} \subseteq T /\ T \ {x} # T
          /\ V \subseteq T /\ V # T
      BY <1>4, <2>2
    <3> HIDE DEF V
    <3>2. g[T \ {c}] = f[x] + g[(T \ {c}) \ {x}]
      BY <1>3, <3>1
    <3>3. g[T \ {x}] = f[c] + g[(T \ {x}) \ {c}]
      BY <1>3, <3>1
    <3>4. g[V] \in Int
      BY <1>3, <3>1
    <3>5. f[x] \in Int
      BY <1>2
    <3>6. g[T \ {c}] = f[x] + g[V] /\ g[T \ {x}] = f[c] + g[V]
      BY <3>1, <3>2, <3>3 DEF V
    <3> QED
      BY <1>4, <1>5, <3>4, <3>5, <3>6
  <2> QED
    BY <2>1, <2>2
<1>7. Good(T)
  BY <1>5, <1>6
<1> HIDE DEF Good
<1> QED
  BY <1>7

LEMMA SumTakeOut ==
    ASSUME NEW S, IsFiniteSet(S), NEW f, \A y \in S : f[y] \in Int
    PROVE  /\ SumFunctionOnSet(f, S) \in Int
           /\ \A x \in S : /\ SumFunctionOnSet(f, S \ {x}) \in Int
                           /\ SumFunctionOnSet(f, S) = f[x] + SumFunctionOnSet(f, S \ {x})
<1> DEFINE g == SumTable(f, S)
<1>1. Sums(g, f, S)
  BY TableSums
<1>2. ASSUME NEW T \in SUBSET S
      PROVE  SumFunctionOnSet(f, T) = g[T]
  <2> DEFINE h == SumTable(f, T)
  <2>1. IsFiniteSet(T) /\ T \in SUBSET T
    BY FS_Subset
  <2>2. Sums(h, f, T)
    BY <2>1, TableSums
  <2> HIDE DEF g, h
  <2>3. Sums(g, f, T)
    BY <1>1 DEF Sums
  <2>4. g[T] = h[T]
    BY <2>1, <2>2, <2>3, SumsAreUnique
  <2> QED
    BY <2>4, SumFromTable DEF h
<1> HIDE DEF g
<1>3. /\ \A T \in SUBSET S : g[T] \in Int
      /\ \A T \in SUBSET S : \A x \in T : g[T] = f[x] + g[T \ {x}]
  BY <1>1, SumsTakeOut
<1>4. S \in SUBSET S /\ \A x \in S : S \ {x} \in SUBSET S
  OBVIOUS
<1>5. g[S] \in Int /\ \A x \in S : g[S] = f[x] + g[S \ {x}] /\ g[S \ {x}] \in Int
  BY <1>3, <1>4
<1>6. SumFunctionOnSet(f, S) = g[S]
  BY <1>2, <1>4
<1>7. \A x \in S : SumFunctionOnSet(f, S \ {x}) = g[S \ {x}]
  BY <1>2, <1>4
<1> QED
  BY <1>5, <1>6, <1>7

LEMMA SumOfNothing == \A f : SumFunctionOnSet(f, {}) = 0
<1> SUFFICES ASSUME NEW f
             PROVE  SumFunctionOnSet(f, {}) = 0
  OBVIOUS
<1>1. Sums(SumTable(f, {}), f, {})
  BY FS_EmptySet, TableSums
<1> QED
  BY <1>1, SumFromTable DEF Sums

LEMMA SumOfZeros ==
    ASSUME NEW S, IsFiniteSet(S)
    PROVE  SumFunctionOnSet([x \in S |-> 0], S) = 0
<1> DEFINE f == [x \in S |-> 0]
           g == SumTable(f, S)
           Bad == {T \in SUBSET S : g[T] # 0}
<1>1. Sums(g, f, S) /\ S \in SUBSET S
  BY TableSums
<1>2. g[S] = SumFunctionOnSet(f, S)
  BY SumFromTable
<1> HIDE DEF g
<1>3. Bad = {}
  <2> SUFFICES ASSUME Bad # {}
               PROVE  FALSE
    OBVIOUS
  <2>1. PICK T \in Bad : \A U \in Bad : Cardinality(T) <= Cardinality(U)
    <3>1. Bad \subseteq SUBSET S
      OBVIOUS
    <3> HIDE DEF Bad
    <3> QED
      BY <3>1, SmallestPart
  <2>2. T # {} /\ T \in SUBSET S
    BY <1>1 DEF Sums
  <2> DEFINE U == T \ {FirstOf(T)}
  <2>3. /\ FirstOf(T) \in S /\ U \in SUBSET S
        /\ Cardinality(U) \in Nat /\ Cardinality(T) \in Nat
        /\ Cardinality(U) = Cardinality(T) - 1
    BY <2>2, FirstIsTaken
  <2>4. g[T] = f[FirstOf(T)] + g[U] /\ f[FirstOf(T)] = 0
    BY <1>1, <2>2, <2>3 DEF Sums
  <2> HIDE DEF U
  <2>5. ~(Cardinality(T) <= Cardinality(U))
    BY <2>3
  <2>6. g[U] = 0
    BY <2>1, <2>3, <2>5
  <2> QED
    BY <2>4, <2>6
<1> QED
  BY <1>1, <1>2, <1>3

(* Only the values on the set matter. *)
LEMMA SumAgrees ==
    ASSUME NEW S, IsFiniteSet(S), NEW f, NEW h, \A x \in S : f[x] = h[x]
    PROVE  SumFunctionOnSet(f, S) = SumFunctionOnSet(h, S)
<1>1. Sums(SumTable(f, S), f, S) /\ Sums(SumTable(h, S), h, S)
  BY TableSums
<1>2. Sums(SumTable(f, S), h, S)
  <2>1. \A T \in SUBSET S : T # {} => FirstOf(T) \in S
    BY FirstIsTaken
  <2> QED
    BY <1>1, <2>1 DEF Sums
<1>3. S \in SUBSET S
  OBVIOUS
<1>4. SumTable(f, S)[S] = SumTable(h, S)[S]
  BY <1>1, <1>2, <1>3, SumsAreUnique
<1> QED
  BY <1>4, SumFromTable

(* One value changes; one is new. *)
LEMMA SumReplaced ==
    ASSUME NEW S, IsFiniteSet(S), NEW f, \A y \in S : f[y] \in Int,
           NEW x \in S, NEW h, h[x] \in Int, \A y \in S : y # x => h[y] = f[y]
    PROVE  /\ SumFunctionOnSet(f, S) \in Int
           /\ SumFunctionOnSet(h, S) = SumFunctionOnSet(f, S) + (h[x] - f[x])
<1> DEFINE R == S \ {x}
<1>1. IsFiniteSet(R) /\ \A y \in R : f[y] = h[y]
  BY FS_Subset
<1>2. \A y \in S : h[y] \in Int
  OBVIOUS
<1>3. SumFunctionOnSet(f, R) = SumFunctionOnSet(h, R)
  <2> HIDE DEF R
  <2> QED
    BY <1>1, SumAgrees
<1>4. /\ SumFunctionOnSet(f, S) \in Int /\ SumFunctionOnSet(f, R) \in Int
      /\ SumFunctionOnSet(f, S) = f[x] + SumFunctionOnSet(f, R)
  BY SumTakeOut
<1>5. SumFunctionOnSet(h, S) = h[x] + SumFunctionOnSet(h, R)
  BY <1>2, SumTakeOut
<1>6. f[x] \in Int
  OBVIOUS
<1> HIDE DEF R
<1> QED
  BY <1>3, <1>4, <1>5, <1>6

LEMMA SumAdded ==
    ASSUME NEW S, IsFiniteSet(S), NEW f, \A y \in S : f[y] \in Int,
           NEW x, x \notin S, NEW h, h[x] \in Int, \A y \in S : h[y] = f[y]
    PROVE  /\ SumFunctionOnSet(f, S) \in Int
           /\ SumFunctionOnSet(h, S \cup {x}) = SumFunctionOnSet(f, S) + h[x]
<1> DEFINE T == S \cup {x}
<1>1. IsFiniteSet(T) /\ T \ {x} = S /\ x \in T /\ \A y \in T : h[y] \in Int
  BY FS_AddElement
<1> HIDE DEF T
<1>2. SumFunctionOnSet(f, S) = SumFunctionOnSet(h, S)
  BY SumAgrees
<1>3. SumFunctionOnSet(f, S) \in Int
  BY SumTakeOut
<1>4. SumFunctionOnSet(h, T) = h[x] + SumFunctionOnSet(h, T \ {x})
  BY <1>1, SumTakeOut
<1>5. SumFunctionOnSet(h, T \ {x}) = SumFunctionOnSet(f, S)
  BY <1>1, <1>2
<1>6. SumFunctionOnSet(h, T) = SumFunctionOnSet(f, S) + h[x]
  BY <1>3, <1>4, <1>5
<1> QED
  BY <1>3, <1>6 DEF T

(* Sums over a list. *)
LEMMA SumAppended ==
    ASSUME NEW n \in Nat, NEW f, \A i \in 1 .. n : f[i] \in Int,
           NEW h, h[n + 1] \in Int, \A i \in 1 .. n : h[i] = f[i]
    PROVE  /\ SumFunctionOnSet(f, 1 .. n) \in Int
           /\ SumFunctionOnSet(h, 1 .. n + 1) = SumFunctionOnSet(f, 1 .. n) + h[n + 1]
<1>1. IsFiniteSet(1 .. n)
  <2>1. 1 \in Int /\ n \in Int
    OBVIOUS
  <2> QED
    BY <2>1, FS_Interval
<1> DEFINE S == 1 .. n
           T == 1 .. n + 1
           x == n + 1
<1>2. /\ T \ {x} = S /\ x \in T /\ IsFiniteSet(S)
      /\ h[x] \in Int /\ \A y \in S : f[y] \in Int /\ f[y] = h[y]
      /\ \A y \in T : h[y] \in Int
  <2>1. \A y \in T : y \in S \/ y = x
    OBVIOUS
  <2> QED
    BY <1>1, <2>1
<1>3. IsFiniteSet(T)
  <2>1. 1 \in Int /\ x \in Int
    OBVIOUS
  <2> HIDE DEF x
  <2> QED
    BY <2>1, FS_Interval
<1> HIDE DEF S, T, x
<1>4. SumFunctionOnSet(f, S) = SumFunctionOnSet(h, S)
  BY <1>2, SumAgrees
<1>5. /\ SumFunctionOnSet(h, T \ {x}) \in Int
      /\ SumFunctionOnSet(h, T) = h[x] + SumFunctionOnSet(h, T \ {x})
  BY <1>2, <1>3, SumTakeOut
<1>6. /\ SumFunctionOnSet(f, S) \in Int
      /\ SumFunctionOnSet(h, T) = SumFunctionOnSet(f, S) + h[x]
  BY <1>2, <1>4, <1>5
<1> QED
  BY <1>6 DEF S, T, x
-----------------------------------------------------------------------------
(* The books of a list of fills. *)

IsBooks(books, fills) ==
    books = [n \in 0 .. Len(fills) |->
               IF n = 0 THEN NoBooks ELSE Booked(books[n - 1], fills[n])]

BooksTable(fills) == CHOOSE books : IsBooks(books, fills)

LEMMA BooksFromTable ==
    ASSUME NEW fills
    PROVE  BooksAfter(fills) = BooksTable(fills)[Len(fills)]
BY DEF BooksAfter, BooksTable, IsBooks

LEMMA BooksTableExists ==
    ASSUME NEW fills, Len(fills) \in Nat
    PROVE  \E books : IsBooks(books, fills)
<1> DEFINE N == Len(fills)
           Turn(b, n) == IF n = 0 THEN NoBooks ELSE Booked(b[n - 1], fills[n])
           Has(m) == \E b : b = [n \in 0 .. N |-> b[n]] /\ \A n \in 0 .. m : b[n] = Turn(b, n)
           Bad    == {m \in 0 .. N : ~Has(m)}
<1>1. Has(N)
  <2> SUFFICES ASSUME Bad # {}
               PROVE  FALSE
    <3>1. N \in 0 .. N
      OBVIOUS
    <3> HIDE DEF Has, N
    <3> QED
      BY <3>1
  <2>1. PICK x \in Bad : \A y \in Bad : x <= y
    <3>1. Bad \subseteq Nat
      OBVIOUS
    <3> HIDE DEF Bad
    <3> QED
      BY <3>1, LeastOfNaturals
  <2>2. x # 0
    <3> DEFINE b == [n \in 0 .. N |-> NoBooks]
    <3>1. \A n \in 0 .. 0 : b[n] = Turn(b, n)
      OBVIOUS
    <3>2. b = [n \in 0 .. N |-> b[n]]
      OBVIOUS
    <3> HIDE DEF b, Turn
    <3>3. Has(0)
      BY <3>1, <3>2
    <3> QED
      BY <3>3
  <2>3. x \in 1 .. N /\ Has(x - 1)
    <3>1. x \in 0 .. N /\ ~Has(x)
      OBVIOUS
    <3>2. x \in 1 .. N /\ x - 1 \in 0 .. N /\ ~(x <= x - 1)
      BY <2>2, <3>1
    <3> HIDE DEF Has, N
    <3> QED
      BY <2>1, <3>2
  <2>4. PICK b : b = [n \in 0 .. N |-> b[n]] /\ \A n \in 0 .. x - 1 : b[n] = Turn(b, n)
    BY <2>3
  <2> DEFINE c == [n \in 0 .. N |-> IF n = x THEN Booked(b[x - 1], fills[x]) ELSE b[n]]
  <2>5. ASSUME NEW n \in 0 .. x
        PROVE  c[n] = Turn(c, n)
    <3>1. CASE n = x
      <4>1. c[n] = Booked(b[x - 1], fills[x]) /\ c[x - 1] = b[x - 1] /\ n # 0
        BY <2>3, <3>1
      <4> HIDE DEF c
      <4> QED
        BY <3>1, <4>1
    <3>2. CASE n # x
      <4>1. n \in 0 .. x - 1 /\ c[n] = b[n] /\ (n # 0 => c[n - 1] = b[n - 1])
        BY <2>3, <3>2
      <4>2. b[n] = Turn(b, n)
        BY <2>4, <4>1
      <4> HIDE DEF c
      <4> QED
        BY <4>1, <4>2
    <3> QED
      BY <3>1, <3>2
  <2>6. c = [n \in 0 .. N |-> c[n]]
    OBVIOUS
  <2> HIDE DEF c, Turn
  <2>7. Has(x)
    BY <2>5, <2>6
  <2> QED
    BY <2>7
<1>2. PICK b : b = [n \in 0 .. N |-> b[n]] /\ \A n \in 0 .. N : b[n] = Turn(b, n)
  BY <1>1
<1>3. b = [n \in 0 .. N |-> Turn(b, n)]
  <2> HIDE DEF Turn
  <2> QED
    BY <1>2
<1>4. IsBooks(b, fills)
  BY <1>3 DEF IsBooks
<1> QED
  BY <1>4

LEMMA BooksTableIs ==
    ASSUME NEW fills, Len(fills) \in Nat
    PROVE  /\ BooksTable(fills)[0] = NoBooks
           /\ \A n \in 1 .. Len(fills) :
                 BooksTable(fills)[n] = Booked(BooksTable(fills)[n - 1], fills[n])
<1> DEFINE b == BooksTable(fills)
<1>1. IsBooks(b, fills)
  BY BooksTableExists DEF BooksTable
<1>2. b = [n \in 0 .. Len(fills) |->
             IF n = 0 THEN NoBooks ELSE Booked(b[n - 1], fills[n])]
  BY <1>1 DEF IsBooks
<1> HIDE DEF b
<1>3. 0 \in 0 .. Len(fills) /\ \A n \in 1 .. Len(fills) : n \in 0 .. Len(fills) /\ n # 0
  OBVIOUS
<1> QED
  BY <1>2, <1>3 DEF b

LEMMA BooksOfNothing == BooksAfter(<< >>) = NoBooks
<1>1. Len(<< >>) = 0
  OBVIOUS
<1> QED
  BY <1>1, BooksFromTable, BooksTableIs

LEMMA BooksNext ==
    ASSUME NEW T, NEW fills \in Seq(T), NEW f \in T
    PROVE  BooksAfter(Append(fills, f)) = Booked(BooksAfter(fills), f)
<1> DEFINE more == Append(fills, f)
           n == Len(fills)
           a == BooksTable(fills)
           b == BooksTable(more)
           Bad == {i \in 0 .. n : a[i] # b[i]}
<1>1. /\ n \in Nat /\ Len(more) = n + 1 /\ more[n + 1] = f
      /\ \A i \in 1 .. n : more[i] = fills[i]
  OBVIOUS
<1>2. a[0] = NoBooks /\ \A i \in 1 .. n : a[i] = Booked(a[i - 1], fills[i])
  BY <1>1, BooksTableIs
<1>3. b[0] = NoBooks /\ \A i \in 1 .. n + 1 : b[i] = Booked(b[i - 1], more[i])
  <2> HIDE DEF more, n
  <2>1. Len(more) \in Nat
    BY <1>1
  <2> QED
    BY <1>1, <2>1, BooksTableIs
<1> HIDE DEF a, b, more, n
<1>4. Bad = {}
  <2> SUFFICES ASSUME Bad # {}
               PROVE  FALSE
    OBVIOUS
  <2>1. PICK x \in Bad : \A y \in Bad : x <= y
    <3>1. Bad \subseteq Nat
      BY <1>1
    <3> HIDE DEF Bad
    <3> QED
      BY <3>1, LeastOfNaturals
  <2>2. x \in 1 .. n /\ x \in 1 .. n + 1 /\ x - 1 \in 0 .. n /\ ~(x <= x - 1)
    BY <1>1, <1>2, <1>3
  <2>3. a[x - 1] = b[x - 1]
    BY <2>1, <2>2
  <2> QED
    BY <1>1, <1>2, <1>3, <2>2, <2>3
<1>5. n \in 0 .. n /\ n + 1 \in 1 .. n + 1 /\ n + 1 - 1 = n
  BY <1>1
<1>6. a[n] = b[n]
  BY <1>4, <1>5
<1>7. b[n + 1] = Booked(a[n], f)
  BY <1>1, <1>3, <1>5, <1>6
<1>8. BooksAfter(more) = b[n + 1] /\ BooksAfter(fills) = a[n]
  BY <1>1, BooksFromTable DEF a, b, n
<1> QED
  BY <1>7, <1>8 DEF more

-----------------------------------------------------------------------------
(* What a fill does to the sums over the books. *)

SpentIn(books) == SumFunction([k \in DOMAIN books |-> Spent(books[k])])

FeesIn(books) == SumFunction([k \in DOMAIN books |-> books[k].fees])

ValidFill == {f \in Fill : Validated(f)}

LEMMA ValidFillTypes ==
    ASSUME NEW f \in ValidFill
    PROVE  /\ f \in Fill /\ FitsFill(f) /\ Validated(f) /\ f.venue \in Venue
           /\ Paid(f) \in Int /\ f.fee \in Int
<1>1. f \in Fill /\ FitsFill(f) /\ Validated(f) /\ f.venue \in Venue
  BY FillWidthAssumption, FillAssumption DEF ValidFill
<1>2. /\ f.price \in Int /\ f.qty \in Int /\ f.fee \in Int /\ Scale(f) \in Int
      /\ Sign(f) \in {1, -1}
  BY <1>1, ValidatedFill DEF Sign
<1>3. Notional(f.price, f.qty, Scale(f)) \in Int
  BY <1>2, NotionalType
<1> QED
  BY <1>1, <1>2, <1>3 DEF Paid

LEMMA SpentType ==
    ASSUME NEW p \in Position
    PROVE  Spent(p) \in Int /\ p.fees \in Int /\ Spent(Flat) = 0 /\ Flat.fees = 0
BY DEF Spent, Position, Flat

LEMMA AfterSpends ==
    ASSUME NEW p \in Position, NEW f \in ValidFill, ValidPosition(p)
    PROVE  /\ Spent(After(p, f, Scale(f))) = Spent(p) + Paid(f)
           /\ After(p, f, Scale(f)).fees = p.fees + f.fee
<1> DEFINE m     == Scale(f)
           moved == Moved(p, f, m)
           qty   == NewQty(p, f)
           whole == Notional(f.price, f.qty, m)
<1>1. /\ f.price \in Int /\ f.qty \in Int /\ f.qty > 0 /\ f.side \in {"Buy", "Sell"}
      /\ m \in Int /\ Paid(f) = Sign(f) * whole /\ Paid(f) \in Int
  BY ValidFillTypes, ValidatedFill DEF Paid
<1>2. p.net_qty = 0 => p.open_cost = 0
  BY DEF ValidPosition
<1>3. /\ After(p, f, m).net_qty = qty /\ After(p, f, m).open_cost = moved.cost
      /\ After(p, f, m).realized_pnl = p.realized_pnl + moved.realized
      /\ After(p, f, m).fees = p.fees + f.fee
  BY DEF After
<1>4. p.net_qty \in Int /\ p.open_cost \in Int /\ p.realized_pnl \in Int
  BY DEF Position
<1> HIDE DEF m
<1>5. /\ moved.cost \in Int /\ moved.realized \in Int /\ qty \in Int
      /\ (IF qty < 0 THEN (p.realized_pnl + moved.realized) + moved.cost
                     ELSE (p.realized_pnl + moved.realized) - moved.cost)
            = (IF p.net_qty < 0 THEN p.realized_pnl + p.open_cost
                                ELSE p.realized_pnl - p.open_cost) - Sign(f) * whole
  BY <1>1, <1>2, MoveConserves
<1> HIDE DEF moved, qty, whole
<1>6. Spent(After(p, f, m)) = (IF qty < 0 THEN -moved.cost ELSE moved.cost)
                                 - (p.realized_pnl + moved.realized)
  BY <1>3 DEF Spent
<1>7. Spent(p) = (IF p.net_qty < 0 THEN -p.open_cost ELSE p.open_cost) - p.realized_pnl
  BY DEF Spent
<1>8. Spent(After(p, f, m)) = Spent(p) + Paid(f)
  BY <1>1, <1>4, <1>5, <1>6, <1>7
<1> QED
  BY <1>3, <1>8 DEF m

LEMMA BookedSums ==
    ASSUME NEW books, WellFormed(books), IsFiniteSet(DOMAIN books),
           NEW f \in ValidFill, Answer(books, f) = "Ok"
    PROVE  /\ IsFiniteSet(DOMAIN Booked(books, f))
           /\ SpentIn(Booked(books, f)) = SpentIn(books) + Paid(f)
           /\ FeesIn(Booked(books, f)) = FeesIn(books) + f.fee
           /\ SpentIn(books) \in Int /\ FeesIn(books) \in Int
<1> DEFINE S     == DOMAIN books
           x     == PositionKey(f)
           next  == Booked(books, f)
           held  == HeldIn(books, x)
           spent == [k \in S |-> Spent(books[k])]
           fees  == [k \in S |-> books[k].fees]
           Spent1 == [k \in S \cup {x} |-> Spent(next[k])]
           Fees1  == [k \in S \cup {x} |-> next[k].fees]
<1>1. /\ FitsFill(f) /\ Validated(f) /\ ValidPosition(held)
      /\ held \in Position /\ Paid(f) \in Int /\ f.fee \in Int
  BY ValidFillTypes, AcceptedFill, HeldType
<1>2. /\ DOMAIN next = S \cup {x}
      /\ next[x] = After(held, f, Scale(f))
      /\ \A k \in S \ {x} : next[k] = books[k]
  BY DEF Booked
<1>3. /\ Spent(next[x]) = Spent(held) + Paid(f) /\ next[x].fees = held.fees + f.fee
      /\ Spent(held) \in Int /\ held.fees \in Int
  <2> HIDE DEF held, next, x
  <2> QED
    BY <1>1, <1>2, AfterSpends, SpentType
<1>4. \A k \in S : books[k] \in Position /\ spent[k] \in Int /\ fees[k] \in Int
  BY SpentType DEF WellFormed
<1>5. /\ Spent(held) = (IF x \in S THEN spent[x] ELSE 0)
      /\ held.fees = (IF x \in S THEN fees[x] ELSE 0)
  <2>1. CASE x \in S
    BY <2>1 DEF HeldIn
  <2>2. CASE x \notin S
    BY <1>1, <2>2, SpentType DEF HeldIn
  <2> QED
    BY <2>1, <2>2
<1>6. /\ Spent1[x] = Spent(next[x]) /\ \A k \in S \ {x} : Spent1[k] = spent[k]
      /\ Fees1[x] = next[x].fees /\ \A k \in S \ {x} : Fees1[k] = fees[k]
  <2> HIDE DEF next, x
  <2> QED
    BY <1>2
<1>7. /\ SpentIn(books) = SumFunctionOnSet(spent, S)
      /\ FeesIn(books) = SumFunctionOnSet(fees, S)
      /\ SpentIn(next) = SumFunctionOnSet(Spent1, S \cup {x})
      /\ FeesIn(next) = SumFunctionOnSet(Fees1, S \cup {x})
  <2> HIDE DEF next, x
  <2> QED
    BY <1>2 DEF SpentIn, FeesIn, SumFunction
<1> HIDE DEF S, x, next, held, spent, fees, Spent1, Fees1
<1>8. IsFiniteSet(S) /\ IsFiniteSet(S \cup {x})
  BY FS_AddElement DEF S
<1>9. /\ SumFunctionOnSet(spent, S) \in Int
      /\ SumFunctionOnSet(Spent1, S \cup {x})
            = SumFunctionOnSet(spent, S) + (Spent1[x] - Spent(held))
  <2>1. /\ Spent1[x] \in Int /\ \A k \in S : spent[k] \in Int
        /\ \A k \in S : k # x => Spent1[k] = spent[k]
    BY <1>1, <1>3, <1>4, <1>6
  <2>2. CASE x \in S
    <3>1. S \cup {x} = S /\ Spent(held) = spent[x]
      BY <1>5, <2>2
    <3>2. /\ SumFunctionOnSet(spent, S) \in Int
          /\ SumFunctionOnSet(Spent1, S) = SumFunctionOnSet(spent, S) + (Spent1[x] - spent[x])
      BY <1>8, <2>1, <2>2, SumReplaced
    <3> QED
      BY <3>1, <3>2
  <2>3. CASE x \notin S
    <3>1. /\ SumFunctionOnSet(spent, S) \in Int
          /\ SumFunctionOnSet(Spent1, S \cup {x}) = SumFunctionOnSet(spent, S) + Spent1[x]
      BY <1>8, <2>1, <2>3, SumAdded
    <3> QED
      BY <1>5, <2>1, <2>3, <3>1
  <2> QED
    BY <2>2, <2>3
<1>10. /\ SumFunctionOnSet(fees, S) \in Int
       /\ SumFunctionOnSet(Fees1, S \cup {x})
             = SumFunctionOnSet(fees, S) + (Fees1[x] - held.fees)
  <2>1. /\ Fees1[x] \in Int /\ \A k \in S : fees[k] \in Int
        /\ \A k \in S : k # x => Fees1[k] = fees[k]
    BY <1>1, <1>3, <1>4, <1>6
  <2>2. CASE x \in S
    <3>1. S \cup {x} = S /\ held.fees = fees[x]
      BY <1>5, <2>2
    <3>2. /\ SumFunctionOnSet(fees, S) \in Int
          /\ SumFunctionOnSet(Fees1, S) = SumFunctionOnSet(fees, S) + (Fees1[x] - fees[x])
      BY <1>8, <2>1, <2>2, SumReplaced
    <3> QED
      BY <3>1, <3>2
  <2>3. CASE x \notin S
    <3>1. /\ SumFunctionOnSet(fees, S) \in Int
          /\ SumFunctionOnSet(Fees1, S \cup {x}) = SumFunctionOnSet(fees, S) + Fees1[x]
      BY <1>8, <2>1, <2>3, SumAdded
    <3> QED
      BY <1>5, <2>1, <2>3, <3>1
  <2> QED
    BY <2>2, <2>3
<1>11. SpentIn(next) = SpentIn(books) + Paid(f) /\ SpentIn(books) \in Int
  BY <1>1, <1>3, <1>5, <1>6, <1>7, <1>9
<1>12. FeesIn(next) = FeesIn(books) + f.fee /\ FeesIn(books) \in Int
  BY <1>1, <1>3, <1>5, <1>6, <1>7, <1>10
<1>13. IsFiniteSet(DOMAIN next)
  BY <1>2, <1>8 DEF S, next, x
<1> QED
  BY <1>11, <1>12, <1>13 DEF next

LEMMA SumsNext ==
    ASSUME NEW fills \in Seq(ValidFill), NEW f \in ValidFill
    PROVE  /\ SumPaid(fills) \in Int /\ SumPaid(Append(fills, f)) = SumPaid(fills) + Paid(f)
           /\ SumFees(fills) \in Int /\ SumFees(Append(fills, f)) = SumFees(fills) + f.fee
<1> DEFINE n    == Len(fills)
           more == Append(fills, f)
           paid  == [i \in 1 .. n |-> Paid(fills[i])]
           paid1 == [i \in 1 .. n + 1 |-> Paid(more[i])]
           fees  == [i \in 1 .. n |-> fills[i].fee]
           fees1 == [i \in 1 .. n + 1 |-> more[i].fee]
<1>1. /\ n \in Nat /\ DOMAIN fills = 1 .. n /\ DOMAIN more = 1 .. n + 1
      /\ more[n + 1] = f /\ \A i \in 1 .. n : more[i] = fills[i] /\ fills[i] \in ValidFill
      /\ n + 1 \in 1 .. n + 1 /\ \A i \in 1 .. n : i \in 1 .. n + 1
  OBVIOUS
<1> HIDE DEF n, more
<1>2. /\ SumPaid(fills) = SumFunctionOnSet(paid, 1 .. n)
      /\ SumPaid(more) = SumFunctionOnSet(paid1, 1 .. n + 1)
      /\ SumFees(fills) = SumFunctionOnSet(fees, 1 .. n)
      /\ SumFees(more) = SumFunctionOnSet(fees1, 1 .. n + 1)
  BY <1>1 DEF SumPaid, SumFees, SumFunction
<1>3. /\ paid1[n + 1] = Paid(f) /\ fees1[n + 1] = f.fee
      /\ Paid(f) \in Int /\ f.fee \in Int
  BY <1>1, ValidFillTypes
<1>4. \A i \in 1 .. n : /\ paid[i] \in Int /\ paid1[i] = paid[i]
                        /\ fees[i] \in Int /\ fees1[i] = fees[i]
  BY <1>1, ValidFillTypes
<1> HIDE DEF paid, paid1, fees, fees1
<1>5. /\ SumFunctionOnSet(paid, 1 .. n) \in Int
      /\ SumFunctionOnSet(paid1, 1 .. n + 1) = SumFunctionOnSet(paid, 1 .. n) + paid1[n + 1]
  BY <1>1, <1>3, <1>4, SumAppended
<1>6. /\ SumFunctionOnSet(fees, 1 .. n) \in Int
      /\ SumFunctionOnSet(fees1, 1 .. n + 1) = SumFunctionOnSet(fees, 1 .. n) + fees1[n + 1]
  BY <1>1, <1>3, <1>4, SumAppended
<1> QED
  BY <1>2, <1>3, <1>5, <1>6 DEF more

-----------------------------------------------------------------------------
(* The books against those of each venue's own fills. *)

BooksOf(v, fills) == BooksAfter(OfVenue(v, fills))

PaidBy(fills) == SumFunction([v \in Venue |-> SumPaid(OfVenue(v, fills))])

FeesBy(fills) == SumFunction([v \in Venue |-> SumFees(OfVenue(v, fills))])

Matches(books, fills) ==
    /\ fills \in Seq(ValidFill)
    /\ WellFormed(books) /\ IsFiniteSet(DOMAIN books)
    /\ \A k \in DOMAIN books : \E v \in Venue : k \in DOMAIN BooksOf(v, fills)
    /\ \A v \in Venue : \A k \in DOMAIN BooksOf(v, fills) :
          /\ k \in DOMAIN books /\ books[k] = BooksOf(v, fills)[k]
          /\ \E f \in ValidFill : PositionKey(f) = k /\ f.venue = v
    /\ SpentIn(books) = PaidBy(fills)
    /\ FeesIn(books) = FeesBy(fills)

LEMMA OfVenueValid ==
    ASSUME NEW fills \in Seq(ValidFill), NEW v
    PROVE  /\ OfVenue(v, fills) \in Seq(ValidFill)
           /\ \A f \in ValidFill :
                 OfVenue(v, Append(fills, f))
                    = IF f.venue = v THEN Append(OfVenue(v, fills), f) ELSE OfVenue(v, fills)
<1> DEFINE S == {i \in DOMAIN fills : fills[i].venue = v}
<1>1. OfVenue(v, fills) \in Seq(ValidFill)
  <2>1. S \subseteq DOMAIN fills
    OBVIOUS
  <2> HIDE DEF S
  <2>2. Picked(fills, S) \in Seq(ValidFill)
    BY <2>1, PickedPlaces
  <2> QED
    BY <2>2 DEF OfVenue, S
<1>2. fills \in Seq(Fill)
  BY DEF ValidFill
<1>3. ASSUME NEW f \in ValidFill
      PROVE  OfVenue(v, Append(fills, f))
                = IF f.venue = v THEN Append(OfVenue(v, fills), f) ELSE OfVenue(v, fills)
  <2>1. f \in Fill
    BY ValidFillTypes
  <2> QED
    BY <1>2, <2>1, OfVenueNext
<1> QED
  BY <1>1, <1>3

LEMMA OfVenueOfNothing == \A v : OfVenue(v, << >>) = << >>
<1> SUFFICES ASSUME NEW v
             PROVE  OfVenue(v, << >>) = << >>
  OBVIOUS
<1>1. << >> \in Seq(Fill) /\ {} \subseteq DOMAIN << >> /\ Cardinality({}) = 0
      /\ {i \in DOMAIN << >> : << >>[i].venue = v} = {}
  BY FS_EmptySet
<1>2. Picked(<< >>, {}) \in Seq(Fill) /\ Len(Picked(<< >>, {})) = 0
  BY <1>1, PickedPlaces
<1> QED
  BY <1>1, <1>2 DEF OfVenue

LEMMA NothingMatches == Matches(NoBooks, << >>)
<1>1. DOMAIN NoBooks = {} /\ IsFiniteSet({}) /\ << >> \in Seq(ValidFill)
  BY FS_EmptySet DEF NoBooks
<1>2. \A v \in Venue : BooksOf(v, << >>) = NoBooks
  BY OfVenueOfNothing, BooksOfNothing DEF BooksOf
<1>3. SpentIn(NoBooks) = 0 /\ FeesIn(NoBooks) = 0
  BY <1>1, SumOfNothing DEF SpentIn, FeesIn, SumFunction
<1>4. SumPaid(<< >>) = 0 /\ SumFees(<< >>) = 0
  BY SumOfNothing DEF SumPaid, SumFees, SumFunction
<1>5. PaidBy(<< >>) = 0 /\ FeesBy(<< >>) = 0
  <2> DEFINE zero == [v \in Venue |-> 0]
  <2>1. PaidBy(<< >>) = SumFunctionOnSet(zero, Venue) /\ FeesBy(<< >>) = SumFunctionOnSet(zero, Venue)
    BY <1>4, OfVenueOfNothing DEF PaidBy, FeesBy, SumFunction
  <2>2. SumFunctionOnSet(zero, Venue) = 0
    BY SumOfZeros, VenuesAreFinite
  <2> QED
    BY <2>1, <2>2
<1> QED
  BY <1>1, <1>2, <1>3, <1>5 DEF Matches, WellFormed

LEMMA VenueSumsNext ==
    ASSUME NEW fills \in Seq(ValidFill), NEW f \in ValidFill
    PROVE  /\ PaidBy(fills) \in Int /\ PaidBy(Append(fills, f)) = PaidBy(fills) + Paid(f)
           /\ FeesBy(fills) \in Int /\ FeesBy(Append(fills, f)) = FeesBy(fills) + f.fee
<1> DEFINE w    == f.venue
           more == Append(fills, f)
           paid  == [v \in Venue |-> SumPaid(OfVenue(v, fills))]
           paid1 == [v \in Venue |-> SumPaid(OfVenue(v, more))]
           fees  == [v \in Venue |-> SumFees(OfVenue(v, fills))]
           fees1 == [v \in Venue |-> SumFees(OfVenue(v, more))]
<1>1. /\ w \in Venue /\ Paid(f) \in Int /\ f.fee \in Int /\ IsFiniteSet(Venue)
      /\ Venue \cup {w} = Venue
  BY ValidFillTypes, VenuesAreFinite
<1>2. ASSUME NEW v \in Venue
      PROVE  /\ paid[v] \in Int /\ paid1[v] = IF v = w THEN paid[v] + Paid(f) ELSE paid[v]
             /\ fees[v] \in Int /\ fees1[v] = IF v = w THEN fees[v] + f.fee ELSE fees[v]
  <2>1. /\ OfVenue(v, fills) \in Seq(ValidFill)
        /\ OfVenue(v, more) = IF w = v THEN Append(OfVenue(v, fills), f) ELSE OfVenue(v, fills)
    BY OfVenueValid
  <2> QED
    BY <2>1, SumsNext
<1>3. /\ PaidBy(fills) = SumFunctionOnSet(paid, Venue)
      /\ PaidBy(more) = SumFunctionOnSet(paid1, Venue)
      /\ FeesBy(fills) = SumFunctionOnSet(fees, Venue)
      /\ FeesBy(more) = SumFunctionOnSet(fees1, Venue)
  BY DEF PaidBy, FeesBy, SumFunction
<1> HIDE DEF w, more, paid, paid1, fees, fees1
<1>4. /\ SumFunctionOnSet(paid, Venue) \in Int
      /\ SumFunctionOnSet(paid1, Venue) = SumFunctionOnSet(paid, Venue) + (paid1[w] - paid[w])
  <2>1. /\ paid1[w] \in Int /\ \A v \in Venue : paid[v] \in Int
        /\ \A v \in Venue : v # w => paid1[v] = paid[v]
        /\ IsFiniteSet(Venue) /\ w \in Venue
    BY <1>1, <1>2
  <2> QED
    BY <2>1, SumReplaced
<1>5. /\ SumFunctionOnSet(fees, Venue) \in Int
      /\ SumFunctionOnSet(fees1, Venue) = SumFunctionOnSet(fees, Venue) + (fees1[w] - fees[w])
  <2>1. /\ fees1[w] \in Int /\ \A v \in Venue : fees[v] \in Int
        /\ \A v \in Venue : v # w => fees1[v] = fees[v]
        /\ IsFiniteSet(Venue) /\ w \in Venue
    BY <1>1, <1>2
  <2> QED
    BY <2>1, SumReplaced
<1>6. /\ paid[w] \in Int /\ paid1[w] = paid[w] + Paid(f)
      /\ fees[w] \in Int /\ fees1[w] = fees[w] + f.fee
  BY <1>1, <1>2
<1>7. /\ PaidBy(more) = PaidBy(fills) + Paid(f) /\ FeesBy(more) = FeesBy(fills) + f.fee
      /\ PaidBy(fills) \in Int /\ FeesBy(fills) \in Int
  BY <1>1, <1>3, <1>4, <1>5, <1>6
<1> QED
  BY <1>7 DEF more

(* One more fill keeps the match: its key is of its own venue only, since  *)
(* one instrument has one venue, so the position it finds is the one that  *)
(* venue's fills alone have made.                                          *)
LEMMA MatchesNext ==
    ASSUME NEW books, NEW fills, Matches(books, fills),
           NEW f \in ValidFill, Answer(books, f) = "Ok"
    PROVE  Matches(Booked(books, f), Append(fills, f))
<1> DEFINE w    == f.venue
           x    == PositionKey(f)
           more == Append(fills, f)
           next == Booked(books, f)
           Old(v) == BooksOf(v, fills)
           New(v) == BooksOf(v, more)
<1>1. /\ fills \in Seq(ValidFill) /\ more \in Seq(ValidFill)
      /\ f \in Fill /\ FitsFill(f) /\ Validated(f) /\ w \in Venue
      /\ WellFormed(books) /\ IsFiniteSet(DOMAIN books)
  BY ValidFillTypes DEF Matches
<1>2. /\ WellFormed(next) /\ IsFiniteSet(DOMAIN next)
      /\ SpentIn(next) = PaidBy(more) /\ FeesIn(next) = FeesBy(more)
  <2>1. WellFormed(next)
    BY <1>1, BookedWellFormed
  <2>2. /\ IsFiniteSet(DOMAIN next)
        /\ SpentIn(next) = SpentIn(books) + Paid(f) /\ FeesIn(next) = FeesIn(books) + f.fee
    BY <1>1, BookedSums
  <2>3. PaidBy(more) = PaidBy(fills) + Paid(f) /\ FeesBy(more) = FeesBy(fills) + f.fee
    BY <1>1, VenueSumsNext
  <2> QED
    BY <2>1, <2>2, <2>3 DEF Matches
<1>3. New(w) = Booked(Old(w), f) /\ \A v \in Venue : v # w => New(v) = Old(v)
  <2>1. ASSUME NEW v \in Venue
        PROVE  /\ OfVenue(v, fills) \in Seq(ValidFill)
               /\ OfVenue(v, more) = IF w = v THEN Append(OfVenue(v, fills), f)
                                              ELSE OfVenue(v, fills)
    BY <1>1, OfVenueValid
  <2>2. New(w) = Booked(Old(w), f)
    BY <1>1, <2>1, BooksNext DEF BooksOf
  <2> QED
    BY <2>1, <2>2 DEF BooksOf
<1>4. /\ \A k \in DOMAIN books : \E v \in Venue : k \in DOMAIN Old(v)
      /\ \A v \in Venue : \A k \in DOMAIN Old(v) :
            /\ k \in DOMAIN books /\ books[k] = Old(v)[k]
            /\ \E g \in ValidFill : PositionKey(g) = k /\ g.venue = v
  BY DEF Matches
<1>5. ASSUME NEW v \in Venue, x \in DOMAIN Old(v)
      PROVE  v = w
  <2>1. PICK g \in ValidFill : PositionKey(g) = x /\ g.venue = v
    BY <1>4, <1>5
  <2> QED
    BY <1>1, <2>1, ValidFillTypes, OneEconomyPerKey
<1>6. HeldIn(books, x) = HeldIn(Old(w), x)
  BY <1>1, <1>4, <1>5 DEF HeldIn
<1>7. /\ DOMAIN next = DOMAIN books \cup {x}
      /\ DOMAIN New(w) = DOMAIN Old(w) \cup {x}
      /\ next[x] = After(HeldIn(books, x), f, Scale(f))
      /\ New(w)[x] = After(HeldIn(Old(w), x), f, Scale(f))
      /\ \A k \in DOMAIN books : k # x => next[k] = books[k]
      /\ \A k \in DOMAIN Old(w) : k # x => New(w)[k] = Old(w)[k]
  BY <1>3 DEF Booked
<1> HIDE DEF w, x, more, next, Old, New
<1>8. \A k \in DOMAIN next : \E v \in Venue : k \in DOMAIN New(v)
  BY <1>1, <1>3, <1>4, <1>7
<1>9. ASSUME NEW v \in Venue, NEW k \in DOMAIN New(v)
      PROVE  /\ k \in DOMAIN next /\ next[k] = New(v)[k]
             /\ \E g \in ValidFill : PositionKey(g) = k /\ g.venue = v
  <2>1. CASE v # w
    <3>1. New(v) = Old(v) /\ k \in DOMAIN Old(v) /\ k # x
      BY <1>3, <1>5, <2>1
    <3> QED
      BY <1>4, <1>7, <3>1
  <2>2. CASE v = w /\ k = x
    <3>1. PositionKey(f) = k /\ f.venue = v
      BY <2>2 DEF w, x
    <3> QED
      BY <1>6, <1>7, <2>2, <3>1
  <2>3. CASE v = w /\ k # x
    <3>1. k \in DOMAIN Old(v) /\ New(v)[k] = Old(v)[k]
      BY <1>7, <2>3
    <3> QED
      BY <1>4, <1>7, <2>3, <3>1
  <2> QED
    BY <2>1, <2>2, <2>3
<1>10. Matches(next, more)
  BY <1>1, <1>2, <1>8, <1>9 DEF Matches, New
<1> QED
  BY <1>10 DEF next, more

-----------------------------------------------------------------------------
(* How far the keeper is. *)

FirstOnTape(n) == [i \in 1 .. n |-> Published[i]]

Booking ==
    /\ applied <= Len(tape)
    /\ ~Streamed => applied = 0
    /\ pc = "done" => applied = Len(tape)
    /\ Matches(positions, FirstOnTape(applied))

LEMMA FirstOnTapeNext ==
    ASSUME TypeOK, NEW n \in Nat
    PROVE  /\ n < Len(tape) =>
                 /\ Published[n + 1] \in Fill
                 /\ \A T : FirstOnTape(n) \in Seq(T) /\ Published[n + 1] \in T =>
                       FirstOnTape(n + 1) = Append(FirstOnTape(n), Published[n + 1])
           /\ n = Len(tape) => FirstOnTape(n) = Published
           /\ FirstOnTape(0) = << >>
<1>1. /\ Published \in Seq(Fill) /\ Len(Published) = Len(tape) /\ Len(tape) \in Nat
      /\ DOMAIN Published = 1 .. Len(tape)
  BY PublishedTypes DEF TypeOK, Published
<1>2. ASSUME n < Len(tape)
      PROVE  Published[n + 1] \in Fill
  BY <1>1, <1>2
<1>3. ASSUME n < Len(tape), NEW T, FirstOnTape(n) \in Seq(T), Published[n + 1] \in T
      PROVE  FirstOnTape(n + 1) = Append(FirstOnTape(n), Published[n + 1])
  <2> DEFINE s == FirstOnTape(n)
             f == Published[n + 1]
  <2>1. Len(s) = n /\ \A i \in 1 .. n : s[i] = Published[i]
    BY DEF FirstOnTape
  <2>2. Append(s, f) = [i \in 1 .. n + 1 |-> IF i = n + 1 THEN f ELSE s[i]]
    <3> HIDE DEF s, f
    <3> QED
      BY <1>3, <2>1, SequencesAreFunctions DEF s, f
  <2>3. ASSUME NEW i \in 1 .. n + 1
        PROVE  Published[i] = IF i = n + 1 THEN f ELSE s[i]
    BY <2>1
  <2> HIDE DEF s, f
  <2> QED
    BY <2>2, <2>3 DEF FirstOnTape, s, f
<1>4. ASSUME n = Len(tape)
      PROVE  FirstOnTape(n) = Published
  BY <1>1, <1>4 DEF FirstOnTape
<1>5. FirstOnTape(0) = << >>
  BY DEF FirstOnTape
<1> QED
  BY <1>2, <1>3, <1>4, <1>5

LEMMA BookingInit == PipelineInit => Booking
<1> SUFFICES ASSUME PipelineInit
             PROVE  Booking
  OBVIOUS
<1>1. /\ tape = << >> /\ pc = "catch" /\ applied = 0 /\ positions = NoBooks
  <2>1. Keeper!NoBooks = NoBooks
    BY KeeperArithmetic, Zenon DEF Keeper!NoBooks, NoBooks
  <2> QED
    BY <2>1 DEF PipelineInit, IngesterInit, Init, Keeper!Init
<1>2. FirstOnTape(0) = << >>
  BY DEF FirstOnTape
<1> QED
  BY <1>1, <1>2, NothingMatches DEF Booking, Streamed

LEMMA BookingStep == Sound /\ Phases /\ Booking /\ [PipelineNext]_pvars => Booking'
<1> SUFFICES ASSUME Sound, Phases, Booking, [PipelineNext]_pvars
             PROVE  Booking'
  OBVIOUS
<1>0. TypeOK /\ applied \in Nat
  BY DEF Sound, IInv, Setup
<1>1. CASE \/ \E v \in Venue : Catch(v)
           \/ CallDrain \/ CallFlush \/ Draining
  <2>1. ~Streamed
    BY <1>1 DEF Catch, CallDrain, CallFlush, Draining, Streamed
  <2>2. applied' = 0 /\ applied = 0 /\ positions' = positions /\ pc' # "done"
    BY <1>1, <2>1 DEF Catch, CallDrain, CallFlush, Draining, kvars, Booking, Streamed
  <2>3. Len(tape') \in Nat
    <3>1. TypeOK'
      BY SoundStep DEF Sound, IInv
    <3> QED
      BY <3>1 DEF TypeOK
  <2>4. FirstOnTape(0) = << >> /\ FirstOnTape(0)' = << >>
    BY DEF FirstOnTape
  <2> QED
    BY <2>2, <2>3, <2>4 DEF Booking
<1>2. CASE ApplyNext /\ Keeper!Apply(Published[applied + 1])
  <2> DEFINE f == Published[applied + 1]
  <2>1. /\ pc = "apply" /\ pc' = pc /\ applied < Len(tape) /\ tape' = tape
        /\ applied' = applied + 1
        /\ positions' = Booked(positions, f) /\ Answer(positions, f) = "Ok"
    BY <1>2, KeeperBooks DEF ApplyNext, Keeper!Apply, allvars, vars, kvars
  <2>2. f \in ValidFill
    <3>1. f \in Fill
      BY <1>0, <2>1, FirstOnTapeNext
    <3> QED
      BY <2>1, <3>1, AcceptedFill DEF ValidFill
  <2>3. Matches(positions, FirstOnTape(applied))
    BY DEF Booking
  <2>4. FirstOnTape(applied + 1) = Append(FirstOnTape(applied), f)
    BY <1>0, <2>1, <2>2, <2>3, FirstOnTapeNext DEF Matches
  <2>5. FirstOnTape(applied)' = FirstOnTape(applied + 1)
    BY <2>1 DEF FirstOnTape, Published
  <2> HIDE DEF f
  <2>6. Matches(positions', FirstOnTape(applied)')
    BY <2>1, <2>2, <2>3, <2>4, <2>5, MatchesNext
  <2>7. applied' <= Len(tape') /\ Streamed'
    <3>1. Len(tape) \in Nat
      BY <1>0 DEF TypeOK
    <3> QED
      BY <1>0, <2>1, <3>1 DEF Streamed
  <2> QED
    BY <2>1, <2>6, <2>7 DEF Booking
<1>3. CASE \/ ApplyNext /\ ~Keeper!Apply(Published[applied + 1])
           \/ Finish \/ Ended \/ UNCHANGED pvars
  <2>1. /\ UNCHANGED <<tape, applied, positions>>
        /\ (pc' = pc \/ (Streamed /\ Streamed'))
        /\ pc' = "done" => pc = "done" \/ applied = Len(tape)
    BY <1>3 DEF ApplyNext, Finish, Ended, pvars, allvars, vars, kvars, Streamed
  <2>2. FirstOnTape(applied)' = FirstOnTape(applied)
    BY <2>1 DEF FirstOnTape, Published
  <2> QED
    BY <2>1, <2>2 DEF Booking, Streamed
<1> QED
  BY <1>1, <1>2, <1>3 DEF PipelineNext

(* At any point the books are those of the fills applied, venue by venue,  *)
(* and balance with them (position_keeper lib.rs:27-64).                   *)
THEOREM BooksInductive == PipelineSpec => []Booking
<1>1. PipelineInit => Booking
  BY BookingInit
<1>2. Sound /\ Phases /\ Booking /\ [PipelineNext]_pvars => Booking'
  BY BookingStep
<1> QED
  BY <1>1, <1>2, PipelineInductive, PTL DEF PipelineSpec

LEMMA DoneMatches ==
    ASSUME Sound, Phases, Progress, Booking, pc = "done"
    PROVE  /\ Matches(positions, Published)
           /\ \A v \in Venue : OfVenue(v, Published) = Kept(lines[v])
<1>1. TypeOK /\ Streamed /\ applied = Len(tape) /\ applied \in Nat
  BY DEF Sound, IInv, Streamed, Booking, Setup
<1>2. FirstOnTape(applied) = Published
  BY <1>1, FirstOnTapeNext
<1>3. VenuesArePublishedAlone
  BY <1>1, PublishedAlone
<1> QED
  BY <1>1, <1>2, <1>3 DEF Booking, VenuesArePublishedAlone

(* Positions do not depend on how the venues interleave: at the end each   *)
(* is the one its own venue's fills, kept alone, would have made           *)
(* (pipeline.rs:113-127; position_keeper lib.rs:27-64).                    *)
THEOREM PositionsIndependent == PipelineSpec => []PositionsIndependentOfInterleave
<1>1. ASSUME Sound, Phases, Progress, Booking, pc = "done"
      PROVE  LET Alone(v) == BooksAfter(Kept(lines[v]))
             IN  /\ DOMAIN positions = UNION {DOMAIN Alone(v) : v \in Venue}
                 /\ \A v \in Venue : \A k \in DOMAIN Alone(v) : positions[k] = Alone(v)[k]
  <2> DEFINE Alone(v) == BooksAfter(Kept(lines[v]))
  <2>1. \A v \in Venue : BooksOf(v, Published) = Alone(v)
    BY <1>1, DoneMatches DEF BooksOf
  <2>2. /\ \A k \in DOMAIN positions : \E v \in Venue : k \in DOMAIN BooksOf(v, Published)
        /\ \A v \in Venue : \A k \in DOMAIN BooksOf(v, Published) :
              k \in DOMAIN positions /\ positions[k] = BooksOf(v, Published)[k]
    BY <1>1, DoneMatches DEF Matches
  <2> HIDE DEF Alone
  <2>3. \A k : k \in DOMAIN positions <=> \E v \in Venue : k \in DOMAIN Alone(v)
    BY <2>1, <2>2
  <2>4. DOMAIN positions = UNION {DOMAIN Alone(v) : v \in Venue}
    BY <2>3
  <2>5. \A v \in Venue : \A k \in DOMAIN Alone(v) : positions[k] = Alone(v)[k]
    BY <2>1, <2>2
  <2> QED
    BY <2>4, <2>5 DEF Alone
<1>2. Sound /\ Phases /\ Progress /\ Booking => PositionsIndependentOfInterleave
  BY <1>1 DEF PositionsIndependentOfInterleave
<1> QED
  BY <1>2, PipelineInductive, BooksInductive, PTL

(* Money and fees are conserved over the whole path: realized less open is *)
(* what changed hands on the fills each venue keeps (pipeline.rs:143-168). *)
THEOREM BooksBalanceAtEnd == PipelineSpec => []BooksBalance
<1>1. ASSUME Sound, Phases, Progress, Booking, pc = "done"
      PROVE  /\ SumFunction([k \in DOMAIN positions |-> Spent(positions[k])])
                   = SumFunction([v \in Venue |-> SumPaid(Kept(lines[v]))])
             /\ SumFunction([k \in DOMAIN positions |-> positions[k].fees])
                   = SumFunction([v \in Venue |-> SumFees(Kept(lines[v]))])
  <2>1. /\ SpentIn(positions) = PaidBy(Published) /\ FeesIn(positions) = FeesBy(Published)
        /\ \A v \in Venue : OfVenue(v, Published) = Kept(lines[v])
    BY <1>1, DoneMatches DEF Matches
  <2>2. /\ [v \in Venue |-> SumPaid(OfVenue(v, Published))] = [v \in Venue |-> SumPaid(Kept(lines[v]))]
        /\ [v \in Venue |-> SumFees(OfVenue(v, Published))] = [v \in Venue |-> SumFees(Kept(lines[v]))]
    BY <2>1
  <2> QED
    BY <2>1, <2>2 DEF SpentIn, FeesIn, PaidBy, FeesBy
<1>2. Sound /\ Phases /\ Progress /\ Booking => BooksBalance
  BY <1>1 DEF BooksBalance
<1> QED
  BY <1>2, PipelineInductive, BooksInductive, PTL

-----------------------------------------------------------------------------
(* What the keeper can answer to the tape. *)

(* Where every canonical fill passes validation, as the converter sees to, *)
(* the keeper refuses none of the tape but for overflow                    *)
(* (common/mod.rs:51-59; position_keeper lib.rs:32-73).                    *)
THEOREM TapeApplies ==
    ASSUME \A f \in Fill : Validated(f)
    PROVE  PipelineSpec => []TapeAppliesButForOverflow
<1> DEFINE Kind == Sound /\ Booking /\ SoundBooks(Fill, positions)
<1>0. AllFit(Fill)
  BY FillWidthAssumption DEF AllFit
<1>1. PipelineInit => SoundBooks(Fill, positions)
  <2>1. Keeper!NoBooks = NoBooks
    BY KeeperArithmetic, Zenon DEF Keeper!NoBooks, NoBooks
  <2> QED
    BY <2>1 DEF PipelineInit, Keeper!Init, NoBooks, SoundBooks
<1>2. Kind /\ [PipelineNext]_pvars => SoundBooks(Fill, positions)'
  <2> SUFFICES ASSUME Kind, [PipelineNext]_pvars
               PROVE  SoundBooks(Fill, positions')
    BY DEF SoundBooks, SoundAt
  <2>1. CASE ApplyNext /\ Keeper!Apply(Published[applied + 1])
    <3> DEFINE f == Published[applied + 1]
    <3>1. applied < Len(tape) /\ positions' = Booked(positions, f)
      BY <2>1, KeeperBooks DEF ApplyNext, Keeper!Apply
    <3>2. f \in Fill
      BY <3>1, FirstOnTapeNext DEF Sound, IInv, Setup
    <3> HIDE DEF f
    <3> QED
      BY <1>0, <3>1, <3>2, BookedSound DEF Booking, Matches
  <2>2. CASE positions' = positions
    BY <2>2
  <2>3. (ApplyNext /\ Keeper!Apply(Published[applied + 1])) \/ positions' = positions
    BY DEF PipelineNext, Catch, CallDrain, CallFlush, Draining, ApplyNext, Finish, Ended,
           pvars, kvars
  <2> QED
    BY <2>1, <2>2, <2>3
<1>3. Kind => TapeAppliesButForOverflow
  <2> SUFFICES ASSUME Kind, applied < Len(tape)
               PROVE  Keeper!ApplyResult(Published[applied + 1]) \in {"Ok", "ArithmeticOverflow"}
    BY DEF TapeAppliesButForOverflow
  <2> DEFINE f == Published[applied + 1]
  <2>1. f \in Fill /\ Validated(f)
    BY FirstOnTapeNext DEF Sound, IInv, Setup
  <2> HIDE DEF f
  <2>2. Answer(positions, f) \in {"Ok", "ArithmeticOverflow"}
    BY <1>0, <2>1, SoundAnswer DEF Booking, Matches
  <2> QED
    BY <2>2, KeeperBooks DEF f
<1> QED
  BY <1>1, <1>2, <1>3, PipelineInductive, BooksInductive, PTL DEF PipelineSpec

=============================================================================
