----------------------- MODULE RealtimeHarnessProofs -----------------------
(***************************************************************************)
(* Proofs about RealtimeHarness: for any files, any number of threads and  *)
(* any scheduling of them, the main thread's run is a run of the ingester, *)
(* ticks alone finish the tape, and the replay gives it back.              *)
(***************************************************************************)
EXTENDS RealtimeHarness, StreamsProofs

-----------------------------------------------------------------------------
(* The sender threads. *)

FromSource(sent) ==
    \E files \in Source : sent = [v \in Venue |-> SortedBySeq(ReadNdjson(v, files[v]))]

(* A thread has sent some of its lines with stamps that do not go back,    *)
(* and the stamp it holds is for the next of them.                         *)
Sends(list, stamp, sent, now) ==
    /\ stamp \in 0 .. now
    /\ sent \in Seq(Nat)
    /\ Len(sent) + (IF stamp = None THEN 0 ELSE 1) <= Len(list)
    /\ \A n \in DOMAIN sent : sent[n] \in 1 .. now /\ (stamp # None => sent[n] <= stamp)
    /\ \A n, o \in DOMAIN sent : n < o => sent[n] <= sent[o]

Threads ==
    /\ clock \in 1 .. MaxClock
    /\ FromSource(lines)
    /\ held \in [Venue -> Nat] /\ channel \in [Venue -> Seq(Nat)]
    /\ \A v \in Venue : Sends(lines[v], held[v], channel[v], clock)

LEMMA SourceLines ==
    ASSUME FromSource(lines), NEW v \in Venue
    PROVE  lines[v] \in Seq(LinesOf(v)) /\ Len(lines[v]) \in Nat
<1>1. PICK files \in Source : lines = [w \in Venue |-> SortedBySeq(ReadNdjson(w, files[w]))]
  BY DEF FromSource
<1>2. lines[v] = SortedBySeq(ReadNdjson(v, files[v])) /\ files[v] \in Seq(Text)
  BY <1>1, SourceAssumption
<1>3. lines[v] \in Seq(LinesOf(v))
  BY <1>2, ReadNdjsonReads, SortedBySeqSorts
<1> QED
  BY <1>3

LEMMA ThreadsInit == HarnessInit => Threads
<1> SUFFICES ASSUME HarnessInit
             PROVE  Threads
  OBVIOUS
<1>1. /\ FromSource(lines) /\ clock = 1
      /\ held = [v \in Venue |-> None] /\ channel = [v \in Venue |-> << >>]
  BY DEF HarnessInit, EpochBase, FromSource
<1>2. 1 \in 1 .. MaxClock
  BY ClockAssumption
<1>3. ASSUME NEW v \in Venue
      PROVE  Sends(lines[v], held[v], channel[v], clock)
  <2>1. held[v] = 0 /\ channel[v] = << >> /\ Len(channel[v]) = 0 /\ DOMAIN channel[v] = {}
    BY <1>1 DEF None
  <2>2. Len(lines[v]) \in Nat
    BY <1>1, SourceLines
  <2> QED
    BY <1>1, <2>1, <2>2 DEF Sends, None
<1>4. held \in [Venue -> Nat] /\ channel \in [Venue -> Seq(Nat)]
  BY <1>1 DEF None
<1> QED
  BY <1>1, <1>2, <1>3, <1>4 DEF Threads

(* What the threads do to one of them. *)
LEMMA SendsLater ==
    ASSUME NEW list, NEW stamp, NEW sent, NEW now \in Nat, Sends(list, stamp, sent, now)
    PROVE  Sends(list, stamp, sent, now + 1)
BY DEF Sends

LEMMA SendsStamped ==
    ASSUME NEW list, NEW sent, NEW now \in Nat \ {0}, Sends(list, None, sent, now),
           Len(list) \in Nat, Len(sent) < Len(list)
    PROVE  Sends(list, now, sent, now)
BY DEF Sends, None

LEMMA SendsOne ==
    ASSUME NEW list, NEW stamp, NEW sent, NEW now \in Nat, Sends(list, stamp, sent, now),
           stamp # None, Len(list) \in Nat
    PROVE  Sends(list, None, Append(sent, stamp), now)
<1> DEFINE more == Append(sent, stamp)
<1>1. /\ stamp \in 1 .. now /\ stamp \in Nat /\ sent \in Seq(Nat) /\ Len(sent) \in Nat
      /\ Len(sent) + 1 <= Len(list)
  BY DEF Sends, None
<1>2. /\ more \in Seq(Nat) /\ Len(more) = Len(sent) + 1
      /\ DOMAIN more = 1 .. Len(sent) + 1 /\ DOMAIN sent = 1 .. Len(sent)
      /\ \A n \in DOMAIN sent : more[n] = sent[n]
      /\ more[Len(sent) + 1] = stamp
  BY <1>1
<1> HIDE DEF more
<1>3. ASSUME NEW n \in DOMAIN more
      PROVE  more[n] \in 1 .. now /\ more[n] <= stamp /\ (n # Len(sent) + 1 => n \in DOMAIN sent)
  <2>1. CASE n = Len(sent) + 1
    BY <1>1, <1>2, <2>1
  <2>2. CASE n # Len(sent) + 1
    <3>1. n \in DOMAIN sent
      BY <1>1, <1>2, <2>2
    <3> QED
      BY <1>2, <2>2, <3>1 DEF Sends
  <2> QED
    BY <2>1, <2>2
<1>4. ASSUME NEW n \in DOMAIN more, NEW o \in DOMAIN more, n < o
      PROVE  more[n] <= more[o]
  <2>1. n # Len(sent) + 1
    BY <1>1, <1>2, <1>4
  <2>2. CASE o = Len(sent) + 1
    BY <1>2, <1>3, <2>2
  <2>3. CASE o # Len(sent) + 1
    <3>1. n \in DOMAIN sent /\ o \in DOMAIN sent
      BY <1>3, <2>1, <2>3
    <3> QED
      BY <1>2, <1>4, <3>1 DEF Sends
  <2> QED
    BY <2>2, <2>3
<1>5. None \in 0 .. now /\ Len(more) + 0 <= Len(list)
  BY <1>1, <1>2 DEF None
<1> QED
  BY <1>1, <1>2, <1>3, <1>4, <1>5 DEF Sends, more

LEMMA ThreadsStep == Threads /\ [HarnessNext]_hvars => Threads'
<1> SUFFICES ASSUME Threads, [HarnessNext]_hvars
             PROVE  Threads'
  OBVIOUS
<1>1. clock \in Nat \ {0} /\ \A v \in Venue : Len(lines[v]) \in Nat
  BY SourceLines, ClockAssumption DEF Threads
<1>2. CASE Advance
  <2>1. clock' = clock + 1 /\ clock' \in 1 .. MaxClock /\ UNCHANGED <<lines, held, channel>>
    BY <1>1, <1>2, ClockAssumption DEF Advance
  <2>2. ASSUME NEW v \in Venue
        PROVE  Sends(lines'[v], held'[v], channel'[v], clock')
    BY <1>1, <2>1, SendsLater DEF Threads
  <2> QED
    BY <2>1, <2>2 DEF Threads
<1>3. ASSUME NEW v \in Venue, TakeStamp(v)
      PROVE  Threads'
  <2>1. /\ held[v] = None /\ Len(channel[v]) < Len(lines[v])
        /\ held' = [held EXCEPT ![v] = clock] /\ UNCHANGED <<clock, lines, channel>>
    BY <1>3 DEF TakeStamp
  <2>2. held' \in [Venue -> Nat]
    BY <1>1, <2>1 DEF Threads
  <2>3. Sends(lines[v], clock, channel[v], clock)
    <3>1. Sends(lines[v], None, channel[v], clock)
      BY <2>1 DEF Threads
    <3> QED
      BY <1>1, <2>1, <3>1, SendsStamped
  <2>4. ASSUME NEW w \in Venue
        PROVE  Sends(lines'[w], held'[w], channel'[w], clock')
    BY <2>1, <2>3 DEF Threads
  <2> QED
    BY <2>1, <2>2, <2>4 DEF Threads
<1>4. ASSUME NEW v \in Venue, Send(v)
      PROVE  Threads'
  <2>1. /\ held[v] # None /\ channel' = [channel EXCEPT ![v] = Append(@, held[v])]
        /\ held' = [held EXCEPT ![v] = None] /\ UNCHANGED <<clock, lines>>
    BY <1>4 DEF Send
  <2>2. held' \in [Venue -> Nat] /\ channel' \in [Venue -> Seq(Nat)]
    <3>1. Append(channel[v], held[v]) \in Seq(Nat)
      BY DEF Threads
    <3> QED
      BY <2>1, <3>1 DEF Threads, None
  <2>3. Sends(lines[v], None, Append(channel[v], held[v]), clock)
    <3>1. Sends(lines[v], held[v], channel[v], clock)
      BY DEF Threads
    <3> QED
      BY <1>1, <2>1, <3>1, SendsOne
  <2>4. ASSUME NEW w \in Venue
        PROVE  Sends(lines'[w], held'[w], channel'[w], clock')
    BY <2>1, <2>3 DEF Threads
  <2> QED
    BY <2>1, <2>2, <2>4 DEF Threads
<1>5. CASE UNCHANGED threads
  BY <1>5 DEF threads, Threads
<1>6. CASE Main \/ Ended \/ UNCHANGED hvars
  BY <1>5, <1>6 DEF Main, Collect, Catch, TickIdle, CallDrain, Draining, FlushNothing, AssertTape,
     ReplayPush, ReplayFlush, Compare, AssertOverlap, Ended, hvars
<1> QED
  BY <1>2, <1>3, <1>4, <1>6 DEF HarnessNext, Sender

-----------------------------------------------------------------------------
(* The merge. *)

(* The stamps merged so far are those up to the last one. *)
Merged(sent, took, last) ==
    /\ took <= Len(sent)
    /\ \A n \in DOMAIN sent : IF n <= took THEN sent[n] <= last ELSE last <= sent[n]

Merge ==
    /\ collected \in 0 .. K
    /\ \A v \in Venue : v < collected \/ pc # "collect" => HungUp(v)
    /\ pc = "collect" => last_stamp = 0 /\ ticked = 0
    /\ last_stamp \in 0 .. clock
    /\ taken \in [Venue -> Nat]
    /\ \A v \in Venue : Merged(channel[v], taken[v], last_stamp)
    /\ ticked \in 0 .. K
    /\ ticked # 0 => \A v \in Venue : ~More(v)
    /\ \A v \in Venue : IF v < ticked THEN lanes[v].frontier = last_stamp + 1
                                      ELSE lanes[v].frontier <= last_stamp

Phases ==
    /\ pc \in {"collect", "catch", "drain", "draining", "idle", "flush", "assert", "replay",
               "compare", "overlap", "panicked", "done"}
    /\ pc \in {"collect", "catch", "drain"} => ~sealed /\ draining = "no"
    /\ pc = "draining" => ~sealed /\ draining = "ready"
    /\ pc = "catch" => ticked < K
    /\ pc \in {"idle", "assert", "replay", "compare", "overlap", "panicked", "done"} =>
          draining = "no"
    /\ pc \in {"idle", "flush", "assert", "replay", "compare", "overlap", "panicked", "done"} =>
          ticked = K /\ \A v \in Venue : lanes[v].buffer = << >>

Sound == IInv /\ Known /\ Counted

LEMMA MergeInit == HarnessInit => Merge /\ Phases
<1> SUFFICES ASSUME HarnessInit
             PROVE  Merge /\ Phases
  OBVIOUS
<1>1. /\ Init /\ pc = "collect" /\ clock = 1 /\ collected = 0 /\ ticked = 0 /\ last_stamp = 0
      /\ taken = [v \in Venue |-> 0] /\ channel = [v \in Venue |-> << >>]
  BY DEF HarnessInit, EpochBase, IngesterInit
<1>2. 0 \in 0 .. K /\ 0 \in 0 .. 1
  BY KAssumption
<1>3. ASSUME NEW v \in Venue
      PROVE  /\ v >= 0
             /\ Merged(channel[v], taken[v], last_stamp)
             /\ lanes[v].frontier = 0
  <2>1. taken[v] = 0 /\ channel[v] = << >> /\ DOMAIN channel[v] = {} /\ Len(channel[v]) = 0
    BY <1>1
  <2> QED
    BY <1>1, <2>1 DEF Merged, Init, NewLane, Venue
<1>4. \A v \in Venue : v \in Int
  BY KAssumption DEF Venue
<1> QED
  BY <1>1, <1>2, <1>3, <1>4 DEF Merge, Phases, Init

LEMMA MergeTypes ==
    ASSUME Threads, Merge, NEW v \in Venue
    PROVE  /\ lines[v] \in Seq(LinesOf(v)) /\ Len(lines[v]) \in Nat
           /\ channel[v] \in Seq(Nat) /\ Len(channel[v]) \in Nat
           /\ Len(channel[v]) <= Len(lines[v])
           /\ taken[v] \in Nat /\ taken[v] <= Len(channel[v])
           /\ clock \in Nat \ {0} /\ clock <= MaxClock /\ last_stamp \in Nat
           /\ v \in Nat /\ K \in Nat /\ ticked \in Nat /\ collected \in Nat
<1>1. lines[v] \in Seq(LinesOf(v)) /\ Len(lines[v]) \in Nat
  BY SourceLines DEF Threads
<1>2. channel[v] \in Seq(Nat) /\ Len(channel[v]) \in Nat
  BY DEF Threads
<1>3. Len(channel[v]) <= Len(lines[v])
  <2>1. Len(channel[v]) + (IF held[v] = None THEN 0 ELSE 1) <= Len(lines[v])
    BY DEF Threads, Sends
  <2>2. CASE held[v] = None
    BY <1>1, <1>2, <2>1, <2>2
  <2>3. CASE held[v] # None
    BY <1>1, <1>2, <2>1, <2>3
  <2> QED
    BY <2>2, <2>3
<1>4. taken[v] \in Nat /\ taken[v] <= Len(channel[v])
  BY DEF Merge, Merged
<1>5. clock \in Nat \ {0} /\ clock <= MaxClock /\ last_stamp \in Nat
  BY ClockAssumption DEF Threads, Merge
<1>6. v \in Nat /\ K \in Nat /\ ticked \in Nat /\ collected \in Nat
  BY KAssumption DEF Venue, Merge
<1> QED
  BY <1>1, <1>2, <1>3, <1>4, <1>5, <1>6

(* What a catch does, and with which line. *)
LEMMA CatchEffect ==
    ASSUME Threads, Merge, NEW v \in Venue, Catch(v)
    PROVE  /\ taken[v] + 1 \in DOMAIN channel[v] /\ taken[v] < Len(lines[v])
           /\ NextStamp(v) = channel[v][taken[v] + 1]
           /\ NextStamp(v) \in 1 .. clock /\ NextStamp(v) \in Stamp
           /\ last_stamp <= NextStamp(v) /\ last_stamp' = NextStamp(v)
           /\ lines[v][taken[v] + 1] \in LinesOf(v) /\ lines[v][taken[v] + 1] \in RawLine
           /\ FillCaught(NextStamp(v), lines[v][taken[v] + 1])
           /\ taken' = [taken EXCEPT ![v] = @ + 1]
           /\ ticked = 0 /\ \A w \in Venue : HungUp(w)
<1>1. /\ pc = "catch" /\ IsNext(v) /\ More(v)
      /\ FillCaught(NextStamp(v), lines[v][taken[v] + 1])
      /\ taken' = [taken EXCEPT ![v] = @ + 1]
      /\ last_stamp' = IF last_stamp < NextStamp(v) THEN NextStamp(v) ELSE last_stamp
  BY DEF Catch, IsNext
<1>2. \A w \in Venue : HungUp(w)
  BY <1>1 DEF Merge
<1>3. /\ taken[v] \in Nat /\ channel[v] \in Seq(Nat) /\ lines[v] \in Seq(LinesOf(v))
      /\ last_stamp \in Nat /\ clock \in Nat \ {0} /\ clock <= MaxClock
      /\ Len(channel[v]) = Len(lines[v]) /\ Len(lines[v]) \in Nat
  BY <1>2, MergeTypes DEF HungUp
<1>4. taken[v] < Len(lines[v])
  BY <1>1 DEF More
<1>5. taken[v] + 1 \in DOMAIN channel[v] /\ taken[v] + 1 \in DOMAIN lines[v]
  BY <1>3, <1>4
<1>6. NextStamp(v) = channel[v][taken[v] + 1]
  BY DEF NextStamp
<1>7. NextStamp(v) \in 1 .. clock
  BY <1>5, <1>6 DEF Threads, Sends
<1>8. NextStamp(v) \in Stamp /\ NextStamp(v) \in Nat
  BY <1>3, <1>7, ClockAssumption
<1>9. last_stamp <= NextStamp(v)
  <2>1. ~(taken[v] + 1 <= taken[v])
    BY <1>3
  <2> QED
    BY <1>5, <1>6, <2>1 DEF Merge, Merged
<1>10. last_stamp' = NextStamp(v)
  BY <1>1, <1>3, <1>8, <1>9
<1>11. lines[v][taken[v] + 1] \in LinesOf(v)
  BY <1>3, <1>5
<1>12. lines[v][taken[v] + 1] \in RawLine
  BY <1>11 DEF LinesOf
<1>13. ticked = 0
  BY <1>1 DEF Merge
<1> QED
  BY <1>1, <1>2, <1>4, <1>5, <1>6, <1>7, <1>8, <1>9, <1>10, <1>11, <1>12, <1>13

LEMMA TickEffect ==
    ASSUME Threads, Merge, TypeOK, TickIdle
    PROVE  /\ ticked \in Venue /\ last_stamp + 1 \in Stamp /\ Tick(ticked, last_stamp + 1)
           /\ lanes'[ticked].frontier = last_stamp + 1
           /\ \A w \in Venue : /\ lanes'[w].buffer = lanes[w].buffer
                               /\ lanes'[w].last_seq = lanes[w].last_seq
                               /\ w # ticked => lanes'[w] = lanes[w]
           /\ ticked' = ticked + 1 /\ ticked' \in 1 .. K
           /\ \A w \in Venue : ~More(w)
<1>1. /\ \A w \in Venue : ~More(w)
      /\ ticked < K /\ ticked' = ticked + 1 /\ Tick(ticked, last_stamp + 1)
  BY DEF TickIdle, LastTick
<1>2. ticked \in Nat /\ K \in Nat /\ last_stamp \in 0 .. clock /\ clock \in 1 .. MaxClock
  BY KAssumption DEF Merge, Threads
<1>3. ticked \in Venue /\ ticked' \in 1 .. K
  BY <1>1, <1>2 DEF Venue
<1>4. last_stamp + 1 \in Stamp /\ last_stamp \in Nat
  BY <1>2, ClockAssumption
<1>5. lanes' = [lanes EXCEPT ![ticked] = Ticked(@, last_stamp + 1)]
  BY <1>1 DEF Tick
<1>6. lanes[ticked] \in Lane /\ lanes \in [Venue -> Lane]
  BY <1>3 DEF TypeOK
<1>7. /\ lanes'[ticked] = Ticked(lanes[ticked], last_stamp + 1)
      /\ \A w \in Venue : w # ticked => lanes'[w] = lanes[w]
  BY <1>3, <1>5, <1>6
<1>8. lanes[ticked].frontier <= last_stamp /\ lanes[ticked].frontier \in Nat
  BY <1>2, <1>3, <1>6 DEF Merge, Lane
<1>9. /\ Ticked(lanes[ticked], last_stamp + 1).frontier = last_stamp + 1
      /\ Ticked(lanes[ticked], last_stamp + 1).buffer = lanes[ticked].buffer
      /\ Ticked(lanes[ticked], last_stamp + 1).last_seq = lanes[ticked].last_seq
  BY <1>4, <1>6, <1>8 DEF Ticked, Lane
<1>10. \A w \in Venue : /\ lanes'[w].buffer = lanes[w].buffer
                         /\ lanes'[w].last_seq = lanes[w].last_seq
  BY <1>7, <1>9
<1> QED
  BY <1>1, <1>3, <1>4, <1>7, <1>9, <1>10

LEMMA StepIsIngesterStep ==
    Threads /\ Merge /\ TypeOK /\ [HarnessNext]_hvars => [IngesterNext]_allvars
<1> SUFFICES ASSUME Threads, Merge, TypeOK, [HarnessNext]_hvars
             PROVE  [IngesterNext]_allvars
  OBVIOUS
<1>1. CASE \E v \in Venue : Catch(v)
  BY <1>1, CatchEffect DEF IngesterNext
<1>2. CASE TickIdle
  <2>1. UNCHANGED ivars
    BY <1>2 DEF TickIdle
  <2> QED
    BY <1>2, <2>1, TickEffect DEF IngesterNext, Delegate
<1>3. CASE CallDrain \/ Draining \/ FlushNothing
  BY <1>3 DEF CallDrain, Draining, FlushNothing, IngesterNext, Delegate
<1>4. CASE \/ Advance \/ (\E v \in Venue : Sender(v)) \/ Collect \/ AssertTape \/ ReplayPush
           \/ ReplayFlush \/ Compare \/ AssertOverlap \/ Ended \/ UNCHANGED hvars
  BY <1>4 DEF Advance, Sender, TakeStamp, Send, Collect, AssertTape, ReplayPush, ReplayFlush,
     Compare, AssertOverlap, Ended, hvars
<1> QED
  BY <1>1, <1>2, <1>3, <1>4 DEF HarnessNext, Main

LEMMA SoundInit == HarnessInit => Sound
<1>1. HarnessInit => IngesterInit /\ Init
  BY DEF HarnessInit, IngesterInit
<1> QED
  BY <1>1, IInvInit, KnownInit, CountedInit DEF Sound

LEMMA SoundStep == Sound /\ Threads /\ Merge /\ [HarnessNext]_hvars => Sound'
<1> SUFFICES ASSUME Sound, Threads, Merge, [HarnessNext]_hvars
             PROVE  Sound'
  OBVIOUS
<1>1. [IngesterNext]_allvars
  BY StepIsIngesterStep DEF Sound, IInv
<1>2. [Next]_vars
  BY <1>1, IngesterStepIsSequencerStep DEF Sound, Known
<1> QED
  BY <1>1, <1>2, IInvStep, KnownStep, CountedStep DEF Sound

(* Steps of the threads, or that only move main on. *)
LEMMA MergeKept ==
    ASSUME Threads, Merge, UNCHANGED <<lines, taken, last_stamp, ticked>>,
           clock' >= clock, clock' \in Nat,
           \A v \in Venue : lanes'[v].frontier = lanes[v].frontier,
           \/ UNCHANGED <<channel, collected>> /\ (pc = "collect" <=> pc' = "collect")
           \/ UNCHANGED <<channel, collected>> /\ pc' # "collect" /\ \A v \in Venue : HungUp(v)
           \/ /\ UNCHANGED <<channel, pc>> /\ pc = "collect" /\ collected \in Venue
              /\ HungUp(collected) /\ collected' = collected + 1
           \/ /\ UNCHANGED <<collected, pc>>
              /\ \E v \in Venue : held[v] # None
                                  /\ channel' = [channel EXCEPT ![v] = Append(@, held[v])]
    PROVE  Merge'
<1>1. /\ last_stamp \in 0 .. clock' /\ ticked \in 0 .. K /\ taken \in [Venue -> Nat]
      /\ \A v \in Venue : IF v < ticked THEN lanes'[v].frontier = last_stamp + 1
                                        ELSE lanes'[v].frontier <= last_stamp
      /\ ticked # 0 => \A v \in Venue : ~More(v)'
  <2>1. last_stamp \in 0 .. clock'
    BY DEF Merge, Threads
  <2>2. \A v \in Venue : IF v < ticked THEN lanes'[v].frontier = last_stamp + 1
                                       ELSE lanes'[v].frontier <= last_stamp
    BY DEF Merge
  <2>3. \A v \in Venue : More(v)' = More(v)
    BY DEF More
  <2> QED
    BY <2>1, <2>2, <2>3 DEF Merge
<1>2. collected \in Nat /\ K \in Nat /\ Venue = 0 .. K - 1
  BY KAssumption DEF Merge, Venue
<1>3. CASE UNCHANGED channel
  <2>1. \A v \in Venue : Merged(channel'[v], taken[v], last_stamp) /\ HungUp(v)' = HungUp(v)
    BY <1>3 DEF Merge, HungUp
  <2>2. /\ collected' \in 0 .. K
        /\ \A v \in Venue : v < collected' \/ pc' # "collect" => HungUp(v)
        /\ pc' = "collect" => pc = "collect"
    <3>1. CASE UNCHANGED collected /\ (pc = "collect" <=> pc' = "collect")
      BY <3>1 DEF Merge
    <3>2. CASE UNCHANGED collected /\ pc' # "collect" /\ \A v \in Venue : HungUp(v)
      BY <3>2 DEF Merge
    <3>3. CASE /\ UNCHANGED pc /\ pc = "collect" /\ collected \in Venue
               /\ HungUp(collected) /\ collected' = collected + 1
      <4>1. collected' \in 0 .. K
        BY <1>2, <3>3
      <4>2. ASSUME NEW v \in Venue, v < collected'
            PROVE  HungUp(v)
        <5>1. v < collected \/ v = collected
          BY <1>2, <3>3, <4>2
        <5> QED
          BY <3>3, <5>1 DEF Merge
      <4> QED
        BY <3>3, <4>1, <4>2
    <3> QED
      BY <1>3, <3>1, <3>2, <3>3 DEF Threads
  <2> QED
    BY <1>1, <2>1, <2>2 DEF Merge
<1>4. CASE /\ UNCHANGED <<collected, pc>>
           /\ \E v \in Venue : held[v] # None
                               /\ channel' = [channel EXCEPT ![v] = Append(@, held[v])]
  <2>1. PICK v \in Venue : held[v] # None /\ channel' = [channel EXCEPT ![v] = Append(@, held[v])]
    BY <1>4
  <2>2. ~HungUp(v)
    <3>1. Len(channel[v]) \in Nat /\ Len(lines[v]) \in Nat
      BY MergeTypes
    <3>2. Len(channel[v]) + 1 <= Len(lines[v])
      BY <2>1 DEF Threads, Sends
    <3> QED
      BY <3>1, <3>2 DEF HungUp
  <2>3. pc = "collect" /\ last_stamp = 0 /\ ~(v < collected)
    BY <2>2 DEF Merge
  <2>4. /\ channel'[v] = Append(channel[v], held[v])
        /\ \A w \in Venue : w # v => channel'[w] = channel[w]
    BY <2>1 DEF Threads
  <2>5. \A w \in Venue : w < collected => HungUp(w)'
    <3>1. ASSUME NEW w \in Venue, w < collected
          PROVE  HungUp(w)'
      <4>1. w # v /\ HungUp(w)
        BY <2>3, <3>1 DEF Merge
      <4> QED
        BY <2>4, <4>1 DEF HungUp
    <3> QED
      BY <3>1
  <2>6. Merged(channel'[v], taken[v], last_stamp)
    <3>1. /\ channel[v] \in Seq(Nat) /\ held[v] \in Nat /\ taken[v] \in Nat
          /\ taken[v] <= Len(channel[v]) /\ Len(channel[v]) \in Nat
      BY MergeTypes DEF Threads
    <3>2. /\ DOMAIN channel'[v] = 1 .. Len(channel[v]) + 1 /\ Len(channel'[v]) = Len(channel[v]) + 1
          /\ DOMAIN channel[v] = 1 .. Len(channel[v])
          /\ \A n \in DOMAIN channel[v] : channel'[v][n] = channel[v][n]
          /\ channel'[v][Len(channel[v]) + 1] = held[v]
      BY <2>4, <3>1
    <3>3. ASSUME NEW n \in DOMAIN channel'[v]
          PROVE  IF n <= taken[v] THEN channel'[v][n] <= last_stamp ELSE last_stamp <= channel'[v][n]
      <4>1. CASE n = Len(channel[v]) + 1
        <5>1. ~(n <= taken[v]) /\ 0 <= held[v]
          BY <3>1, <4>1
        <5> QED
          BY <2>3, <3>2, <4>1, <5>1
      <4>2. CASE n # Len(channel[v]) + 1
        <5>1. n \in DOMAIN channel[v]
          BY <3>1, <3>2, <4>2
        <5> QED
          BY <3>2, <5>1 DEF Merge, Merged
      <4> QED
        BY <4>1, <4>2
    <3>4. taken[v] <= Len(channel'[v])
      BY <3>1, <3>2
    <3> QED
      BY <3>3, <3>4 DEF Merged
  <2>7. \A w \in Venue : Merged(channel'[w], taken[w], last_stamp)
    BY <2>4, <2>6 DEF Merge
  <2> QED
    BY <1>1, <1>4, <2>3, <2>5, <2>7 DEF Merge
<1> QED
  BY <1>3, <1>4

LEMMA MergeCatch ==
    ASSUME Sound, Threads, Merge, Phases, NEW v \in Venue, Catch(v)
    PROVE  Merge'
<1> DEFINE t == NextStamp(v)
           m == taken[v]
<1>1. /\ m + 1 \in DOMAIN channel[v] /\ m < Len(lines[v]) /\ t = channel[v][m + 1]
      /\ t \in 1 .. clock /\ t \in Stamp /\ last_stamp <= t /\ last_stamp' = t
      /\ lines[v][m + 1] \in LinesOf(v) /\ FillCaught(t, lines[v][m + 1])
      /\ taken' = [taken EXCEPT ![v] = @ + 1]
      /\ ticked = 0 /\ \A w \in Venue : HungUp(w)
  BY CatchEffect
<1>2. /\ pc = "catch" /\ pc' = "drain" /\ IsNext(v) /\ UNCHANGED <<threads, collected, ticked>>
  BY DEF Catch
<1>3. UNCHANGED <<clock, lines, held, channel, collected, ticked>>
  BY <1>2 DEF threads
<1>4. ~sealed /\ Known /\ Counted
  BY <1>2 DEF Phases, Sound
<1>5. /\ last_stamp \in Nat /\ t \in Nat /\ m \in Nat
      /\ \A w \in Venue : lanes[w].frontier \in Nat /\ lanes[w].frontier <= last_stamp /\ ~(w < 0)
  <2>1. /\ last_stamp \in Nat /\ t \in Nat /\ m \in Nat /\ \A w \in Venue : w \in Nat
    BY <1>1, MergeTypes
  <2>2. \A w \in Venue : ~(w < 0)
    BY <2>1
  <2> QED
    BY <1>1, <2>1, <2>2 DEF Merge, Sound, IInv, TypeOK, Lane
<1>6. lanes[v].frontier <= t
  BY <1>1, <1>5
<1>7. Advances(v, t)
  <2> HIDE DEF t
  <2> QED
    BY <1>1, <1>4, <1>6, CatchLine
<1>8. ASSUME NEW w \in Venue
      PROVE  lanes'[w].frontier <= t
  <2>1. CASE w = v
    BY <1>5, <1>7, <2>1 DEF Advances
  <2>2. CASE w # v
    <3>1. lanes'[w] = lanes[w]
      BY <1>7, <2>2 DEF Advances
    <3> QED
      BY <1>1, <1>5, <3>1
  <2> QED
    BY <2>1, <2>2
<1>9. ASSUME NEW w \in Venue
      PROVE  taken'[w] = IF w = v THEN m + 1 ELSE taken[w]
  BY <1>1 DEF Merge
<1>10. taken' \in [Venue -> Nat]
  BY <1>1, <1>5 DEF Merge
<1>11. ASSUME NEW w \in Venue
       PROVE  Merged(channel[w], taken'[w], t)
  <2>1. /\ channel[w] \in Seq(Nat) /\ Len(channel[w]) \in Nat /\ taken[w] \in Nat
        /\ taken[w] <= Len(channel[w]) /\ Len(channel[w]) = Len(lines[w])
    BY <1>1, MergeTypes DEF HungUp
  <2>2. taken'[w] <= Len(channel[w])
    BY <1>1, <1>9, <2>1
  <2>3. ASSUME NEW n \in DOMAIN channel[w]
        PROVE  IF n <= taken'[w] THEN channel[w][n] <= t ELSE t <= channel[w][n]
    <3>1. /\ n \in Nat /\ channel[w][n] \in Nat /\ n <= Len(channel[w])
          /\ IF n <= taken[w] THEN channel[w][n] <= last_stamp ELSE last_stamp <= channel[w][n]
          /\ \A o, p \in DOMAIN channel[w] : o < p => channel[w][o] <= channel[w][p]
      BY <2>1 DEF Merge, Merged, Threads, Sends
    <3>2. CASE n <= taken[w]
      <4>1. n <= taken'[w]
        BY <1>5, <1>9, <2>1, <3>1, <3>2
      <4>2. channel[w][n] <= t
        BY <1>1, <1>5, <3>1, <3>2
      <4> QED
        BY <4>1, <4>2
    <3>3. CASE ~(n <= taken[w]) /\ w = v
      <4>1. CASE n = m + 1
        <5>1. channel[w][n] = t /\ n <= taken'[w]
          BY <1>1, <1>5, <1>9, <3>3, <4>1
        <5> QED
          BY <1>5, <5>1
      <4>2. CASE n # m + 1
        <5>1. m + 1 < n /\ ~(n <= taken'[w])
          BY <1>5, <1>9, <3>1, <3>3, <4>2
        <5>2. t <= channel[w][n]
          BY <1>1, <3>1, <3>3, <5>1
        <5> QED
          BY <5>1, <5>2
      <4> QED
        BY <4>1, <4>2
    <3>4. CASE ~(n <= taken[w]) /\ w # v
      <4>1. taken'[w] = taken[w]
        BY <1>9, <3>4
      <4>2. More(w) /\ taken[w] + 1 \in DOMAIN channel[w]
        BY <2>1, <3>1, <3>4 DEF More
      <4>3. t <= NextStamp(w)
        <5>1. NextStamp(w) \in Nat
          BY <2>1, <4>2 DEF NextStamp
        <5>2. t < NextStamp(w) \/ t = NextStamp(w)
          BY <1>2, <4>2 DEF IsNext
        <5> QED
          BY <1>5, <5>1, <5>2
      <4>4. NextStamp(w) = channel[w][taken[w] + 1]
        BY DEF NextStamp
      <4>5. taken[w] + 1 <= n
        BY <2>1, <3>1, <3>4
      <4>6. channel[w][taken[w] + 1] <= channel[w][n] /\ channel[w][taken[w] + 1] \in Nat
        <5>1. CASE taken[w] + 1 = n
          BY <3>1, <5>1
        <5>2. CASE taken[w] + 1 # n
          <6>1. taken[w] + 1 < n
            BY <2>1, <3>1, <4>5, <5>2
          <6> QED
            BY <2>1, <3>1, <4>2, <6>1
        <5> QED
          BY <5>1, <5>2
      <4>7. t <= channel[w][n]
        BY <1>5, <3>1, <4>3, <4>4, <4>6
      <4> QED
        BY <3>4, <4>1, <4>7
    <3> QED
      BY <3>2, <3>3, <3>4
  <2> QED
    BY <2>2, <2>3 DEF Merged
<1>12. t \in 0 .. clock
  BY <1>1
<1>13. \A w \in Venue : HungUp(w)'
  BY <1>1, <1>3 DEF HungUp
<1> HIDE DEF t, m
<1> QED
  BY <1>1, <1>2, <1>3, <1>5, <1>8, <1>10, <1>11, <1>12, <1>13 DEF Merge

LEMMA MergeTick ==
    ASSUME Sound, Threads, Merge, TickIdle
    PROVE  Merge'
<1>1. /\ ticked \in Venue /\ lanes'[ticked].frontier = last_stamp + 1
      /\ \A w \in Venue : w # ticked => lanes'[w] = lanes[w]
      /\ ticked' = ticked + 1 /\ ticked' \in 1 .. K
      /\ \A w \in Venue : ~More(w)
  BY TickEffect DEF Sound, IInv
<1>2. /\ UNCHANGED <<clock, lines, held, channel, collected, taken, last_stamp>>
      /\ pc = "catch" /\ pc' # "collect"
  BY DEF TickIdle, threads
<1>3. ASSUME NEW w \in Venue
      PROVE  IF w < ticked' THEN lanes'[w].frontier = last_stamp + 1
                            ELSE lanes'[w].frontier <= last_stamp
  <2>1. w \in Nat /\ ticked \in Nat
    BY MergeTypes
  <2>2. CASE w = ticked
    BY <1>1, <2>1, <2>2
  <2>3. CASE w # ticked
    <3>1. lanes'[w] = lanes[w] /\ (w < ticked' <=> w < ticked)
      BY <1>1, <2>1, <2>3
    <3> QED
      BY <3>1 DEF Merge
  <2> QED
    BY <2>2, <2>3
<1>4. /\ \A w \in Venue : ~More(w)' /\ HungUp(w)' = HungUp(w)
      /\ ticked' \in 0 .. K
  BY <1>1, <1>2 DEF More, HungUp
<1> QED
  BY <1>1, <1>2, <1>3, <1>4 DEF Merge

LEMMA MergeStep == Sound /\ Threads /\ Merge /\ Phases /\ [HarnessNext]_hvars => Merge'
<1> SUFFICES ASSUME Sound, Threads, Merge, Phases, [HarnessNext]_hvars
             PROVE  Merge'
  OBVIOUS
<1>1. clock \in Nat
  BY DEF Threads
<1>2. CASE \E v \in Venue : Catch(v)
  BY <1>2, MergeCatch
<1>3. CASE TickIdle
  BY <1>3, MergeTick
<1>4. CASE \E v \in Venue : Send(v)
  <2>1. PICK v \in Venue : Send(v)
    BY <1>4
  <2>2. /\ UNCHANGED <<lines, taken, last_stamp, ticked, clock, lanes, collected, pc>>
        /\ held[v] # None /\ channel' = [channel EXCEPT ![v] = Append(@, held[v])]
    BY <2>1 DEF Send, allvars, vars, main
  <2>3. clock' \in Nat /\ clock' >= clock /\ lanes' = lanes
    BY <1>1, <2>2
  <2> QED
    BY <2>2, <2>3, MergeKept
<1>5. CASE Collect
  <2>1. /\ UNCHANGED <<lines, taken, last_stamp, ticked, clock, lanes, channel>>
        /\ pc = "collect"
    BY <1>5 DEF Collect, threads, allvars, vars
  <2>2. CASE collected = K
    <3>1. UNCHANGED collected /\ pc' = "catch"
      BY <1>5, <2>2 DEF Collect
    <3>2. \A v \in Venue : HungUp(v)
      <4>1. ASSUME NEW v \in Venue
            PROVE  v < collected
        BY <2>2, KAssumption DEF Venue
      <4> QED
        BY <4>1 DEF Merge
    <3> QED
      BY <1>1, <2>1, <3>1, <3>2, MergeKept
  <2>3. CASE collected # K
    <3>1. HungUp(collected) /\ collected' = collected + 1 /\ UNCHANGED pc
      BY <1>5, <2>3 DEF Collect
    <3>2. collected \in Venue
      BY <2>3, KAssumption DEF Merge, Venue
    <3> QED
      BY <1>1, <2>1, <3>1, <3>2, MergeKept
  <2> QED
    BY <2>2, <2>3
<1>6. CASE \/ Advance \/ (\E v \in Venue : TakeStamp(v)) \/ Ended \/ UNCHANGED hvars
  <2>1. /\ UNCHANGED <<lines, taken, last_stamp, ticked, lanes, collected, pc, channel>>
        /\ clock' \in Nat /\ clock' >= clock
    <3>1. CASE Advance
      BY <1>1, <3>1 DEF Advance, main, allvars, vars
    <3>2. CASE \E v \in Venue : TakeStamp(v)
      BY <1>1, <3>2 DEF TakeStamp, main, allvars, vars
    <3>3. CASE Ended \/ UNCHANGED hvars
      BY <1>1, <3>3 DEF Ended, hvars, main, threads, allvars, vars
    <3> QED
      BY <1>6, <3>1, <3>2, <3>3
  <2> QED
    BY <2>1, MergeKept
<1>7. CASE \/ CallDrain \/ Draining \/ FlushNothing \/ AssertTape \/ ReplayPush \/ ReplayFlush
           \/ Compare \/ AssertOverlap
  <2>1. /\ UNCHANGED <<lines, taken, last_stamp, ticked, clock, collected, channel>>
        /\ pc # "collect" /\ pc' # "collect"
    BY <1>7 DEF CallDrain, Draining, FlushNothing, AssertTape, ReplayPush, ReplayFlush, Compare,
       AssertOverlap,
       threads
  <2>2. \A v \in Venue : lanes'[v].frontier = lanes[v].frontier
    <3>1. CASE \E w \in Venue : DrainEmit(w)
      <4>1. lanes \in [Venue -> Lane]
        BY DEF Sound, IInv, TypeOK
      <4> QED
        BY <3>1, <4>1 DEF DrainEmit, Popped, Lane
    <3>2. CASE UNCHANGED lanes
      BY <3>2
    <3>3. (\E w \in Venue : DrainEmit(w)) \/ UNCHANGED lanes
      BY <1>7 DEF CallDrain, DrainReady, Draining, DrainReturn, FlushNothing, Flush, AssertTape,
         ReplayPush, ReplayFlush, Compare, AssertOverlap, allvars, vars
    <3> QED
      BY <3>1, <3>2, <3>3
  <2>3. clock' \in Nat /\ clock' >= clock
    BY <1>1, <2>1
  <2> QED
    BY <2>1, <2>2, <2>3, MergeKept
<1> QED
  BY <1>2, <1>3, <1>4, <1>5, <1>6, <1>7 DEF HarnessNext, Sender, Main

-----------------------------------------------------------------------------
(* What the sequencer holds and has published. *)

(* A fill carries the stamp its thread took for the line it came from. *)
Timed(e, sent, list, took) ==
    \E n \in 1 .. took[e.fill.venue] :
        /\ sent[e.fill.venue][n] = e.recv_ts
        /\ Canon[list[e.fill.venue][n].parsed] = e.fill

AllTimed ==
    /\ \A v \in Venue : \A j \in DOMAIN lanes[v].buffer :
          Timed(lanes[v].buffer[j], channel, lines, taken)
    /\ \A i \in DOMAIN tape : Timed(tape[i], channel, lines, taken)

Following ==
    \A v \in Venue : Follows(v, lines[v], taken[v], Out(v), seen, lanes[v].last_seq)

LEMMA FollowingInit == HarnessInit => AllTimed /\ Following
<1> SUFFICES ASSUME HarnessInit
             PROVE  AllTimed /\ Following
  OBVIOUS
<1>1. Init /\ seen = << >> /\ taken = [v \in Venue |-> 0] /\ FromSource(lines)
  BY DEF HarnessInit, IngesterInit, FromSource
<1>2. AllTimed
  BY <1>1 DEF AllTimed, Init, NewLane
<1>3. ASSUME NEW v \in Venue
      PROVE  Follows(v, lines[v], taken[v], Out(v), seen, lanes[v].last_seq)
  <2>1. taken[v] = 0 /\ lines[v] \in Seq(LinesOf(v))
    BY <1>1, SourceLines
  <2> QED
    BY <1>1, <2>1, FollowsNone
<1> QED
  BY <1>2, <1>3 DEF Following

(* What the steps do to the ingester and its lines. *)
LEMMA StepEffect ==
    ASSUME TypeOK, Threads, Merge, [HarnessNext]_hvars
    PROVE  \/ \E v \in Venue : Catch(v)
           \/ (\E v \in Venue : DrainEmit(v)) /\ UNCHANGED <<seen, lines, taken, channel>>
           \/ BuffersKept /\ UNCHANGED <<tape, seen, lines, taken>>
                 /\ (channel' = channel \/ \E v \in Venue : Send(v))
<1>1. CASE TickIdle
  <2>1. \A w \in Venue : lanes'[w].buffer = lanes[w].buffer /\ lanes'[w].last_seq = lanes[w].last_seq
    BY <1>1, TickEffect
  <2>2. UNCHANGED <<tape, seen, lines, taken, channel>>
    BY <1>1 DEF TickIdle, Tick, ivars, threads
  <2> QED
    BY <2>1, <2>2 DEF BuffersKept
<1>2. CASE Draining /\ \E v \in Venue : DrainEmit(v)
  <2>1. UNCHANGED <<seen, lines, taken, channel>>
    BY <1>2 DEF Draining, ivars, threads
  <2> QED
    BY <1>2, <2>1
<1>3. CASE \/ Advance \/ (\E v \in Venue : Sender(v)) \/ Collect \/ CallDrain
           \/ (Draining /\ DrainReturn) \/ FlushNothing
           \/ AssertTape \/ ReplayPush \/ ReplayFlush \/ Compare \/ AssertOverlap \/ Ended
           \/ UNCHANGED hvars
  <2>1. UNCHANGED <<lanes, tape, seen, lines, taken>>
    BY <1>3 DEF Advance, Sender, TakeStamp, Send, Collect, CallDrain, DrainReady, Draining,
       DrainReturn, FlushNothing, Flush, AssertTape, ReplayPush, ReplayFlush, Compare,
       AssertOverlap, Ended,
       hvars, main, threads, allvars, vars, ivars
  <2>2. channel' = channel \/ \E v \in Venue : Send(v)
    BY <1>3 DEF Advance, Sender, TakeStamp, Collect, CallDrain, Draining,
       FlushNothing, AssertTape, ReplayPush, ReplayFlush, Compare, AssertOverlap, Ended,
       hvars, threads
  <2> QED
    BY <2>1, <2>2 DEF BuffersKept
<1> QED
  BY <1>1, <1>2, <1>3 DEF HarnessNext, Main, Draining

LEMMA TimedLater ==
    ASSUME NEW e, NEW sent, NEW list, NEW took, Timed(e, sent, list, took), e.fill.venue \in Venue,
           NEW sent2, NEW took2,
           \A v \in Venue : /\ took[v] \in Nat /\ took2[v] \in Nat /\ took[v] <= took2[v]
                            /\ \A n \in 1 .. took[v] : sent2[v][n] = sent[v][n]
    PROVE  Timed(e, sent2, list, took2)
<1> DEFINE v == e.fill.venue
<1>1. PICK n \in 1 .. took[v] : sent[v][n] = e.recv_ts /\ Canon[list[v][n].parsed] = e.fill
  BY DEF Timed
<1>2. n \in 1 .. took2[v] /\ sent2[v][n] = e.recv_ts
  BY <1>1
<1> QED
  BY <1>1, <1>2 DEF Timed

LEMMA HeldTypes ==
    ASSUME TypeOK
    PROVE  /\ \A v \in Venue : \A j \in DOMAIN lanes[v].buffer :
                 lanes[v].buffer[j] \in Stamped /\ lanes[v].buffer[j].fill.venue \in Venue
           /\ \A i \in DOMAIN tape : tape[i] \in SequencedFill /\ tape[i].fill.venue \in Venue
<1>1. ASSUME NEW v \in Venue, NEW j \in DOMAIN lanes[v].buffer
      PROVE  lanes[v].buffer[j] \in Stamped /\ lanes[v].buffer[j].fill.venue \in Venue
  <2>1. lanes[v].buffer \in Seq(Stamped)
    BY DEF TypeOK, Lane
  <2>2. lanes[v].buffer[j] \in Stamped
    BY <2>1
  <2> QED
    BY <2>2, FillAssumption DEF Stamped
<1>2. ASSUME NEW i \in DOMAIN tape
      PROVE  tape[i] \in SequencedFill /\ tape[i].fill.venue \in Venue
  <2>1. tape[i] \in SequencedFill
    BY DEF TypeOK
  <2> QED
    BY <2>1, FillAssumption DEF SequencedFill
<1> QED
  BY <1>1, <1>2

(* Stamps stay when channels and counts only grow. *)
LEMMA TimesGrow ==
    ASSUME TypeOK, AllTimed, lines' = lines,
           \A v \in Venue : /\ taken[v] \in Nat /\ taken'[v] \in Nat /\ taken[v] <= taken'[v]
                            /\ \A n \in 1 .. taken[v] : channel'[v][n] = channel[v][n]
    PROVE  /\ \A v \in Venue : \A j \in DOMAIN lanes[v].buffer :
                 Timed(lanes[v].buffer[j], channel', lines', taken')
           /\ \A i \in DOMAIN tape : Timed(tape[i], channel', lines', taken')
<1>1. ASSUME NEW v \in Venue, NEW j \in DOMAIN lanes[v].buffer
      PROVE  Timed(lanes[v].buffer[j], channel', lines', taken')
  <2>1. Timed(lanes[v].buffer[j], channel, lines, taken) /\ lanes[v].buffer[j].fill.venue \in Venue
    BY HeldTypes DEF AllTimed
  <2>2. Timed(lanes[v].buffer[j], channel', lines, taken')
    BY <2>1, TimedLater
  <2> QED
    BY <2>2
<1>2. ASSUME NEW i \in DOMAIN tape
      PROVE  Timed(tape[i], channel', lines', taken')
  <2>1. Timed(tape[i], channel, lines, taken) /\ tape[i].fill.venue \in Venue
    BY HeldTypes DEF AllTimed
  <2>2. Timed(tape[i], channel', lines, taken')
    BY <2>1, TimedLater
  <2> QED
    BY <2>2
<1> QED
  BY <1>1, <1>2

LEMMA CatchFollows ==
    ASSUME Sound, Threads, Merge, Phases, AllTimed, Following, NEW v \in Venue, Catch(v)
    PROVE  AllTimed' /\ Following'
<1> DEFINE t == NextStamp(v)
           m == taken[v]
           list == lines[v]
           line == list[m + 1]
<1>1. /\ m + 1 \in DOMAIN channel[v] /\ m < Len(list) /\ t = channel[v][m + 1]
      /\ t \in Stamp /\ last_stamp <= t
      /\ line \in LinesOf(v) /\ FillCaught(t, line)
      /\ taken' = [taken EXCEPT ![v] = @ + 1] /\ ticked = 0
  BY CatchEffect
<1>2. pc = "catch" /\ UNCHANGED <<lines, channel>>
  BY DEF Catch, threads
<1>3. ~sealed /\ Known /\ Counted /\ TypeOK
  BY <1>2 DEF Phases, Sound, IInv
<1>4. /\ last_stamp \in Nat /\ t \in Nat /\ m \in Nat /\ list \in Seq(LinesOf(v))
      /\ lanes[v].frontier \in Nat /\ lanes[v].frontier <= last_stamp
  <2>1. /\ last_stamp \in Nat /\ t \in Nat /\ m \in Nat /\ ~(v < 0) /\ list \in Seq(LinesOf(v))
    BY <1>1, MergeTypes, StampAssumption
  <2> QED
    BY <1>1, <1>3, <2>1 DEF Merge, TypeOK, Lane
<1>5. lanes[v].frontier <= t
  BY <1>1, <1>4
<1>6. ASSUME NEW w \in Venue
      PROVE  taken'[w] = IF w = v THEN m + 1 ELSE taken[w]
  BY <1>1 DEF Merge
<1>7. Follows(v, list, m + 1, Out(v)', seen', lanes'[v].last_seq)
  <2>1. Follows(v, list, m, Out(v), seen, lanes[v].last_seq)
    BY DEF Following
  <2> HIDE DEF t, m, list
  <2> QED
    BY <1>1, <1>3, <1>4, <1>5, <2>1, FollowsCatch
<1>8. ASSUME NEW w \in Venue, w # v
      PROVE  Follows(w, lines[w], taken[w], Out(w)', seen', lanes'[w].last_seq)
  <2>1. Follows(w, lines[w], taken[w], Out(w), seen, lanes[w].last_seq)
    BY DEF Following
  <2> HIDE DEF t, m, list, line
  <2> QED
    BY <1>1, <1>3, <1>5, <1>8, <2>1, FollowsOther
<1>9. Following'
  <2>1. ASSUME NEW w \in Venue
        PROVE  Follows(w, lines[w], taken[w], Out(w), seen, lanes[w].last_seq)'
    <3>1. lines'[w] = lines[w]
      BY <1>2
    <3>2. CASE w = v
      BY <1>6, <1>7, <3>1, <3>2
    <3>3. CASE w # v
      BY <1>6, <1>8, <3>1, <3>3
    <3> QED
      BY <3>2, <3>3
  <2> QED
    BY <2>1 DEF Following
<1>10. /\ \A w \in Venue : \A j \in DOMAIN lanes[w].buffer :
             Timed(lanes[w].buffer[j], channel', lines', taken')
       /\ \A i \in DOMAIN tape : Timed(tape[i], channel', lines', taken')
  <2>1. \A w \in Venue : /\ taken[w] \in Nat /\ taken'[w] \in Nat /\ taken[w] <= taken'[w]
                         /\ \A n \in 1 .. taken[w] : channel'[w][n] = channel[w][n]
    BY <1>2, <1>4, <1>6 DEF Merge
  <2> QED
    BY <1>2, <1>3, <2>1, TimesGrow
<1>11. /\ tape' = tape
       /\ \/ BuffersKept
          \/ line.parsed # Malformed /\ Buffers(line.parsed, t)
  <2> HIDE DEF t, line
  <2>1. /\ tape' = tape
        /\ CaughtNoEvent(v, line) \/ CaughtCopy(line) \/ CaughtRejected(line)
              \/ CaughtLate(v, line) \/ CaughtInOrder(v, line, t)
    BY <1>1, <1>3, <1>5, CatchLine
  <2> QED
    BY <2>1 DEF CaughtNoEvent, CaughtCopy, CaughtRejected, CaughtLate, CaughtInOrder
<1>12. CASE BuffersKept
  <2>1. AllTimed'
    BY <1>10, <1>11, <1>12 DEF AllTimed, BuffersKept
  <2> QED
    BY <1>9, <2>1
<1>13. CASE line.parsed # Malformed /\ Buffers(line.parsed, t)
  <2> DEFINE e == line.parsed
             new == [recv_ts |-> t, fill |-> Canon[e]]
  <2>1. /\ e.venue = v /\ Canon[e] \in Fill /\ Canon[e].venue = v
    BY <1>1, <1>13, RawEventTypes, CanonAssumption DEF LinesOf, Buffers
  <2>2. /\ lanes'[v].buffer = Append(lanes[v].buffer, new)
        /\ \A w \in Venue : w # v => lanes'[w] = lanes[w]
    <3>1. \A w \in Venue : lanes'[w] = IF w = v THEN Pushed(Ticked(lanes[w], t), t, Canon[e])
                                               ELSE lanes[w]
      BY <1>13, <2>1 DEF Buffers
    <3>2. Ticked(lanes[v], t).buffer = lanes[v].buffer
      BY <1>3 DEF Ticked, TypeOK, Lane
    <3>3. Pushed(Ticked(lanes[v], t), t, Canon[e]).buffer
             = Append(Ticked(lanes[v], t).buffer, [recv_ts |-> t, fill |-> Canon[e]])
      BY DEF Pushed
    <3> HIDE DEF t, e
    <3> QED
      BY <3>1, <3>2, <3>3
  <2>3. Timed(new, channel', lines', taken')
    <3>1. m + 1 \in 1 .. taken'[v] /\ channel'[v][m + 1] = t /\ lines'[v][m + 1].parsed = e
      <4>1. taken'[v] = m + 1 /\ m \in Nat
        BY <1>4, <1>6
      <4>2. m + 1 \in 1 .. taken'[v]
        BY <4>1
      <4>3. channel' = channel /\ lines' = lines
        BY <1>2
      <4> QED
        BY <1>1, <4>2, <4>3
    <3>2. new.fill = Canon[e] /\ new.recv_ts = t /\ new.fill.venue = v
      BY <2>1
    <3> HIDE DEF new, e, t, m
    <3> QED
      BY <3>1, <3>2 DEF Timed
  <2>4. ASSUME NEW w \in Venue, NEW j \in DOMAIN lanes'[w].buffer
        PROVE  Timed(lanes'[w].buffer[j], channel', lines', taken')
    <3>1. CASE w # v
      BY <1>10, <2>2, <2>4, <3>1
    <3>2. CASE w = v
      <4>1. lanes[v].buffer \in Seq(Stamped)
        BY <1>3 DEF TypeOK, Lane
      <4> HIDE DEF new
      <4>2. \/ j \in DOMAIN lanes[v].buffer /\ lanes'[v].buffer[j] = lanes[v].buffer[j]
            \/ lanes'[v].buffer[j] = new
        <5>1. /\ DOMAIN lanes[v].buffer = 1 .. Len(lanes[v].buffer) /\ Len(lanes[v].buffer) \in Nat
              /\ j \in 1 .. Len(lanes[v].buffer) + 1
          BY <2>2, <2>4, <3>2, <4>1
        <5>2. CASE j = Len(lanes[v].buffer) + 1
          BY <2>2, <4>1, <5>1, <5>2
        <5>3. CASE j # Len(lanes[v].buffer) + 1
          <6>1. j \in DOMAIN lanes[v].buffer
            BY <5>1, <5>3
          <6> QED
            BY <2>2, <4>1, <6>1
        <5> QED
          BY <5>2, <5>3
      <4> QED
        BY <1>10, <2>3, <3>2, <4>2
    <3> QED
      BY <3>1, <3>2
  <2> QED
    BY <1>9, <1>10, <1>11, <2>4 DEF AllTimed
<1> QED
  BY <1>11, <1>12, <1>13

LEMMA EmitTimed ==
    ASSUME TypeOK, AllTimed, NEW v \in Venue, DrainEmit(v), UNCHANGED <<lines, taken, channel>>
    PROVE  AllTimed'
<1>1. /\ 1 \in DOMAIN lanes[v].buffer
      /\ DOMAIN tape = 1 .. Len(tape) /\ DOMAIN tape' = 1 .. (Len(tape) + 1) /\ Len(tape) \in Nat
      /\ \A i \in DOMAIN tape : tape'[i] = tape[i]
      /\ \A w \in Venue : \A j \in DOMAIN lanes'[w].buffer :
            \E old \in DOMAIN lanes[w].buffer : lanes'[w].buffer[j] = lanes[w].buffer[old]
  BY EmittedPlaces
<1>2. /\ tape'[Len(tape) + 1].fill = lanes[v].buffer[1].fill
      /\ tape'[Len(tape) + 1].recv_ts = lanes[v].buffer[1].recv_ts
  <2>1. HeadOf(v) = lanes[v].buffer[1]
    BY HeadTypes DEF DrainEmit, CanEmit, IsBest
  <2>2. tape' = Append(tape, [global_seq |-> next_global_seq, recv_ts |-> HeadOf(v).recv_ts,
                              fill |-> HeadOf(v).fill])
    BY DEF DrainEmit
  <2>3. tape \in Seq(SequencedFill)
    BY DEF TypeOK
  <2>4. tape'[Len(tape) + 1] = [global_seq |-> next_global_seq, recv_ts |-> HeadOf(v).recv_ts,
                                fill |-> HeadOf(v).fill]
    BY <2>2, <2>3
  <2> QED
    BY <2>1, <2>4
<1>3. Timed(tape'[Len(tape) + 1], channel, lines, taken)
  <2>1. Timed(lanes[v].buffer[1], channel, lines, taken)
    BY <1>1 DEF AllTimed
  <2> DEFINE old == lanes[v].buffer[1]
             new == tape'[Len(tape) + 1]
  <2>2. new.fill = old.fill /\ new.recv_ts = old.recv_ts /\ Timed(old, channel, lines, taken)
    BY <1>2, <2>1
  <2> HIDE DEF old, new
  <2>3. Timed(new, channel, lines, taken)
    BY <2>2 DEF Timed
  <2> QED
    BY <2>3 DEF new
<1>4. ASSUME NEW i \in DOMAIN tape'
      PROVE  Timed(tape'[i], channel', lines', taken')
  <2>1. CASE i = Len(tape) + 1
    BY <1>3, <2>1
  <2>2. CASE i # Len(tape) + 1
    <3>1. i \in DOMAIN tape
      BY <1>1, <2>2
    <3> QED
      BY <1>1, <3>1 DEF AllTimed
  <2> QED
    BY <2>1, <2>2
<1>5. ASSUME NEW w \in Venue, NEW j \in DOMAIN lanes'[w].buffer
      PROVE  Timed(lanes'[w].buffer[j], channel', lines', taken')
  <2>1. PICK old \in DOMAIN lanes[w].buffer : lanes'[w].buffer[j] = lanes[w].buffer[old]
    BY <1>1
  <2> QED
    BY <2>1 DEF AllTimed
<1> QED
  BY <1>4, <1>5 DEF AllTimed

LEMMA FollowingStep ==
    ASSUME Sound, Threads, Merge, Phases, AllTimed, Following, [HarnessNext]_hvars
    PROVE  AllTimed' /\ Following'
<1>1. TypeOK /\ LanesOrdered
  BY DEF Sound, IInv
<1>2. CASE \E v \in Venue : Catch(v)
  BY <1>2, CatchFollows
<1>3. CASE (\E v \in Venue : DrainEmit(v)) /\ UNCHANGED <<seen, lines, taken, channel>>
  <2>1. AllTimed'
    BY <1>1, <1>3, EmitTimed
  <2>2. ASSUME NEW v \in Venue
        PROVE  Follows(v, lines[v], taken[v], Out(v)', seen', lanes'[v].last_seq)
    BY <1>1, <1>3, FollowsKept DEF Following
  <2> QED
    BY <1>3, <2>1, <2>2 DEF Following
<1>4. CASE BuffersKept /\ UNCHANGED <<tape, seen, lines, taken>>
              /\ (channel' = channel \/ \E v \in Venue : Send(v))
  <2>1. \A v \in Venue : /\ taken[v] \in Nat /\ taken'[v] \in Nat /\ taken[v] <= taken'[v]
                         /\ \A n \in 1 .. taken[v] : channel'[v][n] = channel[v][n]
    <3>1. ASSUME NEW v \in Venue, NEW n \in 1 .. taken[v]
          PROVE  channel'[v][n] = channel[v][n]
      <4>1. CASE channel' = channel
        BY <4>1
      <4>2. ASSUME NEW w \in Venue, Send(w)
            PROVE  channel'[v][n] = channel[v][n]
        <5>1. channel' = [channel EXCEPT ![w] = Append(@, held[w])]
          BY <4>2 DEF Send
        <5>2. channel'[v] = IF v = w THEN Append(channel[v], held[v]) ELSE channel[v]
          BY <5>1 DEF Threads
        <5>3. channel[v] \in Seq(Nat) /\ taken[v] \in Nat /\ taken[v] <= Len(channel[v])
              /\ held[v] \in Nat
          BY MergeTypes DEF Threads
        <5>4. n \in DOMAIN channel[v]
          BY <5>3
        <5> QED
          BY <5>2, <5>3, <5>4
      <4> QED
        BY <1>4, <4>1, <4>2
    <3>2. \A v \in Venue : taken[v] \in Nat /\ taken'[v] \in Nat /\ taken[v] <= taken'[v]
      BY <1>4 DEF Merge
    <3> QED
      BY <3>1, <3>2
  <2>2. AllTimed'
    <3>1. /\ \A v \in Venue : \A j \in DOMAIN lanes[v].buffer :
                Timed(lanes[v].buffer[j], channel', lines', taken')
          /\ \A i \in DOMAIN tape : Timed(tape[i], channel', lines', taken')
      BY <1>1, <1>4, <2>1, TimesGrow
    <3> QED
      BY <1>4, <3>1 DEF AllTimed, BuffersKept
  <2>3. ASSUME NEW v \in Venue
        PROVE  Follows(v, lines[v], taken[v], Out(v)', seen', lanes'[v].last_seq)
    BY <1>1, <1>4, FollowsKept DEF Following
  <2> QED
    BY <1>4, <2>2, <2>3 DEF Following
<1> QED
  BY <1>1, <1>2, <1>3, <1>4, StepEffect

-----------------------------------------------------------------------------
(* Where main is.  Once every frontier is past the last stamp no head is   *)
(* gated, so the drain that follows the ticks leaves nothing.              *)

Past == {"idle", "flush", "assert", "replay", "compare", "overlap", "panicked", "done"}

LEMMA NothingIsGated ==
    ASSUME Sound, Threads, Merge, AllTimed, ticked = K, draining = "ready",
           \A v \in Venue : ~CanEmit(v)
    PROVE  \A v \in Venue : lanes[v].buffer = << >>
<1> SUFFICES ASSUME NEW u \in Venue, NonEmpty(u)
             PROVE  FALSE
  BY DEF NonEmpty
<1>1. TypeOK
  BY DEF Sound, IInv
<1>2. PICK v \in Venue : IsBest(v)
  BY <1>1, BestExists
<1>3. HeadOf(v) = lanes[v].buffer[1] /\ 1 \in DOMAIN lanes[v].buffer /\ HeadOf(v).recv_ts \in Nat
  BY <1>1, <1>2, HeadTypes DEF IsBest
<1>4. HeadOf(v).recv_ts <= last_stamp
  <2> DEFINE e == lanes[v].buffer[1]
  <2>1. Timed(e, channel, lines, taken) /\ e.fill.venue \in Venue
    BY <1>1, <1>3, HeldTypes DEF AllTimed
  <2>2. PICK n \in 1 .. taken[e.fill.venue] : channel[e.fill.venue][n] = e.recv_ts
    BY <2>1 DEF Timed
  <2>3. n \in DOMAIN channel[e.fill.venue] /\ n <= taken[e.fill.venue]
    <3>1. ASSUME NEW w \in Venue, NEW o \in 1 .. taken[w]
          PROVE  o \in DOMAIN channel[w] /\ o <= taken[w]
      BY MergeTypes
    <3> HIDE DEF e
    <3> QED
      BY <2>1, <3>1
  <2>4. e.recv_ts <= last_stamp
    BY <2>1, <2>2, <2>3 DEF Merge, Merged
  <2> QED
    BY <1>3, <2>4
<1>5. ASSUME NEW w \in Venue
      PROVE  lanes[w].frontier > HeadOf(v).recv_ts
  <2>1. w < ticked /\ last_stamp \in Nat
    BY MergeTypes, KAssumption DEF Venue
  <2>2. lanes[w].frontier = last_stamp + 1
    BY <2>1 DEF Merge
  <2> QED
    BY <1>3, <1>4, <2>1, <2>2
<1>6. Emittable(v, HeadOf(v).recv_ts)
  <2>1. \A w \in Venue : lanes[w].frontier \in Nat
    BY <1>1 DEF TypeOK, Lane
  <2> QED
    BY <1>3, <1>5, <2>1 DEF Emittable
<1> QED
  BY <1>2, <1>6 DEF CanEmit

LEMMA PhasesStep ==
    ASSUME Sound, Threads, Merge, Phases, AllTimed, [HarnessNext]_hvars
    PROVE  Phases'
<1>1. CASE \E v \in Venue : Catch(v)
  <2>1. pc = "catch" /\ pc' = "drain" /\ sealed' = sealed /\ draining' = draining
    BY <1>1 DEF Catch, FillCaught
  <2> QED
    BY <2>1 DEF Phases
<1>2. CASE TickIdle
  <2>1. /\ pc = "catch" /\ sealed' = sealed /\ draining' = draining
        /\ ticked < K /\ ticked' = ticked + 1
        /\ pc' = IF ticked' = K THEN "drain" ELSE "catch"
    BY <1>2 DEF TickIdle, Tick
  <2>2. ticked \in Nat /\ K \in Nat
    BY KAssumption DEF Merge
  <2>3. CASE ticked' = K
    BY <2>1, <2>3 DEF Phases
  <2>4. CASE ticked' # K
    <3>1. ticked' < K
      BY <2>1, <2>2, <2>4
    <3> QED
      BY <2>1, <2>4, <3>1 DEF Phases
  <2> QED
    BY <2>3, <2>4
<1>3. CASE CallDrain
  <2>1. pc = "drain" /\ pc' = "draining" /\ draining' = "ready" /\ sealed' = sealed
    BY <1>3 DEF CallDrain, DrainReady
  <2> QED
    BY <2>1 DEF Phases
<1>4. CASE Draining /\ (\E v \in Venue : DrainEmit(v)) /\ UNCHANGED pc
  <2>1. pc = "draining" /\ UNCHANGED <<pc, sealed, draining>>
    BY <1>4 DEF Draining, DrainEmit
  <2> QED
    BY <2>1 DEF Phases
<1>5. CASE Draining /\ DrainReturn /\ pc' = IF ticked = K THEN "idle" ELSE "catch"
  <2>1. /\ pc = "draining" /\ draining' = "no" /\ UNCHANGED <<sealed, lanes, ticked>>
        /\ \A v \in Venue : ~CanEmit(v)
    BY <1>5 DEF Draining, DrainReturn
  <2>2. draining = "ready" /\ ~sealed
    BY <2>1 DEF Phases
  <2>3. CASE ticked = K
    <3>1. \A v \in Venue : lanes[v].buffer = << >>
      BY <2>1, <2>2, <2>3, NothingIsGated
    <3> QED
      BY <1>5, <2>1, <2>3, <3>1 DEF Phases
  <2>4. CASE ticked # K
    <3>1. ticked < K
      BY <2>4, KAssumption DEF Merge
    <3> QED
      BY <1>5, <2>1, <2>2, <2>4, <3>1 DEF Phases
  <2> QED
    BY <2>3, <2>4
<1>6. CASE FlushNothing
  <2>1. CASE pc = "idle" /\ Flush /\ pc' = "flush"
    <3>1. UNCHANGED <<lanes, ticked>>
      BY <1>6, <2>1 DEF FlushNothing, Flush
    <3> QED
      BY <2>1, <3>1 DEF Phases
  <2>2. CASE pc = "flush" /\ DrainReturn /\ pc' = "assert"
    <3>1. draining' = "no" /\ UNCHANGED <<lanes, ticked>>
      BY <1>6, <2>2 DEF FlushNothing, DrainReturn
    <3> QED
      BY <2>2, <3>1 DEF Phases
  <2> QED
    BY <1>6, <2>1, <2>2 DEF FlushNothing
<1>7. CASE AssertTape \/ ReplayPush \/ ReplayFlush \/ Compare \/ AssertOverlap \/ Ended
  <2>1. /\ UNCHANGED <<lanes, draining, sealed, ticked>>
        /\ pc \in {"assert", "replay", "compare", "overlap", "panicked", "done"}
        /\ pc' \in {"assert", "replay", "compare", "overlap", "panicked", "done"}
    BY <1>7 DEF AssertTape, ReplayPush, ReplayFlush, Compare, AssertOverlap, Ended, hvars,
       main, allvars, vars
  <2> QED
    BY <2>1 DEF Phases
<1>8. CASE Advance \/ (\E v \in Venue : Sender(v)) \/ UNCHANGED hvars
  <2>1. UNCHANGED <<pc, lanes, draining, sealed, ticked>>
    BY <1>8 DEF Advance, Sender, TakeStamp, Send, hvars, main, allvars, vars
  <2> QED
    BY <2>1 DEF Phases
<1>9. CASE Collect
  <2>1. /\ UNCHANGED <<lanes, draining, sealed, ticked>>
        /\ pc = "collect" /\ pc' \in {"collect", "catch"}
    BY <1>9 DEF Collect, allvars, vars
  <2>2. ticked < K
    BY <2>1, KAssumption DEF Merge
  <2> QED
    BY <2>1, <2>2 DEF Phases
<1> QED
  BY <1>1, <1>2, <1>3, <1>4, <1>5, <1>6, <1>7, <1>8, <1>9 DEF HarnessNext, Main, Draining

Steady == Sound /\ Threads /\ Merge /\ Phases /\ AllTimed /\ Following

LEMMA SteadyInit == HarnessInit => Steady
BY SoundInit, ThreadsInit, MergeInit, FollowingInit DEF Steady

LEMMA SteadyStep == Steady /\ [HarnessNext]_hvars => Steady'
<1> SUFFICES ASSUME Steady, [HarnessNext]_hvars
             PROVE  Steady'
  OBVIOUS
<1>1. Sound /\ Threads /\ Merge /\ Phases /\ AllTimed /\ Following
  BY DEF Steady
<1>2. Sound' /\ Threads' /\ Merge'
  BY <1>1, SoundStep, ThreadsStep, MergeStep
<1>3. Phases'
  BY <1>1, PhasesStep
<1>4. AllTimed' /\ Following'
  BY <1>1, FollowingStep
<1> QED
  BY <1>2, <1>3, <1>4 DEF Steady

(* At any point of any schedule, the stamps merged so far are the earliest *)
(* of all, each venue's part of the tape and of its queue is what its      *)
(* lines taken so far determine, with the stamps its thread took, and the  *)
(* main thread is where its loop must be (ordering_realtime.rs:38-105).    *)
THEOREM HarnessInductive == HarnessSpec => []Steady
BY SteadyInit, SteadyStep, PTL DEF HarnessSpec

(* Whatever the threads and the scheduler do, the main thread makes the    *)
(* ingester's steps, so all that holds of the ingester holds here          *)
(* (ordering_realtime.rs:72-105).                                          *)
THEOREM HarnessRunsTheIngester == HarnessSpec => IngesterSpec
<1>1. HarnessInit => IngesterInit
  BY DEF HarnessInit
<1>2. Steady /\ [HarnessNext]_hvars => [IngesterNext]_allvars
  BY StepIsIngesterStep DEF Steady, Sound, IInv
<1> QED
  BY <1>1, <1>2, HarnessInductive, PTL DEF HarnessSpec, IngesterSpec

LEMMA NothingIsLeft ==
    ASSUME Steady
    PROVE  TicksFinishTheTape
<1> SUFFICES ASSUME pc \in Past
             PROVE  /\ Buffered = {}
                    /\ \A v \in Venue : OfVenue(v, Published) = Kept(lines[v])
                    /\ \A i \in DOMAIN tape : \E n \in DOMAIN lines[tape[i].fill.venue] :
                          /\ channel[tape[i].fill.venue][n] = tape[i].recv_ts
                          /\ Canon[lines[tape[i].fill.venue][n].parsed] = tape[i].fill
  BY DEF TicksFinishTheTape, Steady, Phases, Past
<1>1. /\ Threads /\ Merge /\ TypeOK /\ ticked = K /\ ticked # 0
      /\ \A v \in Venue : lanes[v].buffer = << >>
  BY KAssumption DEF Steady, Sound, IInv, Phases, Past
<1>2. Buffered = {}
  BY <1>1 DEF Buffered, Range
<1>3. ASSUME NEW v \in Venue
      PROVE  taken[v] = Len(lines[v])
  <2>1. ~More(v)
    BY <1>1 DEF Merge
  <2> QED
    BY <1>1, <2>1, MergeTypes DEF More
<1>4. ASSUME NEW v \in Venue
      PROVE  OfVenue(v, Published) = Kept(lines[v])
  <2>1. Follows(v, lines[v], taken[v], Out(v), seen, lanes[v].last_seq)
    BY DEF Steady, Following
  <2>2. OfVenue(v, Published) \in Seq(Fill)
    BY <1>1, PublishedTypes
  <2>3. FillsOf(lanes[v].buffer) = << >>
    BY <1>1 DEF FillsOf
  <2>4. Out(v) = OfVenue(v, Published) \o << >>
    BY <2>3 DEF Out
  <2>5. Out(v) = OfVenue(v, Published)
    BY <2>2, <2>4, ConcatEmptySeq
  <2>6. KeptTo(lines[v], Len(lines[v])) = Kept(lines[v])
    BY <1>1, KeptAll, SourceLines DEF Threads
  <2> QED
    BY <1>3, <2>1, <2>5, <2>6 DEF Follows
<1>5. ASSUME NEW i \in DOMAIN tape
      PROVE  \E n \in DOMAIN lines[tape[i].fill.venue] :
                /\ channel[tape[i].fill.venue][n] = tape[i].recv_ts
                /\ Canon[lines[tape[i].fill.venue][n].parsed] = tape[i].fill
  <2>1. Timed(tape[i], channel, lines, taken) /\ tape[i].fill.venue \in Venue
    BY <1>1, HeldTypes DEF Steady, AllTimed
  <2>2. 1 .. taken[tape[i].fill.venue] = DOMAIN lines[tape[i].fill.venue]
    BY <1>1, <1>3, <2>1, MergeTypes
  <2> QED
    BY <2>1, <2>2 DEF Timed
<1> QED
  BY <1>2, <1>4, <1>5

(* However the threads were scheduled and the clock ran, one tick past the *)
(* last stamp on every venue and one drain publish every fill, with the    *)
(* stamp its thread took (ordering_realtime.rs:105-113;                    *)
(* sequencer.rs:98-109, 123-134).                                          *)
THEOREM TicksFinish == HarnessSpec => []TicksFinishTheTape
BY NothingIsLeft, HarnessInductive, PTL

-----------------------------------------------------------------------------
(* The replay. *)

LEMMA VenueMajorPlaces ==
    ASSUME TypeOK
    PROVE  /\ \A k \in DOMAIN tape : \E i \in DOMAIN tape : VenueMajor[k] = tape[i]
           /\ \A i \in DOMAIN tape : \E k \in DOMAIN tape : VenueMajor[k] = tape[i]
<1> DEFINE D     == DOMAIN tape
           key   == [i \in D |-> tape[i].fill.venue]
           order == StablySorted(D, key)
<1>1. tape \in Seq(SequencedFill) /\ Len(tape) \in Nat /\ D = 1 .. Len(tape)
  BY DEF TypeOK
<1>2. D \subseteq Nat /\ IsFiniteSet(D) /\ Cardinality(D) = Len(tape)
  <2> DEFINE n == Len(tape)
  <2>1. n \in Nat /\ n \in Int /\ 1 \in Int
    BY <1>1
  <2> HIDE DEF n
  <2>2. IsFiniteSet(1 .. n) /\ Cardinality(1 .. n) = n
    BY <2>1, FS_Interval
  <2> QED
    BY <1>1, <2>2 DEF n
<1>3. key \in [D -> Nat]
  <2>1. \A i \in D : tape[i].fill.venue \in Venue
    BY HeldTypes
  <2>2. Venue \subseteq Nat
    BY KAssumption DEF Venue
  <2> QED
    BY <2>1, <2>2
<1>4. \A k \in D : VenueMajor[k] = tape[order[k]]
  BY DEF VenueMajor
<1> HIDE DEF D, key
<1>5. /\ StablySorted(D, key) \in [1 .. Cardinality(D) -> D]
      /\ \A i \in D : /\ Cardinality(UpTo(D, key, i)) \in 1 .. Cardinality(D)
                      /\ StablySorted(D, key)[Cardinality(UpTo(D, key, i))] = i
  BY <1>2, <1>3, StablySortedSorts
<1>6. \A k \in D : order[k] \in D
  BY <1>1, <1>2, <1>5
<1>7. \A i \in D : \E k \in D : order[k] = i
  BY <1>1, <1>2, <1>5
<1> HIDE DEF order
<1>8. \A k \in D : \E i \in D : VenueMajor[k] = tape[i]
  BY <1>4, <1>6
<1>9. \A i \in D : \E k \in D : VenueMajor[k] = tape[i]
  BY <1>4, <1>7
<1> QED
  BY <1>8, <1>9 DEF D

(* The lanes hold just the entries of a list from one place to another. *)
Holds(held2, list, from, to) ==
    /\ \A v \in Venue : \A k \in DOMAIN held2[v].buffer :
          \E i \in from .. to : held2[v].buffer[k] = Unsequenced(list[i])
    /\ \A i \in from .. to : \E k \in DOMAIN held2[list[i].fill.venue].buffer :
          held2[list[i].fill.venue].buffer[k] = Unsequenced(list[i])

(* Up to the flush the second sequencer has taken what was handed to it;   *)
(* from then on it has published a first part of the tape and holds the    *)
(* rest.                                                                   *)
Rehearsal ==
    /\ lanes2 \in [Venue -> Lane]
    /\ \A v \in Venue : LaneOrdered(lanes2[v], v)
    /\ tape2 \in Seq(SequencedFill)
    /\ next_global_seq2 = Len(tape2) + 1
    /\ sealed2 \in BOOLEAN
    /\ replayed \in 0 .. Len(tape)
    /\ pc \notin {"replay", "compare", "overlap", "panicked", "done"} => replayed = 0 /\ ~sealed2
    /\ ~sealed2 => /\ draining2 = "no" /\ tape2 = << >>
                   /\ Holds(lanes2, VenueMajor, 1, replayed)
    /\ sealed2 => /\ replayed = Len(tape)
                  /\ Len(tape2) <= Len(tape)
                  /\ \A i \in DOMAIN tape2 : tape2[i] = tape[i]
                  /\ Holds(lanes2, tape, Len(tape2) + 1, Len(tape))
    /\ sealed2 /\ pc = "replay" => draining2 = "flush"
    /\ pc \in {"compare", "overlap", "panicked", "done"} => sealed2 /\ Len(tape2) = Len(tape)

LEMMA RehearsalInit == HarnessInit => Rehearsal
<1> SUFFICES ASSUME HarnessInit
             PROVE  Rehearsal
  OBVIOUS
<1>1. /\ lanes2 = [v \in Venue |-> NewLane] /\ next_global_seq2 = 1 /\ sealed2 = FALSE
      /\ draining2 = "no" /\ tape2 = << >> /\ pc = "collect" /\ replayed = 0 /\ tape = << >>
  BY DEF HarnessInit, IngesterInit, Init, Replay!Init, Replay!NewLane, Replay!NoSeq, Replay!Venue,
     NewLane, NoSeq, Venue
<1>2. NewLane \in Lane /\ NewLane.buffer = << >> /\ DOMAIN NewLane.buffer = {}
  BY DEF NewLane, Lane
<1>3. \A v \in Venue : lanes2[v] = NewLane /\ LaneOrdered(lanes2[v], v)
  BY <1>1, <1>2 DEF LaneOrdered
<1>4. Holds(lanes2, VenueMajor, 1, 0)
  <2>1. 1 .. 0 = {}
    OBVIOUS
  <2> QED
    BY <1>2, <1>3, <2>1 DEF Holds
<1>5. tape2 \in Seq(SequencedFill) /\ next_global_seq2 = Len(tape2) + 1 /\ 0 \in 0 .. Len(tape)
  BY <1>1
<1> QED
  BY <1>1, <1>2, <1>3, <1>4, <1>5 DEF Rehearsal

LEMMA KeyOfUnsequenced ==
    ASSUME NEW a, NEW b
    PROVE  KeyLess(Unsequenced(a), Unsequenced(b)) <=> KeyLess(a, b)
BY DEF KeyLess, Unsequenced

LEMMA TapeAscends ==
    ASSUME IInv
    PROVE  /\ \A i \in DOMAIN tape : /\ tape[i] \in SequencedFill /\ tape[i].global_seq = i
                                     /\ tape[i].recv_ts \in Nat
                                     /\ tape[i].fill.venue \in Venue /\ tape[i].fill.venue \in Int
                                     /\ tape[i].fill.seq \in Int
                                     /\ ~KeyLess(tape[i], tape[i])
           /\ \A i, j \in DOMAIN tape :
                 /\ i < j => KeyLess(tape[i], tape[j])
                 /\ KeyLess(tape[i], tape[j]) => ~KeyLess(tape[j], tape[i])
<1>1. /\ \A i \in DOMAIN tape : tape[i] \in SequencedFill /\ tape[i].fill.venue \in Venue
      /\ \A i, j \in DOMAIN tape : /\ tape[i].global_seq = i
                                   /\ i < j => KeyLess(tape[i], tape[j])
  BY HeldTypes DEF IInv, TapeInSortKeyOrder
<1>2. \A i \in DOMAIN tape : /\ tape[i].recv_ts \in Nat /\ tape[i].fill.venue \in Int
                             /\ tape[i].fill.seq \in Int
  BY <1>1, StampedKey
<1>3. \A i \in DOMAIN tape : ~KeyLess(tape[i], tape[i])
  BY <1>2 DEF KeyLess
<1>4. \A i, j \in DOMAIN tape : KeyLess(tape[i], tape[j]) => ~KeyLess(tape[j], tape[i])
  BY <1>2 DEF KeyLess
<1> QED
  BY <1>1, <1>2, <1>3, <1>4

(* While something is held, the next entry of the tape heads its lane, and *)
(* every other head sorts after it.                                        *)
LEMMA NextHeads ==
    ASSUME IInv, Rehearsal, sealed2, Len(tape2) < Len(tape)
    PROVE  LET next == tape[Len(tape2) + 1] IN
           /\ Len(tape2) + 1 \in DOMAIN tape /\ next.fill.venue \in Venue
           /\ lanes2[next.fill.venue].buffer # << >>
           /\ Head(lanes2[next.fill.venue].buffer) = Unsequenced(next)
           /\ \A v \in Venue : lanes2[v].buffer # << >> =>
                 \/ v = next.fill.venue
                 \/ v # next.fill.venue /\ KeyLess(Unsequenced(next), Head(lanes2[v].buffer))
<1> DEFINE n    == Len(tape2)
           next == tape[n + 1]
           w    == next.fill.venue
<1>1. /\ n \in Nat /\ Len(tape) \in Nat /\ DOMAIN tape = 1 .. Len(tape)
      /\ n + 1 \in DOMAIN tape /\ n + 1 .. Len(tape) \subseteq DOMAIN tape
      /\ n + 1 \in n + 1 .. Len(tape)
  <2>1. tape \in Seq(SequencedFill) /\ tape2 \in Seq(SequencedFill)
    BY DEF Rehearsal, IInv, TypeOK
  <2> QED
    BY <2>1
<1>2. Holds(lanes2, tape, n + 1, Len(tape)) /\ w \in Venue
  BY <1>1, TapeAscends DEF Rehearsal
<1>3. ASSUME NEW v \in Venue
      PROVE  /\ lanes2[v].buffer \in Seq(Stamped)
             /\ \A k, l \in DOMAIN lanes2[v].buffer :
                   k < l => KeyLess(lanes2[v].buffer[k], lanes2[v].buffer[l])
             /\ \A k \in DOMAIN lanes2[v].buffer : lanes2[v].buffer[k].fill.venue = v
             /\ lanes2[v].buffer # << >> => /\ 1 \in DOMAIN lanes2[v].buffer
                                           /\ Head(lanes2[v].buffer) = lanes2[v].buffer[1]
  BY DEF Rehearsal, Lane, LaneOrdered
<1>4. PICK k \in DOMAIN lanes2[w].buffer : lanes2[w].buffer[k] = Unsequenced(next)
  BY <1>1, <1>2 DEF Holds
<1>5. lanes2[w].buffer # << >> /\ 1 \in DOMAIN lanes2[w].buffer
  BY <1>2, <1>3, <1>4
<1>6. k = 1
  <2> SUFFICES ASSUME k # 1
               PROVE  FALSE
    OBVIOUS
  <2>1. KeyLess(lanes2[w].buffer[1], Unsequenced(next))
    <3>1. 1 < k
      BY <1>2, <1>3, <1>4
    <3> QED
      BY <1>2, <1>3, <1>4, <1>5, <3>1
  <2>2. PICK i \in n + 1 .. Len(tape) : lanes2[w].buffer[1] = Unsequenced(tape[i])
    BY <1>2, <1>5 DEF Holds
  <2>3. KeyLess(tape[i], next) /\ i \in DOMAIN tape
    BY <1>1, <2>1, <2>2, KeyOfUnsequenced
  <2>4. i = n + 1 \/ n + 1 < i
    BY <1>1, <2>2
  <2> QED
    BY <1>1, <2>3, <2>4, TapeAscends
<1>7. Head(lanes2[w].buffer) = Unsequenced(next)
  BY <1>2, <1>3, <1>4, <1>5, <1>6
<1>8. ASSUME NEW v \in Venue, lanes2[v].buffer # << >>, v # w
      PROVE  KeyLess(Unsequenced(next), Head(lanes2[v].buffer))
  <2>1. PICK i \in n + 1 .. Len(tape) : lanes2[v].buffer[1] = Unsequenced(tape[i])
    BY <1>2, <1>3, <1>8 DEF Holds
  <2>2. i # n + 1
    <3>1. Unsequenced(tape[i]).fill.venue = v
      BY <1>3, <1>8, <2>1
    <3> QED
      BY <1>8, <3>1 DEF Unsequenced
  <2>3. n + 1 < i /\ i \in DOMAIN tape
    BY <1>1, <2>1, <2>2
  <2>4. KeyLess(next, tape[i])
    BY <1>1, <2>3, TapeAscends
  <2> QED
    BY <1>3, <1>8, <2>1, <2>4, KeyOfUnsequenced
<1> HIDE DEF n
<1> QED
  BY <1>1, <1>2, <1>5, <1>7, <1>8 DEF n

(* So the scan of the replay finds this entry and no other. *)
LEMMA NextIsBest ==
    ASSUME IInv, Rehearsal, sealed2, Len(tape2) < Len(tape)
    PROVE  \A v \in Venue : Replay!IsBest(v) <=> v = tape[Len(tape2) + 1].fill.venue
<1> DEFINE next == tape[Len(tape2) + 1]
           w    == next.fill.venue
<1>1. /\ Len(tape2) + 1 \in DOMAIN tape /\ w \in Venue
      /\ lanes2[w].buffer # << >> /\ Head(lanes2[w].buffer) = Unsequenced(next)
      /\ \A v \in Venue : lanes2[v].buffer # << >> =>
            v = w \/ (v # w /\ KeyLess(Unsequenced(next), Head(lanes2[v].buffer)))
  BY NextHeads
<1>2. /\ next.recv_ts \in Nat /\ w \in Int
      /\ Unsequenced(next).recv_ts = next.recv_ts /\ Unsequenced(next).fill.venue = w
  BY <1>1, TapeAscends DEF Unsequenced
<1> HIDE DEF next, w
<1>3. ASSUME NEW v \in Venue, lanes2[v].buffer # << >>, v # w
      PROVE  /\ Head(lanes2[v].buffer).recv_ts \in Nat
             /\ \/ next.recv_ts < Head(lanes2[v].buffer).recv_ts
                \/ next.recv_ts = Head(lanes2[v].buffer).recv_ts /\ w < v
  <2>1. lanes2[v].buffer \in Seq(Stamped) /\ LaneOrdered(lanes2[v], v)
    BY DEF Rehearsal, Lane
  <2>2. /\ Head(lanes2[v].buffer) = lanes2[v].buffer[1] /\ 1 \in DOMAIN lanes2[v].buffer
        /\ Head(lanes2[v].buffer) \in Stamped
    BY <1>3, <2>1
  <2>3. Head(lanes2[v].buffer).fill.venue = v
    BY <2>1, <2>2 DEF LaneOrdered
  <2>4. KeyLess(Unsequenced(next), Head(lanes2[v].buffer))
    BY <1>1, <1>3
  <2>5. Head(lanes2[v].buffer).recv_ts \in Nat
    BY <2>2, StampedKey
  <2> QED
    BY <1>2, <1>3, <2>3, <2>4, <2>5 DEF KeyLess
<1>4. \A v \in Venue : v \in Int
  BY KAssumption DEF Venue
<1>5. \A v \in Venue : Replay!IsBest(v) <=>
         /\ lanes2[v].buffer # << >>
         /\ \A u \in Venue : lanes2[u].buffer # << >> =>
               \/ Head(lanes2[v].buffer).recv_ts < Head(lanes2[u].buffer).recv_ts
               \/ Head(lanes2[v].buffer).recv_ts = Head(lanes2[u].buffer).recv_ts /\ v <= u
  BY DEF Replay!IsBest, Replay!NonEmpty, Replay!HeadOf, Replay!Venue, Venue
<1>6. Replay!IsBest(w)
  <2>1. ASSUME NEW u \in Venue, lanes2[u].buffer # << >>
        PROVE  \/ Head(lanes2[w].buffer).recv_ts < Head(lanes2[u].buffer).recv_ts
               \/ Head(lanes2[w].buffer).recv_ts = Head(lanes2[u].buffer).recv_ts /\ w <= u
    <3>1. CASE u = w
      BY <1>2, <3>1
    <3>2. CASE u # w
      BY <1>1, <1>2, <1>3, <1>4, <2>1, <3>2
    <3> QED
      BY <3>1, <3>2
  <2> QED
    BY <1>1, <1>5, <2>1
<1>7. ASSUME NEW v \in Venue, Replay!IsBest(v)
      PROVE  v = w
  <2> SUFFICES ASSUME v # w
               PROVE  FALSE
    OBVIOUS
  <2>1. /\ lanes2[v].buffer # << >>
        /\ \/ Head(lanes2[v].buffer).recv_ts < next.recv_ts
           \/ Head(lanes2[v].buffer).recv_ts = next.recv_ts /\ v <= w
    BY <1>1, <1>2, <1>5, <1>7
  <2> QED
    BY <1>2, <1>3, <1>4, <2>1
<1> QED
  BY <1>6, <1>7 DEF w, next

(* Once the replay is over. *)
Compared == {"compare", "overlap", "panicked", "done"}

LEMMA RehearsalKept ==
    ASSUME Rehearsal, TypeOK', UNCHANGED <<replay, replayed>>,
           \/ pc \notin {"replay"} \cup Compared /\ pc' \notin Compared
           \/ tape' = tape /\ pc' = pc
           \/ tape' = tape /\ pc \in Compared /\ pc' \in Compared
    PROVE  Rehearsal'
<1>1. UNCHANGED <<lanes2, next_global_seq2, sealed2, draining2, tape2, replayed>>
  BY DEF replay
<1>2. CASE pc \notin {"replay"} \cup Compared /\ pc' \notin Compared
  <2>1. replayed = 0 /\ ~sealed2 /\ Holds(lanes2, VenueMajor, 1, 0)
    BY <1>2 DEF Rehearsal, Compared
  <2>2. Holds(lanes2, VenueMajor', 1, 0)
    <3>1. 1 .. 0 = {}
      OBVIOUS
    <3> QED
      BY <2>1, <3>1 DEF Holds
  <2>3. 0 \in 0 .. Len(tape')
    <3>1. tape' \in Seq(SequencedFill)
      BY DEF TypeOK
    <3> QED
      BY <3>1
  <2> QED
    BY <1>1, <1>2, <2>1, <2>2, <2>3 DEF Rehearsal, Compared
<1>3. CASE tape' = tape /\ (pc' = pc \/ (pc \in Compared /\ pc' \in Compared))
  <2>1. VenueMajor' = VenueMajor
    BY <1>3 DEF VenueMajor
  <2> QED
    BY <1>1, <1>3, <2>1 DEF Rehearsal, Compared
<1> QED
  BY <1>2, <1>3

LEMMA HoldsPushed ==
    ASSUME NEW held2 \in [Venue -> Lane], NEW list, NEW m \in Nat, Holds(held2, list, 1, m),
           NEW v \in Venue, list[m + 1].fill.venue = v,
           list[m + 1].recv_ts \in Stamp, list[m + 1].fill \in Fill,
           NEW after2, after2 = [held2 EXCEPT ![v] =
                                    Pushed(@, list[m + 1].recv_ts, list[m + 1].fill)]
    PROVE  Holds(after2, list, 1, m + 1)
<1> DEFINE new == Unsequenced(list[m + 1])
           n   == Len(held2[v].buffer)
<1>1. held2[v].buffer \in Seq(Stamped) /\ n \in Nat /\ new \in Stamped
  <2>1. held2[v] \in Lane
    OBVIOUS
  <2>2. held2[v].buffer \in Seq(Stamped)
    BY <2>1 DEF Lane
  <2>3. new \in Stamped
    BY DEF Stamped, Unsequenced
  <2> QED
    BY <2>2, <2>3
<1>2. /\ after2[v].buffer = Append(held2[v].buffer, new)
      /\ \A w \in Venue : w # v => after2[w] = held2[w]
  BY DEF Pushed, Unsequenced
<1>3. /\ DOMAIN held2[v].buffer = 1 .. n /\ DOMAIN after2[v].buffer = 1 .. n + 1
      /\ \A k \in 1 .. n : after2[v].buffer[k] = held2[v].buffer[k]
      /\ after2[v].buffer[n + 1] = new
  BY <1>1, <1>2
<1>4. 1 .. m + 1 = 1 .. m \cup {m + 1} /\ 1 .. n + 1 = 1 .. n \cup {n + 1}
  BY <1>1
<1> HIDE DEF new, n
<1>5. ASSUME NEW w \in Venue, NEW k \in DOMAIN after2[w].buffer
      PROVE  \E i \in 1 .. m + 1 : after2[w].buffer[k] = Unsequenced(list[i])
  <2>1. CASE w = v /\ k = n + 1
    BY <1>3, <1>4, <2>1 DEF new
  <2>2. CASE ~(w = v /\ k = n + 1)
    <3>1. k \in DOMAIN held2[w].buffer /\ after2[w].buffer[k] = held2[w].buffer[k]
      <4>1. CASE w = v
        <5>1. k \in 1 .. n
          BY <1>3, <1>4, <1>5, <2>2, <4>1
        <5> QED
          BY <1>3, <4>1, <5>1
      <4>2. CASE w # v
        BY <1>2, <1>5, <4>2
      <4> QED
        BY <4>1, <4>2
    <3> QED
      BY <1>4, <3>1 DEF Holds
  <2> QED
    BY <2>1, <2>2
<1>6. ASSUME NEW i \in 1 .. m + 1
      PROVE  \E k \in DOMAIN after2[list[i].fill.venue].buffer :
                after2[list[i].fill.venue].buffer[k] = Unsequenced(list[i])
  <2>1. CASE i = m + 1
    <3>1. n + 1 \in DOMAIN after2[v].buffer
      BY <1>3, <1>4
    <3> QED
      BY <1>3, <2>1, <3>1 DEF new
  <2>2. CASE i # m + 1
    <3>1. i \in 1 .. m
      BY <1>4, <2>2
    <3>2. PICK k \in DOMAIN held2[list[i].fill.venue].buffer :
             held2[list[i].fill.venue].buffer[k] = Unsequenced(list[i])
      BY <3>1 DEF Holds
    <3>3. CASE list[i].fill.venue = v
      <4>1. k \in DOMAIN after2[v].buffer /\ after2[v].buffer[k] = held2[v].buffer[k]
        BY <1>3, <1>4, <3>2, <3>3
      <4> QED
        BY <3>2, <3>3, <4>1
    <3>4. CASE list[i].fill.venue # v
      <4>1. after2[list[i].fill.venue] = held2[list[i].fill.venue]
        BY <3>4
      <4> QED
        BY <3>2, <4>1
    <3> QED
      BY <3>3, <3>4
  <2> QED
    BY <2>1, <2>2
<1> QED
  BY <1>5, <1>6 DEF Holds

LEMMA RehearsalPush ==
    ASSUME IInv, Rehearsal, ReplayPush
    PROVE  /\ Rehearsal'
           /\ \E v \in Venue, t \in Stamp, f \in Fill : Replay!Push(v, t, f)
<1> DEFINE out == VenueMajor[replayed + 1]
           v   == out.fill.venue
           t   == out.recv_ts
           f   == out.fill
<1>1. /\ pc = "replay" /\ replayed < Len(tape) /\ replayed' = replayed + 1
      /\ UNCHANGED <<tape, pc>> /\ Replay!Push(v, t, f)
  BY DEF ReplayPush, allvars, vars
<1>2. /\ tape \in Seq(SequencedFill) /\ Len(tape) \in Nat /\ replayed \in Nat
      /\ replayed + 1 \in DOMAIN tape /\ replayed + 1 \in 0 .. Len(tape)
  BY <1>1 DEF IInv, TypeOK, Rehearsal
<1>3. v \in Venue /\ t \in Stamp /\ f \in Fill /\ f.venue = v
  <2>1. PICK i \in DOMAIN tape : out = tape[i]
    BY <1>2, VenueMajorPlaces DEF IInv
  <2>2. tape[i] \in SequencedFill /\ tape[i].fill.venue \in Venue
    BY HeldTypes DEF IInv
  <2> QED
    BY <2>1, <2>2 DEF SequencedFill
<1> HIDE DEF out, v, t, f
<1>4. /\ Replay!PushResult(lanes2[v], v, t, f) = "Ok"
      /\ lanes2' = [lanes2 EXCEPT ![v] = Pushed(@, t, f)]
      /\ UNCHANGED <<next_global_seq2, sealed2, draining2, tape2>>
  BY <1>1 DEF Replay!Push, Replay!Pushed, Pushed
<1>5. ~sealed2 /\ lanes2[v] \in Lane /\ LaneOrdered(lanes2[v], v) /\ lanes2 \in [Venue -> Lane]
  BY <1>3, <1>4 DEF Rehearsal, Replay!PushResult
<1>6. lanes2[v].frontier <= t /\ lanes2[v].last_seq < f.seq
  <2>1. /\ lanes2[v].frontier \in Nat /\ lanes2[v].last_seq \in Nat \cup {NoSeq}
        /\ t \in Nat /\ f.seq \in Nat
    BY <1>3, <1>5, StampedKey DEF Lane
  <2>2. /\ ~(t < lanes2[v].frontier)
        /\ ~(lanes2[v].last_seq # Replay!NoSeq /\ f.seq <= lanes2[v].last_seq)
    BY <1>4 DEF Replay!PushResult
  <2>3. lanes2[v].last_seq = -1 \/ ~(f.seq <= lanes2[v].last_seq)
    BY <2>2 DEF Replay!NoSeq
  <2> QED
    BY <2>1, <2>2, <2>3 DEF NoSeq
<1>7. Pushed(lanes2[v], t, f) \in Lane /\ LaneOrdered(Pushed(lanes2[v], t, f), v)
  <2>1. Pushed(lanes2[v], t, f) \in Lane
    BY <1>3, <1>5, LaneTypes
  <2>2. LaneOrdered(Pushed(lanes2[v], t, f), v)
    BY <1>3, <1>5, <1>6, LaterKeepsOrder
  <2> QED
    BY <2>1, <2>2
<1>8. lanes2' \in [Venue -> Lane] /\ \A w \in Venue : LaneOrdered(lanes2'[w], w)
  BY <1>3, <1>4, <1>5, <1>7 DEF Rehearsal
<1>9. Holds(lanes2', VenueMajor, 1, replayed + 1)
  <2> DEFINE list == VenueMajor
  <2>1. Holds(lanes2, list, 1, replayed)
    BY <1>5 DEF Rehearsal
  <2>2. /\ list[replayed + 1].fill.venue = v /\ list[replayed + 1].recv_ts = t
        /\ list[replayed + 1].fill = f
    BY DEF out, v, t, f
  <2> HIDE DEF list
  <2>3. Holds(lanes2', list, 1, replayed + 1)
    BY <1>2, <1>3, <1>4, <1>5, <2>1, <2>2, HoldsPushed
  <2> QED
    BY <2>3 DEF list
<1>10. VenueMajor' = VenueMajor
  BY <1>1 DEF VenueMajor
<1>11. Rehearsal'
  BY <1>1, <1>2, <1>4, <1>5, <1>8, <1>9, <1>10 DEF Rehearsal
<1> QED
  BY <1>1, <1>3, <1>11

LEMMA RehearsalEmit ==
    ASSUME IInv, Rehearsal, pc = "replay", UNCHANGED <<pc, tape, replayed>>,
           NEW v \in Venue, Replay!DrainEmit(v)
    PROVE  Rehearsal'
<1> DEFINE n    == Len(tape2)
           next == tape[n + 1]
<1>1. /\ draining2 # "no" /\ Replay!IsBest(v) /\ lanes2[v].buffer # << >>
      /\ lanes2' = [lanes2 EXCEPT ![v] = Popped(@)]
      /\ tape2' = Append(tape2, [global_seq |-> next_global_seq2,
                                 recv_ts    |-> Head(lanes2[v].buffer).recv_ts,
                                 fill       |-> Head(lanes2[v].buffer).fill])
      /\ next_global_seq2' = next_global_seq2 + 1
      /\ UNCHANGED <<sealed2, draining2>>
  BY DEF Replay!DrainEmit, Replay!CanEmit, Replay!IsBest, Replay!NonEmpty, Replay!HeadOf,
     Replay!Popped, Popped
<1>2. /\ sealed2 /\ lanes2[v] \in Lane /\ LaneOrdered(lanes2[v], v) /\ lanes2 \in [Venue -> Lane]
      /\ n <= Len(tape) /\ Holds(lanes2, tape, n + 1, Len(tape))
      /\ \A i \in DOMAIN tape2 : tape2[i] = tape[i]
      /\ tape2 \in Seq(SequencedFill) /\ next_global_seq2 = n + 1
      /\ replayed = Len(tape) /\ draining2 = "flush"
  BY <1>1 DEF Rehearsal
<1>3. tape \in Seq(SequencedFill) /\ Len(tape) \in Nat /\ n \in Nat /\ DOMAIN tape = 1 .. Len(tape)
  BY <1>2 DEF IInv, TypeOK
<1>4. lanes2[v].buffer \in Seq(Stamped) /\ 1 \in DOMAIN lanes2[v].buffer
      /\ Head(lanes2[v].buffer) = lanes2[v].buffer[1]
  <2>1. lanes2[v].buffer \in Seq(Stamped)
    BY <1>2 DEF Lane
  <2> QED
    BY <1>1, <2>1
<1>5. n < Len(tape)
  <2>1. PICK i \in n + 1 .. Len(tape) : lanes2[v].buffer[1] = Unsequenced(tape[i])
    BY <1>2, <1>4 DEF Holds
  <2> QED
    BY <1>3, <2>1
<1>6. v = next.fill.venue /\ Head(lanes2[v].buffer) = Unsequenced(next) /\ n + 1 \in DOMAIN tape
  <2>1. v = next.fill.venue
    BY <1>1, <1>2, <1>5, NextIsBest
  <2>2. Head(lanes2[next.fill.venue].buffer) = Unsequenced(next) /\ n + 1 \in DOMAIN tape
    BY <1>2, <1>5, NextHeads
  <2> QED
    BY <2>1, <2>2
<1>7. /\ next \in SequencedFill /\ next.global_seq = n + 1 /\ ~KeyLess(next, next)
      /\ \A i \in n + 1 .. Len(tape) : i # n + 1 => KeyLess(next, tape[i]) /\ tape[i] # next
  <2>1. next \in SequencedFill /\ next.global_seq = n + 1 /\ ~KeyLess(next, next)
    BY <1>6, TapeAscends
  <2>2. ASSUME NEW i \in n + 1 .. Len(tape), i # n + 1
        PROVE  KeyLess(next, tape[i])
    <3>1. i \in DOMAIN tape /\ n + 1 < i
      BY <1>3, <2>2
    <3> QED
      BY <1>6, <3>1, TapeAscends
  <2> QED
    BY <2>1, <2>2
<1>8. tape2' = Append(tape2, next)
  <2>1. Head(lanes2[v].buffer).recv_ts = next.recv_ts /\ Head(lanes2[v].buffer).fill = next.fill
    BY <1>6 DEF Unsequenced
  <2>2. next = [global_seq |-> n + 1, recv_ts |-> next.recv_ts, fill |-> next.fill]
    BY <1>7 DEF SequencedFill
  <2> QED
    BY <1>1, <1>2, <2>1, <2>2
<1>9. /\ tape2' \in Seq(SequencedFill) /\ Len(tape2') = n + 1
      /\ \A i \in DOMAIN tape2' : tape2'[i] = tape[i]
  <2>1. tape2' \in Seq(SequencedFill) /\ Len(tape2') = n + 1
    BY <1>2, <1>7, <1>8
  <2>2. ASSUME NEW i \in DOMAIN tape2'
        PROVE  tape2'[i] = tape[i]
    <3> HIDE DEF next
    <3>1. DOMAIN tape2' = 1 .. n + 1 /\ DOMAIN tape2 = 1 .. n
      BY <1>2, <2>1
    <3>2. CASE i = n + 1
      BY <1>2, <1>7, <1>8, <3>2 DEF next
    <3>3. CASE i # n + 1
      <4>1. i \in DOMAIN tape2
        BY <1>3, <2>2, <3>1, <3>3
      <4> QED
        BY <1>2, <1>7, <1>8, <4>1
    <3> QED
      BY <3>2, <3>3
  <2> QED
    BY <2>1, <2>2
<1>10. lanes2' \in [Venue -> Lane] /\ \A w \in Venue : LaneOrdered(lanes2'[w], w)
  <2>1. Popped(lanes2[v]) \in Lane
    BY <1>1, <1>2, LaneTypes
  <2>2. LaneOrdered(Popped(lanes2[v]), v)
    BY <1>1, <1>2, PopKeepsOrder
  <2> QED
    BY <1>1, <1>2, <2>1, <2>2 DEF Rehearsal
<1>11. /\ \A w \in Venue : w # v => lanes2'[w] = lanes2[w]
       /\ lanes2'[v].buffer = Tail(lanes2[v].buffer)
  BY <1>1, <1>2 DEF Popped
<1> DEFINE b == lanes2[v].buffer
           m == Len(b)
<1>12. /\ m \in Nat \ {0} /\ DOMAIN b = 1 .. m /\ DOMAIN Tail(b) = 1 .. m - 1
       /\ \A k \in 1 .. m - 1 : Tail(b)[k] = b[k + 1] /\ k + 1 \in DOMAIN b /\ 1 < k + 1
  <2> HIDE DEF b
  <2>1. b \in Seq(Stamped) /\ b # << >>
    BY <1>1, <1>4 DEF b
  <2>2. m \in Nat \ {0} /\ DOMAIN b = 1 .. m
    BY <2>1
  <2>3. Tail(b) = [i \in 1 .. m - 1 |-> b[i + 1]]
    BY <2>1, SequencesAreFunctions
  <2> QED
    BY <2>2, <2>3
<1>13. \A k \in DOMAIN b : 1 < k => b[k] # b[1]
  <2>1. ASSUME NEW k \in DOMAIN b, 1 < k
        PROVE  b[k] # b[1]
    <3>1. KeyLess(b[1], b[k])
      BY <1>2, <1>4, <2>1 DEF LaneOrdered
    <3>2. ~KeyLess(b[1], b[1])
      BY <1>4, <1>6, <1>7, KeyOfUnsequenced
    <3> QED
      BY <3>1, <3>2
  <2> QED
    BY <2>1
<1> HIDE DEF b, m, next
<1>14. ASSUME NEW w \in Venue, NEW k \in DOMAIN lanes2'[w].buffer
       PROVE  \E i \in n + 2 .. Len(tape) : lanes2'[w].buffer[k] = Unsequenced(tape[i])
  <2>1. \E l \in DOMAIN lanes2[w].buffer : /\ lanes2[w].buffer[l] = lanes2'[w].buffer[k]
                                          /\ lanes2[w].buffer[l] # Unsequenced(next)
    <3>1. CASE w = v
      <4>1. k \in 1 .. m - 1 /\ lanes2'[w].buffer[k] = b[k + 1] /\ k + 1 \in DOMAIN b /\ 1 < k + 1
        BY <1>11, <1>12, <1>14, <3>1 DEF b
      <4>2. b[k + 1] # Unsequenced(next)
        BY <1>4, <1>6, <1>13, <4>1 DEF b
      <4> QED
        BY <3>1, <4>1, <4>2 DEF b
    <3>2. CASE w # v
      <4>1. k \in DOMAIN lanes2[w].buffer /\ lanes2'[w].buffer[k] = lanes2[w].buffer[k]
        BY <1>11, <1>14, <3>2
      <4>2. lanes2[w].buffer[k].fill.venue = w
        BY <4>1 DEF Rehearsal, LaneOrdered
      <4>3. Unsequenced(next).fill.venue = v
        BY <1>6 DEF Unsequenced
      <4> QED
        BY <3>2, <4>1, <4>2, <4>3
    <3> QED
      BY <3>1, <3>2
  <2>2. PICK l \in DOMAIN lanes2[w].buffer : /\ lanes2[w].buffer[l] = lanes2'[w].buffer[k]
                                           /\ lanes2[w].buffer[l] # Unsequenced(next)
    BY <2>1
  <2>3. PICK i \in n + 1 .. Len(tape) : lanes2[w].buffer[l] = Unsequenced(tape[i])
    BY <1>2 DEF Holds
  <2>4. i # n + 1
    BY <2>2, <2>3 DEF next
  <2>5. i \in n + 2 .. Len(tape)
    BY <1>3, <2>3, <2>4
  <2> QED
    BY <2>2, <2>3, <2>5
<1>15. ASSUME NEW i \in n + 2 .. Len(tape)
       PROVE  \E k \in DOMAIN lanes2'[tape[i].fill.venue].buffer :
                 lanes2'[tape[i].fill.venue].buffer[k] = Unsequenced(tape[i])
  <2> DEFINE w == tape[i].fill.venue
  <2>1. i \in n + 1 .. Len(tape) /\ i # n + 1
    BY <1>3
  <2>2. PICK l \in DOMAIN lanes2[w].buffer : lanes2[w].buffer[l] = Unsequenced(tape[i])
    BY <1>2, <2>1 DEF Holds
  <2>3. w \in Venue
    <3>1. i \in DOMAIN tape
      BY <1>3, <2>1
    <3> QED
      BY <3>1, TapeAscends
  <2>4. CASE w = v
    <3>1. l # 1
      <4>1. KeyLess(next, tape[i]) /\ ~KeyLess(next, next)
        BY <1>7, <2>1
      <4>2. KeyLess(Unsequenced(next), Unsequenced(tape[i]))
            /\ ~KeyLess(Unsequenced(next), Unsequenced(next))
        BY <4>1, KeyOfUnsequenced
      <4> QED
        BY <1>4, <1>6, <2>2, <2>4, <4>2
    <3>2. l \in DOMAIN b
      BY <2>2, <2>4 DEF b
    <3>3. l - 1 \in 1 .. m - 1 /\ (l - 1) + 1 = l
      BY <1>12, <3>1, <3>2
    <3>4. l - 1 \in DOMAIN Tail(b) /\ Tail(b)[l - 1] = b[l]
      BY <1>12, <3>3
    <3> QED
      BY <1>11, <2>2, <2>4, <3>4 DEF b
  <2>5. CASE w # v
    BY <1>11, <2>2, <2>3, <2>5
  <2> QED
    BY <2>4, <2>5
<1>16. Holds(lanes2', tape, Len(tape2') + 1, Len(tape))
  <2>1. Len(tape2') + 1 = n + 2
    BY <1>3, <1>9
  <2> QED
    BY <1>14, <1>15, <2>1 DEF Holds
<1>17. Len(tape2') <= Len(tape) /\ next_global_seq2' = Len(tape2') + 1
  BY <1>1, <1>2, <1>3, <1>5, <1>9
<1> QED
  BY <1>1, <1>2, <1>3, <1>9, <1>10, <1>16, <1>17 DEF Rehearsal

LEMMA RehearsalFlush ==
    ASSUME IInv, Rehearsal, pc = "replay", UNCHANGED <<pc, tape, replayed>>,
           replayed = Len(tape), ~sealed2, Replay!Flush
    PROVE  Rehearsal'
<1>1. /\ draining2' = "flush" /\ sealed2' = TRUE
      /\ UNCHANGED <<lanes2, next_global_seq2, tape2>>
  BY DEF Replay!Flush
<1>2. tape2 = << >> /\ Len(tape2) = 0 /\ Holds(lanes2, VenueMajor, 1, Len(tape))
  <2>1. tape2 = << >> /\ Holds(lanes2, VenueMajor, 1, Len(tape))
    BY DEF Rehearsal
  <2> QED
    BY <2>1
<1>3. Len(tape) \in Nat /\ DOMAIN tape = 1 .. Len(tape)
  BY DEF IInv, TypeOK
<1>4. Holds(lanes2, tape, 1, Len(tape))
  <2>1. /\ \A k \in 1 .. Len(tape) : \E i \in 1 .. Len(tape) : VenueMajor[k] = tape[i]
        /\ \A i \in 1 .. Len(tape) : \E k \in 1 .. Len(tape) : VenueMajor[k] = tape[i]
    BY <1>3, VenueMajorPlaces DEF IInv
  <2> DEFINE list == VenueMajor
  <2> HIDE DEF list
  <2>2. ASSUME NEW v \in Venue, NEW k \in DOMAIN lanes2[v].buffer
        PROVE  \E i \in 1 .. Len(tape) : lanes2[v].buffer[k] = Unsequenced(tape[i])
    <3>1. PICK j \in 1 .. Len(tape) : lanes2[v].buffer[k] = Unsequenced(list[j])
      BY <1>2 DEF Holds, list
    <3>2. PICK i \in 1 .. Len(tape) : list[j] = tape[i]
      BY <2>1 DEF list
    <3> QED
      BY <3>1, <3>2
  <2>3. ASSUME NEW i \in 1 .. Len(tape)
        PROVE  \E k \in DOMAIN lanes2[tape[i].fill.venue].buffer :
                  lanes2[tape[i].fill.venue].buffer[k] = Unsequenced(tape[i])
    <3>1. PICK j \in 1 .. Len(tape) : list[j] = tape[i]
      BY <2>1 DEF list
    <3>2. \E k \in DOMAIN lanes2[list[j].fill.venue].buffer :
             lanes2[list[j].fill.venue].buffer[k] = Unsequenced(list[j])
      BY <1>2 DEF Holds, list
    <3> QED
      BY <3>1, <3>2
  <2> QED
    BY <2>2, <2>3 DEF Holds
<1>5. Holds(lanes2', tape', Len(tape2') + 1, Len(tape'))
  <2>1. Len(tape2') + 1 = 1
    BY <1>1, <1>2
  <2> QED
    BY <1>1, <1>4, <2>1
<1>6. /\ tape2' = << >> /\ Len(tape2') = 0 /\ DOMAIN tape2' = {} /\ Len(tape2') <= Len(tape)
  BY <1>1, <1>2, <1>3
<1> QED
  BY <1>1, <1>3, <1>5, <1>6 DEF Rehearsal

(* The flush returns only when the second tape is as long as the first. *)
LEMMA RehearsalReturn ==
    ASSUME IInv, Rehearsal, pc = "replay", UNCHANGED <<tape, replayed>>,
           Replay!DrainReturn, pc' = "compare"
    PROVE  Rehearsal'
<1>1. /\ draining2 # "no" /\ draining2' = "no"
      /\ \A v \in Replay!Venue : ~Replay!CanEmit(v)
      /\ UNCHANGED <<lanes2, next_global_seq2, sealed2, tape2>>
  BY DEF Replay!DrainReturn
<1>2. sealed2 /\ draining2 = "flush" /\ Len(tape2) <= Len(tape)
  BY <1>1 DEF Rehearsal
<1>3. Len(tape) \in Nat /\ Len(tape2) \in Nat
  BY DEF IInv, TypeOK, Rehearsal
<1>4. Len(tape2) = Len(tape)
  <2> SUFFICES ASSUME Len(tape2) < Len(tape)
               PROVE  FALSE
    BY <1>2, <1>3
  <2> DEFINE w == tape[Len(tape2) + 1].fill.venue
  <2>1. w \in Venue
    BY <1>2, NextHeads
  <2>2. Replay!IsBest(w)
    BY <1>2, <2>1, NextIsBest
  <2>3. ~Replay!CanEmit(w)
    BY <1>1, <2>1 DEF Replay!Venue, Venue
  <2> QED
    BY <1>2, <2>2, <2>3 DEF Replay!CanEmit
<1> QED
  BY <1>1, <1>2, <1>4 DEF Rehearsal

LEMMA RehearsalStep == Steady /\ Rehearsal /\ [HarnessNext]_hvars => Rehearsal'
<1> SUFFICES ASSUME Steady, Rehearsal, [HarnessNext]_hvars
             PROVE  Rehearsal'
  OBVIOUS
<1>1. IInv /\ TypeOK'
  <2>1. Steady'
    BY SteadyStep
  <2> QED
    BY <2>1 DEF Steady, Sound, IInv
<1>2. CASE ReplayPush
  BY <1>1, <1>2, RehearsalPush
<1>3. CASE ReplayFlush
  <2>1. pc = "replay" /\ replayed = Len(tape) /\ UNCHANGED <<tape, replayed>>
    BY <1>3 DEF ReplayFlush, allvars, vars
  <2>2. CASE ~sealed2 /\ Replay!Flush /\ UNCHANGED pc
    BY <1>1, <2>1, <2>2, RehearsalFlush
  <2>3. CASE (\E v \in Venue : Replay!DrainEmit(v)) /\ UNCHANGED pc
    <3>1. PICK v \in Venue : Replay!DrainEmit(v)
      BY <2>3
    <3> QED
      BY <1>1, <2>1, <2>3, <3>1, RehearsalEmit
  <2>4. CASE Replay!DrainReturn /\ pc' = "compare"
    BY <1>1, <2>1, <2>4, RehearsalReturn
  <2> QED
    BY <1>3, <2>2, <2>3, <2>4 DEF ReplayFlush
<1>4. CASE ~ReplayPush /\ ~ReplayFlush
  <2>1. UNCHANGED <<replay, replayed>>
    BY <1>4 DEF HarnessNext, Main, Sender, Advance, TakeStamp, Send, Collect, Catch, TickIdle,
       CallDrain, Draining, FlushNothing, AssertTape, Compare, AssertOverlap, Ended, main, hvars
  <2>2. \/ pc \notin {"replay"} \cup Compared /\ pc' \notin Compared
        \/ tape' = tape /\ pc' = pc
        \/ tape' = tape /\ pc \in Compared /\ pc' \in Compared
    BY <1>4 DEF HarnessNext, Main, Sender, Advance, TakeStamp, Send, Collect, Catch, TickIdle,
       CallDrain, Draining, FlushNothing, AssertTape, Compare, AssertOverlap, Ended, main, hvars,
       allvars, vars, Compared
  <2> QED
    BY <1>1, <2>1, <2>2, RehearsalKept
<1> QED
  BY <1>2, <1>3, <1>4

(* The push of the replay is a legal push of a second sequencer, and so is *)
(* every other step of its part: the harness replays by the interface      *)
(* alone (ordering_realtime.rs:146-157).                                   *)
LEMMA ReplayStep ==
    Steady /\ Rehearsal /\ [HarnessNext]_hvars => [Replay!Next]_(Replay!vars)
<1> SUFFICES ASSUME Steady, Rehearsal, [HarnessNext]_hvars
             PROVE  Replay!Next \/ UNCHANGED Replay!vars
  OBVIOUS
<1>1. CASE ReplayPush
  <2>1. \E v \in Venue, t \in Stamp, f \in Fill : Replay!Push(v, t, f)
    BY <1>1, RehearsalPush DEF Steady, Sound
  <2> QED
    BY <2>1 DEF Replay!Next, Replay!Venue, Venue
<1>2. CASE ReplayFlush
  <2>1. \/ Replay!Flush
        \/ \E v \in Venue : Replay!DrainEmit(v)
        \/ Replay!DrainReturn
    BY <1>2 DEF ReplayFlush
  <2> QED
    BY <2>1 DEF Replay!Next, Replay!Venue, Venue
<1>3. CASE ~ReplayPush /\ ~ReplayFlush
  <2>1. UNCHANGED replay
    BY <1>3 DEF HarnessNext, Main, Sender, Advance, TakeStamp, Send, Collect, Catch, TickIdle,
       CallDrain, Draining, FlushNothing, AssertTape, Compare, AssertOverlap, Ended, main, hvars
  <2> QED
    BY <2>1 DEF replay, Replay!vars
<1> QED
  BY <1>1, <1>2, <1>3

LEMMA RehearsalInductive == HarnessSpec => [](Steady /\ Rehearsal)
<1>1. HarnessInit => Steady /\ Rehearsal
  BY SteadyInit, RehearsalInit
<1>2. (Steady /\ Rehearsal) /\ [HarnessNext]_hvars => (Steady /\ Rehearsal)'
  BY SteadyStep, RehearsalStep
<1> QED
  BY <1>1, <1>2, PTL DEF HarnessSpec

(* The replay is a run of the sequencer: the second instance is driven     *)
(* only through push, flush and the drain's own steps, with stamps and     *)
(* fills a caller may give (ordering_realtime.rs:146-157;                  *)
(* sequencer.rs:63-170).                                                   *)
THEOREM HarnessReplays == HarnessSpec => Replay!Spec
<1>1. HarnessInit => Replay!Init
  BY DEF HarnessInit
<1>2. (Steady /\ Rehearsal) /\ [HarnessNext]_hvars => [Replay!Next]_(Replay!vars)
  BY ReplayStep
<1> QED
  BY <1>1, <1>2, RehearsalInductive, PTL DEF HarnessSpec, Replay!Spec

LEMMA RehearsalAgrees == Steady /\ Rehearsal => ReplayReproducesTape
<1> SUFFICES ASSUME Steady, Rehearsal, pc \in {"compare", "overlap", "panicked", "done"}
             PROVE  tape2 = tape
  BY DEF ReplayReproducesTape
<1>1. Len(tape2) = Len(tape) /\ \A i \in DOMAIN tape2 : tape2[i] = tape[i]
  BY DEF Rehearsal
<1>2. tape \in Seq(SequencedFill) /\ tape2 \in Seq(SequencedFill)
  BY DEF Steady, Sound, IInv, TypeOK, Rehearsal
<1>3. DOMAIN tape2 = 1 .. Len(tape2)
  BY <1>2
<1> QED
  BY <1>1, <1>2, <1>3, SeqEqual

(* Pushed again one venue after the other and flushed once, the tape comes *)
(* out as the incremental drains gave it, ties and numbers included        *)
(* (ordering_realtime.rs:146-157; sequencer.rs:111-170; Algo.md I2, I5).   *)
THEOREM ReplayReproduces == HarnessSpec => []ReplayReproducesTape
BY RehearsalAgrees, RehearsalInductive, PTL

=============================================================================
