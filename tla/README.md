# A TLA+ model of the fill pipeline

This directory is a verification project for the workspace's three crates, `types`,
`ingester` and `position_keeper`. Two venues, Hl and Pm, send fills. The ingest task
turns each line into a canonical fill and stamps it with the time it was received; the
sequencer merges the venues into one tape, ordered by `(recv_ts, venue, venue_seq)`
and numbered by `global_seq`; the position keeper applies the tape to positions.

Paths below are relative to the repository root (`src/` here). "Run" names a TLC
configuration, "proved" a theorem that the TLA+ proof system checks for every value of
the constants.

## 1. Inventory

| Component | Code | State | Operations |
|---|---|---|---|
| Sequencer | `crates/ingester/src/sequencer.rs` | per venue a FIFO buffer, a frontier, `last_seq`; `next_global_seq`; `sealed` | `push`, `tick`, `drain_ready`, `flush` |
| Ingester | `crates/ingester/src/lib.rs` | `seen`, `max_seq`, dead letters, alerts, stats, and a sequencer | `fill_caught`, and the sequencer's `tick`, `drain_ready`, `flush` |
| Instrument registry | `crates/types/src/instrument.rs` | specs by (venue, symbol); while it is built, the first spec of each instrument | `try_from_specs`, `lookup` |
| Canonicalizer | `crates/types/src/convert.rs`, `canonical.rs` | none | `canonicalize` of either venue, `parse_fixed`, `price_to_ticks` |
| Position keeper | `crates/position_keeper/src/lib.rs` | positions by (account, instrument) | `apply` |
| Stream reader | `crates/types/src/stream.rs` | none | `read_hl`, `read_pm` |
| Boundary and fixed-point types | `crates/types/src/boundary.rs`, `fixed.rs` | none | none |
| Fixture generator | `crates/types/src/fixtures.rs`, `bin/gen_fixtures.rs` | a random state, the events pushed so far, local to a call | `generate`, `generate_at`, `matched_hl_trades` |
| Pipeline harness | `crates/ingester/tests/common/mod.rs`, `pipeline.rs` | an ingester, a tape, a keeper | `riffle`, `run_pipeline`, `apply` |
| Realtime harness | `crates/ingester/tests/ordering_realtime.rs` | two sender threads, two channels, a clock | stamp and send; collect, merge by stamp, catch, drain; tick when idle; replay |

**How they interact.** A reader labels each line with its venue. The caller stamps it
and calls `Ingester::fill_caught`, which ticks the venue's lane, looks the symbol up in
the registry, canonicalizes, compares with the copies seen before, and pushes. The
caller then drains and passes the drained fills to `PositionKeeper::apply`. All calls
are synchronous, take `&mut self`, and share nothing but the registry, which is
immutable once built. What varies is the *order* of calls: arrivals of two venues,
ticks, drains and a flush in any order.

**What makes each part hard, and correct.**

- *Sequencer.* A drain may run between any two arrivals, so what it publishes must be
  right whatever arrives next: no fill may be accepted later that sorts before a
  published one. Equal stamps are expected and are decided by the venue, which makes
  the gate asymmetric. It must also be no stricter than needed, or the merge stalls.
  Correct means: it implements an append-only tape that publishes accepted fills in key
  order, complete once flushed.
- *Ingester.* Venues repeat themselves: verbatim, reformatted, or with another payload
  under the same id; lines may be malformed, rejected, late or mislabelled. Correct
  means: an event is published at most once, conflicts are real ones, every arrival is
  accounted for, every arrival moves its venue's frontier, and the sequencer's promises
  survive the composition.
- *Registry and canonicalizer.* Integer arithmetic at boundaries: decimals, ticks, lots,
  the folding of NO into YES, the fee. Correct means: exact or rejected, consistent
  between the two tellings of a trade, and acceptable to the keeper.
- *Reader and producers' order.* What does not parse must not vanish, and a sort by
  number must be stable, or another copy of an event becomes the one that counts.
- *Fixture generator.* Swaps, repetitions and planted events are placed by counting
  lines and ordinals; where the cadences meet they can cancel or push each other out.
  Correct means: the stream has just the disorder its users test for, and each event,
  once formatted and canonicalized again, is what was drawn.
- *Harnesses.* Two streams, or two threads on one clock, interleave as they like.
  Correct means: what a venue trades depends on its own stream, nothing else; money and
  fees balance over all accounts; and with threads the tape finishes without a flush,
  without a deadlock, and is reproduced from its stamps.
- *Position keeper.* A position is a long sequence of fills; partial closes round.
  Correct means: no money is created or lost, and no legal sequence leads to a position
  that the keeper itself refuses.

`PROJECT.json` lists the hazards, each at its line, with the properties aimed at it.

## 2. Modules

```
SortKey <- Tape                                   the abstract tape
        <- Sequencer <- Ingester <- Streams <- RealtimeHarness
                                            <- Pipeline
                              Accounting    <- Pipeline
Instruments <- Accounting <- PositionKeeper
            <- Registry <- Canonicalizer <- Fixtures
```

An arrow points at what is extended. `Sequencer` also instantiates `Tape` under a
refinement mapping; `Pipeline` extends `Streams` and `Accounting`, and instantiates
`PositionKeeper` over the fills of the tape; `RealtimeHarness` instantiates `Sequencer` a second time, for the replay. `MC*` modules
give constants their values for TLC, `*Proofs` modules hold theorems.

| Module | Models | Correspondence |
|---|---|---|
| `SortKey` | `Venue`, `SequencedFill`, `SORT_KEY` | a venue is its lane index; `KeyLess` is the order |
| `Tape` | what the sequencer promises | `Accept`, `Publish`, `Seal`: no lanes, no frontiers |
| `Sequencer` | `impl Sequencer`, for K lanes | `Push`/`PushRefused`, `Tick`, `DrainReady`, `Flush`; the loop of `drain` is one `DrainEmit` per fill and a `DrainReturn` at its break |
| `Ingester` | `impl Ingester` | `FillCaught` is the whole of `fill_caught`, with one definition per way out; `Delegate` is what it hands to the sequencer |
| `Instruments` | integer widths, specs, `validate_fill` | shared by the two chains below |
| `Accounting` | `transition` and what `apply` computes | no state; `Adding` and `Closing` are the branches of `transition`, `Booked` is the insertion into the map |
| `Registry` | `try_from_specs` | one `Add` or `Refuse` per spec listed, `Finish` at the end of the list |
| `Canonicalizer` | `convert.rs` | `HlError`/`HlFill` and `PmError`/`PmFill` in the order of the code's early returns |
| `PositionKeeper` | `impl PositionKeeper` | `Apply`/`ApplyRefused`, with what a key paid and traded as history |
| `Fixtures` | `fixtures.rs`, `Registry::standard`, `gen_fixtures.rs` | `DrawEvent` is one turn of a venue's loop with its swap and its repetition, `PlantEvent` one planted event, `MatchTrade` one leg; `FormatScaled` is `format_scaled` |
| `Streams` | `read_ndjson`, the harness's sort by number | functions from a file, a sequence of texts, to lines |
| `Pipeline` | `run_pipeline` and `apply` of `tests/common/mod.rs` | `Catch` with the riffle's choice, then a drain; a flush at the end; then `ApplyNext` per fill of the tape |
| `RealtimeHarness` | `tests/ordering_realtime.rs` | `TakeStamp` and `Send` of two threads, a clock, and the main thread from `Collect` to `AssertOverlap` |

Representation choices a reader should know of:

- **Drains are unfolded.** `draining` is "no" between calls, and every other operation
  waits for "no", as `&mut self` demands. `tape` is the concatenation of all drains'
  results, which is how every caller uses them.
- **Canonicalization inside the ingester** is a function `Canon` of the event, because
  the registry never changes; `Canonicalizer` models the function itself.
- **Decimals.** `parse_fixed` is modelled from the point where the text is trimmed and
  split at its sign and dot. Characters are small numbers, of which 0..9 are digits. The
  digit loop is a function defined by recursion on the digits read (`Horner`), and powers
  of ten one on the exponent (`Tens`); the loop's running value never decreases, so
  "overflows on the way" and "the result does not fit" coincide.
- **Sorting and filtering** in `Streams` and `RealtimeHarness` are functions of positions:
  `StablySorted` ranks the elements of a set by key and place, and `Picked` is a list at
  some of its places, in order. A stable sort and a filter have just one result, so this
  is what any implementation returns.
- **Float prices** are integers on a grid (`Grain` to a micro-dollar) fine enough to
  tell on-tick, within the tolerance, and outside it apart; the relative tolerance
  `8 * EPSILON` is `1 / Precision`. Errors of the float arithmetic itself below that
  tolerance are not modelled.
- **Checked arithmetic.** The keeper's results are computed exactly, beside the set of
  intermediate values each width must hold; a value that does not fit is the code's
  `ArithmeticOverflow`. The widths are constants, so TLC reaches their ends.
- **The draws of the fixture generator** are free choices from small sets, so what is
  shown holds for every seed. An event of a stream is its number and its identity; its
  text is looked at when it is pushed, next to what the generator meant by it.
- **Failed assertions, panics and unwraps** of the harnesses are guards: a thread that
  fails one never moves again, which `Terminates` would show. In the realtime harness they
  are the `send`, `StampsAscend` once the channels are collected, the empty depth and
  flush, what `AssertTape` asks of the counters and of the tape's numbers, stamps and ties,
  the pushes of the replay, `Compare`, and `AssertOverlap`. A panic that legal inputs lead
  to is a state of its own, `panicked`: in `Pipeline` an overflow of the keeper, in
  `RealtimeHarness` a venue without any fill, whose last or first stamp is unwrapped.
- **A sleep** is any time between a line and the next stamp. A stamp is taken and sent
  in two steps, as in the code.
- **Refusals that change nothing** are actions (`PushRefused`, `ApplyRefused`,
  `Refuse`), so that the invariants quantify over them too.

Next to a definition there may be a sibling marked "Mutant": the same definition with a
plausible mistake. `PROJECT.json` names, for every property of every passing run, the
mutant whose substitution makes TLC refute that property; no mutant is used by a
specification.

## 3. Runs

| Run | Question | Instance |
|---|---|---|
| `sequencer_safety` | Is the tape ordered, final, maximal after a drain, complete after a flush, and an implementation of `Tape`? | 2 venues, sequence numbers 1..3, stamps 0..2 |
| `sequencer_liveness` | Is a fill that all frontiers have passed published, and does a flush publish everything? | 2 venues, numbers 1..2, stamps 0..2, `FairSpec` |
| `ingester_safety` | Is every event published once, every conflict real, every arrival accounted for, and is the ingester a sequencer? | 4 arrivals out of 7 events and 10 lines, stamps 1..2 |
| `canonicalizer_safety` | Are registries consistent, conversions exact and consistent, and fills valid for the keeper? | 11 candidate specs in every order; about 1,300 Hl and 1,000 Pm events |
| `keeper_safety` | Is money conserved, and does every position stay valid? | 4 fills out of 33, `i64` ending at 200 |
| `fixtures_safety` | Do generated streams and trades mean what was drawn, with just the disorder planted? | streams of 11 and 12 lines, all 25 rounds of matched trades |
| `pipeline_safety` | Do tape, counters and positions depend on the venues' own streams only, and do the books balance? | 290 inputs: 72 Hl and 2 Pm files, sorted or not, and two more; every interleaving |
| `realtime_liveness` | Does the harness finish its tape by ticks alone, reproduce it, and end with every assertion met? | two threads of up to 3 lines, 6 inputs, a clock of 3 ms, `FairHarness` |
| `ingester_letters` | Does every `OutOfOrder` letter mean a walk-back, as the comment says? (no) | as `ingester_safety` |
| `ingester_copies` | Is the first correct copy canonical, as the comment says? (no) | as `ingester_safety` |

**Why the bounds are enough.**

- *Sequencer.* Ordering mistakes need two venues, a tie, and an arrival before and one
  after a drain: three stamps and three numbers per venue give ties, strictly earlier
  and strictly later stamps on both sides of every frontier, several fills per lane, and
  skipped numbers. `last_seq` only grows, so the numbers bound the pushes and the state
  space is finite without a further bound.
- *Ingester.* Venue 0 sends one id in four copies (plain, reformatted, rejected,
  another payload under a later number) and two more events, one number apart from each
  other's; venue 1 reuses the id. Four arrivals hold the first copy, a copy that
  conflicts, its repetition, and an event that must not be disturbed; ticks, drains and
  a flush may come in between.
- *Canonicalizer.* A dollar is 1000 micro units and a cent 10. Prices are tried at both
  ends of the legal band, just outside it and in the middle, exact, one grain off, and
  on either side of the tolerance and of half a tick. Texts cover trailing zeros within
  and beyond the scale, leading dots, excess precision, zero, negatives, emptiness,
  non-digits, and values too large to parse or for `i64`. The outcome of an event
  depends on nothing but the registry, so one event per behaviour is enough.
  The tick sizes include one (20) whose dollar is not a multiple of a hundred ticks.
- *Keeper.* Four fills are two partial closes after an open and one more fill: the
  shortest history in which one rounding is the input of another. Sizes 1, 2, 3 make all
  remainders; 199 and 200 reach the end of `i64`.
- *Fixtures.* Prices keep their six decimals; quantities have five instead of nine, and
  Hl prices are a thousandth of the code's, so that products fit TLC's integers. A stream of 11 lines
  with a swap every 5 and a repetition every 3 events has both, a repetition that just
  fits and, in the other stream, one that does not. That the real cadences (37 and 41,
  31 and 43) keep the same distance over the real lengths is an assumption TLC evaluates.
- *Pipeline.* Three Hl files in every order of their four texts: a repetition and a
  conflicting copy; a line that does not parse among an open, an addition and a partial
  close that rounds; a rejected event among an open, an addition and a reversal. Two Pm
  files: in order, and out of order with a blank, an event of the wrong venue and a
  malformed line. Two more inputs hold a round of matched trades and two fills that
  overflow an `i64`.
- *Realtime.* Two lines that are accepted per venue are enough for a tie within a venue
  and across venues; the third is a repetition, disorder in the file, or an event of the
  other venue. One Pm file has nothing to trade, and ends in the panic. Three milliseconds
  allow both threads to share a stamp or to be apart.

`canonicalizer_safety` switches the deadlock check off: construction ends, and one event
ends the behaviour. In the other runs some operation can always be called, or the end of
the program is a step that changes nothing.

**Fairness.** `FairSpec` assumes weak fairness of calling `drain_ready`, of a turn of the
drain loop, and of its return. The last two say that a call runs to its end, which a
synchronous loop over finite buffers does. The first is what every caller in the
repository does: `run_pipeline` and the realtime harness drain after every arrival.
Nothing is assumed of arrivals, ticks or the flush: no code in the workspace forces
them. `SafeFillsArePublished` therefore starts from frontiers that *have* moved; that
they do when a venue falls silent is up to the caller's ticks (`src/Algo.md` says that
the `T_IDLE` driver is not built).

`FairHarness` assumes weak fairness of each sender thread and of the main thread, which
is what an operating system gives a thread that can run. Nothing is assumed of the
clock: all lines may be stamped within one millisecond. Nothing more is needed, since
`recv` blocks only while a sender is alive, and channels are unbounded.

### Where the code and its comments differ

- `ingester_letters`: `DeadLetterReason::OutOfOrder` is documented as "venue_seq or
  recv_ts walked back" (`crates/types/src/ingest.rs:20-21`), but a fill caught after a
  flush gets the same letter, with `Sealed` inside, and counts as `out_of_order`.
- `ingester_copies`: a comment says that "the first correct copy remains canonical"
  (`crates/ingester/src/lib.rs:16-17`); the first *observed* copy is, even if it was
  rejected, and a correct copy that follows it is quarantined as byzantine.

## 4. Proofs

All theorems hold for every value of the constants that satisfies the assumptions named
in the modules, each of which TLC evaluates:

- `SortKey`: at least one venue, natural stamps and sequence numbers, fills that name
  their venue.
- `Ingester`: a canonical fill keeps its event's venue and id; its number is a `u64`.
- `Instruments`: widths in `Nat`, an `i128` no narrower than an `i64`, a positive dollar.
- `Accounting`: integer specs, and one scale and one venue per instrument, which
  `OneEconomy` proves of every registry construction accepts.
- `PositionKeeper`: fills within their widths.
- `Registry`, `Canonicalizer`: well-formed candidate specs and events, decimal scales, and
  texts that are finite sequences of characters.
- `Fixtures`: `CadenceAssumption`, a stream has room for its planted events, and no swap
  falls at a repetition or right after one; `DrawAssumption`, prices have six decimals as
  `ticks_to_px_string` writes them, quantities at least four, prices and sizes that can be
  drawn are positive, a binary's price is 100 to 9900 ticks, and no text has more than
  nine digits or means more than its integer holds. The code's draws are far below that:
  the greatest price is 137000 ticks, the greatest fee 10000 micro-dollars.
- `Streams`: numbers of events are `u64`s that canonicalization keeps; what a reader can
  make of a text is a line.
- `Pipeline`: files no longer than the bound on arrivals, a stamp for each arrival,
  fills within their widths, and, as in the fixtures, numbers that identify a venue's
  events.
- `RealtimeHarness`: files are sequences of texts, and every reading of the clock, and the
  one after the last, is a stamp.

| Theorem | Statement |
|---|---|
| `SequencerProofs!TypeCorrect` | `Spec => []TypeOK` |
| `SequencerProofs!TapeOrder` | `Spec => []TapeInSortKeyOrder` |
| `SequencerProofs!Finality` | `Spec => []PublishedIsFinal` |
| `SequencerProofs!FlushComplete` | `Spec => []SealedTapeIsComplete` |
| `SequencerProofs!DrainMaximal` | `Spec => []DrainLeavesOnlyUnsafe` |
| `SequencerProofs!Refinement` | `Spec => Abstract!Spec`: the sequencer implements `Tape` |
| `IngesterProofs!IngesterRefinement` | `IngesterSpec => Spec`: the ingester implements the sequencer |
| `IngesterProofs!IngesterTape` | hence the ingester's tape is ordered and final |
| `IngesterProofs!ArrivalsAdvance` | `IngesterSpec => ArrivalsAdvanceFrontier` |
| `IngesterProofs!OneCopy` | `IngesterSpec => []OneCopyPerEvent` |
| `IngesterProofs!Conflicts` | `IngesterSpec => []ConflictsAreReal` |
| `IngesterProofs!Quarantine` | `IngesterSpec => []QuarantinedOnce` |
| `IngesterProofs!GuardsAgree` | `IngesterSpec => []MaxSeqIsLastSeq` |
| `IngesterProofs!IngesterTypes` | `IngesterSpec => []IngesterTypeOK` |
| `IngesterProofs!NothingIsLost` | `IngesterSpec => []Accounting` |
| `IngesterProofs!GapsAreMissing` | `IngesterSpec => []GapsCountMissing` |
| `PositionKeeperProofs!TypeCorrect` | `Spec => []TypeOK` |
| `PositionKeeperProofs!CashConserved` | `Spec => []CashIdentity` |
| `PositionKeeperProofs!MirrorExists` | `Spec => []NetQtyHasMirror` |
| `PositionKeeperProofs!PositionsStayValid` | `Spec => []NeverInvalidPosition` |
| `PositionKeeperProofs!EntryPriceBounded` | `Spec => []EntryPriceInRange` |
| `PositionKeeperProofs!DeltaAccounts` | `Spec => []DeltaAccountsForFill` |
| `CanonicalizerProofs!OneEconomy` | `Spec => []OneEconomyPerInstrument` |
| `CanonicalizerProofs!FillsAreValid` | `Spec => []CanonicalFillsAreValid` |
| `CanonicalizerProofs!CanonicalizerTypes` | `Spec => []TypeOK` |
| `CanonicalizerProofs!HlFillsExact` | `Spec => []HlFillsAreExact` |
| `CanonicalizerProofs!NearestFee` | `Spec => []FeeIsNearest` |
| `CanonicalizerProofs!TellingsAgree` | `Spec => []ComplementsAgree`, if `Precision >= 2 * Dollar` |
| `CanonicalizerProofs!StreamPlanted` | `GeneratorSpec => []StreamIsAsPlanted` |
| `CanonicalizerProofs!WrittenIsDrawn` | `GeneratorSpec => []EventsMeanWhatWasDrawn` |
| `CanonicalizerProofs!RoundsConserve` | `GeneratorSpec => []MatchedConserves` |
| `PipelineProofs!RunsTheIngester` | `PipelineSpec => IngesterSpec` |
| `PipelineProofs!PipelineInductive` | `PipelineSpec => [](Sound /\ Phases /\ Progress)`, the inductive invariant |
| `PipelineProofs!VenuesAlone` | `PipelineSpec => []VenuesArePublishedAlone` |
| `PipelineProofs!FirstCopies` | `PipelineSpec => []FirstCopyInFileWins` |
| `PipelineProofs!TextsAreAccounted` | `PipelineSpec => []NoTextIsLost` |
| `PipelineProofs!RunsTheKeeper` | `PipelineSpec => Keeper!Spec` |
| `PipelineProofs!TapeApplies` | `PipelineSpec => []TapeAppliesButForOverflow`, if every canonical fill is valid |
| `PipelineProofs!BooksInductive` | `PipelineSpec => []Booking`, the inductive invariant of the books |
| `PipelineProofs!PositionsIndependent` | `PipelineSpec => []PositionsIndependentOfInterleave` |
| `PipelineProofs!BooksBalanceAtEnd` | `PipelineSpec => []BooksBalance` |
| `RealtimeHarnessProofs!HarnessInductive` | `HarnessSpec => []Steady`, the inductive invariant |
| `RealtimeHarnessProofs!HarnessRunsTheIngester` | `HarnessSpec => IngesterSpec` |
| `RealtimeHarnessProofs!TicksFinish` | `HarnessSpec => []TicksFinishTheTape` |
| `RealtimeHarnessProofs!HarnessReplays` | `HarnessSpec => Replay!Spec`: the replay is a run of the sequencer |
| `RealtimeHarnessProofs!ReplayReproduces` | `HarnessSpec => []ReplayReproducesTape` |

`PositionKeeper`'s and `Canonicalizer`'s `Spec` are their own; the others' is the
sequencer's, which the ingester, the pipeline and the harness refine.

**Sequencer.** The order of the tape is not inductive: it depends on why a drain was
allowed to emit. The strengthening has four parts. Each lane's buffer is sorted by stamp
and number, and bounded by the lane's frontier and `last_seq` (`LaneOrdered`). Every
published fill is *passed* by every lane (`Passed`): a lane of higher priority has a
frontier beyond its stamp, a lane of lower priority one at least at it, and its own lane
has moved past its number; after a seal nothing more is accepted and this is no longer
needed. Every published fill precedes every buffered one (`Precedes`). And a flush has
sealed the stream (`FlushSeals`). A push keeps `Precedes` because its lane has passed
the published fills; an emission keeps it because the best head is the least buffered
fill; a ready drain keeps `Passed` because of the gate, and this is where its asymmetry
is needed. For the refinement, accepted fills are those buffered or published.

**Ingester.** `fill_caught` ticks and then pushes, which are two steps of the sequencer;
the theorem rests on the two together being one `Push` (or one `Tick` when nothing is
pushed), since the push overwrites the frontier with the stamp it was just ticked to.

What the ingester remembers is an invariant of its own, `Known`. None of its properties is
inductive alone: that an event is published once needs that whatever was accepted is in
`seen` under its id (`AcceptedKnown`) and has one place (`PlacedOnce`); that a conflict is
real needs that a remembered copy is never replaced (`SeenSound`, `LettersSound`); that an
event is quarantined once needs both, and that a quarantined one was never accepted
(`QuarantinedApart`). `MaxSeqIsLastSeq` ties the ingester's guard to the lane's: the
number `fill_caught` subtracts from is the one `push` compared with, so the subtraction
that counts a gap is never negative. The counters follow, with one lemma per way out
of `fill_caught` and what it counts. Depth and gaps are stated as
cardinalities, of the buffered places and of the missing numbers; an accepted fill has the
greatest number of its venue, so the numbers it newly skips are a whole interval, disjoint
from those missed before.

**Position keeper.** `CashIdentity` compares the position with two history variables:
what a key paid and received, and the lots it traded. It is inductive with the types:
a partial close takes a rounded share out of the open cost and puts the same share into
the realized profit, so the rounding cancels whatever it was. `MirrorExists` rests on
the magnitude of a new nonzero quantity being computed with checked arithmetic before
the position is stored.

`PositionsStayValid` and `EntryPriceBounded` rest on `Sound`: the cost of an open position
lies between its size times scale times the least, and the greatest, price of the key's
fills. Adding keeps that, since the new fill's price is among them. A partial close takes
the share `cost * closed / size`, rounded to the nearest integer; the exact share and the
exact rest respect the bounds, the bounds are integers, and rounding to the nearest
integer cannot cross an integer. So the cost stays positive while anything is open, and
the average, which is rounded once more, stays between two prices.

**Registry and canonicalizer.** Specs are compared with the first of their instrument
only; `RegistryInv` says that every stored spec agrees with that first one and is
positive, and that its kind decides its venue, from which any two agree. That a fill is
valid for the keeper follows case by case: ticks and lots of an Hl fill are positive
quotients; a binary's band excludes zero because a dollar is a multiple of a hundred
ticks; folding maps the band onto itself. A fee is computed from a sum that fits an
`i128`, so `NearestFee` is the division with remainder. `TellingsAgree` rests on the
tolerance: rounding a price half upwards and rounding its complement agree except exactly
half way between two ticks (`RoundsSymmetrically`), and a price there is farther from its
tick than the tolerance allows (`NeverHalfWay`), provided that the tolerance is below half
a micro-dollar in a dollar. The code's is `2 ^ -49` and its dollar `10 ^ 6`.

**Decimals.** `HlFillsExact` is about a loop over a text of any length. Induction over data
is written out: a counterexample set of natural numbers has a least element
(`LeastOfNaturals`, from the library's well-founded minimum), and a function defined by
recursion satisfies its equation because a solution exists (`RecurrenceHasSolution`). From
there, `NumeralIsHorner` says that the digits counted by their places, the reference the
property is stated with, are what the loop computes; `RunRemainder` says that stopping at
the last digit kept leaves a remainder below one unit of the scale, which is zero just when
only zeros follow. So a text parses exactly when it denotes a whole number of units that
fits (`ParsesExactly`), and with the division by tick or lot (`MultipleExactly`) an event is
accepted exactly when its numbers are whole and fit. `HlInv`, the event and its outcome stay
with the registry they were made with, is the only invariant this needs.

**Fixtures.** The generator's texts are read by the canonicalizer, so its proofs follow the
canonicalizer's in one module. `Laid` is the invariant of a stream's layout. Numbers follow
the place of an event's id among the ids (`Numbered`); only the event behind a swap is ever
overtaken (`NoOtherOvertaken`), and every one is (`SwappedAreOvertaken`); when a swap is due,
the element it moves back is no repetition (`LastIsLast`); and what is pushed never
exceeds the room left by the planted events (`Filled`). The second and third together are
`StreamIsAsPlanted`'s set, and the fourth is where the distance between the cadences is
used: a swap exchanges the new event with one of another id that is there just once.

`Meaning` adds to the registry, which holds the first of the standard specs and in the end all
(`StandardRegistry`), that the latest event means what was drawn for it. The step needs
that `format_scaled` is the inverse of `parse_fixed`: the digits written of a number run
back to it, place by place (`DigitsRunToNumber`), as many as needed and no fewer than the
scale asks for (`WidthIsEnough`), so the text has the number as its magnitude on its own
scale (`FormattedParses`) and, its zeros counted, on the canonicalizer's
(`WrittenMagnitude`). `StandardUnits` are the tick and lot of each instrument, and with
them an Hl event is its ticks and lots times these (`HlMeansWhatWasDrawn`). A Pm price is a
whole number of ticks on the grid, told from either end (`PmMeansWhatWasDrawn`).

`Matched` adds the running fees. The sums of `MatchedConserves` are functions defined by
recursion on the legs. What one maker gives in a leg the other takes (`MakersTrade`), so at
the end of every round one sum is the negative of the other (`RoundsBalance`): it has
drifted by the difference between the round's closing and opening price times its size. For
lots that difference is zero, and both makers are flat (`RoundsFlat`). The proof needs one
size for all four legs of a round.

**Streams.** `StreamsProofs` holds what the two harnesses share. Its first part is about
sorting: ranks are a bijection (`RankIsPlace`), so `StablySorted` is a permutation in the
order asked for, and filtering one more place appends at most one element (`PickedNext`). Its
second part compares the ingester with a venue's lines: `Follows` says that what the venue
has on the tape and in its queue, in that order (`Out`), is `Kept` of the lines taken so
far, that the remembered copies are the first ones of those lines, and that the lane's last
number is that of the last line carried. One line caught, whatever its way out of
`fill_caught`, keeps this for its venue (`FollowsCatch`) and for every other
(`FollowsOther`); an emission moves a fill from one part of `Out` to the other
(`OutEmitted`).

**Pipeline.** The inductive invariant adds to the ingester's own (`Sound`) where the loop
stands and that nothing waits after a flush (`Phases`), and what has been done
(`Progress`): every venue `Follows` its lines, and the lines taken, the late ones and
those that are no events are as many as the arrivals, the counter and the letters say. When the
stream has ended, all lines are taken and no lane holds a fill, so `Out` is what was
published. Sorted lines have ascending numbers, so none is late (`SortedNeverLate`). The
first line of an event is the first copy in the file, because the sort is stable and the
copies of an event have one number.

The positions are proved from a second invariant, `Booking`. While the tape is applied,
the books of the keeper *match* each venue's: for the number of fills of a venue among
those applied, what the venue's own stream would have booked by then is, key by key, what
the keeper holds (`Matches`). One fill changes one key; an instrument has one venue, so
the key is in the books of no other venue, and `MatchesNext` follows from the recursion of
`BooksAfter`. The sums take a theory of finite sums (`Sums`, `SumReplaced`,
`SumAdded`, `SumAppended`): the community module's fold is only a `CHOOSE` of a recursive
function, so that it exists is proved first. Then a fill changes what the books have spent
by what the fill paid, because `CashIdentity`'s argument is one about the arithmetic
(`AfterSpends`), and the fees by its fee (`BookedSums`). At the end each venue's part of
the tape is all of `Kept`, which is `VenuesAlone`. `TapeApplies` needs that
the books are sound, as in the keeper, and has a hypothesis: every canonical fill is valid
for its spec. That is `FillsAreValid` of the canonicalizer, whose registry is `Specs` here.

**Realtime harness.** `Steady` consists of: the ingester's invariant; the stamps a thread has
sent do not go back and the one it holds is not earlier (`Threads`); the stamps merged are
those up to the last one, in every channel (`Merge`); where the main thread stands
(`Phases`); every fill queued or published has the stamp its thread took for its line
(`AllTimed`); and every venue `Follows` its lines. Since merged stamps never go back, the
ingester's frontiers are at most the last stamp, and one tick past it on every venue opens
the gate for whatever is queued (`NothingIsGated`). For the replay, `Rehearsal` says that
up to the flush the second sequencer holds just what was handed to it, and afterwards has
published a first part of the tape and holds the rest. The tape is in `SORT_KEY` order, so
the next fill of the tape heads its lane, and is the best of all heads (`NextIsBest`): each
turn of the loop reproduces one more fill.

**Only model-checked.** Liveness: `SafeFillsArePublished`, `FlushPublishesAll` and
`Terminates`, which are out of the prover's reach. Every invariant and every action property
that a passing run checks is a theorem.

## 5. Not modelled

- Boundary and fixed-point types: records and integer newtypes without operations. They
  are the records and integers of the other modules.
- File I/O, JSON decoding and the writers: a text either is an event of a venue or is not.
- The bits of the seeded random generator, timestamps, and the accounts of the generated
  streams; the wall clock `generate` starts from.
- The text of dead letters and alerts, and fields that are copied and never read (`ts_ms`;
  `account` in the sequencer and the canonicalizer).
- In the realtime harness, what is I/O and can fail as such: opening the two files and
  reading the wall clock (`ordering_realtime.rs:57-63`), and the report that is written and
  printed once all assertions are met (19-32, 186-226).
- Errors of float arithmetic below the tolerance of `price_to_ticks`.
- Buffer capacity (an allocation hint) and backpressure, persistence, reconnection,
  staleness flags and the `T_IDLE` driver of `src/Algo.md`: not implemented in the code.
  Nothing is persisted and nothing retried, so there is no crash or recovery to model.

## 6. Plan

The parts were built in this order: the sequencer and its abstract tape, the ingester, the
keeper, registry and canonicalizer, each with its proofs; then the fixtures, the reader,
the pipeline and the realtime harness. Every component that changes state is modelled.
The proofs followed in the same order; the reader, the pipeline, the realtime harness and
the decimal loop came next, then the books at the end of the pipeline, and the generated
streams last. What could still be added is **a driver for idle venues**, once the code has
one: its timer, the fairness it gives `Tick`, and with it `SafeFillsArePublished` without
the antecedent on frontiers.
