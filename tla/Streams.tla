------------------------------ MODULE Streams ------------------------------
(***************************************************************************)
(* Where the ingester's lines come from: the reader of                     *)
(* crates/types/src/stream.rs and the producers' order of the test         *)
(* harness, crates/ingester/tests/common/mod.rs.                           *)
(*                                                                         *)
(* A file is a sequence of texts: an event of one of the venues, blank, or *)
(* anything else.                                                          *)
(***************************************************************************)
EXTENDS Ingester, SequencesExt

CONSTANT Blank

Text == RawEvent \cup {Malformed, Blank}

(* seq: u64, and canonicalization keeps it. *)
ASSUME NumberAssumption ==
    \A e \in RawEvent :
        /\ e.seq \in Nat /\ e.seq < U64
        /\ Canon[e] # Rejected => Canon[e].seq = e.seq

(* Deserialized with the venue's own type: another venue's event is not    *)
(* one of this venue.                                                      *)
Parsed(venue, text) ==
    IF text \in RawEvent /\ text.venue = venue THEN text ELSE Malformed

ReadLine(venue, text) == [venue |-> venue, parsed |-> Parsed(venue, text)]

(* RawLine holds whatever the reader can make of a text. *)
ASSUME LineAssumption ==
    /\ Blank \notin RawEvent
    /\ \A venue \in Venue : \A text \in Text : ReadLine(venue, text) \in RawLine

(* The numbers of a finite set ordered by their keys, those of equal keys  *)
(* among themselves: the k-th one has k numbers up to it.                  *)
StablySorted(S, key) ==
    LET UpTo(i) == {j \in S : key[j] < key[i] \/ (key[j] = key[i] /\ j <= i)}
    IN  [k \in 1 .. Cardinality(S) |-> CHOOSE i \in S : Cardinality(UpTo(i)) = k]

(* What a list has at some of its places, in the order of the list. *)
Picked(list, places) ==
    LET order == StablySorted(places, [i \in places |-> 0])
    IN  [k \in DOMAIN order |-> list[order[k]]]

(* Mutant: what does not parse is skipped.                                 *)
ReadNdjsonValid(venue, file) ==
    LET valid == Picked(file, {i \in DOMAIN file : Parsed(venue, file[i]) # Malformed})
    IN  [k \in DOMAIN valid |-> ReadLine(venue, valid[k])]

ReadNdjson(venue, file) ==
    LET texts == Picked(file, {i \in DOMAIN file : file[i] # Blank})
    IN  [k \in DOMAIN texts |-> ReadLine(venue, texts[k])]

(* u64::MAX for a line without a number. *)
SeqKey(line) == IF line.parsed = Malformed THEN U64 - 1 ELSE line.parsed.seq

(* Mutant: not stable, later copies first.                                 *)
SortedBySeqLastFirst(lines) ==
    LET back  == Reverse(lines)
        order == StablySorted(DOMAIN back, [i \in DOMAIN back |-> SeqKey(back[i])])
    IN  [k \in DOMAIN lines |-> back[order[k]]]

(* A stable sort. *)
SortedBySeq(lines) ==
    LET order == StablySorted(DOMAIN lines, [i \in DOMAIN lines |-> SeqKey(lines[i])])
    IN  [k \in DOMAIN lines |-> lines[order[k]]]

-----------------------------------------------------------------------------
(* What a stream should lead to, told from its lines alone.                *)

(* The first copies of valid events, in whatever place. *)
Fresh(lines) ==
    {i \in DOMAIN lines :
        /\ lines[i].parsed # Malformed
        /\ Canon[lines[i].parsed] # Rejected
        /\ \A j \in 1 .. i - 1 :
              lines[j].parsed # Malformed =>
                  lines[j].parsed.event_id # lines[i].parsed.event_id}

(* Those that no earlier one has overtaken. *)
OnTime(lines) ==
    {i \in Fresh(lines) : \A j \in Fresh(lines) :
        j < i => lines[j].parsed.seq < lines[i].parsed.seq}

Kept(lines) ==
    LET kept == Picked(lines, OnTime(lines))
    IN  [k \in DOMAIN kept |-> Canon[kept[k].parsed]]

OfVenue(v, fills) == Picked(fills, {i \in DOMAIN fills : fills[i].venue = v})

Published == [i \in DOMAIN tape |-> tape[i].fill]

=============================================================================
