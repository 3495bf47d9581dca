----------------------------- MODULE MCIngester ----------------------------
(***************************************************************************)
(* A finite instance of Ingester.  Venue 0 sends event "a" in four copies: *)
(* two that differ only on the wire, one with another payload under a      *)
(* later number and one that is rejected; then "b" and "d".               *)
(* Venue 1 sends an "a" of its own.                                        *)
(***************************************************************************)
EXTENDS Ingester

CONSTANT MaxStamp

MCStamp == 1 .. MaxStamp

Event(v, id, n, raw) == [venue |-> v, event_id |-> id, seq |-> n, raw |-> raw]

MCRawEvent ==
    {Event(0, "a", 1, raw) : raw \in {"plain", "padded", "bad"}}
    \cup {Event(0, "a", 3, "other"), Event(0, "b", 2, "plain"),
          Event(0, "d", 4, "plain"), Event(1, "a", 1, "plain")}

(* Each reader labels its own venue's lines; one line is mislabelled, and  *)
(* either venue may send a line that does not parse.                       *)
MCRawLine ==
    {[venue |-> e.venue, parsed |-> e] : e \in MCRawEvent}
    \cup {[venue |-> 1, parsed |-> Event(0, "b", 2, "plain")]}
    \cup [venue : Venue, parsed : {Malformed}]

(* Padding on the wire disappears in the canonical form. *)
Payload(raw) == IF raw = "padded" THEN "plain" ELSE raw

MCFill ==
    {[venue |-> e.venue, event_id |-> e.event_id, seq |-> e.seq,
      payload |-> Payload(e.raw)] : e \in {r \in MCRawEvent : r.raw # "bad"}}

MCCanon ==
    [e \in MCRawEvent |->
        IF e.raw = "bad" THEN Rejected
        ELSE [venue |-> e.venue, event_id |-> e.event_id, seq |-> e.seq,
              payload |-> Payload(e.raw)]]

=============================================================================
