------------------------- MODULE MCRealtimeHarness -------------------------
(***************************************************************************)
(* A finite instance of RealtimeHarness: two threads with two or three     *)
(* lines each, among them a repetition, a rejected event, disorder in the  *)
(* file and a line that does not parse, or with nothing to trade, and a    *)
(* clock of three milliseconds.                                            *)
(***************************************************************************)
EXTENDS RealtimeHarness

Event(v, id, n) == [venue |-> v, event_id |-> id, seq |-> n]

MCRawEvent == {Event(v, id[1], id[2]) : v \in {0, 1}, id \in {<<"a", 1>>, <<"b", 2>>, <<"c", 4>>}}

MCFill == MCRawEvent \ {Event(1, "c", 4)}

MCCanon == [e \in MCRawEvent |-> IF e \in MCFill THEN e ELSE Rejected]

MCSource ==
    {(0 :> hl @@ 1 :> pm) :
        hl \in {<<Event(0, "b", 2), Event(0, "a", 1), Event(0, "c", 4)>>,
                <<Event(0, "a", 1), Malformed, Event(0, "a", 1)>>},
        pm \in {<<Event(1, "a", 1), Blank, Event(1, "b", 2)>>,
                <<Event(1, "c", 4), Event(1, "a", 1), Event(0, "a", 1)>>,
               <<Event(1, "c", 4)>>}}

MCRawLine == {ReadLine(v, text) : v \in {0, 1}, text \in Text}

MCStamp == 1 .. MaxClock + 1

=============================================================================
