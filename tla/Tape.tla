------------------------------- MODULE Tape --------------------------------
(***************************************************************************)
(* What the sequencer promises, with no lanes, frontiers or drains: a set  *)
(* of accepted stamped fills and one append-only tape that publishes them  *)
(* in SORT_KEY order.  A fill is accepted only if it sorts after           *)
(* everything already published (the past is final), only the least        *)
(* unpublished fill may be published, and sealing ends acceptance.         *)
(***************************************************************************)
EXTENDS SortKey

VARIABLES
    accepted,   \* the stamped fills taken so far
    tape,       \* those published, each at its global_seq
    sealed      \* the stream has ended

vars == <<accepted, tape, sealed>>

Published == {Unsequenced(tape[i]) : i \in DOMAIN tape}
Pending   == accepted \ Published

Init ==
    /\ accepted = {}
    /\ tape = << >>
    /\ sealed = FALSE

Accept(e) ==
    /\ ~sealed
    /\ \A p \in Published : KeyLess(p, e)
    /\ \A q \in accepted : KeyLess(q, e) \/ KeyLess(e, q)
    /\ accepted' = accepted \cup {e}
    /\ UNCHANGED <<tape, sealed>>

Publish(e) ==
    /\ e \in Pending
    /\ \A q \in Pending \ {e} : KeyLess(e, q)
    /\ tape' = Append(tape, [global_seq |-> Len(tape) + 1,
                             recv_ts    |-> e.recv_ts,
                             fill       |-> e.fill])
    /\ UNCHANGED <<accepted, sealed>>

Seal ==
    /\ sealed' = TRUE
    /\ UNCHANGED <<accepted, tape>>

Next ==
    \/ \E e \in Stamped : Accept(e) \/ Publish(e)
    \/ Seal

Spec == Init /\ [][Next]_vars

=============================================================================
