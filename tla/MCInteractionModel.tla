-------------------------- MODULE MCInteractionModel --------------------------
(* A small instance of InteractionModel for TLC.                           *)
EXTENDS InteractionModel

Widget(e, i) == [event_id |-> e, interactive |-> i]

\* Three buttons; one of them gone and another with a new event id; one
\* turned into a label; an empty layout.
Layouts ==
  { [n \in 1 .. 3 |-> Widget(n, TRUE)],
    [n \in {1, 3} |-> Widget(IF n = 3 THEN 9 ELSE n, TRUE)],
    [n \in 1 .. 2 |-> Widget(n, n = 1)],
    << >> }
=============================================================================
