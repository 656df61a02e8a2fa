---------------------------- MODULE MCRecordStream ----------------------------
(* Instances of RecordStream for TLC. *)
EXTENDS RecordStream

CONSTANTS c1, c2, s1, s2

\* Every client watches c1; c2 only shortens its replay window.
WatchFirst == [s \in Stream |-> c1]

\* An Event of c2 is enough to push an Event of c1 out of the window.
Events2And1 == [c \in Collection |-> IF c = c1 THEN 2 ELSE 1]

\* Nobody watches c2, so that its list rule decides about nothing.
Scope == c2 \in admitted

=============================================================================
