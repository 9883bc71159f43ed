---------------------------- MODULE MCEventQueue ----------------------------
(* A small instance of EventQueue for TLC.                                  *)
EXTENDS EventQueue, TLC

CONSTANTS e1, e2, r1, w1, w2

\* Two calls of one replica.
OneHome == [e \in Events |-> r1]

\* The events have request ids of their own.
OwnRequestId == [e \in Events |-> e]

=============================================================================
