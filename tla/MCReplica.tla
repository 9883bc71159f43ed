------------------------------ MODULE MCReplica ------------------------------
(* A replica whose timeouts are a few ticks, in the code's order.          *)
EXTENDS Replica

ClockReadings == 0..2

=============================================================================
