-------------------------- MODULE MCChannelRouting --------------------------
(* A small instance of ChannelRouting for TLC.                              *)
EXTENDS ChannelRouting, TLC

CONSTANTS c1, r1, p1, f1

=============================================================================
