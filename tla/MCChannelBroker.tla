-------------------------- MODULE MCChannelBroker --------------------------
(* A small broker for TLC.                                                 *)
EXTENDS ChannelBroker

\* Three messages on one queue: one more than its buffer and its delivery
\* goroutine absorb when the subscriber does not read.
ThreeInAll ==
    [p \in Callers \cup Forwarders |-> IF p \in Forwarders THEN 2 ELSE 1]
=============================================================================
