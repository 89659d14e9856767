------------------------------- MODULE MCLive -------------------------------
(***************************************************************************)
(* What must eventually happen in a generation and in the channel broker,  *)
(* on small instances.  A behaviour is about the one that its first state  *)
(* picks.                                                                  *)
(***************************************************************************)
EXTENDS ModelGeneration

CONSTANTS
    Subjects, Queues, Callers, Forwarders, Managers, BufferSize, MaxMsgs, MaxSubs

VARIABLES
    part,       \* "generation" or "broker"
    storage, nchan, closed, buf, readers, rqueue, writer, pc, request, subject, sent,
    loop, good, failed, ndel, source, dstate, hand, gone, accepted, received, closedTwice

generation == vars
broker == <<storage, nchan, closed, buf, readers, rqueue, writer, pc, request, subject, sent,
            loop, good, failed, ndel, source, dstate, hand, gone, accepted, received,
            closedTwice>>

B == INSTANCE ChannelBroker WITH todo <- loop, panicked <- closedTwice

\* Three messages on one queue: one more than its buffer and its delivery
\* goroutine absorb when the subscriber does not read.
ThreeInAll ==
    [p \in Callers \cup Forwarders |-> IF p \in Forwarders THEN 2 ELSE 1]
\* The documented form of a URL.
TenParts == {10}
-----------------------------------------------------------------------------
LiveInit == part \in {"broker", "generation"} /\ Init /\ B!Init

LiveNext ==
    \/ part = "generation" /\ Next /\ UNCHANGED <<part, broker>>
    \/ part = "broker" /\ B!Next /\ UNCHANGED <<part, generation>>

\* The fairness of both modules, each in its part.
OfBroker(A) == part = "broker" /\ A
OfGeneration(A) == part = "generation" /\ ~panicked /\ A
\* SheetsAnswer of ModelGeneration: an assumption on Google Sheets.
SheetsAnswerLive ==
    /\ WF_generation(OfGeneration(Relationships))
    /\ WF_generation(OfGeneration(SheetsCall))

LiveSpec ==
    /\ LiveInit /\ [][LiveNext]_<<part, broker, generation>>
    /\ WF_generation(OfGeneration(MainRuns))
    /\ \A m \in Models :
         /\ WF_generation(OfGeneration(WorkerStep(m)))
         /\ SF_generation(OfGeneration(GenStep(m)))
    /\ WF_generation(OfGeneration(BuildMap))
    /\ SheetsAnswerLive
    /\ \A p \in B!Publishers : WF_broker(OfBroker(B!PublishLoop(p)))
    /\ \A m \in Managers :
         SF_broker(OfBroker(B!Announce(m))) /\ WF_broker(OfBroker(B!Body(m)))
    /\ \A d \in B!Deliveries :
         /\ WF_broker(OfBroker(B!Receive(d)))
         /\ WF_broker(OfBroker(B!Deliver(d)))
         /\ WF_broker(OfBroker(B!DeliveryEnd(d)))
-----------------------------------------------------------------------------
\* Calls of the broker return.
CallsReturn == B!CallsReturn

\* A delivery goroutine ends with its channel.
DeliveryEnds == B!DeliveryEnds
=============================================================================
