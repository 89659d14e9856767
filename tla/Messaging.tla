----------------------------- MODULE Messaging -----------------------------
(***************************************************************************)
(* The NATS handler, the broadcaster and the event streamer.  They share   *)
(* nothing, so a behaviour is about one part: the calls that wait for one  *)
(* message, the streams, the forwarder, the broadcaster, or the event      *)
(* streamer.                                                               *)
(***************************************************************************)
EXTENDS NatsBroker

CONSTANTS
    Subscribers, Submitters, BufLens,  \* of Broadcaster
    MaxBroadcasts,                     \* bound: messages broadcast
    MaxEvents, MaxChanges              \* bounds of EventStreamer

VARIABLES
    part,       \* "calls", "streams", "forward", "broadcast" or "events"
    bufLen, input, at, current, todo, outputs, regClosed, pos, said, stopped,
    got, due, crashed,
    clientChannels, sending, inbox, left, events, changes, subscribed, promised

broadcasterVars == <<bufLen, input, at, current, todo, outputs, regClosed, pos,
                     said, stopped, got, due, crashed>>
streamerVars == <<clientChannels, sending, inbox, left, events, changes, subscribed, promised>>

B == INSTANCE Broadcaster WITH MaxMsgs <- MaxBroadcasts

E == INSTANCE EventStreamer WITH Clients <- Subscribers

ASSUME MessagingAssumption ==
    /\ IsFiniteSet(Submitters)
    /\ BufLens \subseteq Nat
    /\ MaxBroadcasts \in Nat /\ MaxEvents \in Nat /\ MaxChanges \in Nat
    /\ Subscribers \cap Submitters = {}

\* The goroutines of the NATS handler that each part has
Players ==
    CASE part = "calls"   -> Waiters
      [] part = "streams" -> Streams \cup Unsubscribers
      [] part = "forward" -> Forwarders

InPart == \A g \in Goroutines \ Players : pc'[g] = "off"

MessagingInit ==
    /\ part \in {"calls", "streams", "forward", "broadcast", "events"}
    /\ Init
    /\ B!Init
    /\ E!StreamerInit

MessagingNext ==
    \/ /\ part \in {"calls", "streams", "forward"} /\ Next /\ InPart
       /\ UNCHANGED <<part, broadcasterVars, streamerVars>>
    \/ part = "broadcast" /\ B!Next /\ UNCHANGED <<part, vars, streamerVars>>
    \/ part = "events" /\ E!StreamerNext /\ UNCHANGED <<part, vars, broadcasterVars>>

MessagingSpec ==
    /\ MessagingInit /\ [][MessagingNext]_<<part, vars, broadcasterVars, streamerVars>>
    /\ B!Fairness
-----------------------------------------------------------------------------
\* The types of all modules
TypesOK == TypeOK /\ B!TypeOK /\ E!StreamerTypeOK

\* What a subscriber of the broadcaster, and of the event streamer, receives
ExactDelivery == B!ExactDelivery /\ E!SentAsSubscribed

\* Calls of the broadcaster return
CallsReturn == B!CallsReturn
=============================================================================
