---------------------------- MODULE EventStreamer ----------------------------
(***************************************************************************)
(* utils/events: a list of channels under a mutex, in which a channel is   *)
(* as often as it was subscribed.  Publish starts a goroutine for every    *)
(* place of the list, which sends when the channel has room and which      *)
(* Unsubscribe does not stop.  The goroutines run in any order, so the     *)
(* order of the list is left out and its places are numbered.              *)
(***************************************************************************)
EXTENDS Naturals, Sequences, FiniteSets

CONSTANTS
    Clients,     \* and their channels
    MaxEvents,   \* bound: messages published
    MaxChanges   \* bound: calls of Subscribe and Unsubscribe

VARIABLES
    clientChannels,  \* e.clientChannels: its places, <<number, client>>
    sending,         \* sends in flight: <<place, message>>
    inbox,           \* what each client has received
    left,            \* clients that read no more
    events, changes,
    subscribed,      \* history: calls of Subscribe since the last Unsubscribe
    promised         \* history: of each message, how often each client is to get it

eventVars == <<clientChannels, sending, inbox, left, events, changes, subscribed, promised>>

StreamerInit ==
    /\ clientChannels = {} /\ sending = {}
    /\ inbox = [c \in Clients |-> <<>>] /\ left = {}
    /\ events = 0 /\ changes = 0
    /\ subscribed = [c \in Clients |-> 0] /\ promised = <<>>

Changes == changes < MaxChanges /\ changes' = changes + 1
-----------------------------------------------------------------------------
Subscribe(c) ==
    /\ Changes
    /\ clientChannels' = clientChannels \cup {<<changes', c>>}
    /\ subscribed' = [subscribed EXCEPT ![c] = @ + 1]
    /\ UNCHANGED <<sending, inbox, left, events, promised>>

Unsubscribe(c) ==
    /\ Changes
    /\ clientChannels' = {p \in clientChannels : p[2] # c}
    /\ subscribed' = [subscribed EXCEPT ![c] = 0]
    /\ UNCHANGED <<sending, inbox, left, events, promised>>

Publish ==
    /\ events < MaxEvents
    /\ events' = events + 1
    /\ sending' = sending \cup (clientChannels \X {events'})
    /\ promised' = Append(promised, subscribed)
    /\ UNCHANGED <<clientChannels, inbox, left, changes, subscribed>>

\* The goroutine of a place sends; a client that reads no more leaves it blocked.
Send(p, m) ==
    /\ p[2] \notin left
    /\ sending' = sending \ {<<p, m>>}
    /\ inbox' = [inbox EXCEPT ![p[2]] = Append(@, m)]
    /\ UNCHANGED <<clientChannels, left, events, changes, subscribed, promised>>

Leave(c) ==
    /\ c \notin left
    /\ left' = left \cup {c}
    /\ UNCHANGED <<clientChannels, sending, inbox, events, changes, subscribed, promised>>

StreamerNext ==
    \/ Publish
    \/ \E c \in Clients : Subscribe(c) \/ Unsubscribe(c) \/ Leave(c)
    \/ \E s \in sending : Send(s[1], s[2])
-----------------------------------------------------------------------------
Places == (1 .. changes) \X Clients

StreamerTypeOK ==
    /\ clientChannels \in SUBSET Places
    /\ sending \in SUBSET (Places \X (1 .. events))
    /\ inbox \in [Clients -> Seq(1 .. events)] /\ left \in SUBSET Clients
    /\ events \in 0 .. MaxEvents /\ changes \in 0 .. MaxChanges
    /\ subscribed \in [Clients -> Nat]
    /\ promised \in [1 .. events -> [Clients -> Nat]]

(***************************************************************************)
(* A client gets a message once for every Subscribe since its last         *)
(* Unsubscribe when it was published, in whatever order the sends happen   *)
(* and also if it has unsubscribed since: as long as it reads, what was    *)
(* received and what is in flight make up that number.                     *)
(***************************************************************************)
SentAsSubscribed ==
    \A c \in Clients, m \in 1 .. events :
        Cardinality({s \in sending : s[1][2] = c /\ s[2] = m})
          + Cardinality({i \in DOMAIN inbox[c] : inbox[c][i] = m})
            = promised[m][c]
=============================================================================
