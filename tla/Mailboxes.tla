----------------------------- MODULE Mailboxes -----------------------------
(***************************************************************************)
(* What a queue of the in-process broker promises: a mailbox is made once, *)
(* takes messages while it is open and has room, hands them over in the    *)
(* order it took them, and can be closed for good.  A closed mailbox still *)
(* hands over what it holds.                                               *)
(***************************************************************************)
EXTENDS Naturals, Sequences

CONSTANTS Boxes, Msgs, Capacity

VARIABLES
    made,    \* the mailboxes made so far
    open,    \* those that take messages
    box,     \* what each holds
    taken    \* what each has handed over

mailVars == <<made, open, box, taken>>

Init ==
    /\ made = {}
    /\ open = {}
    /\ box = [b \in Boxes |-> <<>>]
    /\ taken = [b \in Boxes |-> <<>>]

Make(b) ==
    /\ b \notin made
    /\ made' = made \cup {b}
    /\ open' = open \cup {b}
    /\ UNCHANGED <<box, taken>>

Put(b, m) ==
    /\ b \in open
    /\ Len(box[b]) < Capacity
    /\ box' = [box EXCEPT ![b] = Append(@, m)]
    /\ UNCHANGED <<made, open, taken>>

Take(b) ==
    /\ box[b] # <<>>
    /\ taken' = [taken EXCEPT ![b] = Append(@, Head(box[b]))]
    /\ box' = [box EXCEPT ![b] = Tail(@)]
    /\ UNCHANGED <<made, open>>

Close(B) ==
    /\ B \subseteq open
    /\ open' = open \ B
    /\ UNCHANGED <<made, box, taken>>

Next ==
    \/ \E b \in Boxes : Make(b) \/ Take(b)
    \/ \E b \in Boxes, m \in Msgs : Put(b, m)
    \/ \E B \in SUBSET Boxes : Close(B)

Spec == Init /\ [][Next]_mailVars
=============================================================================
