---------------------------- MODULE Subscription ----------------------------
(***************************************************************************)
(* What a stream of toxicity-service promises its subscribers, without its *)
(* locks, channel, receivers and sockets.  Module Fanout implements it.    *)
(*                                                                         *)
(* Messages are numbered in the order they are published.  A subscriber    *)
(* joins with the latest message, and is then taken through the stream     *)
(* from a point no later than that, message by message.  It is spared only *)
(* messages that at least Capacity others have come after.                 *)
(***************************************************************************)
EXTENDS Naturals

CONSTANTS
  Clients,   \* possible subscribers
  Capacity   \* how far a subscriber may fall behind

VARIABLES
  latest,  \* the messages published
  on,      \* the set of those subscribed
  pos,     \* the messages each subscriber has been taken through
  shown    \* the message each subscriber was shown last

vars == <<latest, on, pos, shown>>

Init ==
  /\ latest = 0
  /\ on = {}
  /\ pos = [c \in Clients |-> 0]
  /\ shown = [c \in Clients |-> 0]

Publish ==
  /\ latest' = latest + 1
  /\ UNCHANGED <<on, pos, shown>>

Join(c) ==
  /\ c \notin on
  /\ on' = on \cup {c}
  /\ \E p \in 0..latest : pos' = [pos EXCEPT ![c] = p]
  /\ shown' = [shown EXCEPT ![c] = latest]
  /\ UNCHANGED latest

Deliver(c) ==
  /\ c \in on
  /\ pos[c] < latest
  /\ pos' = [pos EXCEPT ![c] = @ + 1]
  /\ shown' = [shown EXCEPT ![c] = pos[c] + 1]
  /\ UNCHANGED <<latest, on>>

Skip(c) ==
  /\ c \in on
  /\ \E p \in 0..latest :
       /\ pos[c] < p
       /\ p + Capacity <= latest
       /\ pos' = [pos EXCEPT ![c] = p]
  /\ UNCHANGED <<latest, on, shown>>

Leave(c) ==
  /\ c \in on
  /\ on' = on \ {c}
  /\ pos' = [pos EXCEPT ![c] = 0]
  /\ shown' = [shown EXCEPT ![c] = 0]
  /\ UNCHANGED latest

Next ==
  \/ Publish
  \/ \E c \in Clients : Join(c) \/ Deliver(c) \/ Skip(c) \/ Leave(c)

Spec == Init /\ [][Next]_vars
=============================================================================
