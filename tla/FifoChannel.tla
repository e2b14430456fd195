----------------------------- MODULE FifoChannel ------------------------------
(***************************************************************************)
(* What akita/doc/connection_system.md promises of every connection: a     *)
(* message that was sent arrives, none is dropped, duplicated, misrouted   *)
(* or overtaken by a later one of the same sender and receiver.  Messages  *)
(* of different senders arrive in any order.                               *)
(***************************************************************************)
EXTENDS Sequences

CONSTANT End

VARIABLES
    channel,    \* channel[s][d]: the messages on their way from s to d
    inbox       \* inbox[d]: the messages that have arrived at d

Init ==
    /\ channel = [s \in End |-> [d \in End |-> <<>>]]
    /\ inbox = [d \in End |-> <<>>]

\* A message, whatever it is, is appended.
Send(s, d) ==
    /\ channel'[s][d] # <<>>
    /\ channel' = [channel EXCEPT ![s][d] = Append(@, channel'[s][d][Len(channel'[s][d])])]
    /\ UNCHANGED inbox

Arrive(s, d) ==
    /\ channel[s][d] # <<>>
    /\ inbox' = [inbox EXCEPT ![d] = Append(@, Head(channel[s][d]))]
    /\ channel' = [channel EXCEPT ![s][d] = Tail(@)]

Retrieve(d) ==
    /\ inbox[d] # <<>>
    /\ inbox' = [inbox EXCEPT ![d] = Tail(@)]
    /\ UNCHANGED channel

Next ==
    \/ \E s, d \in End : Send(s, d) \/ Arrive(s, d)
    \/ \E d \in End : Retrieve(d)

Spec == Init /\ [][Next]_<<channel, inbox>>
===============================================================================
