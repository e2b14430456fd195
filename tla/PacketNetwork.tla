----------------------------- MODULE PacketNetwork -----------------------------
(***************************************************************************)
(* What a network promises the devices that are plugged in to it           *)
(* (akita/doc/connection_system.md): a message that was accepted arrives   *)
(* at each of its destinations, once, and nothing else arrives.  Messages  *)
(* may overtake each other.                                                *)
(***************************************************************************)
EXTENDS Naturals, Sequences, SequencesExt

CONSTANTS
    Tile,       \* the places of the network, one device each
    Msg         \* the messages, records with the destinations in dsts

VARIABLES
    sent,       \* the messages accepted from the devices
    got         \* got[t]: what the device at t was given, in order

Init == /\ sent = {}
        /\ got = [t \in Tile |-> <<>>]

Accept(m) == /\ m \notin sent
             /\ sent' = sent \cup {m}
             /\ UNCHANGED got

Arrive(m, t) == /\ m \in sent /\ t \in ToSet(m.dsts)
                /\ m \notin ToSet(got[t])
                /\ got' = [got EXCEPT ![t] = Append(@, m)]
                /\ UNCHANGED sent

Next == \E m \in Msg : Accept(m) \/ \E t \in Tile : Arrive(m, t)

Spec == Init /\ [][Next]_<<sent, got>>
===============================================================================
