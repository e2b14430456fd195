-------------------------------- MODULE MCPing --------------------------------
(* Instances of PingSystem for TLC. *)
EXTENDS PingSystem, TLC

\* Agents of different frequencies, whose ticks meet in one round now and then, and
\* a connection as fast as the fastest: it finds ports full and goes to sleep.
PeriodMixed == 0 :> 1 @@ 1 :> 2 @@ 2 :> 3 @@ 3 :> 1
\* One place in every port, and in most of the connection's buffers.
Cap1 == [a \in 0 .. 2 |-> 1]
CapMixed == 0 :> 1 @@ 1 :> 1 @@ 2 :> 2
===============================================================================
