--------------------------------- MODULE MCNoc ---------------------------------
(* Meshes and workloads for TLC. *)
EXTENDS Noc, TLC

Row3 == {<<0, 0, 0>>, <<1, 0, 0>>, <<2, 0, 0>>}
W == <<0, 0, 0>>
M == <<1, 0, 0>>
E == <<2, 0, 0>>

\* The west tile multicasts two flits to both others, which the middle switch
\* splits, and sends to the middle; the middle sends to the east.
Row3Todo ==
    W :> << [id |-> 1, dsts |-> <<M, E>>, flits |-> 2], [id |-> 3, dsts |-> <<M>>, flits |-> 1] >> @@
    M :> << [id |-> 2, dsts |-> <<E>>, flits |-> 1] >> @@
    E :> << >>
===============================================================================
