------------------------------ MODULE EntryTable ------------------------------
(***************************************************************************)
(* What T18's requester and owner rely on in their tables: a table is a    *)
(* set of entries; an insertion adds its entry or leaves the set alone.    *)
(***************************************************************************)
EXTENDS Naturals, FiniteSets

CONSTANTS Entry, Capacity

VARIABLE table

Init == table = {}

Insert(e) == /\ e \notin table
             /\ Cardinality(table) < Capacity
             /\ table' = table \cup {e}

Delete(e) == e \in table /\ table' = table \ {e}

Next == \E e \in Entry : Insert(e) \/ Delete(e)

Spec == Init /\ [][Next]_table
===============================================================================
