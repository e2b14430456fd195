------------------------------- MODULE MCCuckoo -------------------------------
(* Instances of T18CuckooTable for TLC. *)
EXTENDS T18CuckooTable, TLC

\* Three buckets; k1 and k2 have, by a collision, the same fingerprint, and the
\* entries of k1 and k3 compete for the same two buckets.
Key3     == {"k1", "k2", "k3"}
First3   == "k1" :> 0 @@ "k2" :> 1 @@ "k3" :> 1
Second3  == "k1" :> 1 @@ "k2" :> 2 @@ "k3" :> 0
Finger3  == "k1" :> 5 @@ "k2" :> 5 @@ "k3" :> 7
Perms    == Permutations(Val)
===============================================================================
