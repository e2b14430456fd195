---------------------------- MODULE T18CuckooTable ----------------------------
(***************************************************************************)
(* mgpusim/timing/rdma/t18_cuckoo.go: the bounded cuckoo hash table.  The  *)
(* hashes of a key are constants, and the random walk of an insertion may  *)
(* take any way.  An insertion is one call: a step of its loop is an       *)
(* action, and no other call begins before it returns.                     *)
(***************************************************************************)
EXTENDS Integers, Sequences, FiniteSets, SequencesExt

CONSTANTS
    Key, Val,           \* lines; entries, which have an identity
    Buckets, Ways,      \* the geometry
    MaxKicks,           \* displacements before an insertion gives up
    Bucket1, Bucket2,   \* bucketPair
    Fingerprint         \* fingerprint

ASSUME TableAssumption ==
    /\ {Buckets, Ways} \subseteq Nat \ {0} /\ MaxKicks \in Nat
    /\ {Bucket1, Bucket2} \subseteq [Key -> 0 .. Buckets - 1]
    /\ Buckets > 1 => \A k \in Key : Bucket1[k] # Bucket2[k]

VARIABLES
    slots,      \* slots[i]: <<>>, or the fingerprint, key and entry stored in i
    where,      \* where[v]: the slot of v, -1 when v is not stored
    count,      \* number of valid slots
    phase,      \* the loop the running Insert is in: "none", "kick", "undo"
    arg,        \* the slot that Insert is to store
    cur,        \* the slot that was displaced last
    bucket,     \* the bucket it is to be moved to
    moves       \* the undo log

vars == <<slots, where, count, phase, arg, cur, bucket, moves>>

SlotIndex == 0 .. Buckets * Ways - 1
Way       == 0 .. Ways - 1
Slot(k, v) == [fp |-> Fingerprint[k], key |-> k, val |-> v]
SlotRecord == {Slot(k, v) : k \in Key, v \in Val}
Valid(i)   == slots[i] # <<>>

AltBucket(k, b) == IF b = Bucket1[k] THEN Bucket2[k] ELSE Bucket1[k]

FreeWays(b) == {i \in SlotIndex : i \div Ways = b /\ ~ Valid(i)}
FreeWay(b)  == CHOOSE i \in FreeWays(b) : \A j \in FreeWays(b) : i <= j

Init ==
    /\ slots = [i \in SlotIndex |-> <<>>]
    /\ where = [v \in Val |-> -1]
    /\ count = 0
    /\ phase = "none"
    /\ arg = <<>> /\ cur = <<>> /\ bucket = 0 /\ moves = <<>>

\* The first of the matching slots of the two buckets, the fingerprint compared
\* before the key; <<>> when there is none.
Lookup(k, match) ==
    LET hit(b) == {i \in SlotIndex : /\ i \div Ways = b /\ Valid(i)
                                     /\ slots[i].fp = Fingerprint[k]
                                     /\ slots[i].key = k /\ slots[i].val \in match}
        first(S) == slots[CHOOSE i \in S : \A j \in S : i <= j]
    IN  IF hit(Bucket1[k]) # {} THEN first(hit(Bucket1[k]))
        ELSE IF hit(Bucket2[k]) # {} THEN first(hit(Bucket2[k])) ELSE <<>>

\* Mutant: the index is not updated.
StoreUnindexed(i, s) == /\ slots' = [slots EXCEPT ![i] = s]
                        /\ where' = where

Store(i, s) == /\ slots' = [slots EXCEPT ![i] = s]
               /\ where' = [where EXCEPT ![s.val] = i]

Return == /\ phase' = "none"
          /\ arg' = <<>> /\ cur' = <<>> /\ bucket' = 0 /\ moves' = <<>>

\* Insert: a free way of the first bucket, or else of the second.
InsertFree(k, v) ==
    /\ phase = "none" /\ where[v] = -1
    /\ LET b == IF FreeWays(Bucket1[k]) # {} THEN Bucket1[k] ELSE Bucket2[k]
       IN  FreeWays(b) # {} /\ Store(FreeWay(b), Slot(k, v))
    /\ count' = count + 1
    /\ UNCHANGED <<phase, arg, cur, bucket, moves>>

\* Mutant: the walk begins although a way is free.
InsertKicks(k, v) ==
    /\ phase = "none" /\ where[v] = -1
    /\ phase' = "kick"
    /\ arg' = Slot(k, v) /\ cur' = Slot(k, v)
    /\ bucket' \in {Bucket1[k], Bucket2[k]}
    /\ UNCHANGED <<slots, where, count, moves>>

InsertFull(k, v) ==
    /\ phase = "none" /\ where[v] = -1
    /\ FreeWays(Bucket1[k]) \cup FreeWays(Bucket2[k]) = {}
    /\ phase' = "kick"
    /\ arg' = Slot(k, v) /\ cur' = Slot(k, v)
    /\ bucket' \in {Bucket1[k], Bucket2[k]}
    /\ UNCHANGED <<slots, where, count, moves>>

\* Some way's entry is displaced to its other bucket, where it may find room.
Kick == \E w \in Way :
    LET i == bucket * Ways + w
        victim == slots[i]
        alt == AltBucket(victim.key, bucket)
        kicked == [slots EXCEPT ![i] = cur]
        free == {j \in FreeWays(alt) : j # i}
    IN  /\ phase = "kick" /\ Len(moves) < MaxKicks
        /\ IF free # {}
           THEN LET j == CHOOSE j \in free : \A l \in free : j <= l
                IN  /\ slots' = [kicked EXCEPT ![j] = victim]
                    /\ where' = [where EXCEPT ![cur.val] = i, ![victim.val] = j]
                    /\ count' = count + 1
                    /\ Return
           ELSE /\ slots' = kicked
                /\ where' = [where EXCEPT ![cur.val] = i]
                /\ cur' = victim /\ bucket' = alt
                /\ moves' = Append(moves, i)
                /\ UNCHANGED <<count, phase, arg>>

GiveUp == /\ phase = "kick" /\ Len(moves) = MaxKicks
          /\ phase' = "undo"
          /\ UNCHANGED <<slots, where, count, arg, cur, bucket, moves>>

\* Mutant: the moves are undone in the order they were made.
UndoForwards == /\ phase = "undo" /\ moves # <<>>
                /\ Store(Head(moves), cur)
                /\ cur' = slots[Head(moves)]
                /\ moves' = Tail(moves)
                /\ UNCHANGED <<count, phase, arg, bucket>>

\* Every displaced entry goes back to the slot it was evicted from.
Undo == /\ phase = "undo" /\ moves # <<>>
        /\ Store(Last(moves), cur)
        /\ cur' = slots[Last(moves)]
        /\ moves' = Front(moves)
        /\ UNCHANGED <<count, phase, arg, bucket>>

InsertFails == /\ phase = "undo" /\ moves = <<>>
               /\ where' = [where EXCEPT ![arg.val] = -1]
               /\ Return
               /\ UNCHANGED <<slots, count>>

Delete(v) == /\ phase = "none" /\ where[v] # -1
             /\ slots' = [slots EXCEPT ![where[v]] = <<>>]
             /\ where' = [where EXCEPT ![v] = -1]
             /\ count' = count - 1
             /\ UNCHANGED <<phase, arg, cur, bucket, moves>>

Next ==
    \/ \E k \in Key, v \in Val : InsertFree(k, v) \/ InsertFull(k, v)
    \/ Kick \/ GiveUp \/ Undo \/ InsertFails
    \/ \E v \in Val : Delete(v)

Spec == Init /\ [][Next]_vars

-------------------------------------------------------------------------------
TypeOK ==
    /\ slots \in [SlotIndex -> SlotRecord \cup {<<>>}]
    /\ where \in [Val -> SlotIndex \cup {-1}]
    /\ count \in 0 .. Buckets * Ways
    /\ phase \in {"none", "kick", "undo"}
    /\ arg \in SlotRecord \cup {<<>>} /\ cur \in SlotRecord \cup {<<>>}
    /\ bucket \in 0 .. Buckets - 1
    /\ moves \in Seq(SlotIndex) /\ Len(moves) <= MaxKicks

\* Between two calls the simulator's index and the counter agree with the slots:
\* Delete frees the slot of the entry it was given, wherever kicks have moved it.
\* An undo ends with the new entry in hand: the panics of Insert and Delete cannot
\* happen.
IndexAgrees ==
    /\ phase = "none" =>
           /\ \A v \in Val : where[v] # -1 => Valid(where[v]) /\ slots[where[v]].val = v
           /\ \A i \in SlotIndex : Valid(i) => where[slots[i].val] = i
           /\ count = Cardinality({i \in SlotIndex : Valid(i)})
    /\ phase = "undo" /\ moves = <<>> => cur = arg

\* "A lookup only reports a hit when the full key matches", and a stored entry is
\* never lost: however it was displaced, Lookup finds it, by its key and by any
\* predicate that it satisfies, also when other entries have the same key or the
\* same fingerprint.
LookupFinds == phase = "none" => \A k \in Key : \A match \in SUBSET Val :
    LET stored == {slots[i] : i \in {j \in SlotIndex :
                       Valid(j) /\ slots[j].key = k /\ slots[j].val \in match}}
    IN  IF stored = {} THEN Lookup(k, match) = <<>> ELSE Lookup(k, match) \in stored

\* An insertion walks only when Ways slots at least are taken.
FailsOnlyWhenFull == phase # "none" => count >= Ways

\* A table is a set of entries; "a failed insert restores every moved entry".
Contents == {[key |-> s.key, val |-> s.val] :
                s \in ({slots[i] : i \in SlotIndex} \cup {cur}) \ {<<>>, arg}}

Table == INSTANCE EntryTable WITH
    Entry <- [key : Key, val : Val], Capacity <- Buckets * Ways, table <- Contents

IsEntryTable == Table!Spec
===============================================================================
