------------------------- MODULE T18CuckooTable_proofs -------------------------
(* Theorems about T18CuckooTable, for any geometry, any hashes and any number *)
(* of entries: the index and the counter agree with the slots, a failed       *)
(* insertion leaves no trace, a lookup finds what is stored, and the table    *)
(* implements EntryTable, the set of entries its users rely on.               *)
EXTENDS T18CuckooTable, SequenceLemmas, FiniteSetTheorems,
        WellFoundedInduction, TLAPS

ValidSlots == {i \in SlotIndex : Valid(i)}

\* The buckets an entry may be stored in.
Home(s) == {Bucket1[s.key], Bucket2[s.key]}

\* The inductive invariant.  The walk of an insertion: it is in a full bucket of
\* the entry in hand, and the new entry is in a slot or in hand.
WalkOK ==
    /\ phase = "none" => arg = <<>> /\ cur = <<>> /\ moves = <<>>
    /\ phase # "none" => /\ arg \in SlotRecord /\ cur \in SlotRecord
                         /\ count >= Ways
                         /\ arg = cur \/ \E i \in SlotIndex : slots[i] = arg
    /\ phase = "kick" => bucket \in Home(cur) /\ FreeWays(bucket) = {}

\* The index agrees with the slots but for the entry in hand.
Indexed ==
    /\ \A i \in SlotIndex : Valid(i) =>
           where[slots[i].val] = i /\ (phase # "none" => slots[i].val # cur.val)
    /\ \A v \in Val : where[v] # -1 /\ (phase # "none" => v # cur.val) =>
           Valid(where[v]) /\ slots[where[v]].val = v

Counted == count = Cardinality(ValidSlots)

\* A stored entry is in one of its two buckets.
Housed == \A i \in SlotIndex : Valid(i) => i \div Ways \in Home(slots[i])

\* h is the walk so far: slot moves[j] held h[j + 1] until h[j] displaced it, and
\* holds h[j] now, unless the walk came back to that slot: the entry that it
\* displaced there then is h[j] again.
WalkOf(h, s, a, c, m) ==
    /\ h \in [1 .. Len(m) + 1 -> SlotRecord]
    /\ h[1] = a /\ h[Len(m) + 1] = c
    /\ \A j \in 1 .. Len(m) :
           /\ m[j] \div Ways \in Home(h[j + 1])
           /\ (\A k \in j + 1 .. Len(m) : m[k] # m[j]) => s[m[j]] = h[j]
           /\ \A k \in j + 1 .. Len(m) :
                  /\ m[k] = m[j]
                  /\ \A l \in j + 1 .. k - 1 : m[l] # m[j]
                  => h[k + 1] = h[j]

Walk(h) == WalkOf(h, slots, arg, cur, moves)

Undoable == phase # "none" => \E h : Walk(h)

IInv == TypeOK /\ WalkOK /\ Indexed /\ Counted /\ Housed /\ Undoable


-------------------------------------------------------------------------------
LEMMA SlotFacts ==
    /\ \A s \in SlotRecord : /\ s # <<>> /\ s.key \in Key /\ s.val \in Val
                             /\ s = Slot(s.key, s.val)
    /\ \A k \in Key, v \in Val : /\ Slot(k, v) \in SlotRecord /\ Slot(k, v) # <<>>
                                 /\ Slot(k, v).key = k /\ Slot(k, v).val = v
                                 /\ Slot(k, v).fp = Fingerprint[k]
<1>1. \A k \in Key, v \in Val : Slot(k, v) # <<>>
  <2> SUFFICES ASSUME NEW k \in Key, NEW v \in Val PROVE Slot(k, v) # <<>>  OBVIOUS
  <2>1. "key" \in DOMAIN Slot(k, v)  BY DEF Slot
  <2>2. "key" \notin DOMAIN <<>>  OBVIOUS
  <2> QED  BY <2>1, <2>2
<1> QED  BY <1>1 DEF SlotRecord, Slot

LEMMA Geometry ==
    /\ Buckets \in Nat \ {0} /\ Ways \in Nat \ {0} /\ MaxKicks \in Nat
    /\ Buckets * Ways \in Nat
    /\ \A k \in Key : Bucket1[k] \in 0 .. Buckets - 1 /\ Bucket2[k] \in 0 .. Buckets - 1
    /\ IsFiniteSet(SlotIndex) /\ Cardinality(SlotIndex) = Buckets * Ways
    /\ SlotIndex \subseteq Nat /\ -1 \notin SlotIndex
<1>1. Buckets \in Nat \ {0} /\ Ways \in Nat \ {0} /\ MaxKicks \in Nat  BY TableAssumption
<1>2. Buckets * Ways \in Nat  BY <1>1
<1>3. \A k \in Key : Bucket1[k] \in 0 .. Buckets - 1 /\ Bucket2[k] \in 0 .. Buckets - 1
  BY TableAssumption
<1>4. IsFiniteSet(SlotIndex) /\ Cardinality(SlotIndex) = Buckets * Ways
  <2>1. PICK p \in Nat : p = Buckets * Ways  BY <1>2
  <2>2. SlotIndex = 0 .. p - 1 /\ 0 \in Int /\ p - 1 \in Int  BY <2>1 DEF SlotIndex
  <2>3. /\ IsFiniteSet(0 .. p - 1)
        /\ Cardinality(0 .. p - 1) = IF 0 > p - 1 THEN 0 ELSE p - 1 - 0 + 1
    BY <2>2, FS_Interval
  <2> QED  BY <2>1, <2>2, <2>3
<1> QED  BY <1>1, <1>2, <1>3, <1>4 DEF SlotIndex

\* Way w of bucket b is a slot, and it is in bucket b.
LEMMA WayOfBucket ==
    ASSUME NEW b \in 0 .. Buckets - 1, NEW w \in Way
    PROVE  b * Ways + w \in SlotIndex /\ (b * Ways + w) \div Ways = b
<1>1. b \in Nat /\ w \in Nat /\ w < Ways /\ b + 1 <= Buckets  BY Geometry DEF Way
<1>2. b * Ways + w \in Nat  BY <1>1, Geometry
<1>3. (b + 1) * Ways <= Buckets * Ways  BY <1>1, Geometry
<1>4. b * Ways + w <= Buckets * Ways - 1  BY <1>1, <1>3, Geometry
<1>5. (b * Ways + w) \div Ways = b
  <2> DEFINE a == b * Ways + w
             q == a \div Ways
  <2>1. q \in Nat /\ Ways * q <= a /\ a < Ways * q + Ways  BY <1>2, Geometry
  <2>2. Ways * q < Ways * (b + 1) /\ Ways * b < Ways * (q + 1)
    BY <1>1, <2>1, Geometry
  <2> HIDE DEF a, q
  <2>3. q < b + 1 /\ b < q + 1  BY <1>1, <2>1, <2>2, Geometry
  <2> QED  BY <2>1, <2>3, <1>1 DEF q, a
<1> QED  BY <1>2, <1>4, <1>5, Geometry DEF SlotIndex

\* A set of slots that is not empty has a least element.
LEMMA Least ==
    ASSUME NEW S \in SUBSET SlotIndex, S # {}
    PROVE  \E i \in S : \A j \in S : i <= j
<1>1. S \subseteq Nat  BY Geometry
<1>2. PICK i \in S : \A j \in S : ~ (<<j, i>> \in OpToRel(<, Nat))
  BY <1>1, NatLessThanWellFounded, WFMin
<1>3. \A j \in S : <<j, i>> \in OpToRel(<, Nat) <=> j < i  BY <1>1 DEF OpToRel
<1>4. \A j \in S : ~ (j < i)  BY <1>2, <1>3
<1> QED  BY <1>1, <1>4

LEMMA FreeWayFacts ==
    ASSUME NEW b, FreeWays(b) # {}
    PROVE  FreeWay(b) \in SlotIndex /\ FreeWay(b) \div Ways = b /\ ~ Valid(FreeWay(b))
<1>1. \E i \in FreeWays(b) : \A j \in FreeWays(b) : i <= j  BY Least DEF FreeWays
<1>2. FreeWay(b) \in FreeWays(b)  BY <1>1 DEF FreeWay
<1> QED  BY <1>2 DEF FreeWays

LEMMA SetOfSlots ==
    ASSUME NEW S \in SUBSET SlotIndex
    PROVE  IsFiniteSet(S) /\ Cardinality(S) \in 0 .. Buckets * Ways
<1>1. IsFiniteSet(S) /\ Cardinality(S) <= Cardinality(SlotIndex)
  BY Geometry, FS_Subset
<1> QED  BY <1>1, Geometry, FS_CardinalityType

LEMMA CountUp ==
    ASSUME NEW S \in SUBSET SlotIndex, NEW i \in SlotIndex \ S
    PROVE  Cardinality(S \cup {i}) = Cardinality(S) + 1
<1>1. IsFiniteSet(S)  BY SetOfSlots
<1> QED  BY <1>1, FS_AddElement

LEMMA CountDown ==
    ASSUME NEW S \in SUBSET SlotIndex, NEW i \in S
    PROVE  Cardinality(S \ {i}) = Cardinality(S) - 1
<1>1. IsFiniteSet(S)  BY SetOfSlots
<1> QED  BY <1>1, FS_RemoveElement

\* The Ways slots of a full bucket are taken.
LEMMA FullBucket ==
    ASSUME NEW b \in 0 .. Buckets - 1, FreeWays(b) = {}, Counted
    PROVE  /\ count >= Ways
           /\ \A w \in Way : b * Ways + w \in ValidSlots
<1> DEFINE lo == b * Ways
           hi == b * Ways + Ways - 1
<1>1. \A w \in Way : b * Ways + w \in ValidSlots
  BY WayOfBucket DEF FreeWays, ValidSlots
<1>2. lo \in Int /\ hi \in Int /\ hi - lo + 1 = Ways /\ lo <= hi  BY Geometry
<1>3. lo .. hi \subseteq ValidSlots
  <2> SUFFICES ASSUME NEW i \in lo .. hi PROVE i \in ValidSlots  OBVIOUS
  <2>1. i - lo \in Way /\ i = lo + (i - lo)  BY <1>2, Geometry DEF Way
  <2> QED  BY <1>1, <2>1
<1>4. Cardinality(lo .. hi) = Ways  BY <1>2, FS_Interval, Geometry
<1>5. IsFiniteSet(ValidSlots) /\ Cardinality(ValidSlots) \in Nat
  BY SetOfSlots, Geometry DEF ValidSlots
<1>6. Cardinality(lo .. hi) <= Cardinality(ValidSlots)  BY <1>3, <1>5, FS_Subset
<1> QED  BY <1>1, <1>4, <1>5, <1>6 DEF Counted

-------------------------------------------------------------------------------
LEMMA InitInv == Init => IInv
<1> SUFFICES ASSUME Init PROVE IInv  OBVIOUS
<1>1. TypeOK  BY Geometry DEF Init, TypeOK
<1>2. WalkOK  BY DEF Init, WalkOK
<1>3. Indexed /\ Housed /\ Undoable  BY DEF Init, Indexed, Housed, Undoable, Valid
<1>4. Counted
  <2>1. ValidSlots = {}  BY DEF Init, ValidSlots, Valid
  <2> QED  BY <2>1, FS_EmptySet DEF Init, Counted
<1> QED  BY <1>1, <1>2, <1>3, <1>4 DEF IInv

LEMMA InsertFreeInv ==
    ASSUME IInv, NEW k \in Key, NEW v \in Val, InsertFree(k, v)
    PROVE  IInv'
<1> DEFINE b == IF FreeWays(Bucket1[k]) # {} THEN Bucket1[k] ELSE Bucket2[k]
           i == FreeWay(b)
           s == Slot(k, v)
<1>1. /\ i \in SlotIndex /\ ~ Valid(i)
      /\ i \div Ways \in {Bucket1[k], Bucket2[k]}
  BY FreeWayFacts DEF InsertFree
<1>2. s \in SlotRecord /\ s # <<>> /\ s.key = k /\ s.val = v  BY SlotFacts
<1>3. /\ slots' = [slots EXCEPT ![i] = s] /\ where' = [where EXCEPT ![v] = i]
      /\ phase = "none" /\ where[v] = -1 /\ count' = count + 1
      /\ UNCHANGED <<phase, arg, cur, bucket, moves>>
  BY <1>2 DEF InsertFree, Store
<1> HIDE DEF b, i, s
<1>4. Counted'
  <2>1. ValidSlots' = ValidSlots \cup {i} /\ i \notin ValidSlots
    BY <1>1, <1>2, <1>3 DEF ValidSlots, Valid, IInv, TypeOK
  <2>2. ValidSlots \in SUBSET SlotIndex  BY DEF ValidSlots
  <2> QED  BY <1>1, <1>3, <2>1, <2>2, CountUp DEF Counted, IInv
<1>5. TypeOK'
  <2>1. count' \in 0 .. Buckets * Ways
    <3>1. ValidSlots' \in SUBSET SlotIndex  BY DEF ValidSlots
    <3> QED  BY <3>1, <1>4, SetOfSlots DEF Counted
  <2> QED  BY <1>1, <1>2, <1>3, <2>1 DEF IInv, TypeOK
<1>6. WalkOK' /\ Undoable'  BY <1>3 DEF IInv, WalkOK, Undoable
<1>7. Indexed' /\ Housed'
  <2>1. \A j \in SlotIndex : Valid(j) => slots[j] \in SlotRecord /\ slots[j].val # v
    BY <1>3, Geometry DEF IInv, TypeOK, Indexed, Valid
  <2>2. \A j \in SlotIndex : slots'[j] = IF j = i THEN s ELSE slots[j]
    BY <1>1, <1>3 DEF IInv, TypeOK
  <2>3. \A u \in Val : where'[u] = IF u = v THEN i ELSE where[u]
    BY <1>3 DEF IInv, TypeOK
  <2>4. \A u \in Val : where[u] # -1 => where[u] # i /\ where[u] \in SlotIndex
    BY <1>1, <1>3 DEF IInv, TypeOK, Indexed
  <2>5. \A j \in SlotIndex : Valid(j)' => where'[slots'[j].val] = j
    BY <1>1, <1>2, <2>1, <2>2, <2>3, SlotFacts, <1>3 DEF IInv, Indexed, Valid
  <2>6. \A u \in Val : where'[u] # -1 =>
            Valid(where[u])' /\ slots'[where'[u]].val = u
    BY <1>1, <1>2, <2>2, <2>3, <2>4, <1>3 DEF IInv, Indexed, Valid
  <2>7. Housed'
    BY <1>1, <1>2, <2>2 DEF IInv, Housed, Home, Valid
  <2> QED  BY <2>5, <2>6, <2>7, <1>3 DEF Indexed
<1> QED  BY <1>4, <1>5, <1>6, <1>7 DEF IInv

LEMMA InsertFullInv ==
    ASSUME IInv, NEW k \in Key, NEW v \in Val, InsertFull(k, v)
    PROVE  IInv'
<1> DEFINE s == Slot(k, v)
<1>1. s \in SlotRecord /\ s # <<>> /\ s.key = k /\ s.val = v  BY SlotFacts
<1>2. /\ phase = "none" /\ where[v] = -1 /\ phase' = "kick" /\ arg' = s /\ cur' = s
      /\ bucket' \in Home(s) /\ FreeWays(bucket') = {} /\ moves = <<>>
      /\ UNCHANGED <<slots, where, count, moves>>
  BY <1>1 DEF InsertFull, IInv, WalkOK, Home
<1> HIDE DEF s
<1>3. bucket' \in 0 .. Buckets - 1  BY <1>1, <1>2, Geometry DEF Home
<1>4. TypeOK'  BY <1>1, <1>2, <1>3 DEF IInv, TypeOK
<1>5. Counted' /\ Housed' /\ FreeWays(bucket)' = {}
  BY <1>2 DEF IInv, Counted, ValidSlots, Valid, Housed, Home, FreeWays
<1>6. WalkOK'
  BY <1>1, <1>2, <1>3, <1>5, FullBucket DEF WalkOK, IInv, Home
<1>7. Indexed'
  <2>1. \A i \in SlotIndex : Valid(i) => slots[i].val # v
    BY <1>2, Geometry DEF IInv, Indexed
  <2> QED  BY <1>1, <1>2, <2>1 DEF IInv, Indexed, Valid
<1>8. Undoable'
  <2> DEFINE h == [n \in 1 .. 1 |-> s]
  <2>1. Len(moves') = 0  BY <1>2
  <2>2. h \in [1 .. 1 -> SlotRecord] /\ h[1] = s  BY <1>1
  <2> HIDE DEF h
  <2>3. Walk(h)'  BY <1>2, <2>1, <2>2 DEF Walk, WalkOf
  <2> QED  BY <2>3 DEF Undoable
<1> QED  BY <1>4, <1>5, <1>6, <1>7, <1>8 DEF IInv

\* The entry in hand is exchanged with the one in slot i.
LEMMA Exchange ==
    ASSUME IInv, phase # "none", phase' # "none", NEW i \in SlotIndex, Valid(i),
           i \div Ways \in Home(cur),
           slots' = [slots EXCEPT ![i] = cur], where' = [where EXCEPT ![cur.val] = i],
           cur' = slots[i], UNCHANGED <<count, arg>>
    PROVE  /\ slots' \in [SlotIndex -> SlotRecord \cup {<<>>}]
           /\ where' \in [Val -> SlotIndex \cup {-1}]
           /\ cur' \in SlotRecord /\ ValidSlots' = ValidSlots
           /\ Indexed' /\ Counted' /\ Housed'
           /\ arg' = cur' \/ \E j \in SlotIndex : slots'[j] = arg'
<1>1. cur \in SlotRecord /\ cur # <<>> /\ cur.val \in Val
  BY SlotFacts DEF IInv, WalkOK
<1>2. slots[i] \in SlotRecord  BY DEF IInv, TypeOK, Valid
<1>3. \A j \in SlotIndex : slots'[j] = IF j = i THEN cur ELSE slots[j]
  BY DEF IInv, TypeOK
<1>4. \A u \in Val : where'[u] = IF u = cur.val THEN i ELSE where[u]
  BY DEF IInv, TypeOK
<1>5. \A j \in SlotIndex : Valid(j)' <=> Valid(j)  BY <1>1, <1>3 DEF Valid
<1>6. ValidSlots' = ValidSlots  BY <1>5 DEF ValidSlots
<1>7. \A j \in SlotIndex : Valid(j)' =>
          where'[slots'[j].val] = j /\ slots'[j].val # cur'.val
  <2> SUFFICES ASSUME NEW j \in SlotIndex, Valid(j)
               PROVE  where'[slots'[j].val] = j /\ slots'[j].val # cur'.val
    BY <1>5
  <2>1. /\ where[slots[i].val] = i /\ slots[i].val # cur.val
        /\ where[slots[j].val] = j /\ slots[j].val # cur.val
    BY DEF IInv, Indexed
  <2>2. slots[j] \in SlotRecord /\ slots[j].val \in Val
    BY SlotFacts DEF IInv, TypeOK, Valid
  <2> QED  BY <1>1, <1>3, <1>4, <2>1, <2>2
<1>8. \A u \in Val : where'[u] # -1 /\ u # cur'.val =>
          Valid(where[u])' /\ slots'[where'[u]].val = u
  <2> SUFFICES ASSUME NEW u \in Val, where'[u] # -1, u # slots[i].val
               PROVE  Valid(where[u])' /\ slots'[where'[u]].val = u
    OBVIOUS
  <2>1. CASE u = cur.val
    BY <1>1, <1>3, <1>4, <2>1 DEF Valid
  <2>2. CASE u # cur.val
    <3>1. where'[u] = where[u] /\ where[u] \in SlotIndex
      BY <1>4, <2>2 DEF IInv, TypeOK
    <3>2. Valid(where[u]) /\ slots[where[u]].val = u
      BY <2>2, <3>1 DEF IInv, Indexed
    <3>3. where[u] # i  BY <3>2
    <3> QED  BY <1>3, <3>1, <3>2, <3>3 DEF Valid
  <2> QED  BY <2>1, <2>2
<1>9. Indexed'  BY <1>7, <1>8 DEF Indexed
<1>10. Housed'  BY <1>1, <1>3, <1>5 DEF IInv, Housed, Home
<1>11. arg' = cur' \/ \E j \in SlotIndex : slots'[j] = arg'
  BY <1>3 DEF IInv, WalkOK
<1>12. Counted'  BY <1>6 DEF IInv, Counted
<1> QED  BY <1>1, <1>2, <1>6, <1>9, <1>10, <1>11, <1>12 DEF IInv, TypeOK

LEMMA GiveUpInv == IInv /\ GiveUp => IInv'
<1> SUFFICES ASSUME IInv, GiveUp PROVE IInv'  OBVIOUS
<1>1. TypeOK' /\ WalkOK' /\ Indexed' /\ Housed'
  BY DEF GiveUp, IInv, TypeOK, WalkOK, Indexed, Housed, Valid, Home
<1>2. Counted'  BY DEF GiveUp, IInv, Counted, ValidSlots, Valid
<1>3. Undoable'
  <2>1. PICK h : Walk(h)  BY DEF GiveUp, IInv, Undoable
  <2>2. UNCHANGED <<slots, arg, cur, moves>>  BY DEF GiveUp
  <2>3. Walk(h)'  BY <2>1, <2>2 DEF Walk
  <2> QED  BY <2>3 DEF Undoable
<1> QED  BY <1>1, <1>2, <1>3 DEF IInv

\* The slot of a kick, and what it holds.
LEMMA KickedSlot ==
    ASSUME IInv, phase = "kick", NEW w \in Way
    PROVE  LET i == bucket * Ways + w IN
           /\ i \in SlotIndex /\ i \div Ways = bucket /\ Valid(i)
           /\ slots[i] \in SlotRecord /\ bucket \in Home(slots[i])
           /\ AltBucket(slots[i].key, bucket) \in Home(slots[i])
           /\ AltBucket(slots[i].key, bucket) \in 0 .. Buckets - 1
<1> DEFINE i == bucket * Ways + w
<1>1. bucket \in 0 .. Buckets - 1 /\ FreeWays(bucket) = {}
  BY DEF IInv, TypeOK, WalkOK
<1>2. i \in SlotIndex /\ i \div Ways = bucket /\ Valid(i)
  BY <1>1, WayOfBucket DEF FreeWays
<1>3. slots[i] \in SlotRecord  BY <1>2 DEF IInv, TypeOK, Valid
<1>4. bucket \in Home(slots[i])  BY <1>2 DEF IInv, Housed
<1>5. /\ AltBucket(slots[i].key, bucket) \in Home(slots[i])
      /\ AltBucket(slots[i].key, bucket) \in 0 .. Buckets - 1
  BY <1>3, SlotFacts, Geometry DEF AltBucket, Home
<1> QED  BY <1>2, <1>3, <1>4, <1>5

\* A kick that finds no room for the displaced entry.
KickOn(w) ==
    LET i == bucket * Ways + w
        victim == slots[i]
        alt == AltBucket(victim.key, bucket)
    IN  /\ phase = "kick" /\ Len(moves) < MaxKicks
        /\ \A j \in FreeWays(alt) : j = i
        /\ slots' = [slots EXCEPT ![i] = cur]
        /\ where' = [where EXCEPT ![cur.val] = i]
        /\ cur' = victim /\ bucket' = alt
        /\ moves' = Append(moves, i)
        /\ UNCHANGED <<count, phase, arg>>

\* A kick that does: the insertion succeeds.
KickEnds(w, j) ==
    LET i == bucket * Ways + w
        victim == slots[i]
    IN  /\ phase = "kick"
        /\ j \in FreeWays(AltBucket(victim.key, bucket)) /\ j # i
        /\ slots' = [slots EXCEPT ![i] = cur, ![j] = victim]
        /\ where' = [where EXCEPT ![cur.val] = i, ![victim.val] = j]
        /\ count' = count + 1
        /\ Return

LEMMA KickCases ==
    ASSUME Kick
    PROVE  \E w \in Way : KickOn(w) \/ \E j \in SlotIndex : KickEnds(w, j)
<1> DEFINE i(w)    == bucket * Ways + w
           alt(w)  == AltBucket(slots[i(w)].key, bucket)
           free(w) == {j \in FreeWays(alt(w)) : j # i(w)}
<1>1. PICK w \in Way :
          /\ phase = "kick" /\ Len(moves) < MaxKicks
          /\ IF free(w) # {}
             THEN LET j == CHOOSE j \in free(w) : \A l \in free(w) : j <= l
                  IN  /\ slots' = [[slots EXCEPT ![i(w)] = cur] EXCEPT ![j] = slots[i(w)]]
                      /\ where' = [where EXCEPT ![cur.val] = i(w), ![slots[i(w)].val] = j]
                      /\ count' = count + 1
                      /\ Return
             ELSE /\ slots' = [slots EXCEPT ![i(w)] = cur]
                  /\ where' = [where EXCEPT ![cur.val] = i(w)]
                  /\ cur' = slots[i(w)] /\ bucket' = alt(w)
                  /\ moves' = Append(moves, i(w))
                  /\ UNCHANGED <<count, phase, arg>>
  BY DEF Kick
<1>2. CASE free(w) # {}
  <2> DEFINE j == CHOOSE j \in free(w) : \A l \in free(w) : j <= l
  <2>1. free(w) \in SUBSET SlotIndex  BY DEF FreeWays
  <2>2. \E l \in free(w) : \A m \in free(w) : l <= m
    <3> HIDE DEF free
    <3> QED  BY <1>2, <2>1, Least
  <2>3. j \in free(w)  BY <2>2
  <2>4. KickEnds(w, j)  BY <1>1, <1>2, <2>3 DEF KickEnds
  <2> QED  BY <2>1, <2>3, <2>4
<1>3. CASE free(w) = {}
  <2>1. KickOn(w)  BY <1>1, <1>3 DEF KickOn
  <2> QED  BY <2>1
<1> QED  BY <1>2, <1>3

LEMMA KickOnInv ==
    ASSUME IInv, NEW w \in Way, KickOn(w)
    PROVE  IInv'
<1> DEFINE i == bucket * Ways + w
           alt == AltBucket(slots[i].key, bucket)
           n == Len(moves)
<1>1. /\ i \in SlotIndex /\ i \div Ways = bucket /\ Valid(i)
      /\ slots[i] \in SlotRecord /\ bucket \in Home(slots[i])
      /\ alt \in Home(slots[i]) /\ alt \in 0 .. Buckets - 1
  BY KickedSlot DEF KickOn
<1>2. /\ phase = "kick" /\ phase' = "kick" /\ n < MaxKicks /\ \A j \in FreeWays(alt) : j = i
      /\ slots' = [slots EXCEPT ![i] = cur] /\ where' = [where EXCEPT ![cur.val] = i]
      /\ cur' = slots[i] /\ bucket' = alt /\ moves' = Append(moves, i)
      /\ UNCHANGED <<count, phase, arg>>
  BY DEF KickOn
<1>3. bucket \in Home(cur) /\ cur \in SlotRecord /\ moves \in Seq(SlotIndex)
  BY <1>2 DEF IInv, WalkOK, TypeOK
<1> HIDE DEF i, alt
<1>4. /\ slots' \in [SlotIndex -> SlotRecord \cup {<<>>}]
      /\ where' \in [Val -> SlotIndex \cup {-1}]
      /\ cur' \in SlotRecord /\ ValidSlots' = ValidSlots
      /\ Indexed' /\ Counted' /\ Housed'
      /\ arg' = cur' \/ \E j \in SlotIndex : slots'[j] = arg'
  BY <1>1, <1>2, <1>3, Exchange
<1>5. moves' \in Seq(SlotIndex) /\ Len(moves') = n + 1 /\ n \in Nat
  BY <1>1, <1>2, <1>3
<1>6. TypeOK'
  BY <1>1, <1>2, <1>4, <1>5, Geometry DEF IInv, TypeOK
<1>7. WalkOK'
  <2>1. FreeWays(bucket)' = {}
    BY <1>1, <1>2, <1>4 DEF FreeWays, ValidSlots
  <2> QED  BY <1>1, <1>2, <1>4, <2>1 DEF IInv, WalkOK, Home
<1>8. Undoable'
  <2>1. PICK h : Walk(h)  BY <1>2 DEF IInv, Undoable
  <2>2. PICK g : /\ g \in [1 .. n + 2 -> SlotRecord] /\ g[n + 2] = slots[i]
                 /\ \A j \in 1 .. n + 1 : g[j] = h[j]
    <3> DEFINE f == [j \in 1 .. n + 2 |-> IF j = n + 2 THEN slots[i] ELSE h[j]]
    <3>1. /\ f \in [1 .. n + 2 -> SlotRecord] /\ f[n + 2] = slots[i]
          /\ \A j \in 1 .. n + 1 : f[j] = h[j]
      BY <1>1, <1>5, <2>1 DEF Walk, WalkOf
    <3> QED  BY <3>1
  <2>3. \A j \in 1 .. n : moves'[j] = moves[j] /\ moves[j] \in SlotIndex
    BY <1>2, <1>3, <1>5
  <2>4. moves'[n + 1] = i  BY <1>2, <1>3, <1>5
  <2>5. \A j \in SlotIndex : slots'[j] = IF j = i THEN cur ELSE slots[j]
    BY <1>2 DEF IInv, TypeOK
  <2>6. h[n + 1] = cur /\ h[1] = arg  BY <2>1 DEF Walk, WalkOf
  <2>7. ASSUME NEW j \in 1 .. n + 1
        PROVE  moves'[j] \div Ways \in Home(g[j + 1])
    <3>1. CASE j = n + 1
      <4>1. g[j + 1] = slots[i]  BY <1>5, <2>2, <3>1
      <4> QED  BY <1>1, <2>4, <3>1, <4>1
    <3>2. CASE j # n + 1
      BY <1>5, <2>1, <2>2, <2>3, <3>2 DEF Walk, WalkOf
    <3> QED  BY <3>1, <3>2
  <2>8. ASSUME NEW j \in 1 .. n + 1, \A k \in j + 1 .. n + 1 : moves'[k] # moves'[j]
        PROVE  slots'[moves'[j]] = g[j]
    <3>1. CASE j = n + 1
      BY <1>1, <1>5, <2>2, <2>4, <2>5, <2>6, <3>1
    <3>2. CASE j # n + 1
      <4>1. j \in 1 .. n /\ moves'[j] = moves[j] /\ moves[j] # i
        BY <1>5, <2>3, <2>4, <2>8, <3>2
      <4>2. \A k \in j + 1 .. n : moves[k] # moves[j]
        BY <1>5, <2>3, <2>8, <4>1
      <4>3. slots[moves[j]] = h[j]  BY <2>1, <4>1, <4>2 DEF Walk, WalkOf
      <4>4. slots'[moves[j]] = slots[moves[j]]  BY <2>3, <2>5, <4>1
      <4> QED  BY <1>5, <2>2, <4>1, <4>3, <4>4
    <3> QED  BY <3>1, <3>2
  <2>9. ASSUME NEW j \in 1 .. n + 1, NEW k \in j + 1 .. n + 1, moves'[k] = moves'[j],
               \A l \in j + 1 .. k - 1 : moves'[l] # moves'[j]
        PROVE  g[k + 1] = g[j]
    <3>1. j \in 1 .. n /\ moves'[j] = moves[j]  BY <1>5, <2>3
    <3>2. CASE k = n + 1
      <4>1. \A l \in j + 1 .. n : moves[l] # moves[j]
        BY <1>5, <2>3, <2>9, <3>1, <3>2
      <4>2. slots[moves[j]] = h[j]  BY <2>1, <3>1, <4>1 DEF Walk, WalkOf
      <4>3. moves[j] = i  BY <2>4, <2>9, <3>1, <3>2
      <4>4. g[k + 1] = slots[i] /\ g[j] = h[j]  BY <1>5, <2>2, <3>1, <3>2
      <4> QED  BY <4>2, <4>3, <4>4
    <3>3. CASE k # n + 1
      <4>1. k \in j + 1 .. n /\ moves[k] = moves[j]
        BY <1>5, <2>3, <2>9, <3>1, <3>3
      <4>2. \A l \in j + 1 .. k - 1 : moves[l] # moves[j]
        BY <1>5, <2>3, <2>9, <3>1, <4>1
      <4>3. h[k + 1] = h[j]  BY <2>1, <3>1, <4>1, <4>2 DEF Walk, WalkOf
      <4> QED  BY <1>5, <2>2, <3>1, <4>1, <4>3
    <3> QED  BY <3>2, <3>3
  <2>10. g[1] = arg  BY <1>5, <2>2, <2>6
  <2>11. Len(moves') + 1 = n + 2 /\ Len(moves') = n + 1  BY <1>5
  <2>12. g \in [1 .. Len(moves') + 1 -> SlotRecord] /\ g[1] = arg' /\ g[Len(moves') + 1] = cur'
    BY <1>2, <2>2, <2>10, <2>11
  <2>13. Walk(g)'
    <3> DEFINE m == Len(moves')
    <3>1. m = n + 1  BY <2>11
    <3>2. \A j \in 1 .. m : moves'[j] \div Ways \in Home(g[j + 1])
      BY <2>7, <3>1
    <3>3. \A j \in 1 .. m :
              (\A k \in j + 1 .. m : moves'[k] # moves'[j]) => slots'[moves'[j]] = g[j]
      BY <2>8, <3>1
    <3>4. \A j \in 1 .. m : \A k \in j + 1 .. m :
              /\ moves'[k] = moves'[j]
              /\ \A l \in j + 1 .. k - 1 : moves'[l] # moves'[j]
              => g[k + 1] = g[j]
      BY <2>9, <3>1
    <3> QED  BY <2>12, <3>2, <3>3, <3>4 DEF Walk, WalkOf, Home
  <2> QED  BY <2>13 DEF Undoable
<1> QED  BY <1>4, <1>6, <1>7, <1>8 DEF IInv

LEMMA KickEndsInv ==
    ASSUME IInv, NEW w \in Way, NEW j \in SlotIndex, KickEnds(w, j)
    PROVE  /\ IInv'
           /\ \A l \in SlotIndex :
                  slots'[l] = IF l = bucket * Ways + w THEN cur
                              ELSE IF l = j THEN slots[bucket * Ways + w] ELSE slots[l]
           /\ ~ Valid(j) /\ bucket * Ways + w \in SlotIndex /\ bucket * Ways + w # j
<1> DEFINE i == bucket * Ways + w
           victim == slots[i]
<1>1. /\ i \in SlotIndex /\ i \div Ways = bucket /\ Valid(i)
      /\ victim \in SlotRecord /\ AltBucket(victim.key, bucket) \in Home(victim)
  BY KickedSlot DEF KickEnds
<1>2. /\ phase = "kick" /\ phase' = "none" /\ j # i /\ ~ Valid(j)
      /\ j \div Ways \in Home(victim)
      /\ slots' = [slots EXCEPT ![i] = cur, ![j] = victim]
      /\ where' = [where EXCEPT ![cur.val] = i, ![victim.val] = j]
      /\ count' = count + 1
      /\ arg' = <<>> /\ cur' = <<>> /\ bucket' = 0 /\ moves' = <<>>
  BY <1>1 DEF KickEnds, Return, FreeWays
<1>3. bucket \in Home(cur) /\ cur \in SlotRecord /\ cur # <<>> /\ cur.val \in Val
  BY <1>2, SlotFacts DEF IInv, WalkOK
<1>4. victim # <<>> /\ victim.val \in Val /\ victim.val # cur.val
  BY <1>1, <1>2, SlotFacts DEF IInv, Indexed
<1> HIDE DEF i, victim
<1>5. \A l \in SlotIndex :
          slots'[l] = IF l = i THEN cur ELSE IF l = j THEN victim ELSE slots[l]
  BY <1>1, <1>2 DEF IInv, TypeOK
<1>6. \A u \in Val :
          where'[u] = IF u = cur.val THEN i ELSE IF u = victim.val THEN j ELSE where[u]
  BY <1>2, <1>3, <1>4 DEF IInv, TypeOK
<1>7. \A l \in SlotIndex : Valid(l)' <=> l = j \/ Valid(l)
  BY <1>1, <1>3, <1>4, <1>5 DEF Valid
<1>8. Counted'
  <2>1. ValidSlots' = ValidSlots \cup {j} /\ j \notin ValidSlots
    BY <1>2, <1>7 DEF ValidSlots
  <2>2. ValidSlots \in SUBSET SlotIndex  BY DEF ValidSlots
  <2> QED  BY <1>2, <2>1, <2>2, CountUp DEF Counted, IInv
<1>9. TypeOK'
  <2>1. count' \in 0 .. Buckets * Ways
    <3>1. ValidSlots' \in SUBSET SlotIndex  BY DEF ValidSlots
    <3> QED  BY <3>1, <1>8, SetOfSlots DEF Counted
  <2>2. slots' \in [SlotIndex -> SlotRecord \cup {<<>>}]
    BY <1>1, <1>2, <1>3 DEF IInv, TypeOK
  <2>3. where' \in [Val -> SlotIndex \cup {-1}]
    BY <1>1, <1>2 DEF IInv, TypeOK
  <2>4. moves' \in Seq(SlotIndex) /\ Len(moves') <= MaxKicks  BY <1>2, Geometry
  <2>5. phase' = "none" /\ bucket' \in 0 .. Buckets - 1  BY <1>2, Geometry
  <2> QED  BY <1>2, <2>1, <2>2, <2>3, <2>4, <2>5 DEF TypeOK
<1>10. WalkOK' /\ Undoable'  BY <1>2 DEF WalkOK, Undoable
<1>11. Indexed'
  <2>1. \A l \in SlotIndex : Valid(l)' => where'[slots'[l].val] = l
    <3> SUFFICES ASSUME NEW l \in SlotIndex, Valid(l) \/ l = j
                 PROVE  where'[slots'[l].val] = l
      BY <1>7
    <3>1. CASE l = i \/ l = j  BY <1>2, <1>3, <1>4, <1>5, <1>6, <3>1
    <3>2. CASE l # i /\ l # j
      <4>1. slots[l].val \in Val /\ slots[l].val # cur.val /\ where[slots[l].val] = l
        BY <1>2, <3>2, SlotFacts DEF IInv, Indexed, TypeOK, Valid
      <4>2. slots[l].val # victim.val
        BY <1>1, <3>2, <4>1 DEF IInv, Indexed, victim
      <4> QED  BY <1>5, <1>6, <3>2, <4>1, <4>2
    <3> QED  BY <3>1, <3>2
  <2>2. \A u \in Val : where'[u] # -1 => Valid(where[u])' /\ slots'[where'[u]].val = u
    <3> SUFFICES ASSUME NEW u \in Val, where'[u] # -1
                 PROVE  Valid(where[u])' /\ slots'[where'[u]].val = u
      OBVIOUS
    <3>1. CASE u = cur.val
      <4>1. where'[u] = i /\ slots'[i] = cur  BY <1>1, <1>5, <1>6, <3>1
      <4> QED  BY <1>3, <3>1, <4>1, Zenon DEF Valid
    <3>2. CASE u = victim.val
      <4>1. where'[u] = j /\ slots'[j] = victim  BY <1>2, <1>4, <1>5, <1>6, <3>2
      <4> QED  BY <1>4, <3>2, <4>1, Zenon DEF Valid
    <3>3. CASE u # cur.val /\ u # victim.val
      <4>1. where'[u] = where[u] /\ where[u] \in SlotIndex
        BY <1>6, <3>3 DEF IInv, TypeOK
      <4>2. Valid(where[u]) /\ slots[where[u]].val = u
        BY <3>3, <4>1 DEF IInv, Indexed
      <4>3. where[u] # i /\ where[u] # j  BY <1>2, <3>3, <4>2 DEF victim
      <4> QED  BY <1>5, <4>1, <4>2, <4>3 DEF Valid
    <3> QED  BY <3>1, <3>2, <3>3
  <2> QED  BY <1>2, <2>1, <2>2 DEF Indexed
<1>12. Housed'
  <2>1. ASSUME NEW l \in SlotIndex, Valid(l)'
        PROVE  l \div Ways \in Home(slots'[l])
    <3>1. CASE l = i  BY <1>1, <1>3, <1>5, <3>1
    <3>2. CASE l = j  BY <1>1, <1>2, <1>5, <3>2
    <3>3. CASE l # i /\ l # j
      <4>1. Valid(l) /\ slots'[l] = slots[l]  BY <1>5, <1>7, <2>1, <3>3
      <4> QED  BY <4>1 DEF IInv, Housed
    <3> QED  BY <3>1, <3>2, <3>3
  <2> QED  BY <2>1, Zenon DEF Housed, Home
<1>13. IInv'  BY <1>8, <1>9, <1>10, <1>11, <1>12 DEF IInv
<1> QED  BY <1>1, <1>2, <1>5, <1>13 DEF i, victim

LEMMA UndoInv ==
    ASSUME IInv, Undo
    PROVE  /\ IInv' /\ Last(moves) \in SlotIndex
           /\ slots' = [slots EXCEPT ![Last(moves)] = cur] /\ cur' = slots[Last(moves)]
<1> DEFINE n == Len(moves)
           i == moves[n]
<1>1. n \in Nat \ {0} /\ i \in SlotIndex /\ Last(moves) = i
  BY FrontElements DEF IInv, TypeOK, Undo
<1>2. /\ phase = "undo" /\ phase' = "undo"
      /\ slots' = [slots EXCEPT ![i] = cur] /\ where' = [where EXCEPT ![cur.val] = i]
      /\ cur' = slots[i] /\ UNCHANGED <<count, arg, bucket>>
  BY <1>1 DEF Undo, Store
<1>3. /\ moves' \in Seq(SlotIndex) /\ Len(moves') = n - 1
      /\ \A j \in 1 .. n - 1 : moves'[j] = moves[j] /\ moves[j] \in SlotIndex
  BY FrontElements DEF IInv, TypeOK, Undo
<1>4. PICK h : Walk(h)  BY <1>2 DEF IInv, Undoable
<1>5. /\ h \in [1 .. n + 1 -> SlotRecord] /\ h[1] = arg /\ h[n + 1] = cur
      /\ i \div Ways \in Home(cur) /\ slots[i] = h[n]
  BY <1>1, <1>4 DEF Walk, WalkOf
<1>6. slots[i] \in SlotRecord /\ Valid(i)  BY <1>1, <1>5, SlotFacts DEF Valid
<1> HIDE DEF i
<1>7. /\ slots' \in [SlotIndex -> SlotRecord \cup {<<>>}]
      /\ where' \in [Val -> SlotIndex \cup {-1}]
      /\ cur' \in SlotRecord /\ ValidSlots' = ValidSlots
      /\ Indexed' /\ Counted' /\ Housed'
      /\ arg' = cur' \/ \E j \in SlotIndex : slots'[j] = arg'
  BY <1>1, <1>2, <1>5, <1>6, Exchange
<1>8. TypeOK'
  <2>1. Len(moves') <= MaxKicks  BY <1>1, <1>3, Geometry DEF IInv, TypeOK
  <2> QED  BY <1>2, <1>3, <1>7, <2>1 DEF IInv, TypeOK
<1>9. WalkOK'  BY <1>2, <1>7 DEF IInv, WalkOK
<1>10. Undoable'
  <2>1. PICK g : g \in [1 .. n -> SlotRecord] /\ \A j \in 1 .. n : g[j] = h[j]
    <3> DEFINE f == [j \in 1 .. n |-> h[j]]
    <3>1. f \in [1 .. n -> SlotRecord] /\ \A j \in 1 .. n : f[j] = h[j]  BY <1>1, <1>5
    <3> QED  BY <3>1
  <2>2. \A j \in SlotIndex : slots'[j] = IF j = i THEN cur ELSE slots[j]
    BY <1>2 DEF IInv, TypeOK
  <2>3. \A j \in 1 .. n - 1 : moves'[j] \div Ways \in Home(g[j + 1])
    <3> TAKE j \in 1 .. n - 1
    <3>1. j \in 1 .. n /\ j + 1 \in 1 .. n  BY <1>1
    <3>2. moves[j] \div Ways \in Home(h[j + 1])  BY <1>4, <3>1 DEF Walk, WalkOf
    <3> QED  BY <1>3, <2>1, <3>1, <3>2
  <2>4. ASSUME NEW j \in 1 .. n - 1, \A k \in j + 1 .. n - 1 : moves'[k] # moves'[j]
        PROVE  slots'[moves'[j]] = g[j]
    <3>1. j \in 1 .. n /\ n \in j + 1 .. n /\ moves'[j] = moves[j]  BY <1>1, <1>3
    <3>2. \A k \in j + 1 .. n - 1 : moves[k] # moves[j]  BY <1>1, <1>3, <2>4
    <3>3. CASE moves[j] = i
      <4>1. h[n + 1] = h[j]  BY <1>4, <3>1, <3>2, <3>3 DEF Walk, WalkOf, i
      <4> QED  BY <1>1, <1>5, <2>1, <2>2, <3>1, <3>3, <4>1
    <3>4. CASE moves[j] # i
      <4>1. \A k \in j + 1 .. n : moves[k] # moves[j]  BY <1>1, <3>2, <3>4 DEF i
      <4>2. slots[moves[j]] = h[j]  BY <1>4, <3>1, <4>1 DEF Walk, WalkOf
      <4> QED  BY <1>3, <2>1, <2>2, <3>1, <3>4, <4>2
    <3> QED  BY <3>3, <3>4
  <2>5. ASSUME NEW j \in 1 .. n - 1, NEW k \in j + 1 .. n - 1, moves'[k] = moves'[j],
               \A l \in j + 1 .. k - 1 : moves'[l] # moves'[j]
        PROVE  g[k + 1] = g[j]
    <3>1. j \in 1 .. n /\ k \in j + 1 .. n /\ moves[k] = moves[j]  BY <1>1, <1>3, <2>5
    <3>2. \A l \in j + 1 .. k - 1 : l \in 1 .. n - 1  BY <1>1
    <3>3. \A l \in j + 1 .. k - 1 : moves[l] # moves[j]  BY <1>3, <2>5, <3>2
    <3>4. h[k + 1] = h[j]  BY <1>4, <3>1, <3>3 DEF Walk, WalkOf
    <3> QED  BY <1>1, <2>1, <3>4
  <2>6. g \in [1 .. Len(moves') + 1 -> SlotRecord] /\ g[1] = arg' /\ g[Len(moves') + 1] = cur'
    BY <1>1, <1>2, <1>3, <1>5, <2>1
  <2>7. Walk(g)'
    <3>1. \A j \in 1 .. Len(moves') : moves'[j] \div Ways \in Home(g[j + 1])
      BY <1>3, <2>3
    <3>2. \A j \in 1 .. Len(moves') :
              (\A k \in j + 1 .. Len(moves') : moves'[k] # moves'[j]) => slots'[moves'[j]] = g[j]
      BY <1>3, <2>4
    <3>3. \A j \in 1 .. Len(moves') : \A k \in j + 1 .. Len(moves') :
              /\ moves'[k] = moves'[j]
              /\ \A l \in j + 1 .. k - 1 : moves'[l] # moves'[j]
              => g[k + 1] = g[j]
      BY <1>3, <2>5
    <3> QED  BY <2>6, <3>1, <3>2, <3>3 DEF Walk, WalkOf, Home
  <2> QED  BY <2>7 DEF Undoable
<1>11. IInv'  BY <1>7, <1>8, <1>9, <1>10 DEF IInv
<1> QED  BY <1>1, <1>2, <1>11

LEMMA InsertFailsInv ==
    ASSUME IInv, InsertFails
    PROVE  IInv' /\ cur = arg
<1>1. cur = arg
  <2>1. PICK h : Walk(h)  BY DEF InsertFails, IInv, Undoable
  <2>2. Len(moves) = 0  BY DEF InsertFails
  <2> QED  BY <2>1, <2>2 DEF Walk, WalkOf
<1>2. cur \in SlotRecord /\ cur.val \in Val
  BY SlotFacts DEF InsertFails, IInv, WalkOK
<1>3. /\ phase # "none" /\ phase' = "none" /\ where' = [where EXCEPT ![cur.val] = -1]
      /\ arg' = <<>> /\ cur' = <<>> /\ bucket' = 0 /\ moves' = <<>>
      /\ UNCHANGED <<slots, count>>
  BY <1>1 DEF InsertFails, Return
<1>4. TypeOK'
  <2>1. moves' \in Seq(SlotIndex) /\ Len(moves') <= MaxKicks  BY <1>3, Geometry
  <2>2. bucket' \in 0 .. Buckets - 1  BY <1>3, Geometry
  <2> QED  BY <1>3, <2>1, <2>2 DEF IInv, TypeOK
<1>5. WalkOK' /\ Undoable'  BY <1>3 DEF WalkOK, Undoable
<1>6. Counted' /\ Housed'
  BY <1>3 DEF IInv, Counted, ValidSlots, Housed, Home, Valid
<1>7. Indexed'
  <2>1. \A u \in Val : where'[u] = IF u = cur.val THEN -1 ELSE where[u]
    BY <1>3 DEF IInv, TypeOK
  <2>2. \A i \in SlotIndex : Valid(i) => slots[i].val \in Val /\ slots[i].val # cur.val
    BY <1>3, SlotFacts DEF IInv, TypeOK, Indexed, Valid
  <2> QED  BY <1>3, <2>1, <2>2 DEF IInv, Indexed, Valid
<1> QED  BY <1>1, <1>4, <1>5, <1>6, <1>7 DEF IInv

LEMMA DeleteInv ==
    ASSUME IInv, NEW v \in Val, Delete(v)
    PROVE  IInv'
<1> DEFINE i == where[v]
<1>1. /\ phase = "none" /\ slots' = [slots EXCEPT ![i] = <<>>]
      /\ where' = [where EXCEPT ![v] = -1] /\ count' = count - 1
      /\ UNCHANGED <<phase, arg, cur, bucket, moves>>
  BY DEF Delete
<1>2. i \in SlotIndex /\ Valid(i) /\ slots[i].val = v
  BY DEF Delete, IInv, TypeOK, Indexed
<1> HIDE DEF i
<1>3. \A j \in SlotIndex : slots'[j] = IF j = i THEN <<>> ELSE slots[j]
  BY <1>1 DEF IInv, TypeOK
<1>4. \A u \in Val : where'[u] = IF u = v THEN -1 ELSE where[u]
  BY <1>1 DEF IInv, TypeOK
<1>5. \A j \in SlotIndex : Valid(j)' <=> Valid(j) /\ j # i  BY <1>3 DEF Valid
<1>6. Counted'
  <2>1. ValidSlots' = ValidSlots \ {i} /\ i \in ValidSlots
    BY <1>2, <1>5 DEF ValidSlots
  <2>2. ValidSlots \in SUBSET SlotIndex  BY DEF ValidSlots
  <2> QED  BY <1>1, <2>1, <2>2, CountDown DEF Counted, IInv
<1>7. TypeOK'
  <2>1. count' \in 0 .. Buckets * Ways
    <3>1. ValidSlots' \in SUBSET SlotIndex  BY DEF ValidSlots
    <3> QED  BY <3>1, <1>6, SetOfSlots DEF Counted
  <2> QED  BY <1>1, <2>1 DEF IInv, TypeOK
<1>8. WalkOK' /\ Undoable'  BY <1>1 DEF IInv, WalkOK, Undoable
<1>9. Indexed'
  <2>1. \A j \in SlotIndex : Valid(j) /\ j # i => where[slots[j].val] = j /\ slots[j].val # v
    BY <1>1 DEF IInv, Indexed, i
  <2>2. \A j \in SlotIndex : Valid(j) => slots[j].val \in Val
    BY SlotFacts DEF IInv, TypeOK, Valid
  <2>3. \A u \in Val : u # v /\ where[u] # -1 =>
            where[u] \in SlotIndex /\ where[u] # i /\ Valid(where[u]) /\ slots[where[u]].val = u
    BY <1>1, <1>2 DEF IInv, TypeOK, Indexed
  <2> QED  BY <1>1, <1>3, <1>4, <1>5, <2>1, <2>2, <2>3 DEF Indexed
<1>10. Housed'  BY <1>3, <1>5 DEF IInv, Housed, Home
<1> QED  BY <1>6, <1>7, <1>8, <1>9, <1>10 DEF IInv

LEMMA NextInv == IInv /\ [Next]_vars => IInv'
<1> SUFFICES ASSUME IInv, [Next]_vars PROVE IInv'  OBVIOUS
<1>1. CASE Kick
  <2>1. PICK w \in Way : KickOn(w) \/ \E j \in SlotIndex : KickEnds(w, j)
    BY <1>1, KickCases
  <2> QED  BY <2>1, KickOnInv, KickEndsInv
<1>2. CASE UNCHANGED vars
  <2>1. TypeOK' /\ WalkOK' /\ Indexed' /\ Housed'
    BY <1>2 DEF vars, IInv, TypeOK, WalkOK, Indexed, Housed, Valid, Home, FreeWays
  <2>2. Counted'  BY <1>2 DEF vars, IInv, Counted, ValidSlots, Valid
  <2>3. Undoable'
    <3>1. CASE phase = "none"  BY <1>2, <3>1 DEF vars, Undoable
    <3>2. CASE phase # "none"
      <4>1. PICK h : Walk(h)  BY <3>2 DEF IInv, Undoable
      <4>2. UNCHANGED <<slots, arg, cur, moves>>  BY <1>2 DEF vars
      <4>3. Walk(h)'  BY <4>1, <4>2 DEF Walk
      <4> QED  BY <4>3 DEF Undoable
    <3> QED  BY <3>1, <3>2
  <2> QED  BY <2>1, <2>2, <2>3 DEF IInv
<1> QED
  BY <1>1, <1>2, InsertFreeInv, InsertFullInv, GiveUpInv, UndoInv, InsertFailsInv, DeleteInv
  DEF Next

\* The invariant holds throughout.
THEOREM Invariance == Spec => []IInv
  BY InitInv, NextInv, PTL DEF Spec

\* Every variable keeps its type: no slot outside the table is touched, the
\* counter stays within the capacity and the undo log within MaxKicks.
THEOREM TypeCorrect == Spec => []TypeOK
<1>1. IInv => TypeOK  BY DEF IInv
<1> QED  BY <1>1, Invariance, PTL

\* Between two calls the index, the counter and the slots agree, and an undo
\* ends with the new entry in hand.
THEOREM IndexCorrect == Spec => []IndexAgrees
<1>1. IInv => IndexAgrees
  <2> SUFFICES ASSUME IInv PROVE IndexAgrees  OBVIOUS
  <2>1. ASSUME phase = "undo", moves = <<>> PROVE cur = arg
    <3>1. PICK h : Walk(h)  BY <2>1 DEF IInv, Undoable
    <3>2. Len(moves) = 0  BY <2>1
    <3> QED  BY <3>1, <3>2 DEF Walk, WalkOf
  <2> QED  BY <2>1 DEF IInv, Indexed, Counted, ValidSlots, IndexAgrees
<1> QED  BY <1>1, Invariance, PTL

\* An insertion walks, and so may fail, only when Ways slots at least are taken.
THEOREM FailsOnlyWhenFullCorrect == Spec => []FailsOnlyWhenFull
<1>1. IInv => FailsOnlyWhenFull  BY DEF IInv, WalkOK, FailsOnlyWhenFull
<1> QED  BY <1>1, Invariance, PTL

\* Lookup finds an entry of the key that satisfies the predicate whenever one is
\* stored, wherever the kicks and the undos have moved it, and nothing otherwise.
THEOREM LookupCorrect == Spec => []LookupFinds
<1>1. IInv => LookupFinds
  <2> SUFFICES ASSUME IInv, NEW k \in Key, NEW match \in SUBSET Val
               PROVE  LET stored == {slots[i] : i \in {j \in SlotIndex :
                              Valid(j) /\ slots[j].key = k /\ slots[j].val \in match}}
                      IN  IF stored = {} THEN Lookup(k, match) = <<>>
                                         ELSE Lookup(k, match) \in stored
    BY DEF LookupFinds
  <2> DEFINE found == {j \in SlotIndex :
                           Valid(j) /\ slots[j].key = k /\ slots[j].val \in match}
             hit(b) == {i \in SlotIndex : /\ i \div Ways = b /\ Valid(i)
                                          /\ slots[i].fp = Fingerprint[k]
                                          /\ slots[i].key = k /\ slots[i].val \in match}
             first(S) == slots[CHOOSE i \in S : \A j \in S : i <= j]
  <2>1. Lookup(k, match) = IF hit(Bucket1[k]) # {} THEN first(hit(Bucket1[k]))
                           ELSE IF hit(Bucket2[k]) # {} THEN first(hit(Bucket2[k])) ELSE <<>>
    BY DEF Lookup
  <2>2. found = hit(Bucket1[k]) \cup hit(Bucket2[k])
    <3>1. \A i \in found : slots[i].fp = Fingerprint[k]
      BY SlotFacts DEF IInv, TypeOK, Valid, Slot
    <3>2. \A i \in found : i \div Ways \in {Bucket1[k], Bucket2[k]}
      BY DEF IInv, Housed, Home
    <3> QED  BY <3>1, <3>2
  <2>3. ASSUME NEW b, hit(b) # {}, hit(b) \subseteq found
        PROVE  \E i \in found : first(hit(b)) = slots[i]
    <3>1. hit(b) \in SUBSET SlotIndex  OBVIOUS
    <3> HIDE DEF hit, found
    <3>2. \E i \in hit(b) : \A j \in hit(b) : i <= j  BY <2>3, <3>1, Least
    <3>3. (CHOOSE i \in hit(b) : \A j \in hit(b) : i <= j) \in hit(b)  BY <3>2
    <3> QED  BY <2>3, <3>3
  <2> HIDE DEF hit, found, first
  <2>4. IF found = {} THEN Lookup(k, match) = <<>>
                      ELSE \E i \in found : Lookup(k, match) = slots[i]
    BY <2>1, <2>2, <2>3
  <2> QED  BY <2>4 DEF found
<1> QED  BY <1>1, Invariance, PTL

-------------------------------------------------------------------------------
\* The slot contents that count as stored: not the entry that is being inserted.
Stored(s) == s # arg /\ (cur = s \/ \E i \in SlotIndex : slots[i] = s)

LEMMA ContentsStored ==
    ASSUME TypeOK
    PROVE  Contents = {e \in [key : Key, val : Val] : Stored(Slot(e.key, e.val))}
<1> DEFINE E == {e \in [key : Key, val : Val] : Stored(Slot(e.key, e.val))}
<1>1. ASSUME NEW e \in Contents PROVE e \in E
  <2>1. PICK s \in ({slots[i] : i \in SlotIndex} \cup {cur}) \ {<<>>, arg} :
            e = [key |-> s.key, val |-> s.val]
    BY DEF Contents
  <2>2. s \in SlotRecord  BY DEF TypeOK
  <2>3. e \in [key : Key, val : Val] /\ Slot(e.key, e.val) = s
    BY <2>1, <2>2, SlotFacts
  <2> QED  BY <2>1, <2>3 DEF Stored
<1>2. ASSUME NEW e \in E PROVE e \in Contents
  <2> DEFINE s == Slot(e.key, e.val)
  <2>1. s # <<>> /\ e = [key |-> s.key, val |-> s.val]  BY SlotFacts
  <2>2. s \in {slots[i] : i \in SlotIndex} \cup {cur} /\ s # arg  BY DEF Stored
  <2> HIDE DEF s
  <2> QED  BY <2>1, <2>2 DEF Contents
<1> QED  BY <1>1, <1>2

\* A table between two calls has no more entries than slots.
LEMMA ContentsBounded ==
    ASSUME TypeOK, arg = <<>>, cur = <<>>
    PROVE  IsFiniteSet(Contents) /\ Cardinality(Contents) <= Buckets * Ways
<1> DEFINE f == [i \in ValidSlots |-> [key |-> slots[i].key, val |-> slots[i].val]]
<1>1. \A e \in Contents : \E i \in ValidSlots : f[i] = e
  <2> TAKE e \in Contents
  <2>1. PICK s \in ({slots[i] : i \in SlotIndex} \cup {cur}) \ {<<>>, arg} :
            e = [key |-> s.key, val |-> s.val]
    BY DEF Contents
  <2>2. PICK i \in SlotIndex : slots[i] = s  BY <2>1
  <2> QED  BY <2>1, <2>2 DEF ValidSlots, Valid
<1>2. \A i \in ValidSlots : f[i] \in Contents
  <2> TAKE i \in ValidSlots
  <2>1. slots[i] \in ({slots[j] : j \in SlotIndex} \cup {cur}) \ {<<>>, arg}
    BY DEF ValidSlots, Valid
  <2> QED  BY <2>1 DEF Contents
<1>3. f \in Surjection(ValidSlots, Contents)
  <2> HIDE DEF f
  <2>1. f \in [ValidSlots -> Contents]  BY <1>2 DEF f
  <2> QED  BY <1>1, <2>1 DEF Surjection
<1>4. IsFiniteSet(ValidSlots) /\ Cardinality(ValidSlots) \in 0 .. Buckets * Ways
  BY SetOfSlots DEF ValidSlots
<1> HIDE DEF f
<1>5. IsFiniteSet(Contents) /\ Cardinality(Contents) <= Cardinality(ValidSlots)
  BY <1>3, <1>4, FS_Surjection
<1> QED  BY <1>4, <1>5, Geometry, FS_CardinalityType

\* Both lemmas, of the state after a step.
LEMMA ContentsNext ==
    /\ (TypeOK => Contents = {e \in [key : Key, val : Val] : Stored(Slot(e.key, e.val))})'
    /\ (TypeOK /\ arg = <<>> /\ cur = <<>> =>
            IsFiniteSet(Contents) /\ Cardinality(Contents) <= Buckets * Ways)'
  BY ContentsStored, ContentsBounded, PTL

LEMMA SameCardinality == \A S : Table!Cardinality(S) = Cardinality(S)
  BY DEF Table!Cardinality, Cardinality

\* A step that adds one entry to the contents is an insertion.
LEMMA IsInsert ==
    ASSUME TypeOK', arg' = <<>>, cur' = <<>>, NEW s \in SlotRecord,
           Stored(s)', ~ Stored(s), TypeOK,
           \A t \in SlotRecord : t # s => (Stored(t)' <=> Stored(t))
    PROVE  Table!Next
<1> DEFINE e == [key |-> s.key, val |-> s.val]
<1>1. e \in [key : Key, val : Val] /\ Slot(e.key, e.val) = s  BY SlotFacts
<1>2. \A d \in [key : Key, val : Val] :
          Slot(d.key, d.val) \in SlotRecord /\ (Slot(d.key, d.val) = s <=> d = e)
  BY <1>1, SlotFacts
<1>3. (Contents = {d \in [key : Key, val : Val] : Stored(Slot(d.key, d.val))})'
  BY ContentsNext
<1>4. Contents' = Contents \cup {e} /\ e \notin Contents
  BY <1>1, <1>2, <1>3, ContentsStored
<1>5. (IsFiniteSet(Contents) /\ Cardinality(Contents) <= Buckets * Ways)'
  BY ContentsNext
<1>6. IsFiniteSet(Contents)  BY <1>4, <1>5, FS_Subset
<1>7. Cardinality(Contents) \in Nat /\ Cardinality(Contents') = Cardinality(Contents) + 1
  BY <1>4, <1>6, FS_AddElement, FS_CardinalityType
<1>8. Cardinality(Contents) < Buckets * Ways  BY <1>5, <1>7, Geometry
<1> HIDE DEF e
<1>9. Table!Insert(e)  BY <1>4, <1>8, SameCardinality DEF Table!Insert
<1> QED  BY <1>1, <1>9 DEF Table!Next

\* A step that removes one entry from the contents is a deletion.
LEMMA IsDelete ==
    ASSUME TypeOK, TypeOK', NEW s \in SlotRecord, Stored(s), ~ Stored(s)',
           \A t \in SlotRecord : t # s => (Stored(t)' <=> Stored(t))
    PROVE  Table!Next
<1> DEFINE e == [key |-> s.key, val |-> s.val]
<1>1. e \in [key : Key, val : Val] /\ Slot(e.key, e.val) = s  BY SlotFacts
<1>2. \A d \in [key : Key, val : Val] :
          Slot(d.key, d.val) \in SlotRecord /\ (Slot(d.key, d.val) = s <=> d = e)
  BY <1>1, SlotFacts
<1>3. (Contents = {d \in [key : Key, val : Val] : Stored(Slot(d.key, d.val))})'
  BY ContentsNext
<1>4. Contents' = Contents \ {e} /\ e \in Contents
  BY <1>1, <1>2, <1>3, ContentsStored
<1> HIDE DEF e
<1> QED  BY <1>1, <1>4 DEF Table!Next, Table!Delete

\* Any other step leaves the contents alone.
LEMMA IsStutter ==
    ASSUME TypeOK, TypeOK', \A t \in SlotRecord : Stored(t)' <=> Stored(t)
    PROVE  Contents' = Contents
<1>1. (Contents = {d \in [key : Key, val : Val] : Stored(Slot(d.key, d.val))})'
  BY ContentsNext
<1>2. \A d \in [key : Key, val : Val] : Slot(d.key, d.val) \in SlotRecord
  BY SlotFacts
<1> QED  BY <1>1, <1>2, ContentsStored

LEMMA InsertFreeStep ==
    ASSUME IInv, IInv', NEW k \in Key, NEW v \in Val, InsertFree(k, v)
    PROVE  Table!Next
<1> DEFINE b == IF FreeWays(Bucket1[k]) # {} THEN Bucket1[k] ELSE Bucket2[k]
           i == FreeWay(b)
           s == Slot(k, v)
<1>1. i \in SlotIndex /\ ~ Valid(i)  BY FreeWayFacts DEF InsertFree
<1>2. s \in SlotRecord /\ s # <<>> /\ s.val = v  BY SlotFacts
<1>3. /\ slots' = [slots EXCEPT ![i] = s] /\ phase = "none" /\ where[v] = -1
      /\ arg = <<>> /\ cur = <<>> /\ arg' = <<>> /\ cur' = <<>>
  BY DEF InsertFree, Store, IInv, WalkOK
<1> HIDE DEF b, i, s
<1>4. \A j \in SlotIndex : slots'[j] = IF j = i THEN s ELSE slots[j]
  BY <1>3 DEF IInv, TypeOK
<1>5. \A j \in SlotIndex : slots[j] # s
  BY <1>2, <1>3, Geometry DEF IInv, Indexed, Valid
<1>6. \A t \in SlotRecord : Stored(t)' <=> t = s \/ Stored(t)
  BY <1>1, <1>2, <1>3, <1>4, SlotFacts DEF Stored, Valid
<1>7. ~ Stored(s)  BY <1>2, <1>3, <1>5 DEF Stored
<1> QED  BY <1>2, <1>3, <1>6, <1>7, IsInsert DEF IInv

LEMMA KickEndsStep ==
    ASSUME IInv, IInv', NEW w \in Way, NEW j \in SlotIndex, KickEnds(w, j)
    PROVE  Table!Next
<1> DEFINE i == bucket * Ways + w
<1>1. /\ \A l \in SlotIndex :
             slots'[l] = IF l = i THEN cur ELSE IF l = j THEN slots[i] ELSE slots[l]
      /\ slots[j] = <<>> /\ i \in SlotIndex /\ i # j
  BY KickEndsInv DEF Valid
<1>2. /\ arg \in SlotRecord
      /\ arg = cur \/ \E l \in SlotIndex : slots[l] = arg
      /\ arg' = <<>> /\ cur' = <<>>
  BY DEF KickEnds, Return, IInv, WalkOK
<1> HIDE DEF i
<1>3. \A t \in SlotRecord : (\E l \in SlotIndex : slots'[l] = t)
                            <=> (cur = t \/ \E l \in SlotIndex : slots[l] = t)
  BY <1>1, SlotFacts
<1>4. \A t \in SlotRecord : Stored(t)' <=> t = arg \/ Stored(t)
  BY <1>2, <1>3, SlotFacts DEF Stored
<1>5. ~ Stored(arg)  BY DEF Stored
<1>6. \A s \in SlotRecord : s = arg => Table!Next
  <2> SUFFICES ASSUME NEW s \in SlotRecord, s = arg PROVE Table!Next  OBVIOUS
  <2>1. Stored(s)' /\ ~ Stored(s)  BY <1>4, <1>5
  <2>2. \A t \in SlotRecord : t # s => (Stored(t)' <=> Stored(t))  BY <1>4
  <2>3. TypeOK /\ TypeOK'  BY DEF IInv
  <2> QED  BY <1>2, <2>1, <2>2, <2>3, IsInsert
<1> QED  BY <1>2, <1>6

LEMMA DeleteStep ==
    ASSUME IInv, IInv', NEW v \in Val, Delete(v)
    PROVE  Table!Next
<1> DEFINE i == where[v]
<1>1. /\ phase = "none" /\ slots' = [slots EXCEPT ![i] = <<>>]
      /\ arg = <<>> /\ cur = <<>> /\ arg' = <<>> /\ cur' = <<>>
  BY DEF Delete, IInv, WalkOK
<1>2. i \in SlotIndex /\ Valid(i) /\ slots[i].val = v
  BY DEF Delete, IInv, TypeOK, Indexed
<1>3. \A j \in SlotIndex : Valid(j) => where[slots[j].val] = j
  BY DEF IInv, Indexed
<1> HIDE DEF i
<1>4. \A j \in SlotIndex : slots'[j] = IF j = i THEN <<>> ELSE slots[j]
  BY <1>1 DEF IInv, TypeOK
<1>5. \A j \in SlotIndex : slots[j] = slots[i] <=> j = i
  BY <1>2, <1>3 DEF Valid
<1>6. \A t \in SlotRecord : Stored(t)' <=> t # slots[i] /\ Stored(t)
  BY <1>1, <1>2, <1>4, <1>5, SlotFacts DEF Stored
<1>7. slots[i] \in SlotRecord  BY <1>2 DEF IInv, TypeOK, Valid
<1>8. Stored(slots[i])  BY <1>1, <1>2, <1>7, SlotFacts DEF Stored
<1>9. \A s \in SlotRecord : s = slots[i] => Table!Next
  BY <1>6, <1>8, IsDelete DEF IInv
<1> QED  BY <1>7, <1>9

\* While an insertion walks, and when it is undone, the contents stay.
LEMMA WalkStep ==
    ASSUME IInv, IInv', NEW i \in SlotIndex, slots' = [slots EXCEPT ![i] = cur],
           cur' = slots[i], arg' = arg
    PROVE  Contents' = Contents
<1>1. \A j \in SlotIndex : slots'[j] = IF j = i THEN cur ELSE slots[j]
  BY DEF IInv, TypeOK
<1>2. \A t \in SlotRecord : Stored(t)' <=> Stored(t)
  BY <1>1 DEF Stored
<1> QED  BY <1>2, IsStutter DEF IInv

LEMMA InsertFullStep ==
    ASSUME IInv, IInv', NEW k \in Key, NEW v \in Val, InsertFull(k, v)
    PROVE  Contents' = Contents
<1> DEFINE s == Slot(k, v)
<1>1. /\ slots' = slots /\ phase = "none" /\ where[v] = -1 /\ arg = <<>> /\ cur = <<>>
      /\ arg' = s /\ cur' = s
  BY DEF InsertFull, IInv, WalkOK
<1>2. s \in SlotRecord /\ s # <<>> /\ s.val = v  BY SlotFacts
<1> HIDE DEF s
<1>3. \A j \in SlotIndex : slots[j] # s
  BY <1>1, <1>2, Geometry DEF IInv, Indexed, Valid
<1>4. \A t \in SlotRecord : Stored(t)' <=> Stored(t)
  BY <1>1, <1>3, SlotFacts DEF Stored
<1> QED  BY <1>4, IsStutter DEF IInv

LEMMA InsertFailsStep ==
    ASSUME IInv, IInv', InsertFails
    PROVE  Contents' = Contents
<1>1. /\ slots' = slots /\ phase = "undo" /\ cur = arg /\ arg \in SlotRecord
      /\ arg' = <<>> /\ cur' = <<>>
  BY InsertFailsInv DEF InsertFails, Return, IInv, WalkOK
<1>2. \A j \in SlotIndex : slots[j] # arg
  BY <1>1, SlotFacts DEF IInv, Indexed, Valid
<1>3. \A t \in SlotRecord : Stored(t)' <=> Stored(t)
  BY <1>1, <1>2, SlotFacts DEF Stored
<1> QED  BY <1>3, IsStutter DEF IInv

\* The table implements EntryTable: an insertion adds its entry at once or leaves
\* the contents as they were, however long it walked and whatever it undid.
THEOREM ImplementsEntryTable == Spec => IsEntryTable
<1>1. Init => Table!Init
  <2> SUFFICES ASSUME Init PROVE Contents = {}  BY DEF Table!Init
  <2> QED  BY DEF Init, Contents
<1>2. IInv /\ IInv' /\ [Next]_vars => [Table!Next]_Contents
  <2> SUFFICES ASSUME IInv, IInv', [Next]_vars PROVE Table!Next \/ Contents' = Contents
    OBVIOUS
  <2>1. CASE Kick
    <3>1. PICK w \in Way : KickOn(w) \/ \E j \in SlotIndex : KickEnds(w, j)
      BY <2>1, KickCases
    <3>2. CASE KickOn(w)
      <4>1. bucket * Ways + w \in SlotIndex  BY <3>2, KickedSlot DEF KickOn
      <4> QED  BY <3>2, <4>1, WalkStep DEF KickOn
    <3> QED  BY <3>1, <3>2, KickEndsStep
  <2>2. CASE Undo  BY <2>2, UndoInv, WalkStep DEF Undo
  <2>3. CASE GiveUp  BY <2>3 DEF GiveUp, Contents
  <2>4. CASE UNCHANGED vars  BY <2>4 DEF vars, Contents
  <2> QED  BY <2>1, <2>2, <2>3, <2>4, InsertFreeStep, InsertFullStep, InsertFailsStep,
              DeleteStep DEF Next
<1> QED  BY <1>1, <1>2, Invariance, PTL DEF Spec, IsEntryTable, Table!Spec

===============================================================================
