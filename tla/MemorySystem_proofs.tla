-------------------------- MODULE MemorySystem_proofs --------------------------
(* Theorems about MemorySystem, for any number of lines, ways, words and      *)
(* requests, any sizes of the buffers of the cache and any order of flushes   *)
(* and shootdowns: the flusher never finds a block in use.                    *)
EXTENDS MemorySystem, SequenceLemmas, FiniteSetTheorems, TLAPS

-------------------------------------------------------------------------------
\* The fields of records that the cache updates one by one.
BlockField == {"valid", "line", "dirty", "locked", "readers", "mask", "data"}
TransField == {"act", "way", "vline", "vmask", "vdata", "orphan"}
EntryField == {"reqs", "way", "data", "shares"}

\* Types, as far as the invariant needs them.  Which way a request gets and what the
\* words hold is left open.
BlocksOK ==
    /\ DOMAIN blocks = Way
    /\ \A w \in Way : /\ DOMAIN blocks[w] = BlockField
                      /\ blocks[w].locked \in BOOLEAN /\ blocks[w].readers \in Int

TransOK ==
    /\ DOMAIN trans = Trans
    /\ \A t \in Trans : DOMAIN trans[t] = TransField /\ trans[t].orphan \in BOOLEAN
    /\ \A t \in Trans \ Req : trans[t].act \in {"none", "evict"}

EntriesOK ==
    /\ DOMAIN entry = Req
    /\ \A e \in Req : DOMAIN entry[e] = EntryField /\ entry[e].reqs \in Seq(Req)

BuffersOK ==
    /\ issued \in 0 .. MaxReq
    /\ topPort \in Seq(Req) /\ dirQ \in Seq(Req) /\ inFlight \in SUBSET Req
    /\ dirToBank \in Seq(Trans) /\ bank \in Seq(Trans) /\ post \in Seq(Trans)
    /\ wbQ \in Seq(Trans) /\ wbToBank \in Seq(Req) /\ mshrQ \in Seq(Req)
    /\ processing \in Req \cup {0} /\ mshr \in SUBSET Req /\ fetching \in SUBSET Req
    /\ pending \in Seq(Trans) /\ botIn \in Seq(Range(botIn))
    /\ toMem \in SUBSET [op : {"read", "write"}, id : Trans] /\ toEvict \in SUBSET Way

TypesOK == BlocksOK /\ TransOK /\ EntriesOK /\ BuffersOK

-------------------------------------------------------------------------------
\* The places where a transaction can be behind the directory stage.
BankPlace == {"down", "bank", "post"}
BusyPlace == BankPlace \cup {"buffer", "fetch", "up"}
Place     == BusyPlace \cup {"ready", "serve"}

Held == [p \in Place |->
    CASE p = "down"   -> Range(dirToBank) \cap Req
      [] p = "bank"   -> Range(bank) \cap Req
      [] p = "post"   -> Range(post) \cap Req
      [] p = "buffer" -> Range(wbQ) \cap Req
      [] p = "fetch"  -> fetching
      [] p = "up"     -> Range(wbToBank)
      [] p = "ready"  -> Range(mshrQ)
      [] p = "serve"  -> {processing} \cap Req]

\* What a transaction can be in each of them.
ActAt == [p \in Place |->
    CASE p = "down"   -> {"readHit", "writeHit", "fetch", "evictWrite", "evictFetch"}
      [] p \in {"bank", "post"} -> {"readHit", "writeHit", "evictWrite", "evictFetch", "fetched"}
      [] p = "buffer" -> {"fetch", "evictWrite", "evictFetch"}
      [] p = "fetch"  -> {"fetch"}
      [] p = "up"     -> {"writeHit", "fetched"}
      [] p \in {"ready", "serve"} -> {"fetched"}]

\* No request is twice in a queue.
Once(q) == \A i, j \in DOMAIN q : q[i] = q[j] /\ q[i] \in Req => i = j

OnceOK == Once(dirToBank) /\ Once(bank) /\ Once(post) /\ Once(wbQ) /\ Once(wbToBank) /\ Once(mshrQ)

PlacesOK ==
    /\ \A p, q \in Place : p # q => Held[p] \cap Held[q] = {}
    /\ \A p \in Place : \A t \in Held[p] : trans[t].act \in ActAt[p]

\* Requests that the directory stage has not looked up are new to it.
Waiting == Range(topPort) \cup Range(dirQ)
FrontOK ==
    /\ IsInjective(topPort) /\ IsInjective(dirQ) /\ Range(topPort) \cap Range(dirQ) = {}
    /\ \A t \in Waiting : t <= issued
    /\ Range(dirQ) \subseteq inFlight
    /\ \A t \in Req : t > issued \/ t \in Waiting => trans[t].act = "none"

\* The requests of an entry: its leader, and those that joined it.
Leads == {"fetch", "evictFetch", "fetched"}
JoinedOK ==
    /\ \A e \in Req : \A t \in Range(entry[e].reqs) :
           /\ t <= issued /\ t \notin Waiting
           /\ t = e \/ trans[t].act = "none"
    /\ \A p \in Place : \A e \in Held[p] : trans[e].act \in Leads =>
           entry[e].way = trans[e].way /\ entry[e].reqs # <<>>

OrphansOK == \A t \in Req : trans[t].orphan => t \notin inFlight /\ trans[t].act # "none"

\* Memory answers every read once.
Reads == {m.id : m \in {x \in toMem : x.op = "read"}}
IsData(i) == botIn[i].op = "data"
MemoryOK ==
    /\ Reads \subseteq fetching
    /\ \A i \in DOMAIN botIn : IsData(i) => botIn[i].id \in fetching \ Reads
    /\ \A i, j \in DOMAIN botIn : IsData(i) /\ IsData(j) /\ botIn[i].id = botIn[j].id => i = j

-------------------------------------------------------------------------------
\* A block is locked for a transaction in flight that has yet to unlock it, and its
\* readers are the reads in flight that will leave it.
Owns(t, w) == /\ t \in inFlight /\ trans[t].way = w /\ trans[t].act # "readHit"
              /\ \E p \in BusyPlace : t \in Held[p]
ReadsOf(w) == {t \in inFlight : trans[t].act = "readHit" /\ trans[t].way = w}

LocksOK ==
    /\ \A w \in Way : blocks[w].locked => \E t \in Req : Owns(t, w)
    /\ \A w \in Way : blocks[w].readers = Cardinality(ReadsOf(w))
    /\ \A p \in BankPlace : \A t \in Held[p] : trans[t].act = "readHit" => t \in inFlight

\* Nothing is in flight while blocks are evicted, nor while the cache is paused.
QuietOK == cstate \in {"flushing", "paused"} => inFlight = {}

LockInv == /\ TypesOK /\ OnceOK /\ MemoryOK /\ PlacesOK /\ FrontOK /\ JoinedOK
           /\ OrphansOK /\ LocksOK /\ QuietOK

-------------------------------------------------------------------------------
\* Queues of transactions.

LEMMA Sizes == MaxReq \in Nat /\ NumWays \in Nat /\ Req \subseteq Trans /\ 0 \notin Req
  BY CacheAssumption DEF Req, Trans

LEMMA OncePut ==
    ASSUME NEW q \in Seq(Trans), NEW e \in Trans, Once(q), e \in Req => e \notin Range(q)
    PROVE  /\ Append(q, e) \in Seq(Trans) /\ Once(Append(q, e))
           /\ Range(Append(q, e)) = Range(q) \cup {e}
<1> DEFINE r == Append(q, e)  n == Len(q)
<1>1. /\ n \in Nat /\ DOMAIN q = 1 .. n /\ DOMAIN r = 1 .. n + 1 /\ r \in Seq(Trans)
      /\ r[n + 1] = e /\ \A i \in 1 .. n : r[i] = q[i]
  BY SeqType, AppendElements
<1>2. Range(r) = Range(q) \cup {e}  BY AppendRange
<1>3. \A i \in 1 .. n : q[i] \in Range(q)  BY <1>1, Zenon DEF Range
<1> HIDE DEF r, n
<1>4. 1 .. n + 1 = 1 .. n \cup {n + 1}  BY <1>1
<1>5. \A i, j \in 1 .. n : q[i] = q[j] /\ q[i] \in Req => i = j  BY <1>1 DEF Once
<1>6. ASSUME NEW i \in 1 .. n + 1, NEW j \in 1 .. n + 1, r[i] = r[j], r[i] \in Req
      PROVE  i = j
  <2>1. CASE i \in 1 .. n /\ j \in 1 .. n  BY <1>1, <1>5, <1>6, <2>1
  <2>2. CASE i = n + 1 /\ j \in 1 .. n  BY <1>1, <1>3, <1>6, <2>2
  <2>3. CASE i \in 1 .. n /\ j = n + 1  BY <1>1, <1>3, <1>6, <2>3
  <2> QED  BY <1>4, <2>1, <2>2, <2>3
<1>7. Once(r)  BY <1>1, <1>6 DEF Once
<1> QED  BY <1>1, <1>2, <1>7 DEF r

LEMMA OnceDrop ==
    ASSUME NEW q \in Seq(Trans), NEW i \in 1 .. Len(q), Once(q)
    PROVE  /\ RemoveAt(q, i) \in Seq(Trans) /\ Once(RemoveAt(q, i)) /\ q[i] \in Range(q)
           /\ \A t \in Req : t \in Range(RemoveAt(q, i)) <=> t \in Range(q) /\ t # q[i]
           /\ \A t \in Range(RemoveAt(q, i)) : t \in Range(q)
<1> DEFINE r == RemoveAt(q, i)  n == Len(q)
           At(k) == IF k < i THEN k ELSE k + 1
<1>1. /\ n \in Nat /\ DOMAIN q = 1 .. n /\ DOMAIN r = 1 .. n - 1 /\ r \in Seq(Trans)
      /\ \A k \in 1 .. n - 1 : r[k] = IF k < i THEN q[k] ELSE q[k + 1]
  BY SeqType, RemoveAtElements
<1>2. Range(q) = Range(r) \cup {q[i]}  BY RemoveAtRange
<1> HIDE DEF r
<1>3. \A k \in 1 .. n - 1 : At(k) \in 1 .. n /\ At(k) # i /\ r[k] = q[At(k)]  BY <1>1
<1>4. \A k, m \in 1 .. n - 1 : k # m => At(k) # At(m)  BY <1>1
<1> HIDE DEF n, At
<1>5. \A j, k \in 1 .. n : q[j] = q[k] /\ q[j] \in Req => j = k  BY <1>1 DEF Once
<1>6. \A k, m \in 1 .. n - 1 : r[k] = r[m] /\ r[k] \in Req => k = m  BY <1>3, <1>4, <1>5
<1>7. Once(r)  BY <1>1, <1>6 DEF Once
<1>8. ASSUME q[i] \in Req PROVE q[i] \notin Range(r)
  <2>1. i \in 1 .. n  BY <1>1 DEF n
  <2>2. \A k \in 1 .. n - 1 : r[k] # q[i]  BY <1>3, <1>5, <1>8, <2>1
  <2> QED  BY <1>1, <2>2, Zenon DEF Range
<1> QED  BY <1>1, <1>2, <1>7, <1>8 DEF r

LEMMA OnceTake ==
    ASSUME NEW q \in Seq(Trans), q # <<>>, Once(q)
    PROVE  /\ Head(q) \in Trans /\ Tail(q) \in Seq(Trans) /\ Once(Tail(q)) /\ Head(q) \in Range(q)
           /\ \A t \in Req : t \in Range(Tail(q)) <=> t \in Range(q) /\ t # Head(q)
           /\ \A t \in Range(Tail(q)) : t \in Range(q)
<1> DEFINE r == Tail(q)  n == Len(q)
<1>1. /\ n \in Nat \ {0} /\ DOMAIN q = 1 .. n /\ DOMAIN r = 1 .. n - 1 /\ r \in Seq(Trans)
      /\ Head(q) = q[1] /\ Head(q) \in Trans /\ \A k \in 1 .. n - 1 : r[k] = q[k + 1]
  BY SeqType, TailElements
<1>2. Range(q) = Range(r) \cup {Head(q)} /\ Head(q) \in Range(q)  BY TailRange
<1> HIDE DEF r, n
<1>3. \A k \in 1 .. n - 1 : k + 1 \in 1 .. n /\ k + 1 # 1  BY <1>1
<1>4. 1 \in 1 .. n  BY <1>1
<1>5. \A j, k \in 1 .. n : q[j] = q[k] /\ q[j] \in Req => j = k  BY <1>1 DEF Once
<1>6. \A k, m \in 1 .. n - 1 : r[k] = r[m] /\ r[k] \in Req => k = m
  <2>1. \A k, m \in 1 .. n - 1 : k + 1 = m + 1 => k = m  BY <1>1
  <2> QED  BY <1>1, <1>3, <1>5, <2>1
<1>7. Once(r)  BY <1>1, <1>6 DEF Once
<1>8. ASSUME Head(q) \in Req PROVE Head(q) \notin Range(r)
  <2>1. \A k \in 1 .. n - 1 : r[k] # q[1]  BY <1>1, <1>3, <1>4, <1>5, <1>8
  <2> QED  BY <1>1, <2>1, Zenon DEF Range
<1> QED  BY <1>1, <1>2, <1>7, <1>8 DEF r

LEMMA OnceEmpty == <<>> \in Seq(Trans) /\ <<>> \in Seq(Req) /\ Range(<<>>) = {} /\ Once(<<>>)
<1>1. DOMAIN <<>> = {}  OBVIOUS
<1> QED  BY <1>1 DEF Once, Range

LEMMA LongTail ==
    ASSUME NEW S, NEW q \in Seq(S), Len(q) > 1
    PROVE  Tail(q) # <<>>
<1> DEFINE n == Len(q)  m == Len(Tail(q))
<1>1. q # <<>> /\ n \in Nat  OBVIOUS
<1>2. m = n - 1 /\ Tail(q) \in Seq(S)  BY <1>1, TailElements
<1>3. n > 1  OBVIOUS
<1>4. Tail(q) = <<>> => m = 0  BY <1>2, SeqType
<1> HIDE DEF n, m
<1>5. m # 0  BY <1>1, <1>2, <1>3
<1> QED  BY <1>4, <1>5

-------------------------------------------------------------------------------
\* What a step can do to the requests, whatever action it is.

RequestsOK == PlacesOK /\ FrontOK /\ JoinedOK /\ OrphansOK /\ LocksOK /\ QuietOK

SameTrans(t)  == /\ trans'[t].act = trans[t].act /\ trans'[t].way = trans[t].way
                 /\ trans'[t].orphan = trans[t].orphan
SameEntry(e)  == entry'[e].reqs = entry[e].reqs /\ entry'[e].way = entry[e].way
SameEntries   == \A e \in Req : SameEntry(e)
SameBlocks    == \A w \in Way : /\ blocks'[w].locked = blocks[w].locked
                                /\ blocks'[w].readers = blocks[w].readers
SameFront     == UNCHANGED <<issued, topPort, dirQ, inFlight, cstate>>

\* A request leaves place p for place q.
Moves(t, p, q) ==
    /\ t \in Held[p]
    /\ \A r \in Place : \A u \in Req :
           u \in Held'[r] <=> IF u = t THEN r = q ELSE u \in Held[r]

LEMMA HeldIs ==
    /\ Held["down"] = Range(dirToBank) \cap Req /\ Held["bank"] = Range(bank) \cap Req
    /\ Held["post"] = Range(post) \cap Req /\ Held["buffer"] = Range(wbQ) \cap Req
    /\ Held["fetch"] = fetching /\ Held["up"] = Range(wbToBank)
    /\ Held["ready"] = Range(mshrQ) /\ Held["serve"] = {processing} \cap Req
  BY DEF Held, Place, BusyPlace, BankPlace

LEMMA HeldIsNext ==
    /\ Held'["down"] = Range(dirToBank') \cap Req /\ Held'["bank"] = Range(bank') \cap Req
    /\ Held'["post"] = Range(post') \cap Req /\ Held'["buffer"] = Range(wbQ') \cap Req
    /\ Held'["fetch"] = fetching' /\ Held'["up"] = Range(wbToBank')
    /\ Held'["ready"] = Range(mshrQ') /\ Held'["serve"] = {processing'} \cap Req
  BY DEF Held, Place, BusyPlace, BankPlace

LEMMA PlaceIs ==
    /\ Place = {"down", "bank", "post", "buffer", "fetch", "up", "ready", "serve"}
    /\ BusyPlace = {"down", "bank", "post", "buffer", "fetch", "up"}
    /\ BankPlace = {"down", "bank", "post"} /\ BankPlace \subseteq BusyPlace
    /\ BusyPlace \subseteq Place
  BY DEF Place, BusyPlace, BankPlace

LEMMA ActsAre ==
    /\ ActAt["down"] = {"readHit", "writeHit", "fetch", "evictWrite", "evictFetch"}
    /\ ActAt["bank"] = {"readHit", "writeHit", "evictWrite", "evictFetch", "fetched"}
    /\ ActAt["post"] = {"readHit", "writeHit", "evictWrite", "evictFetch", "fetched"}
    /\ ActAt["buffer"] = {"fetch", "evictWrite", "evictFetch"}
    /\ ActAt["fetch"] = {"fetch"} /\ ActAt["up"] = {"writeHit", "fetched"}
    /\ ActAt["ready"] = {"fetched"} /\ ActAt["serve"] = {"fetched"}
    /\ \A p \in Place : "none" \notin ActAt[p]
  BY DEF ActAt, Place, BusyPlace, BankPlace

\* What is held is a request, in a place that is a place.
LEMMA HeldReq ==
    ASSUME BuffersOK
    PROVE  \A p \in Place : Held[p] \subseteq Req
<1>1. Range(wbToBank) \subseteq Req /\ Range(mshrQ) \subseteq Req /\ fetching \subseteq Req
  BY DEF BuffersOK, Range
<1> QED  BY <1>1, HeldIs, PlaceIs

LEMMA HeldReqNext ==
    ASSUME BuffersOK'
    PROVE  \A p \in Place : Held'[p] \subseteq Req
<1>1. Range(wbToBank') \subseteq Req /\ Range(mshrQ') \subseteq Req /\ fetching' \subseteq Req
  BY DEF BuffersOK, Range
<1> QED  BY <1>1, HeldIsNext, PlaceIs

\* Nothing happens to the requests.
LEMMA StayStep ==
    ASSUME BuffersOK, EntriesOK, RequestsOK, \A r \in Place : Held'[r] = Held[r],
           \A t \in Req : SameTrans(t),
           SameEntries, SameBlocks, SameFront
    PROVE  RequestsOK'
<1>1. inFlight' = inFlight /\ inFlight \subseteq Req /\ topPort' = topPort /\ dirQ' = dirQ
      /\ issued' = issued /\ cstate' = cstate
  BY DEF SameFront, BuffersOK
<1>2. \A p \in Place : Held[p] \subseteq Req  BY HeldReq
<1>3. PlacesOK'  BY <1>2 DEF RequestsOK, PlacesOK, SameTrans
<1>4. FrontOK'  BY <1>1 DEF RequestsOK, FrontOK, SameTrans, Waiting
<1>5. JoinedOK'
  <2>1. Waiting' = Waiting  BY <1>1 DEF Waiting
  <2>2. \A e \in Req : entry'[e].reqs = entry[e].reqs /\ entry'[e].way = entry[e].way
    BY DEF SameEntries, SameEntry
  <2>3. ASSUME NEW e \in Req, NEW t \in Range(entry'[e].reqs)
        PROVE  t <= issued' /\ t \notin Waiting' /\ (t = e \/ trans'[t].act = "none")
    <3>1. t \in Range(entry[e].reqs) /\ t \in Req  BY <2>2 DEF EntriesOK, Range
    <3> QED  BY <1>1, <2>1, <3>1 DEF RequestsOK, JoinedOK, SameTrans
  <2>4. ASSUME NEW p \in Place, NEW e \in Held[p], trans'[e].act \in Leads
        PROVE  entry'[e].way = trans'[e].way /\ entry'[e].reqs # <<>>
    <3>1. e \in Held[p] /\ e \in Req /\ SameTrans(e)  BY <1>2
    <3>2. entry[e].way = trans[e].way /\ entry[e].reqs # <<>>
      BY <2>4, <3>1 DEF RequestsOK, JoinedOK, SameTrans
    <3> QED  BY <2>2, <3>1, <3>2 DEF SameTrans
  <2> QED  BY <2>3, <2>4 DEF JoinedOK
<1>6. OrphansOK'  BY <1>1 DEF RequestsOK, OrphansOK, SameTrans
<1>7. LocksOK'
  <2>1. \A w \in Way : ReadsOf(w)' = ReadsOf(w)  BY <1>1 DEF ReadsOf, SameTrans
  <2>2. \A t \in Req, w \in Way : Owns(t, w) => Owns(t, w)'  BY <1>1, PlaceIs DEF Owns, SameTrans
  <2>3. \A w \in Way : blocks'[w].locked => \E t \in Req : Owns(t, w)'
    BY <2>2 DEF RequestsOK, LocksOK, SameBlocks
  <2>4. \A w \in Way : blocks'[w].readers = Cardinality(ReadsOf(w)')
    BY <2>1 DEF RequestsOK, LocksOK, SameBlocks
  <2>5. \A p \in BankPlace : \A t \in Held'[p] : trans'[t].act = "readHit" => t \in inFlight'
    BY <1>1, <1>2, PlaceIs DEF RequestsOK, LocksOK, SameTrans
  <2> QED  BY <2>3, <2>4, <2>5 DEF LocksOK
<1>8. QuietOK'  BY <1>1 DEF RequestsOK, QuietOK
<1> QED  BY <1>3, <1>4, <1>5, <1>6, <1>7, <1>8 DEF RequestsOK

\* A request goes from one place to another, and keeps its block.
LEMMA MoveStep ==
    ASSUME BuffersOK, BuffersOK', EntriesOK, RequestsOK,
           NEW t \in Req, NEW p \in BusyPlace, NEW q \in BusyPlace, Moves(t, p, q),
           \A u \in Req : u # t => SameTrans(u),
           trans'[t].way = trans[t].way, trans'[t].orphan = trans[t].orphan,
           trans'[t].act \in ActAt[q],
           trans'[t].act = "readHit" <=> trans[t].act = "readHit",
           trans'[t].act \in Leads => trans[t].act \in Leads,
           SameEntries, SameBlocks, SameFront
    PROVE  RequestsOK'
<1>1. inFlight' = inFlight /\ inFlight \subseteq Req /\ topPort' = topPort /\ dirQ' = dirQ
      /\ issued' = issued /\ cstate' = cstate
  BY DEF SameFront, BuffersOK
<1>2. \A r \in Place : Held[r] \subseteq Req /\ Held'[r] \subseteq Req  BY HeldReq, HeldReqNext
<1>3. p \in Place /\ q \in Place  BY PlaceIs
<1>4. \A r \in Place : \A u \in Req : u \in Held'[r] <=> IF u = t THEN r = q ELSE u \in Held[r]
  BY DEF Moves
<1>5. t \in Held[p] /\ trans[t].act \in ActAt[p] /\ trans[t].act # "none" /\ trans'[t].act # "none"
  BY <1>3, ActsAre DEF Moves, RequestsOK, PlacesOK
<1>6. PlacesOK'
  <2>1. \A r, s \in Place : r # s => Held'[r] \cap Held'[s] = {}
    BY <1>2, <1>4 DEF RequestsOK, PlacesOK
  <2>2. \A r \in Place : \A u \in Held'[r] : trans'[u].act \in ActAt[r]
    BY <1>2, <1>4 DEF RequestsOK, PlacesOK, SameTrans
  <2> QED  BY <2>1, <2>2 DEF PlacesOK
<1>7. Waiting' = Waiting /\ t \notin Waiting /\ t <= issued
  <2>1. ~ (t > issued) /\ t \notin Waiting  BY <1>5 DEF RequestsOK, FrontOK
  <2>2. issued \in Int /\ t \in Int  BY Sizes DEF BuffersOK, Req
  <2>3. Waiting' = Waiting  BY <1>1 DEF Waiting
  <2> QED  BY <2>1, <2>2, <2>3
<1>8. FrontOK'
  BY <1>1, <1>5, <1>7 DEF RequestsOK, FrontOK, SameTrans
<1>9. JoinedOK'
  <2>1. \A e \in Req : entry'[e].reqs = entry[e].reqs /\ entry'[e].way = entry[e].way
    BY DEF SameEntries, SameEntry
  <2>2. ASSUME NEW e \in Req, NEW u \in Range(entry'[e].reqs)
        PROVE  u <= issued' /\ u \notin Waiting' /\ (u = e \/ trans'[u].act = "none")
    <3>1. u \in Range(entry[e].reqs) /\ u \in Req  BY <2>1 DEF EntriesOK, Range
    <3>2. u <= issued /\ u \notin Waiting /\ (u = e \/ trans[u].act = "none")
      BY <3>1 DEF RequestsOK, JoinedOK
    <3> QED  BY <1>1, <1>5, <1>7, <3>1, <3>2 DEF SameTrans
  <2>3. ASSUME NEW r \in Place, NEW e \in Held'[r], trans'[e].act \in Leads
        PROVE  entry'[e].way = trans'[e].way /\ entry'[e].reqs # <<>>
    <3>1. e \in Req  BY <1>2
    <3>2. trans[e].act \in Leads /\ trans'[e].way = trans[e].way  BY <2>3, <3>1 DEF SameTrans
    <3>3. \E s \in Place : e \in Held[s]  BY <1>3, <1>4, <1>5, <3>1
    <3>4. entry[e].way = trans[e].way /\ entry[e].reqs # <<>>
      BY <3>2, <3>3 DEF RequestsOK, JoinedOK
    <3> QED  BY <2>1, <3>1, <3>2, <3>4
  <2> QED  BY <2>2, <2>3 DEF JoinedOK
<1>10. OrphansOK'  BY <1>1, <1>5 DEF RequestsOK, OrphansOK, SameTrans
<1>11. LocksOK'
  <2>1. \A u \in Req : /\ trans'[u].way = trans[u].way
                       /\ trans'[u].act = "readHit" <=> trans[u].act = "readHit"
    BY DEF SameTrans
  <2>2. \A w \in Way : ReadsOf(w)' = ReadsOf(w)  BY <1>1, <2>1 DEF ReadsOf
  <2>3. ASSUME NEW u \in Req, NEW w \in Way, Owns(u, w)
        PROVE  Owns(u, w)'
    <3>1. \E r \in BusyPlace : u \in Held'[r]
      <4>1. PICK r \in BusyPlace : u \in Held[r]  BY <2>3 DEF Owns
      <4>2. r \in Place  BY PlaceIs
      <4> QED  BY <1>3, <1>4, <4>1, <4>2
    <3> QED  BY <1>1, <2>1, <2>3, <3>1 DEF Owns
  <2>4. \A w \in Way : blocks'[w].locked => \E u \in Req : Owns(u, w)'
    BY <2>3 DEF RequestsOK, LocksOK, SameBlocks
  <2>5. \A w \in Way : blocks'[w].readers = Cardinality(ReadsOf(w)')
    BY <2>2 DEF RequestsOK, LocksOK, SameBlocks
  <2>6. ASSUME NEW r \in BankPlace, NEW u \in Held'[r], trans'[u].act = "readHit"
        PROVE  u \in inFlight'
    <3>1. r \in Place  BY PlaceIs
    <3>2. u \in Req /\ trans[u].act = "readHit"  BY <1>2, <2>1, <2>6, <3>1
    <3>3. CASE u = t
      <4>1. p \in BankPlace  BY <1>5, <3>2, <3>3, ActsAre, PlaceIs
      <4> QED  BY <1>1, <1>5, <3>2, <3>3, <4>1 DEF RequestsOK, LocksOK
    <3>4. CASE u # t
      <4>1. u \in Held[r]  BY <1>4, <3>1, <3>2, <3>4
      <4> QED  BY <1>1, <3>2, <4>1 DEF RequestsOK, LocksOK
    <3> QED  BY <3>3, <3>4
  <2> QED  BY <2>4, <2>5, <2>6 DEF LocksOK
<1>12. QuietOK'  BY <1>1 DEF RequestsOK, QuietOK
<1> QED  BY <1>6, <1>8, <1>9, <1>10, <1>11, <1>12 DEF RequestsOK

\* The directory stage gives the request at its head the way w and sends it to the bank: to
\* read, or to write or fetch with the way locked.
Enters(t, w) ==
    /\ dirQ # <<>> /\ t = Head(dirQ) /\ dirQ' = Tail(dirQ)
    /\ UNCHANGED <<issued, topPort, inFlight, cstate>>
    /\ \A r \in Place : \A u \in Req :
           u \in Held'[r] <=> u \in Held[r] \/ (u = t /\ r = "down")
    /\ \A u \in Req : u # t => SameTrans(u) /\ SameEntry(u)
    /\ trans'[t].act \in ActAt["down"] /\ trans'[t].way = w
    /\ trans'[t].orphan = trans[t].orphan
    /\ IF trans'[t].act \in Leads THEN entry'[t].reqs = <<t>> /\ entry'[t].way = w
                                  ELSE SameEntry(t)

Locks(t, w) == \A v \in Way :
    /\ blocks'[v].locked => blocks[v].locked \/ (v = w /\ trans'[t].act # "readHit")
    /\ blocks'[v].readers =
           IF v = w /\ trans'[t].act = "readHit" THEN blocks[v].readers + 1 ELSE blocks[v].readers

LEMMA EnterStep ==
    ASSUME BuffersOK, BuffersOK', EntriesOK, EntriesOK', RequestsOK,
           NEW t \in Req, NEW w, Enters(t, w), Locks(t, w)
    PROVE  RequestsOK'
<1>1. inFlight' = inFlight /\ inFlight \subseteq Req /\ topPort' = topPort /\ dirQ' = Tail(dirQ)
      /\ issued' = issued /\ cstate' = cstate /\ dirQ \in Seq(Req) /\ dirQ # <<>> /\ t = Head(dirQ)
      /\ issued \in Int
  BY Sizes DEF Enters, BuffersOK
<1>2. \A r \in Place : Held[r] \subseteq Req /\ Held'[r] \subseteq Req  BY HeldReq, HeldReqNext
<1>3. /\ IsInjective(dirQ) /\ IsInjective(topPort) /\ Range(topPort) \cap Range(dirQ) = {}
      /\ Range(dirQ) \subseteq inFlight
      /\ \A u \in Waiting : u <= issued
      /\ \A u \in Req : u > issued \/ u \in Waiting => trans[u].act = "none"
  BY DEF RequestsOK, FrontOK
<1>4. /\ t \in Range(dirQ) /\ IsInjective(dirQ') /\ Range(dirQ') = Range(dirQ) \ {t}
  <2>1. Head(dirQ) \in Range(dirQ)  BY <1>1, TailRange
  <2>2. IsInjective(Tail(dirQ)) /\ Range(Tail(dirQ)) = Range(dirQ) \ {Head(dirQ)}
    BY <1>1, <1>3, InjectiveTail
  <2> QED  BY <1>1, <2>1, <2>2
<1>5. t \in Waiting /\ t \in inFlight /\ trans[t].act = "none" /\ t <= issued
      /\ Waiting' = Waiting \ {t}
  BY <1>1, <1>3, <1>4 DEF Waiting
<1>6. \A r \in Place : t \notin Held[r]
  BY <1>5, ActsAre DEF RequestsOK, PlacesOK
<1>7. /\ \A r \in Place : \A u \in Req : u \in Held'[r] <=> u \in Held[r] \/ (u = t /\ r = "down")
      /\ \A u \in Req : u # t => SameTrans(u) /\ SameEntry(u)
      /\ trans'[t].act \in ActAt["down"] /\ trans'[t].act # "none" /\ trans'[t].way = w
      /\ trans'[t].orphan = trans[t].orphan
      /\ IF trans'[t].act \in Leads THEN entry'[t].reqs = <<t>> /\ entry'[t].way = w
                                    ELSE SameEntry(t)
  BY ActsAre, PlaceIs DEF Enters
<1>8. PlacesOK'
  <2>1. \A r, s \in Place : r # s => Held'[r] \cap Held'[s] = {}
    BY <1>2, <1>6, <1>7 DEF RequestsOK, PlacesOK
  <2>2. \A r \in Place : \A u \in Held'[r] : trans'[u].act \in ActAt[r]
    BY <1>2, <1>6, <1>7 DEF RequestsOK, PlacesOK, SameTrans
  <2> QED  BY <2>1, <2>2 DEF PlacesOK
<1>9. FrontOK'
  <2>1. Range(topPort') \cap Range(dirQ') = {} /\ Range(dirQ') \subseteq inFlight'
    BY <1>1, <1>3, <1>4
  <2>2. \A u \in Waiting' : u <= issued'  BY <1>1, <1>3, <1>5
  <2>3. \A u \in Req : u > issued' \/ u \in Waiting' => trans'[u].act = "none"
    <3>1. SUFFICES ASSUME NEW u \in Req, u > issued' \/ u \in Waiting'
                   PROVE  trans'[u].act = "none"
      OBVIOUS
    <3>2. u # t /\ (u > issued \/ u \in Waiting)
      <4>1. ~ (t > issued)  BY <1>1, <1>5, Sizes DEF Req
      <4> QED  BY <1>1, <1>5, <3>1, <4>1
    <3>3. trans[u].act = "none"  BY <3>2, Zenon DEF RequestsOK, FrontOK
    <3>4. SameTrans(u)  BY <1>7, <3>2
    <3> QED  BY <3>3, <3>4 DEF SameTrans
  <2> QED  BY <1>1, <1>3, <1>4, <2>1, <2>2, <2>3 DEF FrontOK
<1>10. JoinedOK'
  <2>1. ASSUME NEW e \in Req, NEW u \in Range(entry'[e].reqs)
        PROVE  u <= issued' /\ u \notin Waiting' /\ (u = e \/ trans'[u].act = "none")
    <3>1. CASE e = t /\ trans'[t].act \in Leads
      <4>1. Range(entry'[e].reqs) = {t}  BY <1>7, <3>1 DEF Range
      <4> QED  BY <1>1, <1>5, <2>1, <3>1, <4>1
    <3>2. CASE ~ (e = t /\ trans'[t].act \in Leads)
      <4>1. entry'[e].reqs = entry[e].reqs  BY <1>7, <3>2 DEF SameEntry
      <4>2. u \in Range(entry[e].reqs) /\ u \in Req  BY <2>1, <4>1 DEF EntriesOK, Range
      <4>3. u <= issued /\ u \notin Waiting /\ (u = e \/ trans[u].act = "none")
        BY <4>2 DEF RequestsOK, JoinedOK
      <4>4. u # t  BY <1>5, <4>3
      <4> QED  BY <1>1, <1>5, <1>7, <4>2, <4>3, <4>4 DEF SameTrans
    <3> QED  BY <3>1, <3>2
  <2>2. ASSUME NEW r \in Place, NEW e \in Held'[r], trans'[e].act \in Leads
        PROVE  entry'[e].way = trans'[e].way /\ entry'[e].reqs # <<>>
    <3>1. e \in Req  BY <1>2
    <3>2. CASE e = t
      <4>1. trans'[t].act \in Leads  BY <2>2, <3>2
      <4>2. entry'[t].reqs = <<t>> /\ entry'[t].way = w /\ trans'[t].way = w  BY <1>7, <4>1
      <4>3. <<t>> # <<>>  OBVIOUS
      <4> QED  BY <3>2, <4>2, <4>3
    <3>3. CASE e # t
      <4>1. e \in Held[r] /\ SameTrans(e) /\ SameEntry(e)  BY <1>7, <3>1, <3>3
      <4>2. entry[e].way = trans[e].way /\ entry[e].reqs # <<>>
        BY <2>2, <4>1 DEF RequestsOK, JoinedOK, SameTrans
      <4> QED  BY <4>1, <4>2 DEF SameTrans, SameEntry
    <3> QED  BY <3>2, <3>3
  <2> QED  BY <2>1, <2>2 DEF JoinedOK
<1>11. OrphansOK'
  <2>1. ~ trans[t].orphan  BY <1>5 DEF RequestsOK, OrphansOK
  <2> QED  BY <1>1, <1>7, <2>1 DEF RequestsOK, OrphansOK, SameTrans
<1>12. ASSUME NEW v \in Way, blocks'[v].locked
       PROVE  \E u \in Req : Owns(u, v)'
  <2>1. CASE blocks[v].locked
    <3>1. PICK u \in Req : Owns(u, v)  BY <2>1 DEF RequestsOK, LocksOK
    <3>2. PICK r \in BusyPlace : u \in Held[r]  BY <3>1 DEF Owns
    <3>3. u # t /\ r \in Place  BY <1>6, <3>2, PlaceIs
    <3>4. u \in Held'[r] /\ SameTrans(u)  BY <1>7, <3>2, <3>3
    <3>5. Owns(u, v)'  BY <1>1, <3>1, <3>4 DEF Owns, SameTrans
    <3> QED  BY <3>5
  <2>2. CASE ~ blocks[v].locked
    <3>1. v = w /\ trans'[t].act # "readHit"  BY <1>12, <2>2 DEF Locks
    <3>2. t \in Held'["down"] /\ "down" \in BusyPlace  BY <1>7, PlaceIs
    <3>3. Owns(t, v)'  BY <1>1, <1>5, <1>7, <3>1, <3>2 DEF Owns
    <3> QED  BY <3>3
  <2> QED  BY <2>1, <2>2
<1>13. ASSUME NEW v \in Way
       PROVE  blocks'[v].readers = Cardinality(ReadsOf(v)')
  <2>1. blocks[v].readers = Cardinality(ReadsOf(v))  BY DEF RequestsOK, LocksOK
  <2>2. t \notin ReadsOf(v) /\ ReadsOf(v) \subseteq Req /\ IsFiniteSet(ReadsOf(v))
    <3>1. IsFiniteSet(Req)  BY Sizes, FS_Interval DEF Req
    <3>2. ReadsOf(v) \subseteq Req  BY <1>1 DEF ReadsOf
    <3> QED  BY <1>5, <3>1, <3>2, FS_Subset DEF ReadsOf
  <2>3. CASE v = w /\ trans'[t].act = "readHit"
    <3>1. ReadsOf(v)' = ReadsOf(v) \cup {t}
      BY <1>1, <1>5, <1>7, <2>3 DEF ReadsOf, SameTrans
    <3>2. Cardinality(ReadsOf(v) \cup {t}) = Cardinality(ReadsOf(v)) + 1
      BY <2>2, FS_AddElement
    <3> QED  BY <2>1, <2>3, <3>1, <3>2 DEF Locks
  <2>4. CASE ~ (v = w /\ trans'[t].act = "readHit")
    <3>1. ReadsOf(v)' = ReadsOf(v)
      BY <1>1, <1>5, <1>7, <2>4 DEF ReadsOf, SameTrans
    <3> QED  BY <2>1, <2>4, <3>1 DEF Locks
  <2> QED  BY <2>3, <2>4
<1>14. ASSUME NEW r \in BankPlace, NEW u \in Held'[r], trans'[u].act = "readHit"
       PROVE  u \in inFlight'
  <2>1. r \in Place /\ u \in Req  BY <1>2, PlaceIs
  <2>2. CASE u = t  BY <1>1, <1>5, <2>2
  <2>3. CASE u # t
    <3>1. u \in Held[r] /\ trans[u].act = "readHit"  BY <1>7, <1>14, <2>1, <2>3 DEF SameTrans
    <3> QED  BY <1>1, <3>1 DEF RequestsOK, LocksOK
  <2> QED  BY <2>2, <2>3
<1>15. LocksOK'  BY <1>12, <1>13, <1>14 DEF LocksOK
<1>16. QuietOK'  BY <1>1 DEF RequestsOK, QuietOK
<1> QED  BY <1>8, <1>9, <1>10, <1>11, <1>15, <1>16 DEF RequestsOK

\* A read or a write that hit is answered at the end of the bank, and leaves its block.
Leaves(t) ==
    /\ t \in Held["post"] /\ trans[t].act \in {"readHit", "writeHit"}
    /\ inFlight' = inFlight \ {t} /\ UNCHANGED <<issued, topPort, dirQ, cstate>>
    /\ \A r \in Place : \A u \in Req : u \in Held'[r] <=> u \in Held[r] /\ u # t
    /\ \A u \in Req : SameTrans(u)
    /\ SameEntries
    /\ \A v \in Way :
           /\ blocks'[v].locked => blocks[v].locked
                                   /\ (trans[t].act = "readHit" \/ v # trans[t].way)
           /\ blocks'[v].readers = IF v = trans[t].way /\ trans[t].act = "readHit"
                                   THEN blocks[v].readers - 1 ELSE blocks[v].readers

\* The front of the cache keeps what it knows of the requests when one leaves that it has
\* looked up.
LEMMA FrontLoses ==
    ASSUME BuffersOK, FrontOK, OrphansOK, NEW x, x \notin Range(dirQ),
           inFlight' = inFlight \ {x}, UNCHANGED <<issued, topPort, dirQ>>,
           \A u \in Req : SameTrans(u)
    PROVE  FrontOK' /\ OrphansOK' /\ Waiting' = Waiting
<1>1. topPort' = topPort /\ dirQ' = dirQ /\ issued' = issued  OBVIOUS
<1>2. Waiting' = Waiting  BY <1>1 DEF Waiting
<1>3. FrontOK'  BY <1>1, <1>2 DEF FrontOK, SameTrans
<1>4. OrphansOK'  BY DEF OrphansOK, SameTrans
<1> QED  BY <1>2, <1>3, <1>4

LEMMA LeaveStep ==
    ASSUME BuffersOK, BuffersOK', BlocksOK, EntriesOK, RequestsOK, NEW t \in Req, Leaves(t)
    PROVE  RequestsOK'
<1>1. inFlight' = inFlight \ {t} /\ inFlight \subseteq Req /\ topPort' = topPort /\ dirQ' = dirQ
      /\ issued' = issued /\ cstate' = cstate /\ t \in Held["post"]
      /\ trans[t].act \in {"readHit", "writeHit"}
  BY DEF Leaves, BuffersOK
<1>2. \A r \in Place : Held[r] \subseteq Req /\ Held'[r] \subseteq Req  BY HeldReq, HeldReqNext
<1>3. /\ \A r \in Place : \A u \in Req : u \in Held'[r] <=> u \in Held[r] /\ u # t
      /\ \A u \in Req : SameTrans(u)
      /\ SameEntries
  BY DEF Leaves
<1>4. t \notin Range(dirQ)  BY <1>1 DEF RequestsOK, FrontOK, Waiting
<1>5. FrontOK' /\ OrphansOK' /\ Waiting' = Waiting
  BY <1>1, <1>3, <1>4, FrontLoses DEF RequestsOK
<1>6. PlacesOK'  BY <1>2, <1>3 DEF RequestsOK, PlacesOK, SameTrans
<1>7. JoinedOK'
  <2>1. \A e \in Req : entry'[e].reqs = entry[e].reqs /\ entry'[e].way = entry[e].way
    BY <1>3 DEF SameEntries, SameEntry
  <2>2. ASSUME NEW e \in Req, NEW u \in Range(entry'[e].reqs)
        PROVE  u <= issued' /\ u \notin Waiting' /\ (u = e \/ trans'[u].act = "none")
    <3>1. u \in Range(entry[e].reqs) /\ u \in Req  BY <2>1 DEF EntriesOK, Range
    <3> QED  BY <1>1, <1>3, <1>5, <3>1 DEF RequestsOK, JoinedOK, SameTrans
  <2>3. ASSUME NEW r \in Place, NEW e \in Held'[r], trans'[e].act \in Leads
        PROVE  entry'[e].way = trans'[e].way /\ entry'[e].reqs # <<>>
    <3>1. e \in Req  BY <1>2
    <3>2. e \in Held[r] /\ trans[e].act \in Leads /\ trans'[e].way = trans[e].way
      BY <1>3, <2>3, <3>1 DEF SameTrans
    <3>3. entry[e].way = trans[e].way /\ entry[e].reqs # <<>>  BY <3>2 DEF RequestsOK, JoinedOK
    <3> QED  BY <2>1, <3>1, <3>2, <3>3
  <2> QED  BY <2>2, <2>3 DEF JoinedOK
<1>8. ASSUME NEW v \in Way, blocks'[v].locked
      PROVE  \E u \in Req : Owns(u, v)'
  <2>1. blocks[v].locked /\ (trans[t].act = "readHit" \/ v # trans[t].way)
    BY <1>8 DEF Leaves
  <2>2. PICK u \in Req : Owns(u, v)  BY <2>1 DEF RequestsOK, LocksOK
  <2>3. u # t  BY <2>1, <2>2 DEF Owns
  <2>4. PICK r \in BusyPlace : u \in Held[r]  BY <2>2 DEF Owns
  <2>5. u \in Held'[r] /\ SameTrans(u)  BY <1>3, <2>3, <2>4, PlaceIs
  <2>6. Owns(u, v)'  BY <1>1, <2>2, <2>3, <2>5 DEF Owns, SameTrans
  <2> QED  BY <2>6
<1>9. ASSUME NEW v \in Way
      PROVE  blocks'[v].readers = Cardinality(ReadsOf(v)')
  <2>1. blocks[v].readers = Cardinality(ReadsOf(v))  BY DEF RequestsOK, LocksOK
  <2>2. ReadsOf(v)' = ReadsOf(v) \ {t}  BY <1>1, <1>3 DEF ReadsOf, SameTrans
  <2>3. CASE v = trans[t].way /\ trans[t].act = "readHit"
    <3>1. "post" \in BankPlace  BY PlaceIs
    <3>2. t \in ReadsOf(v)  BY <1>1, <2>3, <3>1 DEF RequestsOK, LocksOK, ReadsOf
    <3>3. IsFiniteSet(ReadsOf(v))
      <4>1. IsFiniteSet(Req)  BY Sizes, FS_Interval DEF Req
      <4>2. ReadsOf(v) \subseteq Req  BY <1>1 DEF ReadsOf
      <4> QED  BY <4>1, <4>2, FS_Subset
    <3>4. Cardinality(ReadsOf(v) \ {t}) = Cardinality(ReadsOf(v)) - 1
      BY <3>2, <3>3, FS_RemoveElement
    <3> QED  BY <2>1, <2>2, <2>3, <3>4 DEF Leaves
  <2>4. CASE ~ (v = trans[t].way /\ trans[t].act = "readHit")
    <3>1. ReadsOf(v) \ {t} = ReadsOf(v)  BY <2>4 DEF ReadsOf
    <3> QED  BY <2>1, <2>2, <2>4, <3>1 DEF Leaves
  <2> QED  BY <2>3, <2>4
<1>10. ASSUME NEW r \in BankPlace, NEW u \in Held'[r], trans'[u].act = "readHit"
       PROVE  u \in inFlight'
  <2>1. r \in Place /\ u \in Req  BY <1>2, PlaceIs
  <2>2. u \in Held[r] /\ u # t /\ trans[u].act = "readHit"  BY <1>3, <1>10, <2>1 DEF SameTrans
  <2> QED  BY <1>1, <2>2 DEF RequestsOK, LocksOK
<1>11. LocksOK'  BY <1>8, <1>9, <1>10 DEF LocksOK
<1>12. QuietOK'  BY <1>1 DEF RequestsOK, QuietOK
<1> QED  BY <1>5, <1>6, <1>7, <1>11, <1>12 DEF RequestsOK

\* The data of an entry are written to the bank: its way is unlocked and its requests can be
\* answered.
Fills(t) ==
    /\ trans[t].act = "fetched"
    /\ Moves(t, "post", "ready")
    /\ \A u \in Req : SameTrans(u)
    /\ SameEntries /\ SameFront
    /\ \A v \in Way : /\ blocks'[v].readers = blocks[v].readers
                      /\ blocks'[v].locked => blocks[v].locked /\ (trans[t].orphan \/ v # entry[t].way)

LEMMA FillStep ==
    ASSUME BuffersOK, BuffersOK', EntriesOK, RequestsOK, NEW t \in Req, Fills(t)
    PROVE  RequestsOK'
<1>1. inFlight' = inFlight /\ inFlight \subseteq Req /\ topPort' = topPort /\ dirQ' = dirQ
      /\ issued' = issued /\ cstate' = cstate /\ t \in Held["post"] /\ trans[t].act = "fetched"
  BY DEF Fills, Moves, SameFront, BuffersOK
<1>2. \A r \in Place : Held[r] \subseteq Req /\ Held'[r] \subseteq Req  BY HeldReq, HeldReqNext
<1>3. /\ \A r \in Place : \A u \in Req :
             u \in Held'[r] <=> IF u = t THEN r = "ready" ELSE u \in Held[r]
      /\ \A u \in Req : SameTrans(u)
      /\ SameEntries
  BY DEF Fills, Moves
<1>4. "post" \in Place /\ "ready" \in Place /\ "ready" \notin BankPlace  BY PlaceIs
<1>5. PlacesOK'
  <2>1. \A r, s \in Place : r # s => Held'[r] \cap Held'[s] = {}
    BY <1>2, <1>3 DEF RequestsOK, PlacesOK
  <2>2. \A r \in Place : \A u \in Held'[r] : trans'[u].act \in ActAt[r]
    BY <1>1, <1>2, <1>3, ActsAre DEF RequestsOK, PlacesOK, SameTrans
  <2> QED  BY <2>1, <2>2 DEF PlacesOK
<1>6. Waiting' = Waiting  BY <1>1 DEF Waiting
<1>7. FrontOK'  BY <1>1, <1>3, <1>6 DEF RequestsOK, FrontOK, SameTrans
<1>8. OrphansOK'  BY <1>1, <1>3 DEF RequestsOK, OrphansOK, SameTrans
<1>9. JoinedOK'
  <2>1. \A e \in Req : entry'[e].reqs = entry[e].reqs /\ entry'[e].way = entry[e].way
    BY <1>3 DEF SameEntries, SameEntry
  <2>2. ASSUME NEW e \in Req, NEW u \in Range(entry'[e].reqs)
        PROVE  u <= issued' /\ u \notin Waiting' /\ (u = e \/ trans'[u].act = "none")
    <3>1. u \in Range(entry[e].reqs) /\ u \in Req  BY <2>1 DEF EntriesOK, Range
    <3> QED  BY <1>1, <1>3, <1>6, <3>1 DEF RequestsOK, JoinedOK, SameTrans
  <2>3. ASSUME NEW r \in Place, NEW e \in Held'[r], trans'[e].act \in Leads
        PROVE  entry'[e].way = trans'[e].way /\ entry'[e].reqs # <<>>
    <3>1. e \in Req  BY <1>2
    <3>2. trans[e].act \in Leads /\ trans'[e].way = trans[e].way
      BY <1>3, <2>3, <3>1 DEF SameTrans
    <3>3. \E s \in Place : e \in Held[s]  BY <1>1, <1>3, <1>4, <3>1
    <3>4. entry[e].way = trans[e].way /\ entry[e].reqs # <<>>
      BY <3>2, <3>3 DEF RequestsOK, JoinedOK
    <3> QED  BY <2>1, <3>1, <3>2, <3>4
  <2> QED  BY <2>2, <2>3 DEF JoinedOK
<1>10. ASSUME NEW v \in Way, blocks'[v].locked
       PROVE  \E u \in Req : Owns(u, v)'
  <2>1. blocks[v].locked /\ (trans[t].orphan \/ v # entry[t].way)  BY <1>10 DEF Fills
  <2>2. PICK u \in Req : Owns(u, v)  BY <2>1 DEF RequestsOK, LocksOK
  <2>3. u # t
    <3>1. trans[t].orphan => t \notin inFlight  BY DEF RequestsOK, OrphansOK
    <3>2. entry[t].way = trans[t].way  BY <1>1, <1>4 DEF RequestsOK, JoinedOK, Leads
    <3> QED  BY <2>1, <2>2, <3>1, <3>2 DEF Owns
  <2>4. PICK r \in BusyPlace : u \in Held[r]  BY <2>2 DEF Owns
  <2>5. u \in Held'[r] /\ SameTrans(u)  BY <1>3, <2>3, <2>4, PlaceIs
  <2>6. Owns(u, v)'  BY <1>1, <2>2, <2>5 DEF Owns, SameTrans
  <2> QED  BY <2>6
<1>11. ASSUME NEW v \in Way
       PROVE  blocks'[v].readers = Cardinality(ReadsOf(v)')
  <2>1. ReadsOf(v)' = ReadsOf(v)  BY <1>1, <1>3 DEF ReadsOf, SameTrans
  <2> QED  BY <2>1 DEF RequestsOK, LocksOK, Fills
<1>12. ASSUME NEW r \in BankPlace, NEW u \in Held'[r], trans'[u].act = "readHit"
       PROVE  u \in inFlight'
  <2>1. r \in Place /\ u \in Req /\ r # "ready"  BY <1>2, <1>4, PlaceIs
  <2>2. u \in Held[r] /\ trans[u].act = "readHit"  BY <1>3, <1>12, <2>1 DEF SameTrans
  <2> QED  BY <1>1, <2>2 DEF RequestsOK, LocksOK
<1>13. LocksOK'  BY <1>10, <1>11, <1>12 DEF LocksOK
<1>14. QuietOK'  BY <1>1 DEF RequestsOK, QuietOK
<1> QED  BY <1>5, <1>7, <1>8, <1>9, <1>13, <1>14 DEF RequestsOK

\* The first request of an entry is answered, and the entry stays while it has another.
Serves(e, t) ==
    /\ e \in Held["ready"] \cup Held["serve"]
    /\ t = Head(entry[e].reqs) /\ inFlight' = inFlight \ {t}
    /\ UNCHANGED <<issued, topPort, dirQ, cstate>>
    /\ \A r \in Place : \A u \in Req : u \in Held'[r] <=>
           IF u = e THEN r = "serve" /\ Len(entry[e].reqs) > 1 ELSE u \in Held[r]
    /\ \A u \in Req : SameTrans(u)
    /\ entry'[e].reqs = Tail(entry[e].reqs) /\ entry'[e].way = entry[e].way
    /\ \A u \in Req : u # e => SameEntry(u)
    /\ SameBlocks

LEMMA ServeStep ==
    ASSUME BuffersOK, BuffersOK', EntriesOK, EntriesOK', RequestsOK, NEW e \in Req, NEW t, Serves(e, t)
    PROVE  RequestsOK'
<1>1. /\ inFlight' = inFlight \ {t} /\ inFlight \subseteq Req /\ topPort' = topPort /\ dirQ' = dirQ
      /\ issued' = issued /\ cstate' = cstate /\ t = Head(entry[e].reqs)
      /\ entry'[e].reqs = Tail(entry[e].reqs) /\ entry'[e].way = entry[e].way
      /\ \A u \in Req : SameTrans(u)
      /\ \A u \in Req : u # e => SameEntry(u)
      /\ \A r \in Place : \A u \in Req : u \in Held'[r] <=>
             IF u = e THEN r = "serve" /\ Len(entry[e].reqs) > 1 ELSE u \in Held[r]
  BY DEF Serves, BuffersOK
<1>2. \A r \in Place : Held[r] \subseteq Req /\ Held'[r] \subseteq Req  BY HeldReq, HeldReqNext
<1>3. PICK p \in {"ready", "serve"} : e \in Held[p]  BY DEF Serves
<1>4. /\ p \in Place /\ "serve" \in Place /\ p \notin BusyPlace /\ "serve" \notin BankPlace
      /\ trans[e].act = "fetched" /\ \A r \in BusyPlace : e \notin Held[r]
  <2>1. p \in Place /\ "serve" \in Place /\ p \notin BusyPlace /\ "serve" \notin BankPlace
    BY PlaceIs
  <2>2. trans[e].act = "fetched"  BY <1>3, <2>1, ActsAre DEF RequestsOK, PlacesOK
  <2>3. \A r \in BusyPlace : r \in Place /\ r # p  BY <2>1, PlaceIs
  <2> QED  BY <1>3, <2>1, <2>2, <2>3 DEF RequestsOK, PlacesOK
<1>5. /\ entry[e].reqs \in Seq(Req) /\ entry[e].reqs # <<>>
      /\ t \in Range(entry[e].reqs) /\ t \in Req
      /\ Range(Tail(entry[e].reqs)) \subseteq Range(entry[e].reqs)
  <2>1. entry[e].reqs \in Seq(Req) /\ entry[e].reqs # <<>>
    BY <1>3, <1>4 DEF EntriesOK, RequestsOK, JoinedOK, Leads
  <2>2. Head(entry[e].reqs) \in Req  BY <2>1, TailElements
  <2>3. /\ Head(entry[e].reqs) \in Range(entry[e].reqs)
        /\ Range(entry[e].reqs) = Range(Tail(entry[e].reqs)) \cup {Head(entry[e].reqs)}
    BY <2>1, TailRange
  <2> QED  BY <1>1, <2>1, <2>2, <2>3
<1>6. /\ t \notin Waiting /\ t \notin Range(dirQ) /\ trans[t].act # "readHit"
      /\ \A r \in BusyPlace : t \notin Held[r]
  <2>1. t \notin Waiting /\ (t = e \/ trans[t].act = "none")  BY <1>5 DEF RequestsOK, JoinedOK
  <2>2. trans[t].act = "none" => \A r \in Place : t \notin Held[r]
    BY ActsAre DEF RequestsOK, PlacesOK
  <2>3. trans[t].act # "readHit"  BY <1>4, <2>1
  <2>4. \A r \in BusyPlace : t \notin Held[r]  BY <1>4, <2>1, <2>2, PlaceIs
  <2> QED  BY <2>1, <2>3, <2>4 DEF Waiting
<1>7. PlacesOK'
  <2>1. \A r, s \in Place : r # s => Held'[r] \cap Held'[s] = {}
    BY <1>1, <1>2 DEF RequestsOK, PlacesOK
  <2>2. ASSUME NEW r \in Place, NEW u \in Held'[r]
        PROVE  trans'[u].act \in ActAt[r]
    <3>1. u \in Req /\ SameTrans(u)  BY <1>1, <1>2
    <3>2. CASE u = e
      <4>1. r = "serve"  BY <1>1, <2>2, <3>1, <3>2
      <4> QED  BY <1>4, <3>1, <3>2, <4>1, ActsAre DEF SameTrans
    <3>3. CASE u # e
      <4>1. u \in Held[r]  BY <1>1, <2>2, <3>1, <3>3
      <4> QED  BY <3>1, <4>1 DEF SameTrans, RequestsOK, PlacesOK
    <3> QED  BY <3>2, <3>3
  <2> QED  BY <2>1, <2>2 DEF PlacesOK
<1>8. FrontOK' /\ OrphansOK' /\ Waiting' = Waiting
  BY <1>1, <1>6, FrontLoses DEF RequestsOK
<1>9. JoinedOK'
  <2>1. ASSUME NEW d \in Req, NEW u \in Range(entry'[d].reqs)
        PROVE  u <= issued' /\ u \notin Waiting' /\ (u = d \/ trans'[u].act = "none")
    <3>1. u \in Range(entry[d].reqs)
      <4>1. CASE d = e  BY <1>1, <1>5, <2>1, <4>1
      <4>2. CASE d # e  BY <1>1, <2>1, <4>2 DEF SameEntry
      <4> QED  BY <4>1, <4>2
    <3>2. u \in Req  BY <3>1 DEF EntriesOK, Range
    <3> QED  BY <1>1, <1>8, <3>1, <3>2 DEF RequestsOK, JoinedOK, SameTrans
  <2>2. ASSUME NEW r \in Place, NEW d \in Held'[r], trans'[d].act \in Leads
        PROVE  entry'[d].way = trans'[d].way /\ entry'[d].reqs # <<>>
    <3>1. d \in Req /\ SameTrans(d)  BY <1>1, <1>2
    <3>2. CASE d = e
      <4>1. Len(entry[e].reqs) > 1  BY <1>1, <2>2, <3>1, <3>2
      <4>2. Tail(entry[e].reqs) # <<>>  BY <1>5, <4>1, LongTail
      <4>3. entry[e].way = trans[e].way  BY <1>3, <1>4 DEF RequestsOK, JoinedOK, Leads
      <4> QED  BY <1>1, <3>1, <3>2, <4>2, <4>3 DEF SameTrans
    <3>3. CASE d # e
      <4>1. d \in Held[r] /\ SameEntry(d)  BY <1>1, <2>2, <3>1, <3>3
      <4>2. entry[d].way = trans[d].way /\ entry[d].reqs # <<>>
        BY <2>2, <3>1, <4>1 DEF RequestsOK, JoinedOK, SameTrans
      <4> QED  BY <3>1, <4>1, <4>2 DEF SameTrans, SameEntry
    <3> QED  BY <3>2, <3>3
  <2> QED  BY <2>1, <2>2 DEF JoinedOK
<1>10. ASSUME NEW v \in Way, blocks'[v].locked
       PROVE  \E u \in Req : Owns(u, v)'
  <2>1. blocks[v].locked  BY <1>10 DEF Serves, SameBlocks
  <2>2. PICK u \in Req : Owns(u, v)  BY <2>1 DEF RequestsOK, LocksOK
  <2>3. PICK r \in BusyPlace : u \in Held[r]  BY <2>2 DEF Owns
  <2>4. u # e /\ u # t  BY <1>4, <1>6, <2>3
  <2>5. u \in Held'[r] /\ SameTrans(u)  BY <1>1, <2>3, <2>4, PlaceIs
  <2>6. Owns(u, v)'  BY <1>1, <2>2, <2>4, <2>5 DEF Owns, SameTrans
  <2> QED  BY <2>6
<1>11. ASSUME NEW v \in Way
       PROVE  blocks'[v].readers = Cardinality(ReadsOf(v)')
  <2>1. ReadsOf(v)' = ReadsOf(v)  BY <1>1, <1>6 DEF ReadsOf, SameTrans
  <2> QED  BY <2>1 DEF RequestsOK, LocksOK, Serves, SameBlocks
<1>12. ASSUME NEW r \in BankPlace, NEW u \in Held'[r], trans'[u].act = "readHit"
       PROVE  u \in inFlight'
  <2>1. r \in Place /\ u \in Req /\ r # "serve"  BY <1>2, <1>4, PlaceIs
  <2>2. u \in Held[r] /\ trans[u].act = "readHit"  BY <1>1, <1>12, <2>1 DEF SameTrans
  <2>3. u # t  BY <1>6, <2>2
  <2> QED  BY <1>1, <2>2, <2>3 DEF RequestsOK, LocksOK
<1>13. LocksOK'  BY <1>10, <1>11, <1>12 DEF LocksOK
<1>14. QuietOK'  BY <1>1 DEF RequestsOK, QuietOK
<1> QED  BY <1>7, <1>8, <1>9, <1>13, <1>14 DEF RequestsOK

-------------------------------------------------------------------------------
\* The agent, memory and the command processor.

\* All that the invariant is about.
cacheState == <<trans, blocks, entry, issued, topPort, dirQ, inFlight, dirToBank, bank, post,
                wbQ, wbToBank, mshrQ, processing, mshr, fetching, pending, toMem, botIn, cstate, toEvict>>

LEMMA NothingStep ==
    ASSUME LockInv, UNCHANGED cacheState
    PROVE  LockInv'
<1>1. /\ trans' = trans /\ blocks' = blocks /\ entry' = entry /\ issued' = issued
      /\ topPort' = topPort /\ dirQ' = dirQ /\ inFlight' = inFlight /\ dirToBank' = dirToBank
      /\ bank' = bank /\ post' = post /\ wbQ' = wbQ /\ wbToBank' = wbToBank /\ mshrQ' = mshrQ
      /\ processing' = processing /\ mshr' = mshr /\ fetching' = fetching /\ pending' = pending
      /\ toMem' = toMem /\ botIn' = botIn /\ cstate' = cstate /\ toEvict' = toEvict
  BY DEF cacheState
<1>2. BlocksOK' /\ TransOK' /\ EntriesOK'  BY <1>1 DEF LockInv, TypesOK, BlocksOK, TransOK, EntriesOK
<1>3. BuffersOK'  BY <1>1 DEF LockInv, TypesOK, BuffersOK
<1>4. OnceOK'  BY <1>1 DEF LockInv, OnceOK
<1>5. MemoryOK'  BY <1>1 DEF LockInv, MemoryOK, Reads, IsData
<1>6. Held' = Held  BY <1>1 DEF Held
<1>7. RequestsOK'
  <2>1. BuffersOK /\ EntriesOK /\ RequestsOK  BY DEF LockInv, TypesOK, RequestsOK
  <2>2. (\A t \in Req : SameTrans(t)) /\ SameEntries /\ SameBlocks /\ SameFront
    BY <1>1 DEF SameTrans, SameEntries, SameEntry, SameBlocks, SameFront
  <2> QED  BY <1>6, <2>1, <2>2, StayStep
<1> QED  BY <1>2, <1>3, <1>4, <1>5, <1>7 DEF LockInv, TypesOK, RequestsOK

\* LockInv is that: what a step has to show.
LEMMA InvParts ==
    ASSUME LockInv
    PROVE  /\ BlocksOK /\ TransOK /\ EntriesOK /\ BuffersOK /\ OnceOK /\ MemoryOK /\ RequestsOK
           /\ PlacesOK /\ FrontOK /\ JoinedOK /\ OrphansOK /\ LocksOK /\ QuietOK
  BY DEF LockInv, TypesOK, RequestsOK

LEMMA InvWhole ==
    ASSUME BlocksOK', TransOK', EntriesOK', BuffersOK', OnceOK', MemoryOK', RequestsOK'
    PROVE  LockInv'
  BY DEF LockInv, TypesOK, RequestsOK

\* A buffer of anything.
LEMMA AnySeq ==
    ASSUME NEW q, q \in Seq(Range(q))
    PROVE  /\ \A e : Append(q, e) \in Seq(Range(Append(q, e)))
           /\ q # <<>> => Tail(q) \in Seq(Range(Tail(q)))
<1>1. ASSUME NEW e PROVE Append(q, e) \in Seq(Range(Append(q, e)))
  <2> DEFINE S == Range(q) \cup {e}
  <2>1. q \in Seq(S) /\ e \in S  OBVIOUS
  <2> HIDE DEF S
  <2>2. Range(Append(q, e)) = Range(q) \cup {e}  BY <2>1, AppendRange
  <2>3. Append(q, e) \in Seq(S)  BY <2>1, AppendElements
  <2> QED  BY <2>2, <2>3 DEF S
<1>2. ASSUME q # <<>> PROVE Tail(q) \in Seq(Range(Tail(q)))
  <2> DEFINE S == Range(q)  r == Tail(q)
  <2>1. q \in Seq(S)  OBVIOUS
  <2> HIDE DEF S
  <2>2. r \in Seq(S)  BY <1>2, <2>1, TailElements
  <2> HIDE DEF r
  <2>3. \A i \in 1 .. Len(r) : r[i] \in Range(r)
    <3>1. DOMAIN r = 1 .. Len(r)  BY <2>2, SeqType
    <3> QED  BY <3>1, Zenon DEF Range
  <2>4. r \in Seq(Range(r))  BY <2>2, <2>3
  <2> QED  BY <2>4 DEF r
<1> QED  BY <1>1, <1>2

LEMMA AgentSendOK ==
    ASSUME LockInv, AgentSend
    PROVE  LockInv'
<1> DEFINE t == issued + 1
<1>1. /\ trans' = trans /\ blocks' = blocks /\ entry' = entry /\ issued' = issued + 1
      /\ topPort' = Append(topPort, issued + 1) /\ dirQ' = dirQ /\ inFlight' = inFlight
      /\ dirToBank' = dirToBank /\ bank' = bank /\ post' = post /\ wbQ' = wbQ
      /\ wbToBank' = wbToBank /\ mshrQ' = mshrQ /\ processing' = processing /\ mshr' = mshr
      /\ fetching' = fetching /\ pending' = pending /\ toMem' = toMem /\ botIn' = botIn
      /\ cstate' = cstate /\ toEvict' = toEvict /\ issued < MaxReq
  BY DEF AgentSend, dirVars, bankVars, mshrVars, wbVars, memPorts, flushVars
<1>2. BlocksOK /\ TransOK /\ EntriesOK /\ BuffersOK /\ OnceOK /\ MemoryOK /\ RequestsOK
      /\ PlacesOK /\ FrontOK /\ JoinedOK /\ OrphansOK /\ LocksOK /\ QuietOK
  BY InvParts
<1>3. issued \in Nat /\ t \in Req /\ t > issued /\ issued' = t /\ topPort \in Seq(Req)
  BY <1>1, <1>2, Sizes DEF BuffersOK, Req
<1>4. /\ \A u \in Waiting : u <= issued
      /\ t \notin Waiting
  BY <1>2, <1>3 DEF FrontOK
<1>5. /\ topPort' \in Seq(Req) /\ Range(topPort') = Range(topPort) \cup {t} /\ IsInjective(topPort')
  BY <1>1, <1>2, <1>3, <1>4, AppendElements, AppendRange, InjectiveAppend DEF FrontOK, Waiting
<1> HIDE DEF t
<1>6. BlocksOK' /\ TransOK' /\ EntriesOK'  BY <1>1, <1>2 DEF BlocksOK, TransOK, EntriesOK
<1>7. BuffersOK'
  <2>1. issued' \in 0 .. MaxReq  BY <1>3, Sizes DEF Req
  <2> QED  BY <1>1, <1>2, <1>5, <2>1 DEF BuffersOK
<1>8. OnceOK' /\ MemoryOK'  BY <1>1, <1>2 DEF OnceOK, MemoryOK, Reads, IsData
<1>9. Held' = Held  BY <1>1 DEF Held
<1>10. Waiting' = Waiting \cup {t}  BY <1>1, <1>5 DEF Waiting
<1>11. PlacesOK'  BY <1>1, <1>2, <1>9 DEF PlacesOK
<1>12. FrontOK'
  <2>1. \A u \in Waiting' : u <= issued'
    <3>1. SUFFICES ASSUME NEW u \in Waiting PROVE u <= issued'
      <4>1. t <= issued'  BY <1>3, Sizes DEF Req
      <4> QED  BY <1>10, <4>1
    <3>2. u <= issued /\ u \in Req  BY <1>2, <1>4 DEF Waiting, BuffersOK, Range
    <3> QED  BY <1>1, <1>3, <3>2 DEF Req
  <2>2. \A u \in Req : u > issued' \/ u \in Waiting' => trans'[u].act = "none"
    <3>1. SUFFICES ASSUME NEW u \in Req, u > issued' \/ u \in Waiting'
                   PROVE  trans[u].act = "none"
      BY <1>1
    <3>2. u > issued \/ u \in Waiting  BY <1>1, <1>3, <1>10, <3>1 DEF Req
    <3> QED  BY <1>2, <3>2, Zenon DEF FrontOK
  <2>3. Range(topPort') \cap Range(dirQ') = {}
    BY <1>1, <1>2, <1>4, <1>5 DEF FrontOK, Waiting
  <2> QED  BY <1>1, <1>2, <1>5, <2>1, <2>2, <2>3 DEF FrontOK
<1>13. JoinedOK'
  <2>1. ASSUME NEW e \in Req, NEW u \in Range(entry'[e].reqs)
        PROVE  u <= issued' /\ u \notin Waiting' /\ (u = e \/ trans'[u].act = "none")
    <3>1. u \in Range(entry[e].reqs) /\ u \in Req  BY <1>1, <1>2 DEF EntriesOK, Range
    <3>2. u <= issued /\ u \notin Waiting /\ (u = e \/ trans[u].act = "none")
      BY <1>2, <3>1 DEF JoinedOK
    <3>3. u <= issued' /\ u # t  BY <1>1, <1>3, <3>1, <3>2 DEF Req
    <3> QED  BY <1>1, <1>10, <3>2, <3>3
  <2> QED  BY <1>1, <1>2, <1>9, <2>1 DEF JoinedOK
<1>14. OrphansOK' /\ QuietOK'  BY <1>1, <1>2 DEF OrphansOK, QuietOK
<1>15. LocksOK'  BY <1>1, <1>2, <1>9 DEF LocksOK, Owns, ReadsOf
<1> QED  BY <1>6, <1>7, <1>8, <1>11, <1>12, <1>13, <1>14, <1>15, InvWhole DEF RequestsOK

LEMMA AgentReceiveOK ==
    ASSUME LockInv, AgentReceive
    PROVE  LockInv'
<1>1. UNCHANGED cacheState
  BY DEF AgentReceive, dirVars, frontVars, bankVars, mshrVars, wbVars, memPorts, flushVars, cacheState
<1> QED  BY <1>1, NothingStep

LEMMA CpOK ==
    ASSUME LockInv, CpFlush \/ CpReceive
    PROVE  LockInv'
<1>1. UNCHANGED cacheState
  BY DEF CpFlush, CpReceive, cpOther, dirVars, frontVars, bankVars, mshrVars, wbVars, memPorts, cacheState
<1> QED  BY <1>1, NothingStep

\* A response of memory arrives: what the cache has read is answered once.
LEMMA MemServeOK ==
    ASSUME LockInv, MemServe
    PROVE  LockInv'
<1>1. /\ trans' = trans /\ blocks' = blocks /\ entry' = entry /\ issued' = issued
      /\ topPort' = topPort /\ dirQ' = dirQ /\ inFlight' = inFlight /\ dirToBank' = dirToBank
      /\ bank' = bank /\ post' = post /\ wbQ' = wbQ /\ wbToBank' = wbToBank /\ mshrQ' = mshrQ
      /\ processing' = processing /\ mshr' = mshr /\ fetching' = fetching /\ pending' = pending
      /\ cstate' = cstate /\ toEvict' = toEvict
  BY DEF MemServe, dirVars, frontVars, bankVars, mshrVars, wbVars, flushVars, agentVars
<1>2. BlocksOK /\ TransOK /\ EntriesOK /\ BuffersOK /\ OnceOK /\ MemoryOK /\ RequestsOK
  BY InvParts
<1>3. PICK m \in toMem : /\ toMem' = toMem \ {m}
                         /\ \E d : botIn' = Append(botIn,
                                [op |-> IF m.op = "read" THEN "data" ELSE "done", id |-> m.id, data |-> d])
  BY DEF MemServe
<1>4. PICK d : botIn' = Append(botIn,
                   [op |-> IF m.op = "read" THEN "data" ELSE "done", id |-> m.id, data |-> d])
  BY <1>3
<1> DEFINE x == [op |-> IF m.op = "read" THEN "data" ELSE "done", id |-> m.id, data |-> d]
           n == Len(botIn)
<1>5. x.id = m.id /\ (x.op = "data" <=> m.op = "read")  OBVIOUS
<1> HIDE DEF x
<1>6. /\ n \in Nat /\ DOMAIN botIn = 1 .. n /\ DOMAIN botIn' = 1 .. n + 1
      /\ botIn'[n + 1] = x /\ \A i \in 1 .. n : botIn'[i] = botIn[i]
      /\ botIn' \in Seq(Range(botIn'))
  <2> DEFINE S == Range(botIn) \cup {x}
  <2>1. botIn \in Seq(S) /\ x \in S  BY <1>2 DEF BuffersOK
  <2>2. botIn' = Append(botIn, x)  BY <1>4 DEF x
  <2>3. botIn' \in Seq(Range(botIn'))  BY <1>2, <2>2, AnySeq DEF BuffersOK
  <2> HIDE DEF S
  <2>4. botIn' \in Seq(S) /\ Len(botIn') = n + 1  BY <2>1, <2>2, AppendElements
  <2>5. n \in Nat /\ DOMAIN botIn = 1 .. n /\ DOMAIN botIn' = 1 .. n + 1
    BY <2>1, <2>4, SeqType
  <2>6. botIn'[n + 1] = x /\ \A i \in 1 .. n : botIn'[i] = botIn[i]
    BY <2>1, <2>2, AppendElements
  <2> QED  BY <2>3, <2>5, <2>6
<1> HIDE DEF n
<1>7. BlocksOK' /\ TransOK' /\ EntriesOK' /\ OnceOK'
  BY <1>1, <1>2 DEF BlocksOK, TransOK, EntriesOK, OnceOK
<1>8. BuffersOK'
  <2>1. toMem' \in SUBSET [op : {"read", "write"}, id : Trans]  BY <1>2, <1>3 DEF BuffersOK
  <2> QED  BY <1>1, <1>2, <1>6, <2>1 DEF BuffersOK
<1>9. MemoryOK'
  <2>1. toMem \subseteq [op : {"read", "write"}, id : Trans]  BY <1>2 DEF BuffersOK
  <2>2. \A y, z \in toMem : y.op = z.op /\ y.id = z.id => y = z
    <3>1. \A y \in toMem : y = [op |-> y.op, id |-> y.id]  BY <2>1
    <3> QED  BY <3>1
  <2>3. Reads' \subseteq Reads /\ (m.op = "read" => m.id \in Reads /\ m.id \notin Reads')
    BY <1>3, <2>2 DEF Reads
  <2>4. /\ Reads \subseteq fetching
        /\ \A i \in 1 .. n : botIn[i].op = "data" => botIn[i].id \in fetching /\ botIn[i].id \notin Reads
        /\ \A i, j \in 1 .. n : botIn[i].op = "data" /\ botIn[j].op = "data" /\ botIn[i].id = botIn[j].id
                                => i = j
    BY <1>2, <1>6 DEF MemoryOK, IsData
  <2>5. 1 .. n + 1 = 1 .. n \cup {n + 1}  BY <1>6
  <2>6. ASSUME NEW i \in 1 .. n + 1, botIn'[i].op = "data"
        PROVE  botIn'[i].id \in fetching' \ Reads'
    <3>1. CASE i \in 1 .. n  BY <1>1, <1>6, <2>3, <2>4, <2>6, <3>1
    <3>2. CASE i = n + 1  BY <1>1, <1>5, <1>6, <2>3, <2>4, <2>6, <3>2
    <3> QED  BY <2>5, <3>1, <3>2
  <2>7. ASSUME NEW i \in 1 .. n + 1, NEW j \in 1 .. n + 1, botIn'[i].op = "data", botIn'[j].op = "data",
               botIn'[i].id = botIn'[j].id
        PROVE  i = j
    <3>1. CASE i \in 1 .. n /\ j \in 1 .. n  BY <1>6, <2>4, <2>7, <3>1
    <3>2. CASE i \in 1 .. n /\ j = n + 1  BY <1>5, <1>6, <2>3, <2>4, <2>7, <3>2
    <3>3. CASE i = n + 1 /\ j \in 1 .. n  BY <1>5, <1>6, <2>3, <2>4, <2>7, <3>3
    <3> QED  BY <2>5, <3>1, <3>2, <3>3
  <2>8. Reads' \subseteq fetching'  BY <1>1, <2>3, <2>4
  <2> QED  BY <1>6, <2>6, <2>7, <2>8 DEF MemoryOK, IsData
<1>10. RequestsOK'
  <2>1. Held' = Held  BY <1>1 DEF Held
  <2>2. (\A t \in Req : SameTrans(t)) /\ SameEntries /\ SameBlocks /\ SameFront
    BY <1>1 DEF SameTrans, SameEntries, SameEntry, SameBlocks, SameFront
  <2> QED  BY <1>2, <2>1, <2>2, StayStep
<1> QED  BY <1>7, <1>8, <1>9, <1>10, InvWhole

-------------------------------------------------------------------------------
\* The front of the cache.

LEMMA TopParserOK ==
    ASSUME LockInv, TopParser, issued' = issued
    PROVE  LockInv'
<1> DEFINE t == Head(topPort)
<1>1. /\ trans' = trans /\ blocks' = blocks /\ entry' = entry /\ issued' = issued
      /\ topPort' = Tail(topPort) /\ dirQ' = Append(dirQ, t) /\ inFlight' = inFlight \cup {t}
      /\ dirToBank' = dirToBank /\ bank' = bank /\ post' = post /\ wbQ' = wbQ
      /\ wbToBank' = wbToBank /\ mshrQ' = mshrQ /\ processing' = processing /\ mshr' = mshr
      /\ fetching' = fetching /\ pending' = pending /\ toMem' = toMem /\ botIn' = botIn
      /\ cstate' = cstate /\ toEvict' = toEvict /\ cstate = "running" /\ topPort # <<>>
  BY DEF TopParser, dirVars, bankVars, mshrVars, wbVars, memPorts, flushVars
<1>2. BlocksOK /\ TransOK /\ EntriesOK /\ BuffersOK /\ OnceOK /\ MemoryOK /\ RequestsOK
      /\ PlacesOK /\ FrontOK /\ JoinedOK /\ OrphansOK /\ LocksOK /\ QuietOK
  BY InvParts
<1>3. topPort \in Seq(Req) /\ dirQ \in Seq(Req)  BY <1>2 DEF BuffersOK
<1>4. /\ IsInjective(topPort) /\ IsInjective(dirQ) /\ Range(topPort) \cap Range(dirQ) = {}
      /\ Range(dirQ) \subseteq inFlight
  BY <1>2 DEF FrontOK
<1>5. /\ t \in Req /\ t \in Range(topPort) /\ topPort' \in Seq(Req)
      /\ IsInjective(topPort') /\ Range(topPort') = Range(topPort) \ {t}
  BY <1>1, <1>3, <1>4, TailElements, TailRange, InjectiveTail
<1> HIDE DEF t
<1>6. dirQ' \in Seq(Req) /\ IsInjective(dirQ') /\ Range(dirQ') = Range(dirQ) \cup {t}
  <2>1. t \notin Range(dirQ)  BY <1>4, <1>5
  <2> QED  BY <1>1, <1>3, <1>4, <1>5, <2>1, AppendElements, AppendRange, InjectiveAppend
<1>7. Waiting' = Waiting /\ t \in Waiting  BY <1>5, <1>6 DEF Waiting
<1>8. trans[t].act = "none"  BY <1>2, <1>5, <1>7 DEF FrontOK
<1>9. BlocksOK' /\ TransOK' /\ EntriesOK'  BY <1>1, <1>2 DEF BlocksOK, TransOK, EntriesOK
<1>10. BuffersOK'
  <2>1. inFlight' \in SUBSET Req  BY <1>1, <1>2, <1>5 DEF BuffersOK
  <2> QED  BY <1>1, <1>2, <1>5, <1>6, <2>1 DEF BuffersOK
<1>11. OnceOK' /\ MemoryOK'  BY <1>1, <1>2 DEF OnceOK, MemoryOK, Reads, IsData
<1>12. Held' = Held  BY <1>1 DEF Held
<1>13. PlacesOK'  BY <1>1, <1>2, <1>12 DEF PlacesOK
<1>14. FrontOK'
  <2>1. Range(topPort') \cap Range(dirQ') = {} /\ Range(dirQ') \subseteq inFlight'
    BY <1>1, <1>4, <1>5, <1>6
  <2> QED  BY <1>1, <1>2, <1>5, <1>6, <1>7, <2>1 DEF FrontOK
<1>15. JoinedOK'  BY <1>1, <1>2, <1>7, <1>12 DEF JoinedOK
<1>16. OrphansOK' /\ QuietOK'  BY <1>1, <1>2, <1>8 DEF OrphansOK, QuietOK
<1>17. LocksOK'
  <2>1. \A w \in Way : ReadsOf(w)' = ReadsOf(w)  BY <1>1, <1>8 DEF ReadsOf
  <2>2. \A u \in Req, w \in Way : Owns(u, w) => Owns(u, w)'  BY <1>1, <1>12 DEF Owns
  <2>3. \A w \in Way : blocks'[w].locked => \E u \in Req : Owns(u, w)'
    BY <1>1, <1>2, <2>2 DEF LocksOK
  <2>4. \A w \in Way : blocks'[w].readers = Cardinality(ReadsOf(w)')
    BY <1>1, <1>2, <2>1 DEF LocksOK
  <2>5. \A p \in BankPlace : \A u \in Held'[p] : trans'[u].act = "readHit" => u \in inFlight'
    BY <1>1, <1>2, <1>12 DEF LocksOK
  <2> QED  BY <2>3, <2>4, <2>5 DEF LocksOK
<1> QED  BY <1>9, <1>10, <1>11, <1>13, <1>14, <1>15, <1>16, <1>17, InvWhole DEF RequestsOK

\* A request joins the entry of its line.
LEMMA MergeOK ==
    ASSUME LockInv, NEW t \in Req, DirMergeIntoEntry(t), issued' = issued
    PROVE  LockInv'
<1>1. /\ trans' = trans /\ blocks' = blocks /\ issued' = issued /\ topPort' = topPort
      /\ dirQ' = Tail(dirQ) /\ inFlight' = inFlight /\ dirToBank' = dirToBank
      /\ bank' = bank /\ post' = post /\ wbQ' = wbQ /\ wbToBank' = wbToBank /\ mshrQ' = mshrQ
      /\ processing' = processing /\ mshr' = mshr /\ fetching' = fetching /\ pending' = pending
      /\ toMem' = toMem /\ botIn' = botIn /\ cstate' = cstate /\ toEvict' = toEvict
      /\ dirQ # <<>> /\ t = Head(dirQ)
  BY DEF DirMergeIntoEntry, Looks, dirOther, dirVars, wbVars, memPorts, flushVars
<1>2. BlocksOK /\ TransOK /\ EntriesOK /\ BuffersOK /\ OnceOK /\ MemoryOK /\ RequestsOK
      /\ PlacesOK /\ FrontOK /\ JoinedOK /\ OrphansOK /\ LocksOK /\ QuietOK
  BY InvParts
<1>3. PICK e \in Req : entry' = [entry EXCEPT ![e].reqs = Append(@, t)]
  BY <1>2 DEF DirMergeIntoEntry, Query, BuffersOK
<1>4. /\ DOMAIN entry' = Req /\ \A d \in Req : DOMAIN entry'[d] = EntryField /\ entry'[d].way = entry[d].way
      /\ entry'[e].reqs = Append(entry[e].reqs, t)
      /\ \A d \in Req : d # e => entry'[d].reqs = entry[d].reqs
  BY <1>2, <1>3 DEF EntriesOK, EntryField
<1>5. /\ entry[e].reqs \in Seq(Req) /\ entry'[e].reqs \in Seq(Req) /\ entry'[e].reqs # <<>>
      /\ Range(entry'[e].reqs) = Range(entry[e].reqs) \cup {t}
  <2>1. entry[e].reqs \in Seq(Req)  BY <1>2 DEF EntriesOK
  <2>2. /\ Append(entry[e].reqs, t) \in Seq(Req) /\ Append(entry[e].reqs, t) # <<>>
        /\ Range(Append(entry[e].reqs, t)) = Range(entry[e].reqs) \cup {t}
    BY <2>1, AppendElements, AppendRange
  <2> QED  BY <1>4, <2>1, <2>2
<1>6. dirQ \in Seq(Req) /\ IsInjective(dirQ) /\ Range(topPort) \cap Range(dirQ) = {}
      /\ Range(dirQ) \subseteq inFlight
  BY <1>2 DEF BuffersOK, FrontOK
<1>7. /\ dirQ' \in Seq(Req) /\ t \in Range(dirQ) /\ IsInjective(dirQ') /\ Range(dirQ') = Range(dirQ) \ {t}
  BY <1>1, <1>6, TailElements, TailRange, InjectiveTail
<1>8. Waiting' = Waiting \ {t} /\ t \in Waiting  BY <1>1, <1>6, <1>7 DEF Waiting
<1>9. trans[t].act = "none" /\ t <= issued  BY <1>2, <1>8 DEF FrontOK
<1>10. EntriesOK'  BY <1>2, <1>4, <1>5 DEF EntriesOK
<1>11. BlocksOK' /\ TransOK' /\ OnceOK' /\ MemoryOK'
  BY <1>1, <1>2 DEF BlocksOK, TransOK, OnceOK, MemoryOK, Reads, IsData
<1>12. BuffersOK'  BY <1>1, <1>2, <1>7 DEF BuffersOK
<1>13. Held' = Held  BY <1>1 DEF Held
<1>14. PlacesOK'  BY <1>1, <1>2, <1>13 DEF PlacesOK
<1>15. FrontOK'
  <2>1. Range(topPort') \cap Range(dirQ') = {} /\ Range(dirQ') \subseteq inFlight'
    BY <1>1, <1>6, <1>7
  <2>2. /\ \A u \in Waiting' : u <= issued'
        /\ \A u \in Req : u > issued' \/ u \in Waiting' => trans'[u].act = "none"
    BY <1>1, <1>2, <1>8 DEF FrontOK
  <2> QED  BY <1>1, <1>2, <1>7, <2>1, <2>2 DEF FrontOK
<1>16. JoinedOK'
  <2>1. ASSUME NEW d \in Req, NEW u \in Range(entry'[d].reqs)
        PROVE  u <= issued' /\ u \notin Waiting' /\ (u = d \/ trans'[u].act = "none")
    <3>1. CASE u \in Range(entry[d].reqs)
      BY <1>1, <1>2, <1>8, <3>1 DEF JoinedOK
    <3>2. CASE u \notin Range(entry[d].reqs)
      <4>1. d = e /\ u = t  BY <1>4, <1>5, <2>1, <3>2
      <4> QED  BY <1>1, <1>8, <1>9, <4>1
    <3> QED  BY <3>1, <3>2
  <2>2. ASSUME NEW r \in Place, NEW d \in Held'[r], trans'[d].act \in Leads
        PROVE  entry'[d].way = trans'[d].way /\ entry'[d].reqs # <<>>
    <3>1. d \in Held[r] /\ d \in Req  BY <1>2, <1>13, HeldReq
    <3>2. entry[d].way = trans[d].way /\ entry[d].reqs # <<>>
      BY <1>1, <1>2, <2>2, <3>1 DEF JoinedOK
    <3> QED  BY <1>1, <1>4, <1>5, <3>1, <3>2
  <2> QED  BY <2>1, <2>2 DEF JoinedOK
<1>17. OrphansOK' /\ QuietOK' /\ LocksOK'
  BY <1>1, <1>2, <1>13 DEF OrphansOK, QuietOK, LocksOK, Owns, ReadsOf
<1> QED  BY <1>10, <1>11, <1>12, <1>14, <1>15, <1>16, <1>17, InvWhole DEF RequestsOK

\* The request at the head goes to the bank: what all these steps have in common.
Goes(t) ==
    /\ dirQ # <<>> /\ t = Head(dirQ) /\ dirQ' = Tail(dirQ) /\ dirToBank' = Append(dirToBank, t)
    /\ UNCHANGED <<issued, topPort, inFlight, bank, post, wbQ, wbToBank, mshrQ, processing, fetching,
                   pending, toMem, botIn, cstate, toEvict>>
    /\ mshr' \in {mshr, mshr \cup {t}}

LEMMA GoesOK ==
    ASSUME LockInv, NEW t \in Req, Goes(t)
    PROVE  /\ BuffersOK' /\ OnceOK' /\ MemoryOK'
           /\ \A r \in Place : \A u \in Req :
                  u \in Held'[r] <=> u \in Held[r] \/ (u = t /\ r = "down")
<1>1. /\ issued' = issued /\ topPort' = topPort
      /\ dirQ' = Tail(dirQ) /\ inFlight' = inFlight /\ dirToBank' = Append(dirToBank, t)
      /\ bank' = bank /\ post' = post /\ wbQ' = wbQ /\ wbToBank' = wbToBank /\ mshrQ' = mshrQ
      /\ processing' = processing /\ fetching' = fetching /\ pending' = pending
      /\ toMem' = toMem /\ botIn' = botIn /\ cstate' = cstate /\ toEvict' = toEvict
      /\ dirQ # <<>> /\ t = Head(dirQ) /\ mshr' \in {mshr, mshr \cup {t}}
  BY DEF Goes
<1>2. BuffersOK /\ OnceOK /\ MemoryOK /\ PlacesOK /\ FrontOK
  BY InvParts
<1>3. dirQ \in Seq(Req) /\ dirToBank \in Seq(Trans) /\ t \in Trans  BY <1>2, Sizes DEF BuffersOK
<1>4. dirQ' \in Seq(Req) /\ t \in Range(dirQ)  BY <1>1, <1>3, TailElements, TailRange
<1>5. t \notin Range(dirToBank)
  <2>1. trans[t].act = "none"  BY <1>2, <1>4 DEF FrontOK, Waiting
  <2>2. t \notin Held["down"]  BY <1>2, <2>1, ActsAre, PlaceIs DEF PlacesOK
  <2> QED  BY <2>2, HeldIs
<1>6. /\ dirToBank' \in Seq(Trans) /\ Once(dirToBank') /\ Range(dirToBank') = Range(dirToBank) \cup {t}
  BY <1>1, <1>2, <1>3, <1>5, OncePut DEF OnceOK
<1>7. BuffersOK'  BY <1>1, <1>2, <1>4, <1>6 DEF BuffersOK
<1>8. OnceOK' /\ MemoryOK'  BY <1>1, <1>2, <1>6 DEF OnceOK, MemoryOK, Reads, IsData
<1>9. ASSUME NEW r \in Place, NEW u \in Req
      PROVE  u \in Held'[r] <=> u \in Held[r] \/ (u = t /\ r = "down")
  <2>1. CASE r = "down"  BY <1>6, <2>1, HeldIs, HeldIsNext
  <2>2. CASE r # "down"  BY <1>1, <2>2, HeldIs, HeldIsNext, PlaceIs
  <2> QED  BY <2>1, <2>2
<1> QED  BY <1>7, <1>8, <1>9

LEMMA DirReadHitOK ==
    ASSUME LockInv, NEW t \in Req, DirReadHit(t), issued' = issued
    PROVE  LockInv'
<1>1. BlocksOK /\ TransOK /\ EntriesOK /\ BuffersOK /\ OnceOK /\ MemoryOK /\ RequestsOK
  BY InvParts
<1>2. PICK w \in Way : /\ blocks' = [blocks EXCEPT ![w].readers = @ + 1]
                       /\ trans' = [trans EXCEPT ![t].act = "readHit", ![t].way = w]
  BY <1>1 DEF DirReadHit, Lookup, BlocksOK
<1>3. Goes(t) /\ entry' = entry
  BY DEF DirReadHit, Looks, PushToBank, Goes, dirOther, wbVars, memPorts, flushVars
<1>4. BuffersOK' /\ OnceOK' /\ MemoryOK'
      /\ \A r \in Place : \A u \in Req :
             u \in Held'[r] <=> u \in Held[r] \/ (u = t /\ r = "down")
  BY <1>3, GoesOK
<1>5. BlocksOK' /\ \A v \in Way : /\ blocks'[v].locked = blocks[v].locked
                                  /\ blocks'[v].readers = IF v = w THEN blocks[v].readers + 1
                                                          ELSE blocks[v].readers
  BY <1>1, <1>2 DEF BlocksOK, BlockField
<1>6. /\ TransOK' /\ trans'[t].act = "readHit" /\ trans'[t].way = w
      /\ trans'[t].orphan = trans[t].orphan
      /\ \A u \in Req : u # t => SameTrans(u)
  BY <1>1, <1>2, Sizes DEF TransOK, TransField, SameTrans
<1>7. EntriesOK' /\ \A u \in Req : SameEntry(u)  BY <1>1, <1>3 DEF EntriesOK, SameEntry
<1>8. Enters(t, w)  BY <1>3, <1>4, <1>6, <1>7, ActsAre DEF Enters, Goes, Leads
<1>9. Locks(t, w)  BY <1>5, <1>6 DEF Locks
<1>10. RequestsOK'  BY <1>1, <1>4, <1>7, <1>8, <1>9, EnterStep
<1> QED  BY <1>4, <1>5, <1>6, <1>7, <1>10, InvWhole

\* A write, or a fetch, goes to the bank with its way locked.
LEMMA WriteToBankOK ==
    ASSUME LockInv, NEW t \in Req, NEW w, Looks(t), WriteToBank(t, w), UNCHANGED dirOther,
           issued' = issued
    PROVE  LockInv'
<1>1. BlocksOK /\ TransOK /\ EntriesOK /\ BuffersOK /\ OnceOK /\ MemoryOK /\ RequestsOK
  BY InvParts
<1>2. /\ blocks' = [blocks EXCEPT ![w].locked = TRUE, ![w].valid = TRUE, ![w].line = LineOf(t)]
      /\ trans' = [trans EXCEPT ![t].act = "writeHit", ![t].way = w]
  BY DEF WriteToBank
<1>3. Goes(t) /\ entry' = entry
  BY DEF WriteToBank, Looks, PushToBank, Goes, dirOther, wbVars, memPorts, flushVars
<1>4. BuffersOK' /\ OnceOK' /\ MemoryOK'
      /\ \A r \in Place : \A u \in Req :
             u \in Held'[r] <=> u \in Held[r] \/ (u = t /\ r = "down")
  BY <1>3, GoesOK
<1>5. BlocksOK' /\ \A v \in Way : /\ blocks'[v].locked => blocks[v].locked \/ v = w
                                  /\ blocks'[v].readers = blocks[v].readers
  BY <1>1, <1>2 DEF BlocksOK, BlockField
<1>6. /\ TransOK' /\ trans'[t].act = "writeHit" /\ trans'[t].way = w
      /\ trans'[t].orphan = trans[t].orphan
      /\ \A u \in Req : u # t => SameTrans(u)
  BY <1>1, <1>2, Sizes DEF TransOK, TransField, SameTrans
<1>7. EntriesOK' /\ \A u \in Req : SameEntry(u)  BY <1>1, <1>3 DEF EntriesOK, SameEntry
<1>8. Enters(t, w)  BY <1>3, <1>4, <1>6, <1>7, ActsAre DEF Enters, Goes, Leads
<1>9. Locks(t, w)  BY <1>5, <1>6 DEF Locks
<1>10. RequestsOK'  BY <1>1, <1>4, <1>7, <1>8, <1>9, EnterStep
<1> QED  BY <1>4, <1>5, <1>6, <1>7, <1>10, InvWhole

LEMMA AddEntryIs ==
    ASSUME EntriesOK, NEW t \in Req, NEW w, AddEntry(t, w)
    PROVE  /\ EntriesOK' /\ entry'[t].reqs = <<t>> /\ entry'[t].way = w
           /\ \A u \in Req : u # t => SameEntry(u)
           /\ mshr' = mshr \cup {t}
<1> DEFINE x == [NoEntry EXCEPT !.reqs = <<t>>, !.way = w]
<1>1. DOMAIN x = EntryField /\ x.reqs = <<t>> /\ x.way = w  BY DEF NoEntry, EntryField
<1>2. entry' = [entry EXCEPT ![t] = x] /\ mshr' = mshr \cup {t}  BY DEF AddEntry
<1>3. <<t>> \in Seq(Req)  OBVIOUS
<1> HIDE DEF x
<1>4. entry'[t] = x /\ DOMAIN entry' = Req /\ \A u \in Req : u # t => entry'[u] = entry[u]
  BY <1>2 DEF EntriesOK
<1>5. EntriesOK'  BY <1>1, <1>3, <1>4 DEF EntriesOK
<1> QED  BY <1>1, <1>2, <1>4, <1>5 DEF SameEntry

LEMMA FetchOK ==
    ASSUME LockInv, NEW t \in Req, NEW w, Looks(t), Fetch(t, w), UNCHANGED dirOther,
           issued' = issued
    PROVE  LockInv'
<1>1. BlocksOK /\ TransOK /\ EntriesOK /\ BuffersOK /\ OnceOK /\ MemoryOK /\ RequestsOK
  BY InvParts
<1>2. /\ blocks' = [blocks EXCEPT ![w].locked = TRUE, ![w].valid = TRUE, ![w].line = LineOf(t)]
      /\ trans' = [trans EXCEPT ![t].act = "fetch", ![t].way = w]
      /\ AddEntry(t, w)
  BY DEF Fetch
<1>3. /\ EntriesOK' /\ entry'[t].reqs = <<t>> /\ entry'[t].way = w
      /\ \A u \in Req : u # t => SameEntry(u)
      /\ mshr' = mshr \cup {t}
  BY <1>1, <1>2, AddEntryIs
<1>4. Goes(t)
  BY <1>3 DEF Fetch, Looks, PushToBank, Goes, dirOther, wbVars, memPorts, flushVars
<1>5. BuffersOK' /\ OnceOK' /\ MemoryOK'
      /\ \A r \in Place : \A u \in Req :
             u \in Held'[r] <=> u \in Held[r] \/ (u = t /\ r = "down")
  BY <1>4, GoesOK
<1>6. BlocksOK' /\ \A v \in Way : /\ blocks'[v].locked => blocks[v].locked \/ v = w
                                  /\ blocks'[v].readers = blocks[v].readers
  BY <1>1, <1>2 DEF BlocksOK, BlockField
<1>7. /\ TransOK' /\ trans'[t].act = "fetch" /\ trans'[t].way = w
      /\ trans'[t].orphan = trans[t].orphan
      /\ \A u \in Req : u # t => SameTrans(u)
  BY <1>1, <1>2, Sizes DEF TransOK, TransField, SameTrans
<1>8. Enters(t, w)  BY <1>3, <1>4, <1>5, <1>7, ActsAre DEF Enters, Goes, Leads
<1>9. Locks(t, w)  BY <1>6, <1>7 DEF Locks
<1>10. RequestsOK'  BY <1>1, <1>3, <1>5, <1>8, <1>9, EnterStep
<1> QED  BY <1>3, <1>5, <1>6, <1>7, <1>10, InvWhole

LEMMA EvictOK ==
    ASSUME LockInv, NEW t \in Req, NEW w, Looks(t), Evict(t, w), UNCHANGED dirOther,
           issued' = issued
    PROVE  LockInv'
<1>1. BlocksOK /\ TransOK /\ EntriesOK /\ BuffersOK /\ OnceOK /\ MemoryOK /\ RequestsOK
  BY InvParts
<1>2. /\ blocks' = [blocks EXCEPT ![w].locked = TRUE, ![w].dirty = FALSE, ![w].line = LineOf(t)]
      /\ trans' = [trans EXCEPT ![t] = [@ EXCEPT
             !.act = IF FullLine(t) THEN "evictWrite" ELSE "evictFetch",
             !.way = w, !.vline = blocks[w].line, !.vmask = blocks[w].mask]]
      /\ IF FullLine(t) THEN UNCHANGED <<mshr, entry>> ELSE AddEntry(t, w)
  BY DEF Evict
<1>3. /\ EntriesOK' /\ \A u \in Req : u # t => SameEntry(u)
      /\ IF FullLine(t) THEN SameEntry(t) ELSE entry'[t].reqs = <<t>> /\ entry'[t].way = w
      /\ mshr' \in {mshr, mshr \cup {t}}
  <2>1. CASE FullLine(t)  BY <1>1, <1>2, <2>1 DEF EntriesOK, SameEntry
  <2>2. CASE ~ FullLine(t)  BY <1>1, <1>2, <2>2, AddEntryIs
  <2> QED  BY <2>1, <2>2
<1>4. Goes(t)
  BY <1>3 DEF Evict, Looks, PushToBank, Goes, dirOther, wbVars, memPorts, flushVars
<1>5. BuffersOK' /\ OnceOK' /\ MemoryOK'
      /\ \A r \in Place : \A u \in Req :
             u \in Held'[r] <=> u \in Held[r] \/ (u = t /\ r = "down")
  BY <1>4, GoesOK
<1>6. BlocksOK' /\ \A v \in Way : /\ blocks'[v].locked => blocks[v].locked \/ v = w
                                  /\ blocks'[v].readers = blocks[v].readers
  BY <1>1, <1>2 DEF BlocksOK, BlockField
<1>7. /\ TransOK' /\ trans'[t].act = (IF FullLine(t) THEN "evictWrite" ELSE "evictFetch")
      /\ trans'[t].way = w /\ trans'[t].orphan = trans[t].orphan
      /\ \A u \in Req : u # t => SameTrans(u)
  <2> DEFINE x == [trans[t] EXCEPT
             !.act = IF FullLine(t) THEN "evictWrite" ELSE "evictFetch",
             !.way = w, !.vline = blocks[w].line, !.vmask = blocks[w].mask]
  <2>1. /\ DOMAIN x = TransField /\ x.orphan = trans[t].orphan /\ x.way = w
        /\ x.act = IF FullLine(t) THEN "evictWrite" ELSE "evictFetch"
    BY <1>1, Sizes DEF TransOK, TransField
  <2>2. trans' = [trans EXCEPT ![t] = x]  BY <1>2
  <2> HIDE DEF x
  <2>3. t \in Trans /\ DOMAIN trans = Trans  BY <1>1, Sizes DEF TransOK
  <2>4. trans'[t] = x /\ DOMAIN trans' = Trans /\ \A u \in Trans : u # t => trans'[u] = trans[u]
    BY <2>2, <2>3
  <2>5. TransOK'  BY <1>1, <2>1, <2>3, <2>4 DEF TransOK
  <2> QED  BY <2>1, <2>4, <2>5, Sizes DEF SameTrans
<1>8. Enters(t, w)
  <2>1. CASE FullLine(t)  BY <1>3, <1>4, <1>5, <1>7, <2>1, ActsAre DEF Enters, Goes, Leads
  <2>2. CASE ~ FullLine(t)  BY <1>3, <1>4, <1>5, <1>7, <2>2, ActsAre DEF Enters, Goes, Leads
  <2> QED  BY <2>1, <2>2
<1>9. Locks(t, w)
  <2>1. trans'[t].act # "readHit"  BY <1>7
  <2> QED  BY <1>6, <2>1 DEF Locks
<1>10. RequestsOK'  BY <1>1, <1>3, <1>5, <1>8, <1>9, EnterStep
<1> QED  BY <1>3, <1>5, <1>6, <1>7, <1>10, InvWhole

LEMMA DirectoryStageOK ==
    ASSUME LockInv, DirectoryStage, issued' = issued
    PROVE  LockInv'
<1>1. PICK t \in Req : DirMergeIntoEntry(t) \/ DirReadHit(t) \/ DirWriteHit(t) \/ DirMiss(t)
  BY DEF DirectoryStage
<1>2. CASE DirMergeIntoEntry(t)  BY <1>2, MergeOK
<1>3. CASE DirReadHit(t)  BY <1>3, DirReadHitOK
<1>4. CASE DirWriteHit(t)
  <2>1. PICK w : Looks(t) /\ WriteToBank(t, w) /\ UNCHANGED dirOther  BY <1>4 DEF DirWriteHit
  <2> QED  BY <2>1, WriteToBankOK
<1>5. CASE DirMiss(t)
  <2>1. PICK w : Looks(t) /\ (Evict(t, w) \/ Fetch(t, w) \/ WriteToBank(t, w)) /\ UNCHANGED dirOther
    BY <1>5 DEF DirMiss
  <2>2. CASE Evict(t, w)  BY <2>1, <2>2, EvictOK
  <2>3. CASE Fetch(t, w)  BY <2>1, <2>3, FetchOK
  <2>4. CASE WriteToBank(t, w)  BY <2>1, <2>4, WriteToBankOK
  <2> QED  BY <2>1, <2>2, <2>3, <2>4
<1> QED  BY <1>1, <1>2, <1>3, <1>4, <1>5

-------------------------------------------------------------------------------
\* The bank.

LEMMA ReqSeq == \A q \in Seq(Req) : q \in Seq(Trans)
  BY Sizes

\* A transaction, of a request or of a flush, goes from one place to another.
LEMMA TokenStep ==
    ASSUME BuffersOK, BuffersOK', EntriesOK, RequestsOK,
           NEW t, NEW p \in BusyPlace, NEW q \in BusyPlace, p # q,
           t \in Req => t \in Held[p],
           \A u \in Req : u \in Held'[p] <=> u \in Held[p] /\ u # t,
           \A u \in Req : u \in Held'[q] <=> u \in Held[q] \/ u = t,
           \A r \in Place : r # p /\ r # q => Held'[r] = Held[r],
           \A u \in Req : u # t => SameTrans(u),
           trans'[t].way = trans[t].way, trans'[t].orphan = trans[t].orphan,
           t \in Req => trans'[t].act \in ActAt[q],
           trans'[t].act = "readHit" <=> trans[t].act = "readHit",
           trans'[t].act \in Leads => trans[t].act \in Leads,
           SameEntries, SameBlocks, SameFront
    PROVE  RequestsOK'
<1>1. p \in Place /\ q \in Place  BY PlaceIs
<1>2. CASE t \in Req
  <2>1. \A r \in Place : t \in Held[r] => r = p  BY <1>1, <1>2 DEF RequestsOK, PlacesOK
  <2>2. ASSUME NEW r \in Place, NEW u \in Req
        PROVE  u \in Held'[r] <=> IF u = t THEN r = q ELSE u \in Held[r]
    <3>1. CASE r = p  BY <3>1
    <3>2. CASE r = q  BY <3>2
    <3>3. CASE r # p /\ r # q  BY <2>1, <3>3
    <3> QED  BY <3>1, <3>2, <3>3
  <2>3. Moves(t, p, q)  BY <1>2, <2>2 DEF Moves
  <2>4. trans'[t].act \in ActAt[q]  BY <1>2
  <2> QED  BY <1>2, <2>3, <2>4, MoveStep
<1>3. CASE t \notin Req
  <2>1. \A r \in Place : Held[r] \subseteq Req /\ Held'[r] \subseteq Req  BY HeldReq, HeldReqNext
  <2>2. \A r \in Place, u \in Req : u \in Held'[r] <=> u \in Held[r]  BY <1>1, <1>3
  <2>3. \A r \in Place : Held'[r] = Held[r]  BY <2>1, <2>2
  <2>4. \A u \in Req : SameTrans(u)  BY <1>3
  <2> QED  BY <2>3, <2>4, StayStep
<1> QED  BY <1>2, <1>3

LEMMA PullUpOK ==
    ASSUME LockInv, wbToBank # <<>>, bank' = Append(bank, Head(wbToBank)),
           wbToBank' = Tail(wbToBank),
           UNCHANGED <<trans, blocks, entry, issued, topPort, dirQ, inFlight, dirToBank, post, wbQ,
                       mshrQ, processing, mshr, fetching, pending, toMem, botIn, cstate, toEvict>>
    PROVE  LockInv'
<1> DEFINE t == Head(wbToBank)
<1>1. BlocksOK /\ TransOK /\ EntriesOK /\ BuffersOK /\ OnceOK /\ MemoryOK /\ RequestsOK /\ PlacesOK
  BY InvParts
<1>2. /\ trans' = trans /\ blocks' = blocks /\ entry' = entry /\ issued' = issued
      /\ topPort' = topPort /\ dirQ' = dirQ /\ inFlight' = inFlight /\ dirToBank' = dirToBank
      /\ post' = post /\ wbQ' = wbQ /\ mshrQ' = mshrQ
      /\ processing' = processing /\ mshr' = mshr /\ fetching' = fetching /\ pending' = pending
      /\ toMem' = toMem /\ botIn' = botIn /\ cstate' = cstate /\ toEvict' = toEvict
  OBVIOUS
<1>3. wbToBank \in Seq(Req) /\ wbToBank \in Seq(Trans) /\ bank \in Seq(Trans) /\ Once(bank) /\ Once(wbToBank)
  BY <1>1, ReqSeq DEF BuffersOK, OnceOK
<1>4. /\ t \in Req /\ wbToBank' \in Seq(Req) /\ Once(wbToBank') /\ t \in Range(wbToBank)
      /\ \A u \in Req : u \in Range(wbToBank') <=> u \in Range(wbToBank) /\ u # t
  BY <1>3, TailElements, OnceTake
<1>5. t \in Held["up"] /\ t \notin Range(bank) /\ trans[t].act \in {"writeHit", "fetched"}
  <2>1. t \in Held["up"]  BY <1>4, HeldIs
  <2>2. t \notin Held["bank"]  BY <1>1, <2>1, PlaceIs DEF PlacesOK
  <2>3. trans[t].act \in ActAt["up"]  BY <1>1, <2>1, PlaceIs DEF PlacesOK
  <2> QED  BY <1>4, <2>1, <2>2, <2>3, HeldIs, ActsAre
<1> HIDE DEF t
<1>6. bank' = Append(bank, t)  BY DEF t
<1>7. bank' \in Seq(Trans) /\ Once(bank') /\ Range(bank') = Range(bank) \cup {t}
  BY <1>3, <1>4, <1>5, <1>6, Sizes, OncePut
<1>8. BuffersOK'  BY <1>1, <1>2, <1>4, <1>7 DEF BuffersOK
<1>9. OnceOK' /\ MemoryOK' /\ BlocksOK' /\ TransOK' /\ EntriesOK'
  BY <1>1, <1>2, <1>4, <1>7 DEF OnceOK, MemoryOK, Reads, IsData, BlocksOK, TransOK, EntriesOK
<1>10. RequestsOK'
  <2>1. \A u \in Req : u \in Held'["up"] <=> u \in Held["up"] /\ u # t
    BY <1>4, HeldIs, HeldIsNext
  <2>2. \A u \in Req : u \in Held'["bank"] <=> u \in Held["bank"] \/ u = t
    BY <1>7, HeldIs, HeldIsNext
  <2>3. \A r \in Place : r # "up" /\ r # "bank" => Held'[r] = Held[r]
    BY <1>2, HeldIs, HeldIsNext, PlaceIs
  <2>4. "up" \in BusyPlace /\ "bank" \in BusyPlace  BY PlaceIs
  <2>5. (\A u \in Req : SameTrans(u)) /\ SameEntries /\ SameBlocks /\ SameFront
    BY <1>2 DEF SameTrans, SameEntries, SameEntry, SameBlocks, SameFront
  <2>6. trans'[t].act \in ActAt["bank"]  BY <1>2, <1>5, ActsAre
  <2> QED  BY <1>1, <1>2, <1>5, <1>8, <2>1, <2>2, <2>3, <2>4, <2>5, <2>6, TokenStep
<1> QED  BY <1>8, <1>9, <1>10, InvWhole

\* The head of the queue behind the directory goes to the bank, or through to the write buffer.
PullsDown ==
    /\ dirToBank # <<>> /\ dirToBank' = Tail(dirToBank)
    /\ IF trans[Head(dirToBank)].act = "fetch"
       THEN wbQ' = Append(wbQ, Head(dirToBank)) /\ bank' = bank
       ELSE bank' = Append(bank, Head(dirToBank)) /\ wbQ' = wbQ
    /\ UNCHANGED <<trans, blocks, entry, issued, topPort, dirQ, inFlight, wbToBank, post,
                   mshrQ, processing, mshr, fetching, pending, toMem, botIn, cstate, toEvict>>

LEMMA PullDownOK ==
    ASSUME LockInv, PullsDown
    PROVE  LockInv'
<1> DEFINE t == Head(dirToBank)
           q == IF trans[t].act = "fetch" THEN "buffer" ELSE "bank"
<1>1. BlocksOK /\ TransOK /\ EntriesOK /\ BuffersOK /\ OnceOK /\ MemoryOK /\ RequestsOK /\ PlacesOK
  BY InvParts
<1>2. /\ trans' = trans /\ blocks' = blocks /\ entry' = entry /\ issued' = issued
      /\ topPort' = topPort /\ dirQ' = dirQ /\ inFlight' = inFlight /\ wbToBank' = wbToBank
      /\ post' = post /\ mshrQ' = mshrQ
      /\ processing' = processing /\ mshr' = mshr /\ fetching' = fetching /\ pending' = pending
      /\ toMem' = toMem /\ botIn' = botIn /\ cstate' = cstate /\ toEvict' = toEvict
      /\ dirToBank # <<>> /\ dirToBank' = Tail(dirToBank)
  BY DEF PullsDown
<1>3. dirToBank \in Seq(Trans) /\ bank \in Seq(Trans) /\ wbQ \in Seq(Trans)
      /\ Once(dirToBank) /\ Once(bank) /\ Once(wbQ)
  BY <1>1 DEF BuffersOK, OnceOK
<1>4. /\ t \in Trans /\ dirToBank' \in Seq(Trans) /\ Once(dirToBank') /\ t \in Range(dirToBank)
      /\ \A u \in Req : u \in Range(dirToBank') <=> u \in Range(dirToBank) /\ u # t
  BY <1>2, <1>3, OnceTake
<1>5. t \in Req => /\ t \in Held["down"] /\ t \notin Range(bank) /\ t \notin Range(wbQ)
                   /\ trans[t].act \in {"readHit", "writeHit", "fetch", "evictWrite", "evictFetch"}
  <2>1. SUFFICES ASSUME t \in Req
                 PROVE  /\ t \in Held["down"] /\ t \notin Range(bank) /\ t \notin Range(wbQ)
                        /\ trans[t].act \in ActAt["down"]
    BY ActsAre
  <2>2. t \in Held["down"]  BY <1>4, <2>1, HeldIs
  <2>3. t \notin Held["bank"] /\ t \notin Held["buffer"]  BY <1>1, <2>2, PlaceIs DEF PlacesOK
  <2>4. trans[t].act \in ActAt["down"]  BY <1>1, <2>2, PlaceIs DEF PlacesOK
  <2> QED  BY <2>1, <2>2, <2>3, <2>4, HeldIs
<1>6. IF trans[t].act = "fetch" THEN wbQ' = Append(wbQ, t) /\ bank' = bank
                                ELSE bank' = Append(bank, t) /\ wbQ' = wbQ
  BY DEF PullsDown
<1> HIDE DEF t
<1>7. /\ bank' \in Seq(Trans) /\ Once(bank') /\ wbQ' \in Seq(Trans) /\ Once(wbQ')
      /\ Range(bank') = Range(bank) \cup (IF q = "bank" THEN {t} ELSE {})
      /\ Range(wbQ') = Range(wbQ) \cup (IF q = "buffer" THEN {t} ELSE {})
  <2>1. CASE trans[t].act = "fetch"
    <3>1. wbQ' \in Seq(Trans) /\ Once(wbQ') /\ Range(wbQ') = Range(wbQ) \cup {t}
      BY <1>3, <1>4, <1>5, <1>6, <2>1, OncePut
    <3> QED  BY <1>3, <1>6, <2>1, <3>1
  <2>2. CASE trans[t].act # "fetch"
    <3>1. bank' \in Seq(Trans) /\ Once(bank') /\ Range(bank') = Range(bank) \cup {t}
      BY <1>3, <1>4, <1>5, <1>6, <2>2, OncePut
    <3> QED  BY <1>3, <1>6, <2>2, <3>1
  <2> QED  BY <2>1, <2>2
<1>8. BuffersOK'  BY <1>1, <1>2, <1>4, <1>7 DEF BuffersOK
<1>9. OnceOK' /\ MemoryOK' /\ BlocksOK' /\ TransOK' /\ EntriesOK'
  BY <1>1, <1>2, <1>4, <1>7 DEF OnceOK, MemoryOK, Reads, IsData, BlocksOK, TransOK, EntriesOK
<1>10. RequestsOK'
  <2>1. \A u \in Req : u \in Held'["down"] <=> u \in Held["down"] /\ u # t
    BY <1>4, HeldIs, HeldIsNext
  <2>2. q \in {"bank", "buffer"}  OBVIOUS
  <2>3. \A u \in Req : u \in Held'[q] <=> u \in Held[q] \/ u = t
    BY <1>7, <2>2, HeldIs, HeldIsNext
  <2>4. \A r \in Place : r # "down" /\ r # q => Held'[r] = Held[r]
    <3>1. q # "bank" => Range(bank') = Range(bank)  BY <1>7
    <3>2. q # "buffer" => Range(wbQ') = Range(wbQ)  BY <1>7
    <3> QED  BY <1>2, <2>2, <3>1, <3>2, HeldIs, HeldIsNext, PlaceIs
  <2>5. "down" \in BusyPlace /\ q \in BusyPlace /\ q # "down"  BY <2>2, PlaceIs
  <2>6. (\A u \in Req : SameTrans(u)) /\ SameEntries /\ SameBlocks /\ SameFront
    BY <1>2 DEF SameTrans, SameEntries, SameEntry, SameBlocks, SameFront
  <2>7. t \in Req => t \in Held["down"]  BY <1>5
  <2>8. t \in Req => trans'[t].act \in ActAt[q]  BY <1>2, <1>5, ActsAre
  <2>9. /\ trans'[t].way = trans[t].way /\ trans'[t].orphan = trans[t].orphan
        /\ trans'[t].act = "readHit" <=> trans[t].act = "readHit"
        /\ trans'[t].act \in Leads => trans[t].act \in Leads
    BY <1>2
  <2> HIDE DEF q
  <2> HIDE DEF q
  <2> QED  BY <1>1, <1>8, <2>1, <2>3, <2>4, <2>5, <2>6, <2>7, <2>8, <2>9, TokenStep
<1> QED  BY <1>8, <1>9, <1>10, InvWhole

LEMMA PullFromBufOK ==
    ASSUME LockInv, PullFromBuf, issued' = issued
    PROVE  LockInv'
<1>1. UNCHANGED <<trans, blocks, entry, issued, topPort, dirQ, inFlight, post,
                  mshrQ, processing, mshr, fetching, pending, toMem, botIn, cstate, toEvict>>
  BY DEF PullFromBuf, bankOther, mshrVars, flushVars
<1>2. CASE wbToBank # <<>>
  <2>1. /\ bank' = Append(bank, Head(wbToBank)) /\ wbToBank' = Tail(wbToBank)
        /\ UNCHANGED <<dirToBank, wbQ>>
    BY <1>2 DEF PullFromBuf
  <2> QED  BY <1>1, <1>2, <2>1, PullUpOK
<1>3. CASE wbToBank = <<>>
  <2>1. /\ dirToBank # <<>> /\ dirToBank' = Tail(dirToBank) /\ wbToBank' = wbToBank
        /\ IF trans[Head(dirToBank)].act = "fetch"
           THEN wbQ' = Append(wbQ, Head(dirToBank)) /\ bank' = bank
           ELSE bank' = Append(bank, Head(dirToBank)) /\ wbQ' = wbQ
    BY <1>3 DEF PullFromBuf
  <2>2. PullsDown  BY <1>1, <2>1 DEF PullsDown
  <2> QED  BY <2>2, PullDownOK
<1> QED  BY <1>2, <1>3

LEMMA BankPipelineOK ==
    ASSUME LockInv, BankPipeline, issued' = issued
    PROVE  LockInv'
<1>1. BlocksOK /\ TransOK /\ EntriesOK /\ BuffersOK /\ OnceOK /\ MemoryOK /\ RequestsOK /\ PlacesOK
  BY InvParts
<1>2. /\ trans' = trans /\ blocks' = blocks /\ entry' = entry /\ issued' = issued
      /\ topPort' = topPort /\ dirQ' = dirQ /\ inFlight' = inFlight /\ dirToBank' = dirToBank
      /\ wbToBank' = wbToBank /\ wbQ' = wbQ /\ mshrQ' = mshrQ
      /\ processing' = processing /\ mshr' = mshr /\ fetching' = fetching /\ pending' = pending
      /\ toMem' = toMem /\ botIn' = botIn /\ cstate' = cstate /\ toEvict' = toEvict
  BY DEF BankPipeline, bankOther, mshrVars, wbVars, flushVars
<1>3. PICK i \in DOMAIN bank : bank' = RemoveAt(bank, i) /\ post' = Append(post, bank[i])
  BY DEF BankPipeline
<1> DEFINE t == bank[i]
<1>4. bank \in Seq(Trans) /\ post \in Seq(Trans) /\ Once(bank) /\ Once(post)
  BY <1>1 DEF BuffersOK, OnceOK
<1>5. i \in 1 .. Len(bank) /\ t \in Trans  BY <1>4, SeqType
<1>6. /\ bank' \in Seq(Trans) /\ Once(bank') /\ t \in Range(bank)
      /\ \A u \in Req : u \in Range(bank') <=> u \in Range(bank) /\ u # t
  BY <1>3, <1>4, <1>5, OnceDrop
<1>7. t \in Req => t \in Held["bank"] /\ t \notin Range(post) /\ trans[t].act \in ActAt["post"]
  <2>1. SUFFICES ASSUME t \in Req
                 PROVE  t \in Held["bank"] /\ t \notin Range(post) /\ trans[t].act \in ActAt["bank"]
    BY ActsAre
  <2>2. t \in Held["bank"]  BY <1>6, <2>1, HeldIs
  <2>3. t \notin Held["post"] /\ trans[t].act \in ActAt["bank"]  BY <1>1, <2>2, PlaceIs DEF PlacesOK
  <2> QED  BY <2>1, <2>2, <2>3, HeldIs
<1>8. post' = Append(post, t)  BY <1>3
<1> HIDE DEF t
<1>9. post' \in Seq(Trans) /\ Once(post') /\ Range(post') = Range(post) \cup {t}
  BY <1>4, <1>5, <1>7, <1>8, OncePut
<1>10. BuffersOK'  BY <1>1, <1>2, <1>6, <1>9 DEF BuffersOK
<1>11. OnceOK' /\ MemoryOK' /\ BlocksOK' /\ TransOK' /\ EntriesOK'
  BY <1>1, <1>2, <1>6, <1>9 DEF OnceOK, MemoryOK, Reads, IsData, BlocksOK, TransOK, EntriesOK
<1>12. RequestsOK'
  <2>1. \A u \in Req : u \in Held'["bank"] <=> u \in Held["bank"] /\ u # t
    BY <1>6, HeldIs, HeldIsNext
  <2>2. \A u \in Req : u \in Held'["post"] <=> u \in Held["post"] \/ u = t
    BY <1>9, HeldIs, HeldIsNext
  <2>3. \A r \in Place : r # "bank" /\ r # "post" => Held'[r] = Held[r]
    BY <1>2, HeldIs, HeldIsNext, PlaceIs
  <2>4. "post" \in BusyPlace /\ "bank" \in BusyPlace  BY PlaceIs
  <2>5. (\A u \in Req : SameTrans(u)) /\ SameEntries /\ SameBlocks /\ SameFront
    BY <1>2 DEF SameTrans, SameEntries, SameEntry, SameBlocks, SameFront
  <2>6. t \in Req => t \in Held["bank"]  BY <1>7
  <2>7. t \in Req => trans'[t].act \in ActAt["post"]  BY <1>2, <1>7
  <2>8. /\ trans'[t].way = trans[t].way /\ trans'[t].orphan = trans[t].orphan
        /\ trans'[t].act = "readHit" <=> trans[t].act = "readHit"
        /\ trans'[t].act \in Leads => trans[t].act \in Leads
    BY <1>2
  <2> QED  BY <1>1, <1>10, <2>1, <2>2, <2>3, <2>4, <2>5, <2>6, <2>7, <2>8, TokenStep
<1> QED  BY <1>10, <1>11, <1>12, InvWhole

\* The end of the bank: transaction t leaves the buffer behind it.
LeavesPost(t) ==
    /\ t \in Trans /\ post' \in Seq(Trans) /\ Once(post') /\ t \in Range(post)
    /\ \A u \in Req : u \in Range(post') <=> u \in Range(post) /\ u # t
    /\ UNCHANGED <<entry, issued, topPort, dirQ, dirToBank, wbToBank, bank, processing, mshr,
                   pending, fetching, toMem, botIn, cstate, toEvict>>

LEMMA LeavesPostIs ==
    ASSUME LockInv, NEW t, LeavesPost(t)
    PROVE  /\ entry' = entry /\ issued' = issued /\ topPort' = topPort /\ dirQ' = dirQ
           /\ dirToBank' = dirToBank /\ wbToBank' = wbToBank /\ bank' = bank
           /\ processing' = processing /\ mshr' = mshr /\ fetching' = fetching /\ pending' = pending
           /\ toMem' = toMem /\ botIn' = botIn /\ cstate' = cstate /\ toEvict' = toEvict
           /\ \A u \in Req : u \in Held'["post"] <=> u \in Held["post"] /\ u # t
           /\ t \in Req => t \in Held["post"] /\ trans[t].act \in ActAt["post"]
           /\ t \in Req => t \notin Range(mshrQ) /\ t \notin Range(wbQ)
           /\ SameEntries
<1>1. BuffersOK /\ PlacesOK  BY InvParts
<1>2. /\ entry' = entry /\ issued' = issued /\ topPort' = topPort /\ dirQ' = dirQ
      /\ dirToBank' = dirToBank /\ wbToBank' = wbToBank /\ bank' = bank
      /\ processing' = processing /\ mshr' = mshr /\ fetching' = fetching /\ pending' = pending
      /\ toMem' = toMem /\ botIn' = botIn /\ cstate' = cstate /\ toEvict' = toEvict
      /\ SameEntries
  BY DEF LeavesPost, SameEntries, SameEntry
<1>3. \A u \in Req : u \in Held'["post"] <=> u \in Held["post"] /\ u # t
  BY HeldIs, HeldIsNext DEF LeavesPost
<1>4. ASSUME t \in Req
      PROVE  /\ t \in Held["post"] /\ trans[t].act \in ActAt["post"]
             /\ t \notin Range(mshrQ) /\ t \notin Range(wbQ)
  <2>1. t \in Held["post"]  BY <1>4, HeldIs DEF LeavesPost
  <2>2. t \notin Held["ready"] /\ t \notin Held["buffer"] /\ trans[t].act \in ActAt["post"]
    BY <1>1, <2>1, PlaceIs DEF PlacesOK
  <2> QED  BY <1>4, <2>1, <2>2, HeldIs
<1> QED  BY <1>2, <1>3, <1>4

LEMMA FinalizeReadHitOK ==
    ASSUME LockInv, NEW t, LeavesPost(t), FinalizeReadHit(t)
    PROVE  LockInv'
<1>1. BlocksOK /\ TransOK /\ EntriesOK /\ BuffersOK /\ OnceOK /\ MemoryOK /\ RequestsOK /\ PlacesOK
  BY InvParts
<1>2. /\ entry' = entry /\ issued' = issued /\ topPort' = topPort /\ dirQ' = dirQ
      /\ dirToBank' = dirToBank /\ wbToBank' = wbToBank /\ bank' = bank
      /\ processing' = processing /\ mshr' = mshr /\ fetching' = fetching /\ pending' = pending
      /\ toMem' = toMem /\ botIn' = botIn /\ cstate' = cstate /\ toEvict' = toEvict
      /\ \A u \in Req : u \in Held'["post"] <=> u \in Held["post"] /\ u # t
      /\ SameEntries
  BY LeavesPostIs
<1>3. /\ trans[t].act = "readHit" /\ inFlight' = inFlight \ {t} /\ trans' = trans
      /\ blocks' = [blocks EXCEPT ![trans[t].way].readers = @ - 1]
      /\ mshrQ' = mshrQ /\ wbQ' = wbQ
  BY DEF FinalizeReadHit
<1>4. t \in Req /\ t \in Held["post"]
  <2>1. t \in Req  BY <1>1, <1>3 DEF TransOK, LeavesPost
  <2> QED  BY <2>1, LeavesPostIs
<1>5. post' \in Seq(Trans) /\ Once(post')  BY DEF LeavesPost
<1>6. BlocksOK' /\ \A v \in Way : /\ blocks'[v].locked = blocks[v].locked
                                  /\ blocks'[v].readers = IF v = trans[t].way THEN blocks[v].readers - 1
                                                          ELSE blocks[v].readers
  BY <1>1, <1>3 DEF BlocksOK, BlockField
<1>7. BuffersOK'
  <2>1. inFlight' \in SUBSET Req  BY <1>1, <1>3 DEF BuffersOK
  <2> QED  BY <1>1, <1>2, <1>3, <1>5, <2>1 DEF BuffersOK
<1>8. OnceOK' /\ MemoryOK' /\ TransOK' /\ EntriesOK'
  BY <1>1, <1>2, <1>3, <1>5 DEF OnceOK, MemoryOK, Reads, IsData, TransOK, EntriesOK
<1>9. \A r \in Place : \A u \in Req : u \in Held'[r] <=> u \in Held[r] /\ u # t
  <2>1. \A r \in Place : r # "post" => Held'[r] = Held[r]  BY <1>2, <1>3, HeldIs, HeldIsNext, PlaceIs
  <2>2. \A r \in Place : r # "post" => t \notin Held[r]  BY <1>1, <1>4, PlaceIs DEF PlacesOK
  <2> QED  BY <1>2, <2>1, <2>2
<1>10. Leaves(t)  BY <1>2, <1>3, <1>4, <1>6, <1>9 DEF Leaves, SameTrans
<1>11. RequestsOK'  BY <1>1, <1>4, <1>7, <1>10, LeaveStep
<1> QED  BY <1>6, <1>7, <1>8, <1>11, InvWhole

LEMMA FinalizeWriteHitOK ==
    ASSUME LockInv, NEW t, LeavesPost(t), FinalizeWriteHit(t)
    PROVE  LockInv'
<1> DEFINE w == trans[t].way
<1>1. BlocksOK /\ TransOK /\ EntriesOK /\ BuffersOK /\ OnceOK /\ MemoryOK /\ RequestsOK /\ PlacesOK
  BY InvParts
<1>2. /\ entry' = entry /\ issued' = issued /\ topPort' = topPort /\ dirQ' = dirQ
      /\ dirToBank' = dirToBank /\ wbToBank' = wbToBank /\ bank' = bank
      /\ processing' = processing /\ mshr' = mshr /\ fetching' = fetching /\ pending' = pending
      /\ toMem' = toMem /\ botIn' = botIn /\ cstate' = cstate /\ toEvict' = toEvict
      /\ \A u \in Req : u \in Held'["post"] <=> u \in Held["post"] /\ u # t
      /\ SameEntries
  BY LeavesPostIs
<1>3. /\ trans[t].act = "writeHit" /\ inFlight' = inFlight \ {t}
      /\ \E m, d : blocks' = [blocks EXCEPT ![w] = [@ EXCEPT !.valid = TRUE, !.locked = FALSE,
                                     !.dirty = TRUE, !.mask = m, !.data = d]]
      /\ trans' = trans \/ \E m : trans' = [trans EXCEPT ![t].vmask = m]
      /\ mshrQ' = mshrQ /\ wbQ' = wbQ
  BY DEF FinalizeWriteHit
<1>4. t \in Req /\ t \in Held["post"]
  <2>1. t \in Req  BY <1>1, <1>3 DEF TransOK, LeavesPost
  <2> QED  BY <2>1, LeavesPostIs
<1>5. post' \in Seq(Trans) /\ Once(post')  BY DEF LeavesPost
<1>6. BlocksOK' /\ \A v \in Way : /\ blocks'[v].locked => blocks[v].locked /\ v # w
                                  /\ blocks'[v].readers = blocks[v].readers
  <2>1. PICK m, d : blocks' = [blocks EXCEPT ![w] = [@ EXCEPT !.valid = TRUE, !.locked = FALSE,
                                     !.dirty = TRUE, !.mask = m, !.data = d]]
    BY <1>3
  <2> HIDE DEF w
  <2> QED  BY <1>1, <2>1 DEF BlocksOK, BlockField
<1>7. TransOK' /\ \A u \in Req : SameTrans(u)
  BY <1>1, <1>3, Sizes DEF TransOK, TransField, SameTrans
<1>8. BuffersOK'
  <2>1. inFlight' \in SUBSET Req  BY <1>1, <1>3 DEF BuffersOK
  <2> QED  BY <1>1, <1>2, <1>3, <1>5, <2>1 DEF BuffersOK
<1>9. OnceOK' /\ MemoryOK' /\ EntriesOK'
  BY <1>1, <1>2, <1>3, <1>5 DEF OnceOK, MemoryOK, Reads, IsData, EntriesOK
<1>10. \A r \in Place : \A u \in Req : u \in Held'[r] <=> u \in Held[r] /\ u # t
  <2>1. \A r \in Place : r # "post" => Held'[r] = Held[r]  BY <1>2, <1>3, HeldIs, HeldIsNext, PlaceIs
  <2>2. \A r \in Place : r # "post" => t \notin Held[r]  BY <1>1, <1>4, PlaceIs DEF PlacesOK
  <2> QED  BY <1>2, <2>1, <2>2
<1>11. Leaves(t)  BY <1>2, <1>3, <1>4, <1>6, <1>7, <1>10 DEF Leaves
<1>12. RequestsOK'  BY <1>1, <1>4, <1>8, <1>11, LeaveStep
<1> QED  BY <1>6, <1>7, <1>8, <1>9, <1>12, InvWhole

LEMMA FinalizeFetchedOK ==
    ASSUME LockInv, NEW t, LeavesPost(t), FinalizeBankWriteFetched(t)
    PROVE  LockInv'
<1> DEFINE w == entry[t].way
<1>1. BlocksOK /\ TransOK /\ EntriesOK /\ BuffersOK /\ OnceOK /\ MemoryOK /\ RequestsOK /\ PlacesOK
  BY InvParts
<1>2. /\ entry' = entry /\ issued' = issued /\ topPort' = topPort /\ dirQ' = dirQ
      /\ dirToBank' = dirToBank /\ wbToBank' = wbToBank /\ bank' = bank
      /\ processing' = processing /\ mshr' = mshr /\ fetching' = fetching /\ pending' = pending
      /\ toMem' = toMem /\ botIn' = botIn /\ cstate' = cstate /\ toEvict' = toEvict
      /\ \A u \in Req : u \in Held'["post"] <=> u \in Held["post"] /\ u # t
      /\ SameEntries
  BY LeavesPostIs
<1>3. /\ trans[t].act = "fetched" /\ inFlight' = inFlight /\ trans' = trans
      /\ \E d : blocks' = [blocks EXCEPT ![w] = IF trans[t].orphan THEN [@ EXCEPT !.data = d]
                     ELSE [@ EXCEPT !.data = d, !.locked = FALSE, !.valid = TRUE]]
      /\ mshrQ' = Append(mshrQ, t) /\ wbQ' = wbQ
  BY DEF FinalizeBankWriteFetched
<1>4. t \in Req /\ t \in Held["post"] /\ t \notin Range(mshrQ)
  <2>1. t \in Req  BY <1>1, <1>3 DEF TransOK, LeavesPost
  <2> QED  BY <2>1, LeavesPostIs
<1>5. post' \in Seq(Trans) /\ Once(post')  BY DEF LeavesPost
<1>6. BlocksOK' /\ \A v \in Way : /\ blocks'[v].readers = blocks[v].readers
                                  /\ blocks'[v].locked => blocks[v].locked /\ (trans[t].orphan \/ v # w)
  <2>1. PICK d : blocks' = [blocks EXCEPT ![w] = IF trans[t].orphan THEN [@ EXCEPT !.data = d]
                     ELSE [@ EXCEPT !.data = d, !.locked = FALSE, !.valid = TRUE]]
    BY <1>3
  <2> HIDE DEF w
  <2>2. CASE trans[t].orphan  BY <1>1, <2>1, <2>2 DEF BlocksOK, BlockField
  <2>3. CASE ~ trans[t].orphan  BY <1>1, <2>1, <2>3 DEF BlocksOK, BlockField
  <2> QED  BY <2>2, <2>3
<1>7. mshrQ' \in Seq(Req) /\ Once(mshrQ') /\ Range(mshrQ') = Range(mshrQ) \cup {t}
  <2>1. mshrQ \in Seq(Req) /\ mshrQ \in Seq(Trans) /\ Once(mshrQ)  BY <1>1, ReqSeq DEF BuffersOK, OnceOK
  <2>2. mshrQ' \in Seq(Req)  BY <1>3, <1>4, <2>1, AppendElements
  <2> QED  BY <1>3, <1>4, <2>1, <2>2, Sizes, OncePut
<1>8. BuffersOK'  BY <1>1, <1>2, <1>3, <1>5, <1>7 DEF BuffersOK
<1>9. OnceOK' /\ MemoryOK' /\ TransOK' /\ EntriesOK'
  BY <1>1, <1>2, <1>3, <1>5, <1>7 DEF OnceOK, MemoryOK, Reads, IsData, TransOK, EntriesOK
<1>10. Moves(t, "post", "ready")
  <2>1. \A r \in Place : r # "post" /\ r # "ready" => Held'[r] = Held[r]
    BY <1>2, <1>3, HeldIs, HeldIsNext, PlaceIs
  <2>2. \A r \in Place : r # "post" => t \notin Held[r]  BY <1>1, <1>4, PlaceIs DEF PlacesOK
  <2>3. \A u \in Req : u \in Held'["ready"] <=> u \in Held["ready"] \/ u = t
    BY <1>7, HeldIs, HeldIsNext
  <2>4. ASSUME NEW r \in Place, NEW u \in Req
        PROVE  u \in Held'[r] <=> IF u = t THEN r = "ready" ELSE u \in Held[r]
    <3>1. CASE r = "post"  BY <1>2, <3>1
    <3>2. CASE r = "ready"  BY <2>3, <3>2
    <3>3. CASE r # "post" /\ r # "ready"  BY <2>1, <2>2, <3>3
    <3> QED  BY <3>1, <3>2, <3>3
  <2> QED  BY <1>4, <2>4 DEF Moves
<1>11. Fills(t)  BY <1>2, <1>3, <1>6, <1>10 DEF Fills, SameTrans, SameFront
<1>12. RequestsOK'  BY <1>1, <1>4, <1>8, <1>11, FillStep
<1> QED  BY <1>6, <1>8, <1>9, <1>12, InvWhole

LEMMA FinalizeEvictionOK ==
    ASSUME LockInv, NEW t, LeavesPost(t), FinalizeBankEviction(t)
    PROVE  LockInv'
<1>1. BlocksOK /\ TransOK /\ EntriesOK /\ BuffersOK /\ OnceOK /\ MemoryOK /\ RequestsOK /\ PlacesOK
  BY InvParts
<1>2. /\ entry' = entry /\ issued' = issued /\ topPort' = topPort /\ dirQ' = dirQ
      /\ dirToBank' = dirToBank /\ wbToBank' = wbToBank /\ bank' = bank
      /\ processing' = processing /\ mshr' = mshr /\ fetching' = fetching /\ pending' = pending
      /\ toMem' = toMem /\ botIn' = botIn /\ cstate' = cstate /\ toEvict' = toEvict
      /\ \A u \in Req : u \in Held'["post"] <=> u \in Held["post"] /\ u # t
      /\ SameEntries
  BY LeavesPostIs
<1>3. /\ trans[t].act \in {"evict", "evictWrite", "evictFetch"} /\ inFlight' = inFlight
      /\ \E d : trans' = [trans EXCEPT ![t].vdata = d]
      /\ blocks' = blocks /\ mshrQ' = mshrQ /\ wbQ' = Append(wbQ, t)
  BY DEF FinalizeBankEviction, IsEviction
<1>4. t \in Trans /\ post' \in Seq(Trans) /\ Once(post')  BY DEF LeavesPost
<1>5. /\ t \in Req => t \in Held["post"]
      /\ t \in Req => t \notin Range(wbQ)
      /\ t \in Req => trans[t].act \in ActAt["post"]
  BY LeavesPostIs
<1>6. TransOK' /\ \A u \in Trans : SameTrans(u)
  BY <1>1, <1>3 DEF TransOK, TransField, SameTrans
<1>7. wbQ' \in Seq(Trans) /\ Once(wbQ') /\ Range(wbQ') = Range(wbQ) \cup {t}
  BY <1>1, <1>3, <1>4, <1>5, OncePut DEF BuffersOK, OnceOK
<1>8. BuffersOK'  BY <1>1, <1>2, <1>3, <1>4, <1>7 DEF BuffersOK
<1>9. OnceOK' /\ MemoryOK' /\ BlocksOK' /\ EntriesOK'
  BY <1>1, <1>2, <1>3, <1>4, <1>7 DEF OnceOK, MemoryOK, Reads, IsData, BlocksOK, EntriesOK
<1>10. RequestsOK'
  <2>1. \A r \in Place : r # "post" /\ r # "buffer" => Held'[r] = Held[r]
    BY <1>2, <1>3, HeldIs, HeldIsNext, PlaceIs
  <2>2. \A u \in Req : u \in Held'["buffer"] <=> u \in Held["buffer"] \/ u = t
    BY <1>7, HeldIs, HeldIsNext
  <2>3. "post" \in BusyPlace /\ "buffer" \in BusyPlace  BY PlaceIs
  <2>4. \A u \in Req : SameTrans(u)  BY <1>6, Sizes
  <2>5. /\ trans'[t].way = trans[t].way /\ trans'[t].orphan = trans[t].orphan
        /\ trans'[t].act = "readHit" <=> trans[t].act = "readHit"
        /\ trans'[t].act \in Leads => trans[t].act \in Leads
    BY <1>4, <1>6 DEF SameTrans
  <2>6. t \in Req => trans'[t].act \in ActAt["buffer"]
    BY <1>3, <1>4, <1>5, <1>6, ActsAre DEF SameTrans
  <2>7. SameBlocks /\ SameFront  BY <1>2, <1>3 DEF SameBlocks, SameFront
  <2>8. \A u \in Req : u # t => SameTrans(u)  BY <2>4
  <2> QED  BY <1>1, <1>2, <1>5, <1>8, <2>1, <2>2, <2>3, <2>5, <2>6, <2>7, <2>8, TokenStep
<1> QED  BY <1>6, <1>8, <1>9, <1>10, InvWhole

LEMMA FinalizeTransOK ==
    ASSUME LockInv, FinalizeTrans, issued' = issued
    PROVE  LockInv'
<1>1. BuffersOK /\ OnceOK  BY InvParts
<1>2. PICK i \in DOMAIN post : Finalize(post[i]) /\ post' = RemoveAt(post, i)
  BY DEF FinalizeTrans
<1>3. post \in Seq(Trans) /\ Once(post) /\ i \in 1 .. Len(post) /\ post[i] \in Trans
  BY <1>1, SeqType DEF BuffersOK, OnceOK
<1>4. /\ post' \in Seq(Trans) /\ Once(post') /\ post[i] \in Range(post)
      /\ \A u \in Req : u \in Range(post') <=> u \in Range(post) /\ u # post[i]
  BY <1>2, <1>3, OnceDrop
<1>5. UNCHANGED <<entry, issued, topPort, dirQ, dirToBank, wbToBank, bank, processing, mshr,
                  pending, fetching, toMem, botIn, cstate, toEvict>>
  BY DEF FinalizeTrans, bankOther, flushVars
<1>6. LeavesPost(post[i])  BY <1>3, <1>4, <1>5 DEF LeavesPost
<1>7. CASE FinalizeReadHit(post[i])  BY <1>6, <1>7, FinalizeReadHitOK
<1>8. CASE FinalizeWriteHit(post[i])  BY <1>6, <1>8, FinalizeWriteHitOK
<1>9. CASE FinalizeBankWriteFetched(post[i])  BY <1>6, <1>9, FinalizeFetchedOK
<1>10. CASE FinalizeBankEviction(post[i])  BY <1>6, <1>10, FinalizeEvictionOK
<1> QED  BY <1>2, <1>7, <1>8, <1>9, <1>10 DEF Finalize

-------------------------------------------------------------------------------
\* The MSHR stage answers one request of an entry.

\* The entry it serves: the one that it has begun with, or else the next one.
ServedEntry == IF processing # 0 THEN processing ELSE Head(mshrQ)

LEMMA ServedEntryIs ==
    ASSUME BuffersOK, OnceOK, PlacesOK, processing # 0 \/ mshrQ # <<>>,
           mshrQ' = IF processing # 0 THEN mshrQ ELSE Tail(mshrQ)
    PROVE  /\ ServedEntry \in Req /\ ServedEntry \in Held["ready"] \cup Held["serve"]
           /\ mshrQ' \in Seq(Req) /\ Once(mshrQ')
           /\ \A u \in Req : u \in Range(mshrQ') <=> u \in Range(mshrQ) /\ u # ServedEntry
           /\ \A u \in Req : u # ServedEntry => u \notin Held["serve"]
<1>1. mshrQ \in Seq(Req) /\ mshrQ \in Seq(Trans) /\ Once(mshrQ) /\ processing \in Req \cup {0}
      /\ 0 \notin Req
  BY ReqSeq, Sizes DEF BuffersOK, OnceOK
<1>2. CASE processing # 0
  <2>1. ServedEntry = processing /\ ServedEntry \in Req /\ mshrQ' = mshrQ
    BY <1>1, <1>2 DEF ServedEntry
  <2>2. ServedEntry \in Held["serve"]  BY <2>1, HeldIs
  <2>3. ServedEntry \notin Held["ready"]  BY <2>2, PlaceIs DEF PlacesOK
  <2>4. ServedEntry \notin Range(mshrQ)  BY <2>3, HeldIs
  <2>5. \A u \in Req : u # ServedEntry => u \notin Held["serve"]  BY <2>1, HeldIs
  <2> QED  BY <1>1, <2>1, <2>2, <2>4, <2>5
<1>3. CASE processing = 0
  <2>1. ServedEntry = Head(mshrQ) /\ mshrQ # <<>> /\ mshrQ' = Tail(mshrQ)
    BY <1>3 DEF ServedEntry
  <2>2. Head(mshrQ) \in Req /\ mshrQ' \in Seq(Req)  BY <1>1, <2>1, TailElements
  <2>3. /\ Once(mshrQ') /\ Head(mshrQ) \in Range(mshrQ)
        /\ \A u \in Req : u \in Range(mshrQ') <=> u \in Range(mshrQ) /\ u # Head(mshrQ)
    BY <1>1, <2>1, OnceTake
  <2>4. ServedEntry \in Held["ready"]  BY <2>1, <2>3, HeldIs
  <2>5. Held["serve"] = {}  BY <1>1, <1>3, HeldIs
  <2> QED  BY <2>1, <2>2, <2>3, <2>4, <2>5
<1> QED  BY <1>2, <1>3

LEMMA MshrStageOK ==
    ASSUME LockInv, MshrStage, issued' = issued
    PROVE  LockInv'
<1> DEFINE e == ServedEntry
           t == Head(entry[e].reqs)
<1>1. BlocksOK /\ TransOK /\ EntriesOK /\ BuffersOK /\ OnceOK /\ MemoryOK /\ RequestsOK /\ PlacesOK
      /\ JoinedOK
  BY InvParts
<1>2. /\ trans' = trans /\ blocks' = blocks /\ issued' = issued
      /\ topPort' = topPort /\ dirQ' = dirQ /\ dirToBank' = dirToBank
      /\ bank' = bank /\ post' = post /\ wbQ' = wbQ /\ wbToBank' = wbToBank
      /\ mshr' = mshr /\ fetching' = fetching /\ pending' = pending
      /\ toMem' = toMem /\ botIn' = botIn /\ cstate' = cstate /\ toEvict' = toEvict
      /\ inFlight' = inFlight \ {t} /\ entry' = [entry EXCEPT ![e].reqs = Tail(@)]
      /\ processing' = IF Len(entry[e].reqs) > 1 THEN e ELSE 0
      /\ mshrQ' = IF processing # 0 THEN mshrQ ELSE Tail(mshrQ)
      /\ processing # 0 \/ mshrQ # <<>>
  BY DEF MshrStage, dirVars, bankVars, wbVars, memPorts, flushVars, ServedEntry
<1>3. /\ e \in Req /\ e \in Held["ready"] \cup Held["serve"]
      /\ mshrQ' \in Seq(Req) /\ Once(mshrQ')
      /\ \A u \in Req : u \in Range(mshrQ') <=> u \in Range(mshrQ) /\ u # e
      /\ \A u \in Req : u # e => u \notin Held["serve"]
  BY <1>1, <1>2, ServedEntryIs
<1> HIDE DEF e
<1>4. entry[e].reqs \in Seq(Req) /\ entry[e].reqs # <<>>
  <2>1. entry[e].reqs \in Seq(Req)  BY <1>1, <1>3 DEF EntriesOK
  <2>2. trans[e].act \in Leads  BY <1>1, <1>3, PlaceIs, ActsAre DEF PlacesOK, Leads
  <2> QED  BY <1>1, <1>3, <2>1, <2>2, PlaceIs DEF JoinedOK
<1>5. Tail(entry[e].reqs) \in Seq(Req)  BY <1>4, TailElements
<1>6. /\ EntriesOK' /\ entry'[e].reqs = Tail(entry[e].reqs) /\ entry'[e].way = entry[e].way
      /\ \A u \in Req : u # e => SameEntry(u)
  BY <1>1, <1>2, <1>3, <1>5 DEF EntriesOK, EntryField, SameEntry
<1>7. BuffersOK'
  <2>1. processing' \in Req \cup {0} /\ inFlight' \in SUBSET Req
    BY <1>1, <1>2, <1>3 DEF BuffersOK
  <2> QED  BY <1>1, <1>2, <1>3, <2>1 DEF BuffersOK
<1>8. OnceOK' /\ MemoryOK' /\ BlocksOK' /\ TransOK'
  BY <1>1, <1>2, <1>3 DEF OnceOK, MemoryOK, Reads, IsData, BlocksOK, TransOK
<1>9. ASSUME NEW r \in Place, NEW u \in Req
      PROVE  u \in Held'[r] <=> IF u = e THEN r = "serve" /\ Len(entry[e].reqs) > 1 ELSE u \in Held[r]
  <2>1. CASE r = "serve"
    <3>1. CASE u = e  BY <1>2, <1>3, <2>1, <3>1, HeldIsNext, Sizes
    <3>2. CASE u # e  BY <1>2, <1>3, <2>1, <3>2, HeldIsNext, Sizes
    <3> QED  BY <3>1, <3>2
  <2>2. CASE r = "ready"  BY <1>3, <2>2, HeldIs, HeldIsNext
  <2>3. CASE r \notin {"serve", "ready"}
    <3>1. Held'[r] = Held[r]  BY <1>2, <2>3, HeldIs, HeldIsNext, PlaceIs
    <3>2. e \notin Held[r]  BY <1>1, <1>3, <2>3, PlaceIs DEF PlacesOK
    <3> QED  BY <2>3, <3>1, <3>2
  <2> QED  BY <2>1, <2>2, <2>3
<1>10. Serves(e, t)
  BY <1>2, <1>3, <1>6, <1>9 DEF Serves, SameTrans, SameBlocks
<1> HIDE DEF t
<1>11. RequestsOK'  BY <1>1, <1>3, <1>6, <1>7, <1>10, ServeStep
<1> QED  BY <1>6, <1>7, <1>8, <1>11, InvWhole

-------------------------------------------------------------------------------
\* The write buffer.

\* What its steps leave alone.
BufferSame == UNCHANGED <<issued, topPort, dirQ, inFlight, dirToBank, bank, post, processing, mshrQ,
                          cstate, toEvict>>

LEMMA CombineBlockOK ==
    ASSUME BlocksOK, NEW t, CombineBlock(t)
    PROVE  BlocksOK' /\ SameBlocks
<1>1. CASE trans[t].orphan
  <2>1. blocks' = blocks  BY <1>1 DEF CombineBlock
  <2> QED  BY <2>1 DEF BlocksOK, SameBlocks
<1>2. CASE ~ trans[t].orphan
  <2>1. PICK d, m : blocks' = [blocks EXCEPT ![entry[t].way] = [@ EXCEPT !.dirty = d, !.mask = m]]
    BY <1>2 DEF CombineBlock, CombinedBlock
  <2> QED  BY <2>1 DEF BlocksOK, SameBlocks, BlockField
<1> QED  BY <1>1, <1>2

\* The head of the queue of the write buffer is a transaction; when it leaves, the others stay.
LEMMA BufferHead ==
    ASSUME LockInv, wbQ # <<>>
    PROVE  /\ Head(wbQ) \in Trans /\ Tail(wbQ) \in Seq(Trans) /\ Once(Tail(wbQ))
           /\ \A u \in Req : u \in Range(Tail(wbQ)) <=> u \in Range(wbQ) /\ u # Head(wbQ)
           /\ Head(wbQ) \in Req =>
                  /\ Head(wbQ) \in Held["buffer"] /\ trans[Head(wbQ)].act \in ActAt["buffer"]
                  /\ \A r \in Place : r # "buffer" => Head(wbQ) \notin Held[r]
           /\ trans[Head(wbQ)].act \notin {"none", "evict"} => Head(wbQ) \in Req
<1>1. BuffersOK /\ OnceOK /\ PlacesOK /\ TransOK  BY InvParts
<1>2. wbQ \in Seq(Trans) /\ Once(wbQ)  BY <1>1 DEF BuffersOK, OnceOK
<1>3. /\ Head(wbQ) \in Trans /\ Tail(wbQ) \in Seq(Trans) /\ Once(Tail(wbQ)) /\ Head(wbQ) \in Range(wbQ)
      /\ \A u \in Req : u \in Range(Tail(wbQ)) <=> u \in Range(wbQ) /\ u # Head(wbQ)
  BY <1>2, OnceTake
<1>4. ASSUME Head(wbQ) \in Req
      PROVE  /\ Head(wbQ) \in Held["buffer"] /\ trans[Head(wbQ)].act \in ActAt["buffer"]
             /\ \A r \in Place : r # "buffer" => Head(wbQ) \notin Held[r]
  <2>1. Head(wbQ) \in Held["buffer"]  BY <1>3, <1>4, HeldIs
  <2> QED  BY <1>1, <2>1, PlaceIs DEF PlacesOK
<1>5. trans[Head(wbQ)].act \notin {"none", "evict"} => Head(wbQ) \in Req
  BY <1>1, <1>3 DEF TransOK
<1> QED  BY <1>3, <1>4, <1>5

\* What goes up to the bank is not there.
LEMMA PutUp ==
    ASSUME LockInv, NEW t \in Req, t \notin Held["up"]
    PROVE  /\ Append(wbToBank, t) \in Seq(Req) /\ Once(Append(wbToBank, t))
           /\ Range(Append(wbToBank, t)) = Range(wbToBank) \cup {t}
<1>1. BuffersOK /\ OnceOK  BY InvParts
<1>2. wbToBank \in Seq(Req) /\ wbToBank \in Seq(Trans) /\ Once(wbToBank)
  BY <1>1, ReqSeq DEF BuffersOK, OnceOK
<1>3. Append(wbToBank, t) \in Seq(Req)  BY <1>2, AppendElements
<1>4. t \notin Range(wbToBank)  BY HeldIs
<1> QED  BY <1>2, <1>3, <1>4, Sizes, OncePut

LEMMA FetchLocallyOK ==
    ASSUME LockInv, BufferSame, wbQ # <<>>, FetchLocally(Head(wbQ)), botIn' = botIn
    PROVE  LockInv'
<1> DEFINE t == Head(wbQ)
<1>1. BlocksOK /\ TransOK /\ EntriesOK /\ BuffersOK /\ OnceOK /\ MemoryOK /\ RequestsOK
  BY InvParts
<1>2. /\ issued' = issued /\ topPort' = topPort /\ dirQ' = dirQ /\ inFlight' = inFlight
      /\ dirToBank' = dirToBank /\ bank' = bank /\ post' = post /\ processing' = processing
      /\ mshrQ' = mshrQ /\ cstate' = cstate /\ toEvict' = toEvict /\ botIn' = botIn
  BY DEF BufferSame
<1>3. /\ trans[t].act = "fetch" /\ wbToBank' = Append(wbToBank, t)
      /\ \E e : entry' = [entry EXCEPT ![t].shares = e]
      /\ \E e, d : trans' = [trans EXCEPT ![e].vdata = d, ![t].act = "fetched"]
      /\ CombineBlock(t) /\ mshr' = mshr \ {t} /\ wbQ' = Tail(wbQ)
      /\ pending' = pending /\ fetching' = fetching /\ toMem' = toMem
  BY DEF FetchLocally
<1>4. /\ t \in Req /\ t \in Held["buffer"] /\ wbQ' \in Seq(Trans) /\ Once(wbQ')
      /\ \A u \in Req : u \in Range(wbQ') <=> u \in Range(wbQ) /\ u # t
      /\ \A r \in Place : r # "buffer" => t \notin Held[r]
  BY <1>3, BufferHead
<1> HIDE DEF t
<1>5. wbToBank' \in Seq(Req) /\ Once(wbToBank') /\ Range(wbToBank') = Range(wbToBank) \cup {t}
  BY <1>3, <1>4, PutUp, PlaceIs
<1>6. BlocksOK' /\ SameBlocks  BY <1>1, <1>3, CombineBlockOK
<1>7. EntriesOK' /\ SameEntries
  BY <1>1, <1>3 DEF EntriesOK, EntryField, SameEntries, SameEntry
<1>8. /\ TransOK' /\ \A u \in Req : u # t => SameTrans(u)
      /\ trans'[t].act = "fetched" /\ trans'[t].way = trans[t].way /\ trans'[t].orphan = trans[t].orphan
  <2>1. PICK e, d : trans' = [trans EXCEPT ![e].vdata = d, ![t].act = "fetched"]  BY <1>3
  <2> QED  BY <1>1, <1>4, <2>1, Sizes DEF TransOK, TransField, SameTrans
<1>9. BuffersOK'
  <2>1. mshr' \in SUBSET Req  BY <1>1, <1>3 DEF BuffersOK
  <2> QED  BY <1>1, <1>2, <1>3, <1>4, <1>5, <2>1 DEF BuffersOK
<1>10. OnceOK' /\ MemoryOK'
  BY <1>1, <1>2, <1>3, <1>4, <1>5 DEF OnceOK, MemoryOK, Reads, IsData
<1>11. RequestsOK'
  <2>1. \A r \in Place : r # "buffer" /\ r # "up" => Held'[r] = Held[r]
    BY <1>2, <1>3, HeldIs, HeldIsNext, PlaceIs
  <2>2. \A u \in Req : u \in Held'["buffer"] <=> u \in Held["buffer"] /\ u # t
    BY <1>4, HeldIs, HeldIsNext
  <2>3. \A u \in Req : u \in Held'["up"] <=> u \in Held["up"] \/ u = t
    BY <1>5, HeldIs, HeldIsNext
  <2>4. "buffer" \in BusyPlace /\ "up" \in BusyPlace  BY PlaceIs
  <2>5. /\ trans'[t].act = "readHit" <=> trans[t].act = "readHit"
        /\ trans'[t].act \in Leads => trans[t].act \in Leads
    BY <1>3, <1>8 DEF Leads
  <2>6. trans'[t].act \in ActAt["up"]  BY <1>8, ActsAre
  <2>7. SameFront  BY <1>2 DEF SameFront
  <2> QED  BY <1>1, <1>4, <1>6, <1>7, <1>8, <1>9, <2>1, <2>2, <2>3, <2>4, <2>5, <2>6, <2>7, TokenStep
<1> QED  BY <1>6, <1>7, <1>8, <1>9, <1>10, <1>11, InvWhole

LEMMA FetchFromBottomOK ==
    ASSUME LockInv, BufferSame, wbQ # <<>>, FetchFromBottom(Head(wbQ)), botIn' = botIn
    PROVE  LockInv'
<1> DEFINE t == Head(wbQ)
<1>1. BlocksOK /\ TransOK /\ EntriesOK /\ BuffersOK /\ OnceOK /\ MemoryOK /\ RequestsOK
  BY InvParts
<1>2. /\ issued' = issued /\ topPort' = topPort /\ dirQ' = dirQ /\ inFlight' = inFlight
      /\ dirToBank' = dirToBank /\ bank' = bank /\ post' = post /\ processing' = processing
      /\ mshrQ' = mshrQ /\ cstate' = cstate /\ toEvict' = toEvict /\ botIn' = botIn
  BY DEF BufferSame
<1>3. /\ trans[t].act = "fetch" /\ toMem' = toMem \cup {[op |-> "read", id |-> t]}
      /\ fetching' = fetching \cup {t} /\ wbQ' = Tail(wbQ)
      /\ trans' = trans /\ blocks' = blocks /\ wbToBank' = wbToBank /\ mshr' = mshr
      /\ entry' = entry /\ pending' = pending
  BY DEF FetchFromBottom
<1>4. /\ t \in Req /\ t \in Held["buffer"] /\ wbQ' \in Seq(Trans) /\ Once(wbQ')
      /\ \A u \in Req : u \in Range(wbQ') <=> u \in Range(wbQ) /\ u # t
      /\ \A r \in Place : r # "buffer" => t \notin Held[r]
  BY <1>3, BufferHead
<1> HIDE DEF t
<1>5. BlocksOK' /\ TransOK' /\ EntriesOK'  BY <1>1, <1>3 DEF BlocksOK, TransOK, EntriesOK
<1>6. BuffersOK'
  <2>1. fetching' \in SUBSET Req /\ toMem' \in SUBSET [op : {"read", "write"}, id : Trans]
    BY <1>1, <1>3, <1>4, Sizes DEF BuffersOK
  <2> QED  BY <1>1, <1>2, <1>3, <1>4, <2>1 DEF BuffersOK
<1>7. OnceOK'  BY <1>1, <1>2, <1>3, <1>4 DEF OnceOK
<1>8. MemoryOK'
  <2>1. Reads' = Reads \cup {t}
    <3> DEFINE x == [op |-> "read", id |-> t]
    <3>1. x.op = "read" /\ x.id = t /\ toMem' = toMem \cup {x}  BY <1>3
    <3> HIDE DEF x
    <3>2. {m \in toMem' : m.op = "read"} = {m \in toMem : m.op = "read"} \cup {x}  BY <3>1
    <3> QED  BY <3>1, <3>2 DEF Reads
  <2>2. t \notin fetching  BY <1>4, HeldIs, PlaceIs
  <2> QED  BY <1>1, <1>2, <1>3, <2>1, <2>2 DEF MemoryOK, IsData
<1>9. RequestsOK'
  <2>1. \A r \in Place : r # "buffer" /\ r # "fetch" => Held'[r] = Held[r]
    BY <1>2, <1>3, HeldIs, HeldIsNext, PlaceIs
  <2>2. \A u \in Req : u \in Held'["buffer"] <=> u \in Held["buffer"] /\ u # t
    BY <1>4, HeldIs, HeldIsNext
  <2>3. \A u \in Req : u \in Held'["fetch"] <=> u \in Held["fetch"] \/ u = t
    BY <1>3, HeldIs, HeldIsNext
  <2>4. "buffer" \in BusyPlace /\ "fetch" \in BusyPlace  BY PlaceIs
  <2>5. (\A u \in Req : SameTrans(u)) /\ SameEntries /\ SameBlocks /\ SameFront
    BY <1>2, <1>3 DEF SameTrans, SameEntries, SameEntry, SameBlocks, SameFront
  <2>6. trans'[t].act \in ActAt["fetch"]  BY <1>3, ActsAre
  <2> QED  BY <1>1, <1>3, <1>4, <1>6, <2>1, <2>2, <2>3, <2>4, <2>5, <2>6, TokenStep
<1> QED  BY <1>5, <1>6, <1>7, <1>8, <1>9, InvWhole

\* An eviction is buffered; a write of the whole line can go to the bank then, and a
\* transaction that needs the line fetches it next.
LEMMA BufferEvictionOK ==
    ASSUME LockInv, BufferSame, wbQ # <<>>, BufferEviction(Head(wbQ)), botIn' = botIn
    PROVE  LockInv'
<1> DEFINE t == Head(wbQ)
<1>1. BlocksOK /\ TransOK /\ EntriesOK /\ BuffersOK /\ OnceOK /\ MemoryOK /\ RequestsOK
  BY InvParts
<1>2. /\ issued' = issued /\ topPort' = topPort /\ dirQ' = dirQ /\ inFlight' = inFlight
      /\ dirToBank' = dirToBank /\ bank' = bank /\ post' = post /\ processing' = processing
      /\ mshrQ' = mshrQ /\ cstate' = cstate /\ toEvict' = toEvict /\ botIn' = botIn
  BY DEF BufferSame
<1>3. /\ trans[t].act \in {"evict", "evictWrite", "evictFetch"} /\ pending' = Append(pending, t)
      /\ blocks' = blocks /\ mshr' = mshr /\ entry' = entry /\ fetching' = fetching /\ toMem' = toMem
  BY DEF BufferEviction, IsEviction
<1>4. /\ t \in Trans /\ Tail(wbQ) \in Seq(Trans) /\ Once(Tail(wbQ))
      /\ \A u \in Req : u \in Range(Tail(wbQ)) <=> u \in Range(wbQ) /\ u # t
      /\ t \in Req => /\ t \in Held["buffer"] /\ trans[t].act \in ActAt["buffer"]
                      /\ \A r \in Place : r # "buffer" => t \notin Held[r]
      /\ trans[t].act \notin {"none", "evict"} => t \in Req
  BY BufferHead
<1>5. trans[t].act = "evictWrite" =>
          /\ wbToBank' = Append(wbToBank, t) /\ trans' = [trans EXCEPT ![t].act = "writeHit"]
          /\ wbQ' = Tail(wbQ)
  BY DEF BufferEviction
<1>6. trans[t].act = "evictFetch" =>
          trans' = [trans EXCEPT ![t].act = "fetch"] /\ wbToBank' = wbToBank /\ wbQ' = wbQ
  BY DEF BufferEviction
<1>7. trans[t].act = "evict" => wbQ' = Tail(wbQ) /\ trans' = trans /\ wbToBank' = wbToBank
  BY DEF BufferEviction
<1> HIDE DEF t
<1>8. pending' \in Seq(Trans)  BY <1>1, <1>3, <1>4, AppendElements DEF BuffersOK
<1>9. BlocksOK' /\ EntriesOK' /\ MemoryOK' /\ SameEntries /\ SameBlocks /\ SameFront
  BY <1>1, <1>2, <1>3 DEF BlocksOK, EntriesOK, MemoryOK, Reads, IsData, SameEntries, SameEntry,
     SameBlocks, SameFront
<1>10. CASE trans[t].act = "evictWrite"
  <2>1. /\ t \in Req /\ t \in Held["buffer"] /\ t \notin Held["up"]
        /\ wbToBank' = Append(wbToBank, t) /\ trans' = [trans EXCEPT ![t].act = "writeHit"]
        /\ wbQ' = Tail(wbQ)
    BY <1>4, <1>5, <1>10, PlaceIs
  <2>2. wbToBank' \in Seq(Req) /\ Once(wbToBank') /\ Range(wbToBank') = Range(wbToBank) \cup {t}
    BY <2>1, PutUp
  <2>3. /\ TransOK' /\ \A u \in Req : u # t => SameTrans(u)
        /\ trans'[t].act = "writeHit" /\ trans'[t].way = trans[t].way
        /\ trans'[t].orphan = trans[t].orphan
    BY <1>1, <2>1, Sizes DEF TransOK, TransField, SameTrans
  <2>4. BuffersOK'  BY <1>1, <1>2, <1>3, <1>4, <1>8, <2>1, <2>2 DEF BuffersOK
  <2>5. OnceOK'  BY <1>1, <1>2, <1>4, <2>1, <2>2 DEF OnceOK
  <2>6. RequestsOK'
    <3>1. \A r \in Place : r # "buffer" /\ r # "up" => Held'[r] = Held[r]
      BY <1>2, <1>3, HeldIs, HeldIsNext, PlaceIs
    <3>2. \A u \in Req : u \in Held'["buffer"] <=> u \in Held["buffer"] /\ u # t
      BY <1>4, <2>1, HeldIs, HeldIsNext
    <3>3. \A u \in Req : u \in Held'["up"] <=> u \in Held["up"] \/ u = t
      BY <2>2, HeldIs, HeldIsNext
    <3>4. "buffer" \in BusyPlace /\ "up" \in BusyPlace  BY PlaceIs
    <3>5. /\ trans'[t].act = "readHit" <=> trans[t].act = "readHit"
          /\ trans'[t].act \in Leads => trans[t].act \in Leads
      BY <1>10, <2>3 DEF Leads
    <3>6. trans'[t].act \in ActAt["up"]  BY <2>3, ActsAre
    <3> QED  BY <1>1, <1>9, <2>1, <2>3, <2>4, <3>1, <3>2, <3>3, <3>4, <3>5, <3>6, TokenStep
  <2> QED  BY <1>9, <2>3, <2>4, <2>5, <2>6, InvWhole
<1>11. CASE trans[t].act = "evictFetch"
  <2>1. /\ t \in Req /\ t \in Held["buffer"]
        /\ trans' = [trans EXCEPT ![t].act = "fetch"] /\ wbToBank' = wbToBank /\ wbQ' = wbQ
    BY <1>4, <1>6, <1>11
  <2>2. /\ TransOK' /\ \A u \in Req : u # t => SameTrans(u)
        /\ trans'[t].act = "fetch" /\ trans'[t].way = trans[t].way
        /\ trans'[t].orphan = trans[t].orphan
    BY <1>1, <2>1, Sizes DEF TransOK, TransField, SameTrans
  <2>3. BuffersOK'  BY <1>1, <1>2, <1>3, <1>8, <2>1 DEF BuffersOK
  <2>4. OnceOK'  BY <1>1, <1>2, <2>1 DEF OnceOK
  <2>5. RequestsOK'
    <3>1. \A r \in Place : Held'[r] = Held[r]  BY <1>2, <1>3, <2>1, HeldIs, HeldIsNext, PlaceIs
    <3>2. Moves(t, "buffer", "buffer")  BY <1>4, <2>1, <3>1 DEF Moves
    <3>3. "buffer" \in BusyPlace  BY PlaceIs
    <3>4. /\ trans'[t].act = "readHit" <=> trans[t].act = "readHit"
          /\ trans'[t].act \in Leads => trans[t].act \in Leads
      BY <1>11, <2>2 DEF Leads
    <3>5. trans'[t].act \in ActAt["buffer"]  BY <2>2, ActsAre
    <3> QED  BY <1>1, <1>9, <2>1, <2>2, <2>3, <3>2, <3>3, <3>4, <3>5, MoveStep
  <2> QED  BY <1>9, <2>2, <2>3, <2>4, <2>5, InvWhole
<1>12. CASE trans[t].act = "evict"
  <2>1. wbQ' = Tail(wbQ) /\ trans' = trans /\ wbToBank' = wbToBank  BY <1>7, <1>12
  <2>2. t \notin Req  BY <1>4, <1>12, ActsAre
  <2>3. TransOK' /\ \A u \in Req : SameTrans(u)  BY <1>1, <2>1 DEF TransOK, SameTrans
  <2>4. BuffersOK'  BY <1>1, <1>2, <1>3, <1>4, <1>8, <2>1 DEF BuffersOK
  <2>5. OnceOK'  BY <1>1, <1>2, <1>4, <2>1 DEF OnceOK
  <2>6. RequestsOK'
    <3>1. \A u \in Req : u \in Range(wbQ') <=> u \in Range(wbQ)  BY <1>4, <2>1, <2>2
    <3>2. Range(wbQ') \cap Req = Range(wbQ) \cap Req  BY <3>1
    <3>3. \A r \in Place : Held'[r] = Held[r]
      BY <1>2, <1>3, <2>1, <3>2, HeldIs, HeldIsNext, PlaceIs
    <3> QED  BY <1>1, <1>9, <2>3, <3>3, StayStep
  <2> QED  BY <1>9, <2>3, <2>4, <2>5, <2>6, InvWhole
<1> QED  BY <1>3, <1>10, <1>11, <1>12

LEMMA ProcessNewTransactionOK ==
    ASSUME LockInv, ProcessNewTransaction, issued' = issued
    PROVE  LockInv'
<1>1. wbQ # <<>> /\ BufferSame /\ botIn' = botIn
  BY DEF ProcessNewTransaction, wbOther, frontVars, flushVars, BufferSame
<1>2. CASE FetchLocally(Head(wbQ))  BY <1>1, <1>2, FetchLocallyOK
<1>3. CASE FetchFromBottom(Head(wbQ))  BY <1>1, <1>3, FetchFromBottomOK
<1>4. CASE BufferEviction(Head(wbQ))  BY <1>1, <1>4, BufferEvictionOK
<1> QED  BY <1>2, <1>3, <1>4 DEF ProcessNewTransaction

LEMMA WriteEvictionOK ==
    ASSUME LockInv, WriteEviction, issued' = issued
    PROVE  LockInv'
<1>1. BlocksOK /\ TransOK /\ EntriesOK /\ BuffersOK /\ OnceOK /\ MemoryOK /\ RequestsOK
  BY InvParts
<1>2. /\ trans' = trans /\ blocks' = blocks /\ entry' = entry /\ issued' = issued
      /\ topPort' = topPort /\ dirQ' = dirQ /\ inFlight' = inFlight /\ dirToBank' = dirToBank
      /\ bank' = bank /\ post' = post /\ wbQ' = wbQ /\ wbToBank' = wbToBank /\ mshrQ' = mshrQ
      /\ processing' = processing /\ mshr' = mshr /\ fetching' = fetching
      /\ botIn' = botIn /\ cstate' = cstate /\ toEvict' = toEvict
      /\ pending # <<>> /\ pending' = Tail(pending)
      /\ toMem' = toMem \cup {[op |-> "write", id |-> Head(pending)]}
  BY DEF WriteEviction, wbOther, frontVars, flushVars
<1>3. Head(pending) \in Trans /\ pending' \in Seq(Trans)  BY <1>1, <1>2, TailElements DEF BuffersOK
<1>4. BlocksOK' /\ TransOK' /\ EntriesOK' /\ OnceOK'
  BY <1>1, <1>2 DEF BlocksOK, TransOK, EntriesOK, OnceOK
<1>5. BuffersOK'
  <2>1. toMem' \in SUBSET [op : {"read", "write"}, id : Trans]  BY <1>1, <1>2, <1>3 DEF BuffersOK
  <2> QED  BY <1>1, <1>2, <1>3, <2>1 DEF BuffersOK
<1>6. MemoryOK'
  <2> DEFINE x == [op |-> "write", id |-> Head(pending)]
  <2>1. x.op = "write" /\ toMem' = toMem \cup {x}  BY <1>2
  <2> HIDE DEF x
  <2>2. {m \in toMem' : m.op = "read"} = {m \in toMem : m.op = "read"}  BY <2>1
  <2>3. Reads' = Reads  BY <2>2 DEF Reads
  <2> QED  BY <1>1, <1>2, <2>3 DEF MemoryOK, IsData
<1>7. RequestsOK'
  <2>1. \A r \in Place : Held'[r] = Held[r]  BY <1>2, HeldIs, HeldIsNext, PlaceIs
  <2>2. (\A u \in Req : SameTrans(u)) /\ SameEntries /\ SameBlocks /\ SameFront
    BY <1>2 DEF SameTrans, SameEntries, SameEntry, SameBlocks, SameFront
  <2> QED  BY <1>1, <2>1, <2>2, StayStep
<1> QED  BY <1>4, <1>5, <1>6, <1>7, InvWhole

\* A response of memory leaves the port: the others are still answers to one read each.
LEMMA BotInHead ==
    ASSUME LockInv, botIn # <<>>, botIn' = Tail(botIn)
    PROVE  /\ botIn' \in Seq(Range(botIn'))
           /\ \A i \in DOMAIN botIn' : botIn'[i].op = "data" => botIn'[i].id \in fetching \ Reads
           /\ \A i, j \in DOMAIN botIn' : botIn'[i].op = "data" /\ botIn'[j].op = "data"
                         /\ botIn'[i].id = botIn'[j].id => i = j
           /\ Head(botIn).op = "data" =>
                  /\ Head(botIn).id \in fetching \ Reads
                  /\ \A i \in DOMAIN botIn' : botIn'[i].op = "data" => botIn'[i].id # Head(botIn).id
<1> DEFINE S == Range(botIn)  n == Len(botIn)
<1>1. botIn \in Seq(S) /\ MemoryOK  BY InvParts DEF BuffersOK
<1>2. botIn' \in Seq(Range(botIn'))  BY <1>1, AnySeq
<1> HIDE DEF S
<1>3. /\ n \in Nat \ {0} /\ DOMAIN botIn = 1 .. n /\ Head(botIn) = botIn[1]
      /\ botIn' \in Seq(S) /\ Len(botIn') = n - 1
      /\ \A i \in 1 .. n - 1 : botIn'[i] = botIn[i + 1]
  BY <1>1, TailElements, SeqType
<1>4. DOMAIN botIn' = 1 .. n - 1  BY <1>3, SeqType
<1> HIDE DEF n
<1>5. /\ \A i \in 1 .. n : botIn[i].op = "data" => botIn[i].id \in fetching \ Reads
      /\ \A i, j \in 1 .. n : botIn[i].op = "data" /\ botIn[j].op = "data" /\ botIn[i].id = botIn[j].id
                              => i = j
  BY <1>1, <1>3 DEF MemoryOK, IsData
<1>6. \A i \in 1 .. n - 1 : i + 1 \in 1 .. n /\ i + 1 # 1  BY <1>3
<1>7. 1 \in 1 .. n  BY <1>3
<1>8. \A i \in 1 .. n - 1 : botIn'[i].op = "data" => botIn'[i].id \in fetching \ Reads
  BY <1>3, <1>5, <1>6
<1>9. ASSUME NEW i \in 1 .. n - 1, NEW j \in 1 .. n - 1, botIn'[i].op = "data", botIn'[j].op = "data",
             botIn'[i].id = botIn'[j].id
      PROVE  i = j
  <2>1. i + 1 = j + 1  BY <1>3, <1>5, <1>6, <1>9
  <2> QED  BY <1>3, <2>1
<1>10. ASSUME Head(botIn).op = "data"
       PROVE  /\ Head(botIn).id \in fetching \ Reads
              /\ \A i \in 1 .. n - 1 : botIn'[i].op = "data" => botIn'[i].id # Head(botIn).id
  <2>1. Head(botIn).id \in fetching \ Reads  BY <1>3, <1>5, <1>7, <1>10
  <2>2. ASSUME NEW i \in 1 .. n - 1, botIn'[i].op = "data"
        PROVE  botIn'[i].id # Head(botIn).id
    BY <1>3, <1>5, <1>6, <1>7, <1>10, <2>2
  <2> QED  BY <2>1, <2>2
<1>11. \A i \in DOMAIN botIn' : botIn'[i].op = "data" => botIn'[i].id \in fetching \ Reads
  BY <1>4, <1>8
<1>12. \A i, j \in DOMAIN botIn' : botIn'[i].op = "data" /\ botIn'[j].op = "data"
                         /\ botIn'[i].id = botIn'[j].id => i = j
  <2>1. SUFFICES ASSUME NEW i \in DOMAIN botIn', NEW j \in DOMAIN botIn', botIn'[i].op = "data",
                        botIn'[j].op = "data", botIn'[i].id = botIn'[j].id
                 PROVE  i = j
    OBVIOUS
  <2>2. i \in 1 .. n - 1 /\ j \in 1 .. n - 1  BY <1>4
  <2> QED  BY <1>9, <2>1, <2>2
<1>13. Head(botIn).op = "data" =>
          /\ Head(botIn).id \in fetching \ Reads
          /\ \A i \in DOMAIN botIn' : botIn'[i].op = "data" => botIn'[i].id # Head(botIn).id
  BY <1>4, <1>10
<1> QED  BY <1>2, <1>11, <1>12, <1>13

LEMMA ProcessWriteDoneOK ==
    ASSUME LockInv, ProcessWriteDone, issued' = issued
    PROVE  LockInv'
<1>1. BlocksOK /\ TransOK /\ EntriesOK /\ BuffersOK /\ OnceOK /\ MemoryOK /\ RequestsOK
  BY InvParts
<1>2. /\ trans' = trans /\ blocks' = blocks /\ entry' = entry /\ issued' = issued
      /\ topPort' = topPort /\ dirQ' = dirQ /\ inFlight' = inFlight /\ dirToBank' = dirToBank
      /\ bank' = bank /\ post' = post /\ wbQ' = wbQ /\ wbToBank' = wbToBank /\ mshrQ' = mshrQ
      /\ processing' = processing /\ mshr' = mshr /\ fetching' = fetching /\ pending' = pending
      /\ toMem' = toMem /\ cstate' = cstate /\ toEvict' = toEvict
      /\ botIn # <<>> /\ botIn' = Tail(botIn)
  BY DEF ProcessWriteDone, wbOther, frontVars, flushVars
<1>3. /\ botIn' \in Seq(Range(botIn'))
      /\ \A i \in DOMAIN botIn' : botIn'[i].op = "data" => botIn'[i].id \in fetching \ Reads
      /\ \A i, j \in DOMAIN botIn' : botIn'[i].op = "data" /\ botIn'[j].op = "data"
                         /\ botIn'[i].id = botIn'[j].id => i = j
  BY <1>2, BotInHead
<1>4. BlocksOK' /\ TransOK' /\ EntriesOK' /\ OnceOK' /\ BuffersOK'
  BY <1>1, <1>2, <1>3 DEF BlocksOK, TransOK, EntriesOK, OnceOK, BuffersOK
<1>5. MemoryOK'
  <2>1. Reads' = Reads /\ Reads \subseteq fetching  BY <1>1, <1>2 DEF Reads, MemoryOK
  <2> QED  BY <1>2, <1>3, <2>1 DEF MemoryOK, IsData
<1>6. RequestsOK'
  <2>1. \A r \in Place : Held'[r] = Held[r]  BY <1>2, HeldIs, HeldIsNext, PlaceIs
  <2>2. (\A u \in Req : SameTrans(u)) /\ SameEntries /\ SameBlocks /\ SameFront
    BY <1>2 DEF SameTrans, SameEntries, SameEntry, SameBlocks, SameFront
  <2> QED  BY <1>1, <2>1, <2>2, StayStep
<1> QED  BY <1>4, <1>5, <1>6, InvWhole

\* The data of an entry arrive and go up to the bank.
LEMMA ProcessDataReadyOK ==
    ASSUME LockInv, ProcessDataReady, issued' = issued
    PROVE  LockInv'
<1> DEFINE t == Head(botIn).id
<1>1. BlocksOK /\ TransOK /\ EntriesOK /\ BuffersOK /\ OnceOK /\ MemoryOK /\ RequestsOK /\ PlacesOK
  BY InvParts
<1>2. /\ issued' = issued /\ topPort' = topPort /\ dirQ' = dirQ /\ inFlight' = inFlight
      /\ dirToBank' = dirToBank /\ bank' = bank /\ post' = post /\ wbQ' = wbQ /\ mshrQ' = mshrQ
      /\ processing' = processing /\ pending' = pending
      /\ toMem' = toMem /\ cstate' = cstate /\ toEvict' = toEvict
      /\ botIn # <<>> /\ botIn' = Tail(botIn) /\ Head(botIn).op = "data"
  BY DEF ProcessDataReady, wbOther, frontVars, flushVars
<1>3. /\ \E d : entry' = [entry EXCEPT ![t].data = d]
      /\ CombineBlock(t) /\ mshr' = mshr \ {t} /\ trans' = [trans EXCEPT ![t].act = "fetched"]
      /\ wbToBank' = Append(wbToBank, t) /\ fetching' = fetching \ {t}
  BY DEF ProcessDataReady
<1>4. /\ t \in fetching \ Reads /\ botIn' \in Seq(Range(botIn'))
      /\ \A i \in DOMAIN botIn' : botIn'[i].op = "data" =>
             botIn'[i].id \in fetching \ Reads /\ botIn'[i].id # t
      /\ \A i, j \in DOMAIN botIn' : botIn'[i].op = "data" /\ botIn'[j].op = "data"
                         /\ botIn'[i].id = botIn'[j].id => i = j
  BY <1>2, BotInHead
<1> HIDE DEF t
<1>5. /\ t \in Req /\ t \in Held["fetch"] /\ trans[t].act = "fetch"
      /\ t \notin Held["up"]
  <2>1. t \in Held["fetch"] /\ t \in Req  BY <1>1, <1>4, HeldIs DEF BuffersOK
  <2>2. t \notin Held["up"] /\ trans[t].act \in ActAt["fetch"]  BY <1>1, <2>1, PlaceIs DEF PlacesOK
  <2> QED  BY <2>1, <2>2, ActsAre
<1>6. wbToBank' \in Seq(Req) /\ Once(wbToBank') /\ Range(wbToBank') = Range(wbToBank) \cup {t}
  BY <1>3, <1>5, PutUp
<1>7. BlocksOK' /\ SameBlocks  BY <1>1, <1>3, CombineBlockOK
<1>8. EntriesOK' /\ SameEntries
  BY <1>1, <1>3 DEF EntriesOK, EntryField, SameEntries, SameEntry
<1>9. /\ TransOK' /\ \A u \in Req : u # t => SameTrans(u)
      /\ trans'[t].act = "fetched" /\ trans'[t].way = trans[t].way /\ trans'[t].orphan = trans[t].orphan
  BY <1>1, <1>3, <1>5, Sizes DEF TransOK, TransField, SameTrans
<1>10. BuffersOK'
  <2>1. mshr' \in SUBSET Req /\ fetching' \in SUBSET Req  BY <1>1, <1>3 DEF BuffersOK
  <2> QED  BY <1>1, <1>2, <1>4, <1>6, <2>1 DEF BuffersOK
<1>11. OnceOK'  BY <1>1, <1>2, <1>6 DEF OnceOK
<1>12. MemoryOK'
  <2>1. Reads' = Reads /\ Reads \subseteq fetching  BY <1>1, <1>2 DEF Reads, MemoryOK
  <2> QED  BY <1>3, <1>4, <2>1 DEF MemoryOK, IsData
<1>13. RequestsOK'
  <2>1. \A r \in Place : r # "fetch" /\ r # "up" => Held'[r] = Held[r]
    BY <1>2, HeldIs, HeldIsNext, PlaceIs
  <2>2. \A u \in Req : u \in Held'["fetch"] <=> u \in Held["fetch"] /\ u # t
    BY <1>3, HeldIs, HeldIsNext
  <2>3. \A u \in Req : u \in Held'["up"] <=> u \in Held["up"] \/ u = t
    BY <1>6, HeldIs, HeldIsNext
  <2>4. "fetch" \in BusyPlace /\ "up" \in BusyPlace  BY PlaceIs
  <2>5. /\ trans'[t].act = "readHit" <=> trans[t].act = "readHit"
        /\ trans'[t].act \in Leads => trans[t].act \in Leads
    BY <1>5, <1>9 DEF Leads
  <2>6. trans'[t].act \in ActAt["up"]  BY <1>9, ActsAre
  <2>7. SameFront  BY <1>2 DEF SameFront
  <2> QED  BY <1>1, <1>5, <1>7, <1>8, <1>9, <1>10, <2>1, <2>2, <2>3, <2>4, <2>5, <2>6, <2>7, TokenStep
<1> QED  BY <1>7, <1>8, <1>9, <1>10, <1>11, <1>12, <1>13, InvWhole

-------------------------------------------------------------------------------
\* The flusher.

\* Only the state of the flusher changes.
LEMMA ControlStep ==
    ASSUME LockInv, QuietOK', toEvict' \in SUBSET Way,
           UNCHANGED <<trans, blocks, entry, issued, topPort, dirQ, inFlight, dirToBank, bank, post,
                       wbQ, wbToBank, mshrQ, processing, mshr, fetching, pending, toMem, botIn>>
    PROVE  LockInv'
<1>1. /\ trans' = trans /\ blocks' = blocks /\ entry' = entry /\ issued' = issued
      /\ topPort' = topPort /\ dirQ' = dirQ /\ inFlight' = inFlight /\ dirToBank' = dirToBank
      /\ bank' = bank /\ post' = post /\ wbQ' = wbQ /\ wbToBank' = wbToBank /\ mshrQ' = mshrQ
      /\ processing' = processing /\ mshr' = mshr /\ fetching' = fetching /\ pending' = pending
      /\ toMem' = toMem /\ botIn' = botIn
  OBVIOUS
<1>2. BlocksOK /\ TransOK /\ EntriesOK /\ BuffersOK /\ OnceOK /\ MemoryOK /\ RequestsOK
      /\ PlacesOK /\ FrontOK /\ JoinedOK /\ OrphansOK /\ LocksOK
  BY InvParts
<1>3. BlocksOK' /\ TransOK' /\ EntriesOK'  BY <1>1, <1>2 DEF BlocksOK, TransOK, EntriesOK
<1>4. BuffersOK'  BY <1>1, <1>2 DEF BuffersOK
<1>5. OnceOK' /\ MemoryOK'  BY <1>1, <1>2 DEF OnceOK, MemoryOK, Reads, IsData
<1>6. Held' = Held /\ Waiting' = Waiting  BY <1>1 DEF Held, Waiting
<1>7. PlacesOK'  BY <1>1, <1>2, <1>6 DEF PlacesOK
<1>8. FrontOK'  BY <1>1, <1>2, <1>6 DEF FrontOK
<1>9. JoinedOK'  BY <1>1, <1>2, <1>6 DEF JoinedOK
<1>10. OrphansOK'  BY <1>1, <1>2 DEF OrphansOK
<1>11. LocksOK'  BY <1>1, <1>2, <1>6 DEF LocksOK, Owns, ReadsOf
<1> QED  BY <1>3, <1>4, <1>5, <1>7, <1>8, <1>9, <1>10, <1>11, InvWhole DEF RequestsOK

\* Nothing is left in flight and no block is in use.
LEMMA ClearStep ==
    ASSUME BuffersOK, BuffersOK', EntriesOK, RequestsOK,
           inFlight' = {}, issued' = issued,
           IsInjective(topPort'), IsInjective(dirQ'), Range(topPort') \subseteq Range(topPort),
           Range(dirQ') = {},
           \A r \in Place : Held'[r] \subseteq Held[r],
           \A r \in BankPlace : Held'[r] = {},
           \A u \in Req : trans'[u].act = trans[u].act /\ trans'[u].way = trans[u].way,
           \A u \in Req : trans'[u].orphan => trans[u].orphan \/ u \in Held["up"],
           SameEntries,
           \A w \in Way : ~ blocks'[w].locked /\ blocks'[w].readers = 0
    PROVE  RequestsOK'
<1>1. PlacesOK /\ FrontOK /\ JoinedOK /\ OrphansOK /\ LocksOK  BY DEF RequestsOK
<1>2. Waiting' \subseteq Waiting  BY DEF Waiting
<1>3. \A r \in Place : Held[r] \subseteq Req  BY HeldReq
<1>4. PlacesOK'
  <2>1. \A r, s \in Place : r # s => Held'[r] \cap Held'[s] = {}  BY <1>1 DEF PlacesOK
  <2>2. \A r \in Place : \A u \in Held'[r] : trans'[u].act \in ActAt[r]  BY <1>1, <1>3 DEF PlacesOK
  <2> QED  BY <2>1, <2>2 DEF PlacesOK
<1>5. FrontOK'  BY <1>1, <1>2 DEF FrontOK
<1>6. JoinedOK'
  <2>1. \A e \in Req : entry'[e].reqs = entry[e].reqs /\ entry'[e].way = entry[e].way
    BY DEF SameEntries, SameEntry
  <2>2. ASSUME NEW e \in Req, NEW u \in Range(entry'[e].reqs)
        PROVE  u <= issued' /\ u \notin Waiting' /\ (u = e \/ trans'[u].act = "none")
    <3>1. u \in Range(entry[e].reqs) /\ u \in Req  BY <2>1 DEF EntriesOK, Range
    <3> QED  BY <1>1, <1>2, <3>1 DEF JoinedOK
  <2>3. ASSUME NEW r \in Place, NEW e \in Held'[r], trans'[e].act \in Leads
        PROVE  entry'[e].way = trans'[e].way /\ entry'[e].reqs # <<>>
    <3>1. e \in Req /\ e \in Held[r]  BY <1>3
    <3>2. trans[e].act \in Leads /\ trans'[e].way = trans[e].way  BY <2>3, <3>1
    <3>3. entry[e].way = trans[e].way /\ entry[e].reqs # <<>>  BY <1>1, <3>1, <3>2 DEF JoinedOK
    <3> QED  BY <2>1, <3>1, <3>2, <3>3
  <2> QED  BY <2>2, <2>3 DEF JoinedOK
<1>7. OrphansOK'
  <2>1. \A u \in Held["up"] : trans[u].act # "none"  BY <1>1, ActsAre, PlaceIs DEF PlacesOK
  <2> QED  BY <1>1, <2>1 DEF OrphansOK
<1>8. LocksOK'
  <2>1. \A w \in Way : ReadsOf(w)' = {}  BY DEF ReadsOf
  <2>2. Cardinality({}) = 0  BY FS_EmptySet
  <2> QED  BY <2>1, <2>2 DEF LocksOK
<1>9. QuietOK'  BY DEF QuietOK
<1> QED  BY <1>4, <1>5, <1>6, <1>7, <1>8, <1>9 DEF RequestsOK

LEMMA EmptyIs ==
    ASSUME NEW q, q = <<>>
    PROVE  Range(q) = {} /\ DOMAIN q = {} /\ IsInjective(q) /\ q \in Seq(Range(q))
<1>1. DOMAIN q = {}  OBVIOUS
<1>2. Range(q) = {}  BY <1>1, Zenon DEF Range
<1>3. IsInjective(q)  BY <1>1, Zenon DEF IsInjective
<1>4. q \in Seq({})  OBVIOUS
<1> QED  BY <1>1, <1>2, <1>3, <1>4

\* A block without its data.
LEMMA EmptyBlockIs ==
    ASSUME NEW d
    PROVE  /\ DOMAIN EmptyBlock(d) = BlockField
           /\ EmptyBlock(d).locked \in BOOLEAN /\ ~ EmptyBlock(d).locked
           /\ EmptyBlock(d).readers = 0
  BY DEF EmptyBlock, BlockField

LEMMA DiscardOK ==
    ASSUME LockInv, DiscardInflight, cstate' = "preflushing",
           UNCHANGED <<trans, entry, issued, wbToBank, mshr, fetching, pending, toMem, botIn, toEvict>>
    PROVE  LockInv'
<1>1. /\ trans' = trans /\ entry' = entry /\ issued' = issued /\ wbToBank' = wbToBank /\ mshr' = mshr
      /\ fetching' = fetching /\ pending' = pending /\ toMem' = toMem /\ botIn' = botIn
      /\ toEvict' = toEvict
  OBVIOUS
<1>2. /\ blocks' = [w \in Way |-> [blocks[w] EXCEPT !.readers = 0, !.locked = FALSE]]
      /\ topPort' = <<>> /\ dirQ' = <<>> /\ inFlight' = {}
      /\ dirToBank' = <<>> /\ bank' = <<>> /\ post' = <<>>
      /\ mshrQ' = <<>> /\ processing' = 0 /\ wbQ' = <<>>
  BY DEF DiscardInflight
<1>3. BlocksOK /\ TransOK /\ EntriesOK /\ BuffersOK /\ OnceOK /\ MemoryOK /\ RequestsOK
  BY InvParts
<1>4. BlocksOK' /\ \A w \in Way : ~ blocks'[w].locked /\ blocks'[w].readers = 0
  <2>1. ASSUME NEW w \in Way
        PROVE  /\ DOMAIN blocks'[w] = BlockField
               /\ blocks'[w].locked \in BOOLEAN /\ ~ blocks'[w].locked /\ blocks'[w].readers = 0
    <3>1. blocks'[w] = [blocks[w] EXCEPT !.readers = 0, !.locked = FALSE]  BY <1>2
    <3>2. DOMAIN blocks[w] = BlockField  BY <1>3 DEF BlocksOK
    <3>3. "readers" \in BlockField /\ "locked" \in BlockField  BY DEF BlockField
    <3>4. \A b : DOMAIN b = BlockField =>
              /\ DOMAIN [b EXCEPT !.readers = 0, !.locked = FALSE] = BlockField
              /\ [b EXCEPT !.readers = 0, !.locked = FALSE].locked \in BOOLEAN
              /\ ~ [b EXCEPT !.readers = 0, !.locked = FALSE].locked
              /\ [b EXCEPT !.readers = 0, !.locked = FALSE].readers = 0
      BY <3>3
    <3> QED  BY <3>1, <3>2, <3>4
  <2>2. DOMAIN blocks' = Way  BY <1>2
  <2> QED  BY <2>1, <2>2 DEF BlocksOK
<1>5. TransOK' /\ EntriesOK'  BY <1>1, <1>3 DEF TransOK, EntriesOK
<1>6. BuffersOK'  BY <1>1, <1>2, <1>3, OnceEmpty DEF BuffersOK
<1>7. OnceOK' /\ MemoryOK'  BY <1>1, <1>2, <1>3, OnceEmpty DEF OnceOK, MemoryOK, Reads, IsData
<1>8. RequestsOK'
  <2>1. /\ Range(topPort') = {} /\ Range(dirQ') = {} /\ IsInjective(topPort') /\ IsInjective(dirQ')
        /\ Range(topPort') \subseteq Range(topPort)
    BY <1>2, EmptyIs
  <2>2. \A r \in Place : r # "up" /\ r # "fetch" => Held'[r] = {}
    BY <1>2, OnceEmpty, Sizes, HeldIsNext, PlaceIs
  <2>3. Held'["up"] = Held["up"] /\ Held'["fetch"] = Held["fetch"]  BY <1>1, HeldIs, HeldIsNext
  <2>4. \A r \in Place : Held'[r] \subseteq Held[r]  BY <2>2, <2>3
  <2>5. \A r \in BankPlace : Held'[r] = {}  BY <2>2, PlaceIs
  <2>6. SameEntries  BY <1>1 DEF SameEntries, SameEntry
  <2> QED  BY <1>1, <1>2, <1>3, <1>4, <1>6, <2>1, <2>4, <2>5, <2>6, ClearStep
<1> QED  BY <1>4, <1>5, <1>6, <1>7, <1>8, InvWhole

LEMMA StartFlushOK ==
    ASSUME LockInv, StartFlush, issued' = issued
    PROVE  LockInv'
<1>1. /\ cstate' = "preflushing"
      /\ UNCHANGED <<trans, entry, issued, wbToBank, mshr, fetching, pending, toMem, botIn, toEvict>>
  BY DEF StartFlush, flushOther
<1>2. CASE Head(ctlIn) = "shootdown"
  <2>1. DiscardInflight  BY <1>2 DEF StartFlush
  <2> QED  BY <1>1, <2>1, DiscardOK
<1>3. CASE Head(ctlIn) # "shootdown"
  <2>1. UNCHANGED <<blocks, topPort, dirQ, inFlight, dirToBank, bank, post, mshrQ, processing, wbQ>>
    BY <1>3 DEF StartFlush, frontVars
  <2>2. QuietOK'  BY <1>1 DEF QuietOK
  <2>3. toEvict' \in SUBSET Way  BY <1>1, InvParts DEF BuffersOK
  <2> QED  BY <1>1, <2>1, <2>2, <2>3, ControlStep
<1> QED  BY <1>2, <1>3

LEMMA PreFlushOK ==
    ASSUME LockInv, PreFlush, issued' = issued
    PROVE  LockInv'
<1>1. UNCHANGED <<trans, blocks, entry, issued, topPort, dirQ, inFlight, dirToBank, bank, post,
                  wbQ, wbToBank, mshrQ, processing, mshr, fetching, pending, toMem, botIn>>
  BY DEF PreFlush, flushOther, dirVars, frontVars, mshrVars
<1>2. QuietOK' /\ toEvict' \in SUBSET Way  BY DEF PreFlush, QuietOK, frontVars
<1> QED  BY <1>1, <1>2, ControlStep

\* A transaction that evicts a block of the flush enters the bank.
LEMMA FlushBlockOK ==
    ASSUME LockInv, FlushBlock, issued' = issued
    PROVE  LockInv'
<1> DEFINE w == Min(toEvict)
           f == Flush(w)
<1>1. BlocksOK /\ TransOK /\ EntriesOK /\ BuffersOK /\ OnceOK /\ MemoryOK /\ RequestsOK
  BY InvParts
<1>2. /\ blocks' = blocks /\ entry' = entry /\ issued' = issued
      /\ topPort' = topPort /\ dirQ' = dirQ /\ inFlight' = inFlight
      /\ bank' = bank /\ post' = post /\ wbQ' = wbQ /\ wbToBank' = wbToBank /\ mshrQ' = mshrQ
      /\ processing' = processing /\ mshr' = mshr /\ fetching' = fetching /\ pending' = pending
      /\ toMem' = toMem /\ botIn' = botIn /\ cstate' = cstate
      /\ toEvict # {} /\ toEvict' = toEvict \ {w} /\ dirToBank' = Append(dirToBank, f)
      /\ \E l, m : trans' = [trans EXCEPT ![f] = [NoTrans EXCEPT !.act = "evict", !.way = w,
                                                  !.vline = l, !.vmask = m]]
  BY DEF FlushBlock, flushOther, dirVars, frontVars, mshrVars
<1>3. w \in Way
  <2>1. toEvict \in SUBSET Nat /\ toEvict # {} /\ toEvict \subseteq Way
    <3>1. Way \subseteq Nat  BY Sizes DEF Way
    <3>2. toEvict \subseteq Way  BY <1>1 DEF BuffersOK
    <3> QED  BY <1>2, <3>1, <3>2
  <2>2. \E x \in toEvict : \A y \in toEvict : x <= y  BY <2>1, SmallestNat
  <2> QED  BY <2>1, <2>2 DEF Min
<1> HIDE DEF w
<1>4. f \in Trans /\ f \notin Req  BY <1>3, Sizes DEF Flush, Trans, Req, Way
<1> HIDE DEF f
<1>5. TransOK' /\ \A u \in Req : SameTrans(u)
  <2>1. PICK l, m : trans' = [trans EXCEPT ![f] = [NoTrans EXCEPT !.act = "evict", !.way = w,
                                                    !.vline = l, !.vmask = m]]
    BY <1>2
  <2> DEFINE x == [NoTrans EXCEPT !.act = "evict", !.way = w, !.vline = l, !.vmask = m]
  <2>2. DOMAIN x = TransField /\ x.act = "evict" /\ x.orphan = FALSE  BY DEF NoTrans, TransField
  <2>3. trans' = [trans EXCEPT ![f] = x]  BY <2>1
  <2> HIDE DEF x
  <2>4. trans'[f] = x /\ DOMAIN trans' = Trans /\ \A u \in Trans : u # f => trans'[u] = trans[u]
    BY <1>1, <1>4, <2>3 DEF TransOK
  <2>5. TransOK'  BY <1>1, <1>4, <2>2, <2>4 DEF TransOK
  <2> QED  BY <1>4, <2>4, <2>5, Sizes DEF SameTrans
<1>6. dirToBank' \in Seq(Trans) /\ Once(dirToBank') /\ Range(dirToBank') = Range(dirToBank) \cup {f}
  BY <1>1, <1>2, <1>4, OncePut DEF BuffersOK, OnceOK
<1>7. BlocksOK' /\ EntriesOK' /\ OnceOK' /\ MemoryOK'
  BY <1>1, <1>2, <1>6 DEF BlocksOK, EntriesOK, OnceOK, MemoryOK, Reads, IsData
<1>8. BuffersOK'
  <2>1. toEvict' \in SUBSET Way  BY <1>1, <1>2 DEF BuffersOK
  <2> QED  BY <1>1, <1>2, <1>6, <2>1 DEF BuffersOK
<1>9. RequestsOK'
  <2>1. Range(dirToBank') \cap Req = Range(dirToBank) \cap Req  BY <1>4, <1>6
  <2>2. \A r \in Place : Held'[r] = Held[r]  BY <1>2, <2>1, HeldIs, HeldIsNext, PlaceIs
  <2>3. SameEntries /\ SameBlocks /\ SameFront
    BY <1>2 DEF SameEntries, SameEntry, SameBlocks, SameFront
  <2> QED  BY <1>1, <1>5, <2>2, <2>3, StayStep
<1> QED  BY <1>5, <1>7, <1>8, <1>9, InvWhole

LEMMA FinalizeFlushOK ==
    ASSUME LockInv, FinalizeFlush, issued' = issued
    PROVE  LockInv'
<1>1. BlocksOK /\ TransOK /\ EntriesOK /\ BuffersOK /\ OnceOK /\ MemoryOK /\ RequestsOK
      /\ FrontOK /\ QuietOK
  BY InvParts
<1>2. /\ entry' = entry /\ issued' = issued /\ topPort' = topPort /\ dirQ' = dirQ
      /\ inFlight' = inFlight /\ dirToBank' = dirToBank
      /\ bank' = bank /\ post' = post /\ wbQ' = wbQ /\ wbToBank' = wbToBank /\ mshrQ' = mshrQ
      /\ processing' = processing /\ fetching' = fetching /\ pending' = pending
      /\ toMem' = toMem /\ botIn' = botIn /\ toEvict' = toEvict
      /\ cstate = "flushing" /\ mshr' = {}
      /\ blocks' = [w \in Way |-> EmptyBlock(blocks[w].data)]
      /\ trans' = [t \in Trans |-> IF t \in Range(wbToBank) THEN [trans[t] EXCEPT !.orphan = TRUE]
                                   ELSE trans[t]]
  BY DEF FinalizeFlush, flushOther, frontVars
<1>3. dirToBank = <<>> /\ bank = <<>> /\ post = <<>>  BY DEF FinalizeFlush, FlushCompleted
<1>4. inFlight' = {} /\ inFlight = {} /\ Range(dirQ) = {}  BY <1>1, <1>2 DEF QuietOK, FrontOK
<1>5. BlocksOK' /\ \A w \in Way : ~ blocks'[w].locked /\ blocks'[w].readers = 0
  BY <1>2, EmptyBlockIs DEF BlocksOK
<1>6. /\ TransOK'
      /\ \A u \in Req : trans'[u].act = trans[u].act /\ trans'[u].way = trans[u].way
      /\ \A u \in Req : trans'[u].orphan => trans[u].orphan \/ u \in Held["up"]
  BY <1>1, <1>2, Sizes, HeldIs DEF TransOK, TransField
<1>7. EntriesOK' /\ OnceOK' /\ MemoryOK' /\ BuffersOK'
  BY <1>1, <1>2 DEF EntriesOK, OnceOK, MemoryOK, Reads, IsData, BuffersOK
<1>8. RequestsOK'
  <2>1. /\ IsInjective(topPort') /\ IsInjective(dirQ') /\ Range(topPort') \subseteq Range(topPort)
        /\ Range(dirQ') = {}
    BY <1>1, <1>2, <1>4 DEF FrontOK
  <2>2. \A r \in Place : Held'[r] = Held[r]  BY <1>2, HeldIs, HeldIsNext, PlaceIs
  <2>3. \A r \in BankPlace : Held'[r] = {}  BY <1>2, <1>3, OnceEmpty, HeldIsNext, PlaceIs
  <2>4. \A r \in Place : Held'[r] \subseteq Held[r]  BY <2>2
  <2>5. SameEntries  BY <1>2 DEF SameEntries, SameEntry
  <2> QED  BY <1>1, <1>2, <1>4, <1>5, <1>6, <1>7, <2>1, <2>3, <2>4, <2>5, ClearStep
<1> QED  BY <1>5, <1>6, <1>7, <1>8, InvWhole

LEMMA CacheRestartOK ==
    ASSUME LockInv, CacheRestart, issued' = issued
    PROVE  LockInv'
<1>1. BlocksOK /\ TransOK /\ EntriesOK /\ BuffersOK /\ OnceOK /\ MemoryOK
      /\ PlacesOK /\ FrontOK /\ JoinedOK /\ OrphansOK /\ LocksOK
  BY InvParts
<1>2. /\ trans' = trans /\ blocks' = blocks /\ entry' = entry /\ issued' = issued
      /\ topPort' = <<>> /\ dirQ' = dirQ /\ inFlight' = inFlight /\ dirToBank' = dirToBank
      /\ bank' = bank /\ post' = post /\ wbQ' = wbQ /\ wbToBank' = wbToBank /\ mshrQ' = mshrQ
      /\ processing' = processing /\ mshr' = mshr /\ fetching' = fetching /\ pending' = pending
      /\ toMem' = toMem /\ botIn' = <<>> /\ cstate' = "running" /\ toEvict' = toEvict
  BY DEF CacheRestart, flushOther, dirVars, mshrVars
<1>3. BlocksOK' /\ TransOK' /\ EntriesOK' /\ OnceOK'
  BY <1>1, <1>2 DEF BlocksOK, TransOK, EntriesOK, OnceOK
<1>4. BuffersOK'  BY <1>1, <1>2, OnceEmpty, EmptyIs DEF BuffersOK
<1>5. MemoryOK'
  <2>1. DOMAIN botIn' = {} /\ Reads' = Reads  BY <1>2 DEF Reads
  <2> QED  BY <1>1, <1>2, <2>1 DEF MemoryOK, IsData
<1>6. Held' = Held  BY <1>2 DEF Held
<1>7. Range(topPort') = {} /\ IsInjective(topPort') /\ Waiting' \subseteq Waiting
  <2>1. Range(topPort') = {} /\ IsInjective(topPort')  BY <1>2, EmptyIs
  <2> QED  BY <1>2, <2>1 DEF Waiting
<1>8. PlacesOK'  BY <1>1, <1>2, <1>6 DEF PlacesOK
<1>9. FrontOK'  BY <1>1, <1>2, <1>7 DEF FrontOK
<1>10. JoinedOK'  BY <1>1, <1>2, <1>6, <1>7 DEF JoinedOK
<1>11. OrphansOK' /\ QuietOK'  BY <1>1, <1>2 DEF OrphansOK, QuietOK
<1>12. LocksOK'  BY <1>1, <1>2, <1>6 DEF LocksOK, Owns, ReadsOf
<1> QED  BY <1>3, <1>4, <1>5, <1>8, <1>9, <1>10, <1>11, <1>12, InvWhole DEF RequestsOK

-------------------------------------------------------------------------------
LEMMA InitOK == Init => LockInv
<1> SUFFICES ASSUME Init PROVE LockInv  OBVIOUS
<1>1. /\ trans = [t \in Trans |-> NoTrans] /\ blocks = [w \in Way |-> EmptyBlock(ZeroData)]
      /\ inFlight = {} /\ topPort = <<>> /\ dirQ = <<>>
      /\ dirToBank = <<>> /\ wbToBank = <<>> /\ bank = <<>> /\ post = <<>>
      /\ mshr = {} /\ entry = [t \in Req |-> NoEntry] /\ mshrQ = <<>> /\ processing = 0
      /\ wbQ = <<>> /\ pending = <<>> /\ fetching = {} /\ toMem = {} /\ botIn = <<>>
      /\ cstate = "running" /\ toEvict = {} /\ issued = 0
  BY DEF Init, CacheInit
<1>2. BlocksOK /\ \A w \in Way : ~ blocks[w].locked /\ blocks[w].readers = 0
  BY <1>1, EmptyBlockIs DEF BlocksOK
<1>3. TransOK /\ \A t \in Req : trans[t].act = "none" /\ ~ trans[t].orphan
  BY <1>1, Sizes DEF TransOK, TransField, NoTrans
<1>4. EntriesOK /\ \A e \in Req : entry[e].reqs = <<>>
  BY <1>1, OnceEmpty DEF EntriesOK, EntryField, NoEntry
<1>5. BuffersOK  BY <1>1, Sizes, OnceEmpty, EmptyIs DEF BuffersOK
<1>6. OnceOK  BY <1>1, OnceEmpty DEF OnceOK
<1>7. MemoryOK  BY <1>1 DEF MemoryOK, Reads, IsData
<1>8. \A p \in Place : Held[p] = {}  BY <1>1, Sizes, OnceEmpty, HeldIs, PlaceIs
<1>9. Waiting = {} /\ IsInjective(topPort) /\ IsInjective(dirQ)
      /\ Range(topPort) = {} /\ Range(dirQ) = {}
  <2>1. /\ IsInjective(topPort) /\ IsInjective(dirQ) /\ Range(topPort) = {} /\ Range(dirQ) = {}
    BY <1>1, EmptyIs
  <2> QED  BY <2>1 DEF Waiting
<1>10. PlacesOK  BY <1>8 DEF PlacesOK
<1>11. FrontOK  BY <1>1, <1>3, <1>9 DEF FrontOK
<1>12. JoinedOK
  <2>1. \A e \in Req : Range(entry[e].reqs) = {}  BY <1>4, OnceEmpty
  <2> QED  BY <1>8, <2>1 DEF JoinedOK
<1>13. OrphansOK  BY <1>3 DEF OrphansOK
<1>14. LocksOK
  <2>1. \A w \in Way : ReadsOf(w) = {}  BY <1>1 DEF ReadsOf
  <2>2. Cardinality({}) = 0  BY FS_EmptySet
  <2> QED  BY <1>2, <1>8, <2>1, <2>2, PlaceIs DEF LocksOK
<1>15. QuietOK  BY <1>1 DEF QuietOK
<1> QED  BY <1>2, <1>3, <1>4, <1>5, <1>6, <1>7, <1>10, <1>11, <1>12, <1>13, <1>14, <1>15
         DEF LockInv, TypesOK

LEMMA NextOK ==
    ASSUME LockInv, [Next]_vars
    PROVE  LockInv'
<1>1. CASE AgentSend  BY <1>1, AgentSendOK
<1>2. CASE AgentReceive  BY <1>2, AgentReceiveOK
<1>3. CASE MemServe  BY <1>3, MemServeOK
<1>4. CASE CpFlush \/ CpReceive  BY <1>4, CpOK
<1>5. CASE Cache
  <2>1. CacheTick /\ issued' = issued  BY <1>5 DEF Cache, agentVars
  <2>2. CASE TopParser  BY <2>1, <2>2, TopParserOK
  <2>3. CASE DirectoryStage  BY <2>1, <2>3, DirectoryStageOK
  <2>4. CASE PullFromBuf  BY <2>1, <2>4, PullFromBufOK
  <2>5. CASE BankPipeline  BY <2>1, <2>5, BankPipelineOK
  <2>6. CASE FinalizeTrans  BY <2>1, <2>6, FinalizeTransOK
  <2>7. CASE MshrStage  BY <2>1, <2>7, MshrStageOK
  <2>8. CASE ProcessNewTransaction  BY <2>1, <2>8, ProcessNewTransactionOK
  <2>9. CASE WriteEviction  BY <2>1, <2>9, WriteEvictionOK
  <2>10. CASE ProcessDataReady  BY <2>1, <2>10, ProcessDataReadyOK
  <2>11. CASE ProcessWriteDone  BY <2>1, <2>11, ProcessWriteDoneOK
  <2>12. CASE Flusher
    <3>1. CASE StartFlush  BY <2>1, <3>1, StartFlushOK
    <3>2. CASE PreFlush  BY <2>1, <3>2, PreFlushOK
    <3>3. CASE FlushBlock  BY <2>1, <3>3, FlushBlockOK
    <3>4. CASE FinalizeFlush  BY <2>1, <3>4, FinalizeFlushOK
    <3>5. CASE CacheRestart  BY <2>1, <3>5, CacheRestartOK
    <3> QED  BY <2>12, <3>1, <3>2, <3>3, <3>4, <3>5 DEF Flusher
  <2> QED  BY <2>1, <2>2, <2>3, <2>4, <2>5, <2>6, <2>7, <2>8, <2>9, <2>10, <2>11, <2>12
           DEF CacheTick
<1>6. CASE UNCHANGED vars
  <2>1. UNCHANGED cacheState
    BY <1>6 DEF vars, cacheVars, dirVars, frontVars, bankVars, mshrVars, wbVars, memPorts, flushVars,
       agentVars, cacheState
  <2> QED  BY <2>1, NothingStep
<1> QED  BY <1>1, <1>2, <1>3, <1>4, <1>5, <1>6 DEF Next

\* Every transaction behind the directory stage is in one place, a locked way belongs to a
\* transaction in flight that has yet to write it, the readers of a way are the reads that
\* hit in it, memory answers every fetch once, and nothing is in flight during an eviction
\* of the whole directory, whatever the sizes of the buffers and the order of the flushes.
THEOREM LockInvariant == Spec => []LockInv
<1>1. Init => LockInv  BY InitOK
<1>2. LockInv /\ [Next]_vars => LockInv'  BY NextOK
<1> QED  BY <1>1, <1>2, PTL DEF Spec

\* The panic of prepareBlockToFlushList, "all the blocks should be unlocked before
\* flushing", never strikes: when no transaction is in flight, no way is locked and no way
\* has a reader, also after a shootdown has discarded what was in flight.
THEOREM FlushFindsUnlockedCorrect == Spec => []FlushFindsUnlocked
<1>1. LockInv => FlushFindsUnlocked
  <2> SUFFICES ASSUME LockInv, inFlight = {} PROVE AllUnlocked  BY DEF FlushFindsUnlocked
  <2>1. LocksOK  BY InvParts
  <2>2. \A w \in Way : ReadsOf(w) = {} /\ \A t \in Req : ~ Owns(t, w)  BY DEF ReadsOf, Owns
  <2>3. Cardinality({}) = 0  BY FS_EmptySet
  <2> QED  BY <2>1, <2>2, <2>3 DEF LocksOK, AllUnlocked
<1> QED  BY <1>1, LockInvariant, PTL
===============================================================================
