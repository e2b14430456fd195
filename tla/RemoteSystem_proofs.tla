-------------------------- MODULE RemoteSystem_proofs --------------------------
(***************************************************************************)
(* What the requester takes is what it waits for, and an engine that       *)
(* reports that it has drained has answered all reads, for any lines,      *)
(* pages and limits, any number of requests, kernels and drains, with or   *)
(* without deduplication and the requester's L2.                           *)
(*                                                                         *)
(* The inductive invariant follows the lines that the owner owes the       *)
(* requester.  A line that is asked for is a token, which is in one of six *)
(* places: the wire, the owner's list of reads, its L2, the L2's           *)
(* responses, the data of a batch, the way back.  The requester's side is  *)
(* a book of entries: which queue has an entry says what its state is, and *)
(* the waiters of all entries are the reads that are counted.              *)
(***************************************************************************)
EXTENDS RemoteSystem, SequenceLemmas, FiniteSetTheorems

\* What the messages ask for.  A line that the owner still owes the requester is a token
\* <<class of the request, its number, the line>>.

Simple == {"single", "write", "partial"}
LineData == UNION {[S -> Int] : S \in SUBSET Line}
LineIds == UNION {[S -> Nat] : S \in SUBSET Line}

ReqMsg == [kind : Simple, id : Nat, line : Line]
              \cup [kind : {"bitmap"}, id : Nat, lines : SUBSET Line]
RspMsg == [kind : Simple, id : Nat, line : Line, data : Int]
              \cup [kind : {"bitmap"}, id : Nat, data : LineData]
L2Msg == [kind : Simple \cup {"sub"}, id : Nat, line : Line]
L2Answer == [kind : Simple \cup {"sub"}, id : Nat, line : Line, data : Int]

Class(k) == IF k = "single" THEN "single"
            ELSE IF k \in {"write", "partial"} THEN "legacy" ELSE "bitmap"

ReqTokens == [m \in ReqMsg |-> IF m.kind = "bitmap"
                 THEN {<<"bitmap", m.id, l>> : l \in m.lines}
                 ELSE {<<Class(m.kind), m.id, m.line>>}]
RspTokens == [m \in RspMsg |-> IF m.kind = "bitmap"
                 THEN {<<"bitmap", m.id, l>> : l \in DOMAIN m.data}
                 ELSE {<<Class(m.kind), m.id, m.line>>}]
SubTokens == [s \in Nat \X Line |-> {<<"bitmap", s[1], s[2]>>}]
L2Tokens == [m \in L2Msg |-> {<<Class(m.kind), m.id, m.line>>}]
AnswerTokens == [m \in L2Answer |-> {<<Class(m.kind), m.id, m.line>>}]

Place == {"wire", "sub", "l2", "rsp", "data", "back"}
DataTokens == UNION {{<<"bitmap", i, l>> : l \in DOMAIN ownerBatches[i].data} :
                        i \in DOMAIN ownerBatches}
Flow == [wire |-> Carried(ReqTokens, wire), sub |-> Carried(SubTokens, pendingSub),
         l2 |-> Carried(L2Tokens, l2Queue), rsp |-> Carried(AnswerTokens, ownerL2Rsp),
         data |-> DataTokens, back |-> Carried(RspTokens, back)]

\* No token is in two places.
Disjoint(f) == \A p, q \in Place : p # q => f[p] \cap f[q] = {}

\* What the requester waits for.
Asked(t) ==
    \/ t[1] = "single" /\ t[2] \in single /\ t[3] = reqs[t[2]].line
    \/ t[1] = "legacy" /\ t[2] \in fromInside /\ t[3] = reqs[t[2]].line
    \/ /\ t[1] = "bitmap" /\ t[2] \in DOMAIN bitmap
       /\ t[3] \in DOMAIN bitmap[t[2]].ents \ bitmap[t[2]].got

SubsOf(i) == {s \in subReqs : s[1] = i}

-------------------------------------------------------------------------------
EntryRec == [line : Line, epoch : Nat,
             state : {"probing", "pending", "collecting", "inflight", "ready"},
             waiters : Seq(Nat), data : Int, admit : BOOLEAN, fromRemote : BOOLEAN,
             gen : Int, fill : {"none", "inflight", "done"}]
TopMsg == [kind : {"lookup"}, id : Nat, line : Line]
              \cup [kind : {"fill"}, id : Nat, line : Line, data : Int, gen : Int]
CacheRsp == [kind : {"lookup"}, id : Nat, gen : Int, hit : BOOLEAN, data : Int]
              \cup [kind : {"fill"}, id : Nat]
CacheTokens == [m \in TopMsg \cup CacheRsp |-> {<<m.kind, m.id>>}]

RequestsTyped ==
    /\ reqs \in Seq([op : Op, line : Line, want : Int])
    /\ Len(reqs) <= MaxReq
    /\ toL1 \in {0, Len(reqs)}
    /\ latest \in [Line -> Int] /\ kernels \in Nat

OwnerTyped ==
    /\ wire \in Seq(ReqMsg) /\ back \in Seq(RspMsg)
    /\ \A i \in DOMAIN ownerBatches :
           i \in Nat /\ ownerBatches[i] \in [remaining : Int, data : LineData]
    /\ pendingSub \in Seq(Nat \X Line)
    /\ subReqs \in SUBSET (Nat \X Line) /\ IsFiniteSet(subReqs)
    /\ pendingRsp \in Seq(Nat)
    /\ l2Queue \in Seq(L2Msg) /\ ownerL2Rsp \in Seq(L2Answer)
    /\ mem \in [Line -> Int]

CacheTyped ==
    /\ \A l \in DOMAIN replica : replica[l] \in Int
    /\ generation \in Int
    /\ top \in Seq(TopMsg) /\ l2Rsp \in Seq(CacheRsp)

RequesterTyped ==
    /\ \A i \in DOMAIN entry : entry[i] \in EntryRec
    /\ DOMAIN lines \subseteq Line \X Nat
    /\ epochs \in [Line -> Nat] /\ uncacheable \in [Line -> BOOLEAN]
    /\ pendingBatch \in Seq(Nat)
    /\ \A p \in DOMAIN batches : batches[p] \in LineIds /\ batches[p] # <<>>
    /\ batchOrder \in Seq(DOMAIN batches)
    /\ \A i \in DOMAIN bitmap : bitmap[i] \in [ents : LineIds, got : SUBSET Line]
    /\ ready \in Seq(Nat)
    /\ outstandingReads \in Nat

Typed == RequestsTyped /\ OwnerTyped /\ CacheTyped /\ RequesterTyped

-------------------------------------------------------------------------------
\* Every token is in one place, and the requester waits for it.
FlowInv ==
    /\ Apart(ReqTokens, wire) /\ Apart(SubTokens, pendingSub) /\ Apart(L2Tokens, l2Queue)
    /\ Apart(AnswerTokens, ownerL2Rsp) /\ Apart(RspTokens, back)
    /\ Disjoint(Flow)
    /\ \A p \in Place : \A t \in Flow[p] : Asked(t)

\* The owner's books agree with what it has been asked.
OwnerInv ==
    /\ \A m \in Range(wire) : m.kind = "bitmap" =>
           m.id \in DOMAIN bitmap /\ m.lines = DOMAIN bitmap[m.id].ents /\ m.lines # {}
    /\ \A m \in Range(back) : m.kind = "bitmap" => DOMAIN m.data # {}
    /\ {<<"bitmap", s[1], s[2]>> : s \in subReqs}
           = {t \in Flow["sub"] \cup Flow["l2"] \cup Flow["rsp"] : t[1] = "bitmap"}
    /\ \A s \in subReqs : s[1] \in DOMAIN ownerBatches
    /\ \A i \in DOMAIN ownerBatches :
           /\ ownerBatches[i].remaining = Cardinality(SubsOf(i))
           /\ SubsOf(i) # {} \/ DOMAIN ownerBatches[i].data # {}
    /\ IsInjective(pendingRsp)
    /\ \A i \in Range(pendingRsp) : i \in DOMAIN ownerBatches /\ DOMAIN ownerBatches[i].data # {}

\* An entry of this state.
Is(i, s) == i \in DOMAIN entry /\ entry[i].state = s

Known(i) == i \in DOMAIN reqs /\ i # toL1

\* The bitmap request i has no data of line l yet.
Unfinished(i, l) == l \in DOMAIN bitmap[i].ents \ bitmap[i].got

\* The entries that wait for their line l in a bitmap request, and in a batch.
FlyingFor(l) == {e \in DOMAIN entry : entry[e].state = "inflight" /\ entry[e].line = l /\ e \notin single}
CollectedFor(l) == {e \in DOMAIN entry : entry[e].state = "collecting" /\ entry[e].line = l}

SentInv ==
    /\ \A i \in DOMAIN entry :
           Known(i) /\ reqs[i].op = "read" /\ entry[i].line = reqs[i].line
    /\ \A i \in fromInside : Known(i) /\ reqs[i].op # "read"
    /\ \A i \in single : Is(i, "inflight")
    /\ \A i \in DOMAIN bitmap :
           /\ Known(i) /\ reqs[i].op = "read" /\ i \notin single
           /\ i \in DOMAIN entry => entry[i].state \in {"inflight", "ready"}
           /\ \A l : Unfinished(i, l) => bitmap[i].ents[l] \in FlyingFor(l)
    /\ \A i, j \in DOMAIN bitmap : \A l :
           Unfinished(i, l) /\ Unfinished(j, l) /\ bitmap[i].ents[l] = bitmap[j].ents[l] => i = j

CacheInv ==
    /\ Apart(CacheTokens, top) /\ Apart(CacheTokens, l2Rsp)
    /\ Carried(CacheTokens, top) \cap Carried(CacheTokens, l2Rsp) = {}
    /\ \A t \in Carried(CacheTokens, top) \cup Carried(CacheTokens, l2Rsp) :
           IF t[1] = "lookup" THEN Is(t[2], "probing")
                              ELSE Is(t[2], "ready") /\ entry[t[2]].fill = "inflight"
    /\ \A m \in Range(l2Rsp) : m.kind = "lookup" /\ ~ m.hit => m.data = NoData

QueueInv ==
    /\ IsInjective(pendingBatch) /\ IsInjective(ready) /\ IsInjective(batchOrder)
    /\ \A i \in Range(pendingBatch) : Is(i, "pending")
    /\ \A i \in Range(ready) : Is(i, "ready")
    /\ \A p \in DOMAIN batches : \A l \in DOMAIN batches[p] : batches[p][l] \in CollectedFor(l) /\ Page(l) = p
    /\ \A i \in DOMAIN entry : entry[i].state # "ready" => entry[i].data = NoData

WaitingReads == UNION {Range(entry[i].waiters) : i \in DOMAIN entry}

TableInv ==
    /\ \A k \in DOMAIN lines : lines[k] \in DOMAIN entry /\ Key(entry[lines[k]]) = k
    /\ \A i \in DOMAIN entry :
           /\ IsInjective(entry[i].waiters)
           /\ \A r \in Range(entry[i].waiters) :
                  /\ Known(r)
                  /\ \A j \in DOMAIN entry : r \in Range(entry[j].waiters) => i = j
    /\ outstandingReads = Cardinality(WaitingReads)

\* Keys are exact: the filter denies no line that has an entry.
Exact == Filter # "cuckoo" \/ ~ Dedup

WaitersInTable == Exact =>
    \A i \in DOMAIN entry : entry[i].waiters # <<>> => InTable(i)

IInv == Typed /\ FlowInv /\ OwnerInv /\ SentInv /\ CacheInv /\ QueueInv /\ TableInv /\ WaitersInTable
-------------------------------------------------------------------------------
\* Tokens that move from one place to another, or leave, stay apart.
LEMMA Moved ==
    ASSUME NEW f, NEW g, Disjoint(f), NEW p \in Place, NEW q \in Place,
           \A x \in Place : x # p /\ x # q => g[x] = f[x],
           g[p] \cup g[q] \subseteq f[p] \cup f[q], p # q, g[p] \cap g[q] = {}
    PROVE  Disjoint(g) /\ \A x \in Place : \A t \in g[x] : \E y \in Place : t \in f[y]
<1>1. ASSUME NEW x \in Place, NEW y \in Place, x # y PROVE g[x] \cap g[y] = {}
  BY <1>1, Zenon DEF Disjoint
<1>2. ASSUME NEW x \in Place, NEW t \in g[x] PROVE \E y \in Place : t \in f[y]
  BY <1>2, Zenon
<1> QED  BY <1>1, <1>2, Zenon DEF Disjoint

-------------------------------------------------------------------------------
(* Messages and tokens *)

\* The class of a request, by its kind.
LEMMA Classes ==
    /\ Class("single") = "single" /\ Class("write") = "legacy"
    /\ Class("partial") = "legacy" /\ Class("sub") = "bitmap" /\ Class("bitmap") = "bitmap"
    /\ \A k \in Simple : Class(k) # "bitmap"
    /\ "sub" \notin Simple /\ "bitmap" \notin Simple
  BY DEF Class, Simple

\* The tokens of a message of each kind.
LEMMA Requests ==
    ASSUME NEW m \in ReqMsg
    PROVE  /\ m.id \in Nat
           /\ m.kind = "bitmap" => /\ m.lines \in SUBSET Line
                                   /\ ReqTokens[m] = {<<"bitmap", m.id, l>> : l \in m.lines}
           /\ m.kind # "bitmap" => /\ m.kind \in Simple /\ m.line \in Line /\ m \in L2Msg
                                   /\ ReqTokens[m] = {<<Class(m.kind), m.id, m.line>>}
  BY Classes DEF ReqMsg, ReqTokens, L2Msg

LEMMA Responses ==
    ASSUME NEW m \in RspMsg
    PROVE  /\ m.id \in Nat
           /\ m.kind = "bitmap" => /\ m.data \in LineData /\ DOMAIN m.data \subseteq Line
                                   /\ RspTokens[m] = {<<"bitmap", m.id, l>> : l \in DOMAIN m.data}
           /\ m.kind # "bitmap" => /\ m.kind \in Simple /\ m.line \in Line /\ m.data \in Int
                                   /\ RspTokens[m] = {<<Class(m.kind), m.id, m.line>>}
<1>1. CASE m.kind = "bitmap"
  <2>1. m \in [kind : {"bitmap"}, id : Nat, data : LineData]  BY <1>1, Classes DEF RspMsg
  <2>2. m.data \in LineData /\ m.id \in Nat  BY <2>1
  <2>3. DOMAIN m.data \subseteq Line  BY <2>2 DEF LineData
  <2> QED  BY <1>1, <2>2, <2>3 DEF RspTokens
<1>2. CASE m.kind # "bitmap"
  <2>1. m \in [kind : Simple, id : Nat, line : Line, data : Int]  BY <1>2 DEF RspMsg
  <2> QED  BY <1>2, <2>1 DEF RspTokens
<1> QED  BY <1>1, <1>2

LEMMA L2Messages ==
    /\ \A m \in L2Msg : /\ m.id \in Nat /\ m.line \in Line /\ m.kind \in Simple \cup {"sub"}
                        /\ L2Tokens[m] = {<<Class(m.kind), m.id, m.line>>}
    /\ \A m \in L2Answer :
           /\ m.id \in Nat /\ m.line \in Line /\ m.kind \in Simple \cup {"sub"} /\ m.data \in Int
           /\ AnswerTokens[m] = {<<Class(m.kind), m.id, m.line>>}
           /\ m.kind # "sub" => m \in RspMsg /\ RspTokens[m] = AnswerTokens[m]
<1>1. \A m \in L2Answer : m.kind # "sub" => m \in RspMsg  BY DEF L2Answer, RspMsg
<1>2. \A m \in L2Answer : /\ m.id \in Nat /\ m.line \in Line /\ m.kind \in Simple \cup {"sub"}
                          /\ m.data \in Int
                          /\ AnswerTokens[m] = {<<Class(m.kind), m.id, m.line>>}
  BY DEF L2Answer, AnswerTokens
<1>3. \A m \in L2Msg : /\ m.id \in Nat /\ m.line \in Line /\ m.kind \in Simple \cup {"sub"}
                       /\ L2Tokens[m] = {<<Class(m.kind), m.id, m.line>>}
  BY DEF L2Msg, L2Tokens
<1>4. \A m \in L2Answer : m.kind # "sub" => RspTokens[m] = AnswerTokens[m]
  BY <1>1, <1>2, Responses, Classes
<1> QED  BY <1>1, <1>2, <1>3, <1>4

LEMMA Subs ==
    \A s \in Nat \X Line : SubTokens[s] = {<<"bitmap", s[1], s[2]>>} /\ s[1] \in Nat /\ s[2] \in Line
                           /\ s = <<s[1], s[2]>>
  BY DEF SubTokens

\* The tokens in each place.
LEMMA FlowPlaces ==
    /\ Flow["wire"] = Carried(ReqTokens, wire) /\ Flow["sub"] = Carried(SubTokens, pendingSub)
    /\ Flow["l2"] = Carried(L2Tokens, l2Queue) /\ Flow["rsp"] = Carried(AnswerTokens, ownerL2Rsp)
    /\ Flow["data"] = DataTokens /\ Flow["back"] = Carried(RspTokens, back)
  BY DEF Flow

LEMMA FlowPlacesNext ==
    /\ Flow'["wire"] = Carried(ReqTokens, wire')
    /\ Flow'["sub"] = Carried(SubTokens, pendingSub')
    /\ Flow'["l2"] = Carried(L2Tokens, l2Queue')
    /\ Flow'["rsp"] = Carried(AnswerTokens, ownerL2Rsp')
    /\ Flow'["data"] = DataTokens' /\ Flow'["back"] = Carried(RspTokens, back')
  BY DEF Flow

\* The tokens of the data that the owner's batches hold.
LEMMA InData ==
    ASSUME NEW t
    PROVE  t \in DataTokens <=> \E i \in DOMAIN ownerBatches :
                                    \E l \in DOMAIN ownerBatches[i].data : t = <<"bitmap", i, l>>
  BY DEF DataTokens

LEMMA InDataNext ==
    ASSUME NEW t
    PROVE  t \in DataTokens' <=> \E i \in DOMAIN ownerBatches' :
                                    \E l \in DOMAIN ownerBatches'[i].data : t = <<"bitmap", i, l>>
  BY DEF DataTokens

\* Nothing is asked for or answered in the step.
LEMMA AskedSame ==
    ASSUME UNCHANGED <<single, bitmap, fromInside, reqs>>, NEW t
    PROVE  Asked(t)' <=> Asked(t)
  BY DEF Asked

\* A step of the owner moves tokens from a place to another.
LEMMA FlowMoved ==
    ASSUME FlowInv, NEW p \in Place, NEW q \in Place, p # q,
           UNCHANGED <<single, bitmap, fromInside, reqs>>,
           \A x \in Place : x # p /\ x # q => Flow'[x] = Flow[x],
           Flow'[p] \cup Flow'[q] \subseteq Flow[p] \cup Flow[q], Flow'[p] \cap Flow'[q] = {}
    PROVE  Disjoint(Flow') /\ \A x \in Place : \A t \in Flow'[x] : Asked(t)'
<1>1. Disjoint(Flow') /\ \A x \in Place : \A t \in Flow'[x] : \E y \in Place : t \in Flow[y]
  BY Moved DEF FlowInv
<1>2. \A x \in Place : \A t \in Flow[x] : Asked(t)  BY DEF FlowInv
<1> QED  BY <1>1, <1>2, AskedSame

\* A queue with one message more.
LEMMA L2Grows ==
    ASSUME l2Queue \in Seq(L2Msg), NEW m \in L2Msg, l2Queue' = Append(l2Queue, m),
           L2Tokens[m] \cap Carried(L2Tokens, l2Queue) = {}, Apart(L2Tokens, l2Queue)
    PROVE  /\ l2Queue' \in Seq(L2Msg) /\ Range(l2Queue') = Range(l2Queue) \cup {m}
           /\ Carried(L2Tokens, l2Queue') = Carried(L2Tokens, l2Queue) \cup L2Tokens[m]
           /\ Apart(L2Tokens, l2Queue')
<1>1. /\ Carried(L2Tokens, l2Queue') = Carried(L2Tokens, l2Queue) \cup L2Tokens[m]
      /\ Apart(L2Tokens, l2Queue')
  BY AppendCarried
<1>2. l2Queue' \in Seq(L2Msg) /\ Range(l2Queue') = Range(l2Queue) \cup {m}
  BY AppendElements, AppendRange
<1> QED  BY <1>1, <1>2

LEMMA RspGrows ==
    ASSUME ownerL2Rsp \in Seq(L2Answer), NEW m \in L2Answer, ownerL2Rsp' = Append(ownerL2Rsp, m),
           AnswerTokens[m] \cap Carried(AnswerTokens, ownerL2Rsp) = {}, Apart(AnswerTokens, ownerL2Rsp)
    PROVE  /\ ownerL2Rsp' \in Seq(L2Answer) /\ Range(ownerL2Rsp') = Range(ownerL2Rsp) \cup {m}
           /\ Carried(AnswerTokens, ownerL2Rsp') = Carried(AnswerTokens, ownerL2Rsp) \cup AnswerTokens[m]
           /\ Apart(AnswerTokens, ownerL2Rsp')
<1>1. /\ Carried(AnswerTokens, ownerL2Rsp') = Carried(AnswerTokens, ownerL2Rsp) \cup AnswerTokens[m]
      /\ Apart(AnswerTokens, ownerL2Rsp')
  BY AppendCarried
<1>2. ownerL2Rsp' \in Seq(L2Answer) /\ Range(ownerL2Rsp') = Range(ownerL2Rsp) \cup {m}
  BY AppendElements, AppendRange
<1> QED  BY <1>1, <1>2

LEMMA BackGrows ==
    ASSUME back \in Seq(RspMsg), NEW m \in RspMsg, back' = Append(back, m),
           RspTokens[m] \cap Carried(RspTokens, back) = {}, Apart(RspTokens, back)
    PROVE  /\ back' \in Seq(RspMsg) /\ Range(back') = Range(back) \cup {m}
           /\ Carried(RspTokens, back') = Carried(RspTokens, back) \cup RspTokens[m]
           /\ Apart(RspTokens, back')
<1>1. /\ Carried(RspTokens, back') = Carried(RspTokens, back) \cup RspTokens[m]
      /\ Apart(RspTokens, back')
  BY AppendCarried
<1>2. back' \in Seq(RspMsg) /\ Range(back') = Range(back) \cup {m}
  BY AppendElements, AppendRange
<1> QED  BY <1>1, <1>2

LEMMA WireGrows ==
    ASSUME wire \in Seq(ReqMsg), NEW m \in ReqMsg, wire' = Append(wire, m),
           ReqTokens[m] \cap Carried(ReqTokens, wire) = {}, Apart(ReqTokens, wire)
    PROVE  /\ wire' \in Seq(ReqMsg) /\ Range(wire') = Range(wire) \cup {m}
           /\ Carried(ReqTokens, wire') = Carried(ReqTokens, wire) \cup ReqTokens[m]
           /\ Apart(ReqTokens, wire')
<1>1. /\ Carried(ReqTokens, wire') = Carried(ReqTokens, wire) \cup ReqTokens[m]
      /\ Apart(ReqTokens, wire')
  BY AppendCarried
<1>2. wire' \in Seq(ReqMsg) /\ Range(wire') = Range(wire) \cup {m}
  BY AppendElements, AppendRange
<1> QED  BY <1>1, <1>2

LEMMA TopGrows ==
    ASSUME top \in Seq(TopMsg), NEW m \in TopMsg, top' = Append(top, m),
           CacheTokens[m] \cap Carried(CacheTokens, top) = {}, Apart(CacheTokens, top)
    PROVE  /\ top' \in Seq(TopMsg) /\ Range(top') = Range(top) \cup {m}
           /\ Carried(CacheTokens, top') = Carried(CacheTokens, top) \cup CacheTokens[m]
           /\ Apart(CacheTokens, top')
<1>1. /\ Carried(CacheTokens, top') = Carried(CacheTokens, top) \cup CacheTokens[m]
      /\ Apart(CacheTokens, top')
  BY AppendCarried
<1>2. top' \in Seq(TopMsg) /\ Range(top') = Range(top) \cup {m}
  BY AppendElements, AppendRange
<1> QED  BY <1>1, <1>2

LEMMA CacheRspGrows ==
    ASSUME l2Rsp \in Seq(CacheRsp), NEW m \in CacheRsp, l2Rsp' = Append(l2Rsp, m),
           CacheTokens[m] \cap Carried(CacheTokens, l2Rsp) = {}, Apart(CacheTokens, l2Rsp)
    PROVE  /\ l2Rsp' \in Seq(CacheRsp) /\ Range(l2Rsp') = Range(l2Rsp) \cup {m}
           /\ Carried(CacheTokens, l2Rsp') = Carried(CacheTokens, l2Rsp) \cup CacheTokens[m]
           /\ Apart(CacheTokens, l2Rsp')
<1>1. /\ Carried(CacheTokens, l2Rsp') = Carried(CacheTokens, l2Rsp) \cup CacheTokens[m]
      /\ Apart(CacheTokens, l2Rsp')
  BY AppendCarried
<1>2. l2Rsp' \in Seq(CacheRsp) /\ Range(l2Rsp') = Range(l2Rsp) \cup {m}
  BY AppendElements, AppendRange
<1> QED  BY <1>1, <1>2

-------------------------------------------------------------------------------
(* The steps of the owner *)

LEMMA Places == Place = {"wire", "sub", "l2", "rsp", "data", "back"}
  BY DEF Place

\* processReqFromOutside: from the wire to the L2.
LEMMA ForwardsFlow ==
    ASSUME OwnerTyped, FlowInv, OwnerInv, OwnerForwards,
           UNCHANGED <<single, bitmap, fromInside, reqs>>
    PROVE  OwnerTyped' /\ FlowInv' /\ OwnerInv'
<1> DEFINE m == Head(wire)
<1>1. /\ wire \in Seq(ReqMsg) /\ wire # <<>> /\ m.kind # "bitmap" /\ l2Queue \in Seq(L2Msg)
      /\ l2Queue' = Append(l2Queue, m) /\ wire' = Tail(wire)
      /\ UNCHANGED <<back, ownerBatches, pendingSub, subReqs, pendingRsp, ownerL2Rsp, mem>>
  BY DEF OwnerTyped, OwnerForwards, OwnerLooks
<1>2. m \in ReqMsg  BY <1>1, TailElements
<1> HIDE DEF m
<1>3. m \in L2Msg /\ ReqTokens[m] = L2Tokens[m]
      /\ \A t \in ReqTokens[m] : t[1] # "bitmap"
  <2>1. /\ m \in L2Msg /\ m.kind \in Simple
        /\ ReqTokens[m] = {<<Class(m.kind), m.id, m.line>>}
    BY <1>1, <1>2, Requests
  <2>2. L2Tokens[m] = {<<Class(m.kind), m.id, m.line>>}  BY <2>1, L2Messages
  <2>3. Class(m.kind) # "bitmap"  BY <2>1, Classes
  <2> QED  BY <2>1, <2>2, <2>3
<1>4. /\ Carried(ReqTokens, wire) = ReqTokens[m] \cup Carried(ReqTokens, wire')
      /\ Apart(ReqTokens, wire') /\ ReqTokens[m] \cap Carried(ReqTokens, wire') = {}
      /\ wire' \in Seq(ReqMsg) /\ Range(wire') \subseteq Range(wire)
  <2>1. Apart(ReqTokens, wire)  BY DEF FlowInv
  <2> QED  BY <1>1, <2>1, TailCarried, TailElements, TailRange DEF m
<1>5. /\ ReqTokens[m] \cap Carried(L2Tokens, l2Queue) = {} /\ Apart(L2Tokens, l2Queue)
      /\ Carried(ReqTokens, wire) \cap Carried(L2Tokens, l2Queue) = {}
  <2>1. Flow["wire"] \cap Flow["l2"] = {}  BY Places DEF FlowInv, Disjoint
  <2> QED  BY <1>4, <2>1, FlowPlaces DEF FlowInv
<1>6. /\ Carried(L2Tokens, l2Queue') = Carried(L2Tokens, l2Queue) \cup ReqTokens[m]
      /\ Apart(L2Tokens, l2Queue') /\ l2Queue' \in Seq(L2Msg)
  <2>1. L2Tokens[m] \cap Carried(L2Tokens, l2Queue) = {} /\ Apart(L2Tokens, l2Queue)
    BY <1>3, <1>5
  <2> QED  BY <1>1, <1>3, <2>1, AppendCarried, AppendElements
<1>7. DataTokens' = DataTokens  BY <1>1 DEF DataTokens
<1>8. Disjoint(Flow') /\ \A x \in Place : \A t \in Flow'[x] : Asked(t)'
  <2>1. \A x \in Place : x # "wire" /\ x # "l2" => Flow'[x] = Flow[x]
    BY <1>1, <1>7, FlowPlaces, FlowPlacesNext, Places
  <2>2. Flow'["wire"] \cup Flow'["l2"] \subseteq Flow["wire"] \cup Flow["l2"]
    BY <1>4, <1>6, FlowPlaces, FlowPlacesNext
  <2>3. Flow'["wire"] \cap Flow'["l2"] = {}
    BY <1>4, <1>5, <1>6, FlowPlacesNext
  <2>4. "wire" \in Place /\ "l2" \in Place /\ "wire" # "l2"  BY Places
  <2> QED  BY <2>1, <2>2, <2>3, <2>4, FlowMoved
<1>9. FlowInv'  BY <1>1, <1>4, <1>6, <1>8 DEF FlowInv
<1>10. OwnerTyped'  BY <1>1, <1>4, <1>6 DEF OwnerTyped
<1>11. {t \in Flow'["sub"] \cup Flow'["l2"] \cup Flow'["rsp"] : t[1] = "bitmap"}
           = {t \in Flow["sub"] \cup Flow["l2"] \cup Flow["rsp"] : t[1] = "bitmap"}
  BY <1>1, <1>3, <1>6, FlowPlaces, FlowPlacesNext
<1>12. \A i : SubsOf(i)' = SubsOf(i)  BY <1>1 DEF SubsOf
<1>13. OwnerInv'  BY <1>1, <1>4, <1>11, <1>12 DEF OwnerInv
<1> QED  BY <1>9, <1>10, <1>13

\* processRemoteOwnerPendingReqs: from the list of reads to the L2.
LEMMA ReadsFlow ==
    ASSUME OwnerTyped, FlowInv, OwnerInv, OwnerReads,
           UNCHANGED <<single, bitmap, fromInside, reqs>>
    PROVE  OwnerTyped' /\ FlowInv' /\ OwnerInv'
<1> DEFINE s == Head(pendingSub)
           m == [kind |-> "sub", id |-> s[1], line |-> s[2]]
<1>1. /\ pendingSub \in Seq(Nat \X Line) /\ pendingSub # <<>> /\ l2Queue \in Seq(L2Msg)
      /\ l2Queue' = Append(l2Queue, m) /\ pendingSub' = Tail(pendingSub)
      /\ UNCHANGED <<wire, back, ownerBatches, subReqs, pendingRsp, ownerL2Rsp, mem>>
  BY DEF OwnerTyped, OwnerReads
<1>2. s \in Nat \X Line  BY <1>1, TailElements
<1>3. m \in L2Msg /\ SubTokens[s] = L2Tokens[m] /\ SubTokens[s] = {<<"bitmap", s[1], s[2]>>}
  <2>1. m \in L2Msg  BY <1>2 DEF L2Msg
  <2>2. L2Tokens[m] = {<<Class("sub"), s[1], s[2]>>}  BY <2>1 DEF L2Tokens
  <2> QED  BY <1>2, <2>1, <2>2, Subs, Classes
<1> HIDE DEF s, m
<1>4. /\ Carried(SubTokens, pendingSub) = SubTokens[s] \cup Carried(SubTokens, pendingSub')
      /\ Apart(SubTokens, pendingSub') /\ SubTokens[s] \cap Carried(SubTokens, pendingSub') = {}
      /\ pendingSub' \in Seq(Nat \X Line)
  <2>1. Apart(SubTokens, pendingSub)  BY DEF FlowInv
  <2> QED  BY <1>1, <2>1, TailCarried, TailElements DEF s
<1>5. /\ SubTokens[s] \cap Carried(L2Tokens, l2Queue) = {} /\ Apart(L2Tokens, l2Queue)
      /\ Carried(SubTokens, pendingSub) \cap Carried(L2Tokens, l2Queue) = {}
  <2>1. Flow["sub"] \cap Flow["l2"] = {}  BY Places DEF FlowInv, Disjoint
  <2> QED  BY <1>4, <2>1, FlowPlaces DEF FlowInv
<1>6. /\ Carried(L2Tokens, l2Queue') = Carried(L2Tokens, l2Queue) \cup SubTokens[s]
      /\ Apart(L2Tokens, l2Queue') /\ l2Queue' \in Seq(L2Msg)
  <2>1. L2Tokens[m] \cap Carried(L2Tokens, l2Queue) = {} /\ Apart(L2Tokens, l2Queue)
    BY <1>3, <1>5
  <2> QED  BY <1>1, <1>3, <2>1, L2Grows
<1>7. DataTokens' = DataTokens  BY <1>1 DEF DataTokens
<1>8. Disjoint(Flow') /\ \A x \in Place : \A t \in Flow'[x] : Asked(t)'
  <2>1. \A x \in Place : x # "sub" /\ x # "l2" => Flow'[x] = Flow[x]
    BY <1>1, <1>7, FlowPlaces, FlowPlacesNext, Places
  <2>2. Flow'["sub"] \cup Flow'["l2"] \subseteq Flow["sub"] \cup Flow["l2"]
    BY <1>4, <1>6, FlowPlaces, FlowPlacesNext
  <2>3. Flow'["sub"] \cap Flow'["l2"] = {}
    BY <1>4, <1>5, <1>6, FlowPlacesNext
  <2>4. "sub" \in Place /\ "l2" \in Place /\ "sub" # "l2"  BY Places
  <2> QED  BY <2>1, <2>2, <2>3, <2>4, FlowMoved
<1>9. FlowInv'  BY <1>1, <1>4, <1>6, <1>8 DEF FlowInv
<1>10. OwnerTyped'  BY <1>1, <1>4, <1>6 DEF OwnerTyped
<1>11. {t \in Flow'["sub"] \cup Flow'["l2"] \cup Flow'["rsp"] : t[1] = "bitmap"}
           = {t \in Flow["sub"] \cup Flow["l2"] \cup Flow["rsp"] : t[1] = "bitmap"}
  BY <1>1, <1>4, <1>6, FlowPlaces, FlowPlacesNext
<1>12. \A i : SubsOf(i)' = SubsOf(i)  BY <1>1 DEF SubsOf
<1>13. OwnerInv'  BY <1>1, <1>11, <1>12 DEF OwnerInv
<1> QED  BY <1>9, <1>10, <1>13

\* The L2: from its requests to its responses.
LEMMA ServesFlow ==
    ASSUME OwnerTyped, FlowInv, OwnerInv, NEW i \in DOMAIN l2Queue, L2Serves(i),
           UNCHANGED <<single, bitmap, fromInside, reqs>>
    PROVE  OwnerTyped' /\ FlowInv' /\ OwnerInv'
<1> DEFINE m == l2Queue[i]
           r == [kind |-> m.kind, id |-> m.id, line |-> m.line, data |-> mem[m.line]]
<1>1. /\ l2Queue \in Seq(L2Msg) /\ i \in 1 .. Len(l2Queue) /\ ownerL2Rsp \in Seq(L2Answer)
      /\ ownerL2Rsp' = Append(ownerL2Rsp, r) /\ l2Queue' = RemoveAt(l2Queue, i)
      /\ mem' = IF m.kind = "write" THEN [mem EXCEPT ![m.line] = m.id] ELSE mem
      /\ UNCHANGED <<wire, back, ownerBatches, pendingSub, subReqs, pendingRsp>>
  BY SeqType DEF OwnerTyped, L2Serves
<1>2. m \in L2Msg  BY <1>1, SeqType
<1>3. r \in L2Answer /\ AnswerTokens[r] = L2Tokens[m] /\ mem' \in [Line -> Int]
  <2>1. /\ m.id \in Nat /\ m.line \in Line /\ m.kind \in Simple \cup {"sub"}
        /\ L2Tokens[m] = {<<Class(m.kind), m.id, m.line>>}
    BY <1>2, L2Messages
  <2>2. mem \in [Line -> Int]  BY DEF OwnerTyped
  <2>3. r \in L2Answer  BY <2>1, <2>2 DEF L2Answer
  <2>4. AnswerTokens[r] = {<<Class(r.kind), r.id, r.line>>}  BY <2>3, L2Messages
  <2>5. mem' \in [Line -> Int]
    <3>1. m.id \in Int  BY <2>1
    <3> QED  BY <1>1, <2>1, <2>2, <3>1
  <2> QED  BY <2>1, <2>3, <2>4, <2>5
<1> HIDE DEF m, r
<1>4. /\ Carried(L2Tokens, l2Queue) = L2Tokens[m] \cup Carried(L2Tokens, l2Queue')
      /\ Apart(L2Tokens, l2Queue') /\ L2Tokens[m] \cap Carried(L2Tokens, l2Queue') = {}
      /\ l2Queue' \in Seq(L2Msg)
  <2>1. Apart(L2Tokens, l2Queue)  BY DEF FlowInv
  <2>2. l2Queue \in Seq(L2Msg) /\ i \in 1 .. Len(l2Queue) /\ l2Queue' = RemoveAt(l2Queue, i)
    BY <1>1
  <2>3. l2Queue' \in Seq(L2Msg)  BY <2>2, RemoveAtElements
  <2>4. /\ Carried(L2Tokens, l2Queue) = L2Tokens[m] \cup Carried(L2Tokens, l2Queue')
        /\ Apart(L2Tokens, l2Queue') /\ L2Tokens[m] \cap Carried(L2Tokens, l2Queue') = {}
    BY <2>1, <2>2, WithoutCarried DEF m
  <2> QED  BY <2>3, <2>4
<1>5. /\ L2Tokens[m] \cap Carried(AnswerTokens, ownerL2Rsp) = {} /\ Apart(AnswerTokens, ownerL2Rsp)
      /\ Carried(L2Tokens, l2Queue) \cap Carried(AnswerTokens, ownerL2Rsp) = {}
  <2>1. Flow["l2"] \cap Flow["rsp"] = {}  BY Places DEF FlowInv, Disjoint
  <2> QED  BY <1>4, <2>1, FlowPlaces DEF FlowInv
<1>6. /\ Carried(AnswerTokens, ownerL2Rsp') = Carried(AnswerTokens, ownerL2Rsp) \cup L2Tokens[m]
      /\ Apart(AnswerTokens, ownerL2Rsp') /\ ownerL2Rsp' \in Seq(L2Answer)
  <2>1. AnswerTokens[r] \cap Carried(AnswerTokens, ownerL2Rsp) = {} /\ Apart(AnswerTokens, ownerL2Rsp)
    BY <1>3, <1>5
  <2> QED  BY <1>1, <1>3, <2>1, RspGrows
<1>7. DataTokens' = DataTokens  BY <1>1 DEF DataTokens
<1>8. Disjoint(Flow') /\ \A x \in Place : \A t \in Flow'[x] : Asked(t)'
  <2>1. \A x \in Place : x # "l2" /\ x # "rsp" => Flow'[x] = Flow[x]
    BY <1>1, <1>7, FlowPlaces, FlowPlacesNext, Places
  <2>2. Flow'["l2"] \cup Flow'["rsp"] \subseteq Flow["l2"] \cup Flow["rsp"]
    BY <1>4, <1>6, FlowPlaces, FlowPlacesNext
  <2>3. Flow'["l2"] \cap Flow'["rsp"] = {}
    BY <1>4, <1>5, <1>6, FlowPlacesNext
  <2>4. "l2" \in Place /\ "rsp" \in Place /\ "l2" # "rsp"  BY Places
  <2> QED  BY <2>1, <2>2, <2>3, <2>4, FlowMoved
<1>9. FlowInv'  BY <1>1, <1>4, <1>6, <1>8 DEF FlowInv
<1>10. OwnerTyped'  BY <1>1, <1>3, <1>4, <1>6 DEF OwnerTyped
<1>11. {t \in Flow'["sub"] \cup Flow'["l2"] \cup Flow'["rsp"] : t[1] = "bitmap"}
           = {t \in Flow["sub"] \cup Flow["l2"] \cup Flow["rsp"] : t[1] = "bitmap"}
  BY <1>1, <1>4, <1>6, FlowPlaces, FlowPlacesNext
<1>12. \A j : SubsOf(j)' = SubsOf(j)  BY <1>1 DEF SubsOf
<1>13. OwnerInv'  BY <1>1, <1>11, <1>12 DEF OwnerInv
<1> QED  BY <1>9, <1>10, <1>13

\* processRspFromL2: from the L2 to the way back.
LEMMA ReturnsFlow ==
    ASSUME OwnerTyped, FlowInv, OwnerInv, OwnerReturns,
           UNCHANGED <<single, bitmap, fromInside, reqs>>
    PROVE  OwnerTyped' /\ FlowInv' /\ OwnerInv'
<1> DEFINE m == Head(ownerL2Rsp)
<1>1. /\ ownerL2Rsp \in Seq(L2Answer) /\ ownerL2Rsp # <<>> /\ m.kind # "sub" /\ back \in Seq(RspMsg)
      /\ back' = Append(back, m) /\ ownerL2Rsp' = Tail(ownerL2Rsp)
      /\ UNCHANGED <<wire, ownerBatches, pendingSub, subReqs, pendingRsp, l2Queue, mem>>
  BY DEF OwnerTyped, OwnerReturns
<1>2. m \in L2Answer  BY <1>1, TailElements
<1> HIDE DEF m
<1>3. m \in RspMsg /\ RspTokens[m] = AnswerTokens[m] /\ m.kind # "bitmap"
      /\ \A t \in AnswerTokens[m] : t[1] # "bitmap"
  <2>1. /\ m \in RspMsg /\ m.kind \in Simple /\ RspTokens[m] = AnswerTokens[m]
        /\ AnswerTokens[m] = {<<Class(m.kind), m.id, m.line>>}
    BY <1>1, <1>2, L2Messages
  <2>2. Class(m.kind) # "bitmap" /\ m.kind # "bitmap"  BY <2>1, Classes
  <2> QED  BY <2>1, <2>2
<1>4. /\ Carried(AnswerTokens, ownerL2Rsp) = AnswerTokens[m] \cup Carried(AnswerTokens, ownerL2Rsp')
      /\ Apart(AnswerTokens, ownerL2Rsp')
      /\ AnswerTokens[m] \cap Carried(AnswerTokens, ownerL2Rsp') = {}
      /\ ownerL2Rsp' \in Seq(L2Answer)
  <2>1. Apart(AnswerTokens, ownerL2Rsp)  BY DEF FlowInv
  <2> QED  BY <1>1, <2>1, TailCarried, TailElements DEF m
<1>5. /\ AnswerTokens[m] \cap Carried(RspTokens, back) = {} /\ Apart(RspTokens, back)
      /\ Carried(AnswerTokens, ownerL2Rsp) \cap Carried(RspTokens, back) = {}
  <2>1. Flow["rsp"] \cap Flow["back"] = {}  BY Places DEF FlowInv, Disjoint
  <2> QED  BY <1>4, <2>1, FlowPlaces DEF FlowInv
<1>6. /\ Carried(RspTokens, back') = Carried(RspTokens, back) \cup AnswerTokens[m]
      /\ Apart(RspTokens, back') /\ back' \in Seq(RspMsg) /\ Range(back') = Range(back) \cup {m}
  <2>1. RspTokens[m] \cap Carried(RspTokens, back) = {} /\ Apart(RspTokens, back)
    BY <1>3, <1>5
  <2> QED  BY <1>1, <1>3, <2>1, BackGrows
<1>7. DataTokens' = DataTokens  BY <1>1 DEF DataTokens
<1>8. Disjoint(Flow') /\ \A x \in Place : \A t \in Flow'[x] : Asked(t)'
  <2>1. \A x \in Place : x # "rsp" /\ x # "back" => Flow'[x] = Flow[x]
    BY <1>1, <1>7, FlowPlaces, FlowPlacesNext, Places
  <2>2. Flow'["rsp"] \cup Flow'["back"] \subseteq Flow["rsp"] \cup Flow["back"]
    BY <1>4, <1>6, FlowPlaces, FlowPlacesNext
  <2>3. Flow'["rsp"] \cap Flow'["back"] = {}
    BY <1>4, <1>5, <1>6, FlowPlacesNext
  <2>4. "rsp" \in Place /\ "back" \in Place /\ "rsp" # "back"  BY Places
  <2> QED  BY <2>1, <2>2, <2>3, <2>4, FlowMoved
<1>9. FlowInv'  BY <1>1, <1>4, <1>6, <1>8 DEF FlowInv
<1>10. OwnerTyped'  BY <1>1, <1>4, <1>6 DEF OwnerTyped
<1>11. {t \in Flow'["sub"] \cup Flow'["l2"] \cup Flow'["rsp"] : t[1] = "bitmap"}
           = {t \in Flow["sub"] \cup Flow["l2"] \cup Flow["rsp"] : t[1] = "bitmap"}
  BY <1>1, <1>3, <1>4, FlowPlaces, FlowPlacesNext
<1>12. \A j : SubsOf(j)' = SubsOf(j)  BY <1>1 DEF SubsOf
<1>13. OwnerInv'  BY <1>1, <1>3, <1>6, <1>11, <1>12 DEF OwnerInv
<1> QED  BY <1>9, <1>10, <1>13

\* The lines of a set in ascending order: each of them once.
LEMMA Order ==
    ASSUME NEW S \in SUBSET Line, NEW order \in Ascending(S)
    PROVE  /\ order \in Seq(S) /\ IsInjective(order) /\ Range(order) = S
           /\ DOMAIN order = 1 .. Len(order) /\ IsFiniteSet(S)
<1>1. IsFiniteSet(S) /\ Cardinality(S) \in Nat
  BY OwnerAssumption, FS_Subset, FS_CardinalityType
<1> DEFINE n == Cardinality(S)
<1>2. order \in [1 .. n -> S] /\ \A i, j \in 1 .. n : i # j => order[i] # order[j]
  BY DEF Ascending, SetToSeqs
<1> HIDE DEF n
<1>3. order \in Seq(S) /\ DOMAIN order = 1 .. n /\ Len(order) = n
  BY <1>1, <1>2 DEF n
<1>4. IsInjective(order)  BY <1>2, <1>3 DEF IsInjective
<1>5. Range(order) = S
  <2>1. Cardinality(1 .. n) = n  BY <1>1, FS_Interval DEF n
  <2>2. order \in Injection(1 .. n, S)  BY <1>2, <1>4 DEF Injection
  <2>3. order \in Surjection(1 .. n, S)  BY <1>1, <2>1, <2>2, FS_Injection DEF n
  <2>4. \A x \in S : \E i \in 1 .. n : order[i] = x  BY <2>3 DEF Surjection
  <2>5. Range(order) = {order[i] : i \in 1 .. n}  BY <1>3, Zenon DEF Range
  <2> QED  BY <1>2, <2>4, <2>5
<1> QED  BY <1>1, <1>3, <1>4, <1>5

\* A function with one more value, and without one.
LEMMA WithElements ==
    ASSUME NEW f, NEW k, NEW v
    PROVE  /\ DOMAIN With(f, k, v) = DOMAIN f \cup {k}
           /\ With(f, k, v)[k] = v
           /\ \A x \in DOMAIN f : x # k => With(f, k, v)[x] = f[x]
  BY DEF With

LEMMA WithoutElements ==
    ASSUME NEW f, NEW k
    PROVE  /\ DOMAIN Without(f, k) = DOMAIN f \ {k}
           /\ \A x \in DOMAIN f : x # k => Without(f, k)[x] = f[x]
  BY DEF Without, Restrict

\* A batch that is not yet known to the owner has none of its lines there.
LEMMA NewBatch ==
    ASSUME FlowInv, OwnerInv, NEW m, m \in Range(wire), m \in ReqMsg, m.kind = "bitmap"
    PROVE  m.id \notin DOMAIN ownerBatches /\ SubsOf(m.id) = {}
<1>1. m.lines = DOMAIN bitmap[m.id].ents  BY DEF OwnerInv
<1>2. ASSUME NEW l, Asked(<<"bitmap", m.id, l>>)
      PROVE  <<"bitmap", m.id, l>> \in Flow["wire"]
  <2>1. l \in m.lines  BY <1>1, <1>2 DEF Asked
  <2>2. <<"bitmap", m.id, l>> \in ReqTokens[m]  BY <2>1, Requests
  <2>3. PICK i \in DOMAIN wire : wire[i] = m  BY DEF Range
  <2> QED  BY <2>2, <2>3, InCarried, FlowPlaces
<1>3. ASSUME NEW l, NEW p \in Place \ {"wire"} PROVE <<"bitmap", m.id, l>> \notin Flow[p]
  <2>1. SUFFICES ASSUME <<"bitmap", m.id, l>> \in Flow[p] PROVE FALSE  OBVIOUS
  <2>2. Asked(<<"bitmap", m.id, l>>)  BY <2>1 DEF FlowInv
  <2>3. <<"bitmap", m.id, l>> \in Flow["wire"]  BY <1>2, <2>2
  <2>4. Flow["wire"] \cap Flow[p] = {}  BY Places DEF FlowInv, Disjoint
  <2> QED  BY <2>1, <2>3, <2>4
<1>4. SubsOf(m.id) = {}
  <2>1. SUFFICES ASSUME NEW s \in subReqs, s[1] = m.id PROVE FALSE  BY DEF SubsOf
  <2>2. <<"bitmap", m.id, s[2]>> \in Flow["sub"] \cup Flow["l2"] \cup Flow["rsp"]
    BY <2>1 DEF OwnerInv
  <2> QED  BY <1>3, <2>2, Places
<1>5. ASSUME m.id \in DOMAIN ownerBatches PROVE FALSE
  <2>1. PICK l : l \in DOMAIN ownerBatches[m.id].data  BY <1>4, <1>5 DEF OwnerInv
  <2>2. <<"bitmap", m.id, l>> \in Flow["data"]  BY <1>5, <2>1, InData, FlowPlaces
  <2> QED  BY <1>3, <2>2, Places
<1> QED  BY <1>4, <1>5

\* processBitmapReqFromOutside: from the wire to the list of reads.
LEMMA BitmapFlow ==
    ASSUME OwnerTyped, FlowInv, OwnerInv, OwnerTakesBitmap,
           UNCHANGED <<single, bitmap, fromInside, reqs>>
    PROVE  OwnerTyped' /\ FlowInv' /\ OwnerInv'
<1> PICK m : m = Head(wire)  OBVIOUS
<1> DEFINE subs == {<<m.id, l>> : l \in m.lines}
           new == [remaining |-> Cardinality(subs), data |-> <<>>]
           tokens == {<<"bitmap", m.id, l>> : l \in m.lines}
<1>1. /\ wire \in Seq(ReqMsg) /\ wire # <<>> /\ pendingSub = <<>> /\ m.kind = "bitmap"
      /\ ownerBatches' = With(ownerBatches, m.id, new)
      /\ subReqs' = subReqs \cup subs /\ wire' = Tail(wire)
      /\ UNCHANGED <<back, pendingRsp, fromOutside, l2Queue, ownerL2Rsp, mem>>
  BY DEF OwnerTyped, OwnerTakesBitmap, OwnerLooks
<1>2. PICK order \in Ascending(m.lines) :
          pendingSub' = [i \in DOMAIN order |-> <<m.id, order[i]>>]
  BY DEF OwnerTakesBitmap
<1>3. m \in ReqMsg /\ m \in Range(wire)  BY <1>1, TailElements, TailRange
<1>4. m.id \in Nat /\ m.lines \in SUBSET Line /\ ReqTokens[m] = tokens
  BY <1>1, <1>3, Requests
<1>5. /\ order \in Seq(m.lines) /\ IsInjective(order) /\ Range(order) = m.lines
      /\ DOMAIN order = 1 .. Len(order) /\ Len(order) \in Nat /\ IsFiniteSet(m.lines)
  BY <1>2, <1>4, Order, SeqType
<1>6. m.lines # {}  BY <1>1, <1>3 DEF OwnerInv
<1>7. m.id \notin DOMAIN ownerBatches /\ SubsOf(m.id) = {}  BY <1>1, <1>3, NewBatch
<1>8. /\ Carried(ReqTokens, wire) = tokens \cup Carried(ReqTokens, wire')
      /\ Apart(ReqTokens, wire') /\ tokens \cap Carried(ReqTokens, wire') = {}
      /\ wire' \in Seq(ReqMsg) /\ Range(wire') \subseteq Range(wire)
  <2>1. Apart(ReqTokens, wire)  BY DEF FlowInv
  <2> HIDE DEF tokens, subs, new
  <2> QED  BY <1>1, <1>4, <2>1, TailCarried, TailElements, TailRange
<1>15. /\ DOMAIN ownerBatches' = DOMAIN ownerBatches \cup {m.id}
      /\ ownerBatches'[m.id] = new
      /\ \A x \in DOMAIN ownerBatches : ownerBatches'[x] = ownerBatches[x]
  <2> HIDE DEF new
  <2>1. ownerBatches' = With(ownerBatches, m.id, new)  BY <1>1
  <2> QED  BY <1>7, <2>1 DEF With
<1> HIDE DEF tokens, subs, new
<1>9. /\ pendingSub' \in Seq(Nat \X Line) /\ Apart(SubTokens, pendingSub')
      /\ Carried(SubTokens, pendingSub') = tokens
  <2>1. /\ DOMAIN pendingSub' = 1 .. Len(order)
        /\ \A i \in 1 .. Len(order) : pendingSub'[i] = <<m.id, order[i]>> /\ order[i] \in m.lines
    BY <1>2, <1>5, SeqType
  <2>2. pendingSub' = [i \in 1 .. Len(order) |-> pendingSub'[i]]  BY <1>2, <1>5
  <2>3. pendingSub' \in Seq(Nat \X Line)
    <3>1. \A i \in 1 .. Len(order) : pendingSub'[i] \in Nat \X Line
      <4>1. SUFFICES ASSUME NEW i \in 1 .. Len(order) PROVE <<m.id, order[i]>> \in Nat \X Line
        BY <2>1
      <4>2. order[i] \in Line /\ m.id \in Nat  BY <1>4, <2>1
      <4> QED  BY <4>2
    <3>2. pendingSub' \in [1 .. Len(order) -> Nat \X Line]  BY <2>2, <3>1
    <3> QED  BY <1>5, <3>2, SeqDef
  <2>4. \A i \in 1 .. Len(order) : SubTokens[pendingSub'[i]] = {<<"bitmap", m.id, order[i]>>}
    <3>1. SUFFICES ASSUME NEW i \in 1 .. Len(order)
                   PROVE  SubTokens[<<m.id, order[i]>>] = {<<"bitmap", m.id, order[i]>>}
      BY <2>1
    <3>2. m.id \in Nat /\ order[i] \in Line  BY <1>4, <2>1
    <3> QED  BY <3>2 DEF SubTokens
  <2>5. \A i, j \in 1 .. Len(order) : i # j => order[i] # order[j]  BY <1>5 DEF IsInjective
  <2>6. Apart(SubTokens, pendingSub')
    <3>1. \A i, j \in 1 .. Len(order) : i # j =>
              SubTokens[pendingSub'[i]] \cap SubTokens[pendingSub'[j]] = {}
      BY <2>4, <2>5
    <3> QED  BY <2>1, <3>1 DEF Apart
  <2>7. m.lines = {order[i] : i \in 1 .. Len(order)}  BY <1>5, Zenon DEF Range
  <2>8. tokens = {<<"bitmap", m.id, order[i]>> : i \in 1 .. Len(order)}
    BY <2>7 DEF tokens
  <2>9. ASSUME NEW t PROVE t \in Carried(SubTokens, pendingSub') <=> t \in tokens
    BY <2>1, <2>4, <2>8, InCarried
  <2> QED  BY <2>3, <2>6, <2>9
<1>10. Carried(SubTokens, pendingSub) = {}  BY <1>1, NothingCarried
<1>11. DataTokens' = DataTokens
  <2>1. ASSUME NEW t PROVE t \in DataTokens' <=> t \in DataTokens
    <3>1. DOMAIN new.data = {}  BY DEF new
    <3> QED  BY <1>15, <3>1, InData, InDataNext
  <2> QED  BY <2>1
<1>12. Disjoint(Flow') /\ \A x \in Place : \A t \in Flow'[x] : Asked(t)'
  <2>1. \A x \in Place : x # "wire" /\ x # "sub" => Flow'[x] = Flow[x]
    BY <1>1, <1>11, FlowPlaces, FlowPlacesNext, Places
  <2>2. Flow'["wire"] \cup Flow'["sub"] \subseteq Flow["wire"] \cup Flow["sub"]
    BY <1>8, <1>9, FlowPlaces, FlowPlacesNext
  <2>3. Flow'["wire"] \cap Flow'["sub"] = {}
    BY <1>8, <1>9, FlowPlacesNext
  <2>4. "wire" \in Place /\ "sub" \in Place /\ "wire" # "sub"  BY Places
  <2> QED  BY <2>1, <2>2, <2>3, <2>4, FlowMoved
<1>13. FlowInv'  BY <1>1, <1>8, <1>9, <1>12 DEF FlowInv
<1>14. /\ subs \in SUBSET (Nat \X Line) /\ IsFiniteSet(subs) /\ Cardinality(subs) \in Nat
       /\ subs # {}
  <2>1. subs \in SUBSET (Nat \X Line)  BY <1>4 DEF subs
  <2>2. IsFiniteSet(subs)
    <3> DEFINE f == [l \in m.lines |-> <<m.id, l>>]
    <3>1. f \in Surjection(m.lines, subs)  BY DEF Surjection, subs
    <3> HIDE DEF f
    <3> QED  BY <1>5, <3>1, FS_Surjection
  <2>3. subs # {}  BY <1>6 DEF subs
  <2> QED  BY <2>1, <2>2, <2>3, FS_CardinalityType
<1>16. new \in [remaining : Int, data : LineData]
  <2>1. <<>> \in [{} -> Int]  OBVIOUS
  <2>2. <<>> \in LineData  BY <2>1 DEF LineData
  <2> QED  BY <1>14, <2>2 DEF new
<1>17. OwnerTyped'
  <2>1. subReqs' \in SUBSET (Nat \X Line) /\ IsFiniteSet(subReqs')
    BY <1>1, <1>14, FS_Union DEF OwnerTyped
  <2>2. \A i \in DOMAIN ownerBatches' :
            i \in Nat /\ ownerBatches'[i] \in [remaining : Int, data : LineData]
    BY <1>4, <1>15, <1>16 DEF OwnerTyped
  <2> QED  BY <1>1, <1>8, <1>9, <2>1, <2>2 DEF OwnerTyped
<1>18. {<<"bitmap", s[1], s[2]>> : s \in subReqs'}
           = {t \in Flow'["sub"] \cup Flow'["l2"] \cup Flow'["rsp"] : t[1] = "bitmap"}
  <2>1. {<<"bitmap", s[1], s[2]>> : s \in subs} = tokens
    <3>1. \A s \in subs : s[1] = m.id /\ s[2] \in m.lines  BY DEF subs
    <3>2. \A l \in m.lines : <<m.id, l>> \in subs  BY DEF subs
    <3>3. ASSUME NEW l \in m.lines
          PROVE  <<"bitmap", m.id, l>> \in {<<"bitmap", s[1], s[2]>> : s \in subs}
      <4>1. <<m.id, l>>[1] = m.id /\ <<m.id, l>>[2] = l  OBVIOUS
      <4> QED  BY <3>2, <4>1
    <3>4. \A s \in subs : <<"bitmap", s[1], s[2]>> \in tokens  BY <3>1 DEF tokens
    <3>5. \A t \in tokens : t \in {<<"bitmap", s[1], s[2]>> : s \in subs}  BY <3>3 DEF tokens
    <3> QED  BY <3>4, <3>5
  <2>2. {t \in tokens : t[1] = "bitmap"} = tokens  BY DEF tokens
  <2>3. {<<"bitmap", s[1], s[2]>> : s \in subReqs}
            = {t \in Flow["l2"] \cup Flow["rsp"] : t[1] = "bitmap"}
    BY <1>10, FlowPlaces DEF OwnerInv
  <2>4. Flow'["sub"] = tokens /\ Flow'["l2"] = Flow["l2"] /\ Flow'["rsp"] = Flow["rsp"]
    BY <1>1, <1>9, FlowPlaces, FlowPlacesNext
  <2>5. {<<"bitmap", s[1], s[2]>> : s \in subReqs'}
            = {<<"bitmap", s[1], s[2]>> : s \in subReqs} \cup {<<"bitmap", s[1], s[2]>> : s \in subs}
    BY <1>1
  <2> QED  BY <2>1, <2>2, <2>3, <2>4, <2>5
<1>19. \A s \in subReqs' : s[1] \in DOMAIN ownerBatches'
  <2>1. \A s \in subs : s[1] = m.id  BY DEF subs
  <2> QED  BY <1>1, <1>15, <2>1 DEF OwnerInv
<1>20. SubsOf(m.id)' = subs
  <2>1. \A s \in subs : s[1] = m.id  BY DEF subs
  <2>2. \A s \in subReqs : s[1] # m.id  BY <1>7 DEF SubsOf
  <2> QED  BY <1>1, <2>1, <2>2 DEF SubsOf
<1>21. \A i \in DOMAIN ownerBatches : SubsOf(i)' = SubsOf(i)
  <2>1. \A s \in subs : s[1] = m.id  BY DEF subs
  <2> QED  BY <1>1, <1>7, <2>1 DEF SubsOf
<1>22. ASSUME NEW i \in DOMAIN ownerBatches'
       PROVE  /\ ownerBatches'[i].remaining = Cardinality(SubsOf(i)')
              /\ SubsOf(i)' # {} \/ DOMAIN ownerBatches'[i].data # {}
  <2>1. CASE i \in DOMAIN ownerBatches  BY <1>15, <1>21, <2>1 DEF OwnerInv
  <2>2. CASE i = m.id  BY <1>14, <1>15, <1>20, <2>2 DEF new
  <2> QED  BY <1>15, <2>1, <2>2
<1>23. \A i \in Range(pendingRsp') : i \in DOMAIN ownerBatches' /\ DOMAIN ownerBatches'[i].data # {}
  BY <1>1, <1>15 DEF OwnerInv
<1>24. \A x \in Range(wire') : x.kind = "bitmap" =>
           x.id \in DOMAIN bitmap' /\ x.lines = DOMAIN bitmap'[x.id].ents /\ x.lines # {}
  BY <1>8 DEF OwnerInv
<1>25. OwnerInv'  BY <1>1, <1>18, <1>19, <1>22, <1>23, <1>24 DEF OwnerInv
<1> QED  BY <1>13, <1>17, <1>25

\* processRemoteOwnerSubRsp: from the L2 to the data of a batch.
LEMMA LineFlow ==
    ASSUME OwnerTyped, FlowInv, OwnerInv, OwnerTakesLine,
           UNCHANGED <<single, bitmap, fromInside, reqs>>
    PROVE  OwnerTyped' /\ FlowInv' /\ OwnerInv'
<1> PICK m : m = Head(ownerL2Rsp)  OBVIOUS
<1> PICK b : b = ownerBatches[m.id]  OBVIOUS
<1> DEFINE t == <<"bitmap", m.id, m.line>>
           new == [remaining |-> b.remaining - 1, data |-> With(b.data, m.line, m.data)]
<1>1. /\ ownerL2Rsp \in Seq(L2Answer) /\ ownerL2Rsp # <<>> /\ m.kind = "sub"
      /\ subReqs' = subReqs \ {<<m.id, m.line>>}
      /\ ownerBatches' = [ownerBatches EXCEPT ![m.id] = new]
      /\ pendingRsp' = QueuedRsp(m.id) /\ ownerL2Rsp' = Tail(ownerL2Rsp)
      /\ UNCHANGED <<wire, back, pendingSub, fromOutside, l2Queue, mem>>
  BY DEF OwnerTyped, OwnerTakesLine
<1>2. m \in L2Answer  BY <1>1, TailElements
<1>3. m.id \in Nat /\ m.line \in Line /\ m.data \in Int /\ AnswerTokens[m] = {t}
  BY <1>1, <1>2, L2Messages, Classes
<1>4. /\ Carried(AnswerTokens, ownerL2Rsp) = {t} \cup Carried(AnswerTokens, ownerL2Rsp')
      /\ Apart(AnswerTokens, ownerL2Rsp') /\ t \notin Carried(AnswerTokens, ownerL2Rsp')
      /\ ownerL2Rsp' \in Seq(L2Answer)
  <2>1. Apart(AnswerTokens, ownerL2Rsp)  BY DEF FlowInv
  <2>2. /\ AnswerTokens[m] \cap Carried(AnswerTokens, Tail(ownerL2Rsp)) = {}
        /\ Apart(AnswerTokens, Tail(ownerL2Rsp))
        /\ Carried(AnswerTokens, ownerL2Rsp)
              = AnswerTokens[m] \cup Carried(AnswerTokens, Tail(ownerL2Rsp))
    BY <1>1, <2>1, TailCarried
  <2> HIDE DEF t
  <2> QED  BY <1>1, <1>3, <2>2, TailElements
<1>5. <<m.id, m.line>> \in subReqs
  <2>1. t \in Flow["rsp"] /\ t[1] = "bitmap"  BY <1>4, FlowPlaces
  <2>2. PICK s \in subReqs : t = <<"bitmap", s[1], s[2]>>  BY <2>1 DEF OwnerInv
  <2>3. s \in Nat \X Line  BY DEF OwnerTyped
  <2>4. s = <<m.id, m.line>>  BY <2>2, <2>3, Subs
  <2> QED  BY <2>4
<1>6. /\ m.id \in DOMAIN ownerBatches /\ b \in [remaining : Int, data : LineData]
      /\ b.remaining = Cardinality(SubsOf(m.id))
  <2>1. m.id \in DOMAIN ownerBatches  BY <1>5 DEF OwnerInv
  <2> QED  BY <2>1 DEF OwnerInv, OwnerTyped
<1> HIDE DEF t, new
<1>7. /\ DOMAIN ownerBatches' = DOMAIN ownerBatches
      /\ ownerBatches'[m.id] = new
      /\ \A x \in DOMAIN ownerBatches : x # m.id => ownerBatches'[x] = ownerBatches[x]
  BY <1>1, <1>6
<1>8. DOMAIN b.data \in SUBSET Line /\ b.data \in [DOMAIN b.data -> Int]  BY <1>6 DEF LineData
<1>9. /\ new \in [remaining : Int, data : LineData]
      /\ DOMAIN new.data = DOMAIN b.data \cup {m.line}
      /\ new.remaining = b.remaining - 1
  <2>1. With(b.data, m.line, m.data) \in [DOMAIN b.data \cup {m.line} -> Int]
    BY <1>3, <1>8 DEF With
  <2>2. With(b.data, m.line, m.data) \in LineData  BY <1>3, <1>8, <2>1 DEF LineData
  <2> QED  BY <1>6, <2>1, <2>2 DEF new
<1>10. DataTokens' = DataTokens \cup {t}
  <2>1. ASSUME NEW u \in DataTokens' PROVE u \in DataTokens \/ u = t
    <3>0. PICK i \in DOMAIN ownerBatches' : \E l \in DOMAIN ownerBatches'[i].data : u = <<"bitmap", i, l>>
      BY InDataNext
    <3>1. PICK l \in DOMAIN ownerBatches'[i].data : u = <<"bitmap", i, l>>
      BY <3>0
    <3>2. CASE i = m.id
      <4>1. CASE l = m.line  BY <3>1, <3>2, <4>1 DEF t
      <4>2. CASE l # m.line
        <5>1. i \in DOMAIN ownerBatches /\ l \in DOMAIN ownerBatches[i].data
          BY <1>6, <1>7, <1>9, <3>1, <3>2, <4>2
        <5> QED  BY <3>1, <5>1, InData
      <4> QED  BY <4>1, <4>2
    <3>3. CASE i # m.id
      <4>1. i \in DOMAIN ownerBatches /\ l \in DOMAIN ownerBatches[i].data  BY <1>7, <3>1, <3>3
      <4> QED  BY <3>1, <4>1, InData
    <3> QED  BY <3>2, <3>3
  <2>2. t \in DataTokens'
    <3>1. m.id \in DOMAIN ownerBatches' /\ m.line \in DOMAIN ownerBatches'[m.id].data
      BY <1>6, <1>7, <1>9
    <3> QED  BY <3>1, InDataNext DEF t
  <2>3. ASSUME NEW u \in DataTokens PROVE u \in DataTokens'
    <3>0. PICK i \in DOMAIN ownerBatches : \E l \in DOMAIN ownerBatches[i].data : u = <<"bitmap", i, l>>
      BY InData
    <3>1. PICK l \in DOMAIN ownerBatches[i].data : u = <<"bitmap", i, l>>
      BY <3>0
    <3>2. i \in DOMAIN ownerBatches' /\ l \in DOMAIN ownerBatches'[i].data
      <4>1. CASE i = m.id  BY <1>7, <1>9, <3>1, <4>1
      <4>2. CASE i # m.id  BY <1>7, <3>1, <4>2
      <4> QED  BY <4>1, <4>2
    <3> QED  BY <3>1, <3>2, InDataNext
  <2> QED  BY <2>1, <2>2, <2>3
<1>11. Disjoint(Flow') /\ \A x \in Place : \A u \in Flow'[x] : Asked(u)'
  <2>1. \A x \in Place : x # "rsp" /\ x # "data" => Flow'[x] = Flow[x]
    BY <1>1, FlowPlaces, FlowPlacesNext, Places
  <2>2. Flow'["rsp"] \cup Flow'["data"] \subseteq Flow["rsp"] \cup Flow["data"]
    BY <1>4, <1>10, FlowPlaces, FlowPlacesNext
  <2>3. "rsp" \in Place /\ "data" \in Place /\ "rsp" # "data"  BY Places
  <2>4. Flow["rsp"] \cap Flow["data"] = {}  BY <2>3 DEF FlowInv, Disjoint
  <2>5. Flow'["rsp"] \cap Flow'["data"] = {}
    BY <1>4, <1>10, <2>4, FlowPlaces, FlowPlacesNext
  <2> QED  BY <2>1, <2>2, <2>3, <2>5, FlowMoved
<1>12. FlowInv'  BY <1>1, <1>4, <1>11 DEF FlowInv
<1>13. /\ pendingRsp' \in Seq(Nat) /\ IsInjective(pendingRsp')
       /\ Range(pendingRsp') = Range(pendingRsp) \cup {m.id}
  <2>1. pendingRsp \in Seq(Nat) /\ IsInjective(pendingRsp)  BY DEF OwnerTyped, OwnerInv
  <2>2. CASE m.id \in Range(pendingRsp)  BY <1>1, <2>1, <2>2 DEF QueuedRsp
  <2>3. CASE m.id \notin Range(pendingRsp)
    <3>1. pendingRsp' = Append(pendingRsp, m.id)  BY <1>1, <2>3 DEF QueuedRsp
    <3> QED  BY <1>3, <2>1, <2>3, <3>1, AppendElements, AppendRange, InjectiveAppend
  <2> QED  BY <2>2, <2>3
<1>14. OwnerTyped'
  <2>1. subReqs' \in SUBSET (Nat \X Line) /\ IsFiniteSet(subReqs')
    BY <1>1, FS_RemoveElement DEF OwnerTyped
  <2>2. \A i \in DOMAIN ownerBatches' :
            i \in Nat /\ ownerBatches'[i] \in [remaining : Int, data : LineData]
    BY <1>3, <1>7, <1>9 DEF OwnerTyped
  <2> QED  BY <1>1, <1>4, <1>13, <2>1, <2>2 DEF OwnerTyped
<1>15. {<<"bitmap", s[1], s[2]>> : s \in subReqs'}
           = {u \in Flow'["sub"] \cup Flow'["l2"] \cup Flow'["rsp"] : u[1] = "bitmap"}
  <2>1. {<<"bitmap", s[1], s[2]>> : s \in subReqs'}
            = {<<"bitmap", s[1], s[2]>> : s \in subReqs} \ {t}
    <3>1. \A s \in subReqs : s = <<s[1], s[2]>>  BY Subs DEF OwnerTyped
    <3>2. \A s \in subReqs : <<"bitmap", s[1], s[2]>> = t <=> s = <<m.id, m.line>>
      BY <3>1 DEF t
    <3>3. ASSUME NEW u
          PROVE  u \in {<<"bitmap", s[1], s[2]>> : s \in subReqs'}
                     <=> u \in {<<"bitmap", s[1], s[2]>> : s \in subReqs} /\ u # t
      BY <1>1, <3>2
    <3> QED  BY <3>3
  <2>2. t \notin Flow'["sub"] \cup Flow'["l2"] \cup Flow'["rsp"]
    <3>1. t \in Flow'["data"]  BY <1>10, FlowPlacesNext
    <3> QED  BY <1>11, <3>1, Places DEF Disjoint
  <2>3. /\ Flow'["sub"] = Flow["sub"] /\ Flow'["l2"] = Flow["l2"]
        /\ Flow["rsp"] = Flow'["rsp"] \cup {t}
    BY <1>1, <1>4, FlowPlaces, FlowPlacesNext
  <2>4. {<<"bitmap", s[1], s[2]>> : s \in subReqs}
           = {u \in Flow["sub"] \cup Flow["l2"] \cup Flow["rsp"] : u[1] = "bitmap"}
    BY DEF OwnerInv
  <2> QED  BY <2>1, <2>2, <2>3, <2>4
<1>16. \A s \in subReqs' : s[1] \in DOMAIN ownerBatches'  BY <1>1, <1>7 DEF OwnerInv
<1>17. \A i : i # m.id => SubsOf(i)' = SubsOf(i)  BY <1>1 DEF SubsOf
<1>18. SubsOf(m.id)' = SubsOf(m.id) \ {<<m.id, m.line>>} /\ <<m.id, m.line>> \in SubsOf(m.id)
  BY <1>1, <1>5 DEF SubsOf
<1>19. Cardinality(SubsOf(m.id)') = Cardinality(SubsOf(m.id)) - 1
  <2>1. IsFiniteSet(subReqs)  BY DEF OwnerTyped
  <2>2. IsFiniteSet(SubsOf(m.id))  BY <2>1, FS_Subset DEF SubsOf
  <2> QED  BY <1>18, <2>2, FS_RemoveElement
<1>20. ASSUME NEW i \in DOMAIN ownerBatches'
       PROVE  /\ ownerBatches'[i].remaining = Cardinality(SubsOf(i)')
              /\ SubsOf(i)' # {} \/ DOMAIN ownerBatches'[i].data # {}
  <2>1. CASE i # m.id  BY <1>7, <1>17, <2>1 DEF OwnerInv
  <2>2. CASE i = m.id  BY <1>6, <1>7, <1>9, <1>19, <2>2
  <2> QED  BY <2>1, <2>2
<1>21. ASSUME NEW i \in Range(pendingRsp')
       PROVE  i \in DOMAIN ownerBatches' /\ DOMAIN ownerBatches'[i].data # {}
  <2>1. CASE i # m.id  BY <1>7, <1>13, <2>1 DEF OwnerInv
  <2>2. CASE i = m.id  BY <1>6, <1>7, <1>9, <2>2
  <2> QED  BY <2>1, <2>2
<1>22. OwnerInv'  BY <1>1, <1>13, <1>15, <1>16, <1>20, <1>21 DEF OwnerInv
<1> QED  BY <1>12, <1>14, <1>22

\* processRemoteOwnerPendingRsps: from the data of a batch to the way back.
LEMMA AnswersFlow ==
    ASSUME OwnerTyped, FlowInv, OwnerInv, OwnerAnswers,
           UNCHANGED <<single, bitmap, fromInside, reqs>>
    PROVE  OwnerTyped' /\ FlowInv' /\ OwnerInv'
<1> PICK id : id = Head(pendingRsp)  OBVIOUS
<1> PICK b : b = ownerBatches[id]  OBVIOUS
<1> DEFINE m == [kind |-> "bitmap", id |-> id, data |-> b.data]
           tokens == {<<"bitmap", id, l>> : l \in DOMAIN b.data}
<1>1. /\ pendingRsp \in Seq(Nat) /\ pendingRsp # <<>> /\ back \in Seq(RspMsg)
      /\ back' = Append(back, m) /\ pendingRsp' = Tail(pendingRsp)
      /\ ownerBatches' = IF b.remaining = 0 THEN Without(ownerBatches, id)
                         ELSE [ownerBatches EXCEPT ![id] = LinesSent(b)]
      /\ UNCHANGED <<wire, pendingSub, subReqs, fromOutside, l2Queue, ownerL2Rsp, mem>>
  BY DEF OwnerTyped, OwnerAnswers
<1>2. /\ id \in Range(pendingRsp) /\ id \in Nat
      /\ IsInjective(pendingRsp') /\ Range(pendingRsp') = Range(pendingRsp) \ {id}
      /\ pendingRsp' \in Seq(Nat)
  BY <1>1, TailElements, TailRange, InjectiveTail DEF OwnerInv
<1>3. /\ id \in DOMAIN ownerBatches /\ b \in [remaining : Int, data : LineData]
      /\ DOMAIN b.data # {} /\ b.remaining = Cardinality(SubsOf(id))
  BY <1>2 DEF OwnerInv, OwnerTyped
<1>4. m \in RspMsg /\ m.kind = "bitmap" /\ m.data = b.data  BY <1>2, <1>3 DEF RspMsg
<1>5. RspTokens[m] = tokens  BY <1>4, Responses
<1> HIDE DEF m, tokens
<1>6. \A t : t \in tokens <=> \E l \in DOMAIN b.data : t = <<"bitmap", id, l>>  BY DEF tokens
<1>7. /\ DOMAIN ownerBatches' \subseteq DOMAIN ownerBatches
      /\ \A x \in DOMAIN ownerBatches : x # id =>
             x \in DOMAIN ownerBatches' /\ ownerBatches'[x] = ownerBatches[x]
      /\ id \in DOMAIN ownerBatches' => /\ DOMAIN ownerBatches'[id].data = {}
                                        /\ b.remaining # 0
                                        /\ ownerBatches'[id].remaining = b.remaining
                                        /\ ownerBatches'[id] \in [remaining : Int, data : LineData]
      /\ b.remaining # 0 => id \in DOMAIN ownerBatches'
  <2>1. CASE b.remaining = 0
    <3>1. ownerBatches' = Without(ownerBatches, id)  BY <1>1, <2>1
    <3> QED  BY <2>1, <3>1, WithoutElements
  <2>2. CASE b.remaining # 0
    <3>1. ownerBatches' = [ownerBatches EXCEPT ![id] = LinesSent(b)]  BY <1>1, <2>2
    <3>2. LinesSent(b).data = <<>> /\ LinesSent(b).remaining = b.remaining
          /\ LinesSent(b) \in [remaining : Int, data : LineData]
      <4>1. <<>> \in [{} -> Int]  OBVIOUS
      <4>2. <<>> \in LineData  BY <4>1 DEF LineData
      <4> QED  BY <1>3, <4>2 DEF LinesSent
    <3> QED  BY <1>3, <2>2, <3>1, <3>2
  <2> QED  BY <2>1, <2>2
<1>8. DataTokens = DataTokens' \cup tokens /\ DataTokens' \cap tokens = {}
  <2>1. ASSUME NEW t \in DataTokens PROVE t \in DataTokens' \/ t \in tokens
    <3>0. PICK i \in DOMAIN ownerBatches : \E l \in DOMAIN ownerBatches[i].data : t = <<"bitmap", i, l>>
      BY InData
    <3>1. PICK l \in DOMAIN ownerBatches[i].data : t = <<"bitmap", i, l>>
      BY <3>0
    <3>2. CASE i = id  BY <1>6, <3>1, <3>2
    <3>3. CASE i # id  BY <1>7, <3>1, <3>3, InDataNext
    <3> QED  BY <3>2, <3>3
  <2>2. ASSUME NEW t \in DataTokens' PROVE t \in DataTokens /\ t \notin tokens
    <3>0. PICK i \in DOMAIN ownerBatches' : \E l \in DOMAIN ownerBatches'[i].data : t = <<"bitmap", i, l>>
      BY InDataNext
    <3>1. PICK l \in DOMAIN ownerBatches'[i].data : t = <<"bitmap", i, l>>
      BY <3>0
    <3>2. i # id  BY <1>7, <3>1
    <3>3. t \in DataTokens  BY <1>7, <3>1, <3>2, InData
    <3>4. t \notin tokens  BY <1>6, <3>1, <3>2
    <3> QED  BY <3>3, <3>4
  <2>3. \A t \in tokens : t \in DataTokens  BY <1>3, <1>6, InData
  <2> QED  BY <2>1, <2>2, <2>3
<1>9. /\ tokens \cap Carried(RspTokens, back) = {} /\ Apart(RspTokens, back)
      /\ DataTokens \cap Carried(RspTokens, back) = {}
  <2>1. Flow["data"] \cap Flow["back"] = {}  BY Places DEF FlowInv, Disjoint
  <2> QED  BY <1>8, <2>1, FlowPlaces DEF FlowInv
<1>10. /\ Carried(RspTokens, back') = Carried(RspTokens, back) \cup tokens
       /\ Apart(RspTokens, back') /\ back' \in Seq(RspMsg) /\ Range(back') = Range(back) \cup {m}
  <2>1. RspTokens[m] \cap Carried(RspTokens, back) = {} /\ Apart(RspTokens, back)
    BY <1>5, <1>9
  <2> QED  BY <1>1, <1>4, <1>5, <2>1, BackGrows
<1>11. Disjoint(Flow') /\ \A x \in Place : \A t \in Flow'[x] : Asked(t)'
  <2>1. \A x \in Place : x # "data" /\ x # "back" => Flow'[x] = Flow[x]
    BY <1>1, FlowPlaces, FlowPlacesNext, Places
  <2>2. Flow'["data"] \cup Flow'["back"] \subseteq Flow["data"] \cup Flow["back"]
    BY <1>8, <1>10, FlowPlaces, FlowPlacesNext
  <2>3. Flow'["data"] \cap Flow'["back"] = {}
    BY <1>8, <1>9, <1>10, FlowPlacesNext
  <2>4. "data" \in Place /\ "back" \in Place /\ "data" # "back"  BY Places
  <2> QED  BY <2>1, <2>2, <2>3, <2>4, FlowMoved
<1>12. FlowInv'  BY <1>1, <1>10, <1>11 DEF FlowInv
<1>13. OwnerTyped'
  <2>1. \A i \in DOMAIN ownerBatches' :
            i \in Nat /\ ownerBatches'[i] \in [remaining : Int, data : LineData]
    BY <1>2, <1>7 DEF OwnerTyped
  <2> QED  BY <1>1, <1>2, <1>10, <2>1 DEF OwnerTyped
<1>14. \A i : SubsOf(i)' = SubsOf(i)  BY <1>1 DEF SubsOf
<1>15. SubsOf(id) = {} <=> b.remaining = 0
  <2>1. IsFiniteSet(subReqs)  BY DEF OwnerTyped
  <2>2. IsFiniteSet(SubsOf(id))  BY <2>1, FS_Subset DEF SubsOf
  <2> QED  BY <1>3, <2>2, FS_EmptySet
<1>16. ASSUME NEW i \in DOMAIN ownerBatches'
       PROVE  /\ ownerBatches'[i].remaining = Cardinality(SubsOf(i)')
              /\ SubsOf(i)' # {} \/ DOMAIN ownerBatches'[i].data # {}
  <2>1. CASE i # id  BY <1>7, <1>14, <2>1 DEF OwnerInv
  <2>2. CASE i = id  BY <1>3, <1>7, <1>14, <1>15, <2>2
  <2> QED  BY <2>1, <2>2
<1>17. \A s \in subReqs' : s[1] \in DOMAIN ownerBatches'
  <2>1. SUFFICES ASSUME NEW s \in subReqs PROVE s[1] \in DOMAIN ownerBatches'  BY <1>1
  <2>2. s[1] \in DOMAIN ownerBatches /\ s \in SubsOf(s[1])  BY DEF OwnerInv, SubsOf
  <2> QED  BY <1>7, <1>15, <2>2
<1>18. \A i \in Range(pendingRsp') : i \in DOMAIN ownerBatches' /\ DOMAIN ownerBatches'[i].data # {}
  BY <1>2, <1>7 DEF OwnerInv
<1>19. \A x \in Range(back') : x.kind = "bitmap" => DOMAIN x.data # {}
  BY <1>3, <1>4, <1>10 DEF OwnerInv
<1>20. {<<"bitmap", s[1], s[2]>> : s \in subReqs'}
           = {t \in Flow'["sub"] \cup Flow'["l2"] \cup Flow'["rsp"] : t[1] = "bitmap"}
  BY <1>1, FlowPlaces, FlowPlacesNext DEF OwnerInv
<1>21. OwnerInv'  BY <1>1, <1>2, <1>16, <1>17, <1>18, <1>19, <1>20 DEF OwnerInv
<1> QED  BY <1>12, <1>13, <1>21

\* Every step of the owner keeps its part of the invariant.
LEMMA OwnerSteps ==
    ASSUME OwnerTyped, FlowInv, OwnerInv, OwnerStep,
           UNCHANGED <<single, bitmap, fromInside, reqs>>
    PROVE  OwnerTyped' /\ FlowInv' /\ OwnerInv'
  BY BitmapFlow, ForwardsFlow, ReadsFlow, ServesFlow, LineFlow, ReturnsFlow, AnswersFlow
     DEF OwnerStep

-------------------------------------------------------------------------------
(* What a step leaves alone *)

OwnerSide == <<wire, back, ownerBatches, pendingSub, subReqs, pendingRsp, l2Queue, ownerL2Rsp,
               mem, single, bitmap, fromInside, reqs>>

\* A step that the owner has no part in.
LEMMA OwnerSideKept ==
    ASSUME OwnerTyped, FlowInv, OwnerInv, UNCHANGED OwnerSide
    PROVE  OwnerTyped' /\ FlowInv' /\ OwnerInv'
<1>1. /\ wire' = wire /\ back' = back /\ ownerBatches' = ownerBatches /\ pendingSub' = pendingSub
      /\ subReqs' = subReqs /\ pendingRsp' = pendingRsp /\ l2Queue' = l2Queue
      /\ ownerL2Rsp' = ownerL2Rsp /\ mem' = mem
      /\ single' = single /\ bitmap' = bitmap /\ fromInside' = fromInside /\ reqs' = reqs
  BY DEF OwnerSide
<1>2. OwnerTyped'  BY <1>1 DEF OwnerTyped
<1>3. DataTokens' = DataTokens  BY <1>1 DEF DataTokens
<1>4. Flow' = Flow  BY <1>1, <1>3 DEF Flow
<1>5. \A t : Asked(t)' <=> Asked(t)  BY <1>1 DEF Asked
<1>6. FlowInv'  BY <1>1, <1>4, <1>5 DEF FlowInv
<1>7. \A i : SubsOf(i)' = SubsOf(i)  BY <1>1 DEF SubsOf
<1>8. OwnerInv'  BY <1>1, <1>4, <1>7 DEF OwnerInv
<1> QED  BY <1>2, <1>6, <1>8

\* The entries that are in flight stay what they are, and no others are in flight.
LEMMA SentKept ==
    ASSUME SentInv, UNCHANGED <<reqs, fromInside, single, bitmap>>, toL1' \in {0, toL1}, 0 \notin DOMAIN reqs,
           \A i \in DOMAIN entry' :
               Known(i)' /\ reqs[i].op = "read" /\ entry'[i].line = reqs[i].line,
           \A i \in DOMAIN entry : entry[i].state = "inflight" =>
               i \in DOMAIN entry' /\ entry'[i].state = "inflight",
           \A i \in DOMAIN entry' : i \in DOMAIN bitmap => entry'[i].state \in {"inflight", "ready"}
    PROVE  SentInv'
<1>1. \A i : Known(i) => Known(i)'  BY DEF Known
<1>2. \A i \in fromInside' : Known(i)' /\ reqs'[i].op # "read"  BY <1>1 DEF SentInv
<1>3. \A i \in single' : Is(i, "inflight")'  BY DEF SentInv, Is
<1>4. \A l : FlyingFor(l) \subseteq FlyingFor(l)'
  <2>1. SUFFICES ASSUME NEW l, NEW e \in FlyingFor(l) PROVE e \in FlyingFor(l)'  OBVIOUS
  <2>2. e \in DOMAIN entry /\ entry[e].state = "inflight" /\ entry[e].line = l /\ e \notin single
    BY <2>1 DEF FlyingFor
  <2>3. entry[e].line = reqs[e].line  BY <2>2 DEF SentInv
  <2> QED  BY <2>2, <2>3 DEF FlyingFor
<1>5. \A i, l : Unfinished(i, l)' <=> Unfinished(i, l)  BY DEF Unfinished
<1>6. ASSUME NEW i \in DOMAIN bitmap'
      PROVE  /\ Known(i)' /\ reqs'[i].op = "read" /\ i \notin single'
             /\ i \in DOMAIN entry' => entry'[i].state \in {"inflight", "ready"}
             /\ \A l : Unfinished(i, l)' => bitmap'[i].ents[l] \in FlyingFor(l)'
  <2>1. i \in DOMAIN bitmap /\ bitmap' = bitmap  BY <1>6
  <2>2. /\ Known(i) /\ reqs[i].op = "read" /\ i \notin single
        /\ \A l : Unfinished(i, l) => bitmap[i].ents[l] \in FlyingFor(l)
    BY <2>1 DEF SentInv
  <2>3. \A l : Unfinished(i, l)' => bitmap[i].ents[l] \in FlyingFor(l)'  BY <1>4, <1>5, <2>2
  <2> QED  BY <1>1, <2>1, <2>2, <2>3
<1>7. \A i, j \in DOMAIN bitmap' : \A l :
          Unfinished(i, l)' /\ Unfinished(j, l)' /\ bitmap'[i].ents[l] = bitmap'[j].ents[l] => i = j
  BY <1>5 DEF SentInv
<1> QED  BY <1>2, <1>3, <1>6, <1>7 DEF SentInv

\* The entries that the requester's L2 is to answer stay what they are.
LEMMA CacheKept ==
    ASSUME CacheInv, UNCHANGED <<top, l2Rsp>>,
           \A i \in DOMAIN entry : entry[i].state = "probing" =>
               i \in DOMAIN entry' /\ entry'[i].state = "probing",
           \A i \in DOMAIN entry : entry[i].state = "ready" /\ entry[i].fill = "inflight" =>
               i \in DOMAIN entry' /\ entry'[i].state = "ready" /\ entry'[i].fill = "inflight"
    PROVE  CacheInv'
<1>1. \A t \in Carried(CacheTokens, top') \cup Carried(CacheTokens, l2Rsp') :
           IF t[1] = "lookup" THEN Is(t[2], "probing")'
                              ELSE Is(t[2], "ready")' /\ entry'[t[2]].fill = "inflight"
  BY DEF CacheInv, Is
<1> QED  BY <1>1 DEF CacheInv

\* The entries that are collected stay what they are.
LEMMA BatchesKept ==
    ASSUME QueueInv, UNCHANGED batches,
           \A i \in DOMAIN entry : entry[i].state = "collecting" =>
               i \in DOMAIN entry' /\ entry'[i].state = "collecting" /\ entry'[i].line = entry[i].line
    PROVE  \A p \in DOMAIN batches' : \A l \in DOMAIN batches'[p] :
               batches'[p][l] \in CollectedFor(l)' /\ Page(l) = p
<1>1. \A l : CollectedFor(l) \subseteq CollectedFor(l)'  BY DEF CollectedFor
<1> QED  BY <1>1 DEF QueueInv

\* No entry comes or goes, and the waiters stay.
LEMMA TableKept ==
    ASSUME TableInv, WaitersInTable, UNCHANGED <<lines, reqs, outstandingReads>>, toL1' \in {0, toL1},
           0 \notin DOMAIN reqs, DOMAIN entry' = DOMAIN entry,
           \A i \in DOMAIN entry : /\ entry'[i].line = entry[i].line
                                   /\ entry'[i].epoch = entry[i].epoch
                                   /\ entry'[i].waiters = entry[i].waiters
    PROVE  TableInv' /\ WaitersInTable'
<1>1. \A i \in DOMAIN entry : Key(entry'[i]) = Key(entry[i])  BY DEF Key
<1>2. \A i : Known(i) => Known(i)'  BY DEF Known
<1>3. WaitingReads' = WaitingReads  BY DEF WaitingReads
<1>4. \A k \in DOMAIN lines' : lines'[k] \in DOMAIN entry' /\ Key(entry'[lines'[k]]) = k
  BY <1>1 DEF TableInv
<1>5. TableInv'  BY <1>2, <1>3, <1>4 DEF TableInv
<1>6. WaitersInTable'
  <2>1. ASSUME NEW i \in DOMAIN entry, InTable(i) PROVE InTable(i)'
    BY <1>1, <2>1 DEF InTable
  <2> QED  BY <2>1 DEF WaitersInTable
<1> QED  BY <1>5, <1>6

\* queueRemoteReady: once, however often it is called.
LEMMA QueuedReady ==
    ASSUME ready \in Seq(Nat), IsInjective(ready), NEW id \in Nat
    PROVE  /\ Queued(id) \in Seq(Nat) /\ IsInjective(Queued(id))
           /\ Range(Queued(id)) = Range(ready) \cup {id}
<1>1. CASE id \in Range(ready)  BY <1>1 DEF Queued
<1>2. CASE id \notin Range(ready)
  BY <1>2, AppendElements, AppendRange, InjectiveAppend DEF Queued
<1> QED  BY <1>1, <1>2

\* The requests are numbered from 1, and the one at ToL1 has no entry yet.
LEMMA NumbersOfReads ==
    ASSUME RequestsTyped, SentInv
    PROVE  /\ DOMAIN reqs = 1 .. Len(reqs) /\ Len(reqs) \in Nat /\ 0 \notin DOMAIN reqs
           /\ DOMAIN reqs \subseteq Nat
           /\ DOMAIN entry \subseteq DOMAIN reqs /\ toL1 \notin DOMAIN entry
           /\ toL1 \in Nat /\ (toL1 # 0 => toL1 \in DOMAIN reqs)
<1>1. DOMAIN reqs = 1 .. Len(reqs) /\ Len(reqs) \in Nat  BY SeqType DEF RequestsTyped
<1>2. DOMAIN entry \subseteq DOMAIN reqs /\ toL1 \notin DOMAIN entry  BY DEF SentInv, Known
<1>3. toL1 \in {0, Len(reqs)}  BY DEF RequestsTyped
<1>4. toL1 \in Nat /\ (toL1 # 0 => toL1 \in DOMAIN reqs)
  <2> PICK n : n = Len(reqs)  OBVIOUS
  <2>1. n \in Nat /\ DOMAIN reqs = 1 .. n /\ toL1 \in {0, n}  BY <1>1, <1>3
  <2> QED  BY <2>1
<1>5. 0 \notin DOMAIN reqs /\ DOMAIN reqs \subseteq Nat  BY <1>1
<1> QED  BY <1>1, <1>2, <1>4, <1>5

\* The reads that wait are among the requests.
LEMMA WaitersFinite ==
    ASSUME RequestsTyped, RequesterTyped, TableInv
    PROVE  /\ IsFiniteSet(WaitingReads) /\ WaitingReads \in SUBSET DOMAIN reqs
           /\ \A r : r \in WaitingReads <=> \E i \in DOMAIN entry : r \in Range(entry[i].waiters)
<1>1. \A r : r \in WaitingReads <=> \E i \in DOMAIN entry : r \in Range(entry[i].waiters)
  BY DEF WaitingReads
<1>2. WaitingReads \in SUBSET DOMAIN reqs  BY <1>1 DEF TableInv, Known
<1>3. IsFiniteSet(DOMAIN reqs)  BY SeqType, FS_Interval DEF RequestsTyped
<1> QED  BY <1>1, <1>2, <1>3, FS_Subset

-------------------------------------------------------------------------------
(* The steps of the requester *)

\* What no step of the requester changes.
EngineFrame == <<ownerVars, replica, generation, ctrlVars, systemVars>>

LEMMA Parts ==
    ASSUME IInv
    PROVE  /\ RequestsTyped /\ OwnerTyped /\ CacheTyped /\ RequesterTyped /\ FlowInv /\ OwnerInv
           /\ SentInv /\ CacheInv /\ QueueInv /\ TableInv /\ WaitersInTable
  BY DEF IInv, Typed

LEMMA EngineKept ==
    ASSUME IInv, UNCHANGED EngineFrame, UNCHANGED reqs, toL1' \in {0, toL1}
    PROVE  /\ RequestsTyped'
           /\ ownerBatches' = ownerBatches /\ pendingSub' = pendingSub /\ subReqs' = subReqs
           /\ pendingRsp' = pendingRsp /\ l2Queue' = l2Queue /\ ownerL2Rsp' = ownerL2Rsp
           /\ mem' = mem /\ replica' = replica /\ generation' = generation
<1>1. /\ latest' = latest /\ kernels' = kernels /\ reqs' = reqs
      /\ ownerBatches' = ownerBatches /\ pendingSub' = pendingSub /\ subReqs' = subReqs
      /\ pendingRsp' = pendingRsp /\ l2Queue' = l2Queue /\ ownerL2Rsp' = ownerL2Rsp
      /\ mem' = mem /\ replica' = replica /\ generation' = generation
  BY DEF EngineFrame, ownerVars, systemVars
<1>2. RequestsTyped  BY DEF IInv, Typed
<1> QED  BY <1>1, <1>2 DEF RequestsTyped

\* addRemoteWaiter changes the waiters only.
LEMMA WaiterAdded ==
    ASSUME NEW e \in EntryRec, NEW r \in Nat
    PROVE  /\ WithWaiter(e, r) \in EntryRec /\ WithWaiter(e, r).waiters = Append(e.waiters, r)
           /\ WithWaiter(e, r).line = e.line /\ WithWaiter(e, r).epoch = e.epoch
           /\ WithWaiter(e, r).state = e.state /\ WithWaiter(e, r).data = e.data
           /\ WithWaiter(e, r).fill = e.fill
<1>1. Append(e.waiters, r) \in Seq(Nat)  BY AppendElements DEF EntryRec
<1> QED  BY <1>1 DEF WithWaiter, EntryRec

\* A read joins an entry.
LEMMA JoinStep ==
    ASSUME IInv, Join, UNCHANGED <<back, l2Rsp>>, UNCHANGED EngineFrame
    PROVE  IInv'
<1> PICK r : r = toL1  OBVIOUS
<1> PICK key : key = HeadKey  OBVIOUS
<1> PICK id : id = lines[key]  OBVIOUS
<1>1. /\ r # 0 /\ key \in DOMAIN lines
      /\ entry' = [entry EXCEPT ![id] = WithWaiter(@, r)]
      /\ ready' = IF entry[id].data = NoData THEN ready ELSE Queued(id)
      /\ outstandingReads' = outstandingReads + 1 /\ toL1' = 0
      /\ UNCHANGED <<reqs, lines, epochs, uncacheable, pending, pendingBatch, batches, batchOrder,
                     probes, single, bitmap, fromInside, fills, wire, top, back, l2Rsp>>
  BY DEF Join, FullRead, QueueIfData, Consume, batchVars
<1>2. /\ RequestsTyped' /\ UNCHANGED <<ownerBatches, pendingSub, subReqs, pendingRsp, l2Queue,
                                       ownerL2Rsp, mem, replica, generation>>
  BY <1>1, EngineKept
<1>3. /\ RequestsTyped /\ OwnerTyped /\ CacheTyped /\ RequesterTyped /\ FlowInv /\ OwnerInv
      /\ SentInv /\ CacheInv /\ QueueInv /\ TableInv /\ WaitersInTable
  BY Parts
<1>4. /\ 0 \notin DOMAIN reqs /\ DOMAIN entry \subseteq DOMAIN reqs /\ DOMAIN reqs \subseteq Nat
      /\ r \notin DOMAIN entry /\ r \in DOMAIN reqs /\ r \in Nat
  BY <1>1, <1>3, NumbersOfReads
<1>5. id \in DOMAIN entry /\ id \in Nat /\ entry[id] \in EntryRec
  BY <1>1, <1>3, <1>4 DEF TableInv, RequesterTyped
<1>6. /\ DOMAIN entry' = DOMAIN entry /\ entry'[id] = WithWaiter(entry[id], r)
      /\ \A i \in DOMAIN entry : i # id => entry'[i] = entry[i]
      /\ entry'[id] \in EntryRec /\ entry'[id].waiters = Append(entry[id].waiters, r)
      /\ \A i \in DOMAIN entry :
             /\ entry'[i].line = entry[i].line /\ entry'[i].epoch = entry[i].epoch
             /\ entry'[i].state = entry[i].state /\ entry'[i].data = entry[i].data
             /\ entry'[i].fill = entry[i].fill
  <2>1. DOMAIN entry' = DOMAIN entry /\ entry'[id] = WithWaiter(entry[id], r)
        /\ \A i \in DOMAIN entry : i # id => entry'[i] = entry[i]
    BY <1>1, <1>5
  <2>a. PICK e : e = WithWaiter(entry[id], r)  OBVIOUS
  <2>2. /\ e \in EntryRec /\ e.waiters = Append(entry[id].waiters, r)
        /\ e.line = entry[id].line /\ e.epoch = entry[id].epoch
        /\ e.state = entry[id].state /\ e.data = entry[id].data /\ e.fill = entry[id].fill
    <3>a. PICK o : o = entry[id]  OBVIOUS
    <3>1. o \in EntryRec /\ r \in Nat /\ e = WithWaiter(o, r)  BY <1>4, <1>5, <2>a, <3>a
    <3>2. /\ e \in EntryRec /\ e.waiters = Append(o.waiters, r)
          /\ e.line = o.line /\ e.epoch = o.epoch
          /\ e.state = o.state /\ e.data = o.data /\ e.fill = o.fill
      BY <3>1, WaiterAdded
    <3> QED  BY <3>2, <3>a
  <2>3. entry'[id] = e  BY <2>1, <2>a
  <2>4. \A i \in DOMAIN entry :
            /\ entry'[i].line = entry[i].line /\ entry'[i].epoch = entry[i].epoch
            /\ entry'[i].state = entry[i].state /\ entry'[i].data = entry[i].data
            /\ entry'[i].fill = entry[i].fill
    <3>1. \A i \in DOMAIN entry : i # id => entry'[i] = entry[i]  BY <2>1
    <3> QED  BY <2>2, <2>3, <3>1
  <2>5. entry'[id] \in EntryRec /\ entry'[id].waiters = Append(entry[id].waiters, r)
    BY <2>2, <2>3
  <2> QED  BY <2>1, <2>4, <2>5
<1>7. OwnerTyped' /\ FlowInv' /\ OwnerInv'
  BY <1>1, <1>2, <1>3, OwnerSideKept DEF OwnerSide
<1>8. /\ ready' \in Seq(Nat) /\ IsInjective(ready') /\ Range(ready') \subseteq Range(ready) \cup {id}
      /\ Range(ready') # Range(ready) => entry[id].state = "ready"
  <2>1. ready \in Seq(Nat) /\ IsInjective(ready)  BY <1>3 DEF RequesterTyped, QueueInv
  <2>2. CASE entry[id].data = NoData  BY <1>1, <2>1, <2>2
  <2>3. CASE entry[id].data # NoData
    <3>1. ready' = Queued(id)  BY <1>1, <2>3
    <3>2. entry[id].state = "ready"  BY <1>3, <1>5, <2>3 DEF QueueInv
    <3> QED  BY <1>5, <2>1, <3>1, <3>2, QueuedReady
  <2> QED  BY <2>2, <2>3
<1>9. RequesterTyped'
  <2>1. \A i \in DOMAIN entry' : entry'[i] \in EntryRec  BY <1>3, <1>6 DEF RequesterTyped
  <2>2. outstandingReads' \in Nat  BY <1>1, <1>3 DEF RequesterTyped
  <2> QED  BY <1>1, <1>3, <1>8, <2>1, <2>2 DEF RequesterTyped
<1>10. CacheTyped'  BY <1>1, <1>2, <1>3 DEF CacheTyped
<1>11. SentInv'
  <2>1. \A i \in DOMAIN entry' : Known(i)' /\ reqs[i].op = "read" /\ entry'[i].line = reqs[i].line
    BY <1>1, <1>3, <1>4, <1>6 DEF SentInv, Known
  <2>2. \A i \in DOMAIN entry' : i \in DOMAIN bitmap => entry'[i].state \in {"inflight", "ready"}
    BY <1>3, <1>6 DEF SentInv
  <2> QED  BY <1>1, <1>3, <1>4, <1>6, <2>1, <2>2, SentKept
<1>12. CacheInv'  BY <1>1, <1>3, <1>6, CacheKept
<1>13. QueueInv'
  <2>1. \A p \in DOMAIN batches' : \A l \in DOMAIN batches'[p] :
            batches'[p][l] \in CollectedFor(l)' /\ Page(l) = p
    BY <1>1, <1>3, <1>6, BatchesKept
  <2>2. \A i \in Range(pendingBatch') : Is(i, "pending")'  BY <1>1, <1>3, <1>6 DEF QueueInv, Is
  <2>3. \A i \in Range(ready') : Is(i, "ready")'  BY <1>3, <1>5, <1>6, <1>8 DEF QueueInv, Is
  <2>4. \A i \in DOMAIN entry' : entry'[i].state # "ready" => entry'[i].data = NoData
    BY <1>3, <1>6 DEF QueueInv
  <2> QED  BY <1>1, <1>3, <1>8, <2>1, <2>2, <2>3, <2>4 DEF QueueInv
<1>14. \A i \in DOMAIN entry : r \notin Range(entry[i].waiters)
  BY <1>3 DEF TableInv, Known
<1>15. /\ IsInjective(entry'[id].waiters)
       /\ Range(entry'[id].waiters) = Range(entry[id].waiters) \cup {r}
  <2>1. entry[id].waiters \in Seq(Nat) /\ IsInjective(entry[id].waiters)
    BY <1>3, <1>5 DEF TableInv, EntryRec
  <2> QED  BY <1>4, <1>5, <1>6, <1>14, <2>1, AppendRange, InjectiveAppend
<1>16. TableInv'
  <2>1. \A k \in DOMAIN lines' : lines'[k] \in DOMAIN entry' /\ Key(entry'[lines'[k]]) = k
    BY <1>1, <1>3, <1>6 DEF TableInv, Key
  <2>2. \A i \in DOMAIN entry' : IsInjective(entry'[i].waiters)
    BY <1>3, <1>6, <1>15 DEF TableInv
  <2>3. ASSUME NEW i \in DOMAIN entry', NEW x \in Range(entry'[i].waiters)
        PROVE  Known(x)' /\ \A j \in DOMAIN entry' : x \in Range(entry'[j].waiters) => i = j
    <3>1. CASE x = r
      <4>1. i = id  BY <1>6, <1>14, <3>1
      <4>2. Known(x)'  BY <1>1, <1>4, <3>1 DEF Known
      <4> QED  BY <1>6, <1>14, <3>1, <4>1, <4>2
    <3>2. CASE x # r
      <4>1. i \in DOMAIN entry /\ x \in Range(entry[i].waiters)  BY <1>6, <1>15, <3>2
      <4>2. Known(x) /\ \A j \in DOMAIN entry : x \in Range(entry[j].waiters) => i = j
        BY <1>3, <4>1 DEF TableInv
      <4>3. Known(x)'  BY <1>1, <1>4, <4>2 DEF Known
      <4> QED  BY <1>6, <1>15, <3>2, <4>2, <4>3
    <3> QED  BY <3>1, <3>2
  <2>4. outstandingReads' = Cardinality(WaitingReads')
    <3>1. /\ IsFiniteSet(WaitingReads)
          /\ \A x : x \in WaitingReads <=> \E i \in DOMAIN entry : x \in Range(entry[i].waiters)
      BY <1>3, WaitersFinite
    <3>2. r \notin WaitingReads  BY <1>14, <3>1
    <3>3. \A x : x \in WaitingReads' <=> \E i \in DOMAIN entry' : x \in Range(entry'[i].waiters)
      BY DEF WaitingReads
    <3>4. WaitingReads' = WaitingReads \cup {r}
      <4>1. ASSUME NEW x \in WaitingReads' PROVE x \in WaitingReads \cup {r}
        BY <1>6, <1>15, <3>1, <3>3
      <4>2. ASSUME NEW x \in WaitingReads PROVE x \in WaitingReads'
        <5>1. PICK i \in DOMAIN entry : x \in Range(entry[i].waiters)  BY <3>1
        <5>2. x \in Range(entry'[i].waiters)  BY <1>6, <1>15, <5>1
        <5> QED  BY <1>6, <3>3, <5>2
      <4>3. r \in WaitingReads'  BY <1>5, <1>6, <1>15, <3>3
      <4> QED  BY <4>1, <4>2, <4>3
    <3>5. outstandingReads = Cardinality(WaitingReads)  BY <1>3 DEF TableInv
    <3> QED  BY <1>1, <3>1, <3>2, <3>4, <3>5, FS_AddElement
  <2> QED  BY <2>1, <2>2, <2>3, <2>4 DEF TableInv
<1>17. WaitersInTable'
  <2>1. \A i \in DOMAIN entry : Key(entry'[i]) = Key(entry[i])  BY <1>6 DEF Key
  <2>2. InTable(id)
    <3>1. Key(entry[id]) = key  BY <1>1, <1>3 DEF TableInv
    <3> QED  BY <1>1, <3>1 DEF InTable
  <2>3. ASSUME NEW i \in DOMAIN entry, InTable(i) PROVE InTable(i)'
    BY <1>1, <2>1, <2>3 DEF InTable
  <2>4. ASSUME Exact, NEW i \in DOMAIN entry', entry'[i].waiters # <<>> PROVE InTable(i)'
    <3>1. InTable(i)  BY <1>3, <1>6, <2>2, <2>4 DEF WaitersInTable
    <3> QED  BY <1>6, <2>3, <3>1
  <2> QED  BY <2>4 DEF WaitersInTable, Exact
<1> QED  BY <1>2, <1>7, <1>9, <1>10, <1>11, <1>12, <1>13, <1>16, <1>17 DEF IInv, Typed

LEMMA IntervalSize ==
    ASSUME NEW a \in Int, NEW b \in Int, a <= b + 1
    PROVE  IsFiniteSet(a .. b) /\ Cardinality(a .. b) = b - a + 1
<1>1. IsFiniteSet(a .. b) /\ Cardinality(a .. b) = IF a > b THEN 0 ELSE b - a + 1
  BY FS_Interval
<1> QED  BY <1>1

\* Without deduplication, a free epoch exists: there are less lines than epochs to choose from.
LEMMA EpochIsFree ==
    ASSUME IInv, FullRead
    PROVE  /\ FreeEpoch \in Nat /\ HeadLine \in Line
           /\ ~ Dedup => <<HeadLine, FreeEpoch>> \notin DOMAIN lines
<1> PICK l : l = HeadLine  OBVIOUS
<1> PICK n0 : n0 = epochs[l]  OBVIOUS
<1>1. RequestsTyped /\ RequesterTyped /\ SentInv /\ TableInv  BY Parts
<1>2. toL1 \in DOMAIN reqs /\ DOMAIN reqs = 1 .. Len(reqs) /\ Len(reqs) \in Nat
      /\ DOMAIN entry \subseteq DOMAIN reqs
  BY <1>1, NumbersOfReads DEF FullRead
<1>3. l \in Line
  <2>1. reqs[toL1] \in [op : Op, line : Line, want : Int]
    <3>1. reqs \in Seq([op : Op, line : Line, want : Int])  BY <1>1 DEF RequestsTyped
    <3>2. \A i \in 1 .. Len(reqs) : reqs[i] \in [op : Op, line : Line, want : Int]
      BY <3>1, SeqType
    <3> QED  BY <1>2, <3>2
  <2> QED  BY <2>1 DEF HeadLine
<1>4. n0 \in Nat /\ MaxReq \in Nat /\ Len(reqs) <= MaxReq
  BY <1>1, <1>3, RequesterAssumption DEF RequesterTyped, RequestsTyped
<1>5. CASE Dedup  BY <1>3, <1>4, <1>5 DEF FreeEpoch
<1>6. CASE ~ Dedup
  <2> DEFINE D == n0 .. n0 + MaxReq
             Free == {n \in D : <<l, n>> \notin DOMAIN lines}
  <2>1. Free # {}
    <3>1. SUFFICES ASSUME \A n \in D : <<l, n>> \in DOMAIN lines PROVE FALSE  OBVIOUS
    <3> DEFINE f == [n \in D |-> lines[<<l, n>>]]
    <3>2. \A n \in D : f[n] \in DOMAIN reqs /\ Key(entry[f[n]]) = <<l, n>>
      BY <1>1, <1>2, <3>1 DEF TableInv
    <3>3. \A n, k \in D : f[n] = f[k] => n = k
      <4>1. SUFFICES ASSUME NEW n \in D, NEW k \in D, f[n] = f[k] PROVE n = k  OBVIOUS
      <4>2. <<l, n>> = <<l, k>>  BY <3>2, <4>1
      <4> QED  BY <4>2
    <3>4. f \in Injection(D, DOMAIN reqs)
      <4>1. f \in [D -> DOMAIN reqs]  BY <3>2
      <4>2. IsInjective(f)
        <5> HIDE DEF D
        <5> QED  BY <3>3 DEF IsInjective
      <4> QED  BY <4>1, <4>2 DEF Injection
    <3> HIDE DEF f
    <3>5. IsFiniteSet(DOMAIN reqs) /\ Cardinality(DOMAIN reqs) <= MaxReq
      <4>1. Cardinality(1 .. Len(reqs)) = Len(reqs) /\ IsFiniteSet(1 .. Len(reqs))
        <5> PICK n : n = Len(reqs)  OBVIOUS
        <5>1. n \in Nat  BY <1>2
        <5>2. 1 \in Int /\ n \in Int /\ 1 <= n + 1 /\ n - 1 + 1 = n  BY <5>1
        <5>3. IsFiniteSet(1 .. n) /\ Cardinality(1 .. n) = n - 1 + 1
          BY <5>2, IntervalSize, Zenon
        <5>4. IsFiniteSet(1 .. n) /\ Cardinality(1 .. n) = n  BY <5>2, <5>3
        <5> QED  BY <5>4
      <4> QED  BY <1>2, <1>4, <4>1
    <3>6. Cardinality(D) = MaxReq + 1
      <4> PICK n : n = n0 + MaxReq  OBVIOUS
      <4>1. n0 \in Int /\ n \in Int /\ n0 <= n + 1 /\ n - n0 + 1 = MaxReq + 1  BY <1>4
      <4>2. Cardinality(n0 .. n) = n - n0 + 1  BY <4>1, IntervalSize
      <4> QED  BY <4>1, <4>2
    <3>7. Cardinality(D) <= Cardinality(DOMAIN reqs)  BY <3>4, <3>5, FS_Injection
    <3>8. Cardinality(DOMAIN reqs) \in Nat  BY <3>5, FS_CardinalityType
    <3> HIDE DEF D
    <3> QED  BY <1>4, <3>5, <3>6, <3>7, <3>8
  <2>2. Free \in SUBSET Nat  BY <1>4
  <2>3. PICK n \in Free : \A k \in Free : n <= k
    <3> HIDE DEF Free
    <3> QED  BY <2>1, <2>2, SmallestNat
  <2>4. /\ <<l, n>> \notin DOMAIN lines
        /\ \A k \in n0 .. n - 1 : <<l, k>> \in DOMAIN lines
    <3>1. \A k \in n0 .. n - 1 : k \in D /\ ~ (n <= k)  BY <1>4, <2>3
    <3> QED  BY <2>3, <3>1
  <2>5. \E x \in n0 .. n0 + MaxReq : /\ <<l, x>> \notin DOMAIN lines
                                     /\ \A k \in n0 .. x - 1 : <<l, k>> \in DOMAIN lines
    BY <2>3, <2>4
  <2>6. FreeEpoch = CHOOSE x \in n0 .. n0 + MaxReq :
                        /\ <<l, x>> \notin DOMAIN lines
                        /\ \A k \in n0 .. x - 1 : <<l, k>> \in DOMAIN lines
    BY <1>6 DEF FreeEpoch
  <2>7. FreeEpoch \in n0 .. n0 + MaxReq /\ <<l, FreeEpoch>> \notin DOMAIN lines
    BY <2>5, <2>6
  <2> QED  BY <1>3, <1>4, <2>7
<1> QED  BY <1>5, <1>6

\* A read opens an entry.
LEMMA OpenStep ==
    ASSUME IInv, Open, UNCHANGED <<back, l2Rsp>>, UNCHANGED EngineFrame
    PROVE  IInv'
<1> PICK r : r = toL1  OBVIOUS
<1> PICK l : l = HeadLine  OBVIOUS
<1> PICK n : n = FreeEpoch  OBVIOUS
<1> PICK key : key = <<l, n>>  OBVIOUS
<1>1. /\ r # 0 /\ reqs[r].op = "read" /\ l = reqs[r].line
      /\ lines' = With(lines, key, r)
      /\ epochs' = [epochs EXCEPT ![l] = n]
      /\ outstandingReads' = outstandingReads + 1 /\ toL1' = 0
      /\ UNCHANGED <<reqs, uncacheable, batches, batchOrder, single, bitmap, fromInside, ready,
                     fills, wire, back, l2Rsp>>
      /\ ~ Dedup \/ HeadKey \notin DOMAIN lines \/ FALSE \in MayContain
  BY DEF Open, FullRead, Consume, HeadLine
<1>2. /\ RequestsTyped' /\ UNCHANGED <<ownerBatches, pendingSub, subReqs, pendingRsp, l2Queue,
                                       ownerL2Rsp, mem, replica, generation>>
  BY <1>1, EngineKept
<1>3. /\ RequestsTyped /\ OwnerTyped /\ CacheTyped /\ RequesterTyped /\ FlowInv /\ OwnerInv
      /\ SentInv /\ CacheInv /\ QueueInv /\ TableInv /\ WaitersInTable
  BY Parts
<1>4. /\ 0 \notin DOMAIN reqs /\ DOMAIN entry \subseteq DOMAIN reqs /\ DOMAIN reqs \subseteq Nat
      /\ r \notin DOMAIN entry /\ r \in DOMAIN reqs /\ r \in Nat
  BY <1>1, <1>3, NumbersOfReads
<1>5. n \in Nat /\ l \in Line /\ (~ Dedup => key \notin DOMAIN lines)
  <2>1. FullRead  BY DEF Open
  <2> QED  BY <2>1, EpochIsFree
<1>6. Exact => key \notin DOMAIN lines
  <2>1. CASE ~ Dedup  BY <1>5, <2>1
  <2>2. CASE Dedup
    <3>1. key = HeadKey  BY <2>2 DEF FreeEpoch, HeadKey
    <3>2. Exact => MayContain = {TRUE}  BY <2>2 DEF Exact, MayContain
    <3> QED  BY <1>1, <2>2, <3>1, <3>2
  <2> QED  BY <2>1, <2>2
<1>7. PICK e : /\ entry' = With(entry, r, e) /\ e \in EntryRec
               /\ e.line = l /\ e.epoch = n /\ e.waiters = <<r>> /\ e.data = NoData
               /\ \/ /\ e.state = "probing" /\ UNCHANGED pendingBatch
                     /\ top' = Append(top, [kind |-> "lookup", id |-> r, line |-> l])
                  \/ /\ e.state = "pending" /\ UNCHANGED top
                     /\ pendingBatch' = Append(pendingBatch, r)
  <2>1. /\ NoData \in Int /\ <<r>> \in Seq(Nat)  BY <1>4 DEF NoData
  <2>2. ASSUME NEW seen \in BOOLEAN
        PROVE  \E e : /\ e = NewEntry(l, n, seen) /\ e \in EntryRec /\ e.line = l
                      /\ e.epoch = n /\ e.waiters = <<r>>
                      /\ e.data = NoData /\ e.state = "probing"
    <3> PICK e : e = NewEntry(l, n, seen)  OBVIOUS
    <3>1. e = [line |-> l, epoch |-> n, state |-> "probing", waiters |-> <<r>>, data |-> NoData,
               admit |-> seen, fromRemote |-> FALSE, gen |-> 0, fill |-> "none"]
      BY DEF NewEntry
    <3>2. e \in EntryRec  BY <1>5, <2>1, <3>1 DEF EntryRec
    <3> QED  BY <3>1, <3>2
  <2>3. CASE /\ \E seen \in BOOLEAN : entry' = With(entry, r, NewEntry(l, n, seen))
             /\ top' = Append(top, [kind |-> "lookup", id |-> r, line |-> l])
             /\ UNCHANGED pendingBatch
    BY <2>2, <2>3
  <2>4. CASE /\ entry' = With(entry, r, [NewEntry(l, n, FALSE) EXCEPT !.state = "pending"])
             /\ pendingBatch' = Append(pendingBatch, r)
             /\ UNCHANGED top
    <3> PICK e0 : e0 = NewEntry(l, n, FALSE)  OBVIOUS
    <3> DEFINE e == [e0 EXCEPT !.state = "pending"]
    <3>1. /\ e0 \in EntryRec /\ e0.line = l /\ e0.epoch = n /\ e0.waiters = <<r>>
          /\ e0.data = NoData
      BY <2>2
    <3>2. e \in EntryRec /\ e.line = l /\ e.epoch = n /\ e.waiters = <<r>> /\ e.data = NoData
          /\ e.state = "pending"
      BY <3>1 DEF EntryRec
    <3> QED  BY <2>4, <3>2
  <2>5. (IF Filter # "none" THEN BOOLEAN ELSE {FALSE}) \subseteq BOOLEAN  OBVIOUS
  <2> QED  BY <2>3, <2>4, <2>5 DEF Open
<1>8. /\ DOMAIN entry' = DOMAIN entry \cup {r} /\ entry'[r] = e
      /\ \A i \in DOMAIN entry : entry'[i] = entry[i]
  BY <1>4, <1>7 DEF With
<1>9. OwnerTyped' /\ FlowInv' /\ OwnerInv'
  BY <1>1, <1>2, <1>3, OwnerSideKept DEF OwnerSide
<1>10. /\ DOMAIN lines' = DOMAIN lines \cup {key} /\ lines'[key] = r
       /\ \A k \in DOMAIN lines : k # key => lines'[k] = lines[k]
  BY <1>1 DEF With
<1>11. /\ pendingBatch' \in Seq(Nat) /\ IsInjective(pendingBatch')
       /\ \A i \in Range(pendingBatch') : Is(i, "pending")'
  <2>1. /\ pendingBatch \in Seq(Nat) /\ IsInjective(pendingBatch)
        /\ \A i \in Range(pendingBatch) : i \in DOMAIN entry /\ entry[i].state = "pending"
    BY <1>3 DEF RequesterTyped, QueueInv, Is
  <2>2. CASE UNCHANGED pendingBatch  BY <1>8, <2>1, <2>2 DEF Is
  <2>3. CASE e.state = "pending" /\ pendingBatch' = Append(pendingBatch, r)
    <3>1. r \notin Range(pendingBatch)  BY <1>4, <2>1
    <3>2. /\ pendingBatch' \in Seq(Nat) /\ IsInjective(pendingBatch')
          /\ Range(pendingBatch') = Range(pendingBatch) \cup {r}
      BY <1>4, <2>1, <2>3, <3>1, AppendElements, AppendRange, InjectiveAppend
    <3> QED  BY <1>8, <2>1, <2>3, <3>2 DEF Is
  <2> QED  BY <1>7, <2>2, <2>3
<1>12. RequesterTyped'
  <2>1. \A i \in DOMAIN entry' : entry'[i] \in EntryRec
    BY <1>3, <1>7, <1>8 DEF RequesterTyped
  <2>2. DOMAIN lines' \subseteq Line \X Nat  BY <1>3, <1>5, <1>10 DEF RequesterTyped
  <2>3. epochs' \in [Line -> Nat]  BY <1>1, <1>3, <1>5 DEF RequesterTyped
  <2>4. outstandingReads' \in Nat  BY <1>1, <1>3 DEF RequesterTyped
  <2> QED  BY <1>1, <1>3, <1>11, <2>1, <2>2, <2>3, <2>4 DEF RequesterTyped
<1>13. SentInv'
  <2>1. \A i \in DOMAIN entry' : Known(i)' /\ reqs[i].op = "read" /\ entry'[i].line = reqs[i].line
    <3>1. \A i \in DOMAIN entry : Known(i)' /\ reqs[i].op = "read" /\ entry'[i].line = reqs[i].line
      BY <1>1, <1>3, <1>4, <1>8 DEF SentInv, Known
    <3>2. Known(r)' /\ reqs[r].op = "read" /\ entry'[r].line = reqs[r].line
      BY <1>1, <1>4, <1>7, <1>8 DEF Known
    <3> QED  BY <1>8, <3>1, <3>2
  <2>2. \A i \in DOMAIN entry' : i \in DOMAIN bitmap => entry'[i].state \in {"inflight", "ready"}
    BY <1>3, <1>8 DEF SentInv, Known
  <2> QED  BY <1>1, <1>3, <1>4, <1>8, <2>1, <2>2, SentKept
<1>14. CacheTyped' /\ CacheInv'
  <2>1. CASE UNCHANGED top
    <3>1. CacheInv'  BY <1>1, <1>3, <1>8, <2>1, CacheKept
    <3>2. CacheTyped'  BY <1>1, <1>2, <1>3, <2>1 DEF CacheTyped
    <3> QED  BY <3>1, <3>2
  <2>2. CASE e.state = "probing" /\ top' = Append(top, [kind |-> "lookup", id |-> r, line |-> l])
    <3> PICK m : m = [kind |-> "lookup", id |-> r, line |-> l]  OBVIOUS
    <3>1. m \in TopMsg /\ CacheTokens[m] = {<<"lookup", r>>}
      BY <1>4, <1>5 DEF TopMsg, CacheTokens
    <3>2. <<"lookup", r>> \notin Carried(CacheTokens, top) \cup Carried(CacheTokens, l2Rsp)
      BY <1>3, <1>4 DEF CacheInv, Is
    <3>3. /\ top' \in Seq(TopMsg)
          /\ Carried(CacheTokens, top') = Carried(CacheTokens, top) \cup {<<"lookup", r>>}
          /\ Apart(CacheTokens, top')
      <4>1. /\ top \in Seq(TopMsg) /\ Apart(CacheTokens, top) /\ top' = Append(top, m)
            /\ CacheTokens[m] \cap Carried(CacheTokens, top) = {}
        BY <1>3, <2>2, <3>1, <3>2 DEF CacheTyped, CacheInv
      <4> QED  BY <3>1, <4>1, TopGrows
    <3>4. \A t \in Carried(CacheTokens, top') \cup Carried(CacheTokens, l2Rsp') :
              IF t[1] = "lookup" THEN Is(t[2], "probing")'
                                 ELSE Is(t[2], "ready")' /\ entry'[t[2]].fill = "inflight"
      <4>1. SUFFICES ASSUME NEW t \in Carried(CacheTokens, top) \cup Carried(CacheTokens, l2Rsp)
                                          \cup {<<"lookup", r>>}
                     PROVE  IF t[1] = "lookup" THEN Is(t[2], "probing")'
                                 ELSE Is(t[2], "ready")' /\ entry'[t[2]].fill = "inflight"
        BY <1>1, <3>3
      <4>2. CASE t = <<"lookup", r>>  BY <1>8, <2>2, <4>2 DEF Is
      <4>3. CASE t \in Carried(CacheTokens, top) \cup Carried(CacheTokens, l2Rsp)
        BY <1>3, <1>8, <4>3 DEF CacheInv, Is
      <4> QED  BY <4>1, <4>2, <4>3
    <3>5. CacheInv'  BY <1>1, <1>3, <3>2, <3>3, <3>4 DEF CacheInv
    <3>6. CacheTyped'  BY <1>1, <1>2, <1>3, <3>3 DEF CacheTyped
    <3> QED  BY <3>5, <3>6
  <2> QED  BY <1>7, <2>1, <2>2
<1>15. QueueInv'
  <2>1. \A p \in DOMAIN batches' : \A x \in DOMAIN batches'[p] :
            batches'[p][x] \in CollectedFor(x)' /\ Page(x) = p
    BY <1>1, <1>3, <1>8, BatchesKept
  <2>2. \A i \in Range(ready') : Is(i, "ready")'  BY <1>1, <1>3, <1>8 DEF QueueInv, Is
  <2>3. \A i \in DOMAIN entry' : entry'[i].state # "ready" => entry'[i].data = NoData
    BY <1>3, <1>7, <1>8 DEF QueueInv
  <2> QED  BY <1>1, <1>3, <1>11, <2>1, <2>2, <2>3 DEF QueueInv
<1>16. \A i \in DOMAIN entry : r \notin Range(entry[i].waiters)
  BY <1>3 DEF TableInv, Known
<1>17. IsInjective(e.waiters) /\ Range(e.waiters) = {r}
  BY <1>7 DEF IsInjective, Range
<1>18. TableInv'
  <2>1. \A k \in DOMAIN lines' : lines'[k] \in DOMAIN entry' /\ Key(entry'[lines'[k]]) = k
    <3>1. \A k \in DOMAIN lines : k # key => lines'[k] \in DOMAIN entry' /\ Key(entry'[lines'[k]]) = k
      BY <1>3, <1>8, <1>10 DEF TableInv
    <3>2. lines'[key] \in DOMAIN entry' /\ Key(entry'[lines'[key]]) = key
      BY <1>7, <1>8, <1>10 DEF Key
    <3> QED  BY <1>10, <3>1, <3>2
  <2>2. \A i \in DOMAIN entry' : IsInjective(entry'[i].waiters)
    BY <1>3, <1>8, <1>17 DEF TableInv
  <2>3. ASSUME NEW i \in DOMAIN entry', NEW x \in Range(entry'[i].waiters)
        PROVE  Known(x)' /\ \A j \in DOMAIN entry' : x \in Range(entry'[j].waiters) => i = j
    <3>1. CASE x = r
      <4>1. i = r  BY <1>8, <1>16, <3>1
      <4>2. Known(x)'  BY <1>1, <1>4, <3>1 DEF Known
      <4> QED  BY <1>8, <1>16, <3>1, <4>1, <4>2
    <3>2. CASE x # r
      <4>1. i \in DOMAIN entry /\ x \in Range(entry[i].waiters)  BY <1>8, <1>17, <3>2
      <4>2. Known(x) /\ \A j \in DOMAIN entry : x \in Range(entry[j].waiters) => i = j
        BY <1>3, <4>1 DEF TableInv
      <4>3. Known(x)'  BY <1>1, <1>4, <4>2 DEF Known
      <4> QED  BY <1>8, <1>17, <3>2, <4>2, <4>3
    <3> QED  BY <3>1, <3>2
  <2>4. outstandingReads' = Cardinality(WaitingReads')
    <3>1. /\ IsFiniteSet(WaitingReads)
          /\ \A x : x \in WaitingReads <=> \E i \in DOMAIN entry : x \in Range(entry[i].waiters)
      BY <1>3, WaitersFinite
    <3>2. r \notin WaitingReads  BY <1>16, <3>1
    <3>3. \A x : x \in WaitingReads' <=> \E i \in DOMAIN entry' : x \in Range(entry'[i].waiters)
      BY DEF WaitingReads
    <3>4. WaitingReads' = WaitingReads \cup {r}  BY <1>8, <1>17, <3>1, <3>3
    <3>5. outstandingReads = Cardinality(WaitingReads)  BY <1>3 DEF TableInv
    <3> QED  BY <1>1, <3>1, <3>2, <3>4, <3>5, FS_AddElement
  <2> QED  BY <2>1, <2>2, <2>3, <2>4 DEF TableInv
<1>19. WaitersInTable'
  <2>1. SUFFICES ASSUME Exact, NEW i \in DOMAIN entry', entry'[i].waiters # <<>>
                 PROVE  InTable(i)'
    BY DEF WaitersInTable, Exact
  <2>2. CASE i = r
    BY <1>7, <1>8, <1>10, <2>2 DEF InTable, Key
  <2>3. CASE i # r
    <3>1. i \in DOMAIN entry /\ entry'[i] = entry[i]  BY <1>8, <2>3
    <3>2. InTable(i)  BY <1>3, <2>1, <3>1 DEF WaitersInTable
    <3>3. Key(entry[i]) # key  BY <1>6, <2>1, <3>2 DEF InTable
    <3> QED  BY <1>10, <3>1, <3>2, <3>3 DEF InTable
  <2> QED  BY <2>2, <2>3
<1> QED  BY <1>2, <1>9, <1>12, <1>13, <1>14, <1>15, <1>18, <1>19 DEF IInv, Typed

\* A request is sent.
LEMMA SendFlow ==
    ASSUME OwnerTyped, FlowInv, NEW m \in ReqMsg, wire' = Append(wire, m),
           UNCHANGED <<back, ownerBatches, pendingSub, l2Queue, ownerL2Rsp>>,
           \A t \in ReqTokens[m] : ~ Asked(t) /\ Asked(t)',
           \A t : Asked(t) => Asked(t)'
    PROVE  FlowInv' /\ wire' \in Seq(ReqMsg) /\ Range(wire') = Range(wire) \cup {m}
<1>1. \A p \in Place : \A t \in Flow[p] : Asked(t)  BY DEF FlowInv
<1>2. \A p \in Place : ReqTokens[m] \cap Flow[p] = {}  BY <1>1
<1>3. /\ wire' \in Seq(ReqMsg) /\ Range(wire') = Range(wire) \cup {m}
      /\ Carried(ReqTokens, wire') = Carried(ReqTokens, wire) \cup ReqTokens[m]
      /\ Apart(ReqTokens, wire')
  <2>1. ReqTokens[m] \cap Carried(ReqTokens, wire) = {}  BY <1>2, FlowPlaces, Places
  <2>2. wire \in Seq(ReqMsg) /\ Apart(ReqTokens, wire)  BY DEF OwnerTyped, FlowInv
  <2> QED  BY <2>1, <2>2, WireGrows
<1>4. DataTokens' = DataTokens  BY DEF DataTokens
<1>5. /\ Flow'["wire"] = Flow["wire"] \cup ReqTokens[m]
      /\ \A p \in Place : p # "wire" => Flow'[p] = Flow[p]
  BY <1>3, <1>4, FlowPlaces, FlowPlacesNext, Places
<1>6. Disjoint(Flow')
  <2>1. ASSUME NEW p \in Place, NEW q \in Place, p # q PROVE Flow'[p] \cap Flow'[q] = {}
    <3>1. Flow[p] \cap Flow[q] = {}  BY <2>1 DEF FlowInv, Disjoint
    <3>2. CASE p # "wire" /\ q # "wire"  BY <1>5, <3>1, <3>2
    <3>3. CASE p = "wire"  BY <1>2, <1>5, <2>1, <3>1, <3>3
    <3>4. CASE q = "wire"  BY <1>2, <1>5, <2>1, <3>1, <3>4
    <3> QED  BY <3>2, <3>3, <3>4
  <2> QED  BY <2>1 DEF Disjoint
<1>7. \A p \in Place : \A t \in Flow'[p] : Asked(t)'
  <2>1. SUFFICES ASSUME NEW p \in Place, NEW t \in Flow'[p] PROVE Asked(t)'  OBVIOUS
  <2>2. t \in Flow[p] \/ t \in ReqTokens[m]  BY <1>5
  <2> QED  BY <1>1, <2>2
<1>8. FlowInv'  BY <1>3, <1>6, <1>7 DEF FlowInv
<1> QED  BY <1>3, <1>8

\* A response is taken.
LEMMA ReceiveFlow ==
    ASSUME OwnerTyped, FlowInv, back # <<>>, back' = Tail(back),
           UNCHANGED <<wire, ownerBatches, pendingSub, l2Queue, ownerL2Rsp>>,
           \A p \in Place : \A t \in Flow[p] :
               Asked(t) /\ t \notin RspTokens[Head(back)] => Asked(t)'
    PROVE  /\ FlowInv' /\ back' \in Seq(RspMsg) /\ Range(back') \subseteq Range(back)
           /\ Head(back) \in RspMsg
           /\ \A t \in RspTokens[Head(back)] : Asked(t) /\ t \in Flow["back"]
<1> PICK m : m = Head(back)  OBVIOUS
<1>1. /\ back \in Seq(RspMsg) /\ Apart(RspTokens, back)  BY DEF OwnerTyped, FlowInv
<1>2. /\ Carried(RspTokens, back) = RspTokens[m] \cup Carried(RspTokens, back')
      /\ Apart(RspTokens, back') /\ RspTokens[m] \cap Carried(RspTokens, back') = {}
  BY <1>1, TailCarried
<1>3. /\ m \in RspMsg /\ back' \in Seq(RspMsg) /\ Range(back') \subseteq Range(back)
  BY <1>1, TailElements, TailRange
<1>4. DataTokens' = DataTokens  BY DEF DataTokens
<1>5. /\ Flow["back"] = Flow'["back"] \cup RspTokens[m] /\ Flow'["back"] \cap RspTokens[m] = {}
      /\ \A p \in Place : p # "back" => Flow'[p] = Flow[p]
  BY <1>2, <1>4, FlowPlaces, FlowPlacesNext, Places
<1>6. Disjoint(Flow')
  <2>1. \A p \in Place : Flow'[p] \subseteq Flow[p]  BY <1>5
  <2> QED  BY <2>1 DEF FlowInv, Disjoint
<1>7. \A p \in Place : \A t \in Flow'[p] : Asked(t)'
  <2>1. SUFFICES ASSUME NEW p \in Place, NEW t \in Flow'[p] PROVE Asked(t)'  OBVIOUS
  <2>2. t \in Flow[p] /\ Asked(t)  BY <1>5 DEF FlowInv
  <2>3. t \notin RspTokens[m]
    <3>1. CASE p = "back"  BY <1>5, <3>1
    <3>2. CASE p # "back"
      <4>1. Flow[p] \cap Flow["back"] = {}  BY <3>2, Places DEF FlowInv, Disjoint
      <4> QED  BY <1>5, <2>2, <4>1
    <3> QED  BY <3>1, <3>2
  <2> QED  BY <2>2, <2>3
<1>8. FlowInv'  BY <1>2, <1>6, <1>7 DEF FlowInv
<1>9. \A t \in RspTokens[m] : Asked(t) /\ t \in Flow["back"]
  BY <1>5, Places DEF FlowInv
<1> QED  BY <1>3, <1>8, <1>9

\* What the owner has written down agrees with what it has, whatever the wire carries.
LEMMA BooksKept ==
    ASSUME OwnerInv, UNCHANGED <<ownerBatches, pendingSub, subReqs, pendingRsp, l2Queue, ownerL2Rsp>>,
           \A m \in Range(wire') : m.kind = "bitmap" =>
               m.id \in DOMAIN bitmap' /\ m.lines = DOMAIN bitmap'[m.id].ents /\ m.lines # {},
           Range(back') \subseteq Range(back)
    PROVE  OwnerInv'
<1>1. \A i : SubsOf(i)' = SubsOf(i)  BY DEF SubsOf
<1>2. {<<"bitmap", s[1], s[2]>> : s \in subReqs'}
           = {t \in Flow'["sub"] \cup Flow'["l2"] \cup Flow'["rsp"] : t[1] = "bitmap"}
  BY FlowPlaces, FlowPlacesNext DEF OwnerInv
<1> QED  BY <1>1, <1>2 DEF OwnerInv

\* A write, or a read of a part of a line, is sent.
LEMMA ForwardStep ==
    ASSUME IInv, Forward, UNCHANGED <<back, l2Rsp>>, UNCHANGED EngineFrame
    PROVE  IInv'
<1> PICK r : r = toL1  OBVIOUS
<1> PICK l : l = HeadLine  OBVIOUS
<1> PICK m : m = [kind |-> reqs[r].op, id |-> r, line |-> l]  OBVIOUS
<1>1. /\ r # 0 /\ reqs[r].op # "read" /\ l = reqs[r].line
      /\ wire' = Append(wire, m) /\ fromInside' = fromInside \cup {r} /\ toL1' = 0
      /\ epochs' = IF reqs[r].op = "write" THEN NextEpoch(l) ELSE epochs
      /\ uncacheable' = [uncacheable EXCEPT ![l] = @ \/ reqs[r].op = "write"]
      /\ UNCHANGED <<reqs, entry, lines, pending, pendingBatch, batches, batchOrder, probes, single,
                     bitmap, ready, fills, outstandingReads, top, back, l2Rsp>>
  BY DEF Forward, OtherReq, HeadLine, RequesterSends, batchVars
<1>2. /\ RequestsTyped' /\ UNCHANGED <<ownerBatches, pendingSub, subReqs, pendingRsp, l2Queue,
                                       ownerL2Rsp, mem, replica, generation>>
  BY <1>1, EngineKept
<1>3. /\ RequestsTyped /\ OwnerTyped /\ CacheTyped /\ RequesterTyped /\ FlowInv /\ OwnerInv
      /\ SentInv /\ CacheInv /\ QueueInv /\ TableInv /\ WaitersInTable
  BY Parts
<1>4. /\ 0 \notin DOMAIN reqs /\ DOMAIN entry \subseteq DOMAIN reqs /\ DOMAIN reqs \subseteq Nat
      /\ r \notin DOMAIN entry /\ r \in DOMAIN reqs /\ r \in Nat /\ DOMAIN reqs = 1 .. Len(reqs)
  BY <1>1, <1>3, NumbersOfReads
<1>5. reqs[r].op \in {"write", "partial"} /\ l \in Line
  <2>1. reqs \in Seq([op : Op, line : Line, want : Int])  BY <1>3 DEF RequestsTyped
  <2>2. \A i \in 1 .. Len(reqs) : reqs[i] \in [op : Op, line : Line, want : Int]
    BY <2>1, SeqType
  <2>3. reqs[r] \in [op : Op, line : Line, want : Int]  BY <1>4, <2>2
  <2> QED  BY <1>1, <2>3, RequesterAssumption
<1>6. m \in ReqMsg /\ m.kind # "bitmap" /\ ReqTokens[m] = {<<"legacy", r, l>>}
  <2>1. m \in ReqMsg /\ m.kind = reqs[r].op /\ m.kind # "bitmap" /\ m.id = r /\ m.line = l
    BY <1>4, <1>5 DEF ReqMsg, Simple
  <2>2. Class(m.kind) = "legacy"  BY <1>5, <2>1, Classes
  <2> QED  BY <2>1, <2>2, Requests
<1>7. OwnerTyped' /\ FlowInv' /\ OwnerInv'
  <2>1. r \notin fromInside  BY <1>3 DEF SentInv, Known
  <2>2. \A t : Asked(t) => Asked(t)'  BY <1>1 DEF Asked
  <2>3. ~ Asked(<<"legacy", r, l>>) /\ Asked(<<"legacy", r, l>>)'
    <3>1. ~ Asked(<<"legacy", r, l>>)  BY <2>1 DEF Asked
    <3>2. <<"legacy", r, l>>[1] = "legacy" /\ <<"legacy", r, l>>[2] = r /\ <<"legacy", r, l>>[3] = l
      OBVIOUS
    <3>3. r \in fromInside' /\ l = reqs'[r].line  BY <1>1
    <3> QED  BY <3>1, <3>2, <3>3 DEF Asked
  <2>4. FlowInv' /\ wire' \in Seq(ReqMsg) /\ Range(wire') = Range(wire) \cup {m}
    <3>1. \A t \in ReqTokens[m] : ~ Asked(t) /\ Asked(t)'  BY <1>6, <2>3
    <3> QED  BY <1>1, <1>2, <1>3, <1>6, <2>2, <3>1, SendFlow
  <2>5. OwnerTyped'  BY <1>1, <1>2, <1>3, <2>4 DEF OwnerTyped
  <2>6. OwnerInv'
    <3>1. \A x \in Range(wire') : x.kind = "bitmap" =>
              x.id \in DOMAIN bitmap' /\ x.lines = DOMAIN bitmap'[x.id].ents /\ x.lines # {}
      BY <1>1, <1>3, <1>6, <2>4 DEF OwnerInv
    <3> QED  BY <1>1, <1>2, <1>3, <3>1, BooksKept
  <2> QED  BY <2>4, <2>5, <2>6
<1>8. RequesterTyped'
  <2>1. epochs' \in [Line -> Nat]  BY <1>1, <1>3, <1>5 DEF RequesterTyped, NextEpoch
  <2>2. uncacheable' \in [Line -> BOOLEAN]
    <3>1. uncacheable \in [Line -> BOOLEAN]  BY <1>3 DEF RequesterTyped
    <3>2. (uncacheable[l] \/ reqs[r].op = "write") \in BOOLEAN  OBVIOUS
    <3> QED  BY <1>1, <3>1, <3>2
  <2> QED  BY <1>1, <1>3, <2>1, <2>2 DEF RequesterTyped
<1>9. CacheTyped'  BY <1>1, <1>2, <1>3 DEF CacheTyped
<1>10. \A i : Known(i) => Known(i)'  BY <1>1, <1>4 DEF Known
<1>11. SentInv'
  <2>1. \A i \in fromInside' : Known(i)' /\ reqs'[i].op # "read"
    BY <1>1, <1>3, <1>4, <1>10 DEF SentInv, Known
  <2>2. \A i \in single' : Is(i, "inflight")'  BY <1>1, <1>3 DEF SentInv, Is
  <2>3. \A x : FlyingFor(x)' = FlyingFor(x)  BY <1>1 DEF FlyingFor
  <2>4. \A i, x : Unfinished(i, x)' <=> Unfinished(i, x)  BY <1>1 DEF Unfinished
  <2> QED  BY <1>1, <1>3, <1>10, <2>1, <2>2, <2>3, <2>4 DEF SentInv
<1>12. CacheInv'  BY <1>1, <1>3, CacheKept
<1>13. QueueInv'
  <2>1. \A x : CollectedFor(x)' = CollectedFor(x)  BY <1>1 DEF CollectedFor
  <2>2. \A i, s : Is(i, s)' <=> Is(i, s)  BY <1>1 DEF Is
  <2> QED  BY <1>1, <1>3, <2>1, <2>2 DEF QueueInv
<1>14. TableInv' /\ WaitersInTable'  BY <1>1, <1>3, <1>4, TableKept
<1> QED  BY <1>2, <1>7, <1>8, <1>9, <1>11, <1>12, <1>13, <1>14 DEF IInv, Typed

\* The token of a message to or from the requester's L2.
LEMMA CacheMessages ==
    \A m \in TopMsg \cup CacheRsp :
        CacheTokens[m] = {<<m.kind, m.id>>} /\ m.id \in Nat /\ m.kind \in {"lookup", "fill"}
<1>1. \A m \in TopMsg \cup CacheRsp : m.id \in Nat /\ m.kind \in {"lookup", "fill"}
  BY DEF TopMsg, CacheRsp
<1> QED  BY <1>1 DEF CacheTokens

LEMMA CachePairs ==
    ASSUME CacheTyped
    PROVE  \A t \in Carried(CacheTokens, top) \cup Carried(CacheTokens, l2Rsp) :
               t = <<t[1], t[2]>> /\ t[1] \in {"lookup", "fill"} /\ t[2] \in Nat
<1>1. \A i \in DOMAIN top : top[i] \in TopMsg  BY SeqType DEF CacheTyped
<1>2. \A i \in DOMAIN l2Rsp : l2Rsp[i] \in CacheRsp  BY SeqType DEF CacheTyped
<1>3. SUFFICES ASSUME NEW t \in Carried(CacheTokens, top) \cup Carried(CacheTokens, l2Rsp)
               PROVE  t = <<t[1], t[2]>> /\ t[1] \in {"lookup", "fill"} /\ t[2] \in Nat
  OBVIOUS
<1>4. PICK m \in TopMsg \cup CacheRsp : t \in CacheTokens[m]  BY <1>1, <1>2, InCarried
<1>5. t = <<m.kind, m.id>>  BY <1>4, CacheMessages
<1> QED  BY <1>5, CacheMessages

\* A response of the requester's L2 is taken.
LEMMA CacheTaken ==
    ASSUME CacheTyped, CacheInv, l2Rsp # <<>>, l2Rsp' = Tail(l2Rsp),
           UNCHANGED <<top, replica, generation>>
    PROVE  \E m \in CacheRsp :
               /\ m = Head(l2Rsp) /\ m \in Range(l2Rsp) /\ m.id \in Nat /\ m.kind \in {"lookup", "fill"}
               /\ CacheTyped' /\ Apart(CacheTokens, top') /\ Apart(CacheTokens, l2Rsp')
               /\ Carried(CacheTokens, top') \cap Carried(CacheTokens, l2Rsp') = {}
               /\ \A t \in Carried(CacheTokens, top') \cup Carried(CacheTokens, l2Rsp') :
                      /\ t \in Carried(CacheTokens, top) \cup Carried(CacheTokens, l2Rsp)
                      /\ t[1] = m.kind => t[2] # m.id
               /\ Range(l2Rsp') \subseteq Range(l2Rsp)
               /\ IF m.kind = "lookup" THEN Is(m.id, "probing")
                                       ELSE Is(m.id, "ready") /\ entry[m.id].fill = "inflight"
<1> PICK m : m = Head(l2Rsp)  OBVIOUS
<1>1. /\ l2Rsp \in Seq(CacheRsp) /\ Apart(CacheTokens, l2Rsp)  BY DEF CacheTyped, CacheInv
<1>2. /\ Carried(CacheTokens, l2Rsp) = CacheTokens[m] \cup Carried(CacheTokens, l2Rsp')
      /\ Apart(CacheTokens, l2Rsp') /\ CacheTokens[m] \cap Carried(CacheTokens, l2Rsp') = {}
  BY <1>1, TailCarried
<1>3. /\ m \in CacheRsp /\ m \in Range(l2Rsp) /\ l2Rsp' \in Seq(CacheRsp)
      /\ Range(l2Rsp') \subseteq Range(l2Rsp)
  BY <1>1, TailElements, TailRange
<1>4. CacheTokens[m] = {<<m.kind, m.id>>} /\ m.id \in Nat /\ m.kind \in {"lookup", "fill"}
  BY <1>3, CacheMessages
<1>5. /\ Carried(CacheTokens, top') = Carried(CacheTokens, top)
      /\ Carried(CacheTokens, top) \cap Carried(CacheTokens, l2Rsp) = {}
      /\ Apart(CacheTokens, top')
  BY DEF CacheInv
<1>6. ASSUME NEW t \in Carried(CacheTokens, top') \cup Carried(CacheTokens, l2Rsp')
      PROVE  /\ t \in Carried(CacheTokens, top) \cup Carried(CacheTokens, l2Rsp)
             /\ t[1] = m.kind => t[2] # m.id
  <2>1. t \in Carried(CacheTokens, top) \cup Carried(CacheTokens, l2Rsp)  BY <1>2, <1>5
  <2>2. t # <<m.kind, m.id>>  BY <1>2, <1>4, <1>5
  <2>3. t = <<t[1], t[2]>>  BY <2>1, CachePairs
  <2> QED  BY <2>1, <2>2, <2>3
<1>7. CacheTyped'  BY <1>3 DEF CacheTyped
<1>8. IF m.kind = "lookup" THEN Is(m.id, "probing")
                           ELSE Is(m.id, "ready") /\ entry[m.id].fill = "inflight"
  <2>1. <<m.kind, m.id>> \in Carried(CacheTokens, l2Rsp)  BY <1>2, <1>4
  <2> QED  BY <2>1 DEF CacheInv
<1> QED  BY <1>2, <1>3, <1>4, <1>5, <1>6, <1>7, <1>8

\* A lookup is answered.
LEMMA TakeLookupStep ==
    ASSUME IInv, TakeLookup, UNCHANGED top, UNCHANGED EngineFrame
    PROVE  IInv'
<1>1. /\ RequestsTyped /\ OwnerTyped /\ CacheTyped /\ RequesterTyped /\ FlowInv /\ OwnerInv
      /\ SentInv /\ CacheInv /\ QueueInv /\ TableInv /\ WaitersInTable
  BY Parts
<1>2. /\ l2Rsp # <<>> /\ Head(l2Rsp).kind = "lookup" /\ l2Rsp' = Tail(l2Rsp)
      /\ UNCHANGED <<lines, epochs, uncacheable, pending, batches, batchOrder, single, bitmap,
                     fromInside, fills, outstandingReads, wire, back, reqs, toL1, answer, top>>
  BY DEF TakeLookup, l1Vars
<1>3. /\ RequestsTyped' /\ UNCHANGED <<ownerBatches, pendingSub, subReqs, pendingRsp, l2Queue,
                                       ownerL2Rsp, mem, replica, generation>>
  BY <1>2, EngineKept
<1>4. PICK m \in CacheRsp :
          /\ m = Head(l2Rsp) /\ m \in Range(l2Rsp) /\ m.id \in Nat /\ m.kind \in {"lookup", "fill"}
          /\ CacheTyped' /\ Apart(CacheTokens, top') /\ Apart(CacheTokens, l2Rsp')
          /\ Carried(CacheTokens, top') \cap Carried(CacheTokens, l2Rsp') = {}
          /\ \A t \in Carried(CacheTokens, top') \cup Carried(CacheTokens, l2Rsp') :
                 /\ t \in Carried(CacheTokens, top) \cup Carried(CacheTokens, l2Rsp)
                 /\ t[1] = m.kind => t[2] # m.id
          /\ Range(l2Rsp') \subseteq Range(l2Rsp)
          /\ IF m.kind = "lookup" THEN Is(m.id, "probing")
                                  ELSE Is(m.id, "ready") /\ entry[m.id].fill = "inflight"
  BY <1>1, <1>2, <1>3, CacheTaken
<1> PICK id : id = m.id  OBVIOUS
<1>5. /\ m.kind = "lookup" /\ id \in Nat /\ id \in DOMAIN entry /\ entry[id].state = "probing"
      /\ entry[id] \in EntryRec
  BY <1>1, <1>2, <1>4 DEF Is, RequesterTyped
<1>6. m.gen \in Int /\ m.data \in Int /\ m.hit \in BOOLEAN /\ (~ m.hit => m.data = NoData)
  <2>1. m \in [kind : {"lookup"}, id : Nat, gen : Int, hit : BOOLEAN, data : Int]
    BY <1>5 DEF CacheRsp
  <2> QED  BY <1>1, <1>4, <1>5, <2>1 DEF CacheInv
<1>7. /\ entry' = [entry EXCEPT ![id].gen = m.gen, ![id].data = m.data,
                                ![id].state = IF m.hit THEN "ready" ELSE "pending"]
      /\ ready' = IF m.hit THEN Queued(id) ELSE ready
      /\ pendingBatch' = IF m.hit THEN pendingBatch ELSE Append(pendingBatch, id)
  BY <1>4 DEF TakeLookup
<1>8. /\ DOMAIN entry' = DOMAIN entry /\ entry'[id] \in EntryRec
      /\ \A i \in DOMAIN entry : i # id => entry'[i] = entry[i]
      /\ entry'[id].state = (IF m.hit THEN "ready" ELSE "pending") /\ entry'[id].data = m.data
      /\ \A i \in DOMAIN entry : /\ entry'[i].line = entry[i].line
                                 /\ entry'[i].epoch = entry[i].epoch
                                 /\ entry'[i].waiters = entry[i].waiters
  <2> PICK e : e = entry[id]  OBVIOUS
  <2> DEFINE f == [e EXCEPT !.gen = m.gen, !.data = m.data,
                            !.state = IF m.hit THEN "ready" ELSE "pending"]
  <2>1. e \in EntryRec  BY <1>5
  <2>2. /\ f \in EntryRec /\ f.line = e.line /\ f.epoch = e.epoch /\ f.waiters = e.waiters
        /\ f.state = (IF m.hit THEN "ready" ELSE "pending") /\ f.data = m.data
    BY <1>6, <2>1 DEF EntryRec
  <2>3. entry' = [entry EXCEPT ![id] = f]  BY <1>5, <1>7
  <2> HIDE DEF f
  <2> QED  BY <1>5, <2>2, <2>3
<1>9. OwnerTyped' /\ FlowInv' /\ OwnerInv'
  BY <1>1, <1>2, <1>3, OwnerSideKept DEF OwnerSide
<1>10. /\ pendingBatch' \in Seq(Nat) /\ IsInjective(pendingBatch')
       /\ \A i \in Range(pendingBatch') : Is(i, "pending")'
  <2>1. /\ pendingBatch \in Seq(Nat) /\ IsInjective(pendingBatch)
        /\ \A i \in Range(pendingBatch) : i \in DOMAIN entry /\ entry[i].state = "pending"
    BY <1>1 DEF RequesterTyped, QueueInv, Is
  <2>2. CASE m.hit  BY <1>5, <1>7, <1>8, <2>1, <2>2 DEF Is
  <2>3. CASE ~ m.hit
    <3>1. id \notin Range(pendingBatch)  BY <1>5, <2>1
    <3>2. /\ pendingBatch' \in Seq(Nat) /\ IsInjective(pendingBatch')
          /\ Range(pendingBatch') = Range(pendingBatch) \cup {id}
      BY <1>5, <1>7, <2>1, <2>3, <3>1, AppendElements, AppendRange, InjectiveAppend
    <3> QED  BY <1>5, <1>8, <2>1, <2>3, <3>1, <3>2 DEF Is
  <2> QED  BY <2>2, <2>3
<1>11. /\ ready' \in Seq(Nat) /\ IsInjective(ready')
       /\ \A i \in Range(ready') : Is(i, "ready")'
  <2>1. /\ ready \in Seq(Nat) /\ IsInjective(ready)
        /\ \A i \in Range(ready) : i \in DOMAIN entry /\ entry[i].state = "ready"
    BY <1>1 DEF RequesterTyped, QueueInv, Is
  <2>2. CASE ~ m.hit  BY <1>5, <1>7, <1>8, <2>1, <2>2 DEF Is
  <2>3. CASE m.hit
    <3>1. /\ ready' \in Seq(Nat) /\ IsInjective(ready') /\ Range(ready') = Range(ready) \cup {id}
      BY <1>5, <1>7, <2>1, <2>3, QueuedReady
    <3> QED  BY <1>5, <1>8, <2>1, <2>3, <3>1 DEF Is
  <2> QED  BY <2>2, <2>3
<1>12. RequesterTyped'
  <2>1. \A i \in DOMAIN entry' : entry'[i] \in EntryRec  BY <1>1, <1>8 DEF RequesterTyped
  <2> QED  BY <1>1, <1>2, <1>10, <1>11, <2>1 DEF RequesterTyped
<1>13. SentInv'
  <2>1. \A i \in DOMAIN entry' : Known(i)' /\ reqs[i].op = "read" /\ entry'[i].line = reqs[i].line
    BY <1>1, <1>2, <1>8 DEF SentInv, Known
  <2>2. \A i \in DOMAIN entry' : i \in DOMAIN bitmap => entry'[i].state \in {"inflight", "ready"}
    BY <1>1, <1>5, <1>8 DEF SentInv
  <2>3. 0 \notin DOMAIN reqs  BY <1>1, NumbersOfReads
  <2> QED  BY <1>1, <1>2, <1>5, <1>8, <2>1, <2>2, <2>3, SentKept
<1>14. CacheInv'
  <2>1. \A t \in Carried(CacheTokens, top') \cup Carried(CacheTokens, l2Rsp') :
            IF t[1] = "lookup" THEN Is(t[2], "probing")'
                               ELSE Is(t[2], "ready")' /\ entry'[t[2]].fill = "inflight"
    <3>1. SUFFICES ASSUME NEW t \in Carried(CacheTokens, top') \cup Carried(CacheTokens, l2Rsp')
                   PROVE  IF t[1] = "lookup" THEN Is(t[2], "probing")'
                               ELSE Is(t[2], "ready")' /\ entry'[t[2]].fill = "inflight"
      OBVIOUS
    <3>2. t \in Carried(CacheTokens, top) \cup Carried(CacheTokens, l2Rsp)
          /\ (t[1] = "lookup" => t[2] # id)
      BY <1>4, <1>5
    <3>3. IF t[1] = "lookup" THEN Is(t[2], "probing")
                             ELSE Is(t[2], "ready") /\ entry[t[2]].fill = "inflight"
      BY <1>1, <3>2 DEF CacheInv
    <3>4. t[2] # id  BY <1>5, <3>2, <3>3 DEF Is
    <3> QED  BY <1>8, <3>3, <3>4 DEF Is
  <2>2. \A x \in Range(l2Rsp') : x.kind = "lookup" /\ ~ x.hit => x.data = NoData
    BY <1>1, <1>4 DEF CacheInv
  <2> QED  BY <1>4, <2>1, <2>2 DEF CacheInv
<1>15. QueueInv'
  <2>1. \A p \in DOMAIN batches' : \A l \in DOMAIN batches'[p] :
            batches'[p][l] \in CollectedFor(l)' /\ Page(l) = p
    BY <1>1, <1>2, <1>5, <1>8, BatchesKept
  <2>2. \A i \in DOMAIN entry' : entry'[i].state # "ready" => entry'[i].data = NoData
    BY <1>1, <1>6, <1>8 DEF QueueInv
  <2> QED  BY <1>1, <1>2, <1>10, <1>11, <2>1, <2>2 DEF QueueInv
<1>16. TableInv' /\ WaitersInTable'
  <2>1. 0 \notin DOMAIN reqs  BY <1>1, NumbersOfReads
  <2> QED  BY <1>1, <1>2, <1>8, <2>1, TableKept
<1> QED  BY <1>3, <1>4, <1>9, <1>12, <1>13, <1>14, <1>15, <1>16 DEF IInv, Typed

\* What a step of the requester may use, when it takes no request from ToL1.
LEMMA SameFrame ==
    ASSUME IInv, UNCHANGED EngineFrame, UNCHANGED <<reqs, toL1>>
    PROVE  /\ RequestsTyped /\ OwnerTyped /\ CacheTyped /\ RequesterTyped /\ FlowInv /\ OwnerInv
           /\ SentInv /\ CacheInv /\ QueueInv /\ TableInv /\ WaitersInTable
           /\ RequestsTyped'
           /\ UNCHANGED <<ownerBatches, pendingSub, subReqs, pendingRsp, l2Queue, ownerL2Rsp, mem,
                          replica, generation>>
           /\ 0 \notin DOMAIN reqs /\ DOMAIN entry \subseteq DOMAIN reqs /\ DOMAIN reqs \subseteq Nat
           /\ toL1 \notin DOMAIN entry
<1>1. /\ RequestsTyped' /\ UNCHANGED <<ownerBatches, pendingSub, subReqs, pendingRsp, l2Queue,
                                       ownerL2Rsp, mem, replica, generation>>
  BY EngineKept
<1>2. /\ RequestsTyped /\ OwnerTyped /\ CacheTyped /\ RequesterTyped /\ FlowInv /\ OwnerInv
      /\ SentInv /\ CacheInv /\ QueueInv /\ TableInv /\ WaitersInTable
  BY Parts
<1>3. /\ 0 \notin DOMAIN reqs /\ DOMAIN entry \subseteq DOMAIN reqs /\ DOMAIN reqs \subseteq Nat
      /\ toL1 \notin DOMAIN entry
  BY <1>2, NumbersOfReads
<1> QED  BY <1>1, <1>2, <1>3

\* The entries of a batch, by line.
LEMMA LineIdsWith ==
    ASSUME NEW b \in LineIds, NEW l \in Line, NEW i \in Nat
    PROVE  /\ With(b, l, i) \in LineIds /\ With(b, l, i) # <<>>
           /\ DOMAIN With(b, l, i) = DOMAIN b \cup {l}
           /\ With(b, l, i)[l] = i
           /\ \A x \in DOMAIN b : x # l => With(b, l, i)[x] = b[x]
<1>1. PICK S \in SUBSET Line : b \in [S -> Nat]  BY DEF LineIds
<1>2. With(b, l, i) = [x \in S \cup {l} |-> IF x = l THEN i ELSE b[x]]  BY <1>1 DEF With
<1> PICK f : f = With(b, l, i)  OBVIOUS
<1>3. f = [x \in S \cup {l} |-> IF x = l THEN i ELSE b[x]]  BY <1>2
<1>4. f \in [S \cup {l} -> Nat] /\ S \cup {l} \in SUBSET Line  BY <1>1, <1>3
<1>5. f \in LineIds  BY <1>4 DEF LineIds
<1>6. DOMAIN f = S \cup {l} /\ DOMAIN b = S  BY <1>1, <1>4
<1>7. f # <<>>
  <2>1. DOMAIN <<>> = {}  OBVIOUS
  <2> QED  BY <1>6, <2>1
<1> QED  BY <1>3, <1>5, <1>6, <1>7

LEMMA NoLineIds == <<>> \in LineIds
<1>1. <<>> \in [{} -> Nat]  OBVIOUS
<1> QED  BY <1>1 DEF LineIds

\* A batch with one more line.
LongerBatch(p, l, i) == With(IF p \in DOMAIN batches THEN batches[p] ELSE <<>>, l, i)

LEMMA BatchWith ==
    ASSUME RequesterTyped, NEW p, NEW l \in Line, NEW i \in Nat
    PROVE  /\ LongerBatch(p, l, i) \in LineIds
           /\ LongerBatch(p, l, i) # <<>> /\ LongerBatch(p, l, i)[l] = i
           /\ \A x \in DOMAIN LongerBatch(p, l, i) : x # l =>
                  /\ p \in DOMAIN batches /\ x \in DOMAIN batches[p]
                  /\ LongerBatch(p, l, i)[x] = batches[p][x]
<1>1. CASE p \in DOMAIN batches
  <2>1. batches[p] \in LineIds  BY <1>1 DEF RequesterTyped
  <2>a. PICK g : g = With(batches[p], l, i)  OBVIOUS
  <2>2. LongerBatch(p, l, i) = g  BY <1>1, <2>a DEF LongerBatch
  <2>3. /\ With(batches[p], l, i) \in LineIds /\ With(batches[p], l, i) # <<>>
        /\ DOMAIN With(batches[p], l, i) = DOMAIN batches[p] \cup {l}
        /\ With(batches[p], l, i)[l] = i
        /\ \A x \in DOMAIN batches[p] : x # l => With(batches[p], l, i)[x] = batches[p][x]
    BY <2>1, LineIdsWith, Zenon
  <2>4. /\ g \in LineIds /\ g # <<>> /\ g[l] = i /\ DOMAIN g = DOMAIN batches[p] \cup {l}
        /\ \A x \in DOMAIN batches[p] : x # l => g[x] = batches[p][x]
    <3>1. g \in LineIds  BY <2>3, <2>a
    <3>2. g # <<>>  BY <2>3, <2>a
    <3>3. g[l] = i  BY <2>3, <2>a
    <3>4. DOMAIN g = DOMAIN batches[p] \cup {l}  BY <2>3, <2>a
    <3>5. \A x \in DOMAIN batches[p] : x # l => g[x] = batches[p][x]  BY <2>3, <2>a
    <3> QED  BY <3>1, <3>2, <3>3, <3>4, <3>5
  <2>5. \A x \in DOMAIN g : x # l =>
            p \in DOMAIN batches /\ x \in DOMAIN batches[p] /\ g[x] = batches[p][x]
    BY <1>1, <2>4
  <2> QED  BY <2>2, <2>4, <2>5
<1>2. CASE p \notin DOMAIN batches
  <2>1. LongerBatch(p, l, i) = With(<<>>, l, i)  BY <1>2 DEF LongerBatch
  <2>2. /\ With(<<>>, l, i) \in LineIds /\ With(<<>>, l, i) # <<>> /\ With(<<>>, l, i)[l] = i
        /\ DOMAIN With(<<>>, l, i) = DOMAIN <<>> \cup {l}
    BY NoLineIds, LineIdsWith
  <2>3. \A x \in DOMAIN With(<<>>, l, i) : x = l
    <3>1. DOMAIN <<>> = {}  OBVIOUS
    <3> QED  BY <2>2, <3>1
  <2> QED  BY <2>1, <2>2, <2>3
<1> QED  BY <1>1, <1>2

\* An entry goes to the batch of its page.
LEMMA AddToBatchStep ==
    ASSUME IInv, AddToBatch, UNCHANGED EngineFrame
    PROVE  IInv'
<1>a. PICK id : id = Head(pendingBatch)  OBVIOUS
<1>b. PICK l : l = entry[id].line  OBVIOUS
<1>c. PICK p : p = Page(l)  OBVIOUS
<1>1. /\ pendingBatch # <<>> /\ pendingBatch' = Tail(pendingBatch)
      /\ batches' = With(batches, p, LongerBatch(p, l, id))
      /\ batchOrder' = (IF p \in DOMAIN batches THEN batchOrder ELSE Append(batchOrder, p))
      /\ entry' = [entry EXCEPT ![id].state = "collecting"]
      /\ UNCHANGED <<lines, epochs, uncacheable, probes, single, bitmap, fromInside, ready, fills,
                     outstandingReads, wire, back, reqs, toL1, top, l2Rsp>>
  BY <1>a, <1>b, <1>c DEF AddToBatch, LongerBatch, l1Vars, flightVars
<1>2. /\ RequestsTyped /\ OwnerTyped /\ CacheTyped /\ RequesterTyped /\ FlowInv /\ OwnerInv
      /\ SentInv /\ CacheInv /\ QueueInv /\ TableInv /\ WaitersInTable
      /\ RequestsTyped'
      /\ UNCHANGED <<ownerBatches, pendingSub, subReqs, pendingRsp, l2Queue, ownerL2Rsp, mem,
                     replica, generation>>
      /\ 0 \notin DOMAIN reqs /\ DOMAIN entry \subseteq DOMAIN reqs /\ DOMAIN reqs \subseteq Nat
      /\ toL1 \notin DOMAIN entry
  BY <1>1, SameFrame
<1>3. /\ pendingBatch' \in Seq(Nat) /\ IsInjective(pendingBatch')
      /\ Range(pendingBatch') = Range(pendingBatch) \ {id}
      /\ id \in Range(pendingBatch) /\ id \in Nat
  <2>1. pendingBatch \in Seq(Nat) /\ IsInjective(pendingBatch)
    BY <1>2 DEF RequesterTyped, QueueInv
  <2> QED  BY <1>1, <1>a, <2>1, TailElements, TailRange, InjectiveTail
<1>4. /\ id \in DOMAIN entry /\ entry[id].state = "pending" /\ entry[id] \in EntryRec /\ l \in Line
  BY <1>2, <1>3, <1>b DEF QueueInv, Is, RequesterTyped, EntryRec
<1>5. /\ DOMAIN entry' = DOMAIN entry /\ entry'[id] \in EntryRec
      /\ \A i \in DOMAIN entry : i # id => entry'[i] = entry[i]
      /\ entry'[id].state = "collecting"
      /\ \A i \in DOMAIN entry :
             /\ entry'[i].line = entry[i].line /\ entry'[i].epoch = entry[i].epoch
             /\ entry'[i].waiters = entry[i].waiters /\ entry'[i].data = entry[i].data
  <2> PICK e : e = entry[id]  OBVIOUS
  <2> DEFINE f == [e EXCEPT !.state = "collecting"]
  <2>1. e \in EntryRec  BY <1>4
  <2>2. /\ f \in EntryRec /\ f.line = e.line /\ f.epoch = e.epoch /\ f.waiters = e.waiters
        /\ f.state = "collecting" /\ f.data = e.data
    BY <2>1 DEF EntryRec
  <2>3. entry' = [entry EXCEPT ![id] = f]  BY <1>1, <1>4
  <2> HIDE DEF f
  <2> QED  BY <1>4, <2>2, <2>3
<1>6. PICK b \in LineIds :
          /\ batches' = With(batches, p, b)
          /\ b # <<>> /\ b[l] = id
          /\ \A x \in DOMAIN b : x # l => /\ p \in DOMAIN batches /\ x \in DOMAIN batches[p]
                                         /\ b[x] = batches[p][x]
  <2>1. RequesterTyped /\ l \in Line /\ id \in Nat  BY <1>2, <1>3, <1>4
  <2> QED  BY <1>1, <2>1, BatchWith
<1>7. /\ DOMAIN batches' = DOMAIN batches \cup {p} /\ batches'[p] = b
      /\ \A q \in DOMAIN batches : q # p => batches'[q] = batches[q]
  BY <1>6 DEF With
<1>8. OwnerTyped' /\ FlowInv' /\ OwnerInv'
  BY <1>1, <1>2, OwnerSideKept DEF OwnerSide
<1>9. batchOrder' \in Seq(DOMAIN batches') /\ IsInjective(batchOrder')
  <2>1. batchOrder \in Seq(DOMAIN batches) /\ IsInjective(batchOrder)
    BY <1>2 DEF RequesterTyped, QueueInv
  <2>2. batchOrder \in Seq(DOMAIN batches')  BY <1>7, <2>1, SeqMonotonic
  <2>3. CASE p \in DOMAIN batches  BY <1>1, <2>1, <2>2, <2>3
  <2>4. CASE p \notin DOMAIN batches
    <3>1. p \notin Range(batchOrder)
      <4>1. \A i \in DOMAIN batchOrder : batchOrder[i] \in DOMAIN batches  BY <2>1, SeqType
      <4> QED  BY <2>4, <4>1 DEF Range
    <3>2. p \in DOMAIN batches'  BY <1>7
    <3> QED  BY <1>1, <2>1, <2>2, <2>4, <3>1, <3>2, AppendElements, InjectiveAppend
  <2> QED  BY <2>3, <2>4
<1>10. RequesterTyped'
  <2>1. \A i \in DOMAIN entry' : entry'[i] \in EntryRec  BY <1>2, <1>5 DEF RequesterTyped
  <2>2. \A q \in DOMAIN batches' : batches'[q] \in LineIds /\ batches'[q] # <<>>
    BY <1>2, <1>6, <1>7 DEF RequesterTyped
  <2> QED  BY <1>1, <1>2, <1>3, <1>9, <2>1, <2>2 DEF RequesterTyped
<1>11. CacheTyped'  BY <1>1, <1>2 DEF CacheTyped
<1>12. SentInv'
  <2>1. \A i \in DOMAIN entry' : Known(i)' /\ reqs[i].op = "read" /\ entry'[i].line = reqs[i].line
    BY <1>1, <1>2, <1>5 DEF SentInv, Known
  <2>2. \A i \in DOMAIN entry' : i \in DOMAIN bitmap => entry'[i].state \in {"inflight", "ready"}
    BY <1>2, <1>4, <1>5 DEF SentInv
  <2> QED  BY <1>1, <1>2, <1>4, <1>5, <2>1, <2>2, SentKept
<1>13. CacheInv'  BY <1>1, <1>2, <1>4, <1>5, CacheKept
<1>14. QueueInv'
  <2>1. ASSUME NEW q \in DOMAIN batches', NEW x \in DOMAIN batches'[q]
        PROVE  batches'[q][x] \in CollectedFor(x)' /\ Page(x) = q
    <3>1. \A y : CollectedFor(y) \subseteq CollectedFor(y)'  BY <1>4, <1>5 DEF CollectedFor
    <3>2. ASSUME q \in DOMAIN batches, x \in DOMAIN batches[q]
          PROVE  batches[q][x] \in CollectedFor(x)' /\ Page(x) = q
      BY <1>2, <3>1, <3>2 DEF QueueInv
    <3>3. CASE q # p  BY <1>7, <2>1, <3>2, <3>3
    <3>4. CASE q = p /\ x # l  BY <1>6, <1>7, <2>1, <3>2, <3>4
    <3>5. CASE q = p /\ x = l
      <4>1. id \in CollectedFor(l)'  BY <1>4, <1>5, <1>b DEF CollectedFor
      <4> QED  BY <1>6, <1>7, <1>c, <3>5, <4>1
    <3> QED  BY <3>3, <3>4, <3>5
  <2>2. \A i \in Range(pendingBatch') : Is(i, "pending")'  BY <1>2, <1>3, <1>5 DEF QueueInv, Is
  <2>3. \A i \in Range(ready') : Is(i, "ready")'  BY <1>1, <1>2, <1>4, <1>5 DEF QueueInv, Is
  <2>4. \A i \in DOMAIN entry' : entry'[i].state # "ready" => entry'[i].data = NoData
    BY <1>2, <1>4, <1>5 DEF QueueInv
  <2> QED  BY <1>1, <1>2, <1>3, <1>9, <2>1, <2>2, <2>3, <2>4 DEF QueueInv
<1>15. TableInv' /\ WaitersInTable'  BY <1>1, <1>2, <1>5, TableKept
<1> QED  BY <1>2, <1>8, <1>10, <1>11, <1>12, <1>13, <1>14, <1>15 DEF IInv, Typed

\* A sequence whose elements are all in T.
LEMMA SeqWithin ==
    ASSUME NEW S, NEW s \in Seq(S), NEW T, Range(s) \subseteq T
    PROVE  s \in Seq(T)
<1>1. DOMAIN s = 1 .. Len(s)  BY SeqType
<1>2. \A i \in 1 .. Len(s) : s[i] \in T  BY <1>1, Zenon DEF Range
<1>3. s = [i \in 1 .. Len(s) |-> s[i]] /\ Len(s) \in Nat  BY SeqType
<1> QED  BY <1>2, <1>3

\* The entries of a batch.
LEMMA BatchEntries ==
    ASSUME RequesterTyped, QueueInv, NEW p \in DOMAIN batches
    PROVE  /\ DOMAIN batches[p] \in SUBSET Line /\ DOMAIN batches[p] # {}
           /\ batches[p] \in LineIds
           /\ Range(batches[p]) \in SUBSET Nat /\ IsFiniteSet(Range(batches[p]))
           /\ Min(Range(batches[p])) \in Range(batches[p])
           /\ \A l \in DOMAIN batches[p] : batches[p][l] \in Range(batches[p])
           /\ \A i \in Range(batches[p]) :
                  /\ i \in DOMAIN entry /\ entry[i].state = "collecting"
                  /\ entry[i].line \in DOMAIN batches[p] /\ batches[p][entry[i].line] = i
                  /\ Page(entry[i].line) = p
           /\ \A l \in DOMAIN batches[p] : entry[batches[p][l]].line = l
<1>a. PICK b : b = batches[p]  OBVIOUS
<1>1. b \in LineIds /\ b # <<>>  BY <1>a DEF RequesterTyped
<1>2. PICK S \in SUBSET Line : b \in [S -> Nat]  BY <1>1 DEF LineIds
<1>3. DOMAIN b = S /\ S # {}
  <2>1. ASSUME S = {} PROVE FALSE
    <3>1. b \in [{} -> Nat] /\ <<>> \in [{} -> Nat]  BY <1>2, <2>1
    <3> QED  BY <1>1, <3>1
  <2> QED  BY <1>2, <2>1
<1>4. Range(b) = {b[l] : l \in S}  BY <1>3, Zenon DEF Range
<1>5. Range(b) \in SUBSET Nat /\ Range(b) # {}  BY <1>2, <1>3, <1>4
<1>6. IsFiniteSet(Range(b))
  <2>1. IsFiniteSet(S)  BY <1>2, OwnerAssumption, FS_Subset
  <2>2. b \in Surjection(S, Range(b))
    <3>1. b \in [S -> Range(b)]  BY <1>2, <1>4
    <3> QED  BY <1>4, <3>1 DEF Surjection
  <2> QED  BY <2>1, <2>2, FS_Surjection
<1>7. Min(Range(b)) \in Range(b)
  <2>a. PICK ids : ids = Range(b)  OBVIOUS
  <2>1. \E x \in ids : \A y \in ids : x <= y  BY <1>5, <2>a, SmallestNat
  <2>2. Min(ids) \in ids  BY <2>1 DEF Min
  <2> QED  BY <2>a, <2>2
<1>8. \A l \in S : /\ b[l] \in DOMAIN entry /\ entry[b[l]].state = "collecting"
                   /\ entry[b[l]].line = l /\ Page(l) = p
  BY <1>a, <1>3 DEF QueueInv, CollectedFor
<1>9. \A i \in Range(b) :
          /\ i \in DOMAIN entry /\ entry[i].state = "collecting"
          /\ entry[i].line \in DOMAIN b /\ b[entry[i].line] = i /\ Page(entry[i].line) = p
  <2>1. SUFFICES ASSUME NEW l \in S
                 PROVE  /\ b[l] \in DOMAIN entry /\ entry[b[l]].state = "collecting"
                        /\ entry[b[l]].line \in S /\ b[entry[b[l]].line] = b[l]
                        /\ Page(entry[b[l]].line) = p
    BY <1>3, <1>4
  <2> QED  BY <1>8
<1>10. DOMAIN b \in SUBSET Line /\ DOMAIN b # {} /\ \A l \in DOMAIN b : b[l] \in Range(b)
  BY <1>3, <1>4
<1>11. \A l \in DOMAIN b : entry[b[l]].line = l  BY <1>3, <1>8
<1> QED  BY <1>a, <1>1, <1>5, <1>6, <1>7, <1>9, <1>10, <1>11

\* A batch of one line is sent as a read.
LEMMA SingleSent ==
    ASSUME IInv, UNCHANGED EngineFrame, UNCHANGED <<reqs, toL1, back, bitmap, fromInside>>,
           NEW id \in DOMAIN entry, entry[id].state = "collecting",
           wire' = Append(wire, [kind |-> "single", id |-> id, line |-> entry[id].line]),
           single' = single \cup {id}
    PROVE  OwnerTyped' /\ FlowInv' /\ OwnerInv'
<1>a. PICK l : l = entry[id].line  OBVIOUS
<1>b. PICK m : m = [kind |-> "single", id |-> id, line |-> l]  OBVIOUS
<1>1. /\ RequestsTyped /\ OwnerTyped /\ RequesterTyped /\ FlowInv /\ OwnerInv /\ SentInv
      /\ UNCHANGED <<ownerBatches, pendingSub, subReqs, pendingRsp, l2Queue, ownerL2Rsp, mem>>
      /\ id \in Nat
  BY SameFrame
<1>2. l \in Line /\ l = reqs[id].line  BY <1>1, <1>a DEF RequesterTyped, EntryRec, SentInv
<1>3. m \in ReqMsg /\ m.kind = "single" /\ ReqTokens[m] = {<<"single", id, l>>}
  <2>1. m \in ReqMsg /\ m.kind = "single" /\ m.kind # "bitmap" /\ m.id = id /\ m.line = l
    BY <1>1, <1>2, <1>b DEF ReqMsg, Simple
  <2> QED  BY <2>1, Classes, Requests
<1>4. id \notin single  BY <1>1 DEF SentInv, Is
<1>5. \A t \in ReqTokens[m] : ~ Asked(t) /\ Asked(t)'
  <2>1. <<"single", id, l>>[1] = "single" /\ <<"single", id, l>>[2] = id /\ <<"single", id, l>>[3] = l
    OBVIOUS
  <2>2. ~ Asked(<<"single", id, l>>)  BY <1>4, <2>1 DEF Asked
  <2>3. id \in single' /\ l = reqs'[id].line  BY <1>2
  <2>4. Asked(<<"single", id, l>>)'  BY <2>1, <2>3 DEF Asked
  <2> QED  BY <1>3, <2>2, <2>4
<1>6. \A t : Asked(t) => Asked(t)'  BY DEF Asked
<1>7. FlowInv' /\ wire' \in Seq(ReqMsg) /\ Range(wire') = Range(wire) \cup {m}
  <2>1. wire' = Append(wire, m)  BY <1>a, <1>b
  <2> QED  BY <1>1, <1>3, <1>5, <1>6, <2>1, SendFlow
<1>8. OwnerTyped'  BY <1>1, <1>7 DEF OwnerTyped
<1>9. OwnerInv'
  <2>1. \A x \in Range(wire') : x.kind = "bitmap" =>
            x.id \in DOMAIN bitmap' /\ x.lines = DOMAIN bitmap'[x.id].ents /\ x.lines # {}
    BY <1>1, <1>3, <1>7 DEF OwnerInv
  <2> QED  BY <1>1, <2>1, BooksKept
<1> QED  BY <1>7, <1>8, <1>9

\* A batch of several lines is sent as a bitmap request.
LEMMA BitmapSent ==
    ASSUME IInv, UNCHANGED EngineFrame, UNCHANGED <<reqs, toL1, back, single, fromInside>>,
           NEW id \in DOMAIN entry, entry[id].state = "collecting",
           NEW b, DOMAIN b \in SUBSET Line, DOMAIN b # {},
           wire' = Append(wire, [kind |-> "bitmap", id |-> id, lines |-> DOMAIN b]),
           DOMAIN bitmap' = DOMAIN bitmap \cup {id}, bitmap'[id] = [ents |-> b, got |-> {}],
           \A i \in DOMAIN bitmap : i # id => bitmap'[i] = bitmap[i]
    PROVE  OwnerTyped' /\ FlowInv' /\ OwnerInv'
<1>a. PICK m : m = [kind |-> "bitmap", id |-> id, lines |-> DOMAIN b]  OBVIOUS
<1>1. /\ RequestsTyped /\ OwnerTyped /\ RequesterTyped /\ FlowInv /\ OwnerInv /\ SentInv
      /\ UNCHANGED <<ownerBatches, pendingSub, subReqs, pendingRsp, l2Queue, ownerL2Rsp, mem>>
      /\ id \in Nat
  BY SameFrame
<1>2. id \notin DOMAIN bitmap  BY <1>1 DEF SentInv
<1>3. /\ m \in ReqMsg /\ m.kind = "bitmap" /\ m.id = id /\ m.lines = DOMAIN b
      /\ ReqTokens[m] = {<<"bitmap", id, l>> : l \in DOMAIN b}
  <2>1. m \in ReqMsg /\ m.kind = "bitmap" /\ m.id = id /\ m.lines = DOMAIN b
    BY <1>1, <1>a DEF ReqMsg
  <2> QED  BY <2>1, Requests
<1>4. DOMAIN bitmap'[id].ents \ bitmap'[id].got = DOMAIN b /\ DOMAIN bitmap'[id].ents = DOMAIN b
  OBVIOUS
<1>5. \A t \in ReqTokens[m] : ~ Asked(t) /\ Asked(t)'
  <2>1. SUFFICES ASSUME NEW l \in DOMAIN b
                 PROVE  ~ Asked(<<"bitmap", id, l>>) /\ Asked(<<"bitmap", id, l>>)'
    BY <1>3
  <2>2. <<"bitmap", id, l>>[1] = "bitmap" /\ <<"bitmap", id, l>>[2] = id /\ <<"bitmap", id, l>>[3] = l
    OBVIOUS
  <2>3. ~ Asked(<<"bitmap", id, l>>)  BY <1>2, <2>2 DEF Asked
  <2>4. id \in DOMAIN bitmap' /\ l \in DOMAIN bitmap'[id].ents \ bitmap'[id].got  BY <1>4
  <2>5. Asked(<<"bitmap", id, l>>)'  BY <2>2, <2>4 DEF Asked
  <2> QED  BY <2>3, <2>5
<1>6. \A t : Asked(t) => Asked(t)'  BY <1>2 DEF Asked
<1>7. FlowInv' /\ wire' \in Seq(ReqMsg) /\ Range(wire') = Range(wire) \cup {m}
  <2>1. wire' = Append(wire, m)  BY <1>a
  <2> QED  BY <1>1, <1>3, <1>5, <1>6, <2>1, SendFlow
<1>8. OwnerTyped'  BY <1>1, <1>7 DEF OwnerTyped
<1>9. OwnerInv'
  <2>1. ASSUME NEW x \in Range(wire'), x.kind = "bitmap"
        PROVE  x.id \in DOMAIN bitmap' /\ x.lines = DOMAIN bitmap'[x.id].ents /\ x.lines # {}
    <3>1. CASE x = m  BY <1>3, <1>4, <3>1
    <3>2. CASE x # m
      <4>1. x.id \in DOMAIN bitmap /\ x.lines = DOMAIN bitmap[x.id].ents /\ x.lines # {}
        BY <1>1, <1>7, <2>1, <3>2 DEF OwnerInv
      <4> QED  BY <1>2, <4>1
    <3> QED  BY <3>1, <3>2
  <2> QED  BY <1>1, <2>1, BooksKept
<1> QED  BY <1>7, <1>8, <1>9

\* A batch is sent.
LEMMA FlushStep ==
    ASSUME IInv, NEW p \in DOMAIN batches, Flush(p), UNCHANGED EngineFrame
    PROVE  IInv'
<1>a. PICK b : b = batches[p]  OBVIOUS
<1>b. PICK ids : ids = Range(b)  OBVIOUS
<1>c. PICK id : id = Min(ids)  OBVIOUS
<1>1. /\ IF Cardinality(ids) = 1
         THEN /\ wire' = Append(wire, [kind |-> "single", id |-> id, line |-> entry[id].line])
              /\ single' = single \cup {id} /\ bitmap' = bitmap
         ELSE /\ wire' = Append(wire, [kind |-> "bitmap", id |-> id, lines |-> DOMAIN b])
              /\ bitmap' = With(bitmap, id, [ents |-> b, got |-> {}]) /\ single' = single
      /\ entry' = [i \in DOMAIN entry |-> IF i \in ids
                      THEN [entry[i] EXCEPT !.state = "inflight", !.fromRemote = TRUE] ELSE entry[i]]
      /\ batches' = Without(batches, p) /\ batchOrder' = RemoveFirst(batchOrder, p)
      /\ UNCHANGED <<lines, epochs, uncacheable, pending, pendingBatch, probes, fromInside, ready,
                     fills, outstandingReads, back, reqs, toL1, top, l2Rsp>>
  BY <1>a, <1>b, <1>c DEF Flush, RequesterSends, l1Vars
<1>2. /\ RequestsTyped /\ OwnerTyped /\ CacheTyped /\ RequesterTyped /\ FlowInv /\ OwnerInv
      /\ SentInv /\ CacheInv /\ QueueInv /\ TableInv /\ WaitersInTable
      /\ RequestsTyped'
      /\ UNCHANGED <<ownerBatches, pendingSub, subReqs, pendingRsp, l2Queue, ownerL2Rsp, mem,
                     replica, generation>>
      /\ 0 \notin DOMAIN reqs /\ DOMAIN entry \subseteq DOMAIN reqs /\ DOMAIN reqs \subseteq Nat
      /\ toL1 \notin DOMAIN entry
  BY <1>1, SameFrame
<1>3. /\ DOMAIN b \in SUBSET Line /\ DOMAIN b # {} /\ b \in LineIds
      /\ ids \in SUBSET Nat /\ IsFiniteSet(ids) /\ id \in ids
      /\ \A l \in DOMAIN b : b[l] \in ids /\ entry[b[l]].line = l
      /\ \A i \in ids : /\ i \in DOMAIN entry /\ entry[i].state = "collecting"
                        /\ entry[i].line \in DOMAIN b /\ b[entry[i].line] = i
                        /\ Page(entry[i].line) = p
  BY <1>2, <1>a, <1>b, <1>c, BatchEntries
<1>4. /\ DOMAIN entry' = DOMAIN entry
      /\ \A i \in ids : entry'[i] \in EntryRec /\ entry'[i].state = "inflight"
      /\ \A i \in DOMAIN entry : i \notin ids => entry'[i] = entry[i]
      /\ \A i \in DOMAIN entry :
             /\ entry'[i].line = entry[i].line /\ entry'[i].epoch = entry[i].epoch
             /\ entry'[i].waiters = entry[i].waiters /\ entry'[i].data = entry[i].data
  <2>1. DOMAIN entry' = DOMAIN entry
        /\ \A i \in DOMAIN entry : i \notin ids => entry'[i] = entry[i]
    BY <1>1
  <2>2. ASSUME NEW i \in ids
        PROVE  /\ entry'[i] \in EntryRec /\ entry'[i].state = "inflight"
               /\ entry'[i].line = entry[i].line /\ entry'[i].epoch = entry[i].epoch
               /\ entry'[i].waiters = entry[i].waiters /\ entry'[i].data = entry[i].data
    <3>a. PICK e : e = entry[i]  OBVIOUS
    <3> DEFINE f == [e EXCEPT !.state = "inflight", !.fromRemote = TRUE]
    <3>1. e \in EntryRec  BY <1>2, <1>3, <3>a DEF RequesterTyped
    <3>2. /\ f \in EntryRec /\ f.line = e.line /\ f.epoch = e.epoch /\ f.waiters = e.waiters
          /\ f.state = "inflight" /\ f.data = e.data
      BY <3>1 DEF EntryRec
    <3>3. entry'[i] = f  BY <1>1, <1>3, <3>a
    <3> HIDE DEF f
    <3> QED  BY <3>a, <3>2, <3>3
  <2> QED  BY <2>1, <2>2
<1>5. /\ id \in DOMAIN entry /\ entry[id].state = "collecting" /\ id \in Nat
      /\ id \notin single /\ id \notin DOMAIN bitmap
  BY <1>2, <1>3 DEF SentInv, Is
<1>7. \/ /\ wire' = Append(wire, [kind |-> "single", id |-> id, line |-> entry[id].line])
         /\ single' = single \cup {id} /\ bitmap' = bitmap
      \/ /\ wire' = Append(wire, [kind |-> "bitmap", id |-> id, lines |-> DOMAIN b])
         /\ single' = single
         /\ DOMAIN bitmap' = DOMAIN bitmap \cup {id} /\ bitmap'[id] = [ents |-> b, got |-> {}]
         /\ \A i \in DOMAIN bitmap : bitmap'[i] = bitmap[i]
  <2>1. CASE Cardinality(ids) = 1  BY <1>1, <2>1
  <2>2. CASE Cardinality(ids) # 1
    <3>1. bitmap' = With(bitmap, id, [ents |-> b, got |-> {}])  BY <1>1, <2>2
    <3>2. /\ DOMAIN bitmap' = DOMAIN bitmap \cup {id} /\ bitmap'[id] = [ents |-> b, got |-> {}]
          /\ \A i \in DOMAIN bitmap : bitmap'[i] = bitmap[i]
      BY <1>5, <3>1 DEF With
    <3> QED  BY <1>1, <2>2, <3>2
  <2> QED  BY <2>1, <2>2
<1>8. OwnerTyped' /\ FlowInv' /\ OwnerInv'
  <2>1. CASE /\ wire' = Append(wire, [kind |-> "single", id |-> id, line |-> entry[id].line])
             /\ single' = single \cup {id} /\ bitmap' = bitmap
    BY <1>1, <1>5, <2>1, SingleSent
  <2>2. CASE /\ wire' = Append(wire, [kind |-> "bitmap", id |-> id, lines |-> DOMAIN b])
             /\ single' = single
             /\ DOMAIN bitmap' = DOMAIN bitmap \cup {id} /\ bitmap'[id] = [ents |-> b, got |-> {}]
             /\ \A i \in DOMAIN bitmap : bitmap'[i] = bitmap[i]
    BY <1>1, <1>3, <1>5, <2>2, BitmapSent
  <2> QED  BY <1>7, <2>1, <2>2
<1>9. /\ DOMAIN batches' = DOMAIN batches \ {p}
      /\ \A q \in DOMAIN batches' : batches'[q] = batches[q]
  BY <1>1 DEF Without, Restrict
<1>10. batchOrder' \in Seq(DOMAIN batches') /\ IsInjective(batchOrder')
  <2>1. batchOrder \in Seq(DOMAIN batches) /\ IsInjective(batchOrder)
    BY <1>2 DEF RequesterTyped, QueueInv
  <2>2. /\ batchOrder' \in Seq(DOMAIN batches) /\ IsInjective(batchOrder')
        /\ Range(batchOrder') = Range(batchOrder) \ {p}
    BY <1>1, <2>1, RemoveFirstRange
  <2>3. Range(batchOrder) \subseteq DOMAIN batches
    <3>1. \A i \in DOMAIN batchOrder : batchOrder[i] \in DOMAIN batches  BY <2>1, SeqType
    <3> QED  BY <3>1 DEF Range
  <2>4. Range(batchOrder') \subseteq DOMAIN batches'  BY <1>9, <2>2, <2>3
  <2> QED  BY <2>2, <2>4, SeqWithin
<1>11. RequesterTyped'
  <2>1. \A i \in DOMAIN entry' : entry'[i] \in EntryRec  BY <1>2, <1>4 DEF RequesterTyped
  <2>2. \A q \in DOMAIN batches' : batches'[q] \in LineIds /\ batches'[q] # <<>>
    BY <1>2, <1>9 DEF RequesterTyped
  <2>3. \A i \in DOMAIN bitmap' : bitmap'[i] \in [ents : LineIds, got : SUBSET Line]
    <3>1. \A i \in DOMAIN bitmap : bitmap[i] \in [ents : LineIds, got : SUBSET Line]
      BY <1>2 DEF RequesterTyped
    <3>2. [ents |-> b, got |-> {}] \in [ents : LineIds, got : SUBSET Line]  BY <1>3
    <3> QED  BY <1>7, <3>1, <3>2
  <2> QED  BY <1>1, <1>2, <1>10, <2>1, <2>2, <2>3 DEF RequesterTyped
<1>12. CacheTyped'  BY <1>1, <1>2 DEF CacheTyped
<1>13. CacheInv'  BY <1>1, <1>2, <1>3, <1>4, CacheKept
<1>14. QueueInv'
  <2>1. ASSUME NEW q \in DOMAIN batches', NEW x \in DOMAIN batches'[q]
        PROVE  batches'[q][x] \in CollectedFor(x)' /\ Page(x) = q
    <3>a. PICK i : i = batches[q][x]  OBVIOUS
    <3>1. q \in DOMAIN batches /\ q # p /\ batches'[q] = batches[q]  BY <1>9
    <3>2. /\ i \in DOMAIN entry /\ entry[i].state = "collecting" /\ entry[i].line = x
          /\ Page(x) = q
      BY <1>2, <3>1, <3>a DEF QueueInv, CollectedFor
    <3>3. i \notin ids  BY <1>3, <3>1, <3>2
    <3>4. i \in CollectedFor(x)'  BY <1>4, <3>2, <3>3 DEF CollectedFor
    <3> QED  BY <3>1, <3>2, <3>4, <3>a
  <2>2. \A i \in Range(pendingBatch') : Is(i, "pending")'
    BY <1>1, <1>2, <1>3, <1>4 DEF QueueInv, Is
  <2>3. \A i \in Range(ready') : Is(i, "ready")'  BY <1>1, <1>2, <1>3, <1>4 DEF QueueInv, Is
  <2>4. \A i \in DOMAIN entry' : entry'[i].state # "ready" => entry'[i].data = NoData
    BY <1>2, <1>3, <1>4 DEF QueueInv
  <2> QED  BY <1>1, <1>2, <1>10, <2>1, <2>2, <2>3, <2>4 DEF QueueInv
<1>15. TableInv' /\ WaitersInTable'  BY <1>1, <1>2, <1>4, TableKept
<1>16. SentInv'
  <2>1. \A i : Known(i) => Known(i)'  BY <1>1 DEF Known
  <2>2. \A i \in DOMAIN entry' : Known(i)' /\ reqs'[i].op = "read" /\ entry'[i].line = reqs'[i].line
    <3>1. \A i \in DOMAIN entry : Known(i) /\ reqs[i].op = "read" /\ entry[i].line = reqs[i].line
      BY <1>2 DEF SentInv
    <3>2. reqs' = reqs  BY <1>1
    <3> QED  BY <1>4, <2>1, <3>1, <3>2
  <2>3. \A i \in fromInside' : Known(i)' /\ reqs'[i].op # "read"  BY <1>1, <1>2, <2>1 DEF SentInv
  <2>4. \A i \in single' : Is(i, "inflight")'
    <3>1. \A i \in single : i \in DOMAIN entry /\ entry[i].state = "inflight"
      BY <1>2 DEF SentInv, Is
    <3>2. \A i \in single' : i \in single \/ i = id  BY <1>7
    <3>3. \A i \in single : i \in DOMAIN entry' /\ entry'[i].state = "inflight"
      BY <1>3, <1>4, <3>1
    <3>4. id \in DOMAIN entry' /\ entry'[id].state = "inflight"  BY <1>3, <1>4
    <3> QED  BY <3>2, <3>3, <3>4 DEF Is
  <2>5. \A l : FlyingFor(l) \subseteq FlyingFor(l)'
    <3>1. \A i \in single' : i \in single \/ i = id  BY <1>7
    <3> QED  BY <1>3, <1>4, <1>5, <3>1 DEF FlyingFor
  <2>6. \A i \in DOMAIN bitmap : /\ i # id /\ i \in DOMAIN bitmap' /\ bitmap'[i] = bitmap[i]
                                 /\ \A l : Unfinished(i, l)' <=> Unfinished(i, l)
    <3>1. \A i \in DOMAIN bitmap : i # id /\ i \in DOMAIN bitmap' /\ bitmap'[i] = bitmap[i]
      BY <1>5, <1>7
    <3> QED  BY <3>1 DEF Unfinished
  <2>7. ASSUME NEW i \in DOMAIN bitmap
        PROVE  /\ Known(i)' /\ reqs'[i].op = "read" /\ i \notin single'
               /\ i \in DOMAIN entry' => entry'[i].state \in {"inflight", "ready"}
               /\ \A l : Unfinished(i, l)' => bitmap'[i].ents[l] \in FlyingFor(l)'
    <3>1. /\ Known(i) /\ reqs[i].op = "read" /\ i \notin single
          /\ i \in DOMAIN entry => entry[i].state \in {"inflight", "ready"}
          /\ \A l : Unfinished(i, l) => bitmap[i].ents[l] \in FlyingFor(l)
      BY <1>2 DEF SentInv
    <3>2. i \notin single'  BY <1>7, <2>6, <3>1
    <3>3. i \in DOMAIN entry' => entry'[i].state \in {"inflight", "ready"}  BY <1>4, <3>1
    <3>4. \A l : Unfinished(i, l)' => bitmap'[i].ents[l] \in FlyingFor(l)'
      BY <2>5, <2>6, <3>1
    <3> QED  BY <1>1, <2>1, <3>1, <3>2, <3>3, <3>4
  <2>8. ASSUME id \in DOMAIN bitmap', bitmap'[id] = [ents |-> b, got |-> {}], single' = single
        PROVE  /\ Known(id)' /\ reqs'[id].op = "read" /\ id \notin single'
               /\ id \in DOMAIN entry' => entry'[id].state \in {"inflight", "ready"}
               /\ \A l : Unfinished(id, l)' => bitmap'[id].ents[l] \in FlyingFor(l)'
    <3>1. ASSUME NEW l, Unfinished(id, l)' PROVE bitmap'[id].ents[l] \in FlyingFor(l)'
      <4>1. l \in DOMAIN b /\ bitmap'[id].ents[l] = b[l]  BY <2>8, <3>1 DEF Unfinished
      <4>2. b[l] \in ids /\ entry[b[l]].line = l  BY <1>3, <4>1
      <4>3. b[l] \notin single  BY <1>2, <1>3, <4>2 DEF SentInv, Is
      <4>4. /\ b[l] \in DOMAIN entry' /\ entry'[b[l]].state = "inflight"
            /\ entry'[b[l]].line = l
        BY <1>3, <1>4, <4>2
      <4>5. b[l] \in FlyingFor(l)'  BY <2>8, <4>3, <4>4 DEF FlyingFor
      <4> QED  BY <4>1, <4>5
    <3> QED  BY <1>3, <1>4, <1>5, <2>2, <2>8, <3>1
  <2>9. DOMAIN bitmap' \subseteq DOMAIN bitmap \cup {id}
        /\ (id \in DOMAIN bitmap' => bitmap'[id] = [ents |-> b, got |-> {}] /\ single' = single)
    BY <1>5, <1>7
  <2>10. ASSUME NEW i \in DOMAIN bitmap, NEW l, Unfinished(i, l), id \in DOMAIN bitmap', Unfinished(id, l)'
         PROVE  bitmap[i].ents[l] # bitmap'[id].ents[l]
    <3>1. l \in DOMAIN b /\ bitmap'[id].ents[l] = b[l]  BY <2>9, <2>10 DEF Unfinished
    <3>2. entry[bitmap[i].ents[l]].state = "inflight"  BY <1>2, <2>10 DEF SentInv, FlyingFor
    <3>3. entry[b[l]].state = "collecting"  BY <1>3, <3>1
    <3> QED  BY <3>1, <3>2, <3>3
  <2>11. ASSUME NEW i \in DOMAIN bitmap', NEW j \in DOMAIN bitmap', NEW l,
                Unfinished(i, l)', Unfinished(j, l)', bitmap'[i].ents[l] = bitmap'[j].ents[l]
         PROVE  i = j
    <3>1. CASE i \in DOMAIN bitmap /\ j \in DOMAIN bitmap
      <4>1. Unfinished(i, l) /\ Unfinished(j, l) /\ bitmap[i].ents[l] = bitmap[j].ents[l]
        BY <2>6, <2>11, <3>1
      <4> QED  BY <1>2, <3>1, <4>1 DEF SentInv
    <3>2. CASE i \in DOMAIN bitmap /\ j = id  BY <2>6, <2>10, <2>11, <3>2
    <3>3. CASE i = id /\ j \in DOMAIN bitmap  BY <2>6, <2>10, <2>11, <3>3
    <3>4. CASE i = id /\ j = id  BY <3>4
    <3> QED  BY <2>9, <3>1, <3>2, <3>3, <3>4
  <2>12. \A i \in DOMAIN bitmap' :
             /\ Known(i)' /\ reqs'[i].op = "read" /\ i \notin single'
             /\ i \in DOMAIN entry' => entry'[i].state \in {"inflight", "ready"}
             /\ \A l : Unfinished(i, l)' => bitmap'[i].ents[l] \in FlyingFor(l)'
    BY <2>7, <2>8, <2>9
  <2>13. \A i, j \in DOMAIN bitmap' : \A l :
             Unfinished(i, l)' /\ Unfinished(j, l)' /\ bitmap'[i].ents[l] = bitmap'[j].ents[l] => i = j
    BY <2>11
  <2> QED  BY <2>2, <2>3, <2>4, <2>12, <2>13 DEF SentInv
<1> QED  BY <1>2, <1>8, <1>11, <1>12, <1>13, <1>14, <1>15, <1>16 DEF IInv, Typed

LEMMA SendBatchStep ==
    ASSUME IInv, SendBatch, UNCHANGED EngineFrame
    PROVE  IInv'
<1>1. CASE batchOrder # <<>> /\ Flush(Head(batchOrder))
  <2>1. batchOrder \in Seq(DOMAIN batches)  BY Parts DEF RequesterTyped
  <2>2. Head(batchOrder) \in DOMAIN batches  BY <1>1, <2>1, TailElements
  <2> QED  BY <1>1, <2>2, FlushStep
<1>2. CASE OtherReq /\ Page(HeadLine) \in DOMAIN batches /\ Flush(Page(HeadLine))
  BY <1>2, FlushStep
<1> QED  BY <1>1, <1>2 DEF SendBatch

\* A token is a triple.
LEMMA Triples ==
    ASSUME OwnerTyped
    PROVE  \A p \in Place : \A t \in Flow[p] : t = <<t[1], t[2], t[3]>>
<1>1. \A t \in Flow["wire"] : t = <<t[1], t[2], t[3]>>
  <2>1. SUFFICES ASSUME NEW t \in Carried(ReqTokens, wire) PROVE t = <<t[1], t[2], t[3]>>
    BY FlowPlaces
  <2>2. \A i \in DOMAIN wire : wire[i] \in ReqMsg  BY SeqType DEF OwnerTyped
  <2>3. PICK m \in ReqMsg : t \in ReqTokens[m]  BY <2>2, InCarried
  <2> QED  BY <2>3, Requests
<1>2. \A t \in Flow["sub"] : t = <<t[1], t[2], t[3]>>
  <2>1. SUFFICES ASSUME NEW t \in Carried(SubTokens, pendingSub) PROVE t = <<t[1], t[2], t[3]>>
    BY FlowPlaces
  <2>2. \A i \in DOMAIN pendingSub : pendingSub[i] \in Nat \X Line  BY SeqType DEF OwnerTyped
  <2>3. PICK m \in Nat \X Line : t \in SubTokens[m]  BY <2>2, InCarried
  <2> QED  BY <2>3, Subs
<1>3. \A t \in Flow["l2"] : t = <<t[1], t[2], t[3]>>
  <2>1. SUFFICES ASSUME NEW t \in Carried(L2Tokens, l2Queue) PROVE t = <<t[1], t[2], t[3]>>
    BY FlowPlaces
  <2>2. \A i \in DOMAIN l2Queue : l2Queue[i] \in L2Msg  BY SeqType DEF OwnerTyped
  <2>3. PICK m \in L2Msg : t \in L2Tokens[m]  BY <2>2, InCarried
  <2> QED  BY <2>3, L2Messages
<1>4. \A t \in Flow["rsp"] : t = <<t[1], t[2], t[3]>>
  <2>1. SUFFICES ASSUME NEW t \in Carried(AnswerTokens, ownerL2Rsp) PROVE t = <<t[1], t[2], t[3]>>
    BY FlowPlaces
  <2>2. \A i \in DOMAIN ownerL2Rsp : ownerL2Rsp[i] \in L2Answer  BY SeqType DEF OwnerTyped
  <2>3. PICK m \in L2Answer : t \in AnswerTokens[m]  BY <2>2, InCarried
  <2> QED  BY <2>3, L2Messages
<1>5. \A t \in Flow["data"] : t = <<t[1], t[2], t[3]>>
  <2>1. SUFFICES ASSUME NEW t \in DataTokens PROVE t = <<t[1], t[2], t[3]>>  BY FlowPlaces
  <2>2. PICK i \in DOMAIN ownerBatches : \E l \in DOMAIN ownerBatches[i].data : t = <<"bitmap", i, l>>
    BY InData
  <2> QED  BY <2>2
<1>6. \A t \in Flow["back"] : t = <<t[1], t[2], t[3]>>
  <2>1. SUFFICES ASSUME NEW t \in Carried(RspTokens, back) PROVE t = <<t[1], t[2], t[3]>>
    BY FlowPlaces
  <2>2. \A i \in DOMAIN back : back[i] \in RspMsg  BY SeqType DEF OwnerTyped
  <2>3. PICK m \in RspMsg : t \in RspTokens[m]  BY <2>2, InCarried
  <2> QED  BY <2>3, Responses
<1>7. SUFFICES ASSUME NEW p \in Place PROVE \A t \in Flow[p] : t = <<t[1], t[2], t[3]>>  OBVIOUS
<1>8. p \in {"wire", "sub", "l2", "rsp", "data", "back"}  BY DEF Place
<1> QED  BY <1>1, <1>2, <1>3, <1>4, <1>5, <1>6, <1>8

\* Answers come, and no requests are sent.
LEMMA SentShrinks ==
    ASSUME SentInv, UNCHANGED <<reqs, toL1>>, fromInside' \subseteq fromInside, single' \subseteq single,
           DOMAIN entry' = DOMAIN entry,
           \A i \in DOMAIN entry : entry'[i].line = entry[i].line,
           \A i \in single' : entry'[i].state = "inflight",
           \A i \in DOMAIN entry' : i \in DOMAIN bitmap => entry'[i].state \in {"inflight", "ready"},
           DOMAIN bitmap' \subseteq DOMAIN bitmap,
           \A i \in DOMAIN bitmap' :
               /\ bitmap'[i].ents = bitmap[i].ents
               /\ \A l : Unfinished(i, l)' =>
                      Unfinished(i, l) /\ entry'[bitmap[i].ents[l]].state = "inflight"
    PROVE  SentInv'
<1>1. \A i : Known(i)' <=> Known(i)  BY DEF Known
<1>2. \A i \in DOMAIN entry' : Known(i)' /\ reqs'[i].op = "read" /\ entry'[i].line = reqs'[i].line
  <2>1. \A i \in DOMAIN entry : Known(i) /\ reqs[i].op = "read" /\ entry[i].line = reqs[i].line
    BY DEF SentInv
  <2>2. reqs' = reqs  OBVIOUS
  <2> QED  BY <1>1, <2>1, <2>2
<1>3. \A i \in fromInside' : Known(i)' /\ reqs'[i].op # "read"  BY <1>1 DEF SentInv
<1>4. \A i \in single' : Is(i, "inflight")'  BY DEF SentInv, Is
<1>5. ASSUME NEW i \in DOMAIN bitmap'
      PROVE  /\ Known(i)' /\ reqs'[i].op = "read" /\ i \notin single'
             /\ i \in DOMAIN entry' => entry'[i].state \in {"inflight", "ready"}
             /\ \A l : Unfinished(i, l)' => bitmap'[i].ents[l] \in FlyingFor(l)'
  <2>1. /\ Known(i) /\ reqs[i].op = "read" /\ i \notin single
        /\ \A l : Unfinished(i, l) => bitmap[i].ents[l] \in FlyingFor(l)
    BY <1>5 DEF SentInv
  <2>2. ASSUME NEW l, Unfinished(i, l)' PROVE bitmap'[i].ents[l] \in FlyingFor(l)'
    <3>1. bitmap[i].ents[l] \in FlyingFor(l) /\ entry'[bitmap[i].ents[l]].state = "inflight"
          /\ bitmap'[i].ents[l] = bitmap[i].ents[l]
      BY <1>5, <2>1, <2>2
    <3> QED  BY <3>1 DEF FlyingFor
  <2> QED  BY <1>1, <1>5, <2>1, <2>2
<1>6. \A i, j \in DOMAIN bitmap' : \A l :
          Unfinished(i, l)' /\ Unfinished(j, l)' /\ bitmap'[i].ents[l] = bitmap'[j].ents[l] => i = j
  <2>1. SUFFICES ASSUME NEW i \in DOMAIN bitmap', NEW j \in DOMAIN bitmap', NEW l,
                        Unfinished(i, l)', Unfinished(j, l)', bitmap'[i].ents[l] = bitmap'[j].ents[l]
                 PROVE  i = j
    OBVIOUS
  <2>2. Unfinished(i, l) /\ Unfinished(j, l) /\ bitmap[i].ents[l] = bitmap[j].ents[l]  BY <2>1
  <2> QED  BY <2>2 DEF SentInv
<1> QED  BY <1>2, <1>3, <1>4, <1>5, <1>6 DEF SentInv

\* A response of another request than a bitmap is waited for.
LEMMA SimpleWaited ==
    ASSUME IInv, back # <<>>, NEW m, m = Head(back), m.kind # "bitmap"
    PROVE  /\ m \in RspMsg /\ m.id \in Nat /\ m.kind \in Simple /\ m.data \in Int
           /\ RspTokens[m] = {<<Class(m.kind), m.id, m.line>>}
           /\ m.kind = "single" =>
                  Class(m.kind) = "single" /\ m.id \in single /\ m.line = reqs[m.id].line
           /\ m.kind # "single" =>
                  Class(m.kind) = "legacy" /\ m.id \in fromInside /\ m.line = reqs[m.id].line
<1>1. OwnerTyped /\ FlowInv /\ OwnerInv  BY Parts
<1>2. /\ m \in RspMsg /\ m.id \in Nat /\ m.kind \in Simple /\ m.data \in Int
      /\ RspTokens[m] = {<<Class(m.kind), m.id, m.line>>}
  <2>1. m \in RspMsg /\ m.kind # "bitmap"  BY <1>1, TailElements DEF OwnerTyped
  <2> QED  BY <2>1, Responses
<1>3. <<Class(m.kind), m.id, m.line>> \in Flow["back"] /\ Asked(<<Class(m.kind), m.id, m.line>>)
  <2>1. <<Class(m.kind), m.id, m.line>> \in Carried(RspTokens, back)
    <3>1. Carried(RspTokens, back) = RspTokens[m] \cup Carried(RspTokens, Tail(back))
      BY <1>1, TailCarried DEF OwnerTyped
    <3> QED  BY <1>2, <3>1
  <2> QED  BY <1>1, <2>1, FlowPlaces, Places DEF FlowInv
<1>4. /\ m.kind = "single" => Class(m.kind) = "single" /\ m.id \in single /\ m.line = reqs[m.id].line
      /\ m.kind # "single" => Class(m.kind) = "legacy" /\ m.id \in fromInside /\ m.line = reqs[m.id].line
  <2>1. m.kind \in {"single", "write", "partial"}  BY <1>2 DEF Simple
  <2>2. /\ <<Class(m.kind), m.id, m.line>>[1] = Class(m.kind)
        /\ <<Class(m.kind), m.id, m.line>>[2] = m.id
        /\ <<Class(m.kind), m.id, m.line>>[3] = m.line
    OBVIOUS
  <2>3. CASE m.kind = "single"
    <3>1. Class(m.kind) = "single"  BY <2>3, Classes
    <3> QED  BY <1>3, <2>2, <2>3, <3>1 DEF Asked
  <2>4. CASE m.kind # "single"
    <3>1. Class(m.kind) = "legacy"  BY <2>1, <2>4, Classes
    <3> QED  BY <1>3, <2>2, <2>4, <3>1 DEF Asked
  <2> QED  BY <2>3, <2>4
<1> QED  BY <1>2, <1>4

\* A response of another request than a bitmap.
LEMMA SimpleTaken ==
    ASSUME IInv, back # <<>>, Head(back).kind # "bitmap", back' = Tail(back),
           UNCHANGED <<wire, bitmap, reqs, toL1>>, UNCHANGED EngineFrame,
           IF Head(back).kind = "single"
           THEN fromInside' = fromInside /\ single' = single \ {Head(back).id}
           ELSE single' = single /\ fromInside' = fromInside \ {Head(back).id}
    PROVE  /\ OwnerTyped' /\ FlowInv' /\ OwnerInv'
           /\ Head(back) \in RspMsg /\ Head(back).data \in Int
           /\ IF Head(back).kind = "single" THEN Head(back).id \in single
                                            ELSE Head(back).id \in fromInside
<1>a. PICK m : m = Head(back)  OBVIOUS
<1>1. /\ OwnerTyped /\ FlowInv /\ OwnerInv
      /\ UNCHANGED <<ownerBatches, pendingSub, subReqs, pendingRsp, l2Queue, ownerL2Rsp, mem>>
  BY SameFrame
<1>2. /\ m \in RspMsg /\ m.id \in Nat /\ m.kind \in Simple /\ m.data \in Int
      /\ RspTokens[m] = {<<Class(m.kind), m.id, m.line>>}
      /\ m.kind = "single" =>
             Class(m.kind) = "single" /\ m.id \in single /\ m.line = reqs[m.id].line
      /\ m.kind # "single" =>
             Class(m.kind) = "legacy" /\ m.id \in fromInside /\ m.line = reqs[m.id].line
  BY <1>a, SimpleWaited
<1>5. \A p \in Place : \A t \in Flow[p] : Asked(t) /\ t \notin RspTokens[m] => Asked(t)'
  <2>1. SUFFICES ASSUME NEW p \in Place, NEW t \in Flow[p], Asked(t),
                        t # <<Class(m.kind), m.id, m.line>>
                 PROVE  Asked(t)'
    BY <1>2
  <2>2. t = <<t[1], t[2], t[3]>>  BY <1>1, Triples
  <2>3. CASE t[1] = "single"
    <3>1. t[2] \in single /\ t[3] = reqs[t[2]].line  BY <2>1, <2>3 DEF Asked
    <3>2. t[2] \in single'  BY <1>2, <1>a, <2>1, <2>2, <2>3, <3>1
    <3>3. t[3] = reqs'[t[2]].line  BY <3>1
    <3> QED  BY <2>3, <3>2, <3>3 DEF Asked
  <2>4. CASE t[1] = "legacy"
    <3>1. t[2] \in fromInside /\ t[3] = reqs[t[2]].line  BY <2>1, <2>4 DEF Asked
    <3>2. t[2] \in fromInside'  BY <1>2, <1>a, <2>1, <2>2, <2>4, <3>1
    <3>3. t[3] = reqs'[t[2]].line  BY <3>1
    <3> QED  BY <2>4, <3>2, <3>3 DEF Asked
  <2>5. CASE t[1] = "bitmap"
    <3>1. bitmap' = bitmap  OBVIOUS
    <3> QED  BY <2>1, <2>5, <3>1 DEF Asked
  <2> QED  BY <2>1, <2>3, <2>4, <2>5 DEF Asked
<1>6. FlowInv' /\ back' \in Seq(RspMsg) /\ Range(back') \subseteq Range(back)
  BY <1>1, <1>5, <1>a, ReceiveFlow
<1>7. OwnerTyped'  BY <1>1, <1>6 DEF OwnerTyped
<1>8. OwnerInv'
  <2>1. \A x \in Range(wire') : x.kind = "bitmap" =>
            x.id \in DOMAIN bitmap' /\ x.lines = DOMAIN bitmap'[x.id].ents /\ x.lines # {}
    BY <1>1 DEF OwnerInv
  <2> QED  BY <1>1, <1>6, <2>1, BooksKept
<1> QED  BY <1>2, <1>6, <1>7, <1>8, <1>a

LEMMA DataAdded ==
    ASSUME NEW e \in EntryRec, NEW d \in Int
    PROVE  /\ WithData(e, d) \in EntryRec /\ WithData(e, d).state = "ready"
           /\ WithData(e, d).line = e.line /\ WithData(e, d).epoch = e.epoch
           /\ WithData(e, d).waiters = e.waiters
  BY DEF WithData, EntryRec

\* The data of a line, a write or a part of a line come back.
LEMMA TakeSingleStep ==
    ASSUME IInv, TakeSingle, UNCHANGED EngineFrame
    PROVE  IInv'
<1>a. PICK id : id = Head(back).id  OBVIOUS
<1>b. PICK d : d = Head(back).data  OBVIOUS
<1>1. /\ back # <<>> /\ Head(back).kind = "single" /\ back' = Tail(back)
      /\ entry' = [entry EXCEPT ![id] = WithData(@, d)]
      /\ single' = single \ {id} /\ ready' = Queued(id)
      /\ UNCHANGED <<lines, epochs, uncacheable, pending, pendingBatch, batches, batchOrder, probes,
                     bitmap, fromInside, fills, outstandingReads, wire, reqs, toL1, top, l2Rsp>>
  BY <1>a, <1>b DEF TakeSingle, batchVars, l1Vars
<1>2. /\ RequestsTyped /\ OwnerTyped /\ CacheTyped /\ RequesterTyped /\ FlowInv /\ OwnerInv
      /\ SentInv /\ CacheInv /\ QueueInv /\ TableInv /\ WaitersInTable
      /\ RequestsTyped'
      /\ UNCHANGED <<ownerBatches, pendingSub, subReqs, pendingRsp, l2Queue, ownerL2Rsp, mem,
                     replica, generation>>
      /\ 0 \notin DOMAIN reqs /\ DOMAIN entry \subseteq DOMAIN reqs /\ DOMAIN reqs \subseteq Nat
      /\ toL1 \notin DOMAIN entry
  BY <1>1, SameFrame
<1>3. OwnerTyped' /\ FlowInv' /\ OwnerInv' /\ d \in Int /\ id \in single
  BY <1>1, <1>a, <1>b, SimpleTaken
<1>4. /\ id \in DOMAIN entry /\ entry[id].state = "inflight" /\ entry[id] \in EntryRec /\ id \in Nat
  BY <1>2, <1>3 DEF SentInv, Is, RequesterTyped
<1>5. /\ DOMAIN entry' = DOMAIN entry /\ entry'[id] \in EntryRec /\ entry'[id].state = "ready"
      /\ \A i \in DOMAIN entry : i # id => entry'[i] = entry[i]
      /\ \A i \in DOMAIN entry :
             /\ entry'[i].line = entry[i].line /\ entry'[i].epoch = entry[i].epoch
             /\ entry'[i].waiters = entry[i].waiters
  <2>1. DOMAIN entry' = DOMAIN entry /\ entry'[id] = WithData(entry[id], d)
        /\ \A i \in DOMAIN entry : i # id => entry'[i] = entry[i]
    BY <1>1, <1>4
  <2> QED  BY <1>3, <1>4, <2>1, DataAdded
<1>6. /\ ready' \in Seq(Nat) /\ IsInjective(ready') /\ Range(ready') = Range(ready) \cup {id}
  BY <1>1, <1>2, <1>4, QueuedReady DEF RequesterTyped, QueueInv
<1>7. RequesterTyped'
  <2>1. \A i \in DOMAIN entry' : entry'[i] \in EntryRec  BY <1>2, <1>5 DEF RequesterTyped
  <2> QED  BY <1>1, <1>2, <1>6, <2>1 DEF RequesterTyped
<1>8. CacheTyped'  BY <1>1, <1>2 DEF CacheTyped
<1>9. SentInv'
  <2>1. \A i \in single' : entry'[i].state = "inflight"
    <3>1. \A i \in single : i \in DOMAIN entry /\ entry[i].state = "inflight"
      BY <1>2 DEF SentInv, Is
    <3> QED  BY <1>1, <1>5, <3>1
  <2>2. \A i \in DOMAIN entry' : i \in DOMAIN bitmap => entry'[i].state \in {"inflight", "ready"}
    BY <1>2, <1>5 DEF SentInv
  <2>3. \A i \in DOMAIN bitmap' : \A l : Unfinished(i, l)' =>
            Unfinished(i, l) /\ entry'[bitmap[i].ents[l]].state = "inflight"
    <3>1. \A i, l : Unfinished(i, l)' <=> Unfinished(i, l)  BY <1>1 DEF Unfinished
    <3>2. ASSUME NEW i \in DOMAIN bitmap, NEW l, Unfinished(i, l)
          PROVE  entry'[bitmap[i].ents[l]].state = "inflight"
      <4>1. bitmap[i].ents[l] \in FlyingFor(l)  BY <1>2, <3>2 DEF SentInv
      <4> QED  BY <1>3, <1>5, <4>1 DEF FlyingFor
    <3> QED  BY <1>1, <3>1, <3>2
  <2> QED  BY <1>1, <1>2, <1>5, <2>1, <2>2, <2>3, SentShrinks
<1>10. CacheInv'  BY <1>1, <1>2, <1>4, <1>5, CacheKept
<1>11. QueueInv'
  <2>1. \A p \in DOMAIN batches' : \A l \in DOMAIN batches'[p] :
            batches'[p][l] \in CollectedFor(l)' /\ Page(l) = p
    BY <1>1, <1>2, <1>4, <1>5, BatchesKept
  <2>2. \A i \in Range(pendingBatch') : Is(i, "pending")'
    BY <1>1, <1>2, <1>4, <1>5 DEF QueueInv, Is
  <2>3. \A i \in Range(ready') : Is(i, "ready")'  BY <1>2, <1>4, <1>5, <1>6 DEF QueueInv, Is
  <2>4. \A i \in DOMAIN entry' : entry'[i].state # "ready" => entry'[i].data = NoData
    BY <1>2, <1>5 DEF QueueInv
  <2> QED  BY <1>1, <1>2, <1>6, <2>1, <2>2, <2>3, <2>4 DEF QueueInv
<1>12. TableInv' /\ WaitersInTable'  BY <1>1, <1>2, <1>5, TableKept
<1> QED  BY <1>2, <1>3, <1>7, <1>8, <1>9, <1>10, <1>11, <1>12 DEF IInv, Typed

LEMMA TakeLegacyStep ==
    ASSUME IInv, TakeLegacy, UNCHANGED EngineFrame
    PROVE  IInv'
<1>1. /\ back # <<>> /\ Head(back).kind \in {"write", "partial"} /\ back' = Tail(back)
      /\ fromInside' = fromInside \ {Head(back).id}
      /\ UNCHANGED <<entry, lines, epochs, uncacheable, pending, pendingBatch, batches, batchOrder,
                     probes, single, bitmap, ready, fills, outstandingReads, wire, reqs, toL1, top,
                     l2Rsp>>
  BY DEF TakeLegacy, lineVars, batchVars
<1>2. /\ RequestsTyped /\ OwnerTyped /\ CacheTyped /\ RequesterTyped /\ FlowInv /\ OwnerInv
      /\ SentInv /\ CacheInv /\ QueueInv /\ TableInv /\ WaitersInTable
      /\ RequestsTyped'
      /\ UNCHANGED <<ownerBatches, pendingSub, subReqs, pendingRsp, l2Queue, ownerL2Rsp, mem,
                     replica, generation>>
      /\ 0 \notin DOMAIN reqs
  BY <1>1, SameFrame
<1>3. OwnerTyped' /\ FlowInv' /\ OwnerInv'  BY <1>1, SimpleTaken
<1>4. RequesterTyped'  BY <1>1, <1>2 DEF RequesterTyped
<1>5. CacheTyped'  BY <1>1, <1>2 DEF CacheTyped
<1>6. SentInv'
  <2>1. \A i \in single' : entry'[i].state = "inflight"  BY <1>1, <1>2 DEF SentInv, Is
  <2>2. \A i \in DOMAIN entry' : i \in DOMAIN bitmap => entry'[i].state \in {"inflight", "ready"}
    BY <1>1, <1>2 DEF SentInv
  <2>3. \A i \in DOMAIN bitmap' : \A l : Unfinished(i, l)' =>
            Unfinished(i, l) /\ entry'[bitmap[i].ents[l]].state = "inflight"
    <3>1. \A i, l : Unfinished(i, l)' <=> Unfinished(i, l)  BY <1>1 DEF Unfinished
    <3>2. ASSUME NEW i \in DOMAIN bitmap, NEW l, Unfinished(i, l)
          PROVE  entry'[bitmap[i].ents[l]].state = "inflight"
      <4>1. bitmap[i].ents[l] \in FlyingFor(l)  BY <1>2, <3>2 DEF SentInv
      <4> QED  BY <1>1, <4>1 DEF FlyingFor
    <3> QED  BY <1>1, <3>1, <3>2
  <2> QED  BY <1>1, <1>2, <2>1, <2>2, <2>3, SentShrinks
<1>7. CacheInv'  BY <1>1, <1>2, CacheKept
<1>8. QueueInv'
  <2>1. \A x : CollectedFor(x)' = CollectedFor(x)  BY <1>1 DEF CollectedFor
  <2>2. \A i, s : Is(i, s)' <=> Is(i, s)  BY <1>1 DEF Is
  <2> QED  BY <1>1, <1>2, <2>1, <2>2 DEF QueueInv
<1>9. TableInv' /\ WaitersInTable'  BY <1>1, <1>2, TableKept
<1> QED  BY <1>2, <1>3, <1>4, <1>5, <1>6, <1>7, <1>8, <1>9 DEF IInv, Typed

\* Two queues without a common element are one queue without repetitions.
LEMMA InjectiveConcat ==
    ASSUME NEW S, NEW s \in Seq(S), NEW t \in Seq(S), IsInjective(s), IsInjective(t),
           Range(s) \cap Range(t) = {}
    PROVE  /\ s \o t \in Seq(S) /\ IsInjective(s \o t)
           /\ Range(s \o t) = Range(s) \cup Range(t)
<1>a. PICK r : r = s \o t  OBVIOUS
<1>b. PICK n : n = Len(s)  OBVIOUS
<1>c. PICK k : k = Len(t)  OBVIOUS
<1>1. /\ r \in Seq(S) /\ DOMAIN r = 1 .. n + k /\ DOMAIN s = 1 .. n /\ DOMAIN t = 1 .. k
      /\ n \in Nat /\ k \in Nat
      /\ (\A i \in 1 .. n : r[i] = s[i]) /\ (\A i \in 1 .. k : r[n + i] = t[i])
  BY <1>a, <1>b, <1>c, SeqType, ConcatElements
<1>2. \A i \in 1 .. n + k : i \in 1 .. n \/ (i - n \in 1 .. k /\ n + (i - n) = i)  BY <1>1
<1>3. \A i \in 1 .. n + k : i \notin 1 .. n => r[i] = t[i - n] /\ i - n \in 1 .. k
  <2>1. SUFFICES ASSUME NEW i \in 1 .. n + k, i \notin 1 .. n
                 PROVE  r[i] = t[i - n] /\ i - n \in 1 .. k
    OBVIOUS
  <2>2. i - n \in 1 .. k /\ n + (i - n) = i  BY <1>2, <2>1
  <2>3. r[n + (i - n)] = t[i - n]  BY <1>1, <2>2
  <2> QED  BY <2>2, <2>3
<1>4. /\ \A i \in 1 .. n : s[i] \in Range(s)
      /\ \A i \in 1 .. k : t[i] \in Range(t)
  BY <1>1, Zenon DEF Range
<1>5. \A i \in 1 .. n, j \in 1 .. k : s[i] # t[j]  BY <1>4
<1>6. IsInjective(r)
  <2>1. SUFFICES ASSUME NEW i \in 1 .. n + k, NEW j \in 1 .. n + k, r[i] = r[j] PROVE i = j
    BY <1>1 DEF IsInjective
  <2>2. CASE i \in 1 .. n /\ j \in 1 .. n
    <3>1. s[i] = s[j]  BY <1>1, <2>1, <2>2
    <3> QED  BY <1>1, <2>2, <3>1 DEF IsInjective
  <2>3. CASE i \in 1 .. n /\ j \notin 1 .. n  BY <1>1, <1>3, <1>5, <2>1, <2>3
  <2>4. CASE i \notin 1 .. n /\ j \in 1 .. n  BY <1>1, <1>3, <1>5, <2>1, <2>4
  <2>5. CASE i \notin 1 .. n /\ j \notin 1 .. n
    <3>1. t[i - n] = t[j - n] /\ i - n \in 1 .. k /\ j - n \in 1 .. k  BY <1>3, <2>1, <2>5
    <3>2. i - n = j - n  BY <1>1, <3>1 DEF IsInjective
    <3> QED  BY <1>1, <3>2
  <2> QED  BY <2>2, <2>3, <2>4, <2>5
<1>7. Range(r) = {r[i] : i \in 1 .. n + k}  BY <1>1, Zenon DEF Range
<1>8. Range(r) \subseteq Range(s) \cup Range(t)  BY <1>1, <1>3, <1>4, <1>7
<1>9. Range(s) \subseteq Range(r)
  <2>1. \A i \in 1 .. n : i \in 1 .. n + k /\ r[i] = s[i]  BY <1>1
  <2>2. Range(s) = {s[i] : i \in 1 .. n}  BY <1>1, Zenon DEF Range
  <2> QED  BY <1>7, <2>1, <2>2
<1>10. Range(t) \subseteq Range(r)
  <2>1. \A i \in 1 .. k : n + i \in 1 .. n + k /\ r[n + i] = t[i]
    <3>1. \A i \in 1 .. k : n + i \in 1 .. n + k
      <4>1. n \in Nat /\ k \in Nat  BY <1>1
      <4> QED  BY <4>1
    <3> QED  BY <1>1, <3>1
  <2>2. Range(t) = {t[i] : i \in 1 .. k}  BY <1>1, Zenon DEF Range
  <2> QED  BY <1>7, <2>1, <2>2
<1> QED  BY <1>a, <1>1, <1>6, <1>8, <1>9, <1>10

\* The entries of the lines that a response of a bitmap request brings.
LEMMA BitmapTaken ==
    ASSUME IInv, back # <<>>, Head(back).kind = "bitmap"
    PROVE  /\ Head(back) \in RspMsg /\ Head(back).id \in Nat /\ Head(back).data \in LineData
           /\ DOMAIN Head(back).data \in SUBSET Line /\ DOMAIN Head(back).data # {}
           /\ RspTokens[Head(back)] = {<<"bitmap", Head(back).id, l>> : l \in DOMAIN Head(back).data}
           /\ RspTokens[Head(back)] \subseteq Flow["back"]
           /\ Head(back).id \in DOMAIN bitmap
           /\ \A l \in DOMAIN Head(back).data :
                  /\ Unfinished(Head(back).id, l)
                  /\ bitmap[Head(back).id].ents[l] \in FlyingFor(l)
<1>a. PICK m : m = Head(back)  OBVIOUS
<1>1. OwnerTyped /\ FlowInv /\ OwnerInv /\ SentInv  BY Parts
<1>2. m \in RspMsg /\ m \in Range(back)  BY <1>1, <1>a, TailElements, TailRange DEF OwnerTyped
<1>3. /\ m.kind = "bitmap" /\ m.id \in Nat /\ m.data \in LineData /\ DOMAIN m.data \in SUBSET Line
      /\ RspTokens[m] = {<<"bitmap", m.id, l>> : l \in DOMAIN m.data}
  BY <1>2, <1>a, Responses
<1>4. DOMAIN m.data # {}  BY <1>1, <1>2, <1>3 DEF OwnerInv
<1>5. RspTokens[m] \subseteq Flow["back"]
  <2>1. Carried(RspTokens, back) = RspTokens[m] \cup Carried(RspTokens, Tail(back))
    BY <1>1, <1>a, TailCarried DEF OwnerTyped
  <2> QED  BY <2>1, FlowPlaces
<1>6. ASSUME NEW l \in DOMAIN m.data
      PROVE  m.id \in DOMAIN bitmap /\ Unfinished(m.id, l)
  <2>1. <<"bitmap", m.id, l>> \in Flow["back"]  BY <1>3, <1>5
  <2>2. Asked(<<"bitmap", m.id, l>>)  BY <1>1, <2>1, Places DEF FlowInv
  <2>3. <<"bitmap", m.id, l>>[1] = "bitmap" /\ <<"bitmap", m.id, l>>[2] = m.id
        /\ <<"bitmap", m.id, l>>[3] = l
    OBVIOUS
  <2> QED  BY <2>2, <2>3 DEF Asked, Unfinished
<1>7. m.id \in DOMAIN bitmap  BY <1>4, <1>6
<1>8. \A l \in DOMAIN m.data : bitmap[m.id].ents[l] \in FlyingFor(l)
  BY <1>1, <1>6, <1>7 DEF SentInv
<1> QED  BY <1>a, <1>2, <1>3, <1>4, <1>5, <1>6, <1>7, <1>8

\* The owner's side and the requester's books of what it has been sent.
LEMMA BitmapReceived ==
    ASSUME IInv, back # <<>>, Head(back).kind = "bitmap", back' = Tail(back),
           UNCHANGED EngineFrame, UNCHANGED <<wire, single, fromInside, reqs, toL1>>,
           NEW id, id = Head(back).id, NEW S, S = DOMAIN Head(back).data,
           DOMAIN bitmap' \subseteq DOMAIN bitmap,
           \A i \in DOMAIN bitmap : i # id => i \in DOMAIN bitmap' /\ bitmap'[i] = bitmap[i],
           id \in DOMAIN bitmap' =>
               bitmap'[id].ents = bitmap[id].ents /\ bitmap'[id].got = bitmap[id].got \cup S,
           id \notin DOMAIN bitmap' => DOMAIN bitmap[id].ents = bitmap[id].got \cup S
    PROVE  /\ OwnerTyped' /\ FlowInv' /\ OwnerInv'
           /\ \A i \in DOMAIN bitmap' :
                  /\ bitmap'[i].ents = bitmap[i].ents
                  /\ \A l : Unfinished(i, l)' => Unfinished(i, l) /\ (i = id => l \notin S)
<1>1. /\ OwnerTyped /\ FlowInv /\ OwnerInv
      /\ UNCHANGED <<ownerBatches, pendingSub, subReqs, pendingRsp, l2Queue, ownerL2Rsp, mem>>
  BY SameFrame
<1>2. /\ RspTokens[Head(back)] = {<<"bitmap", id, l>> : l \in S} /\ S # {}
      /\ RspTokens[Head(back)] \subseteq Flow["back"]
      /\ id \in DOMAIN bitmap
  BY BitmapTaken
<1>3. ASSUME NEW p \in Place, NEW t \in Flow[p], Asked(t), t \notin RspTokens[Head(back)]
      PROVE  Asked(t)'
  <2>1. t = <<t[1], t[2], t[3]>>  BY <1>1, Triples
  <2>2. CASE t[1] = "bitmap" /\ t[2] = id
    <3>1. t[3] \notin S  BY <1>2, <1>3, <2>1, <2>2
    <3>2. t[3] \in DOMAIN bitmap[id].ents \ bitmap[id].got  BY <1>3, <2>2 DEF Asked
    <3>3. id \in DOMAIN bitmap'  BY <3>1, <3>2
    <3>4. t[3] \in DOMAIN bitmap'[id].ents \ bitmap'[id].got  BY <3>1, <3>2, <3>3
    <3> QED  BY <2>2, <3>3, <3>4 DEF Asked
  <2>3. CASE t[1] = "bitmap" /\ t[2] # id
    <3>1. t[2] \in DOMAIN bitmap /\ t[3] \in DOMAIN bitmap[t[2]].ents \ bitmap[t[2]].got
      BY <1>3, <2>3 DEF Asked
    <3>2. t[2] \in DOMAIN bitmap' /\ t[3] \in DOMAIN bitmap'[t[2]].ents \ bitmap'[t[2]].got
      BY <2>3, <3>1
    <3> QED  BY <2>3, <3>2 DEF Asked
  <2>4. CASE t[1] # "bitmap"
    <3>1. single' = single /\ fromInside' = fromInside /\ reqs' = reqs  OBVIOUS
    <3> QED  BY <1>3, <2>4, <3>1 DEF Asked
  <2> QED  BY <2>2, <2>3, <2>4
<1>4. FlowInv' /\ back' \in Seq(RspMsg) /\ Range(back') \subseteq Range(back)
  BY <1>1, <1>3, ReceiveFlow
<1>5. OwnerTyped'  BY <1>1, <1>4 DEF OwnerTyped
<1>6. OwnerInv'
  <2>1. ASSUME NEW x \in Range(wire'), x.kind = "bitmap"
        PROVE  x.id \in DOMAIN bitmap' /\ x.lines = DOMAIN bitmap'[x.id].ents /\ x.lines # {}
    <3>1. /\ x \in Range(wire) /\ x.id \in DOMAIN bitmap /\ x.lines = DOMAIN bitmap[x.id].ents
          /\ x.lines # {}
      BY <1>1, <2>1 DEF OwnerInv
    <3>2. x.id # id
      <4>1. SUFFICES ASSUME x.id = id PROVE FALSE  OBVIOUS
      <4>2. PICK l : l \in S  BY <1>2
      <4>3. <<"bitmap", id, l>> \in Flow["back"]  BY <1>2, <4>2
      <4>4. Asked(<<"bitmap", id, l>>)  BY <1>1, <4>3, Places DEF FlowInv
      <4>5. l \in x.lines
        <5>1. <<"bitmap", id, l>>[1] = "bitmap" /\ <<"bitmap", id, l>>[2] = id
              /\ <<"bitmap", id, l>>[3] = l
          OBVIOUS
        <5> QED  BY <3>1, <4>1, <4>4, <5>1 DEF Asked
      <4>6. <<"bitmap", id, l>> \in Flow["wire"]
        <5>1. PICK i \in DOMAIN wire : wire[i] = x  BY <3>1 DEF Range
        <5>2. x \in ReqMsg  BY <1>1, <5>1, SeqType DEF OwnerTyped
        <5>3. <<"bitmap", id, l>> \in ReqTokens[x]  BY <2>1, <4>1, <4>5, <5>2, Requests
        <5> QED  BY <5>1, <5>3, InCarried, FlowPlaces
      <4> QED  BY <1>1, <4>3, <4>6, Places DEF FlowInv, Disjoint
    <3> QED  BY <3>1, <3>2
  <2> QED  BY <1>1, <1>4, <2>1, BooksKept
<1>7. ASSUME NEW i \in DOMAIN bitmap'
      PROVE  /\ bitmap'[i].ents = bitmap[i].ents
             /\ \A l : Unfinished(i, l)' => Unfinished(i, l) /\ (i = id => l \notin S)
  <2>1. CASE i = id  BY <1>7, <2>1 DEF Unfinished
  <2>2. CASE i # id  BY <1>7, <2>2 DEF Unfinished
  <2> QED  BY <2>1, <2>2
<1> QED  BY <1>4, <1>5, <1>6, <1>7

\* The entries that get data become ready in the order of their lines.
LEMMA BecomeReady ==
    ASSUME ready \in Seq(Nat), IsInjective(ready), NEW S \in SUBSET Line, NEW ids, DOMAIN ids = S,
           \A l \in S : ids[l] \in Nat /\ ids[l] \notin Range(ready),
           \A l, k \in S : ids[l] = ids[k] => l = k,
           NEW order \in Ascending({l \in DOMAIN ids : ids[l] \notin Range(ready)}),
           ready' = ready \o [n \in DOMAIN order |-> ids[order[n]]]
    PROVE  ready' \in Seq(Nat) /\ IsInjective(ready') /\ Range(ready') = Range(ready) \cup Range(ids)
<1>a. PICK t : t = [n \in DOMAIN order |-> ids[order[n]]]  OBVIOUS
<1>1. {l \in DOMAIN ids : ids[l] \notin Range(ready)} = S  OBVIOUS
<1>2. /\ order \in Seq(S) /\ IsInjective(order) /\ Range(order) = S
      /\ DOMAIN order = 1 .. Len(order) /\ Len(order) \in Nat
      /\ \A n \in 1 .. Len(order) : order[n] \in S
  BY <1>1, Order, SeqType
<1>3. DOMAIN t = 1 .. Len(order) /\ \A n \in 1 .. Len(order) : t[n] = ids[order[n]]
  BY <1>2, <1>a
<1>4. t \in Seq(Nat)
  <2>1. \A n \in 1 .. Len(order) : ids[order[n]] \in Nat  BY <1>2
  <2>2. t = [n \in 1 .. Len(order) |-> ids[order[n]]]  BY <1>2, <1>a
  <2> QED  BY <1>2, <2>1, <2>2
<1>5. IsInjective(t)
  <2>1. SUFFICES ASSUME NEW n \in 1 .. Len(order), NEW k \in 1 .. Len(order), t[n] = t[k] PROVE n = k
    BY <1>3 DEF IsInjective
  <2>2. order[n] = order[k]  BY <1>2, <1>3, <2>1
  <2> QED  BY <1>2, <2>2 DEF IsInjective
<1>6. Range(t) = Range(ids)
  <2>1. Range(t) = {t[n] : n \in 1 .. Len(order)}  BY <1>3, Zenon DEF Range
  <2>2. Range(ids) = {ids[l] : l \in S}  BY Zenon DEF Range
  <2>3. S = {order[n] : n \in 1 .. Len(order)}  BY <1>2, Zenon DEF Range
  <2>4. Range(t) \subseteq Range(ids)  BY <1>2, <1>3, <2>1, <2>2
  <2>5. Range(ids) \subseteq Range(t)
    <3>1. SUFFICES ASSUME NEW l \in S PROVE ids[l] \in Range(t)  BY <2>2
    <3>2. PICK n \in 1 .. Len(order) : order[n] = l  BY <2>3
    <3> QED  BY <1>3, <2>1, <3>2
  <2> QED  BY <2>4, <2>5
<1>7. Range(ready) \cap Range(t) = {}
  <2>1. Range(ids) = {ids[l] : l \in S}  BY Zenon DEF Range
  <2> QED  BY <1>6, <2>1
<1>8. /\ ready \o t \in Seq(Nat) /\ IsInjective(ready \o t)
      /\ Range(ready \o t) = Range(ready) \cup Range(t)
  BY <1>4, <1>5, <1>7, InjectiveConcat
<1>9. ready' = ready \o t  BY <1>a
<1> QED  BY <1>6, <1>8, <1>9

\* The data of some lines of a batch come back.
LEMMA TakeBitmapStep ==
    ASSUME IInv, TakeBitmap, UNCHANGED EngineFrame
    PROVE  IInv'
<1>a. PICK id : id = Head(back).id  OBVIOUS
<1>b. PICK data : data = Head(back).data  OBVIOUS
<1>c. PICK b : b = bitmap[id]  OBVIOUS
<1>d. PICK ids : ids = [l \in DOMAIN data |-> b.ents[l]]  OBVIOUS
<1>e. PICK got : got = b.got \cup DOMAIN data  OBVIOUS
<1>1. /\ back # <<>> /\ Head(back).kind = "bitmap" /\ back' = Tail(back)
      /\ entry' = [i \in DOMAIN entry |-> IF i \in Range(ids)
                      THEN WithData(entry[i], data[entry[i].line]) ELSE entry[i]]
      /\ QueuedInOrder(ids)
      /\ bitmap' = IF got = DOMAIN b.ents THEN Without(bitmap, id)
                   ELSE [bitmap EXCEPT ![id].got = got]
      /\ UNCHANGED <<lines, epochs, uncacheable, pending, pendingBatch, batches, batchOrder, probes,
                     single, fromInside, fills, outstandingReads, wire, reqs, toL1, top, l2Rsp>>
  <2>1. entry' = [i \in DOMAIN entry |-> IF i \in Range(ids)
                     THEN WithData(entry[i], data[entry[i].line]) ELSE entry[i]]
    BY <1>a, <1>b, <1>c, <1>d DEF TakeBitmap
  <2>2. QueuedInOrder(ids)
    <3>1. QueuedInOrder([l \in DOMAIN Head(back).data |-> bitmap[Head(back).id].ents[l]])
      BY Zenon DEF TakeBitmap
    <3>2. ids = [l \in DOMAIN Head(back).data |-> bitmap[Head(back).id].ents[l]]
      BY <1>a, <1>b, <1>c, <1>d
    <3> QED  BY <3>1, <3>2
  <2>3. bitmap' = IF got = DOMAIN b.ents THEN Without(bitmap, id)
                  ELSE [bitmap EXCEPT ![id].got = got]
    BY <1>a, <1>b, <1>c, <1>e DEF TakeBitmap
  <2> QED  BY <2>1, <2>2, <2>3, Zenon DEF TakeBitmap, batchVars, l1Vars
<1>2. /\ RequestsTyped /\ OwnerTyped /\ CacheTyped /\ RequesterTyped /\ FlowInv /\ OwnerInv
      /\ SentInv /\ CacheInv /\ QueueInv /\ TableInv /\ WaitersInTable
      /\ RequestsTyped'
      /\ UNCHANGED <<ownerBatches, pendingSub, subReqs, pendingRsp, l2Queue, ownerL2Rsp, mem,
                     replica, generation>>
      /\ 0 \notin DOMAIN reqs /\ DOMAIN entry \subseteq DOMAIN reqs /\ DOMAIN reqs \subseteq Nat
      /\ toL1 \notin DOMAIN entry
  BY <1>1, SameFrame
<1>3. /\ data \in LineData /\ DOMAIN data \in SUBSET Line /\ id \in DOMAIN bitmap
      /\ \A l \in DOMAIN data : Unfinished(id, l) /\ bitmap[id].ents[l] \in FlyingFor(l)
  BY <1>1, <1>2, <1>a, <1>b, BitmapTaken
<1>4. /\ DOMAIN ids = DOMAIN data
      /\ \A l \in DOMAIN data :
             /\ ids[l] = bitmap[id].ents[l] /\ ids[l] \in DOMAIN entry /\ entry[ids[l]].line = l
             /\ entry[ids[l]].state = "inflight" /\ ids[l] \notin single
      /\ \A l \in DOMAIN data : data[l] \in Int
  <2>1. \A l \in DOMAIN data : data[l] \in Int  BY <1>3 DEF LineData
  <2> QED  BY <1>3, <1>c, <1>d, <2>1 DEF FlyingFor
<1>5. /\ \A i \in Range(ids) : /\ i \in DOMAIN entry /\ entry[i].state = "inflight" /\ i \notin single
                               /\ entry[i].line \in DOMAIN data /\ ids[entry[i].line] = i
      /\ \A l \in DOMAIN data : ids[l] \in Range(ids)
  <2>1. Range(ids) = {ids[l] : l \in DOMAIN data}  BY <1>4, Zenon DEF Range
  <2> QED  BY <1>4, <2>1
<1>6. /\ DOMAIN entry' = DOMAIN entry
      /\ \A i \in DOMAIN entry : i \notin Range(ids) => entry'[i] = entry[i]
      /\ \A i \in Range(ids) : entry'[i] \in EntryRec /\ entry'[i].state = "ready"
      /\ \A i \in DOMAIN entry :
             /\ entry'[i].line = entry[i].line /\ entry'[i].epoch = entry[i].epoch
             /\ entry'[i].waiters = entry[i].waiters
  <2>1. /\ DOMAIN entry' = DOMAIN entry
        /\ \A i \in DOMAIN entry : i \notin Range(ids) => entry'[i] = entry[i]
    BY <1>1
  <2>2. ASSUME NEW i \in Range(ids)
        PROVE  /\ entry'[i] \in EntryRec /\ entry'[i].state = "ready"
               /\ entry'[i].line = entry[i].line /\ entry'[i].epoch = entry[i].epoch
               /\ entry'[i].waiters = entry[i].waiters
    <3>a. PICK d : d = data[entry[i].line]  OBVIOUS
    <3>1. entry[i] \in EntryRec /\ d \in Int  BY <1>2, <1>4, <1>5, <3>a DEF RequesterTyped
    <3>2. entry'[i] = WithData(entry[i], d)  BY <1>1, <1>5, <3>a
    <3> QED  BY <3>1, <3>2, DataAdded
  <2> QED  BY <2>1, <2>2
<1>7. /\ ready' \in Seq(Nat) /\ IsInjective(ready') /\ Range(ready') = Range(ready) \cup Range(ids)
  <2>1. PICK order \in Ascending({l \in DOMAIN ids : ids[l] \notin Range(ready)}) :
            ready' = ready \o [n \in DOMAIN order |-> ids[order[n]]]
    BY <1>1, Zenon DEF QueuedInOrder
  <2>2. ready \in Seq(Nat) /\ IsInjective(ready)  BY <1>2 DEF RequesterTyped, QueueInv
  <2>3. \A l \in DOMAIN data : ids[l] \in Nat /\ ids[l] \notin Range(ready)
    BY <1>2, <1>4 DEF QueueInv, Is
  <2>4. \A l, k \in DOMAIN data : ids[l] = ids[k] => l = k  BY <1>4
  <2> QED  BY <1>3, <1>4, <2>1, <2>2, <2>3, <2>4, BecomeReady
<1>8. /\ DOMAIN bitmap' \subseteq DOMAIN bitmap
      /\ \A i \in DOMAIN bitmap : i # id => i \in DOMAIN bitmap' /\ bitmap'[i] = bitmap[i]
      /\ id \in DOMAIN bitmap' => bitmap'[id].ents = bitmap[id].ents /\ bitmap'[id].got = got
      /\ id \notin DOMAIN bitmap' => DOMAIN bitmap[id].ents = got
  <2>1. CASE got = DOMAIN b.ents
    <3>1. bitmap' = Without(bitmap, id)  BY <1>1, <2>1
    <3>2. DOMAIN bitmap' = DOMAIN bitmap \ {id} /\ \A i \in DOMAIN bitmap : i # id => bitmap'[i] = bitmap[i]
      BY <3>1, WithoutElements
    <3> QED  BY <1>c, <2>1, <3>2
  <2>2. CASE got # DOMAIN b.ents
    <3>1. bitmap' = [bitmap EXCEPT ![id].got = got]  BY <1>1, <2>2
    <3>2. bitmap[id] \in [ents : LineIds, got : SUBSET Line]  BY <1>2, <1>3 DEF RequesterTyped
    <3>3. /\ DOMAIN bitmap' = DOMAIN bitmap
          /\ \A i \in DOMAIN bitmap : i # id => bitmap'[i] = bitmap[i]
          /\ bitmap'[id] = [bitmap[id] EXCEPT !.got = got]
      BY <1>3, <3>1
    <3>4. bitmap'[id].ents = bitmap[id].ents /\ bitmap'[id].got = got  BY <3>2, <3>3
    <3> QED  BY <1>3, <3>3, <3>4
  <2> QED  BY <2>1, <2>2
<1>9. /\ OwnerTyped' /\ FlowInv' /\ OwnerInv'
      /\ \A i \in DOMAIN bitmap' :
             /\ bitmap'[i].ents = bitmap[i].ents
             /\ \A l : Unfinished(i, l)' => Unfinished(i, l) /\ (i = id => l \notin DOMAIN data)
  <2>a. PICK S : S = DOMAIN Head(back).data  OBVIOUS
  <2>1. S = DOMAIN data /\ id = Head(back).id  BY <1>a, <1>b, <2>a
  <2>2. got = bitmap[id].got \cup S  BY <1>c, <1>e, <2>1
  <2>3. /\ back # <<>> /\ Head(back).kind = "bitmap" /\ back' = Tail(back)
        /\ UNCHANGED EngineFrame /\ UNCHANGED <<wire, single, fromInside, reqs, toL1>>
    BY <1>1, <1>a
  <2>4. /\ DOMAIN bitmap' \subseteq DOMAIN bitmap
        /\ \A i \in DOMAIN bitmap : i # id => i \in DOMAIN bitmap' /\ bitmap'[i] = bitmap[i]
        /\ id \in DOMAIN bitmap' =>
               bitmap'[id].ents = bitmap[id].ents /\ bitmap'[id].got = bitmap[id].got \cup S
        /\ id \notin DOMAIN bitmap' => DOMAIN bitmap[id].ents = bitmap[id].got \cup S
    BY <1>8, <2>2
  <2>5. /\ OwnerTyped' /\ FlowInv' /\ OwnerInv'
        /\ \A i \in DOMAIN bitmap' :
               /\ bitmap'[i].ents = bitmap[i].ents
               /\ \A l : Unfinished(i, l)' => Unfinished(i, l) /\ (i = id => l \notin S)
    BY <2>1, <2>3, <2>4, <2>a, BitmapReceived
  <2> QED  BY <2>1, <2>5
<1>10. RequesterTyped'
  <2>1. \A i \in DOMAIN entry' : entry'[i] \in EntryRec  BY <1>2, <1>6 DEF RequesterTyped
  <2>2. \A i \in DOMAIN bitmap' : bitmap'[i] \in [ents : LineIds, got : SUBSET Line]
    <3>1. \A i \in DOMAIN bitmap : bitmap[i] \in [ents : LineIds, got : SUBSET Line]
      BY <1>2 DEF RequesterTyped
    <3>2. got \in SUBSET Line  BY <1>3, <1>c, <1>e, <3>1
    <3>3. id \in DOMAIN bitmap' => bitmap'[id] \in [ents : LineIds, got : SUBSET Line]
      <4>1. ASSUME got # DOMAIN b.ents PROVE bitmap'[id] = [bitmap[id] EXCEPT !.got = got]
        BY <1>1, <1>3, <4>1
      <4>2. ASSUME got = DOMAIN b.ents PROVE id \notin DOMAIN bitmap'
        BY <1>1, <4>2, WithoutElements
      <4>3. bitmap[id] \in [ents : LineIds, got : SUBSET Line]  BY <1>3, <3>1
      <4>4. [bitmap[id] EXCEPT !.got = got] \in [ents : LineIds, got : SUBSET Line]
        BY <3>2, <4>3
      <4> QED  BY <4>1, <4>2, <4>4
    <3> QED  BY <1>8, <3>1, <3>3
  <2> QED  BY <1>1, <1>2, <1>7, <2>1, <2>2 DEF RequesterTyped
<1>11. CacheTyped'  BY <1>1, <1>2 DEF CacheTyped
<1>12. SentInv'
  <2>1. \A i \in single' : entry'[i].state = "inflight"
    <3>1. \A i \in single : i \in DOMAIN entry /\ entry[i].state = "inflight"
      BY <1>2 DEF SentInv, Is
    <3> QED  BY <1>1, <1>5, <1>6, <3>1
  <2>2. \A i \in DOMAIN entry' : i \in DOMAIN bitmap => entry'[i].state \in {"inflight", "ready"}
    BY <1>2, <1>6 DEF SentInv
  <2>3. ASSUME NEW i \in DOMAIN bitmap', NEW l, Unfinished(i, l)'
        PROVE  Unfinished(i, l) /\ entry'[bitmap[i].ents[l]].state = "inflight"
    <3>a. PICK j : j = bitmap[i].ents[l]  OBVIOUS
    <3>1. i \in DOMAIN bitmap /\ Unfinished(i, l) /\ (i = id => l \notin DOMAIN data)
      BY <1>8, <1>9, <2>3
    <3>2. j \in DOMAIN entry /\ entry[j].state = "inflight" /\ entry[j].line = l
      BY <1>2, <3>1, <3>a DEF SentInv, FlyingFor
    <3>3. j \notin Range(ids)
      <4>1. SUFFICES ASSUME j \in Range(ids) PROVE FALSE  OBVIOUS
      <4>2. l \in DOMAIN data /\ ids[l] = j  BY <1>5, <3>2, <4>1
      <4>3. Unfinished(id, l) /\ bitmap[id].ents[l] = j  BY <1>3, <1>4, <4>2
      <4>4. i = id  BY <1>2, <1>3, <3>1, <3>a, <4>3 DEF SentInv
      <4> QED  BY <3>1, <4>2, <4>4
    <3> QED  BY <1>6, <3>1, <3>2, <3>3, <3>a
  <2>4. /\ SentInv /\ UNCHANGED <<reqs, toL1>>
        /\ fromInside' \subseteq fromInside /\ single' \subseteq single
        /\ DOMAIN entry' = DOMAIN entry /\ \A i \in DOMAIN entry : entry'[i].line = entry[i].line
    BY <1>1, <1>2, <1>6
  <2>5. /\ DOMAIN bitmap' \subseteq DOMAIN bitmap
        /\ \A i \in DOMAIN bitmap' :
               /\ bitmap'[i].ents = bitmap[i].ents
               /\ \A l : Unfinished(i, l)' =>
                      Unfinished(i, l) /\ entry'[bitmap[i].ents[l]].state = "inflight"
    BY <1>8, <1>9, <2>3
  <2> QED  BY <2>1, <2>2, <2>4, <2>5, SentShrinks
<1>13. CacheInv'  BY <1>1, <1>2, <1>5, <1>6, CacheKept
<1>14. QueueInv'
  <2>1. \A p \in DOMAIN batches' : \A l \in DOMAIN batches'[p] :
            batches'[p][l] \in CollectedFor(l)' /\ Page(l) = p
    BY <1>1, <1>2, <1>5, <1>6, BatchesKept
  <2>2. \A i \in Range(pendingBatch') : Is(i, "pending")'
    BY <1>1, <1>2, <1>5, <1>6 DEF QueueInv, Is
  <2>3. \A i \in Range(ready') : Is(i, "ready")'
    BY <1>2, <1>5, <1>6, <1>7 DEF QueueInv, Is
  <2>4. \A i \in DOMAIN entry' : entry'[i].state # "ready" => entry'[i].data = NoData
    BY <1>2, <1>6 DEF QueueInv
  <2> QED  BY <1>1, <1>2, <1>7, <2>1, <2>2, <2>3, <2>4 DEF QueueInv
<1>15. TableInv' /\ WaitersInTable'  BY <1>1, <1>2, <1>6, TableKept
<1> QED  BY <1>2, <1>9, <1>10, <1>11, <1>12, <1>13, <1>14, <1>15 DEF IInv, Typed

\* An entry whose data are at hand changes, or is forgotten.
LEMMA ReadyMoves ==
    ASSUME IInv, UNCHANGED EngineFrame,
           UNCHANGED <<reqs, toL1, wire, back, single, bitmap, fromInside, pendingBatch, batches,
                       batchOrder, epochs, uncacheable>>,
           NEW id, Is(id, "ready"), DOMAIN entry' \subseteq DOMAIN entry,
           \A i \in DOMAIN entry : i # id => i \in DOMAIN entry' /\ entry'[i] = entry[i],
           id \in DOMAIN entry' => /\ entry'[id] \in EntryRec /\ entry'[id].state = "ready"
                                   /\ entry'[id].line = entry[id].line,
           ready' \in Seq(Nat), IsInjective(ready'),
           Range(ready') \subseteq DOMAIN entry', Range(ready') \subseteq Range(ready) \cup {id},
           DOMAIN lines' \subseteq DOMAIN lines, outstandingReads' \in Nat
    PROVE  RequestsTyped' /\ OwnerTyped' /\ FlowInv' /\ OwnerInv' /\ RequesterTyped' /\ SentInv' /\ QueueInv'
<1>1. /\ RequestsTyped /\ OwnerTyped /\ CacheTyped /\ RequesterTyped /\ FlowInv /\ OwnerInv
      /\ SentInv /\ CacheInv /\ QueueInv /\ TableInv /\ WaitersInTable
      /\ RequestsTyped'
      /\ UNCHANGED <<ownerBatches, pendingSub, subReqs, pendingRsp, l2Queue, ownerL2Rsp, mem,
                     replica, generation>>
      /\ 0 \notin DOMAIN reqs /\ DOMAIN entry \subseteq DOMAIN reqs /\ DOMAIN reqs \subseteq Nat
      /\ toL1 \notin DOMAIN entry
  BY SameFrame
<1>2. OwnerTyped' /\ FlowInv' /\ OwnerInv'  BY <1>1, OwnerSideKept DEF OwnerSide
<1>3. \A i \in DOMAIN entry : entry[i].state # "ready" => i \in DOMAIN entry' /\ entry'[i] = entry[i]
  BY DEF Is
<1>4. \A i \in DOMAIN entry' : /\ i \in DOMAIN entry
                               /\ \/ entry'[i] = entry[i]
                                  \/ /\ i = id /\ entry'[i] \in EntryRec /\ entry'[i].state = "ready"
                                     /\ entry'[i].line = entry[i].line
  OBVIOUS
<1>5. RequesterTyped'
  <2>1. \A i \in DOMAIN entry' : entry'[i] \in EntryRec  BY <1>1, <1>4 DEF RequesterTyped
  <2>2. DOMAIN lines' \subseteq Line \X Nat  BY <1>1 DEF RequesterTyped
  <2> QED  BY <1>1, <2>1, <2>2 DEF RequesterTyped
<1>6. SentInv'
  <2>1. \A i \in DOMAIN entry' : Known(i)' /\ reqs[i].op = "read" /\ entry'[i].line = reqs[i].line
    <3>1. \A i \in DOMAIN entry : Known(i) /\ reqs[i].op = "read" /\ entry[i].line = reqs[i].line
      BY <1>1 DEF SentInv
    <3>2. \A i : Known(i)' <=> Known(i)  BY DEF Known
    <3> QED  BY <1>4, <3>1, <3>2
  <2>2. \A i \in DOMAIN entry' : i \in DOMAIN bitmap => entry'[i].state \in {"inflight", "ready"}
    BY <1>1, <1>4 DEF SentInv
  <2> QED  BY <1>1, <1>3, <2>1, <2>2, SentKept
<1>7. QueueInv'
  <2>1. \A p \in DOMAIN batches' : \A l \in DOMAIN batches'[p] :
            batches'[p][l] \in CollectedFor(l)' /\ Page(l) = p
    BY <1>1, <1>3, BatchesKept
  <2>2. \A i \in Range(pendingBatch') : Is(i, "pending")'
    BY <1>1, <1>3 DEF QueueInv, Is
  <2>3. \A i \in Range(ready') : Is(i, "ready")'
    <3>1. \A i \in Range(ready) : entry[i].state = "ready"  BY <1>1 DEF QueueInv, Is
    <3>2. SUFFICES ASSUME NEW i \in Range(ready') PROVE i \in DOMAIN entry' /\ entry'[i].state = "ready"
      BY DEF Is
    <3> QED  BY <1>4, <3>1, <3>2 DEF Is
  <2>4. \A i \in DOMAIN entry' : entry'[i].state # "ready" => entry'[i].data = NoData
    BY <1>1, <1>4 DEF QueueInv
  <2> QED  BY <1>1, <2>1, <2>2, <2>3, <2>4 DEF QueueInv
<1> QED  BY <1>1, <1>2, <1>5, <1>6, <1>7

\* An entry without waiters is forgotten, or only its line is.
LEMMA LineRemoved ==
    ASSUME RequestsTyped, RequesterTyped, TableInv, WaitersInTable, NEW id \in DOMAIN entry,
           entry[id].waiters = <<>>, RemoveLine(id),
           UNCHANGED <<reqs, toL1, outstandingReads>>,
           DOMAIN entry' \subseteq DOMAIN entry,
           \A i \in DOMAIN entry : i # id => i \in DOMAIN entry',
           \A i \in DOMAIN entry' : /\ entry'[i].line = entry[i].line
                                    /\ entry'[i].epoch = entry[i].epoch
                                    /\ entry'[i].waiters = entry[i].waiters
    PROVE  TableInv' /\ WaitersInTable' /\ DOMAIN lines' \subseteq DOMAIN lines
<1>1. \A i \in DOMAIN entry' : i \in DOMAIN entry /\ Key(entry'[i]) = Key(entry[i])
  BY DEF Key
<1>2. Range(entry[id].waiters) = {}  BY DEF Range
<1>3. /\ \A k \in DOMAIN lines : lines[k] \in DOMAIN entry /\ Key(entry[lines[k]]) = k
      /\ \A i \in DOMAIN entry :
             /\ IsInjective(entry[i].waiters)
             /\ \A r \in Range(entry[i].waiters) :
                    /\ Known(r)
                    /\ \A j \in DOMAIN entry : r \in Range(entry[j].waiters) => i = j
      /\ outstandingReads = Cardinality(WaitingReads)
  BY DEF TableInv
<1>4. DOMAIN lines' \subseteq DOMAIN lines /\ \A k \in DOMAIN lines' : lines'[k] = lines[k] /\ lines[k] # id
  <2>1. CASE InTable(id)
    <3>1. lines' = Without(lines, Key(entry[id]))  BY <2>1 DEF RemoveLine
    <3>2. DOMAIN lines' = DOMAIN lines \ {Key(entry[id])} /\ \A k \in DOMAIN lines' : lines'[k] = lines[k]
      BY <3>1 DEF Without, Restrict
    <3> QED  BY <1>3, <3>2
  <2>2. CASE ~ InTable(id)
    <3>1. lines' = lines  BY <2>2 DEF RemoveLine
    <3>2. ASSUME NEW k \in DOMAIN lines, lines[k] = id PROVE FALSE
      <4>1. Key(entry[id]) = k  BY <1>3, <3>2
      <4> QED  BY <2>2, <3>2, <4>1 DEF InTable
    <3> QED  BY <3>1, <3>2
  <2> QED  BY <2>1, <2>2
<1>5. \A k \in DOMAIN lines : lines[k] # id => k \in DOMAIN lines'
  <2>1. CASE InTable(id)
    <3>1. DOMAIN lines' = DOMAIN lines \ {Key(entry[id])}
      BY <2>1, WithoutElements DEF RemoveLine
    <3>2. lines[Key(entry[id])] = id  BY <2>1 DEF InTable
    <3> QED  BY <3>1, <3>2
  <2>2. CASE ~ InTable(id)
    <3>1. lines' = lines  BY <2>2 DEF RemoveLine
    <3> QED  BY <3>1
  <2> QED  BY <2>1, <2>2
<1>6. \A k \in DOMAIN lines' : lines'[k] \in DOMAIN entry' /\ Key(entry'[lines'[k]]) = k
  BY <1>1, <1>3, <1>4
<1>7. WaitingReads' = WaitingReads
  <2>1. \A r : (\E i \in DOMAIN entry' : r \in Range(entry'[i].waiters))
                 <=> (\E i \in DOMAIN entry : r \in Range(entry[i].waiters))
    BY <1>2
  <2>2. \A r : r \in WaitingReads <=> \E i \in DOMAIN entry : r \in Range(entry[i].waiters)
    BY DEF WaitingReads
  <2>3. \A r : r \in WaitingReads' <=> \E i \in DOMAIN entry' : r \in Range(entry'[i].waiters)
    BY DEF WaitingReads
  <2> QED  BY <2>1, <2>2, <2>3
<1>8. TableInv'
  <2>1. \A i : Known(i)' <=> Known(i)  BY DEF Known
  <2>2. outstandingReads' = Cardinality(WaitingReads')  BY <1>3, <1>7
  <2>3. \A i \in DOMAIN entry' :
            /\ IsInjective(entry'[i].waiters)
            /\ \A r \in Range(entry'[i].waiters) :
                   /\ Known(r)'
                   /\ \A j \in DOMAIN entry' : r \in Range(entry'[j].waiters) => i = j
    BY <1>1, <1>3, <2>1
  <2> QED  BY <1>6, <2>2, <2>3 DEF TableInv
<1>9. WaitersInTable'
  <2>1. SUFFICES ASSUME Exact, NEW i \in DOMAIN entry', entry'[i].waiters # <<>> PROVE InTable(i)'
    BY DEF WaitersInTable, Exact
  <2>2. InTable(i) /\ i # id  BY <1>1, <2>1 DEF WaitersInTable
  <2>3. Key(entry[i]) \in DOMAIN lines' /\ lines'[Key(entry[i])] = i
    BY <1>4, <1>5, <2>2 DEF InTable
  <2> QED  BY <1>1, <2>1, <2>3 DEF InTable
<1> QED  BY <1>4, <1>8, <1>9

\* A waiter gets its answer.
LEMMA WaiterLeaves ==
    ASSUME NEW e \in EntryRec, NEW ws \in Seq(Nat)
    PROVE  /\ [e EXCEPT !.waiters = ws] \in EntryRec
           /\ [e EXCEPT !.waiters = ws].waiters = ws
           /\ [e EXCEPT !.waiters = ws].line = e.line
           /\ [e EXCEPT !.waiters = ws].epoch = e.epoch
           /\ [e EXCEPT !.waiters = ws].state = e.state
           /\ [e EXCEPT !.waiters = ws].fill = e.fill
  BY DEF EntryRec

LEMMA RespondOneStep ==
    ASSUME IInv, RespondOne, UNCHANGED EngineFrame
    PROVE  IInv'
<1>a. PICK id : id = Head(ready)  OBVIOUS
<1>b. PICK ws : ws = entry[id].waiters  OBVIOUS
<1>1. /\ ready # <<>> /\ ws # <<>>
      /\ entry' = [entry EXCEPT ![id].waiters = Tail(ws)]
      /\ outstandingReads' = outstandingReads - 1
      /\ UNCHANGED <<lines, epochs, uncacheable, pending, pendingBatch, batches, batchOrder, probes,
                     single, bitmap, fromInside, ready, fills, wire, back, reqs, toL1, top, l2Rsp>>
  BY <1>a, <1>b DEF RespondOne, batchVars, flightVars
<1>2. /\ RequestsTyped /\ OwnerTyped /\ CacheTyped /\ RequesterTyped /\ FlowInv /\ OwnerInv
      /\ SentInv /\ CacheInv /\ QueueInv /\ TableInv /\ WaitersInTable
      /\ RequestsTyped'
      /\ UNCHANGED <<ownerBatches, pendingSub, subReqs, pendingRsp, l2Queue, ownerL2Rsp, mem,
                     replica, generation>>
      /\ 0 \notin DOMAIN reqs /\ DOMAIN entry \subseteq DOMAIN reqs /\ DOMAIN reqs \subseteq Nat
      /\ toL1 \notin DOMAIN entry
  BY <1>1, SameFrame
<1>3. Is(id, "ready") /\ id \in Range(ready)
  BY <1>1, <1>2, <1>a, TailRange DEF RequesterTyped, QueueInv
<1>4. id \in DOMAIN entry /\ entry[id].state = "ready" /\ entry[id] \in EntryRec /\ ws \in Seq(Nat)
  BY <1>2, <1>3, <1>b DEF Is, RequesterTyped, EntryRec
<1>5. /\ DOMAIN entry' = DOMAIN entry /\ entry'[id] \in EntryRec /\ entry'[id].state = "ready"
      /\ entry'[id].waiters = Tail(ws) /\ entry'[id].fill = entry[id].fill
      /\ entry'[id].line = entry[id].line /\ entry'[id].epoch = entry[id].epoch
      /\ \A i \in DOMAIN entry : i # id => entry'[i] = entry[i]
  <2>a. PICK e : e = entry[id]  OBVIOUS
  <2>b. PICK t : t = Tail(ws)  OBVIOUS
  <2>c. PICK f : f = [e EXCEPT !.waiters = t]  OBVIOUS
  <2>1. DOMAIN entry' = DOMAIN entry /\ entry'[id] = f
        /\ \A i \in DOMAIN entry : i # id => entry'[i] = entry[i]
    BY <1>1, <1>4, <2>a, <2>b, <2>c
  <2>2. t \in Seq(Nat)  BY <1>1, <1>4, <2>b, TailElements
  <2>3. /\ f \in EntryRec /\ f.waiters = t /\ f.line = e.line /\ f.epoch = e.epoch
        /\ f.state = e.state /\ f.fill = e.fill
    BY <1>4, <2>2, <2>a, <2>c, WaiterLeaves
  <2> QED  BY <1>4, <2>1, <2>3, <2>a, <2>b
<1>6. Range(ready) \subseteq DOMAIN entry  BY <1>2 DEF QueueInv, Is
<1>7. /\ \A i \in DOMAIN entry :
             /\ IsInjective(entry[i].waiters)
             /\ \A r \in Range(entry[i].waiters) :
                    /\ Known(r)
                    /\ \A j \in DOMAIN entry : r \in Range(entry[j].waiters) => i = j
      /\ \A k \in DOMAIN lines : lines[k] \in DOMAIN entry /\ Key(entry[lines[k]]) = k
      /\ outstandingReads = Cardinality(WaitingReads)
  BY <1>2 DEF TableInv
<1>c. PICK r : r = Head(ws)  OBVIOUS
<1>8. /\ IsInjective(Tail(ws)) /\ Range(Tail(ws)) = Range(ws) \ {r} /\ r \in Range(ws)
      /\ r \in WaitingReads
  <2>1. IsInjective(ws)  BY <1>4, <1>7, <1>b
  <2>2. IsInjective(Tail(ws)) /\ Range(Tail(ws)) = Range(ws) \ {r} /\ r \in Range(ws)
    BY <1>1, <1>4, <1>c, <2>1, InjectiveTail, TailRange
  <2> QED  BY <1>4, <1>b, <2>2 DEF WaitingReads
<1>9. WaitingReads' = WaitingReads \ {r}
  <2>1. \A x : x \in WaitingReads <=> \E i \in DOMAIN entry : x \in Range(entry[i].waiters)
    BY DEF WaitingReads
  <2>2. \A x : x \in WaitingReads' <=> \E i \in DOMAIN entry' : x \in Range(entry'[i].waiters)
    BY DEF WaitingReads
  <2>3. \A i \in DOMAIN entry : Range(entry'[i].waiters) = Range(entry[i].waiters) \ {r}
    <3>1. ASSUME NEW i \in DOMAIN entry, i # id
          PROVE  Range(entry'[i].waiters) = Range(entry[i].waiters) \ {r}
      <4>1. r \notin Range(entry[i].waiters)  BY <1>4, <1>7, <1>8, <1>b, <3>1
      <4> QED  BY <1>5, <3>1, <4>1
    <3> QED  BY <1>5, <1>8, <1>b, <3>1
  <2>4. \A x : x \in WaitingReads' <=> x \in WaitingReads /\ x # r
    <3>1. ASSUME NEW x, NEW i \in DOMAIN entry, x \in Range(entry'[i].waiters)
          PROVE  x \in Range(entry[i].waiters) /\ x # r
      BY <2>3, <3>1
    <3>2. ASSUME NEW x, NEW i \in DOMAIN entry, x \in Range(entry[i].waiters), x # r
          PROVE  x \in Range(entry'[i].waiters)
      BY <2>3, <3>2
    <3> QED  BY <1>5, <2>1, <2>2, <3>1, <3>2
  <2> QED  BY <2>4
<1>10. outstandingReads' = Cardinality(WaitingReads') /\ outstandingReads' \in Nat
  <2>1. IsFiniteSet(WaitingReads)  BY <1>2, WaitersFinite
  <2>2. Cardinality(WaitingReads \ {r}) = Cardinality(WaitingReads) - 1 /\ IsFiniteSet(WaitingReads \ {r})
    BY <1>8, <2>1, FS_RemoveElement
  <2>3. Cardinality(WaitingReads \ {r}) \in Nat  BY <2>2, FS_CardinalityType
  <2> QED  BY <1>1, <1>7, <1>9, <2>2, <2>3
<1>11. RequestsTyped' /\ OwnerTyped' /\ FlowInv' /\ OwnerInv' /\ RequesterTyped' /\ SentInv' /\ QueueInv'
  <2>1. ready' \in Seq(Nat) /\ IsInjective(ready') /\ Range(ready') = Range(ready)
    BY <1>1, <1>2 DEF RequesterTyped, QueueInv
  <2> QED  BY <1>1, <1>3, <1>5, <1>6, <1>10, <2>1, ReadyMoves
<1>12. CacheTyped'  BY <1>1, <1>2 DEF CacheTyped
<1>13. CacheInv'  BY <1>1, <1>2, <1>4, <1>5, CacheKept
<1>14. TableInv'
  <2>1. \A i : Known(i)' <=> Known(i)  BY <1>1 DEF Known
  <2>2. \A i \in DOMAIN entry : Key(entry'[i]) = Key(entry[i])  BY <1>5 DEF Key
  <2>3. \A k \in DOMAIN lines' : lines'[k] \in DOMAIN entry' /\ Key(entry'[lines'[k]]) = k
    BY <1>1, <1>5, <1>7, <2>2
  <2>4. \A i \in DOMAIN entry : /\ Range(entry'[i].waiters) \subseteq Range(entry[i].waiters)
                                /\ IsInjective(entry'[i].waiters)
    BY <1>5, <1>7, <1>8, <1>b
  <2>5. \A i \in DOMAIN entry' :
            /\ IsInjective(entry'[i].waiters)
            /\ \A x \in Range(entry'[i].waiters) :
                   /\ Known(x)'
                   /\ \A j \in DOMAIN entry' : x \in Range(entry'[j].waiters) => i = j
    BY <1>5, <1>7, <2>1, <2>4
  <2> QED  BY <1>10, <2>3, <2>5 DEF TableInv
<1>15. WaitersInTable'
  <2>1. SUFFICES ASSUME Exact, NEW i \in DOMAIN entry', entry'[i].waiters # <<>> PROVE InTable(i)'
    BY DEF WaitersInTable, Exact
  <2>2. InTable(i)
    <3>1. entry[i].waiters # <<>>  BY <1>1, <1>5, <1>b, <2>1
    <3> QED  BY <1>2, <1>5, <2>1, <3>1 DEF WaitersInTable
  <2>3. Key(entry'[i]) = Key(entry[i]) /\ lines' = lines  BY <1>1, <1>5, <2>1 DEF Key
  <2> QED  BY <2>2, <2>3 DEF InTable
<1> QED  BY <1>11, <1>12, <1>13, <1>14, <1>15 DEF IInv, Typed

LEMMA FillState ==
    ASSUME NEW e \in EntryRec, NEW f \in {"none", "inflight", "done"}
    PROVE  /\ [e EXCEPT !.fill = f] \in EntryRec /\ [e EXCEPT !.fill = f].fill = f
           /\ [e EXCEPT !.fill = f].line = e.line /\ [e EXCEPT !.fill = f].epoch = e.epoch
           /\ [e EXCEPT !.fill = f].state = e.state /\ [e EXCEPT !.fill = f].waiters = e.waiters
  BY DEF EntryRec

\* A change of an entry's fill.
LEMMA FillChanged ==
    ASSUME RequesterTyped, NEW id \in DOMAIN entry, NEW f \in {"none", "inflight", "done"},
           entry' = [entry EXCEPT ![id].fill = f]
    PROVE  /\ DOMAIN entry' = DOMAIN entry
           /\ \A i \in DOMAIN entry : i # id => entry'[i] = entry[i]
           /\ entry'[id] \in EntryRec /\ entry'[id].fill = f /\ entry'[id].line = entry[id].line
           /\ entry'[id].epoch = entry[id].epoch /\ entry'[id].state = entry[id].state
           /\ entry'[id].waiters = entry[id].waiters
<1>a. PICK e : e = entry[id]  OBVIOUS
<1>b. PICK g : g = [e EXCEPT !.fill = f]  OBVIOUS
<1>1. e \in EntryRec  BY <1>a DEF RequesterTyped
<1>2. DOMAIN entry' = DOMAIN entry /\ entry'[id] = g
      /\ \A i \in DOMAIN entry : i # id => entry'[i] = entry[i]
  BY <1>a, <1>b
<1>3. /\ g \in EntryRec /\ g.fill = f /\ g.line = e.line /\ g.epoch = e.epoch
      /\ g.state = e.state /\ g.waiters = e.waiters
  BY <1>1, <1>b, FillState
<1> QED  BY <1>2, <1>3, <1>a

\* The line goes to the requester's L2, whose acknowledgement the entry waits for.
LEMMA FillSent ==
    ASSUME IInv, UNCHANGED EngineFrame,
           UNCHANGED <<reqs, toL1, wire, back, single, bitmap, fromInside, pendingBatch, batches,
                       batchOrder, epochs, uncacheable, lines, outstandingReads, l2Rsp>>,
           ready # <<>>, ready' = Tail(ready), NEW id, id = Head(ready),
           entry[id].fill = "none", entry' = [entry EXCEPT ![id].fill = "inflight"],
           top' = Append(top, [kind |-> "fill", id |-> id, line |-> entry[id].line,
                               data |-> entry[id].data, gen |-> entry[id].gen])
    PROVE  IInv'
<1>1. /\ RequestsTyped /\ OwnerTyped /\ CacheTyped /\ RequesterTyped /\ FlowInv /\ OwnerInv
      /\ SentInv /\ CacheInv /\ QueueInv /\ TableInv /\ WaitersInTable
      /\ RequestsTyped'
      /\ UNCHANGED <<ownerBatches, pendingSub, subReqs, pendingRsp, l2Queue, ownerL2Rsp, mem,
                     replica, generation>>
      /\ 0 \notin DOMAIN reqs /\ DOMAIN entry \subseteq DOMAIN reqs /\ DOMAIN reqs \subseteq Nat
      /\ toL1 \notin DOMAIN entry
  BY SameFrame
<1>2. Is(id, "ready") /\ id \in Range(ready)
  BY <1>1, TailRange DEF RequesterTyped, QueueInv
<1>3. id \in DOMAIN entry /\ entry[id].state = "ready" /\ entry[id] \in EntryRec /\ id \in Nat
  BY <1>1, <1>2 DEF Is, RequesterTyped
<1>4. /\ DOMAIN entry' = DOMAIN entry
      /\ \A i \in DOMAIN entry : i # id => entry'[i] = entry[i]
      /\ entry'[id] \in EntryRec /\ entry'[id].fill = "inflight" /\ entry'[id].line = entry[id].line
      /\ entry'[id].epoch = entry[id].epoch /\ entry'[id].state = entry[id].state
      /\ entry'[id].waiters = entry[id].waiters
  BY <1>1, <1>3, FillChanged
<1>5. ready' \in Seq(Nat) /\ IsInjective(ready') /\ Range(ready') \subseteq Range(ready)
  BY <1>1, InjectiveTail, TailElements DEF RequesterTyped, QueueInv
<1>6. RequestsTyped' /\ OwnerTyped' /\ FlowInv' /\ OwnerInv' /\ RequesterTyped' /\ SentInv' /\ QueueInv'
  <2>1. Range(ready') \subseteq DOMAIN entry' /\ outstandingReads' \in Nat
    BY <1>1, <1>4, <1>5 DEF QueueInv, Is, RequesterTyped
  <2>2. /\ DOMAIN entry' \subseteq DOMAIN entry
        /\ \A i \in DOMAIN entry : i # id => i \in DOMAIN entry' /\ entry'[i] = entry[i]
        /\ id \in DOMAIN entry' => /\ entry'[id] \in EntryRec /\ entry'[id].state = "ready"
                                   /\ entry'[id].line = entry[id].line
    BY <1>3, <1>4
  <2>3. Range(ready') \subseteq Range(ready) \cup {id} /\ DOMAIN lines' \subseteq DOMAIN lines
    BY <1>5
  <2> QED  BY <1>2, <1>5, <2>1, <2>2, <2>3, ReadyMoves
<1>a. PICK m : m = [kind |-> "fill", id |-> id, line |-> entry[id].line,
                    data |-> entry[id].data, gen |-> entry[id].gen]
  OBVIOUS
<1>7. m \in TopMsg /\ m.kind = "fill" /\ m.id = id /\ CacheTokens[m] = {<<"fill", id>>}
  <2>1. m \in TopMsg  BY <1>3, <1>a DEF TopMsg, EntryRec
  <2>2. m.kind = "fill" /\ m.id = id  BY <1>a
  <2> QED  BY <2>1, <2>2, CacheMessages
<1>8. <<"fill", id>> \notin Carried(CacheTokens, top) \cup Carried(CacheTokens, l2Rsp)
  <2>1. SUFFICES ASSUME <<"fill", id>> \in Carried(CacheTokens, top) \cup Carried(CacheTokens, l2Rsp)
                 PROVE  FALSE
    OBVIOUS
  <2>2. <<"fill", id>>[1] = "fill" /\ <<"fill", id>>[2] = id  OBVIOUS
  <2>3. entry[id].fill = "inflight"  BY <1>1, <2>1, <2>2 DEF CacheInv
  <2> QED  BY <2>3
<1>9. /\ top' \in Seq(TopMsg)
      /\ Carried(CacheTokens, top') = Carried(CacheTokens, top) \cup {<<"fill", id>>}
      /\ Apart(CacheTokens, top')
  BY <1>1, <1>7, <1>8, <1>a, TopGrows DEF CacheTyped, CacheInv
<1>10. CacheTyped'  BY <1>1, <1>9 DEF CacheTyped
<1>11. CacheInv'
  <2>1. ASSUME NEW t \in Carried(CacheTokens, top) \cup Carried(CacheTokens, l2Rsp)
        PROVE  IF t[1] = "lookup" THEN Is(t[2], "probing")'
                                  ELSE Is(t[2], "ready")' /\ entry'[t[2]].fill = "inflight"
    <3>1. IF t[1] = "lookup" THEN Is(t[2], "probing")
                             ELSE Is(t[2], "ready") /\ entry[t[2]].fill = "inflight"
      BY <1>1, <2>1 DEF CacheInv
    <3> QED  BY <1>3, <1>4, <3>1 DEF Is
  <2>2. ASSUME NEW t, t = <<"fill", id>>
        PROVE  IF t[1] = "lookup" THEN Is(t[2], "probing")'
                                  ELSE Is(t[2], "ready")' /\ entry'[t[2]].fill = "inflight"
    <3>1. t[1] = "fill" /\ t[2] = id  BY <2>2
    <3> QED  BY <1>3, <1>4, <3>1 DEF Is
  <2>3. \A t \in Carried(CacheTokens, top') \cup Carried(CacheTokens, l2Rsp') :
            IF t[1] = "lookup" THEN Is(t[2], "probing")'
                               ELSE Is(t[2], "ready")' /\ entry'[t[2]].fill = "inflight"
    BY <1>9, <2>1, <2>2
  <2>4. /\ Carried(CacheTokens, l2Rsp') = Carried(CacheTokens, l2Rsp)
        /\ Apart(CacheTokens, l2Rsp')
        /\ Carried(CacheTokens, top) \cap Carried(CacheTokens, l2Rsp) = {}
        /\ \A x \in Range(l2Rsp') : x.kind = "lookup" /\ ~ x.hit => x.data = NoData
    BY <1>1 DEF CacheInv
  <2>5. Carried(CacheTokens, top') \cap Carried(CacheTokens, l2Rsp') = {}
    BY <1>8, <1>9, <2>4
  <2> QED  BY <1>9, <2>3, <2>4, <2>5 DEF CacheInv
<1>12. TableInv' /\ WaitersInTable'
  <2>1. \A i \in DOMAIN entry : /\ entry'[i].line = entry[i].line
                                /\ entry'[i].epoch = entry[i].epoch
                                /\ entry'[i].waiters = entry[i].waiters
    BY <1>4
  <2> QED  BY <1>1, <1>4, <2>1, TableKept
<1> QED  BY <1>6, <1>10, <1>11, <1>12 DEF IInv, Typed

\* An entry without waiters sends its fill, waits for it, or is forgotten.
LEMMA FinishStep ==
    ASSUME IInv, Finish, UNCHANGED EngineFrame
    PROVE  IInv'
<1>a. PICK id : id = Head(ready)  OBVIOUS
<1>1. /\ ready # <<>> /\ entry[id].waiters = <<>> /\ ready' = Tail(ready)
      /\ UNCHANGED <<epochs, uncacheable, pendingBatch, batches, batchOrder, probes, single, bitmap,
                     fromInside, outstandingReads, wire, back, reqs, toL1, l2Rsp>>
      /\ \/ /\ entry[id].fill = "none"
            /\ top' = Append(top, [kind |-> "fill", id |-> id, line |-> entry[id].line,
                                   data |-> entry[id].data, gen |-> entry[id].gen])
            /\ entry' = [entry EXCEPT ![id].fill = "inflight"]
            /\ lines' = lines
         \/ entry' = entry /\ lines' = lines /\ top' = top
         \/ /\ entry[id].fill # "inflight" /\ RemoveLine(id)
            /\ entry' = Without(entry, id) /\ top' = top
  BY <1>a DEF Finish, batchVars, l1Vars
<1>2. /\ RequestsTyped /\ OwnerTyped /\ CacheTyped /\ RequesterTyped /\ FlowInv /\ OwnerInv
      /\ SentInv /\ CacheInv /\ QueueInv /\ TableInv /\ WaitersInTable
      /\ RequestsTyped'
      /\ UNCHANGED <<ownerBatches, pendingSub, subReqs, pendingRsp, l2Queue, ownerL2Rsp, mem,
                     replica, generation>>
      /\ 0 \notin DOMAIN reqs /\ DOMAIN entry \subseteq DOMAIN reqs /\ DOMAIN reqs \subseteq Nat
      /\ toL1 \notin DOMAIN entry
  BY <1>1, SameFrame
<1>3. Is(id, "ready") /\ id \in Range(ready)
  BY <1>1, <1>2, <1>a, TailRange DEF RequesterTyped, QueueInv
<1>4. id \in DOMAIN entry /\ entry[id].state = "ready"  BY <1>3 DEF Is
<1>5. /\ ready' \in Seq(Nat) /\ IsInjective(ready') /\ Range(ready') = Range(ready) \ {id}
  BY <1>1, <1>2, <1>a, InjectiveTail, TailElements DEF RequesterTyped, QueueInv
<1>6. Range(ready) \subseteq DOMAIN entry /\ outstandingReads' \in Nat
  BY <1>1, <1>2 DEF QueueInv, Is, RequesterTyped
<1>7. CASE /\ entry[id].fill = "none"
           /\ top' = Append(top, [kind |-> "fill", id |-> id, line |-> entry[id].line,
                                  data |-> entry[id].data, gen |-> entry[id].gen])
           /\ entry' = [entry EXCEPT ![id].fill = "inflight"]
           /\ lines' = lines
  BY <1>1, <1>7, <1>a, FillSent
<1>8. CASE entry' = entry /\ lines' = lines /\ top' = top
  <2>1. entry[id] \in EntryRec  BY <1>2, <1>4 DEF RequesterTyped
  <2>2. RequestsTyped' /\ OwnerTyped' /\ FlowInv' /\ OwnerInv' /\ RequesterTyped' /\ SentInv' /\ QueueInv'
    BY <1>1, <1>3, <1>4, <1>5, <1>6, <1>8, <2>1, ReadyMoves
  <2>3. CacheTyped'  BY <1>1, <1>2, <1>8 DEF CacheTyped
  <2>4. CacheInv'  BY <1>1, <1>2, <1>8, CacheKept
  <2>5. TableInv' /\ WaitersInTable'  BY <1>1, <1>2, <1>8, TableKept
  <2> QED  BY <2>2, <2>3, <2>4, <2>5 DEF IInv, Typed
<1>9. CASE /\ entry[id].fill # "inflight" /\ RemoveLine(id)
           /\ entry' = Without(entry, id) /\ top' = top
  <2>1. /\ DOMAIN entry' = DOMAIN entry \ {id}
        /\ \A i \in DOMAIN entry : i # id => entry'[i] = entry[i]
    BY <1>9, WithoutElements
  <2>2. TableInv' /\ WaitersInTable' /\ DOMAIN lines' \subseteq DOMAIN lines
    <3>1. \A i \in DOMAIN entry' : entry'[i] = entry[i]  BY <2>1
    <3>2. \A i \in DOMAIN entry' : /\ entry'[i].line = entry[i].line
                                   /\ entry'[i].epoch = entry[i].epoch
                                   /\ entry'[i].waiters = entry[i].waiters
      BY <3>1
    <3> QED  BY <1>1, <1>2, <1>4, <1>9, <2>1, <3>2, LineRemoved
  <2>3. RequestsTyped' /\ OwnerTyped' /\ FlowInv' /\ OwnerInv' /\ RequesterTyped' /\ SentInv' /\ QueueInv'
    BY <1>1, <1>3, <1>5, <1>6, <2>1, <2>2, ReadyMoves
  <2>4. CacheTyped'  BY <1>1, <1>2, <1>9 DEF CacheTyped
  <2>5. CacheInv'  BY <1>1, <1>2, <1>4, <1>9, <2>1, CacheKept
  <2> QED  BY <2>2, <2>3, <2>4, <2>5 DEF IInv, Typed
<1> QED  BY <1>1, <1>7, <1>8, <1>9

\* A fill is acknowledged.
LEMMA TakeFillStep ==
    ASSUME IInv, TakeFill, UNCHANGED EngineFrame
    PROVE  IInv'
<1>a. PICK id : id = Head(l2Rsp).id  OBVIOUS
<1>1. /\ l2Rsp # <<>> /\ Head(l2Rsp).kind = "fill" /\ l2Rsp' = Tail(l2Rsp)
      /\ UNCHANGED <<epochs, uncacheable, pendingBatch, batches, batchOrder, probes, single, bitmap,
                     fromInside, outstandingReads, wire, back, reqs, toL1, top>>
      /\ \/ entry' = [entry EXCEPT ![id].fill = "done"] /\ ready' = Queued(id) /\ lines' = lines
         \/ /\ entry[id].waiters = <<>> /\ RemoveLine(id) /\ ready' = ready
            /\ \/ id \in Range(ready) /\ entry' = [entry EXCEPT ![id].fill = "done"]
               \/ id \notin Range(ready) /\ entry' = Without(entry, id)
  BY <1>a DEF TakeFill, batchVars, l1Vars
<1>2. /\ RequestsTyped /\ OwnerTyped /\ CacheTyped /\ RequesterTyped /\ FlowInv /\ OwnerInv
      /\ SentInv /\ CacheInv /\ QueueInv /\ TableInv /\ WaitersInTable
      /\ RequestsTyped'
      /\ UNCHANGED <<ownerBatches, pendingSub, subReqs, pendingRsp, l2Queue, ownerL2Rsp, mem,
                     replica, generation>>
      /\ 0 \notin DOMAIN reqs /\ DOMAIN entry \subseteq DOMAIN reqs /\ DOMAIN reqs \subseteq Nat
      /\ toL1 \notin DOMAIN entry
  BY <1>1, SameFrame
<1>3. PICK m \in CacheRsp :
          /\ m = Head(l2Rsp) /\ m \in Range(l2Rsp) /\ m.id \in Nat /\ m.kind \in {"lookup", "fill"}
          /\ CacheTyped' /\ Apart(CacheTokens, top') /\ Apart(CacheTokens, l2Rsp')
          /\ Carried(CacheTokens, top') \cap Carried(CacheTokens, l2Rsp') = {}
          /\ \A t \in Carried(CacheTokens, top') \cup Carried(CacheTokens, l2Rsp') :
                 /\ t \in Carried(CacheTokens, top) \cup Carried(CacheTokens, l2Rsp)
                 /\ t[1] = m.kind => t[2] # m.id
          /\ Range(l2Rsp') \subseteq Range(l2Rsp)
          /\ IF m.kind = "lookup" THEN Is(m.id, "probing")
                                  ELSE Is(m.id, "ready") /\ entry[m.id].fill = "inflight"
  BY <1>1, <1>2, CacheTaken
<1>4. /\ m.kind = "fill" /\ id = m.id /\ Is(id, "ready") /\ id \in Nat /\ id \in DOMAIN entry
      /\ entry[id].state = "ready" /\ entry[id] \in EntryRec
  BY <1>1, <1>2, <1>3, <1>a DEF Is, RequesterTyped
<1>5. /\ (DOMAIN entry' = DOMAIN entry \/ (DOMAIN entry' = DOMAIN entry \ {id} /\ id \notin Range(ready)))
      /\ \A i \in DOMAIN entry : i # id => entry'[i] = entry[i]
      /\ id \in DOMAIN entry' =>
             /\ entry'[id] \in EntryRec /\ entry'[id].line = entry[id].line
             /\ entry'[id].epoch = entry[id].epoch /\ entry'[id].state = entry[id].state
             /\ entry'[id].waiters = entry[id].waiters
  <2>1. CASE entry' = [entry EXCEPT ![id].fill = "done"]
    BY <1>2, <1>4, <2>1, FillChanged
  <2>2. CASE entry' = Without(entry, id) /\ id \notin Range(ready)
    BY <2>2, WithoutElements
  <2> QED  BY <1>1, <2>1, <2>2
<1>6. \A i \in DOMAIN entry' : /\ entry'[i].line = entry[i].line
                               /\ entry'[i].epoch = entry[i].epoch
                               /\ entry'[i].waiters = entry[i].waiters
  BY <1>5
<1>7. TableInv' /\ WaitersInTable' /\ DOMAIN lines' \subseteq DOMAIN lines
  <2>1. CASE lines' = lines /\ DOMAIN entry' = DOMAIN entry
    <3>1. TableInv' /\ WaitersInTable'  BY <1>1, <1>2, <1>6, <2>1, TableKept
    <3> QED  BY <2>1, <3>1
  <2>2. CASE entry[id].waiters = <<>> /\ RemoveLine(id)
    BY <1>1, <1>2, <1>4, <1>5, <1>6, <2>2, LineRemoved
  <2>3. entry' = [entry EXCEPT ![id].fill = "done"] => DOMAIN entry' = DOMAIN entry
    BY <1>2, <1>4, FillChanged
  <2> QED  BY <1>1, <2>1, <2>2, <2>3
<1>8. /\ ready' \in Seq(Nat) /\ IsInjective(ready') /\ Range(ready') \subseteq Range(ready) \cup {id}
      /\ Range(ready') \subseteq DOMAIN entry'
  <2>1. ready \in Seq(Nat) /\ IsInjective(ready) /\ Range(ready) \subseteq DOMAIN entry
    BY <1>2 DEF RequesterTyped, QueueInv, Is
  <2>2. CASE ready' = ready  BY <1>5, <2>1, <2>2
  <2>3. CASE ready' = Queued(id) /\ entry' = [entry EXCEPT ![id].fill = "done"]
    <3>1. Queued(id) \in Seq(Nat) /\ IsInjective(Queued(id)) /\ Range(Queued(id)) = Range(ready) \cup {id}
      BY <1>4, <2>1, QueuedReady
    <3>2. DOMAIN entry' = DOMAIN entry  BY <1>2, <1>4, <2>3, FillChanged
    <3> QED  BY <1>4, <2>1, <2>3, <3>1, <3>2
  <2> QED  BY <1>1, <2>2, <2>3
<1>9. RequestsTyped' /\ OwnerTyped' /\ FlowInv' /\ OwnerInv' /\ RequesterTyped' /\ SentInv' /\ QueueInv'
  <2>1. outstandingReads' \in Nat  BY <1>1, <1>2 DEF RequesterTyped
  <2> QED  BY <1>1, <1>4, <1>5, <1>7, <1>8, <2>1, ReadyMoves
<1>10. CacheInv'
  <2>1. ASSUME NEW t \in Carried(CacheTokens, top') \cup Carried(CacheTokens, l2Rsp')
        PROVE  IF t[1] = "lookup" THEN Is(t[2], "probing")'
                                  ELSE Is(t[2], "ready")' /\ entry'[t[2]].fill = "inflight"
    <3>1. t \in Carried(CacheTokens, top) \cup Carried(CacheTokens, l2Rsp)
          /\ (t[1] = "fill" => t[2] # id)
      BY <1>3, <1>4, <2>1
    <3>2. IF t[1] = "lookup" THEN Is(t[2], "probing")
                             ELSE Is(t[2], "ready") /\ entry[t[2]].fill = "inflight"
      BY <1>2, <3>1 DEF CacheInv
    <3>3. t[1] \in {"lookup", "fill"}  BY <1>2, <3>1, CachePairs
    <3>4. t[2] # id  BY <1>4, <3>1, <3>2, <3>3 DEF Is
    <3> QED  BY <1>5, <3>2, <3>4 DEF Is
  <2>2. \A x \in Range(l2Rsp') : x.kind = "lookup" /\ ~ x.hit => x.data = NoData
    BY <1>2, <1>3 DEF CacheInv
  <2> QED  BY <1>3, <2>1, <2>2 DEF CacheInv
<1> QED  BY <1>3, <1>7, <1>9, <1>10 DEF IInv, Typed

-------------------------------------------------------------------------------
(* The requester's L2 *)

\* A step that neither moves a request nor changes an entry.
LEMMA RestKept ==
    ASSUME IInv,
           UNCHANGED <<wire, back, ownerBatches, pendingSub, subReqs, pendingRsp, l2Queue, ownerL2Rsp,
                       single, bitmap, fromInside, reqs>>,
           UNCHANGED <<toL1, entry, lines, uncacheable, pendingBatch, batches, batchOrder, ready,
                       outstandingReads>>,
           RequestsTyped', CacheTyped', CacheInv', mem' \in [Line -> Int], epochs' \in [Line -> Nat]
    PROVE  IInv'
<1>1. /\ RequestsTyped /\ OwnerTyped /\ CacheTyped /\ RequesterTyped /\ FlowInv /\ OwnerInv
      /\ SentInv /\ CacheInv /\ QueueInv /\ TableInv /\ WaitersInTable
  BY Parts
<1>2. OwnerTyped'  BY <1>1 DEF OwnerTyped
<1>3. FlowInv' /\ OwnerInv'
  <2>1. DataTokens' = DataTokens  BY DEF DataTokens
  <2>2. Flow' = Flow  BY <2>1 DEF Flow
  <2>3. \A t : Asked(t)' <=> Asked(t)  BY DEF Asked
  <2>4. FlowInv'  BY <1>1, <2>2, <2>3 DEF FlowInv
  <2>5. \A i : SubsOf(i)' = SubsOf(i)  BY DEF SubsOf
  <2>6. OwnerInv'  BY <1>1, <2>2, <2>5 DEF OwnerInv
  <2> QED  BY <2>4, <2>6
<1>4. RequesterTyped'  BY <1>1 DEF RequesterTyped
<1>5. 0 \notin DOMAIN reqs  BY <1>1, NumbersOfReads
<1>6. SentInv'
  <2>1. \A i \in DOMAIN entry' : Known(i)' /\ reqs[i].op = "read" /\ entry'[i].line = reqs[i].line
    BY <1>1 DEF SentInv, Known
  <2>2. \A i \in DOMAIN entry' : i \in DOMAIN bitmap => entry'[i].state \in {"inflight", "ready"}
    BY <1>1 DEF SentInv
  <2> QED  BY <1>1, <1>5, <2>1, <2>2, SentKept
<1>7. QueueInv'
  <2>1. \A x : CollectedFor(x)' = CollectedFor(x)  BY DEF CollectedFor
  <2>2. \A i, s : Is(i, s)' <=> Is(i, s)  BY DEF Is
  <2> QED  BY <1>1, <2>1, <2>2 DEF QueueInv
<1>8. TableInv' /\ WaitersInTable'  BY <1>1, <1>5, TableKept
<1> QED  BY <1>2, <1>3, <1>4, <1>6, <1>7, <1>8 DEF IInv, Typed

\* What no step of the cache changes.
CacheFrame == <<engineVars, l1Vars, ctrlVars, systemVars>>

\* A step of the cache keeps the rest of the invariant.
LEMMA CacheFrameKept ==
    ASSUME IInv, UNCHANGED CacheFrame, CacheTyped', CacheInv'
    PROVE  IInv'
<1>1. RequestsTyped /\ OwnerTyped /\ RequesterTyped  BY Parts
<1>2. /\ UNCHANGED <<wire, back, ownerBatches, pendingSub, subReqs, pendingRsp, l2Queue, ownerL2Rsp,
                     single, bitmap, fromInside, reqs>>
      /\ UNCHANGED <<toL1, entry, lines, uncacheable, pendingBatch, batches, batchOrder, ready,
                     outstandingReads>>
      /\ UNCHANGED <<mem, epochs, latest, kernels>>
  BY DEF CacheFrame, engineVars, l1Vars, systemVars, ownerVars, lineVars, batchVars, flightVars
<1>3. RequestsTyped'  BY <1>1, <1>2 DEF RequestsTyped
<1>4. mem' \in [Line -> Int] /\ epochs' \in [Line -> Nat]
  BY <1>1, <1>2 DEF OwnerTyped, RequesterTyped
<1> QED  BY <1>2, <1>3, <1>4, RestKept

\* The cache answers the request top[i].
LEMMA AnswerStep ==
    ASSUME IInv, UNCHANGED CacheFrame, NEW i \in DOMAIN top, NEW m \in CacheRsp,
           m.kind = top[i].kind, m.id = top[i].id,
           m.kind = "lookup" /\ ~ m.hit => m.data = NoData,
           Answer(i, m), generation' = generation,
           \A l \in DOMAIN replica' : replica'[l] \in Int
    PROVE  IInv'
<1>1. CacheTyped /\ CacheInv  BY Parts
<1>a. PICK q : q = top[i]  OBVIOUS
<1>2. /\ i \in 1 .. Len(top) /\ q \in TopMsg /\ top \in Seq(TopMsg)
      /\ CacheTokens[q] = {<<m.kind, m.id>>} /\ CacheTokens[m] = {<<m.kind, m.id>>}
  <2>1. top \in Seq(TopMsg)  BY <1>1 DEF CacheTyped
  <2>2. i \in 1 .. Len(top) /\ q \in TopMsg  BY <1>a, <2>1, SeqType
  <2> QED  BY <1>a, <2>1, <2>2, CacheMessages
<1>3. top' = RemoveAt(top, i) /\ l2Rsp' = Append(l2Rsp, m)  BY DEF Answer
<1>4. /\ Carried(CacheTokens, top) = {<<m.kind, m.id>>} \cup Carried(CacheTokens, top')
      /\ Apart(CacheTokens, top') /\ <<m.kind, m.id>> \notin Carried(CacheTokens, top')
      /\ top' \in Seq(TopMsg)
  <2>1. Apart(CacheTokens, top)  BY <1>1 DEF CacheInv
  <2>2. /\ Carried(CacheTokens, top) = CacheTokens[q] \cup Carried(CacheTokens, RemoveAt(top, i))
        /\ Apart(CacheTokens, RemoveAt(top, i))
        /\ CacheTokens[q] \cap Carried(CacheTokens, RemoveAt(top, i)) = {}
    BY <1>2, <1>a, <2>1, WithoutCarried
  <2>3. RemoveAt(top, i) \in Seq(TopMsg)  BY <1>2, RemoveAtElements
  <2> QED  BY <1>2, <1>3, <2>2, <2>3
<1>5. /\ l2Rsp' \in Seq(CacheRsp) /\ Range(l2Rsp') = Range(l2Rsp) \cup {m}
      /\ Carried(CacheTokens, l2Rsp') = Carried(CacheTokens, l2Rsp) \cup {<<m.kind, m.id>>}
      /\ Apart(CacheTokens, l2Rsp')
  <2>1. l2Rsp \in Seq(CacheRsp) /\ Apart(CacheTokens, l2Rsp)  BY <1>1 DEF CacheTyped, CacheInv
  <2>2. CacheTokens[m] \cap Carried(CacheTokens, l2Rsp) = {}  BY <1>1, <1>2, <1>4 DEF CacheInv
  <2> QED  BY <1>2, <1>3, <2>1, <2>2, CacheRspGrows
<1>6. CacheTyped'  BY <1>1, <1>4, <1>5 DEF CacheTyped
<1>7. CacheInv'
  <2>1. entry' = entry  BY DEF CacheFrame, engineVars, lineVars
  <2>2. \A t \in Carried(CacheTokens, top') \cup Carried(CacheTokens, l2Rsp') :
            IF t[1] = "lookup" THEN Is(t[2], "probing")'
                               ELSE Is(t[2], "ready")' /\ entry'[t[2]].fill = "inflight"
    <3>1. Carried(CacheTokens, top') \cup Carried(CacheTokens, l2Rsp')
              = Carried(CacheTokens, top) \cup Carried(CacheTokens, l2Rsp)
      BY <1>4, <1>5
    <3> QED  BY <1>1, <2>1, <3>1 DEF CacheInv, Is
  <2>3. Carried(CacheTokens, top') \cap Carried(CacheTokens, l2Rsp') = {}
    BY <1>1, <1>4, <1>5 DEF CacheInv
  <2>4. \A x \in Range(l2Rsp') : x.kind = "lookup" /\ ~ x.hit => x.data = NoData
    BY <1>1, <1>5 DEF CacheInv
  <2> QED  BY <1>4, <1>5, <2>2, <2>3, <2>4 DEF CacheInv
<1> QED  BY <1>6, <1>7, CacheFrameKept

\* The requester's L2 serves a lookup or a fill, or displaces a copy.
LEMMA CacheStep ==
    ASSUME IInv, Cache
    PROVE  IInv'
<1>1. UNCHANGED CacheFrame  BY DEF Cache, CacheFrame
<1>2. CacheTyped  BY Parts
<1>3. PICK i \in DOMAIN top : Lookup(i) \/ Fill(i)  BY DEF Cache
<1>4. /\ top[i] \in TopMsg /\ top[i].id \in Nat /\ generation \in Int
      /\ \A l \in DOMAIN replica : replica[l] \in Int
  <2>1. top[i] \in TopMsg  BY <1>2, SeqType DEF CacheTyped
  <2> QED  BY <1>2, <2>1, CacheMessages DEF CacheTyped
<1>5. CASE Lookup(i)
  <2>1. top[i].kind = "lookup" /\ replica' = replica /\ generation' = generation
    BY <1>5 DEF Lookup
  <2>2. CASE top[i].line \in DOMAIN replica
    <3>a. PICK m : m = LookupHit(i)  OBVIOUS
    <3>1. /\ m \in CacheRsp /\ m.kind = "lookup" /\ m.id = top[i].id /\ m.hit
      BY <1>4, <2>2, <3>a DEF LookupHit, CacheRsp
    <3>2. Answer(i, m)  BY <1>5, <2>2, <3>a DEF Lookup
    <3> QED  BY <1>1, <1>4, <2>1, <3>1, <3>2, AnswerStep
  <2>3. CASE top[i].line \notin DOMAIN replica
    <3>a. PICK m : m = LookupMiss(i)  OBVIOUS
    <3>1. /\ m \in CacheRsp /\ m.kind = "lookup" /\ m.id = top[i].id /\ m.data = NoData
      BY <1>4, <2>3, <3>a DEF LookupMiss, CacheRsp, NoData
    <3>2. Answer(i, m)  BY <1>5, <2>3, <3>a DEF Lookup
    <3> QED  BY <1>1, <1>4, <2>1, <3>1, <3>2, AnswerStep
  <2> QED  BY <2>2, <2>3
<1>6. CASE Fill(i)
  <2>a. PICK m : m = [kind |-> "fill", id |-> top[i].id]  OBVIOUS
  <2>1. top[i].kind = "fill" /\ generation' = generation /\ Answer(i, m)  BY <1>6, <2>a DEF Fill
  <2>2. m \in CacheRsp /\ m.kind = "fill" /\ m.id = top[i].id  BY <1>4, <2>a DEF CacheRsp
  <2>3. top[i].data \in Int  BY <1>4, <2>1 DEF TopMsg
  <2>4. \A l \in DOMAIN replica' : replica'[l] \in Int
    <3>1. CASE replica' = replica  BY <1>4, <3>1
    <3>2. CASE \E out \in SUBSET DOMAIN replica :
                  replica' = [l \in {top[i].line} \cup (DOMAIN replica \ out) |->
                                 IF l = top[i].line THEN top[i].data ELSE replica[l]]
      BY <1>4, <2>3, <3>2
    <3> QED  BY <1>6, <3>1, <3>2 DEF Fill
  <2> QED  BY <1>1, <2>1, <2>2, <2>4, AnswerStep
<1> QED  BY <1>3, <1>5, <1>6

LEMMA OtherLineStep ==
    ASSUME IInv, OtherLine
    PROVE  IInv'
<1>1. UNCHANGED CacheFrame /\ entry' = entry
  BY DEF OtherLine, CacheFrame, engineVars, lineVars
<1>2. CacheTyped /\ CacheInv  BY Parts
<1>3. PICK l \in Line : Displace(l)  BY DEF OtherLine
<1>4. CacheTyped'
  <2>1. \A k \in DOMAIN replica' : k \in DOMAIN replica /\ replica'[k] = replica[k]
    BY <1>3 DEF Displace, Restrict
  <2> QED  BY <1>2, <1>3, <2>1 DEF CacheTyped, Displace
<1>5. CacheInv'  BY <1>1, <1>2, <1>3, CacheKept DEF Displace
<1> QED  BY <1>1, <1>4, <1>5, CacheFrameKept

-------------------------------------------------------------------------------
(* The L1 caches, the kernels and the driver *)

\* An L1 cache sends a request.
LEMMA IssueStep ==
    ASSUME IInv, NEW op \in Op, NEW l \in Line, Issue(op, l)
    PROVE  IInv'
<1>1. /\ RequestsTyped /\ OwnerTyped /\ CacheTyped /\ RequesterTyped /\ FlowInv /\ OwnerInv
      /\ SentInv /\ CacheInv /\ QueueInv /\ TableInv /\ WaitersInTable
  BY Parts
<1>a. PICK n : n = Len(reqs) + 1  OBVIOUS
<1>b. PICK q : q = [op |-> op, line |-> l, want |-> latest[l]]  OBVIOUS
<1>2. /\ toL1 = 0 /\ Len(reqs) < MaxReq /\ toL1' = n /\ reqs' = Append(reqs, q)
      /\ latest' = IF op = "write" THEN [latest EXCEPT ![l] = n] ELSE latest
      /\ kernels' = kernels
      /\ UNCHANGED <<wire, back, ownerBatches, pendingSub, subReqs, pendingRsp, l2Queue, ownerL2Rsp,
                     mem, single, bitmap, fromInside>>
      /\ UNCHANGED <<entry, lines, epochs, uncacheable, pendingBatch, batches, batchOrder, ready,
                     outstandingReads, replica, generation, top, l2Rsp>>
  BY <1>a, <1>b DEF Issue, engineVars, cacheVars, ownerVars, lineVars, batchVars, flightVars
<1>3. /\ reqs \in Seq([op : Op, line : Line, want : Int]) /\ q \in [op : Op, line : Line, want : Int]
      /\ DOMAIN reqs = 1 .. Len(reqs) /\ Len(reqs) \in Nat /\ n \in Nat /\ 0 \notin DOMAIN reqs
  BY <1>1, <1>a, <1>b, NumbersOfReads DEF RequestsTyped
<1>4. /\ reqs' \in Seq([op : Op, line : Line, want : Int]) /\ Len(reqs') = n
      /\ \A i \in DOMAIN reqs : i \in DOMAIN reqs' /\ reqs'[i] = reqs[i] /\ i # n
  <2>1. /\ reqs' \in Seq([op : Op, line : Line, want : Int]) /\ Len(reqs') = n
        /\ \A i \in 1 .. Len(reqs) : reqs'[i] = reqs[i]
    BY <1>2, <1>3, <1>a, AppendElements
  <2>2. DOMAIN reqs' = 1 .. n  BY <2>1, SeqType
  <2> QED  BY <1>3, <1>a, <2>1, <2>2
<1>5. RequestsTyped'
  <2>1. latest' \in [Line -> Int]  BY <1>1, <1>2, <1>3 DEF RequestsTyped
  <2>2. Len(reqs') <= MaxReq  BY <1>2, <1>3, <1>4, <1>a, RequesterAssumption
  <2> QED  BY <1>1, <1>2, <1>4, <2>1, <2>2 DEF RequestsTyped
<1>6. \A i : Known(i) => Known(i)' /\ reqs'[i] = reqs[i]  BY <1>2, <1>4 DEF Known
<1>7. OwnerTyped' /\ CacheTyped' /\ RequesterTyped'
  BY <1>1, <1>2 DEF OwnerTyped, CacheTyped, RequesterTyped
<1>8. FlowInv' /\ OwnerInv'
  <2>1. DataTokens' = DataTokens  BY <1>2 DEF DataTokens
  <2>2. Flow' = Flow  BY <1>2, <2>1 DEF Flow
  <2>3. ASSUME NEW t, Asked(t) PROVE Asked(t)'
    <3>1. \A i \in single : i \in DOMAIN entry /\ Known(i)  BY <1>1 DEF SentInv, Is
    <3>2. \A i \in fromInside : Known(i)  BY <1>1 DEF SentInv
    <3> QED  BY <1>2, <1>6, <2>3, <3>1, <3>2 DEF Asked
  <2>4. FlowInv'  BY <1>1, <1>2, <2>2, <2>3 DEF FlowInv
  <2>5. \A i : SubsOf(i)' = SubsOf(i)  BY <1>2 DEF SubsOf
  <2>6. OwnerInv'  BY <1>1, <1>2, <2>2, <2>5 DEF OwnerInv
  <2> QED  BY <2>4, <2>6
<1>9. SentInv'
  <2>1. \A i \in DOMAIN entry' : Known(i)' /\ reqs'[i].op = "read" /\ entry'[i].line = reqs'[i].line
    <3>1. \A i \in DOMAIN entry : Known(i) /\ reqs[i].op = "read" /\ entry[i].line = reqs[i].line
      BY <1>1 DEF SentInv
    <3> QED  BY <1>2, <1>6, <3>1
  <2>2. \A i \in fromInside' : Known(i)' /\ reqs'[i].op # "read"
    <3>1. \A i \in fromInside : Known(i) /\ reqs[i].op # "read"  BY <1>1 DEF SentInv
    <3> QED  BY <1>2, <1>6, <3>1
  <2>3. \A i \in single' : Is(i, "inflight")'  BY <1>1, <1>2 DEF SentInv, Is
  <2>4. \A x : FlyingFor(x)' = FlyingFor(x)  BY <1>2 DEF FlyingFor
  <2>5. \A i, x : Unfinished(i, x)' <=> Unfinished(i, x)  BY <1>2 DEF Unfinished
  <2>6. \A i \in DOMAIN bitmap' :
            /\ Known(i)' /\ reqs'[i].op = "read" /\ i \notin single'
            /\ i \in DOMAIN entry' => entry'[i].state \in {"inflight", "ready"}
            /\ \A x : Unfinished(i, x)' => bitmap'[i].ents[x] \in FlyingFor(x)'
    <3>1. \A i \in DOMAIN bitmap :
              /\ Known(i) /\ reqs[i].op = "read" /\ i \notin single
              /\ i \in DOMAIN entry => entry[i].state \in {"inflight", "ready"}
              /\ \A x : Unfinished(i, x) => bitmap[i].ents[x] \in FlyingFor(x)
      BY <1>1 DEF SentInv
    <3> QED  BY <1>2, <1>6, <2>4, <2>5, <3>1
  <2>7. \A i, j \in DOMAIN bitmap' : \A x :
            Unfinished(i, x)' /\ Unfinished(j, x)' /\ bitmap'[i].ents[x] = bitmap'[j].ents[x] => i = j
    BY <1>1, <1>2, <2>5 DEF SentInv
  <2> QED  BY <2>1, <2>2, <2>3, <2>6, <2>7 DEF SentInv
<1>10. CacheInv'  BY <1>1, <1>2, CacheKept
<1>11. QueueInv'
  <2>1. \A x : CollectedFor(x)' = CollectedFor(x)  BY <1>2 DEF CollectedFor
  <2>2. \A i, s : Is(i, s)' <=> Is(i, s)  BY <1>2 DEF Is
  <2> QED  BY <1>1, <1>2, <2>1, <2>2 DEF QueueInv
<1>12. TableInv'
  <2>1. WaitingReads' = WaitingReads  BY <1>2 DEF WaitingReads
  <2>2. \A i : Known(i) => Known(i)'  BY <1>6
  <2>3. \A i \in DOMAIN entry : Key(entry'[i]) = Key(entry[i])  BY <1>2 DEF Key
  <2>4. UNCHANGED <<entry, lines, outstandingReads>>  BY <1>2
  <2>5. TableInv  BY <1>1
  <2>6. \A k \in DOMAIN lines' : lines'[k] \in DOMAIN entry' /\ Key(entry'[lines'[k]]) = k
    BY <2>3, <2>4, <2>5 DEF TableInv
  <2>7. ASSUME NEW i \in DOMAIN entry'
        PROVE  /\ IsInjective(entry'[i].waiters)
               /\ \A r \in Range(entry'[i].waiters) :
                      Known(r)' /\ \A j \in DOMAIN entry' : r \in Range(entry'[j].waiters) => i = j
    <3>1. /\ IsInjective(entry[i].waiters)
          /\ \A r \in Range(entry[i].waiters) :
                 Known(r) /\ \A j \in DOMAIN entry : r \in Range(entry[j].waiters) => i = j
      BY <2>4, <2>5, <2>7 DEF TableInv
    <3> QED  BY <2>2, <2>4, <3>1
  <2>8. outstandingReads' = Cardinality(WaitingReads')  BY <2>1, <2>4, <2>5 DEF TableInv
  <2> QED  BY <2>6, <2>7, <2>8 DEF TableInv
<1>13. WaitersInTable'
  <2>1. \A i : InTable(i)' <=> InTable(i)  BY <1>2 DEF InTable, Key
  <2> QED  BY <1>1, <1>2, <2>1 DEF WaitersInTable, Exact
<1> QED  BY <1>5, <1>7, <1>8, <1>9, <1>10, <1>11, <1>12, <1>13 DEF IInv, Typed

\* A kernel ends, and what others wrote becomes visible.
LEMMA KernelEndStep ==
    ASSUME IInv, KernelEnd
    PROVE  IInv'
<1>1. RequestsTyped /\ OwnerTyped /\ CacheTyped /\ RequesterTyped /\ CacheInv  BY Parts
<1>2. /\ UNCHANGED <<wire, back, ownerBatches, pendingSub, subReqs, pendingRsp, l2Queue, ownerL2Rsp,
                     single, bitmap, fromInside, reqs>>
      /\ UNCHANGED <<toL1, entry, lines, uncacheable, pendingBatch, batches, batchOrder, ready,
                     outstandingReads>>
      /\ UNCHANGED <<epochs, top, l2Rsp>> /\ kernels' = kernels + 1
      /\ replica' = <<>> /\ generation' = generation + 1
  BY DEF KernelEnd, FlushReplicas, l1Vars, lineVars, batchVars, flightVars
<1>3. MaxReq + 1 + kernels \in Int /\ kernels \in Nat
  BY <1>1, RequesterAssumption DEF RequestsTyped
<1>4. mem' \in [Line -> Int] /\ latest' \in [Line -> Int]
  <2>1. mem \in [Line -> Int] /\ latest \in [Line -> Int]  BY <1>1 DEF OwnerTyped, RequestsTyped
  <2>2. PICK written \in SUBSET Line :
            /\ mem' = [l \in Line |-> IF l \in written THEN MaxReq + 1 + kernels ELSE mem[l]]
            /\ latest' = [l \in Line |-> IF l \in written THEN MaxReq + 1 + kernels ELSE latest[l]]
    BY DEF KernelEnd
  <2> QED  BY <1>3, <2>1, <2>2
<1>5. RequestsTyped'  BY <1>1, <1>2, <1>3, <1>4 DEF RequestsTyped
<1>6. CacheTyped'  BY <1>1, <1>2 DEF CacheTyped
<1>7. CacheInv'  BY <1>1, <1>2, CacheKept
<1>8. epochs' \in [Line -> Nat]  BY <1>1, <1>2 DEF RequesterTyped
<1> QED  BY <1>2, <1>4, <1>5, <1>6, <1>7, <1>8, RestKept

\* The driver, and a step that changes nothing.
LEMMA ControlStep ==
    ASSUME IInv, Drain \/ Drained \/ Restarted \/ UNCHANGED vars
    PROVE  IInv'
<1>1. RequestsTyped /\ OwnerTyped /\ CacheTyped /\ RequesterTyped /\ CacheInv  BY Parts
<1>2. /\ UNCHANGED <<wire, back, ownerBatches, pendingSub, subReqs, pendingRsp, l2Queue, ownerL2Rsp,
                     single, bitmap, fromInside, reqs>>
      /\ UNCHANGED <<toL1, entry, lines, uncacheable, pendingBatch, batches, batchOrder, ready,
                     outstandingReads>>
      /\ UNCHANGED <<mem, latest, kernels, replica, generation, top, l2Rsp>>
      /\ epochs' \in {epochs, [l \in Line |-> 0]}
  <2>1. CASE Drain
    BY <2>1 DEF Drain, DrainReq, engineVars, cacheVars, l1Vars, ownerVars, lineVars, batchVars, flightVars
  <2>2. CASE Drained
    BY <2>2 DEF Drained, DrainRsp, cacheVars, l1Vars, ownerVars, batchVars, flightVars, systemVars
  <2>3. CASE Restarted
    BY <2>3 DEF Restarted, Restart, engineVars, cacheVars, l1Vars, ownerVars, lineVars, batchVars,
                flightVars, systemVars
  <2>4. CASE UNCHANGED vars
    BY <2>4 DEF vars, cacheVars, l1Vars, ownerVars, lineVars, batchVars, flightVars, systemVars
  <2> QED  BY <2>1, <2>2, <2>3, <2>4
<1>3. RequestsTyped'  BY <1>1, <1>2 DEF RequestsTyped
<1>4. CacheTyped'  BY <1>1, <1>2 DEF CacheTyped
<1>5. CacheInv'  BY <1>1, <1>2, CacheKept
<1>6. mem' \in [Line -> Int]  BY <1>1, <1>2 DEF OwnerTyped
<1>7. epochs' \in [Line -> Nat]  BY <1>1, <1>2 DEF RequesterTyped
<1> QED  BY <1>2, <1>3, <1>4, <1>5, <1>6, <1>7, RestKept

-------------------------------------------------------------------------------
(* The invariant of the system *)

\* A step of the requester, the owner, and the beginning.
LEMMA EngineStep ==
    ASSUME IInv, Engine
    PROVE  IInv'
<1>1. UNCHANGED EngineFrame  BY DEF Engine, EngineFrame
<1>2. RequesterStep  BY DEF Engine
<1>3. CASE ReqFromL1 /\ UNCHANGED <<back, l2Rsp>>
  BY <1>1, <1>3, JoinStep, OpenStep, ForwardStep DEF ReqFromL1
<1>4. CASE TakeLookup /\ UNCHANGED top  BY <1>1, <1>4, TakeLookupStep
<1>5. CASE AddToBatch  BY <1>1, <1>5, AddToBatchStep
<1>6. CASE SendBatch  BY <1>1, <1>6, SendBatchStep
<1>7. CASE TakeSingle  BY <1>1, <1>7, TakeSingleStep
<1>8. CASE TakeBitmap  BY <1>1, <1>8, TakeBitmapStep
<1>9. CASE TakeLegacy  BY <1>1, <1>9, TakeLegacyStep
<1>10. CASE RespondOne  BY <1>1, <1>10, RespondOneStep
<1>11. CASE Finish  BY <1>1, <1>11, FinishStep
<1>12. CASE TakeFill  BY <1>1, <1>12, TakeFillStep
<1> QED  BY <1>2, <1>3, <1>4, <1>5, <1>6, <1>7, <1>8, <1>9, <1>10, <1>11, <1>12 DEF RequesterStep

LEMMA OwnerPreserves ==
    ASSUME IInv, Owner
    PROVE  IInv'
<1>1. /\ RequestsTyped /\ OwnerTyped /\ CacheTyped /\ RequesterTyped /\ FlowInv /\ OwnerInv
      /\ SentInv /\ CacheInv /\ QueueInv /\ TableInv /\ WaitersInTable
  BY Parts
<1>2. /\ OwnerStep /\ UNCHANGED <<single, bitmap, fromInside, reqs>>
      /\ UNCHANGED <<toL1, entry, lines, epochs, uncacheable, pendingBatch, batches, batchOrder, ready,
                     outstandingReads, latest, kernels, replica, generation, top, l2Rsp>>
  BY DEF Owner, cacheVars, l1Vars, lineVars, batchVars, flightVars, systemVars
<1>3. OwnerTyped' /\ FlowInv' /\ OwnerInv'  BY <1>1, <1>2, OwnerSteps
<1>4. RequestsTyped' /\ CacheTyped' /\ RequesterTyped'
  BY <1>1, <1>2 DEF RequestsTyped, CacheTyped, RequesterTyped
<1>5. 0 \notin DOMAIN reqs  BY <1>1, NumbersOfReads
<1>6. SentInv'
  <2>1. \A i \in DOMAIN entry' : Known(i)' /\ reqs[i].op = "read" /\ entry'[i].line = reqs[i].line
    BY <1>1, <1>2 DEF SentInv, Known
  <2>2. \A i \in DOMAIN entry' : i \in DOMAIN bitmap => entry'[i].state \in {"inflight", "ready"}
    BY <1>1, <1>2 DEF SentInv
  <2> QED  BY <1>1, <1>2, <1>5, <2>1, <2>2, SentKept
<1>7. CacheInv'  BY <1>1, <1>2, CacheKept
<1>8. QueueInv'
  <2>1. \A x : CollectedFor(x)' = CollectedFor(x)  BY <1>2 DEF CollectedFor
  <2>2. \A i, s : Is(i, s)' <=> Is(i, s)  BY <1>2 DEF Is
  <2> QED  BY <1>1, <1>2, <2>1, <2>2 DEF QueueInv
<1>9. TableInv' /\ WaitersInTable'  BY <1>1, <1>2, <1>5, TableKept
<1> QED  BY <1>3, <1>4, <1>6, <1>7, <1>8, <1>9 DEF IInv, Typed

LEMMA Beginning == Init => IInv
<1> SUFFICES ASSUME Init PROVE IInv  OBVIOUS
<1>1. /\ wire = <<>> /\ back = <<>> /\ ownerBatches = <<>> /\ pendingSub = <<>> /\ subReqs = {}
      /\ pendingRsp = <<>> /\ l2Queue = <<>> /\ ownerL2Rsp = <<>> /\ mem = [l \in Line |-> 0]
  BY DEF Init, OwnerInit
<1>2. replica = <<>> /\ generation = 0 /\ top = <<>> /\ l2Rsp = <<>>  BY DEF Init, CacheInit
<1>3. /\ reqs = <<>> /\ toL1 = 0 /\ entry = <<>> /\ lines = <<>>
      /\ epochs = [l \in Line |-> 0] /\ uncacheable = [l \in Line |-> FALSE]
      /\ pendingBatch = <<>> /\ batches = <<>> /\ batchOrder = <<>>
      /\ single = {} /\ bitmap = <<>> /\ fromInside = {} /\ ready = <<>> /\ outstandingReads = 0
  BY DEF Init, RequesterInit
<1>4. latest = [l \in Line |-> 0] /\ kernels = 0  BY DEF Init
<1>5. RequestsTyped  BY <1>3, <1>4, RequesterAssumption DEF RequestsTyped
<1>6. OwnerTyped
  <2>1. IsFiniteSet(subReqs)  BY <1>1, FS_EmptySet
  <2> QED  BY <1>1, <2>1 DEF OwnerTyped
<1>7. CacheTyped  BY <1>2 DEF CacheTyped
<1>8. RequesterTyped  BY <1>3 DEF RequesterTyped
<1>9. /\ Carried(ReqTokens, wire) = {} /\ Apart(ReqTokens, wire)
      /\ Carried(SubTokens, pendingSub) = {} /\ Apart(SubTokens, pendingSub)
      /\ Carried(L2Tokens, l2Queue) = {} /\ Apart(L2Tokens, l2Queue)
      /\ Carried(AnswerTokens, ownerL2Rsp) = {} /\ Apart(AnswerTokens, ownerL2Rsp)
      /\ Carried(RspTokens, back) = {} /\ Apart(RspTokens, back)
      /\ Carried(CacheTokens, top) = {} /\ Apart(CacheTokens, top)
      /\ Carried(CacheTokens, l2Rsp) = {} /\ Apart(CacheTokens, l2Rsp)
  BY <1>1, <1>2, NothingCarried
<1>10. \A p \in Place : Flow[p] = {}
  <2>1. DataTokens = {}  BY <1>1 DEF DataTokens
  <2>2. Flow = [wire |-> {}, sub |-> {}, l2 |-> {}, rsp |-> {}, data |-> {}, back |-> {}]
    BY <1>9, <2>1 DEF Flow
  <2> QED  BY <2>2 DEF Place
<1>11. FlowInv  BY <1>9, <1>10 DEF FlowInv, Disjoint
<1>12. OwnerInv
  <2>1. Range(wire) = {} /\ Range(back) = {} /\ Range(pendingRsp) = {}  BY <1>1 DEF Range
  <2>2. IsInjective(pendingRsp)  BY <1>1 DEF IsInjective
  <2>3. Flow["sub"] = {} /\ Flow["l2"] = {} /\ Flow["rsp"] = {}  BY <1>10 DEF Place
  <2> QED  BY <1>1, <2>1, <2>2, <2>3 DEF OwnerInv
<1>13. SentInv  BY <1>3 DEF SentInv
<1>14. CacheInv
  <2>1. Range(l2Rsp) = {}  BY <1>2 DEF Range
  <2> QED  BY <1>9, <2>1 DEF CacheInv
<1>15. QueueInv
  <2>1. /\ Range(pendingBatch) = {} /\ Range(ready) = {}
        /\ IsInjective(pendingBatch) /\ IsInjective(ready) /\ IsInjective(batchOrder)
    BY <1>3 DEF Range, IsInjective
  <2> QED  BY <1>3, <2>1 DEF QueueInv
<1>16. TableInv
  <2>1. WaitingReads = {}  BY <1>3 DEF WaitingReads
  <2>2. Cardinality(WaitingReads) = 0  BY <2>1, FS_EmptySet
  <2> QED  BY <1>3, <2>2 DEF TableInv
<1>17. WaitersInTable  BY <1>3 DEF WaitersInTable
<1> QED  BY <1>5, <1>6, <1>7, <1>8, <1>11, <1>12, <1>13, <1>14, <1>15, <1>16, <1>17 DEF IInv, Typed

(* Whatever the two engines exchange, each read of a line that the requester asks the  *)
(* owner for is in one place of the datapath, and the requester's tables know who      *)
(* waits for it.  This is what the other theorems follow from.                         *)
THEOREM RemoteInvariant == Spec => []IInv
<1>1. Init => IInv  BY Beginning
<1>2. IInv /\ [Next]_vars => IInv'
  <2> SUFFICES ASSUME IInv, [Next]_vars PROVE IInv'  OBVIOUS
  <2>1. ASSUME NEW op \in Op, NEW l \in Line, Issue(op, l) PROVE IInv'  BY <2>1, IssueStep
  <2>2. CASE KernelEnd  BY <2>2, KernelEndStep
  <2>3. CASE Engine  BY <2>3, EngineStep
  <2>4. CASE Owner  BY <2>4, OwnerPreserves
  <2>5. CASE Cache  BY <2>5, CacheStep
  <2>6. CASE OtherLine  BY <2>6, OtherLineStep
  <2>7. CASE Drain \/ Drained \/ Restarted \/ UNCHANGED vars  BY <2>7, ControlStep
  <2> QED  BY <2>1, <2>2, <2>3, <2>4, <2>5, <2>6, <2>7 DEF Next
<1> QED  BY <1>1, <1>2, PTL DEF Spec

(* The panics of processBitmapRspFromOutside and findTransactionByRspToID cannot       *)
(* happen: a response that the requester takes is of a request that it has in flight,  *)
(* and brings lines that the request still waits for.                                  *)
THEOREM ResponseExpectedCorrect == Spec => []ResponseExpected
<1>1. IInv => ResponseExpected
  <2> SUFFICES ASSUME IInv, back # <<>> PROVE ResponseExpected
    BY DEF ResponseExpected
  <2>a. PICK m : m = Head(back)  OBVIOUS
  <2>1. CASE m.kind = "bitmap"
    <3>1. /\ m.id \in DOMAIN bitmap /\ DOMAIN m.data # {}
          /\ \A l \in DOMAIN m.data : Unfinished(m.id, l)
      BY <2>1, <2>a, BitmapTaken
    <3>2. m.data # <<>>  BY <3>1
    <3>3. DOMAIN m.data \subseteq DOMAIN bitmap[m.id].ents \ bitmap[m.id].got
      BY <3>1 DEF Unfinished
    <3> QED  BY <2>1, <2>a, <3>1, <3>2, <3>3 DEF ResponseExpected
  <2>2. CASE m.kind # "bitmap"
    <3>1. IF m.kind = "single" THEN m.id \in single ELSE m.id \in fromInside
      BY <2>2, <2>a, SimpleWaited
    <3> QED  BY <2>2, <2>a, <3>1 DEF ResponseExpected
  <2> QED  BY <2>1, <2>2
<1> QED  BY <1>1, RemoteInvariant, PTL

(* "RDMA drained with remote read waiters outstanding", the panic of                   *)
(* resetRemoteDataPathHistory, cannot happen as long as the filter denies no line that *)
(* has an entry: without the filter, with one whose PENDING class is unreliable, or    *)
(* without deduplication.                                                              *)
THEOREM DrainedAnsweredCorrect ==
    ASSUME Exact
    PROVE  Spec => []DrainedAnswered
<1>1. IInv => DrainedAnswered
  <2> SUFFICES ASSUME IInv, FullyDrained PROVE outstandingReads = 0
    BY DEF DrainedAnswered
  <2>1. lines = <<>>  BY DEF FullyDrained
  <2>2. WaitersInTable /\ TableInv  BY Parts
  <2>3. \A i \in DOMAIN entry : entry[i].waiters = <<>>
    BY <2>1, <2>2 DEF WaitersInTable, InTable
  <2>4. \A i \in DOMAIN entry : Range(entry[i].waiters) = {}  BY <2>3 DEF Range
  <2>5. WaitingReads = {}  BY <2>4 DEF WaitingReads
  <2>6. Cardinality(WaitingReads) = 0  BY <2>5, FS_EmptySet
  <2> QED  BY <2>2, <2>6 DEF TableInv
<1> QED  BY <1>1, RemoteInvariant, PTL
===============================================================================
