------------------------------ MODULE RemoteOwner ------------------------------
(***************************************************************************)
(* The owner side of the remote datapath (mgpusim/timing/rdma/             *)
(* remote_owner.go, and comp.go for the requests that are not bitmaps):    *)
(* an engine that reads the lines of a bitmap request one by one from its  *)
(* L2 and answers with what is there.                                      *)
(*                                                                         *)
(* L2 serves requests of one line in the order of their arrival, others in *)
(* any order.                                                              *)
(***************************************************************************)
EXTENDS Naturals, Sequences, FiniteSets, FiniteSetsExt, Functions, SequencesExt

CONSTANTS
    Line,           \* the lines of the owner, numbered in the order of their addresses
    PageLines,      \* lines of one page
    MaxBatchLines,  \* RemoteDataPathConfig: lines of one bitmap request
    MaxBatches,     \* ... and bitmap requests at a time
    MaxOutstanding, \* maxOutstanding; 0: no limit
    WireCap         \* messages on their way between the two engines

ASSUME OwnerAssumption == /\ Line \in SUBSET Nat /\ IsFiniteSet(Line)
                          /\ {PageLines, MaxBatchLines, MaxBatches, WireCap} \subseteq Nat \ {0}
                          /\ MaxOutstanding \in Nat

VARIABLES
    wire,           \* requests on their way to the owner's ToOutside
    back,           \* responses on their way to the requester's ToOutside
    ownerBatches,   \* remoteOwnerBatches, by id: lines to come, data to send
    pendingSub,     \* remoteOwnerPendingReq: reads to be sent to L2
    subReqs,        \* remoteOwnerSubReqs: reads without a response
    pendingRsp,     \* remoteOwnerPendingRsp
    fromOutside,    \* transactionsFromOutside
    l2Queue,        \* requests sent to L2 and not yet served
    ownerL2Rsp,     \* the incoming buffer of ToL2
    mem             \* the data of the lines

ownerVars == <<ownerBatches, pendingSub, subReqs, pendingRsp, fromOutside, l2Queue, ownerL2Rsp, mem>>

OwnerInit ==
    /\ wire = <<>> /\ back = <<>>
    /\ ownerBatches = <<>>
    /\ pendingSub = <<>> /\ subReqs = {} /\ pendingRsp = <<>>
    /\ fromOutside = {}
    /\ l2Queue = <<>> /\ ownerL2Rsp = <<>>
    /\ mem = [l \in Line |-> 0]

With(f, k, v) == [x \in DOMAIN f \cup {k} |-> IF x = k THEN v ELSE f[x]]
Without(f, k) == Restrict(f, DOMAIN f \ {k})

Ascending(S) == {s \in SetToSeqs(S) : \A i, j \in DOMAIN s : i < j => s[i] < s[j]}

\* canAcceptOwnerOutstanding(1).
OwnerAccepts == \/ MaxOutstanding = 0
                \/ Cardinality(fromOutside) + Cardinality(DOMAIN ownerBatches) < MaxOutstanding

-------------------------------------------------------------------------------
\* processFromOutside: nothing passes the reads that wait for L2.

OwnerLooks == wire # <<>> /\ pendingSub = <<>>

\* processBitmapReqFromOutside.
OwnerTakesBitmap ==
    /\ OwnerLooks /\ Head(wire).kind = "bitmap"
    /\ LET m == Head(wire)  subs == {<<m.id, l>> : l \in m.lines} IN
           /\ Cardinality(DOMAIN ownerBatches) + 1 <= MaxBatches
           /\ Cardinality(subReqs) + Cardinality(subs) <= MaxBatches * MaxBatchLines
           /\ OwnerAccepts
           /\ ownerBatches' = With(ownerBatches, m.id,
                                   [remaining |-> Cardinality(subs), data |-> <<>>])
           /\ \E order \in Ascending(m.lines) :
                  pendingSub' = [i \in DOMAIN order |-> <<m.id, order[i]>>]
           /\ subReqs' = subReqs \cup subs
    /\ wire' = Tail(wire)
    /\ UNCHANGED <<back, pendingRsp, fromOutside, l2Queue, ownerL2Rsp, mem>>

\* processReqFromOutside.
OwnerForwards ==
    /\ OwnerLooks /\ Head(wire).kind # "bitmap"
    /\ OwnerAccepts
    /\ fromOutside' = fromOutside \cup {Head(wire).id}
    /\ l2Queue' = Append(l2Queue, Head(wire))
    /\ wire' = Tail(wire)
    /\ UNCHANGED <<back, ownerBatches, pendingSub, subReqs, pendingRsp, ownerL2Rsp, mem>>

\* processRemoteOwnerPendingReqs.
OwnerReads ==
    /\ pendingSub # <<>>
    /\ LET s == Head(pendingSub) IN
           l2Queue' = Append(l2Queue, [kind |-> "sub", id |-> s[1], line |-> s[2]])
    /\ pendingSub' = Tail(pendingSub)
    /\ UNCHANGED <<wire, back, ownerBatches, subReqs, pendingRsp, fromOutside, ownerL2Rsp, mem>>

\* The owner's L2.
L2Serves(i) ==
    /\ \A j \in 1 .. i - 1 : l2Queue[j].line # l2Queue[i].line
    /\ LET m == l2Queue[i] IN
           /\ mem' = IF m.kind = "write" THEN [mem EXCEPT ![m.line] = m.id] ELSE mem
           /\ ownerL2Rsp' = Append(ownerL2Rsp,
                  [kind |-> m.kind, id |-> m.id, line |-> m.line, data |-> mem[m.line]])
    /\ l2Queue' = RemoveAt(l2Queue, i)
    /\ UNCHANGED <<wire, back, ownerBatches, pendingSub, subReqs, pendingRsp, fromOutside>>

\* Mutant: the last line of a batch does not queue its response.
QueuedUnlessLast(id) == IF id \in Range(pendingRsp) \/ ownerBatches[id].remaining = 1
                        THEN pendingRsp ELSE Append(pendingRsp, id)

\* The batch waits once for the port, however many lines it has.
QueuedRsp(id) == IF id \in Range(pendingRsp) THEN pendingRsp ELSE Append(pendingRsp, id)

\* processRemoteOwnerSubRsp.
OwnerTakesLine ==
    /\ ownerL2Rsp # <<>> /\ Head(ownerL2Rsp).kind = "sub"
    /\ LET m == Head(ownerL2Rsp) IN
           /\ subReqs' = subReqs \ {<<m.id, m.line>>}
           /\ ownerBatches' = [ownerBatches EXCEPT
                  ![m.id] = [remaining |-> @.remaining - 1, data |-> With(@.data, m.line, m.data)]]
           /\ pendingRsp' = QueuedRsp(m.id)
    /\ ownerL2Rsp' = Tail(ownerL2Rsp)
    /\ UNCHANGED <<wire, back, pendingSub, fromOutside, l2Queue, mem>>

\* processRspFromL2.
OwnerReturns ==
    /\ ownerL2Rsp # <<>> /\ Head(ownerL2Rsp).kind # "sub"
    /\ Len(back) < WireCap
    /\ back' = Append(back, Head(ownerL2Rsp))
    /\ fromOutside' = fromOutside \ {Head(ownerL2Rsp).id}
    /\ ownerL2Rsp' = Tail(ownerL2Rsp)
    /\ UNCHANGED <<wire, ownerBatches, pendingSub, subReqs, pendingRsp, l2Queue, mem>>

\* Mutant: the lines of a partial response are sent again with the next.
SentLinesStay(b) == b

\* What is left of a batch when the data at hand are on their way.
LinesSent(b) == [b EXCEPT !.data = <<>>]

\* processRemoteOwnerPendingRsps: a response with the lines at hand.
OwnerAnswers ==
    /\ pendingRsp # <<>> /\ Len(back) < WireCap
    /\ LET id == Head(pendingRsp)  b == ownerBatches[id] IN
           /\ back' = Append(back, [kind |-> "bitmap", id |-> id, data |-> b.data])
           /\ ownerBatches' = IF b.remaining = 0 THEN Without(ownerBatches, id)
                              ELSE [ownerBatches EXCEPT ![id] = LinesSent(b)]
    /\ pendingRsp' = Tail(pendingRsp)
    /\ UNCHANGED <<wire, pendingSub, subReqs, fromOutside, l2Queue, ownerL2Rsp, mem>>

OwnerStep ==
    \/ OwnerTakesBitmap \/ OwnerForwards \/ OwnerReads
    \/ \E i \in DOMAIN l2Queue : L2Serves(i)
    \/ OwnerTakesLine \/ OwnerReturns \/ OwnerAnswers
===============================================================================
