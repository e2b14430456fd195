---------------------------- MODULE RemoteRequester ----------------------------
(***************************************************************************)
(* The requester side of the remote datapath (mgpusim/timing/rdma/         *)
(* remote_requester.go, and comp.go for what is not a full-line read):     *)
(* reads of one line share an entry, entries of one page share a bitmap    *)
(* request, and lines that are read again are kept in the requester's own  *)
(* L2.  A write starts a new epoch of its line.                            *)
(*                                                                         *)
(* The requests of the L1 caches are numbered in the order in which they   *)
(* arrive at ToL1, and an entry has the number of its first read.  A tick  *)
(* runs the stages of the engine in a fixed order, each up to              *)
(* pipelineWidth times; a stage whose next step is impossible, or beyond   *)
(* the width, is tried again.  Here a step of a stage is an action, and    *)
(* the stages interleave freely.                                           *)
(*                                                                         *)
(* The typed filter appears through its answers.  Its SEEN and RESIDENT    *)
(* keys are hints that may be wrong in both ways.  A lookup of a PENDING   *)
(* key may be positive whatever the filter holds (another key's signature, *)
(* an update not yet visible, a class that has become unreliable), and     *)
(* negative when the key is absent.                                        *)
(***************************************************************************)
EXTENDS RemoteOwner, ReplicaCache

CONSTANTS
    Dedup,          \* not DisableDedup
    RequesterL2,    \* not DisableRequesterL2
    Filter,         \* "none", "unreliable" (its PENDING class) or "cuckoo"
    Op,             \* what the L1 caches send: full reads, writes, other reads
    MaxReq          \* bound: requests

ASSUME RequesterAssumption == /\ {Dedup, RequesterL2} \subseteq BOOLEAN
                              /\ Filter \in {"none", "unreliable", "cuckoo"}
                              /\ Op \subseteq {"read", "write", "partial"}
                              /\ MaxReq \in Nat

VARIABLES
    reqs,           \* the requests so far; want: the write whose data a read is to return
    toL1,           \* the request at the head of ToL1, or 0
    answer,         \* the responses sent to L1
    entry,          \* the remoteLineEntry's that something refers to
    lines,          \* remoteLines, by line and epoch
    epochs, uncacheable,
    pending,        \* the PENDING keys in the filter
    probes,         \* remoteProbes
    pendingBatch,   \* remotePendingBatch
    batches,        \* remoteBatches: by page, the entries by line
    batchOrder,     \* remoteBatchOrder
    single, bitmap, \* remoteSingleInflight and remoteBitmapInflight, by id
    fromInside,     \* transactionsFromInside
    ready,          \* remoteReady
    fills,          \* remoteFillInflight
    outstandingReads,
    paused, draining

lineVars  == <<entry, lines, epochs, uncacheable, pending>>
batchVars == <<pendingBatch, batches, batchOrder>>
flightVars == <<probes, single, bitmap, fromInside, ready, fills>>
ctrlVars  == <<paused, draining>>
l1Vars    == <<reqs, toL1, answer>>

Waiting == -1

RequesterInit ==
    /\ reqs = <<>> /\ toL1 = 0 /\ answer = <<>>
    /\ entry = <<>> /\ lines = <<>> /\ pending = {}
    /\ epochs = [l \in Line |-> 0] /\ uncacheable = [l \in Line |-> FALSE]
    /\ probes = {} /\ pendingBatch = <<>> /\ batches = <<>> /\ batchOrder = <<>>
    /\ single = {} /\ bitmap = <<>> /\ fromInside = {} /\ ready = <<>> /\ fills = {}
    /\ outstandingReads = 0
    /\ paused = FALSE /\ draining = FALSE

Page(l) == l \div PageLines
Key(e)  == <<e.line, e.epoch>>

\* remoteOutstandingCapacity: of the line table, and of the waiters.
Capacity == MaxBatches * MaxBatchLines * 2

\* canAcceptRequesterOutstanding(1) and Send.
RequesterSends(m) ==
    /\ MaxOutstanding = 0 \/
           Cardinality(fromInside) + Cardinality(single) + Cardinality(DOMAIN bitmap) < MaxOutstanding
    /\ Len(wire) < WireCap
    /\ wire' = Append(wire, m)

Queued(id) == IF id \in Range(ready) THEN ready ELSE Append(ready, id)
-------------------------------------------------------------------------------
\* tryProcessRemoteReqFromL1, for the request r at the head of ToL1.

FullRead == toL1 # 0 /\ ~ paused /\ reqs[toL1].op = "read"
OtherReq == toL1 # 0 /\ ~ paused /\ reqs[toL1].op # "read"
HeadLine == reqs[toL1].line
HeadKey  == <<HeadLine, epochs[HeadLine]>>

\* remotePendingMayContain.
MayContain == IF Filter = "cuckoo" /\ HeadLine \notin pending THEN BOOLEAN ELSE {TRUE}

\* consumeRemoteRead.
Consume == /\ outstandingReads < Capacity
           /\ outstandingReads' = outstandingReads + 1
           /\ toL1' = 0

\* addRemoteWaiter.
WithWaiter(e, r) == [e EXCEPT !.waiters = Append(@, r),
                              !.admit = @ \/ (/\ Len(e.waiters) >= 1
                                              /\ RequesterL2 /\ ~ uncacheable[e.line])]

\* A read that finds the data at hand.
QueueIfData(id) == IF entry[id].data = NoData THEN ready ELSE Queued(id)

\* The read joins an entry.
Join ==
    /\ FullRead /\ Dedup
    /\ TRUE \in MayContain /\ HeadKey \in DOMAIN lines
    /\ LET id == lines[HeadKey] IN
           /\ entry' = [entry EXCEPT ![id] = WithWaiter(@, toL1)]
           /\ ready' = QueueIfData(id)
    /\ Consume
    /\ UNCHANGED <<reqs, answer, lines, epochs, uncacheable, pending, batchVars,
                   probes, single, bitmap, fromInside, fills, wire, top>>

NewEntry(l, ep, seen) ==
    [line |-> l, epoch |-> ep, state |-> "probing", waiters |-> <<toL1>>, data |-> NoData,
     admit |-> seen, fromRemote |-> FALSE, gen |-> 0, fill |-> "none"]

\* Without deduplication every read gets an epoch of its own.
FreeEpoch == IF Dedup THEN epochs[HeadLine]
             ELSE CHOOSE n \in epochs[HeadLine] .. epochs[HeadLine] + MaxReq :
                      /\ <<HeadLine, n>> \notin DOMAIN lines
                      /\ \A k \in epochs[HeadLine] .. n - 1 : <<HeadLine, k>> \in DOMAIN lines

\* The read opens an entry: it is looked up in the requester's L2 or goes to a batch.
Open ==
    /\ FullRead
    /\ ~ Dedup \/ HeadKey \notin DOMAIN lines \/ FALSE \in MayContain
    /\ Cardinality(DOMAIN lines) < Capacity
    /\ Consume
    /\ epochs' = [epochs EXCEPT ![HeadLine] = FreeEpoch]
    /\ lines' = With(lines, <<HeadLine, FreeEpoch>>, toL1)
    /\ pending' = IF Filter = "none" THEN pending ELSE pending \cup {HeadLine}
    /\ LET eligible == RequesterL2 /\ ~ uncacheable[HeadLine]
           hints == Filter # "none"
       IN \/ /\ eligible /\ Len(top) < TopCap
             /\ \E seen \in IF hints THEN BOOLEAN ELSE {FALSE} :
                    entry' = With(entry, toL1, NewEntry(HeadLine, FreeEpoch, seen))
             /\ top' = Append(top, [kind |-> "lookup", id |-> toL1, line |-> HeadLine])
             /\ probes' = probes \cup {toL1}
             /\ UNCHANGED pendingBatch
          \/ /\ ~ eligible \/ hints
             /\ entry' = With(entry, toL1,
                              [NewEntry(HeadLine, FreeEpoch, FALSE) EXCEPT !.state = "pending"])
             /\ pendingBatch' = Append(pendingBatch, toL1)
             /\ UNCHANGED <<top, probes>>
    /\ UNCHANGED <<reqs, answer, uncacheable, batches, batchOrder, single, bitmap, fromInside,
                   ready, fills, wire>>

\* hasUnsentRemoteRead.
HasUnsent(l) == \E k \in DOMAIN lines :
                    k[1] = l /\ entry[lines[k]].state \in {"probing", "pending", "collecting"}

\* noteLegacyRemoteReqSent.
NextEpoch(l) == [epochs EXCEPT ![l] = @ + 1]

\* A write, or a read of a part of a line (processReqFromL1).
Forward ==
    /\ OtherReq /\ Page(HeadLine) \notin DOMAIN batches
    /\ LET write == reqs[toL1].op = "write" IN
           /\ write => ~ HasUnsent(HeadLine)
           /\ RequesterSends([kind |-> reqs[toL1].op, id |-> toL1, line |-> HeadLine])
           /\ epochs' = IF write THEN NextEpoch(HeadLine) ELSE epochs
           /\ uncacheable' = [uncacheable EXCEPT ![HeadLine] = @ \/ write]
    /\ fromInside' = fromInside \cup {toL1}
    /\ toL1' = 0
    /\ UNCHANGED <<reqs, answer, entry, lines, pending, batchVars, probes, single, bitmap,
                   ready, fills, outstandingReads, top>>

ReqFromL1 == Join \/ Open \/ Forward
-------------------------------------------------------------------------------
\* processRemoteProbeRsp.
TakeLookup ==
    /\ l2Rsp # <<>> /\ Head(l2Rsp).kind = "lookup"
    /\ LET m == Head(l2Rsp) IN
           /\ entry' = [entry EXCEPT ![m.id].gen = m.gen, ![m.id].data = m.data,
                                     ![m.id].state = IF m.hit THEN "ready" ELSE "pending"]
           /\ ready' = IF m.hit THEN Queued(m.id) ELSE ready
           /\ pendingBatch' = IF m.hit THEN pendingBatch ELSE Append(pendingBatch, m.id)
           /\ probes' = probes \ {m.id}
    /\ l2Rsp' = Tail(l2Rsp)
    /\ UNCHANGED <<lines, epochs, uncacheable, pending, batches, batchOrder, single, bitmap,
                   fromInside, fills, outstandingReads, wire, back, l1Vars>>

\* processRemotePendingBatches, tryAddRemoteEntryToBatch.  An entry of a line that is
\* already in the batch takes the place of the other.
AddToBatch ==
    /\ pendingBatch # <<>>
    /\ LET id == Head(pendingBatch)  l == entry[id].line  p == Page(l) IN
           /\ IF p \in DOMAIN batches
              THEN l \in DOMAIN batches[p] \/ Cardinality(DOMAIN batches[p]) < MaxBatchLines
              ELSE Len(batchOrder) < MaxBatches
           /\ batches' = With(batches, p, With(IF p \in DOMAIN batches THEN batches[p] ELSE <<>>, l, id))
           /\ batchOrder' = IF p \in DOMAIN batches THEN batchOrder ELSE Append(batchOrder, p)
           /\ entry' = [entry EXCEPT ![id].state = "collecting"]
    /\ pendingBatch' = Tail(pendingBatch)
    /\ UNCHANGED <<lines, epochs, uncacheable, pending, flightVars, outstandingReads, wire, back,
                   l1Vars, top, l2Rsp>>

\* flushRemoteBatch.
Flush(p) ==
    LET b == batches[p]  ids == Range(b)  id == Min(ids) IN
    /\ IF Cardinality(ids) = 1
       THEN /\ RequesterSends([kind |-> "single", id |-> id, line |-> entry[id].line])
            /\ single' = single \cup {id}
            /\ UNCHANGED bitmap
       ELSE /\ RequesterSends([kind |-> "bitmap", id |-> id, lines |-> DOMAIN b])
            /\ bitmap' = With(bitmap, id, [ents |-> b, got |-> {}])
            /\ UNCHANGED single
    /\ entry' = [i \in DOMAIN entry |-> IF i \in ids
                    THEN [entry[i] EXCEPT !.state = "inflight", !.fromRemote = TRUE] ELSE entry[i]]
    /\ batches' = Without(batches, p)
    /\ batchOrder' = RemoveFirst(batchOrder, p)
    /\ UNCHANGED <<lines, epochs, uncacheable, pending, pendingBatch, probes, fromInside, ready,
                   fills, outstandingReads, back, l1Vars, top, l2Rsp>>

\* processRemoteBatches, in the order of the batches, and the batch of the page that a
\* write or a read of a part of a line is about.
SendBatch ==
    \/ batchOrder # <<>> /\ Flush(Head(batchOrder))
    \/ OtherReq /\ Page(HeadLine) \in DOMAIN batches /\ Flush(Page(HeadLine))
-------------------------------------------------------------------------------
WithData(e, d) == [e EXCEPT !.data = d, !.state = "ready"]

\* processRemoteSingleRsp.
TakeSingle ==
    /\ back # <<>> /\ Head(back).kind = "single"
    /\ LET id == Head(back).id IN
           /\ entry' = [entry EXCEPT ![id] = WithData(@, Head(back).data)]
           /\ single' = single \ {id}
           /\ ready' = Queued(id)
    /\ back' = Tail(back)
    /\ UNCHANGED <<lines, epochs, uncacheable, pending, batchVars, probes, bitmap, fromInside,
                   fills, outstandingReads, wire, l1Vars, top, l2Rsp>>

\* The entries become ready in the order of their lines.
QueuedInOrder(ids) ==
    \E order \in Ascending({l \in DOMAIN ids : ids[l] \notin Range(ready)}) :
        ready' = ready \o [n \in DOMAIN order |-> ids[order[n]]]

\* processBitmapRspFromOutside.
TakeBitmap ==
    /\ back # <<>> /\ Head(back).kind = "bitmap"
    /\ LET m == Head(back)  b == bitmap[m.id]  got == b.got \cup DOMAIN m.data
           ids == [l \in DOMAIN m.data |-> b.ents[l]]
       IN  /\ entry' = [i \in DOMAIN entry |-> IF i \in Range(ids)
                           THEN WithData(entry[i], m.data[entry[i].line]) ELSE entry[i]]
           /\ QueuedInOrder(ids)
           /\ bitmap' = IF got = DOMAIN b.ents THEN Without(bitmap, m.id)
                        ELSE [bitmap EXCEPT ![m.id].got = got]
    /\ back' = Tail(back)
    /\ UNCHANGED <<lines, epochs, uncacheable, pending, batchVars, probes, single, fromInside,
                   fills, outstandingReads, wire, l1Vars, top, l2Rsp>>

\* processRspFromOutside.
TakeLegacy ==
    /\ back # <<>> /\ Head(back).kind \in {"write", "partial"}
    /\ answer' = [answer EXCEPT ![Head(back).id] = Head(back).data]
    /\ fromInside' = fromInside \ {Head(back).id}
    /\ back' = Tail(back)
    /\ UNCHANGED <<lineVars, batchVars, probes, single, bitmap, ready, fills, outstandingReads,
                   wire, reqs, toL1, top, l2Rsp>>
-------------------------------------------------------------------------------
\* processRemoteReady, for the entry id at its head.

RespondOne ==
    /\ ready # <<>>
    /\ LET id == Head(ready)  e == entry[id] IN
           /\ e.waiters # <<>>
           /\ answer' = [answer EXCEPT ![Head(e.waiters)] = e.data]
           /\ entry' = [entry EXCEPT ![id].waiters = Tail(@)]
    /\ outstandingReads' = outstandingReads - 1
    /\ UNCHANGED <<lines, epochs, uncacheable, pending, batchVars, flightVars, wire, back,
                   reqs, toL1, top, l2Rsp>>

\* The entry is the one that the line table has under its key.
InTable(id) == Key(entry[id]) \in DOMAIN lines /\ lines[Key(entry[id])] = id

\* removeRemoteLine.
RemoveLine(id) ==
    /\ lines' = IF InTable(id) THEN Without(lines, Key(entry[id])) ELSE lines
    /\ pending' = IF InTable(id) THEN pending \ {entry[id].line} ELSE pending

\* shouldFill.
Admitted(e) == e.fromRemote /\ RequesterL2 /\ e.admit /\ ~ uncacheable[e.line]

\* The last waiter has its answer: the line is kept in the requester's L2, or forgotten.
Finish ==
    /\ ready # <<>>
    /\ LET id == Head(ready)  e == entry[id] IN
           /\ e.waiters = <<>>
           /\ \/ /\ Admitted(e) /\ e.fill = "none" /\ Len(top) < TopCap
                 /\ top' = Append(top, [kind |-> "fill", id |-> id, line |-> e.line,
                                        data |-> e.data, gen |-> e.gen])
                 /\ entry' = [entry EXCEPT ![id].fill = "inflight"]
                 /\ fills' = fills \cup {id}
                 /\ UNCHANGED <<lines, pending>>
              \/ /\ e.fill = "inflight"
                 /\ UNCHANGED <<entry, lines, pending, top, fills>>
              \/ /\ e.fill # "inflight" /\ (Admitted(e) => e.fill = "done")
                 /\ RemoveLine(id)
                 /\ entry' = Without(entry, id)
                 /\ UNCHANGED <<top, fills>>
    /\ ready' = Tail(ready)
    /\ UNCHANGED <<epochs, uncacheable, batchVars, probes, single, bitmap, fromInside,
                   outstandingReads, wire, back, l1Vars, l2Rsp>>

\* processRemoteFillRsp.
TakeFill ==
    /\ l2Rsp # <<>> /\ Head(l2Rsp).kind = "fill"
    /\ LET id == Head(l2Rsp).id  done == [entry EXCEPT ![id].fill = "done"] IN
           /\ fills' = fills \ {id}
           /\ IF entry[id].waiters # <<>>
              THEN entry' = done /\ ready' = Queued(id) /\ UNCHANGED <<lines, pending>>
              ELSE /\ RemoveLine(id)
                   /\ entry' = IF id \in Range(ready) THEN done ELSE Without(entry, id)
                   /\ UNCHANGED ready
    /\ l2Rsp' = Tail(l2Rsp)
    /\ UNCHANGED <<epochs, uncacheable, batchVars, probes, single, bitmap, fromInside,
                   outstandingReads, wire, back, l1Vars, top>>
-------------------------------------------------------------------------------
\* processFromCtrlPort and drainRDMA.

\* Mutant: entries whose data are at hand are not work.
ForgetReady == /\ fromInside = {} /\ batchOrder = <<>> /\ probes = {} /\ pendingBatch = <<>>
               /\ single = {} /\ bitmap = <<>> /\ fills = {}

\* fullyDrained.
FullyDrained == /\ fromInside = {} /\ batchOrder = <<>> /\ lines = <<>> /\ probes = {}
                /\ pendingBatch = <<>> /\ single = {} /\ bitmap = <<>> /\ fills = {} /\ ready = <<>>

DrainReq == /\ ~ paused
            /\ paused' = TRUE /\ draining' = TRUE

\* The response, and resetRemoteDataPathHistory.
DrainRsp == /\ draining /\ FullyDrained
            /\ draining' = FALSE
            /\ epochs' = [l \in Line |-> 0]
            /\ pending' = {}
            /\ UNCHANGED <<paused, entry, lines, uncacheable>>

Restart == /\ paused /\ ~ draining
           /\ paused' = FALSE
           /\ UNCHANGED draining

RequesterStep == \/ ReqFromL1 /\ UNCHANGED <<back, l2Rsp>>
                 \/ TakeLookup /\ UNCHANGED top
                 \/ AddToBatch \/ SendBatch
                 \/ TakeSingle \/ TakeBitmap \/ TakeLegacy
                 \/ RespondOne \/ Finish \/ TakeFill
===============================================================================
