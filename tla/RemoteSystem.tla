----------------------------- MODULE RemoteSystem -----------------------------
(***************************************************************************)
(* The remote datapath of one GPM and one owner, with the owner's L2, the  *)
(* requester's L2, the driver that drains the engine, and kernels: when    *)
(* all requests of a kernel are answered the L2 caches are flushed, and    *)
(* what other GPMs wrote in the meantime is what the next kernel has to    *)
(* see.  The links carry one flit per cycle and keep the order.            *)
(***************************************************************************)
EXTENDS RemoteRequester

CONSTANTS MaxKernel, MaxDrain       \* bounds

ASSUME SystemAssumption == {MaxKernel, MaxDrain} \subseteq Nat

VARIABLES
    latest,     \* the last write of each line, in the order of ToL1
    starting,   \* no request since the last flush
    kernels, drains

systemVars == <<latest, starting, kernels, drains>>
vars == <<wire, back, ownerVars, cacheVars, l1Vars, lineVars, batchVars, flightVars,
          outstandingReads, ctrlVars, systemVars>>

Init == /\ OwnerInit /\ CacheInit /\ RequesterInit
        /\ latest = [l \in Line |-> 0]
        /\ starting = TRUE /\ kernels = 0 /\ drains = 0

Answered == \A r \in DOMAIN answer : answer[r] # Waiting

engineVars == <<wire, back, ownerVars, lineVars, batchVars, flightVars, outstandingReads>>

\* An L1 cache sends a request.  A kernel starts long after the flush of the last one,
\* when every fill has been acknowledged.
Issue(op, l) ==
    /\ toL1 = 0 /\ Len(reqs) < MaxReq
    /\ starting => lines = <<>>
    /\ toL1' = Len(reqs) + 1
    /\ reqs' = Append(reqs, [op |-> op, line |-> l, want |-> latest[l]])
    /\ answer' = Append(answer, Waiting)
    /\ latest' = IF op = "write" THEN [latest EXCEPT ![l] = toL1'] ELSE latest
    /\ starting' = FALSE
    /\ UNCHANGED <<engineVars, cacheVars, ctrlVars, kernels, drains>>

\* The flush at the end of a kernel.  Fills may still be on their way.
KernelEnd ==
    /\ kernels < MaxKernel /\ Answered /\ ~ starting
    /\ \E written \in SUBSET Line :
           /\ mem' = [l \in Line |-> IF l \in written THEN MaxReq + 1 + kernels ELSE mem[l]]
           /\ latest' = [l \in Line |-> IF l \in written THEN MaxReq + 1 + kernels ELSE latest[l]]
    /\ FlushReplicas
    /\ starting' = TRUE /\ kernels' = kernels + 1
    /\ UNCHANGED <<wire, back, ownerBatches, pendingSub, subReqs, pendingRsp, fromOutside, l2Queue,
                   ownerL2Rsp, top, l2Rsp, l1Vars, lineVars, batchVars, flightVars,
                   outstandingReads, ctrlVars, drains>>

Engine == RequesterStep /\ UNCHANGED <<ownerVars, replica, generation, ctrlVars, systemVars>>

Owner == /\ OwnerStep
         /\ UNCHANGED <<cacheVars, l1Vars, lineVars, batchVars, flightVars, outstandingReads,
                        ctrlVars, systemVars>>

Cache == /\ \E i \in DOMAIN top : Lookup(i) \/ Fill(i)
         /\ UNCHANGED <<engineVars, l1Vars, ctrlVars, systemVars>>

OtherLine == /\ \E l \in Line : Displace(l)
             /\ UNCHANGED <<engineVars, l1Vars, ctrlVars, systemVars>>

Drain == /\ drains < MaxDrain /\ DrainReq
         /\ drains' = drains + 1
         /\ UNCHANGED <<engineVars, cacheVars, l1Vars, latest, starting, kernels>>

Drained == /\ DrainRsp
           /\ UNCHANGED <<wire, back, ownerVars, cacheVars, l1Vars, batchVars, flightVars,
                          outstandingReads, systemVars>>

Restarted == /\ Restart
             /\ UNCHANGED <<engineVars, cacheVars, l1Vars, systemVars>>

Next == \/ \E op \in Op, l \in Line : Issue(op, l)
        \/ KernelEnd \/ Engine \/ Owner \/ Cache \/ OtherLine
        \/ Drain \/ Drained \/ Restarted

\* The components tick as long as they make progress, and the driver restarts what it
\* has drained.  Nothing makes the L1 caches send, a kernel end, or another line need a way.
Spec == /\ Init /\ [][Next]_vars
        /\ WF_vars(Engine) /\ WF_vars(Owner) /\ WF_vars(Cache)
        /\ WF_vars(Drained) /\ WF_vars(Restarted)
-------------------------------------------------------------------------------
TypeOK ==
    /\ \A r \in DOMAIN reqs : reqs[r].op \in Op /\ reqs[r].line \in Line
    /\ toL1 \in 0 .. Len(reqs) /\ DOMAIN answer = DOMAIN reqs
    /\ DOMAIN entry \subseteq DOMAIN reqs /\ Range(lines) \subseteq DOMAIN entry
    /\ Cardinality(DOMAIN lines) <= Capacity /\ outstandingReads \in 0 .. Capacity
    /\ Len(batchOrder) <= MaxBatches /\ Range(batchOrder) = DOMAIN batches
    /\ \A p \in DOMAIN batches : Cardinality(DOMAIN batches[p]) \in 1 .. MaxBatchLines
    /\ MaxOutstanding > 0 => Cardinality(fromInside) + Cardinality(single) +
                                 Cardinality(DOMAIN bitmap) <= MaxOutstanding
    /\ Cardinality(subReqs) <= MaxBatches * MaxBatchLines
    /\ mem \in [Line -> Nat]

\* A read returns the data of the last write before it at ToL1, and of no later one,
\* however it was served: by a response that other reads wait for, in a bitmap, from a
\* copy in the requester's L2 -- and, after a kernel's end, what others wrote before it.
ReadsInOrder ==
    \A r \in DOMAIN reqs : reqs[r].op # "write" => answer[r] \in {Waiting, reqs[r].want}

\* "RDMA drained with remote read waiters outstanding", the panic of
\* resetRemoteDataPathHistory, does not happen.
DrainedAnswered == draining /\ FullyDrained => outstandingReads = 0

\* The panics of processBitmapRspFromOutside and of findTransactionByRspToID do not
\* happen: a response is of a request in flight, and of lines that it still waits for.
ResponseExpected == back # <<>> =>
    LET m == Head(back) IN
    CASE m.kind = "single" -> m.id \in single
      [] m.kind = "bitmap" -> /\ m.id \in DOMAIN bitmap /\ m.data # <<>>
                              /\ DOMAIN m.data \subseteq DOMAIN bitmap[m.id].ents \ bitmap[m.id].got
      [] OTHER -> m.id \in fromInside

\* "Exact same-line waiter aggregation": the line table knows every entry that will
\* ask the owner for its line, so that no two are of the same line and epoch.
OneFetch ==
    \A i \in DOMAIN entry : entry[i].state # "ready" =>
        Key(entry[i]) \in DOMAIN lines /\ lines[Key(entry[i])] = i

\* Every request is answered, whatever joins, drains or is displaced.
AllAnswered == \A r \in 1 .. MaxReq : []<>(r \in DOMAIN answer => answer[r] # Waiting)
===============================================================================
