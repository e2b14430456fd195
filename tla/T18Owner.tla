------------------------------- MODULE T18Owner -------------------------------
(***************************************************************************)
(* mgpusim/timing/rdma/t18_owner.go: the owner engine of T18.  Full-line   *)
(* reads of a line whose L2 read is pending join the entry of that read,   *)
(* and the response goes to all of them.                                   *)
(***************************************************************************)
EXTENDS T18Requester

CONSTANTS
    OwnerMerge,     \* merge reads into pending L2 reads
    OwnerWindow,    \* in-flight limit of the owner
    OwnerTableCap   \* slots of the merge table

ASSUME OwnerSideAssumption ==
    /\ OwnerMerge \in BOOLEAN
    /\ {OwnerWindow, OwnerTableCap} \subseteq Nat \ {0}
    /\ Ways <= OwnerTableCap

VARIABLES
    ownerTable,     \* ownerTable[g]: the t18OwnerEntry's with a pending L2 read
    ownerRspQueue,  \* ownerRspQueue[g]: entries whose responses are to be sent
    ownerLive       \* ownerLive[g]

ownerVars == <<ownerTable, ownerRspQueue, ownerLive>>

\* The id of an entry is that of its first request, reqs the requests to answer.
OwnerEntry == [id : Gpm \X Nat, line : Line, open : BOOLEAN, reqs : Seq(Gpm \X Nat)]

OwnerInit == /\ ownerTable = [g \in Gpm |-> {}]
             /\ ownerRspQueue = [g \in Gpm |-> <<>>]
             /\ ownerLive = [g \in Gpm |-> 0]

\* Answer a merged read with one multicast packet.
OwnerMulticast == setup.ownerMulticast

OwnerOpen(g, l) == {e \in ownerTable[g] : e.open /\ e.line = l}
HasRequester(e, src) == \E i \in DOMAIN e.reqs : e.reqs[i][1] = src

\* ownerOutstandingCount.
OwnerCount(g) == Cardinality(fromOutside[g]) + ownerLive[g]

-------------------------------------------------------------------------------
\* t18OwnerReqFromOutside, for the request m at the head of ToOutside.

OwnerJoin(g) ==
    /\ OwnerMerge /\ HeadIs(g, "req")
    /\ LET m == Head(toOutside[g]) IN
           /\ Mergeable(m)
           /\ \E e \in OwnerOpen(g, m.line) :
                  /\ ~ HasRequester(e, m.src)
                  /\ ownerTable' = [ownerTable EXCEPT ![g] = (@ \ {e}) \cup
                         {[e EXCEPT !.reqs = Append(@, Id(m))]}]
    /\ Retrieve(g)
    /\ UNCHANGED <<net, l1Vars, fromInside, fromOutside, l2Vars, ctrlVars, reqVars,
                   ownerRspQueue, ownerLive>>

OwnerRead(g) ==
    /\ OwnerMerge /\ HeadIs(g, "req")
    /\ LET m == Head(toOutside[g]) IN
           /\ Mergeable(m) /\ OwnerOpen(g, m.line) = {}
           /\ CanAcceptOwner(OwnerCount(g), OwnerWindow)
           /\ Cardinality(ownerTable[g]) < OwnerTableCap
           /\ SendL2(g, m)
           /\ ownerTable' = [ownerTable EXCEPT ![g] = @ \cup
                  {[id |-> Id(m), line |-> m.line, open |-> TRUE, reqs |-> <<Id(m)>>]}]
    /\ ownerLive' = [ownerLive EXCEPT ![g] = @ + 1]
    /\ Retrieve(g)
    /\ UNCHANGED <<net, l1Vars, fromInside, fromOutside, ctrlVars, reqVars, ownerRspQueue>>

\* Mutant: a write closes nothing.
OwnerCloseNone(es, l) == es

\* t18OwnerCloseLines.
OwnerCloseLines(es, l) ==
    {IF e.line = l THEN [e EXCEPT !.open = FALSE] ELSE e : e \in es}

\* The lines of a write are closed even if the write cannot be forwarded yet.
OwnerWriteBlocked(g, limit) ==
    /\ ~ CanAcceptOwner(OwnerCount(g), limit) \/ Len(l2Queue[g]) >= L2Cap
    /\ OwnerMerge /\ HeadIs(g, "req")
    /\ LET m == Head(toOutside[g]) IN
           /\ m.op = "write" /\ OwnerOpen(g, m.line) # {}
           /\ ownerTable' = [ownerTable EXCEPT ![g] = OwnerCloseLines(@, m.line)]
    /\ UNCHANGED <<netVars, l1Vars, fromInside, fromOutside, l2Vars, ctrlVars, reqVars,
                   ownerRspQueue, ownerLive>>

\* What is left to the baseline: writes, reads of a part of a line, reads by a
\* requester that is in the bitmap, and reads whose insertion fails.
Baseline(g, m) ==
    \/ ~ OwnerMerge
    \/ ~ Mergeable(m)
    \/ \E e \in OwnerOpen(g, m.line) : HasRequester(e, m.src)
    \/ OwnerOpen(g, m.line) = {} /\ Cardinality(ownerTable[g]) >= Ways

OwnerBaseline(g, limit) ==
    /\ HeadIs(g, "req")
    /\ LET m == Head(toOutside[g]) IN
           /\ Baseline(g, m)
           /\ ownerTable' = IF OwnerMerge /\ m.op = "write"
                            THEN [ownerTable EXCEPT ![g] = OwnerCloseLines(@, m.line)]
                            ELSE ownerTable
    /\ ForwardToL2(g, OwnerCount(g), limit)
    /\ UNCHANGED <<reqVars, ownerRspQueue, ownerLive>>

-------------------------------------------------------------------------------
\* t18OwnerL2Rsp.
OwnerL2Rsp(g) ==
    /\ l2Rsp[g] # <<>>
    /\ \E e \in ownerTable[g] :
           /\ e.id = Head(l2Rsp[g]).id
           /\ ownerTable' = [ownerTable EXCEPT ![g] = @ \ {e}]
           /\ ownerRspQueue' = [ownerRspQueue EXCEPT ![g] = Append(@,
                  [reqs |-> e.reqs, ver |-> Head(l2Rsp[g]).ver,
                   multicast |-> OwnerMulticast /\ Len(e.reqs) > 1])]
    /\ l2Rsp' = [l2Rsp EXCEPT ![g] = Tail(@)]
    /\ UNCHANGED <<netVars, l1Vars, fromInside, fromOutside, l2Queue, hist, ctrlVars,
                   reqVars, ownerLive>>

\* t18OwnerSend, one packet.
Rsp(id, ver) == [type |-> "rsp", seq |-> id[2], ver |-> ver]

\* Mutant: the entry counts for ever.
EntryStays(g, last) == ownerLive' = ownerLive

\* The entry is given up with its last response.
EntryDone(g, last) == ownerLive' = [ownerLive EXCEPT ![g] = IF last THEN @ - 1 ELSE @]

SendMulticast(g) ==
    /\ ownerRspQueue[g] # <<>> /\ Head(ownerRspQueue[g]).multicast
    /\ LET e == Head(ownerRspQueue[g])
           To == {e.reqs[i][1] : i \in DOMAIN e.reqs}
           IdOf(d) == CHOOSE id \in Range(e.reqs) : id[1] = d
       IN  Multicast(g, [d \in To |-> Rsp(IdOf(d), e.ver)])
    /\ ownerRspQueue' = [ownerRspQueue EXCEPT ![g] = Tail(@)]
    /\ EntryDone(g, TRUE)
    /\ UNCHANGED <<toOutside, l1Vars, fromInside, fromOutside, l2Vars, ctrlVars, reqVars,
                   ownerTable>>

SendUnicast(g) ==
    /\ ownerRspQueue[g] # <<>> /\ ~ Head(ownerRspQueue[g]).multicast
    /\ LET e == Head(ownerRspQueue[g])
           last == Len(e.reqs) = 1
       IN  /\ Send(g, Head(e.reqs)[1], Rsp(Head(e.reqs), e.ver))
           /\ ownerRspQueue' = [ownerRspQueue EXCEPT ![g] =
                  (IF last THEN <<>> ELSE <<[e EXCEPT !.reqs = Tail(@)]>>) \o Tail(@)]
           /\ EntryDone(g, last)
    /\ UNCHANGED <<toOutside, l1Vars, fromInside, fromOutside, l2Vars, ctrlVars, reqVars,
                   ownerTable>>

\* The owner's part of t18HasPendingWork.
OwnerPending(g) == ownerLive[g] > 0 \/ ownerRspQueue[g] # <<>>
===============================================================================
