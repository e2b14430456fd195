------------------------------- MODULE T18System -------------------------------
(***************************************************************************)
(* The RDMA engines of all GPMs with T18 switched on or off, in one        *)
(* wafer: requesters, owners, the network between them, the owners' L2,    *)
(* and the driver that drains and restarts them to move pages.             *)
(***************************************************************************)
EXTENDS T18Owner

vars == <<engineVars, reqVars, ownerVars>>

Init == EngineInit /\ ReqInit /\ OwnerInit

\* RequesterActive: T18 replaces the baseline requester.
ReqActive == setup.reqActive

\* Config.Enabled, and the limit of canAcceptOwnerOutstanding.
Enabled == ReqActive \/ OwnerMerge
OwnerLimit == IF Enabled THEN OwnerWindow ELSE MaxOutstanding

\* processFromL1.
FromL1(g) ==
    \/ /\ ReqActive
       /\ Merge(g) \/ Track(g) \/ Bypass(g)
       /\ UNCHANGED <<netVars, fromInside, fromOutside, l2Vars, ctrlVars, ownerVars>>
    \/ /\ ~ ReqActive /\ ForwardReq(g)
       /\ UNCHANGED <<reqVars, ownerVars>>

\* processFromOutside, a response.
RspFromOutside(g) ==
    \/ /\ ReqActive /\ Response(g)
       /\ UNCHANGED <<fromInside, fromOutside, l2Vars, ctrlVars, ownerVars>>
    \/ /\ ~ ReqActive /\ ForwardRsp(g)
       /\ UNCHANGED <<reqVars, ownerVars>>

\* processFromOutside, a request.
ReqFromOutside(g) ==
    OwnerJoin(g) \/ OwnerRead(g) \/ OwnerBaseline(g, OwnerLimit) \/ OwnerWriteBlocked(g, OwnerLimit)

FromL2(g) == OwnerL2Rsp(g) \/ (ForwardFromL2(g) /\ UNCHANGED <<reqVars, ownerVars>>)

OwnerSend(g) == SendMulticast(g) \/ SendUnicast(g)

ReqIssue(g) == /\ Issue(g)
               /\ UNCHANGED <<fromInside, fromOutside, l2Vars, ctrlVars, ownerVars>>

FanoutStep(g) == /\ Fanout(g)
                 /\ UNCHANGED <<fromInside, fromOutside, l2Vars, ctrlVars, ownerVars>>

\* t18HasPendingWork.
HasPendingWork(g) == ReqPending(g) \/ OwnerPending(g)

Ctrl(g) ==
    /\ CtrlNext(g, HasPendingWork(g))
    /\ UNCHANGED <<netVars, l1Vars, fromInside, fromOutside, l2Vars, reqVars, ownerVars>>

Driver == DriverNext /\ UNCHANGED <<netVars, l1Vars, fromInside, fromOutside, l2Vars,
                                    reqVars, ownerVars>>

L2AndNetwork == /\ NetStep \/ \E g \in Gpm : L2Serve(g)
                /\ UNCHANGED <<reqVars, ownerVars>>

LocalWrites == /\ \E l \in Line : LocalWrite(l)
               /\ UNCHANGED <<reqVars, ownerVars>>

Answered(g) == \A n \in DOMAIN reqs[g] : answers[g][n] # <<>>

Engine(g) ==
    \/ FromL1(g) \/ RspFromOutside(g) \/ ReqFromOutside(g) \/ FromL2(g)
    \/ OwnerSend(g) \/ ReqIssue(g) \/ FanoutStep(g) \/ Ctrl(g)

Next ==
    \/ \E g \in Gpm : Engine(g)
    \/ Driver
    \/ L2AndNetwork
    \/ LocalWrites

\* What is sure to happen.  The driver need not start a migration, and an
\* insertion that finds Ways slots taken need not succeed.
Sure ==
    \/ L2AndNetwork
    \/ \E g \in Gpm : /\ Engine(g)
                      /\ Cardinality(Table(g)) >= Ways => ~ Track(g)
    \/ PrepareRDMARestart /\ Driver

\* Every stage is tried in every Tick.  The workloads are finite, so that it is
\* enough that something is done as long as something can be done.
Spec == Init /\ [][Next]_vars /\ WF_vars(Sure)

-------------------------------------------------------------------------------
ReqId == Gpm \X Nat
ReqMsg == [type : {"req"}, src : Gpm, seq : Nat, op : Op, line : Line]
RspMsg == [type : {"rsp"}, seq : Nat, ver : Nat]

\* The types, and the limits of the buffers, tables and windows: the allocator
\* panics when the window is exceeded, the driver's counters when they wrap.
TypeOK ==
    /\ \A g, d \in Gpm : net[g][d] \in Seq(ReqMsg \cup RspMsg)
    /\ \A g \in Gpm : /\ toOutside[g] \in Seq(ReqMsg \cup RspMsg)
                      /\ Len(toOutside[g]) <= InCap
                      /\ accepted[g] \in 0 .. Len(reqs[g])
                      /\ fromInside[g] \subseteq DOMAIN reqs[g]
                      /\ fromOutside[g] \subseteq ReqId
                      /\ l2Queue[g] \in Seq(ReqMsg)
                      /\ l2Rsp[g] \in Seq([id : ReqId, ver : Nat])
                      /\ entries[g] \subseteq Entry
                      /\ Cardinality(Table(g)) <= TableCap
                      /\ reqQueues[g] \in [Gpm -> Seq(Nat)]
                      /\ fanout[g] \in Seq([req : Nat, ver : Nat])
                      /\ ownerTable[g] \subseteq OwnerEntry
                      /\ Cardinality(ownerTable[g]) <= OwnerTableCap
                      /\ ownerRspQueue[g] \in Seq([reqs : Seq(ReqId), ver : Nat,
                                                   multicast : BOOLEAN])
    /\ hist \in [Line -> Seq(ReqId)]
    /\ isDraining \in [Gpm -> BOOLEAN] /\ pauseIncomingReqsFromL1 \in [Gpm -> BOOLEAN]
    /\ ctrl \in [Gpm -> {"none", "drain", "restart"}]
    /\ migration \in {"none", "drain", "move", "restart"}
    /\ numACK \in 0 .. Cardinality(Gpm) /\ drains \in 0 .. setup.maxDrain

\* The counters agree with the transactions they count, whatever the order of
\* acceptance, issue, response and fan-out, and none exceeds its limit.  The
\* requester: transactions in flight, altogether and by destination, and
\* requests accepted and not answered.  The owner: reads merged or to be
\* answered, which together with the baseline's share one window.
Sent(g) == {e \in entries[g] : e.sent}

RequesterCounters == \A g \in Gpm :
    /\ total[g] = Cardinality(Sent(g)) /\ total[g] <= Window
    /\ \A d \in Gpm : inflight[g][d] = Cardinality({e \in Sent(g) : e.dst = d})
    /\ ReqActive => waiters[g] = Cardinality({n \in 1 .. accepted[g] : answers[g][n] = <<>>})
    /\ waiters[g] <= WaiterCap

OwnerCounters == \A g \in Gpm :
    /\ ownerLive[g] = Cardinality(ownerTable[g]) + Len(ownerRspQueue[g])
    /\ OwnerLimit > 0 => Cardinality(fromOutside[g]) + ownerLive[g] <= OwnerLimit

\* A request with a credit of its own gets a slot before all that came later, and
\* borrowers leave room for it.  From the time the requests before it in its queue
\* and the transactions in flight leave it one of the credits of its destination,
\* no younger request is sent before it, whatever responses return and whoever
\* borrows.  The window falls short of the credits owed to the destinations with
\* requests queued (Debt) only by what was lent before they had any: it falls further
\* short only when another destination begins to wait.
Debt(g) == Reserved(Credits[g], inflight[g], Waiting(g)) - (Window - total[g])

HasCredit(g, d, i) == inflight[g][d] + i <= Credits[g][d]
IssuedTo(g, d) == Len(reqQueues'[g][d]) < Len(reqQueues[g][d])

OwedFirst == [][
    ReqActive => \A g \in Gpm :
        /\ \A d, e \in Gpm : \A i \in DOMAIN reqQueues[g][e] :
               IssuedTo(g, d) /\ HasCredit(g, e, i) => Head(reqQueues[g][d]) <= reqQueues[g][e][i]
        /\ 0 < Debt(g)' /\ Debt(g) < Debt(g)' => ~ (Waiting(g)' \subseteq Waiting(g))]_vars

\* A request that was accepted waits in one entry, or for its fan-out, or has
\* been answered, once: merging loses and duplicates no response.
Occurrences(s, n) == Cardinality({i \in DOMAIN s : s[i] = n})

AnsweredOnce == \A g \in Gpm : \A n \in DOMAIN reqs[g] :
    LET waiting == {e \in entries[g] : n \in Range(e.waiters)}
        ready   == {i \in DOMAIN fanout[g] : fanout[g][i].req = n}
    IN  /\ \A e \in waiting : Occurrences(e.waiters, n) = 1
        /\ Cardinality(waiting) + Cardinality(ready) + Len(answers[g][n])
               + (IF n \in fromInside[g] THEN 1 ELSE 0)
           = IF n <= accepted[g] THEN 1 ELSE 0

\* "Same-line requests keep their order ... reads that arrive after the write
\* [...] observe the write as in the baseline": a read returns all the writes its
\* GPM sent before it and none that its GPM sent after it, and the reads of one
\* GPM never go back to an older version of the line.
ReadsInOrder == \A g \in Gpm : \A n \in DOMAIN reqs[g] :
    reqs[g][n].op # "write" /\ answers[g][n] # <<>> =>
        LET line == reqs[g][n].line
            seen == {hist[line][i] : i \in 1 .. answers[g][n][1]}
            same == {m \in DOMAIN reqs[g] : reqs[g][m].line = line /\ m # n}
        IN  /\ \A m \in same : reqs[g][m].op = "write" => (m < n <=> <<g, m>> \in seen)
            /\ \A m \in same : m < n /\ reqs[g][m].op # "write" /\ answers[g][m] # <<>> =>
                   answers[g][m][1] <= answers[g][n][1]

\* "Reads merged before the write return the pre-write value, exactly what they
\* would get if each had been forwarded to L2 on arrival": when a read joins an
\* entry, no write that passes the engine was served, or is to be served, after the
\* L2 read of the entry.
NoWriteAfter(g, e) ==
    LET WriteFrom(i) == \E j \in i .. Len(l2Queue[g]) :
                            l2Queue[g][j].op = "write" /\ l2Queue[g][j].line = e.line
    IN  /\ \A i \in DOMAIN l2Queue[g] : Id(l2Queue[g][i]) = e.id => ~ WriteFrom(i)
        /\ \A i \in DOMAIN l2Rsp[g] : l2Rsp[g][i].id = e.id =>
               /\ ~ WriteFrom(1)
               /\ \A j \in l2Rsp[g][i].ver + 1 .. Len(hist[e.line]) : hist[e.line][j][2] = 0

MergedAsForwarded == [][
    \A g \in Gpm : \A e \in ownerTable[g] : \A f \in ownerTable'[g] :
        e.id = f.id /\ e.reqs # f.reqs => NoWriteAfter(g, e)]_vars

\* The driver moves pages only when no request of any GPM is under way, in an
\* engine, in the network or in an L2, although every engine answers the drain
\* request as soon as it has nothing to do itself.
NothingUnderWay == \A g \in Gpm :
    /\ entries[g] = {} /\ fanout[g] = <<>> /\ toOutside[g] = <<>>
    /\ \A d \in Gpm : net[g][d] = <<>>
    /\ l2Queue[g] = <<>> /\ l2Rsp[g] = <<>>
    /\ ownerTable[g] = {} /\ ownerRspQueue[g] = <<>>
    /\ fromInside[g] = {} /\ fromOutside[g] = {}

DrainedBeforeMove == migration = "move" => NothingUnderWay

\* Every request is answered and every migration ends.
AllAnswered == <>[](migration = "none" /\ \A g \in Gpm : Answered(g))
===============================================================================
