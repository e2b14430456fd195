------------------------------ MODULE RdmaEngine ------------------------------
(***************************************************************************)
(* mgpusim/timing/rdma/comp.go: the RDMA engine of every GPM, without the  *)
(* T18 mechanism.  As a requester it forwards the requests of its L1       *)
(* caches to the owner of the line, as an owner it forwards the requests   *)
(* of the other GPMs to its L2, and it drains and restarts on request of   *)
(* the driver.                                                             *)
(*                                                                         *)
(* A Tick runs the stages of the engine in a fixed order, each up to       *)
(* pipelineWidth times, and a stage whose next step is impossible is tried *)
(* again in a later cycle.  Here every step of a stage is an action, and   *)
(* the stages of an engine and of different engines interleave freely:     *)
(* pipelineLatency and pipelineWidth decide which of these orders happens. *)
(*                                                                         *)
(* A request is identified by its GPM and its number there, and a value in *)
(* memory by its version: the number of writes to the line so far.         *)
(***************************************************************************)
EXTENDS Naturals, Sequences, FiniteSets, FiniteSetsExt, SequencesExt

CONSTANTS
    Gpm,            \* the GPMs, each with one RDMA engine: 0 .. n
    Ordered,        \* links of one flit per cycle
    InCap,          \* capacity of ToOutside's incoming buffer
    Line,           \* cache lines
    Owner,          \* Owner[l]: the GPM whose memory holds l
    Setup,          \* the configurations and workloads that there may be
    MaxOutstanding, \* maxOutstanding; 0: no limit
    L2Cap           \* requests that the link from ToL2 holds

ASSUME GpmAssumption == Gpm \in SUBSET Nat /\ IsFiniteSet(Gpm)
ASSUME NetAssumption == Ordered \in BOOLEAN /\ InCap \in Nat \ {0}
ASSUME OwnerAssumption == Owner \in [Line -> Gpm]
ASSUME EngineAssumption == MaxOutstanding \in Nat /\ L2Cap \in Nat \ {0}

\* A configuration: the requests of every GPM's L1 caches, in order, the switches
\* that differ between the instances, and the bounds: writes to a line by the owner's
\* own L1 caches, page migrations.
Op      == {"read", "partial", "write"}
Request == [op : Op, line : Line]
ASSUME SetupAssumption == \A s \in Setup :
    /\ s.reqs \in [Gpm -> Seq(Request)]
    /\ s.reqActive \in BOOLEAN /\ s.ownerMulticast \in BOOLEAN
    /\ s.maxLocal \in Nat /\ s.maxDrain \in Nat

VARIABLES
    net,            \* net[g][d]: packets on their way from g to d
    toOutside,      \* toOutside[g]: the incoming buffer of g's ToOutside port
    setup,          \* the configuration
    accepted,       \* accepted[g]: how many of them were retrieved from ToL1
    answers,        \* answers[g][n]: the responses sent to L1 for request n
    fromInside,     \* fromInside[g]: transactionsFromInside
    fromOutside,    \* fromOutside[g]: transactionsFromOutside
    l2Queue,        \* l2Queue[g]: requests sent to L2 and not yet served
    l2Rsp,          \* l2Rsp[g]: the incoming buffer of g's ToL2 port
    hist,           \* hist[l]: who wrote l, in the order L2 served the writes
    isDraining, pauseIncomingReqsFromL1,
    ctrl,           \* ctrl[g]: the request at g's CtrlPort
    migration,      \* the driver: "none", "drain", "move" or "restart"
    numACK,         \* numRDMADrainACK or numRDMARestartACK
    drains          \* migrations so far

netVars   == <<net, toOutside>>
l1Vars    == <<setup, accepted, answers>>
l2Vars    == <<l2Queue, l2Rsp, hist>>
ctrlVars  == <<isDraining, pauseIncomingReqsFromL1, ctrl, migration, numACK, drains>>
engineVars == <<netVars, l1Vars, fromInside, fromOutside, l2Vars, ctrlVars>>

-------------------------------------------------------------------------------
\* The network between the ToOutside ports, an abstraction of Noc: packets arrive
\* once, requests and responses share the ports, and the receiver's port is finite.
\* An endpoint accepts packets whatever the network does (Noc!PrepareFlits), so that
\* a Send is delayed but never waits for a receiver.  Links that carry one flit per
\* cycle keep the packets of a sender and a receiver in order; wider ones need not
\* (Noc!MovePipeline).

\* ToOutside.Send.
Send(g, d, m) == net' = [net EXCEPT ![g][d] = Append(@, m)]

\* One packet that the switches split: a leaf for every destination in leaf's
\* domain (T18MulticastRsp.SplitForDsts).
Multicast(g, leaf) ==
    net' = [net EXCEPT ![g] = [d \in Gpm |->
               IF d \in DOMAIN leaf THEN Append(@[d], leaf[d]) ELSE @[d]]]

Received(g) == toOutside[g] # <<>>
Retrieve(g) == toOutside' = [toOutside EXCEPT ![g] = Tail(@)]

\* The network hands a packet to the port of its destination.
Arrive(g, d) ==
    \E i \in DOMAIN net[g][d] :
        /\ Ordered => i = 1
        /\ Len(toOutside[d]) < InCap
        /\ toOutside' = [toOutside EXCEPT ![d] = Append(@, net[g][d][i])]
        /\ net' = [net EXCEPT ![g][d] = RemoveAt(@, i)]

NetInit == /\ net = [g \in Gpm |-> [d \in Gpm |-> <<>>]]
           /\ toOutside = [g \in Gpm |-> <<>>]

-------------------------------------------------------------------------------
Id(m) == <<m.src, m.seq>>

\* reqs[g]: what g's L1 caches send to ToL1, in order.
reqs == setup.reqs

EngineInit ==
    /\ NetInit
    /\ setup \in Setup
    /\ accepted = [g \in Gpm |-> 0]
    /\ answers = [g \in Gpm |-> [n \in DOMAIN reqs[g] |-> <<>>]]
    /\ fromInside = [g \in Gpm |-> {}]
    /\ fromOutside = [g \in Gpm |-> {}]
    /\ l2Queue = [g \in Gpm |-> <<>>]
    /\ l2Rsp = [g \in Gpm |-> <<>>]
    /\ hist = [l \in Line |-> <<>>]
    /\ isDraining = [g \in Gpm |-> FALSE]
    /\ pauseIncomingReqsFromL1 = [g \in Gpm |-> FALSE]
    /\ ctrl = [g \in Gpm |-> "none"]
    /\ migration = "none"
    /\ numACK = 0
    /\ drains = 0

-------------------------------------------------------------------------------
\* Requester.  processFromL1 looks at the head of ToL1 unless it is paused.

HasInput(g) == ~ pauseIncomingReqsFromL1[g] /\ accepted[g] < Len(reqs[g])

Head1(g) == reqs[g][accepted[g] + 1]

\* The packet for request n of g.
Packet(g, n) == [type |-> "req", src |-> g, seq |-> n,
                 op |-> reqs[g][n].op, line |-> reqs[g][n].line]

Accept(g) == /\ accepted' = [accepted EXCEPT ![g] = @ + 1]
             /\ UNCHANGED setup

\* ToL1.Send of the response to request n.
Answer(g, n, ver) == answers' = [answers EXCEPT ![g][n] = Append(@, ver)]

\* processReqFromL1, the baseline.
ForwardReq(g) ==
    LET n == accepted[g] + 1 IN
    /\ HasInput(g)
    /\ MaxOutstanding > 0 => Cardinality(fromInside[g]) + 1 <= MaxOutstanding
    /\ Send(g, Owner[Head1(g).line], Packet(g, n))
    /\ Accept(g)
    /\ fromInside' = [fromInside EXCEPT ![g] = @ \cup {n}]
    /\ UNCHANGED <<toOutside, answers, fromOutside, l2Vars, ctrlVars>>

HeadIs(g, type) == Received(g) /\ Head(toOutside[g]).type = type

\* processRspFromOutside, the baseline.
ForwardRsp(g) ==
    /\ HeadIs(g, "rsp")
    /\ LET m == Head(toOutside[g]) IN
           /\ m.seq \in fromInside[g]
           /\ Answer(g, m.seq, m.ver)
           /\ fromInside' = [fromInside EXCEPT ![g] = @ \ {m.seq}]
    /\ Retrieve(g)
    /\ UNCHANGED <<net, setup, accepted, fromOutside, l2Vars, ctrlVars>>

-------------------------------------------------------------------------------
\* Owner.

\* ToL2.Send.
SendL2(g, m) == /\ Len(l2Queue[g]) < L2Cap
                /\ l2Queue' = [l2Queue EXCEPT ![g] = Append(@, m)]
                /\ UNCHANGED <<l2Rsp, hist>>

\* canAcceptOwnerOutstanding, when count requests of others are under way.
CanAcceptOwner(count, window) == window > 0 => count + 1 <= window

\* processReqFromOutside.
ForwardToL2(g, count, window) ==
    /\ HeadIs(g, "req")
    /\ CanAcceptOwner(count, window)
    /\ SendL2(g, Head(toOutside[g]))
    /\ fromOutside' = [fromOutside EXCEPT ![g] = @ \cup {Id(Head(toOutside[g]))}]
    /\ Retrieve(g)
    /\ UNCHANGED <<net, l1Vars, fromInside, ctrlVars>>

\* processRspFromL2.
ForwardFromL2(g) ==
    /\ l2Rsp[g] # <<>>
    /\ LET r == Head(l2Rsp[g]) IN
           /\ r.id \in fromOutside[g]
           /\ Send(g, r.id[1], [type |-> "rsp", seq |-> r.id[2], ver |-> r.ver])
           /\ fromOutside' = [fromOutside EXCEPT ![g] = @ \ {r.id}]
    /\ l2Rsp' = [l2Rsp EXCEPT ![g] = Tail(@)]
    /\ UNCHANGED <<toOutside, l1Vars, fromInside, l2Queue, hist, ctrlVars>>

\* The L2 of g serves the requests of one line in order, those of different
\* lines in any order.
L2Serve(g) == \E i \in DOMAIN l2Queue[g] :
    LET m == l2Queue[g][i]
        after == IF m.op = "write" THEN Append(hist[m.line], Id(m)) ELSE hist[m.line]
    IN  /\ \A j \in 1 .. i - 1 : l2Queue[g][j].line # m.line
        /\ Len(l2Rsp[g]) < InCap
        /\ hist' = [hist EXCEPT ![m.line] = after]
        /\ l2Queue' = [l2Queue EXCEPT ![g] = RemoveAt(@, i)]
        /\ l2Rsp' = [l2Rsp EXCEPT ![g] = Append(@, [id |-> Id(m), ver |-> Len(after)])]
        /\ UNCHANGED <<netVars, l1Vars, fromInside, fromOutside, ctrlVars>>

\* A write by an L1 cache of the owner itself, which does not go through RDMA.
LocalWrite(l) ==
    /\ Cardinality({i \in DOMAIN hist[l] : hist[l][i][2] = 0}) < setup.maxLocal
    /\ hist' = [hist EXCEPT ![l] = Append(@, <<Owner[l], 0>>)]
    /\ UNCHANGED <<netVars, l1Vars, fromInside, fromOutside, l2Queue, l2Rsp, ctrlVars>>

NetStep == /\ \E g, d \in Gpm : Arrive(g, d)
           /\ UNCHANGED <<l1Vars, fromInside, fromOutside, l2Vars, ctrlVars>>

-------------------------------------------------------------------------------
\* Draining.  The driver drains every RDMA engine, moves the pages when all of
\* them have answered, and then restarts every engine.

DriverSend(to, what) ==
    /\ migration' = to
    /\ ctrl' = [g \in Gpm |-> what]
    /\ numACK' = Cardinality(Gpm)
    /\ UNCHANGED <<isDraining, pauseIncomingReqsFromL1>>

InitiateRDMADrain == /\ migration = "none" /\ drains < setup.maxDrain
                     /\ DriverSend("drain", "drain")
                     /\ drains' = drains + 1

PrepareRDMARestart == /\ migration = "move"
                      /\ DriverSend("restart", "restart")
                      /\ UNCHANGED drains

\* The response to the driver, which waits for those of all engines.
ACK(to) == /\ numACK' = numACK - 1
           /\ migration' = IF numACK = 1 THEN to ELSE migration
           /\ UNCHANGED drains

\* processFromCtrlPort.
ProcessDrainReq(g) ==
    /\ ctrl[g] = "drain"
    /\ ctrl' = [ctrl EXCEPT ![g] = "none"]
    /\ isDraining' = [isDraining EXCEPT ![g] = TRUE]
    /\ pauseIncomingReqsFromL1' = [pauseIncomingReqsFromL1 EXCEPT ![g] = TRUE]
    /\ UNCHANGED <<migration, numACK, drains>>

\* processRDMARestartReq.  The response is always accepted: the only other message that this
\* port sends, the answer to the drain request, was received before the driver asked for
\* the restart.
ProcessRestartReq(g) ==
    /\ ctrl[g] = "restart"
    /\ ctrl' = [ctrl EXCEPT ![g] = "none"]
    /\ pauseIncomingReqsFromL1' = [pauseIncomingReqsFromL1 EXCEPT ![g] = FALSE]
    /\ ACK("none")
    /\ UNCHANGED isDraining

\* Mutant: the transactions from inside are forgotten.
DrainOwnerOnly(g, pending) ==
    /\ isDraining[g]
    /\ fromOutside[g] = {} /\ ~ pending
    /\ isDraining' = [isDraining EXCEPT ![g] = FALSE]
    /\ ACK("move")
    /\ UNCHANGED <<ctrl, pauseIncomingReqsFromL1>>

\* drainRDMA; pending: t18HasPendingWork.
DrainRDMA(g, pending) ==
    /\ isDraining[g]
    /\ fromInside[g] = {} /\ fromOutside[g] = {} /\ ~ pending
    /\ isDraining' = [isDraining EXCEPT ![g] = FALSE]
    /\ ACK("move")
    /\ UNCHANGED <<ctrl, pauseIncomingReqsFromL1>>

DriverNext == InitiateRDMADrain \/ PrepareRDMARestart
CtrlNext(g, pending) == ProcessDrainReq(g) \/ ProcessRestartReq(g) \/ DrainRDMA(g, pending)
===============================================================================
