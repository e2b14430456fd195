------------------------------ MODULE PingSystem ------------------------------
(***************************************************************************)
(* Ticking components on one DirectConnection: the TickingPingAgent of     *)
(* akita/sim/ticking_ping_test.go, N of them.  An agent sends pings and    *)
(* answers the pings it gets after CycleLeft of its ticks, both through    *)
(* one port.  Its Tick reports progress as component_system.md asks of     *)
(* every component: it may go to sleep whenever it could do nothing, and   *)
(* relies on NotifyRecv and NotifyPortFree to be woken.                    *)
(***************************************************************************)
EXTENDS DirectConnection

CONSTANTS
    MaxPing,    \* an agent has up to MaxPing pings to send
    CycleLeft   \* cycles an agent takes to answer

ASSUME PingAssumption == MaxPing \in Nat /\ CycleLeft \in Nat

VARIABLES
    trans,      \* trans[a]: currentTransactions, the pings a has to answer
    numPing,    \* numPing[a]: numPingNeedToSend
    pingDst,    \* pingDst[a]: the agent a sends its pings to
    nextSeq,    \* nextSeq[a]: nextSeqID
    answered    \* answered[a]: the SeqIDs a has printed, in order

agentVars == <<trans, numPing, pingDst, nextSeq, answered>>
vars == <<schedVars, connVars, agentVars>>

Ping(a)      == [type |-> "ping", src |-> a, dst |-> pingDst[a], seq |-> nextSeq[a]]
PingRsp(a, m) == [type |-> "rsp", src |-> a, dst |-> m.src, seq |-> m.seq]

\* The agents with pings to send are started with TickLater(0).
Starter == {a \in Agent : numPing[a] > 0}

Init ==
    /\ now = 0
    /\ numPing \in [Agent -> 0 .. MaxPing]
    /\ pingDst \in {f \in [Agent -> Agent] : \A a \in Agent : f[a] = a <=> numPing[a] = 0}
    /\ queue = {[time |-> NextTick(0, a), handler |-> a] : a \in Starter}
    /\ next = [h \in Handler |-> IF h \in Starter THEN NextTick(0, h) ELSE -1]
    /\ pc = [h \in Handler |-> "idle"]
    /\ progress = [h \in Handler |-> FALSE]
    /\ inBuf = [a \in Agent |-> <<>>]
    /\ outBuf = [a \in Agent |-> <<>>]
    /\ portBusy = [a \in Agent |-> FALSE]
    /\ endBusy = [a \in Agent |-> FALSE]
    /\ nextPortID = 0
    /\ scan = 0
    /\ trans = [a \in Agent |-> <<>>]
    /\ nextSeq = [a \in Agent |-> 0]
    /\ answered = [a \in Agent |-> <<>>]

-------------------------------------------------------------------------------
\* The Tick of an agent: sendRsp, sendPing, countDown, processInput.

AgentBegin(a) == \E e \in queue :
    /\ e.handler = a
    /\ Begin(e, "sendRsp")
    /\ UNCHANGED <<connVars, agentVars>>

HasRsp(a) == trans[a] # <<>> /\ Head(trans[a]).cycleLeft = 0

SendRsp(a) ==
    /\ pc[a] = "sendRsp" /\ HasRsp(a)
    /\ SendOk(a, PingRsp(a, Head(trans[a])))
    /\ trans' = [trans EXCEPT ![a] = Tail(@)]
    /\ Goto(a, "sendPing", TRUE)
    /\ UNCHANGED <<now, nextPortID, scan, numPing, pingDst, nextSeq, answered>>

SendRspFail(a) ==
    /\ pc[a] = "sendRsp" /\ HasRsp(a)
    /\ SendFail(a)
    /\ Goto(a, "sendPing", FALSE)
    /\ UNCHANGED <<now, nextPortID, scan, agentVars>>

NoRsp(a) ==
    /\ pc[a] = "sendRsp" /\ ~ HasRsp(a)
    /\ Goto(a, "sendPing", FALSE)
    /\ UNCHANGED <<now, queue, next, connVars, agentVars>>

SendPing(a) ==
    /\ pc[a] = "sendPing" /\ numPing[a] > 0
    /\ SendOk(a, Ping(a))
    /\ numPing' = [numPing EXCEPT ![a] = @ - 1]
    /\ nextSeq' = [nextSeq EXCEPT ![a] = @ + 1]
    /\ Goto(a, "countDown", TRUE)
    /\ UNCHANGED <<now, nextPortID, scan, trans, pingDst, answered>>

SendPingFail(a) ==
    /\ pc[a] = "sendPing" /\ numPing[a] > 0
    /\ SendFail(a)
    /\ Goto(a, "countDown", FALSE)
    /\ UNCHANGED <<now, nextPortID, scan, agentVars>>

NoPing(a) ==
    /\ pc[a] = "sendPing" /\ numPing[a] = 0
    /\ Goto(a, "countDown", FALSE)
    /\ UNCHANGED <<now, queue, next, connVars, agentVars>>

Decrement(ts) ==
    [i \in DOMAIN ts |-> [ts[i] EXCEPT !.cycleLeft = IF @ > 0 THEN @ - 1 ELSE 0]]

CountDown(a) ==
    /\ pc[a] = "countDown"
    /\ trans' = [trans EXCEPT ![a] = Decrement(@)]
    /\ Goto(a, "processInput", \E i \in DOMAIN trans[a] : trans[a][i].cycleLeft > 0)
    /\ UNCHANGED <<now, queue, next, connVars, numPing, pingDst, nextSeq, answered>>

ProcessPing(a) ==
    /\ pc[a] = "processInput" /\ inBuf[a] # <<>>
    /\ LET m == Head(inBuf[a]) IN
           /\ m.type = "ping"
           /\ trans' = [trans EXCEPT ![a] =
                  Append(@, [src |-> m.src, seq |-> m.seq, cycleLeft |-> CycleLeft])]
    /\ Retrieve(a)
    /\ Goto(a, "end", TRUE)
    /\ UNCHANGED <<now, nextPortID, scan, numPing, pingDst, nextSeq, answered>>

ProcessRsp(a) ==
    /\ pc[a] = "processInput" /\ inBuf[a] # <<>>
    /\ LET m == Head(inBuf[a]) IN
           /\ m.type = "rsp"
           /\ answered' = [answered EXCEPT ![a] = Append(@, m.seq)]
    /\ Retrieve(a)
    /\ Goto(a, "end", TRUE)
    /\ UNCHANGED <<now, nextPortID, scan, trans, numPing, pingDst, nextSeq>>

NoInput(a) ==
    /\ pc[a] = "processInput" /\ inBuf[a] = <<>>
    /\ Goto(a, "end", FALSE)
    /\ UNCHANGED <<now, queue, next, connVars, agentVars>>

AgentEnd(a) == EndTick(a) /\ UNCHANGED <<connVars, agentVars>>

AgentNext(a) ==
    \/ AgentBegin(a) \/ SendRsp(a) \/ SendRspFail(a) \/ NoRsp(a)
    \/ SendPing(a) \/ SendPingFail(a) \/ NoPing(a) \/ CountDown(a)
    \/ ProcessPing(a) \/ ProcessRsp(a) \/ NoInput(a) \/ AgentEnd(a)

\* The engine's Run returns when no event is left.
Finished == Idle /\ queue = {} /\ UNCHANGED vars

Next ==
    \/ \E a \in Agent : AgentNext(a)
    \/ ConnNext /\ UNCHANGED agentVars
    \/ Finished

\* Engine.Run loops until the queues are empty, and a handler never blocks.
Spec == Init /\ [][Next]_vars /\ WF_vars(Next)

-------------------------------------------------------------------------------
Msg   == [type : {"ping", "rsp"}, src : Agent, dst : Agent, seq : Nat]
Trans == [src : Agent, seq : Nat, cycleLeft : 0 .. CycleLeft]

AgentTypeOK ==
    /\ trans \in [Agent -> Seq(Trans)]
    /\ numPing \in [Agent -> Nat]
    /\ pingDst \in [Agent -> Agent]
    /\ nextSeq \in [Agent -> Nat]
    /\ answered \in [Agent -> Seq(Nat)]

Location == {"idle", "sendRsp", "sendPing", "countDown", "processInput", "forward", "end"}

PcTypeOK ==
    /\ pc[Conn] \in {"idle", "forward", "end"}
    /\ \A a \in Agent : pc[a] # "forward"

\* Types, and buffers within their capacities: Buffer.Push panics on an overflow.
TypeOK == SchedTypeOK(Location) /\ ConnTypeOK(Msg) /\ AgentTypeOK /\ PcTypeOK

\* component_system.md: "we never miss any opportunity to make progress".  When
\* the engine has run out of events, no message is left in a port or in the
\* connection, no ping is left to send and none is left to answer: every
\* component that had stopped ticking while it had work to do was woken.
NoLostWakeup ==
    Idle /\ queue = {} =>
        \A a \in Agent : /\ inBuf[a] = <<>> /\ outBuf[a] = <<>>
                         /\ trans[a] = <<>> /\ numPing[a] = 0

\* A refused delivery or a refused send is remembered only as long as the buffer
\* is full, so that the notification which clears the mark is still to come.
BusyMeansFull ==
    \A a \in Agent : /\ portBusy[a] => Len(inBuf[a]) = InCap[a]
                     /\ endBusy[a] => Len(outBuf[a]) = OutCap[a]

\* Why nothing is forgotten: whoever has something to do has a tick to come, is
\* before that point of its Tick, or is remembered by the buffer that blocks it.
ConnAwake == \A p \in Agent : outBuf[p] # <<>> =>
    \/ Awake(Conn)
    \/ portBusy[Head(outBuf[p]).dst]
    \/ pc[Conn] = "forward" /\ \E i \in scan .. N - 1 : PortAt(i) = p

InputAwake(a) == inBuf[a] # <<>> =>
    Awake(a) \/ pc[a] \in {"sendRsp", "sendPing", "countDown", "processInput"}

PingAwake(a) == numPing[a] > 0 =>
    Awake(a) \/ pc[a] \in {"sendRsp", "sendPing"} \/ endBusy[a]

RspAwake(a) == trans[a] # <<>> =>
    \/ Awake(a) \/ pc[a] = "sendRsp" \/ endBusy[a]
    \/ pc[a] \in {"sendPing", "countDown"} /\ Head(trans[a]).cycleLeft > 0

AgentAwake(a) == InputAwake(a) /\ PingAwake(a) /\ RspAwake(a)

\* The inductive invariant behind NoLostWakeup.
WakeInv ==
    /\ SchedInv
    /\ BusyMeansFull
    /\ pc[Conn] # "forward" => scan = 0
    /\ ConnAwake
    /\ \A a \in Agent : AgentAwake(a)

\* Every ping is answered in the end: connection_system.md promises that the
\* packets "will arrive at the destination port at some time in the future".
AllAnswered == <>[](\A a \in Agent : numPing[a] = 0 /\ Len(answered[a]) = nextSeq[a])

\* connection_system.md: "No packet will drop".  The connection's buffers are FIFO
\* channels between any two agents, from which messages move to the ports alone.
Channel == INSTANCE FifoChannel WITH
    End <- Agent,
    channel <- [s \in Agent |-> [d \in Agent |->
                    SelectSeq(outBuf[s], LAMBDA m : m.dst = d)]],
    inbox <- inBuf

ReliableDelivery == Channel!Spec
===============================================================================
