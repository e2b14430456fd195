--------------------------- MODULE DirectConnection ---------------------------
(***************************************************************************)
(* akita/sim/directconnection.go and port.go: N components, each with one  *)
(* LimitNumMsgPort, plugged in to one DirectConnection.  A port and its    *)
(* component have the same number.                                         *)
(***************************************************************************)
EXTENDS TickScheduler, Sequences

CONSTANTS
    InCap,      \* InCap[p]: capacity of port p's incoming buffer
    OutCap      \* OutCap[p]: sourceSideBufSize the port was plugged in with

ASSUME CapAssumption == InCap \in [Agent -> Nat \ {0}] /\ OutCap \in [Agent -> Nat \ {0}]

VARIABLES
    inBuf,      \* inBuf[p]: the port's incoming buffer
    portBusy,   \* portBusy[p]: the connection failed to deliver to the port
    outBuf,     \* outBuf[p]: the connection's buffer for messages from p
    endBusy,    \* endBusy[p]: p's component failed to send
    nextPortID, \* port the next Tick of the connection starts from
    scan        \* number of ports the running Tick has gone through

connVars == <<inBuf, portBusy, outBuf, endBusy, nextPortID, scan>>

\* c.ports[(i + c.nextPortID) % len(c.ports)], for i, nextPortID < N.
PortAt(i) == IF i + nextPortID < N THEN i + nextPortID ELSE i + nextPortID - N

\* Mutant: off by one.
CanSendOneMore(p) == Len(outBuf[p]) <= OutCap[p]

CanSend(p) == Len(outBuf[p]) < OutCap[p]

\* DirectConnection.Send and CanSend to the components: a message that does not
\* fit marks the end busy; one that does wakes the connection now.
SendOk(p, m) ==
    /\ CanSend(p)
    /\ outBuf' = [outBuf EXCEPT ![p] = Append(@, m)]
    /\ Tick({Conn}, {})
    /\ UNCHANGED <<inBuf, portBusy, endBusy>>

SendFail(p) ==
    /\ ~ CanSend(p)
    /\ endBusy' = [endBusy EXCEPT ![p] = TRUE]
    /\ UNCHANGED <<queue, next, inBuf, portBusy, outBuf>>

\* Mutant: the connection is not told.
RetrieveSilently(p) ==
    /\ inBuf[p] # <<>>
    /\ inBuf' = [inBuf EXCEPT ![p] = Tail(@)]
    /\ portBusy' = [portBusy EXCEPT ![p] = FALSE]
    /\ UNCHANGED <<queue, next, outBuf, endBusy>>

\* LimitNumMsgPort.Retrieve: the connection is told when it waits for room.
Retrieve(p) ==
    /\ inBuf[p] # <<>>
    /\ inBuf' = [inBuf EXCEPT ![p] = Tail(@)]
    /\ portBusy' = [portBusy EXCEPT ![p] = FALSE]
    /\ Tick(IF portBusy[p] THEN {Conn} ELSE {}, {})
    /\ UNCHANGED <<outBuf, endBusy>>

-------------------------------------------------------------------------------
\* The Tick of the connection, one step per turn of forwardMany's loop.

ConnBegin == \E e \in queue :
    /\ e.handler = Conn
    /\ Begin(e, "forward")
    /\ UNCHANGED connVars

\* Port.Recv accepts the head of p's buffer: the receiver is woken, and so is
\* the sender if it waits for room in the buffer.
Deliver ==
    LET p == PortAt(scan)
        m == Head(outBuf[p])
    IN  /\ pc[Conn] = "forward" /\ scan < N
        /\ outBuf[p] # <<>>
        /\ Len(inBuf[m.dst]) < InCap[m.dst]
        /\ inBuf' = [inBuf EXCEPT ![m.dst] = Append(@, m)]
        /\ outBuf' = [outBuf EXCEPT ![p] = Tail(@)]
        /\ Tick({}, {m.dst} \cup IF endBusy[p] THEN {p} ELSE {})
        /\ endBusy' = [endBusy EXCEPT ![p] = FALSE]
        /\ Goto(Conn, "forward", TRUE)
        /\ UNCHANGED <<now, portBusy, nextPortID, scan>>

\* Mutant: the refused message is dropped.
RefuseAndDrop ==
    LET p == PortAt(scan)
    IN  /\ pc[Conn] = "forward" /\ scan < N
        /\ outBuf[p] # <<>>
        /\ Len(inBuf[Head(outBuf[p]).dst]) >= InCap[Head(outBuf[p]).dst]
        /\ outBuf' = [outBuf EXCEPT ![p] = Tail(@)]
        /\ scan' = scan + 1
        /\ UNCHANGED <<schedVars, inBuf, portBusy, endBusy, nextPortID>>

\* Port.Recv refuses the head of p's buffer and remembers it.
Refuse ==
    LET p == PortAt(scan)
        m == Head(outBuf[p])
    IN  /\ pc[Conn] = "forward" /\ scan < N
        /\ outBuf[p] # <<>>
        /\ Len(inBuf[m.dst]) >= InCap[m.dst]
        /\ portBusy' = [portBusy EXCEPT ![m.dst] = TRUE]
        /\ scan' = scan + 1
        /\ UNCHANGED <<schedVars, inBuf, outBuf, endBusy, nextPortID>>

NothingToForward ==
    /\ pc[Conn] = "forward" /\ scan < N
    /\ outBuf[PortAt(scan)] = <<>>
    /\ scan' = scan + 1
    /\ UNCHANGED <<schedVars, inBuf, portBusy, outBuf, endBusy, nextPortID>>

ForwardEnd ==
    /\ pc[Conn] = "forward" /\ scan = N
    /\ nextPortID' = PortAt(1)
    /\ scan' = 0
    /\ Goto(Conn, "end", FALSE)
    /\ UNCHANGED <<now, queue, next, inBuf, portBusy, outBuf, endBusy>>

ConnEnd == EndTick(Conn) /\ UNCHANGED connVars

ConnNext ==
    ConnBegin \/ Deliver \/ Refuse \/ NothingToForward \/ ForwardEnd \/ ConnEnd

\* Msg: the messages the components exchange.
ConnTypeOK(Msg) ==
    /\ inBuf \in [Agent -> Seq(Msg)]
    /\ outBuf \in [Agent -> Seq(Msg)]
    /\ \A p \in Agent : Len(inBuf[p]) <= InCap[p] /\ Len(outBuf[p]) <= OutCap[p]
    /\ portBusy \in [Agent -> BOOLEAN]
    /\ endBusy \in [Agent -> BOOLEAN]
    /\ nextPortID \in Agent
    /\ scan \in 0 .. N
===============================================================================
