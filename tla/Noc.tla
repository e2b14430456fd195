---------------------------------- MODULE Noc ----------------------------------
(***************************************************************************)
(* The mesh of akita/noc: a switch and an endpoint per tile.  A device     *)
(* hands messages to its endpoint, which cuts them into flits; switches    *)
(* forward flits hop by hop, Z first, then Y, then X, and replicate the    *)
(* flits of a multicast where its routes part; the endpoint of the         *)
(* destination assembles the message again.  Every stage of a Tick is an   *)
(* action and moves one flit; the stages interleave freely.                *)
(***************************************************************************)
EXTENDS Integers, Sequences, FiniteSets, SequencesExt

CONSTANTS
    Tile,        \* the tiles of the mesh: <<x, y, z>>
    Todo,        \* Todo[t]: the messages that the device at t sends, in order
    LinkWidth,   \* flits per cycle of a link between switches, ceil(linkTransferPerCycle)
    EpWidth,     \* flits per cycle between a switch and its endpoint
    EpBuf,       \* buffers between a switch and its endpoint
    DevCap,      \* incoming buffer of a device's port
    NoFlit

Msg == UNION {ToSet(Todo[t]) : t \in Tile}

ASSUME WidthAssumption == {LinkWidth, EpWidth, EpBuf, DevCap} \subseteq Nat \ {0}
ASSUME MsgAssumption ==
    \A t \in Tile : \A m \in ToSet(Todo[t]) :
        /\ m.flits \in Nat \ {0}
        /\ m.dsts # <<>> /\ ToSet(m.dsts) \subseteq Tile \ {t}
        /\ Cardinality(ToSet(m.dsts)) = Len(m.dsts)

VARIABLES
    dev,        \* dev[t]: todo, awake, inbox of the device
    ep,         \* ep[t]: out, sending, assembling, assembled of the endpoint
    sw,         \* sw[t][p]: lane, route, fwd, out of a port of the switch
    splits,     \* splits[t]: the switch's multicastSplits
    link,       \* link[t][p]: flits on their way to port p of t's switch
    down,       \* down[t]: flits on their way from t's switch to its endpoint
    got         \* got[t]: history, the messages given to the device at t

vars == <<dev, ep, sw, splits, link, down, got>>
-------------------------------------------------------------------------------
(* Topology: mesh.go and mesh_routing_table.go. *)

Step == [left |-> <<-1, 0, 0>>, right |-> <<1, 0, 0>>, top |-> <<0, -1, 0>>,
         bottom |-> <<0, 1, 0>>, front |-> <<0, 0, -1>>, back |-> <<0, 0, 1>>]

Opposite == [left |-> "right", right |-> "left", top |-> "bottom",
             bottom |-> "top", front |-> "back", back |-> "front"]

Beyond(t, p) == [i \in 1 .. 3 |-> t[i] + Step[p][i]]

\* The ports of a switch: connectWithLeftSwitch and its siblings, and the endpoint's.
Ports(t) == {"local"} \cup {p \in DOMAIN Step : Beyond(t, p) \in Tile}

Width(p) == IF p = "local" THEN EpWidth ELSE LinkWidth

\* What is between a sender and the incoming buffer of a port is one FIFO with it: the
\* buffers of a DirectConnection at an endpoint; between switches a Channel with a
\* source-side buffer, a pipeline of one place and a buffer behind it.
LinkCap(p) == IF p = "local" THEN 2 * EpBuf ELSE 3 * LinkWidth + 1

\* meshRoutingTable.FindPort.
FindPort(t, d) ==
    CASE d[3] < t[3] -> "front"
      [] d[3] > t[3] -> "back"
      [] d[3] = t[3] /\ d[2] < t[2] -> "top"
      [] d[3] = t[3] /\ d[2] > t[2] -> "bottom"
      [] d[3] = t[3] /\ d[2] = t[2] /\ d[1] < t[1] -> "left"
      [] d[3] = t[3] /\ d[2] = t[2] /\ d[1] > t[1] -> "right"
      [] d = t -> "local"
-------------------------------------------------------------------------------
(* A packet is a message or, where a multicast was split, the message for one
   branch; "by" makes its ID different from that of another call of
   SplitForDsts.  A flit carries its packet. *)

IsMulticast(k) == Len(k.dsts) > 1

Flits(m) == [i \in 1 .. m.flits |->
                [pkt |-> [msg |-> m, dsts |-> m.dsts, by |-> 0], seq |-> i]]

\* splitMulticast: the branches of packet k at t, in the order of the destinations
\* that come first; seq is the flit that made the switch call it.
Branches(t, k, seq) ==
    LET port(i)  == FindPort(t, k.dsts[i])
        firsts   == SelectSeq([i \in DOMAIN k.dsts |-> i],
                              LAMBDA i : \A j \in 1 .. i - 1 : port(j) # port(i))
        group(i) == SelectSeq(k.dsts, LAMBDA d : FindPort(t, d) = port(i))
        split(i) == Len(firsts) > 1 \/ Len(group(i)) = 1
    IN  [b \in DOMAIN firsts |->
            [port |-> port(firsts[b]),
             pkt  |-> IF split(firsts[b])
                      THEN [msg |-> k.msg, dsts |-> group(firsts[b]), by |-> seq]
                      ELSE k]]
-------------------------------------------------------------------------------
(* Endpoints: endpoint.go. *)

\* The device sends, and sleeps when EndPoint.Send refuses.
DeviceSend(t) ==
    /\ dev[t].awake /\ dev[t].todo # <<>>
    /\ IF Len(ep[t].out) < EpWidth
       THEN /\ ep' = [ep EXCEPT ![t].out = Append(@, Head(dev[t].todo))]
            /\ dev' = [dev EXCEPT ![t].todo = Tail(@)]
       ELSE /\ dev' = [dev EXCEPT ![t].awake = FALSE]
            /\ UNCHANGED ep
    /\ UNCHANGED <<sw, splits, link, down, got>>

\* sendFlitOut; when the last flit is gone, the devices are notified.
SendFlitOut(t) ==
    /\ ep[t].sending # <<>> /\ Len(link[t]["local"]) < LinkCap("local")
    /\ link' = [link EXCEPT ![t]["local"] = Append(@, Head(ep[t].sending))]
    /\ ep' = [ep EXCEPT ![t].sending = Tail(@)]
    /\ dev' = [dev EXCEPT ![t].awake = @ \/ Len(ep[t].sending) = 1]
    /\ UNCHANGED <<sw, splits, down, got>>

\* prepareFlits: all messages at once, however many flits still wait.  It does
\* nothing while there are more messages than numOutputChannels.
PrepareFlits(t) ==
    /\ ep[t].out # <<>> /\ Len(ep[t].out) <= EpWidth
    /\ ep' = [ep EXCEPT ![t].sending =
                  @ \o FlattenSeq([i \in DOMAIN ep[t].out |-> Flits(ep[t].out[i])]),
              ![t].out = <<>>]
    /\ UNCHANGED <<dev, sw, splits, link, down, got>>

\* recv: the flit counts for the message with its ID.
RecvFlit(t) ==
    LET e == ep[t]
        k == Head(down[t]).pkt
        I == {i \in DOMAIN e.assembling : e.assembling[i].pkt = k}
    IN  /\ down[t] # <<>>
        /\ down' = [down EXCEPT ![t] = Tail(@)]
        /\ ep' = [ep EXCEPT ![t].assembling =
                      IF I = {} THEN Append(@, [pkt |-> k, arrived |-> 1])
                      ELSE [i \in DOMAIN @ |-> IF i \in I
                                THEN [@[i] EXCEPT !.arrived = @ + 1] ELSE @[i]]]
        /\ UNCHANGED <<dev, sw, splits, link, got>>

\* Mutant: one flit too early.
IsCompleteEarly(a) == a.arrived >= a.pkt.msg.flits - 1

IsComplete(a) == a.arrived >= a.pkt.msg.flits

\* assemble: every complete message, in the order of their first flits.
Assemble(t) ==
    LET done == SelectSeq(ep[t].assembling, IsComplete)
    IN  /\ done # <<>>
        /\ ep' = [ep EXCEPT ![t].assembled = @ \o [i \in DOMAIN done |-> done[i].pkt],
                            ![t].assembling = SelectSeq(@, LAMBDA a : ~ IsComplete(a))]
        /\ UNCHANGED <<dev, sw, splits, link, down, got>>

\* tryDeliver: only the first message, to the device's port.
TryDeliver(t) ==
    /\ ep[t].assembled # <<>> /\ Len(dev[t].inbox) < DevCap
    /\ dev' = [dev EXCEPT ![t].inbox = Append(@, Head(ep[t].assembled))]
    /\ got' = [got EXCEPT ![t] = Append(@, Head(ep[t].assembled).msg)]
    /\ ep' = [ep EXCEPT ![t].assembled = Tail(@)]
    /\ UNCHANGED <<sw, splits, link, down>>

\* The device takes a message from its port.
DeviceRetrieve(t) ==
    /\ dev[t].inbox # <<>>
    /\ dev' = [dev EXCEPT ![t].inbox = Tail(@)]
    /\ UNCHANGED <<ep, sw, splits, link, down, got>>
-------------------------------------------------------------------------------
(* Switches: switch.go, pipeline.go and xbar.go. *)

\* startProcessing: the flit enters the first free lane of the port's pipeline.
StartProcessing(t, p) ==
    \E l \in 1 .. Width(p) :
        /\ link[t][p] # <<>>
        /\ sw[t][p].lane[l] = NoFlit
        /\ \A k \in 1 .. l - 1 : sw[t][p].lane[k] # NoFlit
        /\ sw' = [sw EXCEPT ![t][p].lane[l] = Head(link[t][p])]
        /\ link' = [link EXCEPT ![t][p] = Tail(@)]
        /\ UNCHANGED <<dev, ep, splits, down, got>>

\* movePipeline: pipelineImpl.Tick goes through the lanes from the first one, so a
\* later flit in an earlier lane leaves first.
MovePipeline(t, p) ==
    \E l \in 1 .. Width(p) :
        /\ sw[t][p].lane[l] # NoFlit
        /\ \A k \in 1 .. l - 1 : sw[t][p].lane[k] = NoFlit
        /\ Len(sw[t][p].route) < Width(p)
        /\ sw' = [sw EXCEPT ![t][p].lane[l] = NoFlit,
                            ![t][p].route = Append(@, sw[t][p].lane[l])]
        /\ UNCHANGED <<dev, ep, splits, link, down, got>>

\* route, for an ordinary message: assignFlitOutputBuf.
RouteUnicast(t, p) ==
    LET f == Head(sw[t][p].route)
    IN  /\ sw[t][p].route # <<>> /\ Len(sw[t][p].fwd) < Width(p)
        /\ ~ IsMulticast(f.pkt)
        /\ sw' = [sw EXCEPT ![t][p].route = Tail(@),
                            ![t][p].fwd = Append(@, [flit |-> f,
                                port |-> FindPort(t, f.pkt.dsts[1])])]
        /\ UNCHANGED <<dev, ep, splits, link, down, got>>

\* Mutant: every flit is split anew.
NewSplit(t, k, seq) == [pkt |-> k, branches |-> Branches(t, k, seq), routed |-> 0]

\* The entry of multicastSplits for packet k, made by the flit seq if there is none.
SplitOf(t, k, seq) ==
    IF \E s \in splits[t] : s.pkt = k
    THEN CHOOSE s \in splits[t] : s.pkt = k
    ELSE [pkt |-> k, branches |-> Branches(t, k, seq), routed |-> 0]

\* All copies find room in the forward buffer.
FwdFits(t, p, s) == Width(p) - Len(sw[t][p].fwd) >= Len(s.branches)

\* route, for a multicast: routeMulticastFlit.  The decision is kept, even when the
\* copies do not fit yet, until the last flit of the packet has left.
RouteMulticast(t, p) ==
    LET f == Head(sw[t][p].route)
        s == SplitOf(t, f.pkt, f.seq)
        others == {r \in splits[t] : r.pkt # f.pkt}
    IN  /\ sw[t][p].route # <<>> /\ Len(sw[t][p].fwd) < Width(p)
        /\ IsMulticast(f.pkt)
        /\ IF FwdFits(t, p, s)
           THEN /\ sw' = [sw EXCEPT ![t][p].route = Tail(@),
                                    ![t][p].fwd = @ \o [b \in DOMAIN s.branches |->
                              [flit |-> [f EXCEPT !.pkt = s.branches[b].pkt],
                               port |-> s.branches[b].port]]]
                /\ splits' = [splits EXCEPT ![t] = others \cup
                       (IF s.routed + 1 >= f.pkt.msg.flits THEN {}
                        ELSE {[s EXCEPT !.routed = @ + 1]})]
           ELSE /\ splits' = [splits EXCEPT ![t] = others \cup {s}]
                /\ UNCHANGED sw
        /\ UNCHANGED <<dev, ep, link, down, got>>

\* forward: a buffer that the arbiter selected moves its flits to the output
\* buffers they were assigned.  The turn moves on in every cycle, so that any
\* buffer may come first.
Forward(t, p) ==
    LET q == Head(sw[t][p].fwd).port
    IN  /\ sw[t][p].fwd # <<>> /\ Len(sw[t][q].out) < Width(q)
        /\ sw' = [sw EXCEPT ![t][p].fwd = Tail(@),
                            ![t][q].out = Append(@, Head(sw[t][p].fwd).flit)]
        /\ UNCHANGED <<dev, ep, splits, link, down, got>>

\* sendOut, and the connection carries the flit to the switch beyond port p.
SendOut(t, p) ==
    LET n == Beyond(t, p)
        q == Opposite[p]
    IN  /\ p # "local" /\ sw[t][p].out # <<>> /\ Len(link[n][q]) < LinkCap(q)
        /\ link' = [link EXCEPT ![n][q] = Append(@, Head(sw[t][p].out))]
        /\ sw' = [sw EXCEPT ![t][p].out = Tail(@)]
        /\ UNCHANGED <<dev, ep, splits, down, got>>

\* sendOut to the endpoint.
SendOutLocal(t) ==
    /\ sw[t]["local"].out # <<>> /\ Len(down[t]) < LinkCap("local")
    /\ down' = [down EXCEPT ![t] = Append(@, Head(sw[t]["local"].out))]
    /\ sw' = [sw EXCEPT ![t]["local"].out = Tail(@)]
    /\ UNCHANGED <<dev, ep, splits, link, got>>
-------------------------------------------------------------------------------
EmptyPort(p) == [lane |-> [l \in 1 .. Width(p) |-> NoFlit],
                 route |-> <<>>, fwd |-> <<>>, out |-> <<>>]

Init ==
    /\ dev = [t \in Tile |-> [todo |-> Todo[t], awake |-> TRUE, inbox |-> <<>>]]
    /\ ep = [t \in Tile |-> [out |-> <<>>, sending |-> <<>>,
                             assembling |-> <<>>, assembled |-> <<>>]]
    /\ sw = [t \in Tile |-> [p \in Ports(t) |-> EmptyPort(p)]]
    /\ splits = [t \in Tile |-> {}]
    /\ link = [t \in Tile |-> [p \in Ports(t) |-> <<>>]]
    /\ down = [t \in Tile |-> <<>>]
    /\ got = [t \in Tile |-> <<>>]

EndPointTick(t) == SendFlitOut(t) \/ PrepareFlits(t) \/ TryDeliver(t) \/ Assemble(t) \/ RecvFlit(t)

SwitchTick(t, p) == \/ SendOut(t, p) \/ Forward(t, p) \/ RouteUnicast(t, p)
                    \/ RouteMulticast(t, p) \/ MovePipeline(t, p) \/ StartProcessing(t, p)

Next == \E t \in Tile : \/ DeviceSend(t) \/ DeviceRetrieve(t)
                        \/ EndPointTick(t) \/ SendOutLocal(t)
                        \/ \E p \in Ports(t) : SwitchTick(t, p)

Spec == Init /\ [][Next]_vars /\ WF_vars(Next)
-------------------------------------------------------------------------------
(* Properties. *)

\* No buffer overflows (Buffer.Push panics) -- the copies of a multicast and the
\* two connections of a port included -- and every flit is of an accepted message.
TypeOK ==
    /\ \A t \in Tile :
        /\ Len(ep[t].out) <= EpWidth /\ Len(down[t]) <= LinkCap("local")
        /\ Len(dev[t].inbox) <= DevCap
        /\ \A p \in Ports(t) :
            /\ Len(link[t][p]) <= LinkCap(p)
            /\ \A b \in {sw[t][p].route, sw[t][p].fwd, sw[t][p].out} : Len(b) <= Width(p)
            /\ \A i \in DOMAIN sw[t][p].fwd : sw[t][p].fwd[i].port \in Ports(t)

Accepted == Msg \ UNION {ToSet(dev[t].todo) : t \in Tile}

Promise == INSTANCE PacketNetwork WITH sent <- Accepted

\* The mesh is a network that keeps the promise: every message arrives at each of
\* its destinations at most once and nowhere else, and a message that was cut into
\* flits, and split on its way, arrives whole.
Delivery == Promise!Spec

\* Every message arrives everywhere it was sent to (connection_system.md: "they
\* guarantee that the packets will arrive at the destination port").
AllArrive == <>(\A t \in Tile : \A m \in ToSet(Todo[t]) : \A d \in ToSet(m.dsts) : m \in ToSet(got[d]))
===============================================================================
