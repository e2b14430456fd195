-------------------------- MODULE PingSystem_proofs ---------------------------
(* Theorems about PingSystem, for any number of agents, any frequencies, any *)
(* buffer capacities and both engines.                                       *)
EXTENDS PingSystem, TLAPS

\* Division with remainder, for a symbolic divisor.
LEMMA DivMod == \A a \in Nat, d \in Nat \ {0} :
                   /\ a \div d \in Nat
                   /\ d * (a \div d) <= a /\ a < d * (a \div d) + d
  OBVIOUS

\* Freq.NextTick is strictly later than its argument: TickLater never asks for
\* a tick at the current time.
LEMMA NextTickLater ==
    ASSUME NEW t \in Nat, NEW h \in Handler
    PROVE  NextTick(t, h) \in Nat /\ NextTick(t, h) > t
<1> DEFINE p == Period[h]
           q == (20 * t + p) \div (2 * p)
           r == q \div 10
<1>0. p \in Nat \ {0}  BY PeriodAssumption DEF Handler
<1> HIDE DEF p
<1>1. q \in Nat /\ 20 * t + p < (2 * p) * q + 2 * p
  <2>1. 20 * t + p \in Nat /\ 2 * p \in Nat \ {0}  BY <1>0
  <2> QED  BY <2>1, DivMod
<1>2. r \in Nat /\ q <= 10 * r + 9  BY <1>1
<1> HIDE DEF q, r
<1>3. p * q <= p * (10 * r + 9)  BY <1>0, <1>1, <1>2
<1>4. 20 * ((r + 1) * p) > 20 * t  BY <1>0, <1>1, <1>2, <1>3
<1>5. (r + 1) * p \in Nat  BY <1>0, <1>2
<1>6. (r + 1) * p > t  BY <1>4, <1>5
<1> QED  BY <1>5, <1>6 DEF NextTick, p, q, r

LEMMA HandlerFacts == /\ Conn \in Handler /\ Conn \notin Agent /\ Agent \subseteq Handler
                      /\ \A h \in Handler : h = Conn \/ h \in Agent
  BY NAssumption DEF Conn, Handler, Agent

\* PortAt enumerates the ports.
LEMMA PortAtType ==
    ASSUME nextPortID \in Agent, NEW i \in 0 .. N, i < N \/ i <= 1
    PROVE  PortAt(i) \in Agent
  BY NAssumption DEF PortAt, Agent

LEMMA EventType ==
    /\ \A e \in Event : e.time \in Nat /\ e.handler \in Handler
    /\ \A t \in Nat, h \in Handler : [time |-> t, handler |-> h] \in Event
  BY DEF Event

LEMMA SeqFacts ==
    ASSUME NEW S, NEW s \in Seq(S)
    PROVE  /\ \A e \in S : /\ Append(s, e) \in Seq(S) /\ Len(Append(s, e)) = Len(s) + 1
                           /\ Append(s, e) # <<>>
                           /\ s # <<>> => Head(Append(s, e)) = Head(s)
           /\ s # <<>> => /\ Head(s) \in S /\ Tail(s) \in Seq(S)
                          /\ Len(Tail(s)) = Len(s) - 1
           /\ Len(s) \in Nat /\ (s = <<>> <=> Len(s) = 0)
  OBVIOUS

\* Typing of the operators the actions are built from.
LEMMA TickType ==
    ASSUME SchedTypeOK(Location), NEW soon \in SUBSET Handler, NEW late \in SUBSET Handler,
           Tick(soon, late)
    PROVE  next' \in [Handler -> Nat \cup {-1}] /\ queue' \in SUBSET Event
<1>1. \A h \in Handler : (IF h \in late THEN NextTick(now, h) ELSE now) \in Nat
  BY NextTickLater DEF SchedTypeOK
<1> QED  BY <1>1, EventType DEF SchedTypeOK, Tick

LEMMA GotoType ==
    ASSUME SchedTypeOK(Location), NEW h \in Handler, NEW l \in Location, NEW made \in BOOLEAN,
           Goto(h, l, made)
    PROVE  pc' \in [Handler -> Location] /\ progress' \in [Handler -> BOOLEAN]
  BY DEF SchedTypeOK, Goto

LEMMA BeginType ==
    ASSUME SchedTypeOK(Location), NEW e \in queue, NEW l \in Location, Begin(e, l)
    PROVE  SchedTypeOK(Location)'
  BY EventType DEF SchedTypeOK, Begin

LEMMA EndTickType ==
    ASSUME SchedTypeOK(Location), NEW h \in Handler, EndTick(h)
    PROVE  SchedTypeOK(Location)'
<1>1. next' \in [Handler -> Nat \cup {-1}] /\ queue' \in SUBSET Event
  BY TickType DEF EndTick
<1> QED  BY <1>1 DEF SchedTypeOK, EndTick, Location

LEMMA SendOkType ==
    ASSUME SchedTypeOK(Location), ConnTypeOK(Msg), NEW p \in Agent, NEW m \in Msg, SendOk(p, m),
           UNCHANGED <<nextPortID, scan>>
    PROVE  /\ ConnTypeOK(Msg)'
           /\ next' \in [Handler -> Nat \cup {-1}] /\ queue' \in SUBSET Event
<1>1. outBuf' \in [Agent -> Seq(Msg)]
  BY DEF SendOk, ConnTypeOK
<1>2. \A q \in Agent : Len(outBuf'[q]) <= OutCap[q]
  <2>1. Len(Append(outBuf[p], m)) = Len(outBuf[p]) + 1
    BY SeqFacts DEF ConnTypeOK
  <2>2. Len(outBuf[p]) \in Nat /\ OutCap[p] \in Nat
    BY SeqFacts, CapAssumption DEF ConnTypeOK
  <2> QED  BY <2>1, <2>2 DEF SendOk, CanSend, ConnTypeOK
<1>3. next' \in [Handler -> Nat \cup {-1}] /\ queue' \in SUBSET Event
  BY HandlerFacts, TickType DEF SendOk
<1> QED  BY <1>1, <1>2, <1>3 DEF SendOk, ConnTypeOK

LEMMA SendFailType ==
    ASSUME SchedTypeOK(Location), ConnTypeOK(Msg), NEW p \in Agent, SendFail(p),
           UNCHANGED <<nextPortID, scan>>
    PROVE  ConnTypeOK(Msg)'
  BY DEF SendFail, ConnTypeOK

LEMMA RetrieveType ==
    ASSUME SchedTypeOK(Location), ConnTypeOK(Msg), NEW p \in Agent, Retrieve(p),
           UNCHANGED <<nextPortID, scan>>
    PROVE  /\ ConnTypeOK(Msg)'
           /\ next' \in [Handler -> Nat \cup {-1}] /\ queue' \in SUBSET Event
<1>1. inBuf' \in [Agent -> Seq(Msg)]
  BY DEF Retrieve, ConnTypeOK
<1>2. \A q \in Agent : Len(inBuf'[q]) <= InCap[q]
  <2>1. Len(Tail(inBuf[p])) = Len(inBuf[p]) - 1 /\ Len(inBuf[p]) \in Nat
    BY SeqFacts DEF Retrieve, ConnTypeOK
  <2>2. InCap[p] \in Nat  BY CapAssumption
  <2> QED  BY <2>1, <2>2 DEF Retrieve, ConnTypeOK
<1>3. next' \in [Handler -> Nat \cup {-1}] /\ queue' \in SUBSET Event
  BY HandlerFacts, TickType DEF Retrieve
<1> QED  BY <1>1, <1>2, <1>3 DEF Retrieve, ConnTypeOK

-------------------------------------------------------------------------------
LEMMA InitType == Init => TypeOK
<1> SUFFICES ASSUME Init PROVE TypeOK  OBVIOUS
<1>0. \A h \in Handler : NextTick(0, h) \in Nat  BY NextTickLater
<1>1. SchedTypeOK(Location)
  BY <1>0, HandlerFacts, EventType DEF Init, Starter, SchedTypeOK, Location
<1>2. ConnTypeOK(Msg)
  <2>1. 0 \in Agent /\ 0 \in 0 .. N  BY NAssumption DEF Agent
  <2>2. \A p \in Agent : InCap[p] \in Nat /\ OutCap[p] \in Nat  BY CapAssumption
  <2>3. Len(<<>>) = 0 /\ <<>> \in Seq(Msg)  OBVIOUS
  <2> QED  BY <2>1, <2>2, <2>3 DEF Init, ConnTypeOK
<1>3. AgentTypeOK
  BY PingAssumption DEF Init, AgentTypeOK
<1>4. PcTypeOK
  BY HandlerFacts DEF Init, PcTypeOK
<1> QED  BY <1>1, <1>2, <1>3, <1>4 DEF TypeOK

LEMMA AgentType ==
    ASSUME TypeOK, NEW a \in Agent, AgentNext(a)
    PROVE  TypeOK'
<1> USE HandlerFacts DEF TypeOK, Location
<1>1. CASE AgentBegin(a)
  <2>1. SchedTypeOK(Location)'  BY <1>1, BeginType DEF AgentBegin
  <2>2. ConnTypeOK(Msg)' /\ AgentTypeOK'
    BY <1>1 DEF AgentBegin, ConnTypeOK, AgentTypeOK, connVars, agentVars
  <2>3. PcTypeOK'  BY <1>1 DEF AgentBegin, Begin, PcTypeOK, SchedTypeOK
  <2> QED  BY <2>1, <2>2, <2>3
<1>2. CASE SendRsp(a)
  <2>1. PingRsp(a, Head(trans[a])) \in Msg
    <3>1. Head(trans[a]) \in Trans  BY <1>2, SeqFacts DEF SendRsp, HasRsp, AgentTypeOK
    <3> QED  BY <3>1 DEF PingRsp, Trans, Msg
  <2>2. ConnTypeOK(Msg)' /\ SchedTypeOK(Location)'
    BY <1>2, <2>1, SendOkType, GotoType DEF SendRsp, SchedTypeOK
  <2>3. AgentTypeOK'  BY <1>2 DEF SendRsp, HasRsp, AgentTypeOK
  <2>4. PcTypeOK'  BY <1>2 DEF SendRsp, Goto, PcTypeOK, SchedTypeOK
  <2> QED  BY <2>2, <2>3, <2>4
<1>3. CASE SendRspFail(a)
  <2>1. ConnTypeOK(Msg)' /\ SchedTypeOK(Location)'
    BY <1>3, SendFailType, GotoType DEF SendRspFail, SendFail, SchedTypeOK
  <2> QED  BY <1>3, <2>1 DEF SendRspFail, Goto, AgentTypeOK, PcTypeOK, SchedTypeOK, agentVars
<1>4. CASE NoRsp(a)
  <2>1. SchedTypeOK(Location)'  BY <1>4, GotoType DEF NoRsp, SchedTypeOK
  <2> QED  BY <1>4, <2>1
           DEF NoRsp, Goto, ConnTypeOK, AgentTypeOK, PcTypeOK, SchedTypeOK, connVars, agentVars
<1>5. CASE SendPing(a)
  <2>1. Ping(a) \in Msg  BY DEF Ping, Msg, AgentTypeOK
  <2>2. ConnTypeOK(Msg)' /\ SchedTypeOK(Location)'
    BY <1>5, <2>1, SendOkType, GotoType DEF SendPing, SchedTypeOK
  <2>3. AgentTypeOK'  BY <1>5 DEF SendPing, AgentTypeOK
  <2>4. PcTypeOK'  BY <1>5 DEF SendPing, Goto, PcTypeOK, SchedTypeOK
  <2> QED  BY <2>2, <2>3, <2>4
<1>6. CASE SendPingFail(a)
  <2>1. ConnTypeOK(Msg)' /\ SchedTypeOK(Location)'
    BY <1>6, SendFailType, GotoType DEF SendPingFail, SendFail, SchedTypeOK
  <2> QED  BY <1>6, <2>1 DEF SendPingFail, Goto, AgentTypeOK, PcTypeOK, SchedTypeOK, agentVars
<1>7. CASE NoPing(a)
  <2>1. SchedTypeOK(Location)'  BY <1>7, GotoType DEF NoPing, SchedTypeOK
  <2> QED  BY <1>7, <2>1
           DEF NoPing, Goto, ConnTypeOK, AgentTypeOK, PcTypeOK, SchedTypeOK, connVars, agentVars
<1>8. CASE CountDown(a)
  <2>1. SchedTypeOK(Location)'  BY <1>8, GotoType DEF CountDown, SchedTypeOK
  <2>2. ASSUME NEW t \in Trans
        PROVE  [t EXCEPT !.cycleLeft = IF @ > 0 THEN @ - 1 ELSE 0] \in Trans
    BY PingAssumption DEF Trans
  <2>3. Decrement(trans[a]) \in Seq(Trans)
    <3>1. trans[a] \in Seq(Trans)  BY DEF AgentTypeOK
    <3>2. DOMAIN trans[a] = 1 .. Len(trans[a]) /\ Len(trans[a]) \in Nat  BY <3>1
    <3>3. \A i \in DOMAIN trans[a] : trans[a][i] \in Trans  BY <3>1, <3>2
    <3>4. \A i \in 1 .. Len(trans[a]) :
              [trans[a][i] EXCEPT !.cycleLeft = IF @ > 0 THEN @ - 1 ELSE 0] \in Trans
      BY <2>2, <3>2, <3>3
    <3> QED  BY <3>2, <3>4 DEF Decrement
  <2>4. AgentTypeOK'  BY <1>8, <2>3 DEF CountDown, AgentTypeOK
  <2>5. ConnTypeOK(Msg)'  BY <1>8 DEF CountDown, ConnTypeOK, connVars
  <2>6. PcTypeOK'  BY <1>8 DEF CountDown, Goto, PcTypeOK, SchedTypeOK
  <2> QED  BY <2>1, <2>4, <2>5, <2>6
<1>9. CASE ProcessPing(a)
  <2>1. ConnTypeOK(Msg)' /\ SchedTypeOK(Location)'
    BY <1>9, RetrieveType, GotoType DEF ProcessPing, SchedTypeOK
  <2>2. Head(inBuf[a]) \in Msg  BY <1>9, SeqFacts DEF ProcessPing, ConnTypeOK
  <2>3. [src |-> Head(inBuf[a]).src, seq |-> Head(inBuf[a]).seq, cycleLeft |-> CycleLeft] \in Trans
    BY <2>2, PingAssumption DEF Msg, Trans
  <2>4. AgentTypeOK'  BY <1>9, <2>3 DEF ProcessPing, AgentTypeOK
  <2>5. PcTypeOK'  BY <1>9 DEF ProcessPing, Goto, PcTypeOK, SchedTypeOK
  <2> QED  BY <2>1, <2>4, <2>5
<1>10. CASE ProcessRsp(a)
  <2>1. ConnTypeOK(Msg)' /\ SchedTypeOK(Location)'
    BY <1>10, RetrieveType, GotoType DEF ProcessRsp, SchedTypeOK
  <2>2. Head(inBuf[a]) \in Msg  BY <1>10, SeqFacts DEF ProcessRsp, ConnTypeOK
  <2>b. Head(inBuf[a]).seq \in Nat  BY <2>2 DEF Msg
  <2>3. AgentTypeOK'  BY <1>10, <2>b DEF ProcessRsp, AgentTypeOK
  <2>4. PcTypeOK'  BY <1>10 DEF ProcessRsp, Goto, PcTypeOK, SchedTypeOK
  <2> QED  BY <2>1, <2>3, <2>4
<1>11. CASE NoInput(a)
  <2>1. SchedTypeOK(Location)'  BY <1>11, GotoType DEF NoInput, SchedTypeOK
  <2> QED  BY <1>11, <2>1
           DEF NoInput, Goto, ConnTypeOK, AgentTypeOK, PcTypeOK, SchedTypeOK, connVars, agentVars
<1>12. CASE AgentEnd(a)
  <2>1. SchedTypeOK(Location)'  BY <1>12, EndTickType DEF AgentEnd
  <2> QED  BY <1>12, <2>1
           DEF AgentEnd, EndTick, ConnTypeOK, AgentTypeOK, PcTypeOK, SchedTypeOK, connVars, agentVars
<1> QED  BY <1>1, <1>2, <1>3, <1>4, <1>5, <1>6, <1>7, <1>8, <1>9, <1>10, <1>11, <1>12
         DEF AgentNext

LEMMA ConnType ==
    ASSUME TypeOK, ConnNext, UNCHANGED agentVars
    PROVE  TypeOK'
<1> USE HandlerFacts DEF TypeOK, Location
<1>0. AgentTypeOK'  BY DEF AgentTypeOK, agentVars
<1>1. CASE ConnBegin
  <2>1. SchedTypeOK(Location)'  BY <1>1, BeginType DEF ConnBegin
  <2> QED  BY <1>0, <1>1, <2>1 DEF ConnBegin, Begin, SchedTypeOK, ConnTypeOK, PcTypeOK, connVars
<1>2. CASE Deliver
  <2> DEFINE p == PortAt(scan)
             m == Head(outBuf[p])
             late == {m.dst} \cup IF endBusy[p] THEN {p} ELSE {}
  <2>1. p \in Agent  BY <1>2, PortAtType DEF Deliver, ConnTypeOK
  <2> HIDE DEF p
  <2>2. m \in Msg /\ m.dst \in Agent
    <3>1. m \in Msg  BY <1>2, <2>1, SeqFacts DEF Deliver, p, ConnTypeOK
    <3> QED  BY <3>1 DEF Msg
  <2>3. late \in SUBSET Handler  BY <2>1, <2>2
  <2>4. Tick({}, late)  BY <1>2 DEF Deliver, p
  <2>5. next' \in [Handler -> Nat \cup {-1}] /\ queue' \in SUBSET Event
    BY <2>3, <2>4, TickType
  <2>6. SchedTypeOK(Location)'
    BY <1>2, <2>5, GotoType DEF Deliver, SchedTypeOK
  <2>7. inBuf' \in [Agent -> Seq(Msg)] /\ outBuf' \in [Agent -> Seq(Msg)]
    BY <1>2, <2>1, <2>2 DEF Deliver, p, ConnTypeOK
  <2>8. \A q \in Agent : Len(inBuf'[q]) <= InCap[q] /\ Len(outBuf'[q]) <= OutCap[q]
    <3> DEFINE d == m.dst
    <3>1. Len(Append(inBuf[d], m)) = Len(inBuf[d]) + 1 /\ Len(inBuf[d]) \in Nat
      BY <2>2, SeqFacts DEF ConnTypeOK
    <3>2. Len(Tail(outBuf[p])) = Len(outBuf[p]) - 1 /\ Len(outBuf[p]) \in Nat
      BY <1>2, <2>1, SeqFacts DEF Deliver, p, ConnTypeOK
    <3>3. InCap[d] \in Nat /\ OutCap[p] \in Nat  BY <2>1, <2>2, CapAssumption
    <3>4. Len(inBuf[d]) < InCap[d] /\ inBuf' = [inBuf EXCEPT ![d] = Append(@, m)]
          /\ outBuf' = [outBuf EXCEPT ![p] = Tail(@)]
      BY <1>2 DEF Deliver, p
    <3>5. d \in Agent  BY <2>2
    <3> HIDE DEF m, d
    <3>6. \A q \in Agent : Len(inBuf'[q]) <= InCap[q]
      <4>1. /\ inBuf'[d] = Append(inBuf[d], m)
            /\ \A q \in Agent : q # d => inBuf'[q] = inBuf[q]
        BY <3>4, <3>5 DEF ConnTypeOK
      <4>2. Len(inBuf'[d]) <= InCap[d]  BY <3>1, <3>3, <3>4, <4>1
      <4> QED  BY <4>1, <4>2 DEF ConnTypeOK
    <3>7. \A q \in Agent : Len(outBuf'[q]) <= OutCap[q]
      <4>1. /\ outBuf'[p] = Tail(outBuf[p])
            /\ \A q \in Agent : q # p => outBuf'[q] = outBuf[q]
        BY <2>1, <3>4 DEF ConnTypeOK
      <4>2. Len(outBuf[p]) <= OutCap[p]  BY <2>1 DEF ConnTypeOK
      <4>3. Len(outBuf'[p]) <= OutCap[p]  BY <3>2, <3>3, <4>1, <4>2
      <4> QED  BY <4>1, <4>3 DEF ConnTypeOK
    <3> QED  BY <3>6, <3>7
  <2>9. ConnTypeOK(Msg)'  BY <1>2, <2>7, <2>8 DEF Deliver, ConnTypeOK
  <2>10. PcTypeOK'  BY <1>2 DEF Deliver, Goto, PcTypeOK, SchedTypeOK
  <2> QED  BY <1>0, <2>6, <2>9, <2>10
<1>3. CASE Refuse
  <2>1. SchedTypeOK(Location)' /\ PcTypeOK'
    BY <1>3 DEF Refuse, schedVars, SchedTypeOK, PcTypeOK
  <2>2. portBusy' \in [Agent -> BOOLEAN]  BY <1>3 DEF Refuse, ConnTypeOK
  <2>3. scan' \in 0 .. N  BY <1>3, NAssumption DEF Refuse, ConnTypeOK
  <2>4. ConnTypeOK(Msg)'  BY <1>3, <2>2, <2>3 DEF Refuse, ConnTypeOK
  <2> QED  BY <1>0, <2>1, <2>4
<1>4. CASE NothingToForward
  <2>1. SchedTypeOK(Location)' /\ PcTypeOK'
    BY <1>4 DEF NothingToForward, schedVars, SchedTypeOK, PcTypeOK
  <2>2. ConnTypeOK(Msg)'  BY <1>4, NAssumption DEF NothingToForward, ConnTypeOK
  <2> QED  BY <1>0, <2>1, <2>2
<1>5. CASE ForwardEnd
  <2>1. SchedTypeOK(Location)'  BY <1>5, GotoType DEF ForwardEnd, SchedTypeOK
  <2>2. PcTypeOK'  BY <1>5 DEF ForwardEnd, Goto, PcTypeOK, SchedTypeOK
  <2>3. PortAt(1) \in Agent
    <3>1. nextPortID \in Agent /\ 1 \in 0 .. N  BY NAssumption DEF ConnTypeOK
    <3> QED  BY <3>1, PortAtType
  <2>4. ConnTypeOK(Msg)'  BY <1>5, <2>3, NAssumption DEF ForwardEnd, ConnTypeOK
  <2> QED  BY <1>0, <2>1, <2>2, <2>4
<1>6. CASE ConnEnd
  <2>1. SchedTypeOK(Location)'  BY <1>6, EndTickType DEF ConnEnd
  <2> QED  BY <1>0, <1>6, <2>1
           DEF ConnEnd, EndTick, ConnTypeOK, PcTypeOK, SchedTypeOK, connVars
<1> QED  BY <1>1, <1>2, <1>3, <1>4, <1>5, <1>6 DEF ConnNext

LEMMA NextType == TypeOK /\ [Next]_vars => TypeOK'
<1> SUFFICES ASSUME TypeOK, [Next]_vars PROVE TypeOK'  OBVIOUS
<1>1. CASE UNCHANGED vars
  BY <1>1 DEF vars, schedVars, connVars, agentVars, TypeOK, SchedTypeOK, ConnTypeOK,
              AgentTypeOK, PcTypeOK
<1> QED  BY <1>1, AgentType, ConnType DEF Next, Finished

\* Types, and no buffer of a port or of the connection ever exceeds its capacity:
\* Buffer.Push never panics with "buffer overflow" (akita/sim/buffer.go).
THEOREM TypeCorrect == Spec => []TypeOK
  BY InitType, NextType, PTL DEF Spec
-------------------------------------------------------------------------------
\* What a request for ticks does to the queue.
LEMMA TickFacts ==
    ASSUME SchedTypeOK(Location), SchedInv, NEW soon \in SUBSET {Conn},
           NEW late \in SUBSET Handler, Tick(soon, late)
    PROVE  /\ queue \subseteq queue'
           /\ \A h \in late : Pending(h)'
           /\ \A h \in soon : \/ Pending(h)'
                              \/ next[h] = now /\ [time |-> now, handler |-> h] \notin queue
           /\ \A e \in queue' : now <= e.time /\ e.time <= next'[e.handler]
           /\ \A h \in Handler : next'[h] > now => [time |-> next'[h], handler |-> h] \in queue'
           /\ \A e \in queue' \ queue : e.time > now \/ e.handler \in soon
           /\ next'[Conn] = now => \/ next[Conn] = now
                                   \/ [time |-> now, handler |-> Conn] \in queue'
<1> DEFINE At(h) == IF h \in late THEN NextTick(now, h) ELSE now
           accepted == {h \in soon \cup late : next[h] < At(h)}
<1>0. now \in Nat /\ next \in [Handler -> Nat \cup {-1}] /\ soon \cup late \subseteq Handler
  BY HandlerFacts DEF SchedTypeOK
<1>1. \A h \in Handler : At(h) \in Nat /\ At(h) >= now /\ (h \in late => At(h) > now)
  BY <1>0, NextTickLater
<1>2. /\ next' = [h \in Handler |-> IF h \in accepted THEN At(h) ELSE next[h]]
      /\ queue' = queue \cup {[time |-> At(h), handler |-> h] : h \in accepted}
  BY DEF Tick
<1>3. \A h \in accepted : h \in Handler /\ next[h] < At(h) /\ (h \in soon \/ h \in late)
  BY <1>0
<1>4. \A h \in soon \cup late : h \notin accepted => next[h] >= At(h)
  BY <1>0, <1>1
<1>5. \A e \in queue : e \in Event
  BY DEF SchedTypeOK
<1> HIDE DEF At, accepted
<1>6. queue \subseteq queue'
  BY <1>2
<1>7. \A h \in accepted : [time |-> At(h), handler |-> h] \in queue' /\ next'[h] = At(h)
  BY <1>2, <1>3
<1>8. \A e \in queue' \ queue : \E h \in accepted : e = [time |-> At(h), handler |-> h]
  BY <1>2
<1>9. \A h \in Handler : h \notin accepted => next'[h] = next[h]
  BY <1>2
<1>10. \A h \in Handler : next'[h] > now => [time |-> next'[h], handler |-> h] \in queue'
  BY <1>6, <1>7, <1>9 DEF SchedInv
<1>11. \A h \in late : Pending(h)'
  <2> SUFFICES ASSUME NEW h \in late PROVE Pending(h)'  OBVIOUS
  <2>0. h \in Handler /\ At(h) \in Nat /\ At(h) > now  BY <1>0, <1>1
  <2>1. next'[h] >= At(h) /\ next'[h] \in Int
    <3>1. CASE h \in accepted
      <4>1. next'[h] = At(h)  BY <3>1, <1>7
      <4> QED  BY <4>1, <2>0
    <3>2. CASE h \notin accepted  BY <3>2, <2>0, <1>0, <1>4, <1>9
    <3> QED  BY <3>1, <3>2
  <2>2. [time |-> next'[h], handler |-> h] \in queue'
    BY <1>0, <1>10, <2>0, <2>1
  <2> QED  BY <2>2 DEF Pending
<1>12. \A h \in soon : \/ Pending(h)'
                       \/ next[h] = now /\ [time |-> now, handler |-> h] \notin queue
  <2> SUFFICES ASSUME NEW h \in soon,
                      ~ (next[h] = now /\ [time |-> now, handler |-> h] \notin queue)
               PROVE  Pending(h)'
    OBVIOUS
  <2>0. h \in Handler  BY <1>0
  <2>1. CASE h \in accepted
    BY <2>1, <1>7 DEF Pending
  <2>2. CASE h \notin accepted
    <3>1. next[h] >= now  BY <2>0, <2>2, <1>0, <1>1, <1>4
    <3>2. CASE next[h] > now
      BY <3>2, <2>0, <1>6 DEF Pending, SchedInv
    <3>3. CASE next[h] = now
      BY <3>3, <1>6 DEF Pending
    <3> QED  BY <3>1, <3>2, <3>3, <1>0, <2>0
  <2> QED  BY <2>1, <2>2
<1>13. \A e \in queue' : now <= e.time /\ e.time <= next'[e.handler]
  <2> SUFFICES ASSUME NEW e \in queue' PROVE now <= e.time /\ e.time <= next'[e.handler]
    OBVIOUS
  <2>1. CASE e \in queue
    <3>1. e.handler \in Handler /\ e.time \in Nat  BY <2>1, <1>5, EventType
    <3>2. now <= e.time /\ e.time <= next[e.handler]  BY <2>1 DEF SchedInv
    <3>3. next'[e.handler] >= next[e.handler] /\ next'[e.handler] \in Int
      <4>1. CASE e.handler \in accepted
        <5>1. next'[e.handler] = At(e.handler) /\ At(e.handler) > next[e.handler]
          BY <4>1, <1>3, <1>7
        <5>2. At(e.handler) \in Nat /\ next[e.handler] \in Int  BY <3>1, <1>0, <1>1
        <5> QED  BY <5>1, <5>2
      <4>2. CASE e.handler \notin accepted  BY <4>2, <3>1, <1>0, <1>9
      <4> QED  BY <4>1, <4>2
    <3> QED  BY <3>1, <3>2, <3>3, <1>0
  <2>2. CASE e \notin queue
    BY <2>2, <1>0, <1>1, <1>3, <1>7, <1>8
  <2> QED  BY <2>1, <2>2
<1>14. \A e \in queue' \ queue : e.time > now \/ e.handler \in soon
  BY <1>1, <1>3, <1>8
<1>15. next'[Conn] = now => next[Conn] = now \/ [time |-> now, handler |-> Conn] \in queue'
  BY <1>7, <1>9, HandlerFacts
<1> QED  BY <1>6, <1>10, <1>11, <1>12, <1>13, <1>14, <1>15

LEMMA NoTick ==
    ASSUME SchedTypeOK(Location), UNCHANGED <<queue, next>>
    PROVE  Tick({}, {})
  BY DEF SchedTypeOK, Tick

\* A step of a running component keeps the scheduling invariant, and wakes the
\* connection, which has not run at this time yet, and whom it wakes for later.
LEMMA AgentSched ==
    ASSUME SchedTypeOK(Location), PcTypeOK, SchedInv,
           NEW a \in Agent, pc[a] # "idle", now' = now,
           NEW soon \in SUBSET {Conn}, NEW late \in SUBSET Handler, Tick(soon, late),
           NEW l, pc' = [pc EXCEPT ![a] = l],
           NEW b \in BOOLEAN, progress' = [progress EXCEPT ![a] = b], b => l # "idle"
    PROVE  /\ SchedInv'
           /\ queue \subseteq queue'
           /\ \A h \in soon \cup late : Pending(h)'
<1> USE HandlerFacts
<1>1. ~ (next[Conn] = now /\ [time |-> now, handler |-> Conn] \notin queue)
  BY DEF SchedInv, ConnRunsLast
<1>2. pc[Conn] = "idle"  BY DEF SchedInv
<1>3. /\ queue \subseteq queue'
      /\ \A h \in late : Pending(h)'
      /\ \A h \in soon : Pending(h)'
      /\ \A e \in queue' : now <= e.time /\ e.time <= next'[e.handler]
      /\ \A h \in Handler : next'[h] > now => [time |-> next'[h], handler |-> h] \in queue'
      /\ next'[Conn] = now => \/ next[Conn] = now
                              \/ [time |-> now, handler |-> Conn] \in queue'
  BY <1>1, TickFacts
<1>4. ConnRunsLast'
  BY <1>1, <1>3 DEF ConnRunsLast
<1>5. pc'[Conn] = "idle"  BY <1>2 DEF SchedTypeOK
<1>6. \A h \in Handler : progress'[h] => pc'[h] # "idle"
  BY DEF SchedInv, SchedTypeOK
<1> QED  BY <1>3, <1>4, <1>5, <1>6 DEF SchedInv

\* The same for a step of the connection, which wakes components for later.
LEMMA ConnSched ==
    ASSUME SchedTypeOK(Location), SchedInv, pc[Conn] # "idle", now' = now,
           NEW late \in SUBSET Handler, Tick({}, late),
           NEW l, pc' = [pc EXCEPT ![Conn] = l],
           NEW b \in BOOLEAN, progress' = [progress EXCEPT ![Conn] = b], b => l # "idle"
    PROVE  /\ SchedInv'
           /\ queue \subseteq queue'
           /\ \A h \in late : Pending(h)'
<1> USE HandlerFacts
<1>1. \A a \in Agent : pc[a] = "idle"  BY DEF SchedInv
<1>2. \A a \in Agent : pc'[a] = "idle"  BY <1>1 DEF SchedTypeOK
<1>0. {} \in SUBSET {Conn}  OBVIOUS
<1>3. /\ queue \subseteq queue'
      /\ \A h \in late : Pending(h)'
      /\ \A e \in queue' : now <= e.time /\ e.time <= next'[e.handler]
      /\ \A h \in Handler : next'[h] > now => [time |-> next'[h], handler |-> h] \in queue'
      /\ \A e \in queue' \ queue : e.time > now \/ e.handler \in {}
      /\ next'[Conn] = now => \/ next[Conn] = now
                              \/ [time |-> now, handler |-> Conn] \in queue'
  BY <1>0, TickFacts
<1>4. ConnRunsLast'
  <2> SUFFICES ASSUME next'[Conn] = now, [time |-> now, handler |-> Conn] \notin queue',
                      NEW a \in Agent
               PROVE  [time |-> now, handler |-> a] \notin queue'
    BY <1>2 DEF ConnRunsLast
  <2>1. [time |-> now, handler |-> a] \notin queue  BY <1>3 DEF SchedInv, ConnRunsLast
  <2>2. now \in Nat  BY DEF SchedTypeOK
  <2> QED  BY <1>3, <2>1, <2>2
<1>6. \A h \in Handler : progress'[h] => pc'[h] # "idle"
  BY DEF SchedInv, SchedTypeOK
<1> QED  BY <1>2, <1>3, <1>4, <1>6 DEF SchedInv
\* The engine starts an event: only its handler loses a pending tick.
LEMMA BeginSched ==
    ASSUME SchedTypeOK(Location), SchedInv, NEW e \in queue,
           NEW l \in Location \ {"idle"}, Begin(e, l)
    PROVE  /\ SchedInv'
           /\ \A h \in Handler \ {e.handler} : Awake(h) => Awake(h)'
           /\ e.handler = Conn => \A a \in Agent : pc[a] = "idle"
           /\ e.handler \in Agent => pc[Conn] = "idle"
<1> USE HandlerFacts
<1>1. \A f \in queue : f \in Event /\ f.time \in Nat /\ f.handler \in Handler
  BY EventType DEF SchedTypeOK
<1>2. /\ now' = e.time /\ queue' = queue \ {e} /\ next' = next
      /\ pc' = [pc EXCEPT ![e.handler] = l]
      /\ progress' = [progress EXCEPT ![e.handler] = FALSE]
  BY DEF Begin
<1>3. /\ \A f \in queue : e.time < f.time \/ (e.time = f.time
               /\ (IsSecondary(e.handler) => IsSecondary(f.handler)))
      /\ \A h \in Handler : pc[h] # "idle" => IsSecondary(h) = IsSecondary(e.handler)
  BY DEF Begin, MayRun, Idle
<1>4. e.handler = Conn => \A a \in Agent : pc[a] = "idle"
  BY <1>3 DEF IsSecondary
<1>5. e.handler \in Agent => pc[Conn] = "idle"
  BY <1>3 DEF IsSecondary
<1>6. now \in Nat /\ e.time \in Nat /\ now <= e.time /\ next \in [Handler -> Nat \cup {-1}]
  BY <1>1 DEF SchedInv, SchedTypeOK
<1>7. \A f \in queue' : now' <= f.time /\ f.time <= next'[f.handler]
  BY <1>1, <1>2, <1>3, <1>6 DEF SchedInv
<1>8. \A h \in Handler : next'[h] > now' => [time |-> next'[h], handler |-> h] \in queue'
  <2> SUFFICES ASSUME NEW h \in Handler, next[h] > e.time
               PROVE  [time |-> next[h], handler |-> h] \in queue \ {e}
    BY <1>2
  <2>1. next[h] > now  BY <1>6
  <2>2. [time |-> next[h], handler |-> h] \in queue  BY <2>1 DEF SchedInv
  <2>3. [time |-> next[h], handler |-> h] # e  BY <1>6
  <2> QED  BY <2>2, <2>3
<1>9. ConnRunsLast'
  <2> SUFFICES ASSUME next[Conn] = e.time,
                      [time |-> e.time, handler |-> Conn] \notin queue \ {e},
                      NEW a \in Agent
               PROVE  pc'[a] = "idle" /\ [time |-> e.time, handler |-> a] \notin queue \ {e}
    BY <1>2 DEF ConnRunsLast
  <2>1. CASE e.handler = Conn
    <3>1. pc'[a] = "idle"  BY <2>1, <1>2, <1>4 DEF SchedTypeOK
    <3>2. [time |-> e.time, handler |-> a] \notin queue
      BY <2>1, <1>3, <1>6 DEF IsSecondary
    <3> QED  BY <3>1, <3>2
  <2>2. CASE e.handler \in Agent
    <3>1. [time |-> e.time, handler |-> Conn] # e  BY <2>2
    <3>2. [time |-> e.time, handler |-> Conn] \notin queue  BY <3>1
    <3>3. ~ (next[Conn] > now)  BY <3>2 DEF SchedInv
    <3>4. e.time = now  BY <3>3, <1>6
    <3>5. [time |-> now, handler |-> e.handler] \notin queue
      BY <3>2, <3>4, <2>2 DEF SchedInv, ConnRunsLast
    <3>6. e = [time |-> now, handler |-> e.handler]  BY <3>4, <1>1 DEF Event
    <3> QED  BY <3>5, <3>6
  <2> QED  BY <2>1, <2>2, <1>1
<1>10. pc'[Conn] # "idle" => \A a \in Agent : pc'[a] = "idle"
  BY <1>1, <1>2, <1>4, <1>5 DEF SchedTypeOK
<1>11. \A h \in Handler : progress'[h] => pc'[h] # "idle"
  BY <1>1, <1>2 DEF SchedInv, SchedTypeOK
<1>12. \A h \in Handler \ {e.handler} : Awake(h) => Awake(h)'
  BY <1>2 DEF Awake, Pending, SchedTypeOK
<1> QED  BY <1>4, <1>5, <1>7, <1>8, <1>9, <1>10, <1>11, <1>12 DEF SchedInv

\* Requests are only ever added to the queue: a handler that is awake stays so
\* until its event begins, or its Tick ends.
LEMMA StayAwake ==
    ASSUME queue \subseteq queue', NEW h, progress[h] => progress'[h], Awake(h)
    PROVE  Awake(h)'
  BY DEF Awake, Pending

\* The ports the connection's Tick has yet to visit when it starts: all of them.
LEMMA PortAtAll ==
    ASSUME nextPortID \in Agent, NEW p \in Agent
    PROVE  \E i \in 0 .. N - 1 : PortAt(i) = p
<1>1. CASE p >= nextPortID
  <2>1. p - nextPortID \in 0 .. N - 1 /\ PortAt(p - nextPortID) = p
    BY <1>1, NAssumption DEF PortAt, Agent
  <2> QED  BY <2>1
<1>2. CASE p < nextPortID
  <2>1. p + N - nextPortID \in 0 .. N - 1 /\ PortAt(p + N - nextPortID) = p
    BY <1>2, NAssumption DEF PortAt, Agent
  <2> QED  BY <2>1
<1> QED  BY <1>1, <1>2, NAssumption DEF Agent

\* What a step of agent a leaves in place: the other agents.
LEMMA AgentFrame ==
    ASSUME TypeOK, WakeInv, NEW a \in Agent, pc[a] # "idle", queue \subseteq queue',
           NEW l, pc' = [pc EXCEPT ![a] = l],
           NEW b \in BOOLEAN, progress' = [progress EXCEPT ![a] = b], UNCHANGED scan,
           \A c \in Agent \ {a} : /\ inBuf'[c] = inBuf[c] /\ endBusy'[c] = endBusy[c]
                                  /\ trans'[c] = trans[c] /\ numPing'[c] = numPing[c]
    PROVE  /\ \A c \in Agent \ {a} : AgentAwake(c)'
           /\ pc'[Conn] # "forward" => scan' = 0
           /\ UNCHANGED <<outBuf, portBusy>> => ConnAwake'
           /\ pc[Conn] = "idle" /\ ~ progress[Conn]
<1> USE HandlerFacts DEF TypeOK, SchedTypeOK
<1>1. \A h \in Handler \ {a} : pc'[h] = pc[h] /\ progress'[h] = progress[h]
  OBVIOUS
<1>2. \A h \in Handler \ {a} : Awake(h) => Awake(h)'
  BY <1>1, StayAwake
<1>3. pc[Conn] = "idle" /\ ~ progress[Conn]
  BY DEF WakeInv, SchedInv
<1>4. ASSUME NEW c \in Agent \ {a} PROVE AgentAwake(c)'
  <2>1. /\ inBuf'[c] = inBuf[c] /\ endBusy'[c] = endBusy[c] /\ pc'[c] = pc[c]
        /\ trans'[c] = trans[c] /\ numPing'[c] = numPing[c]
        /\ Awake(c) => Awake(c)'
    BY <1>1, <1>2
  <2>2. AgentAwake(c)  BY DEF WakeInv
  <2> QED  BY <2>1, <2>2 DEF AgentAwake, InputAwake, PingAwake, RspAwake
<1>5. pc'[Conn] # "forward" => scan' = 0
  BY <1>1 DEF WakeInv
<1>6. UNCHANGED <<outBuf, portBusy>> => ConnAwake'
  BY <1>1, <1>2, <1>3 DEF WakeInv, ConnAwake
<1> QED  BY <1>3, <1>4, <1>5, <1>6
\* The wake-up invariant: the start, and the steps of the agents.
LEMMA InitWake == Init => WakeInv
<1> SUFFICES ASSUME Init PROVE WakeInv  OBVIOUS
<1>0. \A h \in Handler : NextTick(0, h) \in Nat /\ NextTick(0, h) > 0  BY NextTickLater
<1>1. Starter \subseteq Agent /\ now = 0 /\ \A a \in Agent : a \notin Starter => numPing[a] = 0
  BY DEF Init, Starter
<1>2. \A e \in queue : \E a \in Starter : e = [time |-> NextTick(0, a), handler |-> a]
  BY DEF Init
<1>3. \A a \in Starter : [time |-> NextTick(0, a), handler |-> a] \in queue
                         /\ next[a] = NextTick(0, a)
  BY <1>1, HandlerFacts DEF Init
<1>4. \A h \in Handler : h \notin Starter => next[h] = -1
  BY DEF Init
<1>5. SchedInv
  <2>1. \A e \in queue : now <= e.time /\ e.time <= next[e.handler]
    BY <1>0, <1>1, <1>2, <1>3, HandlerFacts
  <2>2. \A h \in Handler : next[h] > now => [time |-> next[h], handler |-> h] \in queue
    <3> SUFFICES ASSUME NEW h \in Handler, next[h] > now
                 PROVE  [time |-> next[h], handler |-> h] \in queue
      OBVIOUS
    <3>1. h \in Starter  BY <1>1, <1>4
    <3> QED  BY <3>1, <1>3
  <2>3. ConnRunsLast
    BY <1>1, <1>4, HandlerFacts DEF ConnRunsLast
  <2> QED  BY <2>1, <2>2, <2>3, HandlerFacts DEF SchedInv, Init
<1>6. ASSUME NEW a \in Agent PROVE AgentAwake(a)
  <2>1. ASSUME numPing[a] > 0 PROVE Pending(a)
    <3>1. [time |-> NextTick(0, a), handler |-> a] \in queue  BY <1>3, <2>1 DEF Starter
    <3> QED  BY <3>1 DEF Pending
  <2>2. inBuf[a] = <<>> /\ trans[a] = <<>>  BY DEF Init
  <2> QED  BY <2>1, <2>2 DEF AgentAwake, InputAwake, PingAwake, RspAwake, Awake
<1> QED  BY <1>5, <1>6, HandlerFacts DEF WakeInv, BusyMeansFull, ConnAwake, Init

\* An agent's step that neither sends nor takes a message: the buffers stay.
LEMMA LocalStep ==
    ASSUME TypeOK, WakeInv, NEW a \in Agent, pc[a] # "idle",
           UNCHANGED <<now, queue, next, inBuf, portBusy, outBuf, endBusy, scan>>,
           NEW l, l # "idle", NEW b \in BOOLEAN, Goto(a, l, b),
           \A c \in Agent \ {a} : trans'[c] = trans[c] /\ numPing'[c] = numPing[c],
           AgentAwake(a)'
    PROVE  WakeInv'
<1>0. progress[a] \in BOOLEAN  BY HandlerFacts DEF TypeOK, SchedTypeOK
<1>1. SchedInv'
  BY <1>0, NoTick, AgentSched DEF TypeOK, WakeInv, Goto
<1>2. /\ \A c \in Agent \ {a} : AgentAwake(c)'
      /\ pc'[Conn] # "forward" => scan' = 0
      /\ ConnAwake'
  BY <1>0, AgentFrame DEF Goto
<1>3. BusyMeansFull'  BY DEF WakeInv, BusyMeansFull
<1> QED  BY <1>1, <1>2, <1>3 DEF WakeInv

LEMMA BeginWake ==
    ASSUME TypeOK, WakeInv, NEW a \in Agent, AgentBegin(a)
    PROVE  WakeInv'
<1> USE HandlerFacts DEF TypeOK, SchedTypeOK
<1>1. PICK e \in queue : e.handler = a /\ Begin(e, "sendRsp")
  BY DEF AgentBegin
<1>2. /\ SchedInv'
      /\ \A h \in Handler \ {a} : Awake(h) => Awake(h)'
      /\ pc[Conn] = "idle"
  BY <1>1, BeginSched DEF WakeInv, Location
<1>3. pc' = [pc EXCEPT ![a] = "sendRsp"] /\ UNCHANGED <<connVars, agentVars>>
  BY <1>1 DEF Begin, AgentBegin
<1>4. \A h \in Handler \ {a} : pc'[h] = pc[h]  BY <1>3
<1>5. AgentAwake(a)'
  BY <1>3 DEF AgentAwake, InputAwake, PingAwake, RspAwake
<1>6. \A c \in Agent \ {a} : AgentAwake(c)'
  BY <1>2, <1>3, <1>4
     DEF WakeInv, AgentAwake, InputAwake, PingAwake, RspAwake, connVars, agentVars
<1>7. ConnAwake'
  BY <1>2, <1>3, <1>4 DEF WakeInv, ConnAwake, connVars, PortAt
<1>8. BusyMeansFull' /\ (pc'[Conn] # "forward" => scan' = 0)
  BY <1>3, <1>4 DEF WakeInv, BusyMeansFull, connVars
<1> QED  BY <1>2, <1>5, <1>6, <1>7, <1>8 DEF WakeInv

LEMMA SendWake ==
    ASSUME TypeOK, WakeInv, NEW a \in Agent, pc[a] # "idle",
           NEW m \in Msg, SendOk(a, m), UNCHANGED <<now, nextPortID, scan>>,
           NEW l, l # "idle", Goto(a, l, TRUE),
           \A c \in Agent \ {a} : trans'[c] = trans[c] /\ numPing'[c] = numPing[c]
    PROVE  WakeInv'
<1> USE HandlerFacts DEF TypeOK
<1>1. /\ SchedInv' /\ queue \subseteq queue' /\ Pending(Conn)'
  BY AgentSched DEF WakeInv, SendOk, Goto, SchedTypeOK
<1>2. /\ \A c \in Agent \ {a} : AgentAwake(c)'
      /\ pc'[Conn] # "forward" => scan' = 0
  BY <1>1, AgentFrame DEF Goto, SchedTypeOK, SendOk
<1>3. AgentAwake(a)'
  BY DEF Goto, SchedTypeOK, AgentAwake, InputAwake, PingAwake, RspAwake, Awake
<1>4. ConnAwake'  BY <1>1 DEF ConnAwake, Awake
<1>5. BusyMeansFull'
  BY CapAssumption DEF WakeInv, BusyMeansFull, SendOk, CanSend, ConnTypeOK
<1> QED  BY <1>1, <1>2, <1>3, <1>4, <1>5 DEF WakeInv

LEMMA SendFailWake ==
    ASSUME TypeOK, WakeInv, NEW a \in Agent, pc[a] # "idle",
           SendFail(a), UNCHANGED <<now, nextPortID, scan, trans, numPing>>,
           NEW l \in {"sendPing", "countDown"}, Goto(a, l, FALSE)
    PROVE  WakeInv'
<1> USE HandlerFacts DEF TypeOK
<1>0. progress[a] \in BOOLEAN  BY DEF SchedTypeOK
<1>1. SchedInv' /\ queue \subseteq queue'
  BY <1>0, NoTick, AgentSched DEF WakeInv, SendFail, Goto
<1>2. /\ \A c \in Agent \ {a} : AgentAwake(c)'
      /\ pc'[Conn] # "forward" => scan' = 0
      /\ ConnAwake'
  BY <1>0, <1>1, AgentFrame DEF Goto, SendFail, ConnTypeOK
<1>3. endBusy'[a] /\ pc'[a] = l
  BY DEF SendFail, ConnTypeOK, Goto, SchedTypeOK
<1>4. AgentAwake(a)'
  BY <1>3 DEF AgentAwake, InputAwake, PingAwake, RspAwake
<1>5. BusyMeansFull'
  <2>1. Len(outBuf[a]) = OutCap[a]
    <3>1. Len(outBuf[a]) \in Nat /\ Len(outBuf[a]) <= OutCap[a]
      BY SeqFacts DEF ConnTypeOK
    <3>2. ~ (Len(outBuf[a]) < OutCap[a]) /\ OutCap[a] \in Nat
      BY CapAssumption DEF SendFail, CanSend
    <3> QED  BY <3>1, <3>2
  <2> QED  BY <2>1 DEF WakeInv, BusyMeansFull, SendFail, ConnTypeOK
<1> QED  BY <1>1, <1>2, <1>4, <1>5 DEF WakeInv

LEMMA RetrieveWake ==
    ASSUME TypeOK, WakeInv, NEW a \in Agent, pc[a] # "idle",
           Retrieve(a), UNCHANGED <<now, nextPortID, scan, numPing>>,
           NEW l, l # "idle", Goto(a, l, TRUE), \A c \in Agent \ {a} : trans'[c] = trans[c]
    PROVE  WakeInv'
<1> USE HandlerFacts DEF TypeOK
<1>1. SchedInv' /\ queue \subseteq queue' /\ (portBusy[a] => Pending(Conn)')
  <2>1. CASE portBusy[a]
    <3>1. Tick({Conn}, {})  BY <2>1 DEF Retrieve
    <3> QED  BY <3>1, AgentSched DEF WakeInv, Goto, SchedTypeOK
  <2>2. CASE ~ portBusy[a]
    <3>1. Tick({}, {})  BY <2>2 DEF Retrieve
    <3> QED  BY <2>2, <3>1, AgentSched DEF WakeInv, Goto, SchedTypeOK
  <2> QED  BY <2>1, <2>2
<1>2. /\ \A c \in Agent \ {a} : AgentAwake(c)'
      /\ pc'[Conn] # "forward" => scan' = 0
      /\ pc[Conn] = "idle" /\ ~ progress[Conn]
  BY <1>1, AgentFrame DEF Goto, SchedTypeOK, Retrieve, ConnTypeOK
<1>3. AgentAwake(a)'
  BY DEF Goto, SchedTypeOK, AgentAwake, InputAwake, PingAwake, RspAwake, Awake
<1>4. ConnAwake'
  <2>1. CASE portBusy[a]  BY <2>1, <1>1 DEF ConnAwake, Awake
  <2>2. CASE ~ portBusy[a]
    <3>1. portBusy' = portBusy /\ outBuf' = outBuf
      BY <2>2 DEF Retrieve, ConnTypeOK
    <3> QED  BY <3>1, <1>1, AgentFrame DEF Goto, SchedTypeOK, Retrieve, ConnTypeOK
  <2> QED  BY <2>1, <2>2
<1>5. BusyMeansFull'
  <2>1. ~ portBusy'[a] /\ \A q \in Agent \ {a} : portBusy'[q] = portBusy[q] /\ inBuf'[q] = inBuf[q]
    BY DEF Retrieve, ConnTypeOK
  <2>2. outBuf' = outBuf /\ endBusy' = endBusy  BY DEF Retrieve
  <2>3. BusyMeansFull  BY DEF WakeInv
  <2>4. ASSUME NEW q \in Agent
        PROVE  /\ portBusy'[q] => Len(inBuf'[q]) = InCap[q]
               /\ endBusy'[q] => Len(outBuf'[q]) = OutCap[q]
    <3>1. portBusy'[q] => q # a /\ portBusy[q] /\ inBuf'[q] = inBuf[q]
      BY <2>1
    <3>2. portBusy[q] => Len(inBuf[q]) = InCap[q]  BY <2>3 DEF BusyMeansFull
    <3>3. endBusy[q] => Len(outBuf[q]) = OutCap[q]  BY <2>3 DEF BusyMeansFull
    <3>4. portBusy'[q] => Len(inBuf'[q]) = InCap[q]  BY <3>1, <3>2
    <3>5. endBusy'[q] => Len(outBuf'[q]) = OutCap[q]  BY <3>3, <2>2
    <3> QED  BY <3>4, <3>5
  <2> QED  BY <2>4 DEF BusyMeansFull
<1> QED  BY <1>1, <1>2, <1>3, <1>4, <1>5 DEF WakeInv
LEMMA AgentEndWake ==
    ASSUME TypeOK, WakeInv, NEW a \in Agent, AgentEnd(a)
    PROVE  WakeInv'
<1> USE HandlerFacts DEF TypeOK
<1> DEFINE late == IF progress[a] THEN {a} ELSE {}
<1>0. /\ pc[a] = "end" /\ now' = now
      /\ UNCHANGED connVars /\ UNCHANGED agentVars
  BY DEF AgentEnd, EndTick
<1>1. SchedInv' /\ queue \subseteq queue' /\ (progress[a] => Pending(a)')
  <2>1. ASSUME NEW l, l = "idle", pc' = [pc EXCEPT ![a] = l],
               NEW S \in SUBSET Handler, S = late, Tick({}, S)
        PROVE  SchedInv' /\ queue \subseteq queue' /\ \A h \in S : Pending(h)'
    <3>1. \A h \in {} \cup S : h \in S  OBVIOUS
    <3>2. progress' = [progress EXCEPT ![a] = FALSE]  BY DEF AgentEnd, EndTick
    <3> QED  BY <1>0, <2>1, <3>1, <3>2, AgentSched DEF WakeInv
  <2>2. late \in SUBSET Handler /\ Tick({}, late) /\ pc' = [pc EXCEPT ![a] = "idle"]
    BY DEF AgentEnd, EndTick
  <2> QED  BY <2>1, <2>2
<1>2. \A c \in Agent \ {a} : AgentAwake(c)'
  <2>1. ASSUME NEW c \in Agent \ {a} PROVE AgentAwake(c)'
    <3>1. pc'[c] = pc[c] /\ progress'[c] = progress[c]
      BY DEF AgentEnd, EndTick, SchedTypeOK
    <3>2. Awake(c) => Awake(c)'  BY <1>1, <3>1, StayAwake
    <3>3. AgentAwake(c)  BY DEF WakeInv
    <3> QED  BY <1>0, <3>1, <3>2, <3>3
             DEF AgentAwake, InputAwake, PingAwake, RspAwake, connVars, agentVars
  <2> QED  BY <2>1
<1>3. AgentAwake(a)'
  <2>1. AgentAwake(a)  BY DEF WakeInv
  <2>2. Awake(a) => Awake(a)'  BY <1>1 DEF Awake, Pending
  <2> QED  BY <1>0, <2>1, <2>2
           DEF AgentAwake, InputAwake, PingAwake, RspAwake, connVars, agentVars
<1>4. pc'[Conn] = pc[Conn] /\ progress'[Conn] = progress[Conn]
  BY DEF AgentEnd, EndTick, SchedTypeOK
<1>5. ConnAwake'
  <2>1. Awake(Conn) => Awake(Conn)'  BY <1>1, <1>4, StayAwake
  <2> QED  BY <1>0, <1>4, <2>1 DEF WakeInv, ConnAwake, connVars, PortAt
<1>6. BusyMeansFull' /\ (pc'[Conn] # "forward" => scan' = 0)
  BY <1>0, <1>4 DEF WakeInv, BusyMeansFull, connVars
<1> QED  BY <1>1, <1>2, <1>3, <1>5, <1>6 DEF WakeInv

LEMMA AgentWake ==
    ASSUME TypeOK, WakeInv, NEW a \in Agent, AgentNext(a)
    PROVE  WakeInv'
<1> USE HandlerFacts
<1>0. AgentAwake(a)  BY DEF WakeInv
<1>1. CASE AgentBegin(a)  BY <1>1, BeginWake
<1>2. CASE SendRsp(a)
  <2>1. Head(trans[a]) \in Trans
    BY <1>2, SeqFacts DEF SendRsp, HasRsp, TypeOK, AgentTypeOK
  <2>2. PingRsp(a, Head(trans[a])) \in Msg  BY <2>1 DEF PingRsp, Trans, Msg
  <2> QED  BY <1>2, <2>2, SendWake DEF SendRsp, TypeOK, AgentTypeOK
<1>3. CASE SendRspFail(a)
  BY <1>3, SendFailWake DEF SendRspFail, agentVars
<1>4. CASE NoRsp(a)
  <2>1. pc'[a] = "sendPing" /\ UNCHANGED <<queue, next, connVars, agentVars>>
        /\ (progress[a] => progress'[a])
    BY <1>4 DEF NoRsp, Goto, TypeOK, SchedTypeOK
  <2>2. trans[a] # <<>> => Head(trans[a]).cycleLeft > 0
    <3>1. trans[a] # <<>> => Head(trans[a]) \in Trans
      BY SeqFacts DEF TypeOK, AgentTypeOK
    <3> QED  BY <3>1, <1>4, PingAssumption DEF NoRsp, HasRsp, Trans
  <2>3. AgentAwake(a)'
    BY <2>1, <2>2 DEF AgentAwake, InputAwake, PingAwake, RspAwake, agentVars
  <2> QED  BY <1>4, <2>3, LocalStep DEF NoRsp, connVars, agentVars
<1>5. CASE SendPing(a)
  <2>1. Ping(a) \in Msg  BY DEF Ping, Msg, TypeOK, AgentTypeOK
  <2> QED  BY <1>5, <2>1, SendWake DEF SendPing, TypeOK, AgentTypeOK
<1>6. CASE SendPingFail(a)
  BY <1>6, SendFailWake DEF SendPingFail, agentVars
<1>7. CASE NoPing(a)
  <2>1. pc'[a] = "countDown" /\ UNCHANGED <<queue, next, connVars, agentVars>>
        /\ (Awake(a) => Awake(a)') /\ pc[a] = "sendPing" /\ numPing[a] = 0
    BY <1>7, StayAwake DEF NoPing, Goto, TypeOK, SchedTypeOK
  <2>2. AgentAwake(a)'
    BY <1>0, <2>1
       DEF AgentAwake, InputAwake, PingAwake, RspAwake, connVars, agentVars
  <2> QED  BY <1>7, <2>2, LocalStep DEF NoPing, connVars, agentVars
<1>8. CASE CountDown(a)
  <2>1. /\ pc[a] = "countDown" /\ pc'[a] = "processInput"
        /\ UNCHANGED <<now, queue, next, connVars, numPing, nextSeq, answered>>
        /\ Awake(a) => Awake(a)'
        /\ \A c \in Agent \ {a} : trans'[c] = trans[c]
    BY <1>8, StayAwake DEF CountDown, Goto, TypeOK, SchedTypeOK, AgentTypeOK
  <2>2. ASSUME trans[a] # <<>>, Head(trans[a]).cycleLeft > 0 PROVE progress'[a]
    <3>1. 1 \in DOMAIN trans[a] /\ trans[a][1].cycleLeft > 0
      BY <2>2 DEF TypeOK, AgentTypeOK
    <3> QED  BY <1>8, <3>1 DEF CountDown, Goto, TypeOK, SchedTypeOK
  <2>3. trans'[a] # <<>> => trans[a] # <<>>
    BY <1>8 DEF CountDown, Decrement, TypeOK, AgentTypeOK
  <2>4. AgentAwake(a)'
    BY <1>0, <2>1, <2>2, <2>3
       DEF AgentAwake, InputAwake, PingAwake, RspAwake, Awake, connVars
  <2> QED  BY <1>8, <2>1, <2>4, LocalStep DEF CountDown, connVars
<1>9. CASE ProcessPing(a)
  BY <1>9, RetrieveWake DEF ProcessPing, TypeOK, AgentTypeOK
<1>10. CASE ProcessRsp(a)
  BY <1>10, RetrieveWake DEF ProcessRsp
<1>11. CASE NoInput(a)
  <2>1. /\ pc'[a] = "end" /\ UNCHANGED <<queue, next, connVars, agentVars>>
        /\ Awake(a) => Awake(a)'
        /\ pc[a] = "processInput" /\ inBuf[a] = <<>>
    BY <1>11, StayAwake DEF NoInput, Goto, TypeOK, SchedTypeOK
  <2>2. AgentAwake(a)'
    BY <1>0, <2>1
       DEF AgentAwake, InputAwake, PingAwake, RspAwake, connVars, agentVars
  <2> QED  BY <1>11, <2>2, LocalStep DEF NoInput, connVars, agentVars
<1>12. CASE AgentEnd(a)  BY <1>12, AgentEndWake
<1> QED  BY <1>1, <1>2, <1>3, <1>4, <1>5, <1>6, <1>7, <1>8, <1>9, <1>10, <1>11, <1>12
         DEF AgentNext
\* The steps of the connection.
LEMMA ConnBeginWake ==
    ASSUME TypeOK, WakeInv, ConnBegin, UNCHANGED agentVars
    PROVE  WakeInv'
<1> USE HandlerFacts DEF TypeOK, SchedTypeOK
<1>1. PICK e \in queue : e.handler = Conn /\ Begin(e, "forward")
  BY DEF ConnBegin
<1>2. /\ SchedInv'
      /\ \A h \in Agent : Awake(h) => Awake(h)'
      /\ \A a \in Agent : pc[a] = "idle"
  BY <1>1, BeginSched DEF WakeInv, Location
<1>3. pc' = [pc EXCEPT ![Conn] = "forward"] /\ UNCHANGED <<connVars, agentVars>>
  BY <1>1 DEF Begin, ConnBegin
<1>4. \A a \in Agent : AgentAwake(a)'
  <2> SUFFICES ASSUME NEW a \in Agent PROVE AgentAwake(a)'  OBVIOUS
  <2>1. AgentAwake(a) /\ pc'[a] = pc[a] /\ (Awake(a) => Awake(a)')
    BY <1>2, <1>3 DEF WakeInv
  <2> QED  BY <1>3, <2>1
           DEF AgentAwake, InputAwake, PingAwake, RspAwake, connVars, agentVars
<1>5. scan = 0
  <2>1. pc[Conn] = "idle"  BY <1>1 DEF Begin, MayRun
  <2> QED  BY <2>1 DEF WakeInv
<1>6. ConnAwake'
  <2>1. \A p \in Agent : \E i \in scan' .. N - 1 : PortAt(i)' = p
    BY <1>3, <1>5, PortAtAll DEF connVars, ConnTypeOK, PortAt
  <2> QED  BY <1>3, <2>1 DEF ConnAwake
<1>7. BusyMeansFull'  BY <1>3 DEF WakeInv, BusyMeansFull, connVars
<1> QED  BY <1>2, <1>3, <1>4, <1>6, <1>7 DEF WakeInv

LEMMA DeliverWake ==
    ASSUME TypeOK, WakeInv, Deliver, UNCHANGED agentVars
    PROVE  WakeInv'
<1> USE HandlerFacts DEF TypeOK
<1> DEFINE p == PortAt(scan)
           m == Head(outBuf[p])
           late == {m.dst} \cup IF endBusy[p] THEN {p} ELSE {}
<1>1. p \in Agent  BY PortAtType DEF Deliver, ConnTypeOK
<1> HIDE DEF p
<1>2. m \in Msg /\ m.dst \in Agent
  <2>1. m \in Msg  BY <1>1, SeqFacts DEF Deliver, p, ConnTypeOK
  <2> QED  BY <2>1 DEF Msg
<1>3. /\ pc[Conn] = "forward" /\ scan < N /\ outBuf[p] # <<>>
      /\ Len(inBuf[m.dst]) < InCap[m.dst]
      /\ inBuf' = [inBuf EXCEPT ![m.dst] = Append(@, m)]
      /\ outBuf' = [outBuf EXCEPT ![p] = Tail(@)]
      /\ Tick({}, late)
      /\ endBusy' = [endBusy EXCEPT ![p] = FALSE]
      /\ Goto(Conn, "forward", TRUE)
      /\ UNCHANGED <<now, portBusy, nextPortID, scan>>
  BY DEF Deliver, p
<1>4. late \in SUBSET Handler  BY <1>1, <1>2
<1> HIDE DEF m, late
<1>5. SchedInv' /\ queue \subseteq queue' /\ \A h \in late : Pending(h)'
  <2>1. ASSUME NEW l, l # "idle", Goto(Conn, l, TRUE)
        PROVE  SchedInv' /\ queue \subseteq queue' /\ \A h \in late : Pending(h)'
    BY <1>3, <1>4, <2>1, ConnSched DEF WakeInv, Goto, SchedTypeOK
  <2> QED  BY <1>3, <2>1
<1>6. \A h : h = m.dst \/ (h = p /\ endBusy[p]) => Pending(h)'
  BY <1>5 DEF late
<1>7. \A a \in Agent : AgentAwake(a)'
  <2> SUFFICES ASSUME NEW a \in Agent PROVE AgentAwake(a)'  OBVIOUS
  <2>1. pc'[a] = pc[a] /\ progress'[a] = progress[a]
    BY <1>3 DEF Goto, SchedTypeOK
  <2>2. Awake(a) => Awake(a)'  BY <1>5, <2>1, StayAwake
  <2>3. AgentAwake(a)  BY DEF WakeInv
  <2>4. InputAwake(a)'
    <3>1. CASE a = m.dst  BY <3>1, <1>6 DEF InputAwake, Awake
    <3>2. CASE a # m.dst
      <4>1. inBuf'[a] = inBuf[a]  BY <3>2, <1>3 DEF ConnTypeOK
      <4> QED  BY <4>1, <2>1, <2>2, <2>3 DEF AgentAwake, InputAwake
    <3> QED  BY <3>1, <3>2
  <2>5. endBusy[a] => endBusy'[a] \/ Awake(a)'
    <3>1. CASE a = p  BY <3>1, <1>6 DEF Awake
    <3>2. CASE a # p  BY <3>2, <1>3 DEF ConnTypeOK
    <3> QED  BY <3>1, <3>2
  <2> QED  BY <2>1, <2>2, <2>3, <2>4, <2>5
           DEF AgentAwake, PingAwake, RspAwake, agentVars
<1>8. ConnAwake'
  <2>1. progress'[Conn]  BY <1>3 DEF Goto, SchedTypeOK
  <2> QED  BY <2>1 DEF ConnAwake, Awake
<1>9. BusyMeansFull'
  <2> SUFFICES ASSUME NEW a \in Agent
               PROVE  /\ portBusy'[a] => Len(inBuf'[a]) = InCap[a]
                      /\ endBusy'[a] => Len(outBuf'[a]) = OutCap[a]
    BY DEF BusyMeansFull
  <2>1. portBusy'[a] => a # m.dst
    <3>1. Len(inBuf[m.dst]) # InCap[m.dst]
      BY <1>2, <1>3, SeqFacts, CapAssumption DEF ConnTypeOK
    <3> QED  BY <1>2, <1>3, <3>1 DEF WakeInv, BusyMeansFull
  <2>2. a # m.dst => inBuf'[a] = inBuf[a]  BY <1>3 DEF ConnTypeOK
  <2>3. endBusy'[a] => a # p /\ endBusy[a]  BY <1>3 DEF ConnTypeOK
  <2>4. a # p => outBuf'[a] = outBuf[a]  BY <1>3 DEF ConnTypeOK
  <2> QED  BY <1>3, <2>1, <2>2, <2>3, <2>4 DEF WakeInv, BusyMeansFull
<1>10. pc'[Conn] = "forward"  BY <1>3 DEF Goto, SchedTypeOK
<1> QED  BY <1>5, <1>7, <1>8, <1>9, <1>10 DEF WakeInv

\* The connection goes on to the next port, which leaves the port it was at empty
\* or remembered by the receiver that is full.
LEMMA VisitWake ==
    ASSUME TypeOK, WakeInv, pc[Conn] = "forward", scan < N, scan' = scan + 1,
           UNCHANGED <<schedVars, inBuf, outBuf, endBusy, nextPortID, agentVars>>,
           \A a \in Agent : portBusy[a] => portBusy'[a],
           BusyMeansFull',
           outBuf[PortAt(scan)] # <<>> => portBusy'[Head(outBuf[PortAt(scan)]).dst]
    PROVE  WakeInv'
<1>1. SchedInv'
  BY DEF WakeInv, SchedInv, ConnRunsLast, schedVars
<1>2. \A h : Awake(h)' <=> Awake(h)
  BY DEF Awake, Pending, schedVars
<1>3. \A a \in Agent : AgentAwake(a)'
  BY <1>2 DEF WakeInv, AgentAwake, InputAwake, PingAwake, RspAwake, schedVars, agentVars
<1>4. ConnAwake'
  <2> SUFFICES ASSUME NEW p \in Agent, outBuf[p] # <<>>, ~ Awake(Conn),
                      ~ portBusy'[Head(outBuf[p]).dst]
               PROVE  \E i \in scan + 1 .. N - 1 : PortAt(i) = p
    BY <1>2 DEF ConnAwake, schedVars, PortAt
  <2>1. Head(outBuf[p]).dst \in Agent
    <3>1. Head(outBuf[p]) \in Msg  BY SeqFacts DEF TypeOK, ConnTypeOK
    <3> QED  BY <3>1 DEF Msg
  <2>2. ~ portBusy[Head(outBuf[p]).dst]  BY <2>1
  <2>3. PICK i \in scan .. N - 1 : PortAt(i) = p
    BY <2>2 DEF WakeInv, ConnAwake
  <2>4. i # scan  BY <2>3
  <2> QED  BY <2>3, <2>4, NAssumption DEF TypeOK, ConnTypeOK
<1>5. pc'[Conn] = "forward"  BY DEF schedVars
<1> QED  BY <1>1, <1>3, <1>4, <1>5 DEF WakeInv

LEMMA ForwardEndWake ==
    ASSUME TypeOK, WakeInv, ForwardEnd, UNCHANGED agentVars
    PROVE  WakeInv'
<1> USE HandlerFacts DEF TypeOK
<1>1. pc[Conn] = "forward" /\ scan = N /\ scan' = 0 /\ Goto(Conn, "end", FALSE)
      /\ UNCHANGED <<now, queue, next, inBuf, portBusy, outBuf, endBusy>>
  BY DEF ForwardEnd
<1>2. \A a \in Agent : pc'[a] = pc[a]  BY <1>1 DEF Goto, SchedTypeOK
<1>3. \A h \in Handler : Awake(h)' <=> Awake(h)
  BY <1>1 DEF Goto, SchedTypeOK, Awake, Pending
<1>4. SchedInv'
  <2>1. ASSUME NEW l, l # "idle", Goto(Conn, l, FALSE) PROVE SchedInv'
    <3>1. progress[Conn] \in BOOLEAN  BY DEF SchedTypeOK
    <3>2. Tick({}, {})  BY <1>1, NoTick
    <3> QED  BY <1>1, <2>1, <3>1, <3>2, ConnSched DEF WakeInv, Goto
  <2> QED  BY <1>1, <2>1
<1>5. \A a \in Agent : AgentAwake(a)'
  BY <1>1, <1>2, <1>3 DEF WakeInv, AgentAwake, InputAwake, PingAwake, RspAwake, agentVars
<1>6. ConnAwake'
  <2>1. ~ \E i \in scan .. N - 1 : TRUE  BY <1>1, NAssumption
  <2> QED  BY <1>1, <1>3, <2>1 DEF WakeInv, ConnAwake
<1>7. BusyMeansFull'  BY <1>1 DEF WakeInv, BusyMeansFull
<1> QED  BY <1>1, <1>4, <1>5, <1>6, <1>7 DEF WakeInv

LEMMA ConnEndWake ==
    ASSUME TypeOK, WakeInv, ConnEnd, UNCHANGED agentVars
    PROVE  WakeInv'
<1> USE HandlerFacts DEF TypeOK
<1> DEFINE late == IF progress[Conn] THEN {Conn} ELSE {}
<1>1. pc[Conn] = "end" /\ now' = now /\ UNCHANGED <<connVars, agentVars>>
  BY DEF ConnEnd, EndTick
<1>2. SchedInv' /\ queue \subseteq queue' /\ (progress[Conn] => Pending(Conn)')
  <2>1. ASSUME NEW l, l = "idle", pc' = [pc EXCEPT ![Conn] = l],
               NEW S \in SUBSET Handler, S = late, Tick({}, S)
        PROVE  SchedInv' /\ queue \subseteq queue' /\ \A h \in S : Pending(h)'
    <3>2. progress' = [progress EXCEPT ![Conn] = FALSE]  BY DEF ConnEnd, EndTick
    <3> QED  BY <1>1, <2>1, <3>2, ConnSched DEF WakeInv
  <2>2. late \in SUBSET Handler /\ Tick({}, late) /\ pc' = [pc EXCEPT ![Conn] = "idle"]
    BY DEF ConnEnd, EndTick
  <2> QED  BY <2>1, <2>2
<1>3. /\ pc'[Conn] = "idle"
      /\ \A a \in Agent : pc'[a] = pc[a] /\ progress'[a] = progress[a]
  BY DEF ConnEnd, EndTick, SchedTypeOK
<1>4. \A a \in Agent : Awake(a) => Awake(a)'
  BY <1>2, <1>3, StayAwake
<1>5. \A a \in Agent : AgentAwake(a)'
  BY <1>1, <1>3, <1>4
     DEF WakeInv, AgentAwake, InputAwake, PingAwake, RspAwake, connVars, agentVars
<1>6. ConnAwake'
  <2>1. Awake(Conn) => Awake(Conn)'  BY <1>2 DEF Awake, Pending
  <2> QED  BY <1>1, <2>1 DEF WakeInv, ConnAwake, connVars
<1>7. BusyMeansFull' /\ scan' = 0  BY <1>1 DEF WakeInv, BusyMeansFull, connVars
<1> QED  BY <1>2, <1>5, <1>6, <1>7 DEF WakeInv

LEMMA ConnWake ==
    ASSUME TypeOK, WakeInv, ConnNext, UNCHANGED agentVars
    PROVE  WakeInv'
<1>1. CASE ConnBegin  BY <1>1, ConnBeginWake
<1>2. CASE Deliver  BY <1>2, DeliverWake
<1>3. CASE Refuse
  <2> DEFINE p == PortAt(scan)
             m == Head(outBuf[p])
  <2>1. p \in Agent  BY <1>3, PortAtType DEF Refuse, TypeOK, ConnTypeOK
  <2> HIDE DEF p
  <2>2. m \in Msg  BY <1>3, <2>1, SeqFacts DEF Refuse, p, TypeOK, ConnTypeOK
  <2>3. m.dst \in Agent  BY <2>2 DEF Msg
  <2>4. /\ Len(inBuf[m.dst]) >= InCap[m.dst] /\ UNCHANGED <<inBuf, outBuf, endBusy>>
        /\ portBusy' = [portBusy EXCEPT ![m.dst] = TRUE]
    BY <1>3 DEF Refuse, p
  <2>5. Len(inBuf[m.dst]) = InCap[m.dst]
    <3>1. Len(inBuf[m.dst]) \in Nat /\ Len(inBuf[m.dst]) <= InCap[m.dst]
      BY <2>3, SeqFacts DEF TypeOK, ConnTypeOK
    <3>2. InCap[m.dst] \in Nat  BY <2>3, CapAssumption
    <3> QED  BY <2>4, <3>1, <3>2
  <2> HIDE DEF m
  <2>6. \A a \in Agent : portBusy'[a] = (portBusy[a] \/ a = m.dst)
    BY <2>3, <2>4 DEF TypeOK, ConnTypeOK
  <2>7. BusyMeansFull'
    BY <2>4, <2>5, <2>6 DEF WakeInv, BusyMeansFull
  <2>8. portBusy'[Head(outBuf[PortAt(scan)]).dst]  BY <2>3, <2>6 DEF m, p
  <2> QED  BY <1>3, <2>6, <2>7, <2>8, VisitWake DEF Refuse
<1>4. CASE NothingToForward
  <2>1. BusyMeansFull'  BY <1>4 DEF NothingToForward, WakeInv, BusyMeansFull
  <2> QED  BY <1>4, <2>1, VisitWake DEF NothingToForward
<1>5. CASE ForwardEnd  BY <1>5, ForwardEndWake
<1>6. CASE ConnEnd  BY <1>6, ConnEndWake
<1> QED  BY <1>1, <1>2, <1>3, <1>4, <1>5, <1>6 DEF ConnNext

LEMMA NextWake == TypeOK /\ WakeInv /\ [Next]_vars => WakeInv'
<1> SUFFICES ASSUME TypeOK, WakeInv, [Next]_vars PROVE WakeInv'  OBVIOUS
<1>1. CASE UNCHANGED vars
  BY <1>1 DEF vars, schedVars, connVars, agentVars, WakeInv, SchedInv, ConnRunsLast,
              BusyMeansFull, ConnAwake, PortAt, AgentAwake, InputAwake, PingAwake,
              RspAwake, Awake, Pending
<1> QED  BY <1>1, AgentWake, ConnWake DEF Next, Finished

\* The wake-up invariant holds for every number of components, all frequencies and
\* all capacities: the marks portBusy and busy, NotifyAvailable, NotifyPortFree
\* and NotifyRecv of akita/sim together keep every component that has work awake.
THEOREM WakeCorrect == Spec => []WakeInv
<1>1. TypeOK /\ WakeInv /\ [Next]_vars => TypeOK' /\ WakeInv'
  BY NextType, NextWake
<1> QED  BY <1>1, InitType, InitWake, PTL DEF Spec

\* When the engine runs out of events all the work is done: no wake-up is lost.
THEOREM NoLostWakeupCorrect == Spec => []NoLostWakeup
<1>1. TypeOK /\ WakeInv => NoLostWakeup
  <2> SUFFICES ASSUME TypeOK, WakeInv, Idle, queue = {}, NEW a \in Agent
               PROVE  /\ inBuf[a] = <<>> /\ outBuf[a] = <<>>
                      /\ trans[a] = <<>> /\ numPing[a] = 0
    BY DEF NoLostWakeup
  <2>1. \A h \in Handler : ~ Awake(h) /\ pc[h] = "idle"
    BY DEF Awake, Pending, Idle, WakeInv, SchedInv
  <2>2. \A b \in Agent : AgentAwake(b) /\ pc[b] = "idle" /\ ~ Awake(b)
    BY <2>1, HandlerFacts DEF WakeInv
  <2>3. \A b \in Agent : inBuf[b] = <<>>
    BY <2>2 DEF AgentAwake, InputAwake
  <2>4. \A b \in Agent : ~ portBusy[b]
    BY <2>3, CapAssumption DEF WakeInv, BusyMeansFull
  <2>5. \A b \in Agent : outBuf[b] = <<>>
    <3> SUFFICES ASSUME NEW b \in Agent, outBuf[b] # <<>> PROVE FALSE  OBVIOUS
    <3>1. Head(outBuf[b]) \in Msg  BY SeqFacts DEF TypeOK, ConnTypeOK
    <3>2. Head(outBuf[b]).dst \in Agent  BY <3>1 DEF Msg
    <3> QED  BY <2>1, <2>4, <3>2, HandlerFacts DEF WakeInv, ConnAwake
  <2>6. \A b \in Agent : ~ endBusy[b]
    BY <2>5, CapAssumption DEF WakeInv, BusyMeansFull
  <2>7. trans[a] = <<>> /\ ~ (numPing[a] > 0)
    BY <2>2, <2>6 DEF AgentAwake, PingAwake, RspAwake
  <2> QED  BY <2>3, <2>5, <2>7 DEF TypeOK, AgentTypeOK
<1> QED  BY <1>1, TypeCorrect, WakeCorrect, PTL
===============================================================================
