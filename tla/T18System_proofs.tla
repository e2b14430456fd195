---------------------------- MODULE T18System_proofs ----------------------------
(* Theorems about T18System, for any number of GPMs, any workload and any     *)
(* sizes of the tables, windows and buffers, with T18 on or off.  First the   *)
(* requesters: the state is well typed, the counters of a requester count     *)
(* what they are to count, and every request is answered at most once.  Then  *)
(* the engines together: no request is under way when the driver moves pages, *)
(* and a read joins a pending read at the owner only if no write comes        *)
(* between them.                                                              *)
EXTENDS T18System, SequenceLemmas, FiniteSetTheorems, TLAPS

-------------------------------------------------------------------------------
\* Types: what every action does to the types of what it changes.
Msg     == ReqMsg \cup RspMsg
L2Item  == [id : ReqId, ver : Nat]
Waking  == [req : Nat, ver : Nat]
Requesters == Seq(ReqId) \ {<<>>}
OwnerItem  == [id : ReqId, line : Line, open : BOOLEAN, reqs : Requesters]
RspItem    == [reqs : Requesters, ver : Nat, multicast : BOOLEAN]

\* TypeOK with the domains of the functions, without the cardinalities.  An entry of
\* the owner always has a request to answer.
NetType ==
    /\ net \in [Gpm -> [Gpm -> Seq(Msg)]]
    /\ toOutside \in [Gpm -> Seq(Msg)]
    /\ \A g \in Gpm : Len(toOutside[g]) <= InCap

L1Type ==
    /\ setup \in Setup
    /\ accepted \in [Gpm -> Nat] /\ \A g \in Gpm : accepted[g] <= Len(reqs[g])
    /\ answers = [g \in Gpm |-> answers[g]]
    /\ \A g \in Gpm : answers[g] \in [DOMAIN reqs[g] -> Seq(Nat)]
    /\ fromInside \in [Gpm -> SUBSET Nat] /\ \A g \in Gpm : fromInside[g] \subseteq 1 .. accepted[g]

L2Type ==
    /\ fromOutside \in [Gpm -> SUBSET ReqId]
    /\ l2Queue \in [Gpm -> Seq(ReqMsg)]
    /\ l2Rsp \in [Gpm -> Seq(L2Item)]
    /\ hist \in [Line -> Seq(ReqId)]

ReqType ==
    /\ entries \in [Gpm -> SUBSET Entry]
    /\ reqQueues \in [Gpm -> [Gpm -> Seq(Nat)]]
    /\ \A g, d \in Gpm : reqQueues[g][d] \in Seq(1 .. Len(reqs[g]))
    /\ inflight \in [Gpm -> [Gpm -> Int]] /\ total \in [Gpm -> Int]
    /\ waiters \in [Gpm -> Int]
    /\ fanout \in [Gpm -> Seq(Waking)]

OwnerType ==
    /\ ownerTable \in [Gpm -> SUBSET OwnerItem]
    /\ ownerRspQueue \in [Gpm -> Seq(RspItem)]
    /\ ownerLive \in [Gpm -> Int]

CtrlType ==
    /\ isDraining \in [Gpm -> BOOLEAN] /\ pauseIncomingReqsFromL1 \in [Gpm -> BOOLEAN]
    /\ ctrl \in [Gpm -> {"none", "drain", "restart"}]
    /\ migration \in {"none", "drain", "move", "restart"}
    /\ numACK \in Int
    /\ drains \in 0 .. setup.maxDrain

Type == NetType /\ L1Type /\ L2Type /\ ReqType /\ OwnerType /\ CtrlType

-------------------------------------------------------------------------------
LEMMA Workload ==
    ASSUME setup \in Setup, NEW g \in Gpm
    PROVE  /\ reqs[g] \in Seq(Request) /\ Len(reqs[g]) \in Nat
           /\ DOMAIN reqs[g] = 1 .. Len(reqs[g])
           /\ \A n \in 1 .. Len(reqs[g]) :
                  reqs[g][n] \in Request /\ reqs[g][n].op \in Op /\ reqs[g][n].line \in Line
<1>1. reqs[g] \in Seq(Request)  BY SetupAssumption DEF reqs
<1>2. /\ Len(reqs[g]) \in Nat /\ DOMAIN reqs[g] = 1 .. Len(reqs[g])
      /\ \A n \in 1 .. Len(reqs[g]) : reqs[g][n] \in Request
  BY <1>1, SeqType
<1>3. \A r \in Request : r.op \in Op /\ r.line \in Line  BY DEF Request
<1> QED  BY <1>1, <1>2, <1>3

\* What processFromL1 finds at the head of ToL1.
LEMMA InputType ==
    ASSUME L1Type, NEW g \in Gpm, HasInput(g)
    PROVE  /\ accepted[g] + 1 \in 1 .. Len(reqs[g])
           /\ Head1(g) = reqs[g][accepted[g] + 1]
           /\ Head1(g) \in Request /\ Head1(g).op \in Op /\ Head1(g).line \in Line
           /\ Owner[Head1(g).line] \in Gpm
<1>1. accepted[g] + 1 \in 1 .. Len(reqs[g])
  BY Workload DEF L1Type, HasInput
<1> QED  BY <1>1, Workload, OwnerAssumption DEF L1Type, Head1

LEMMA PacketType ==
    ASSUME setup \in Setup, NEW g \in Gpm, NEW n \in 1 .. Len(reqs[g])
    PROVE  /\ Packet(g, n) \in ReqMsg
           /\ Packet(g, n).line = reqs[g][n].line /\ Id(Packet(g, n)) = <<g, n>>
<1>1. reqs[g][n].op \in Op /\ reqs[g][n].line \in Line /\ n \in Nat  BY Workload
<1> QED  BY <1>1 DEF Packet, ReqMsg, Id

\* What a stage finds at the head of ToOutside.
LEMMA HeadType ==
    ASSUME NetType, NEW g \in Gpm, toOutside[g] # <<>>
    PROVE  /\ Head(toOutside[g]) \in Msg
           /\ HeadIs(g, "req") => Head(toOutside[g]) \in ReqMsg /\ Id(Head(toOutside[g])) \in ReqId
           /\ HeadIs(g, "rsp") => Head(toOutside[g]) \in RspMsg
<1>1. Head(toOutside[g]) \in Msg  BY TailElements DEF NetType
<1> QED  BY <1>1 DEF HeadIs, Msg, ReqMsg, RspMsg, ReqId, Id

\* What the updates of an entry change, and what they leave.
LEMMA EntryUpdate ==
    ASSUME NEW e \in Entry
    PROVE  /\ LET f == [e EXCEPT !.sent = TRUE]
              IN  /\ f \in Entry /\ f.sent /\ f.seq = e.seq /\ f.dst = e.dst /\ f.line = e.line
                  /\ f.waiters = e.waiters /\ f.inTable = e.inTable /\ f.open = e.open
           /\ LET f == [e EXCEPT !.open = FALSE]
              IN  /\ f \in Entry /\ f.sent = e.sent /\ f.seq = e.seq /\ f.dst = e.dst
                  /\ f.line = e.line
                  /\ f.waiters = e.waiters /\ f.inTable = e.inTable /\ ~ f.open
           /\ \A w \in Seq(Nat) :
                  LET f == [e EXCEPT !.waiters = w]
                  IN  /\ f \in Entry /\ f.sent = e.sent /\ f.seq = e.seq /\ f.dst = e.dst
                      /\ f.line = e.line
                      /\ f.waiters = w /\ f.inTable = e.inTable /\ f.open = e.open
<1>1. [e EXCEPT !.sent = TRUE] \in Entry  BY Zenon DEF Entry
<1>2. [e EXCEPT !.open = FALSE] \in Entry  BY Zenon DEF Entry
<1>3. \A w \in Seq(Nat) : [e EXCEPT !.waiters = w] \in Entry  BY Zenon DEF Entry
<1> QED  BY <1>1, <1>2, <1>3 DEF Entry

LEMMA SendType ==
    ASSUME net \in [Gpm -> [Gpm -> Seq(Msg)]], NEW g \in Gpm, NEW d \in Gpm, NEW m \in Msg,
           Send(g, d, m)
    PROVE  net' \in [Gpm -> [Gpm -> Seq(Msg)]]
<1>1. Append(net[g][d], m) \in Seq(Msg)  BY AppendElements
<1> QED  BY <1>1 DEF Send

LEMMA RetrieveType ==
    ASSUME NetType, NEW g \in Gpm, toOutside[g] # <<>>, Retrieve(g)
    PROVE  /\ toOutside' \in [Gpm -> Seq(Msg)]
           /\ \A h \in Gpm : Len(toOutside'[h]) <= InCap
<1>1. Tail(toOutside[g]) \in Seq(Msg) /\ Len(Tail(toOutside[g])) <= InCap
  BY TailElements, SeqType, NetAssumption DEF NetType
<1> QED  BY <1>1 DEF Retrieve, NetType

-------------------------------------------------------------------------------
\* Every action keeps the types.
LEMMA InitType == Init => Type
<1> SUFFICES ASSUME Init PROVE Type  OBVIOUS
<1>1. setup \in Setup  BY DEF Init, EngineInit
<1>2. NetType  BY NetAssumption DEF Init, EngineInit, NetInit, NetType
<1>3. L1Type
  <2>1. \A g \in Gpm : accepted[g] <= Len(reqs[g])  BY <1>1, Workload DEF Init, EngineInit
  <2> QED  BY <1>1, <2>1 DEF Init, EngineInit, L1Type
<1>4. L2Type  BY DEF Init, EngineInit, L2Type
<1>5. ReqType /\ OwnerType  BY DEF Init, ReqInit, OwnerInit, ReqType, OwnerType
<1>6. CtrlType  BY <1>1, SetupAssumption DEF Init, EngineInit, CtrlType
<1> QED  BY <1>2, <1>3, <1>4, <1>5, <1>6 DEF Type

LEMMA AcceptType ==
    ASSUME L1Type, NEW g \in Gpm, HasInput(g), Accept(g), UNCHANGED answers,
           fromInside' \in [Gpm -> SUBSET Nat],
           \A h \in Gpm : fromInside'[h] \subseteq fromInside[h] \cup {accepted[g] + 1},
           \A h \in Gpm : h # g => fromInside'[h] = fromInside[h]
    PROVE  L1Type'
<1>1. /\ setup' = setup /\ reqs' = reqs
      /\ accepted' = [accepted EXCEPT ![g] = accepted[g] + 1]
  BY DEF Accept, reqs
<1>2. accepted[g] + 1 \in 1 .. Len(reqs[g])  BY InputType
<1>3. accepted' \in [Gpm -> Nat] /\ \A h \in Gpm : accepted'[h] <= Len(reqs[h])
  BY <1>1, <1>2 DEF L1Type
<1>4. \A h \in Gpm : fromInside'[h] \subseteq 1 .. accepted'[h]
  <2> TAKE h \in Gpm
  <2>1. CASE h = g
    <3>1. accepted'[g] = accepted[g] + 1 /\ accepted[g] \in Nat  BY <1>1 DEF L1Type
    <3> QED  BY <2>1, <3>1 DEF L1Type
  <2>2. CASE h # g  BY <1>1, <2>2 DEF L1Type
  <2> QED  BY <2>1, <2>2
<1> QED  BY <1>1, <1>3, <1>4 DEF L1Type

LEMMA AnswerType ==
    ASSUME L1Type, NEW g \in Gpm, NEW n, NEW ver \in Nat, Answer(g, n, ver),
           UNCHANGED <<setup, accepted>>,
           fromInside' \in [Gpm -> SUBSET Nat],
           \A h \in Gpm : fromInside'[h] \subseteq fromInside[h]
    PROVE  L1Type'
<1>1. reqs' = reqs  BY DEF reqs
<1>2. answers' = [answers EXCEPT ![g] = [answers[g] EXCEPT ![n] = Append(answers[g][n], ver)]]
  BY DEF Answer
<1>3. \A h \in Gpm : answers'[h] = IF h = g THEN [answers[g] EXCEPT ![n] = Append(answers[g][n], ver)]
                                            ELSE answers[h]
  BY <1>2 DEF L1Type
<1>4. [answers[g] EXCEPT ![n] = Append(answers[g][n], ver)] \in [DOMAIN reqs[g] -> Seq(Nat)]
  <2>1. answers[g] \in [DOMAIN reqs[g] -> Seq(Nat)]  BY DEF L1Type
  <2>2. n \in DOMAIN reqs[g] => Append(answers[g][n], ver) \in Seq(Nat)
    BY <2>1, AppendElements
  <2> QED  BY <2>1, <2>2
<1>5. answers' = [h \in Gpm |-> answers'[h]]  BY <1>2 DEF L1Type
<1> QED  BY <1>1, <1>3, <1>4, <1>5 DEF L1Type

LEMMA KeepType ==
    /\ NetType /\ UNCHANGED netVars => NetType'
    /\ L1Type /\ UNCHANGED <<l1Vars, fromInside>> => L1Type'
    /\ L2Type /\ UNCHANGED <<fromOutside, l2Vars>> => L2Type'
    /\ ReqType /\ UNCHANGED <<setup, reqVars>> => ReqType'
    /\ OwnerType /\ UNCHANGED ownerVars => OwnerType'
    /\ CtrlType /\ UNCHANGED <<setup, ctrlVars>> => CtrlType'
<1>1. NetType /\ UNCHANGED netVars => NetType'  BY DEF netVars, NetType
<1>2. L1Type /\ UNCHANGED <<l1Vars, fromInside>> => L1Type'  BY DEF l1Vars, L1Type, reqs
<1>3. L2Type /\ UNCHANGED <<fromOutside, l2Vars>> => L2Type'  BY DEF l2Vars, L2Type
<1>4. ReqType /\ UNCHANGED <<setup, reqVars>> => ReqType'  BY DEF reqVars, ReqType, reqs
<1>5. OwnerType /\ UNCHANGED ownerVars => OwnerType'  BY DEF ownerVars, OwnerType
<1>6. CtrlType /\ UNCHANGED <<setup, ctrlVars>> => CtrlType'  BY DEF ctrlVars, CtrlType
<1> QED  BY <1>1, <1>2, <1>3, <1>4, <1>5, <1>6

LEMMA MergeType ==
    ASSUME L1Type, ReqType, NEW g \in Gpm, Merge(g), UNCHANGED fromInside
    PROVE  L1Type' /\ ReqType'
<1>1. L1Type'  BY AcceptType DEF Merge, L1Type
<1>2. PICK e \in entries[g] :
          entries' = [entries EXCEPT ![g] = (entries[g] \ {e}) \cup
                          {[e EXCEPT !.waiters = Append(e.waiters, accepted[g] + 1)]}]
  BY DEF Merge, OpenEntry, Table
<1>3. accepted[g] + 1 \in Nat  BY DEF L1Type
<1>4. [e EXCEPT !.waiters = Append(e.waiters, accepted[g] + 1)] \in Entry
  <2>1. e \in Entry /\ e.waiters \in Seq(Nat)  BY DEF ReqType, Entry
  <2>2. Append(e.waiters, accepted[g] + 1) \in Seq(Nat)  BY <1>3, <2>1, AppendElements
  <2> QED  BY <2>1, <2>2, EntryUpdate
<1>5. entries' \in [Gpm -> SUBSET Entry]  BY <1>2, <1>4 DEF ReqType
<1>6. waiters' \in [Gpm -> Int] /\ setup' = setup  BY DEF Merge, Accept, ReqType
<1> QED  BY <1>1, <1>5, <1>6 DEF Merge, ReqType, reqs

LEMMA NewEntryType ==
    ASSUME L1Type, ReqType, NEW g \in Gpm, NEW tracked \in BOOLEAN, NewEntry(g, tracked),
           UNCHANGED fromInside
    PROVE  L1Type' /\ ReqType'
<1> DEFINE n == accepted[g] + 1
           r == Head1(g)
           d == Owner[r.line]
           e == [seq |-> n, line |-> r.line, dst |-> d,
                 open |-> tracked /\ ReqMerge /\ Mergeable(r),
                 inTable |-> tracked, sent |-> FALSE, waiters |-> <<n>>]
           closed == IF ReqMerge /\ r.op = "write" THEN CloseLines(entries[g], r.line)
                                                   ELSE entries[g]
<1>1. L1Type'  BY AcceptType DEF NewEntry, L1Type
<1>2. n \in 1 .. Len(reqs[g]) /\ n \in Nat /\ r.line \in Line /\ d \in Gpm
  BY InputType DEF NewEntry
<1>3. e \in Entry
  <2>1. (tracked /\ ReqMerge /\ Mergeable(r)) \in BOOLEAN  OBVIOUS
  <2>2. <<n>> \in Seq(Nat)  BY <1>2
  <2> HIDE DEF n, r, d
  <2> QED  BY <1>2, <2>1, <2>2 DEF Entry
<1>4. closed \subseteq Entry
  <2>1. entries[g] \subseteq Entry  BY DEF ReqType
  <2>2. \A l : CloseLines(entries[g], l) \subseteq Entry  BY <2>1 DEF CloseLines, Entry
  <2> QED  BY <2>1, <2>2
<1>5. /\ entries' = [entries EXCEPT ![g] = closed \cup {e}]
      /\ reqQueues' = [reqQueues EXCEPT ![g][d] = Append(reqQueues[g][d], n)]
      /\ waiters' = [waiters EXCEPT ![g] = @ + 1] /\ setup' = setup
      /\ UNCHANGED <<inflight, total, fanout>>
  BY DEF NewEntry, Accept
<1> HIDE DEF e, closed, n, d, r
<1>6. entries' \in [Gpm -> SUBSET Entry]  BY <1>3, <1>4, <1>5 DEF ReqType
<1>7. /\ reqQueues' \in [Gpm -> [Gpm -> Seq(Nat)]]
      /\ \A h, c \in Gpm : reqQueues'[h][c] \in Seq(1 .. Len(reqs[h]))
  <2>1. /\ Append(reqQueues[g][d], n) \in Seq(1 .. Len(reqs[g]))
        /\ Append(reqQueues[g][d], n) \in Seq(Nat)
    BY <1>2, AppendElements DEF ReqType
  <2> QED  BY <1>2, <1>5, <2>1 DEF ReqType
<1>8. waiters' \in [Gpm -> Int]  BY <1>5 DEF ReqType
<1> QED  BY <1>1, <1>5, <1>6, <1>7, <1>8 DEF ReqType, reqs

LEMMA ForwardReqType ==
    ASSUME NetType, L1Type, NEW g \in Gpm, ForwardReq(g)
    PROVE  NetType' /\ L1Type'
<1> DEFINE n == accepted[g] + 1
<1>1. /\ HasInput(g) /\ Accept(g) /\ UNCHANGED <<answers, toOutside>>
      /\ Send(g, Owner[Head1(g).line], Packet(g, n))
      /\ fromInside' = [fromInside EXCEPT ![g] = @ \cup {n}]
  BY DEF ForwardReq
<1>2. /\ n \in 1 .. Len(reqs[g]) /\ n \in Nat /\ Owner[Head1(g).line] \in Gpm
  BY <1>1, InputType DEF L1Type
<1>3. Packet(g, n) \in Msg  BY <1>2, PacketType DEF L1Type, Msg
<1>4. NetType'  BY <1>1, <1>2, <1>3, SendType DEF NetType
<1>5. L1Type'  BY <1>1, <1>2, AcceptType DEF L1Type
<1> QED  BY <1>4, <1>5

LEMMA ForwardRspType ==
    ASSUME NetType, L1Type, NEW g \in Gpm, ForwardRsp(g)
    PROVE  NetType' /\ L1Type'
<1> DEFINE m == Head(toOutside[g])
<1>1. toOutside[g] # <<>> /\ m \in RspMsg
  BY HeadType DEF ForwardRsp, HeadIs, Received
<1>2. m.ver \in Nat  BY <1>1 DEF RspMsg
<1>3. NetType'  BY <1>1, RetrieveType DEF ForwardRsp, NetType
<1>4. L1Type'  BY <1>2, AnswerType DEF ForwardRsp, L1Type
<1> QED  BY <1>3, <1>4

LEMMA IssueType ==
    ASSUME NetType, L1Type, ReqType, NEW g \in Gpm, Issue(g), UNCHANGED fromInside
    PROVE  NetType' /\ L1Type' /\ ReqType'
<1>1. PICK d \in Gpm :
          /\ Best(g, d)
          /\ LET n == Head(reqQueues[g][d]) IN
                 /\ Send(g, d, Packet(g, n))
                 /\ entries' = [entries EXCEPT ![g] =
                        {IF e.seq = n THEN [e EXCEPT !.sent = TRUE] ELSE e : e \in @}]
          /\ reqQueues' = [reqQueues EXCEPT ![g][d] = Tail(@)]
          /\ Acquire(g, d)
          /\ UNCHANGED <<toOutside, l1Vars, waiters, fanout>>
  BY DEF Issue
<1> DEFINE n == Head(reqQueues[g][d])
<1>2. reqQueues[g][d] # <<>>  BY <1>1 DEF Best, Waiting
<1>3. /\ n \in 1 .. Len(reqs[g])
      /\ Tail(reqQueues[g][d]) \in Seq(1 .. Len(reqs[g]))
      /\ Tail(reqQueues[g][d]) \in Seq(Nat)
  <2>1. reqQueues[g][d] \in Seq(1 .. Len(reqs[g])) /\ reqQueues[g][d] \in Seq(Nat)
    BY DEF ReqType
  <2> QED  BY <1>2, <2>1, TailElements
<1> HIDE DEF n
<1>4. Packet(g, n) \in Msg  BY <1>3, PacketType DEF L1Type, Msg
<1>5. NetType'  BY <1>1, <1>4, SendType DEF NetType, n
<1>6. entries' \in [Gpm -> SUBSET Entry]
  <2>1. {IF e.seq = n THEN [e EXCEPT !.sent = TRUE] ELSE e : e \in entries[g]} \subseteq Entry
    <3>1. \A e \in entries[g] : e \in Entry /\ [e EXCEPT !.sent = TRUE] \in Entry
      <4>1. entries[g] \subseteq Entry  BY DEF ReqType
      <4> QED  BY <4>1, EntryUpdate, Zenon
    <3> QED  BY <3>1
  <2> QED  BY <1>1, <2>1 DEF ReqType, n
<1>7. /\ reqQueues' \in [Gpm -> [Gpm -> Seq(Nat)]]
      /\ \A h, c \in Gpm : reqQueues'[h][c] \in Seq(1 .. Len(reqs[h]))
  BY <1>1, <1>3 DEF ReqType
<1>8. inflight' \in [Gpm -> [Gpm -> Int]] /\ total' \in [Gpm -> Int]
  <2>1. inflight[g][d] + 1 \in Int /\ total[g] + 1 \in Int  BY DEF ReqType
  <2> QED  BY <1>1, <2>1 DEF Acquire, ReqType
<1>9. L1Type'  BY <1>1, KeepType
<1> QED  BY <1>1, <1>5, <1>6, <1>7, <1>8, <1>9 DEF ReqType, l1Vars, reqs

LEMMA WokenType ==
    ASSUME NEW e \in Entry, NEW ver \in Nat
    PROVE  /\ Woken(e, ver) \in Seq(Waking) /\ Len(Woken(e, ver)) = Len(e.waiters)
           /\ \A i \in 1 .. Len(e.waiters) : Woken(e, ver)[i].req = e.waiters[i]
<1>1. e.waiters \in Seq(Nat)  BY DEF Entry
<1>2. Len(e.waiters) \in Nat /\ DOMAIN e.waiters = 1 .. Len(e.waiters)
      /\ \A i \in 1 .. Len(e.waiters) : e.waiters[i] \in Nat
  BY <1>1
<1> DEFINE n == Len(e.waiters)
           w == [i \in 1 .. n |-> [req |-> e.waiters[i], ver |-> ver]]
<1>3. \A i \in 1 .. n : [req |-> e.waiters[i], ver |-> ver] \in Waking
  BY <1>2 DEF Waking
<1>4. Woken(e, ver) = w  BY <1>2 DEF Woken
<1>5. w \in Seq(Waking) /\ Len(w) = n
  <2> HIDE DEF n
  <2>1. w \in [1 .. n -> Waking] /\ n \in Nat  BY <1>2, <1>3 DEF n
  <2> HIDE DEF w
  <2> QED  BY <2>1
<1> QED  BY <1>2, <1>4, <1>5

LEMMA ResponseType ==
    ASSUME NetType, L1Type, ReqType, NEW g \in Gpm, Response(g), UNCHANGED fromInside
    PROVE  NetType' /\ L1Type' /\ ReqType'
<1> DEFINE m == Head(toOutside[g])
<1>1. toOutside[g] # <<>> /\ m \in RspMsg
  BY HeadType DEF Response, HeadIs, Received
<1>2. m.ver \in Nat  BY <1>1 DEF RspMsg
<1>3. PICK e \in entries[g] :
          /\ entries' = [entries EXCEPT ![g] = @ \ {e}]
          /\ Release(g, e.dst)
          /\ fanout' = [fanout EXCEPT ![g] = @ \o Woken(e, m.ver)]
  BY DEF Response
<1>4. NetType'  BY <1>1, RetrieveType DEF Response, NetType
<1>5. L1Type'  BY KeepType DEF Response
<1>6. e \in Entry /\ e.dst \in Gpm  BY DEF ReqType, Entry
<1>7. fanout' \in [Gpm -> Seq(Waking)]
  <2>1. fanout[g] \o Woken(e, m.ver) \in Seq(Waking)
    BY <1>2, <1>6, WokenType, ConcatElements DEF ReqType
  <2> QED  BY <1>3, <2>1 DEF ReqType
<1>8. inflight' \in [Gpm -> [Gpm -> Int]] /\ total' \in [Gpm -> Int]
  <2>1. inflight[g][e.dst] - 1 \in Int /\ total[g] - 1 \in Int
    <3>1. /\ inflight \in [Gpm -> [Gpm -> Int]] /\ total \in [Gpm -> Int]
          /\ g \in Gpm /\ e.dst \in Gpm
      BY <1>6 DEF ReqType
    <3> QED  BY <3>1
  <2> QED  BY <1>3, <2>1 DEF Release, ReqType
<1>9. entries' \in [Gpm -> SUBSET Entry]  BY <1>3 DEF ReqType
<1> QED  BY <1>4, <1>5, <1>7, <1>8, <1>9 DEF Response, ReqType, l1Vars, reqs

LEMMA FanoutType ==
    ASSUME L1Type, ReqType, NEW g \in Gpm, Fanout(g), UNCHANGED fromInside
    PROVE  L1Type' /\ ReqType'
<1>1. Head(fanout[g]) \in Waking /\ Tail(fanout[g]) \in Seq(Waking)
  BY TailElements DEF Fanout, ReqType
<1>2. Head(fanout[g]).ver \in Nat  BY <1>1 DEF Waking
<1>3. L1Type'  BY <1>2, AnswerType DEF Fanout, L1Type
<1>4. fanout' \in [Gpm -> Seq(Waking)] /\ waiters' \in [Gpm -> Int]
  BY <1>1 DEF Fanout, ReqType
<1> QED  BY <1>3, <1>4 DEF Fanout, ReqType, reqs

LEMMA ArriveType ==
    ASSUME NetType, NEW g \in Gpm, NEW d \in Gpm, Arrive(g, d)
    PROVE  NetType'
<1>1. PICK i \in DOMAIN net[g][d] :
          /\ Len(toOutside[d]) < InCap
          /\ toOutside' = [toOutside EXCEPT ![d] = Append(@, net[g][d][i])]
          /\ net' = [net EXCEPT ![g][d] = RemoveAt(@, i)]
  BY DEF Arrive
<1>2. net[g][d] \in Seq(Msg) /\ i \in 1 .. Len(net[g][d])  BY DEF NetType
<1>3. RemoveAt(net[g][d], i) \in Seq(Msg) /\ net[g][d][i] \in Msg
  BY <1>2, RemoveAtElements, SeqType
<1>4. /\ Append(toOutside[d], net[g][d][i]) \in Seq(Msg)
      /\ Len(Append(toOutside[d], net[g][d][i])) <= InCap
  <2>1. toOutside[d] \in Seq(Msg) /\ Len(toOutside[d]) \in Nat  BY DEF NetType
  <2> QED  BY <1>1, <1>3, <2>1, AppendElements, NetAssumption
<1> QED  BY <1>1, <1>3, <1>4 DEF NetType

LEMMA SendL2Type ==
    ASSUME L2Type, NEW g \in Gpm, NEW m \in ReqMsg, SendL2(g, m),
           fromOutside' \in [Gpm -> SUBSET ReqId]
    PROVE  L2Type'
<1>1. Append(l2Queue[g], m) \in Seq(ReqMsg)  BY AppendElements DEF L2Type
<1> QED  BY <1>1 DEF SendL2, L2Type

LEMMA ForwardToL2Type ==
    ASSUME NetType, L2Type, NEW g \in Gpm, NEW count, NEW limit, ForwardToL2(g, count, limit)
    PROVE  NetType' /\ L2Type'
<1>1. toOutside[g] # <<>> /\ Head(toOutside[g]) \in ReqMsg /\ Id(Head(toOutside[g])) \in ReqId
  BY HeadType DEF ForwardToL2, HeadIs, Received
<1>2. NetType'  BY <1>1, RetrieveType DEF ForwardToL2, NetType
<1>3. fromOutside' \in [Gpm -> SUBSET ReqId]  BY <1>1 DEF ForwardToL2, L2Type
<1> QED  BY <1>1, <1>2, <1>3, SendL2Type DEF ForwardToL2

LEMMA OwnerEntryUpdate ==
    ASSUME NEW e \in OwnerItem
    PROVE  /\ LET f == [e EXCEPT !.open = FALSE]
              IN  /\ f \in OwnerItem /\ f.id = e.id /\ f.line = e.line /\ f.reqs = e.reqs
                  /\ ~ f.open
           /\ \A r \in Requesters :
                  LET f == [e EXCEPT !.reqs = r]
                  IN  f \in OwnerItem /\ f.id = e.id /\ f.line = e.line /\ f.reqs = r
                      /\ f.open = e.open
<1>1. [e EXCEPT !.open = FALSE] \in OwnerItem  BY Zenon DEF OwnerItem
<1>2. \A r \in Requesters : [e EXCEPT !.reqs = r] \in OwnerItem
  BY Zenon DEF OwnerItem
<1> QED  BY <1>1, <1>2 DEF OwnerItem

LEMMA OwnerCloseType ==
    ASSUME NEW es \in SUBSET OwnerItem, NEW l
    PROVE  OwnerCloseLines(es, l) \in SUBSET OwnerItem
<1>1. \A e \in es : e \in OwnerItem /\ [e EXCEPT !.open = FALSE] \in OwnerItem
  BY OwnerEntryUpdate
<1> QED  BY <1>1 DEF OwnerCloseLines

LEMMA OwnerJoinType ==
    ASSUME NetType, OwnerType, NEW g \in Gpm, OwnerJoin(g)
    PROVE  NetType' /\ OwnerType'
<1> DEFINE m == Head(toOutside[g])
<1>1. toOutside[g] # <<>> /\ m \in ReqMsg /\ Id(m) \in ReqId
  BY HeadType DEF OwnerJoin, HeadIs, Received
<1>2. PICK e \in ownerTable[g] :
          ownerTable' = [ownerTable EXCEPT ![g] = (@ \ {e}) \cup
                             {[e EXCEPT !.reqs = Append(e.reqs, Id(m))]}]
  BY DEF OwnerJoin, OwnerOpen
<1>3. e \in OwnerItem /\ e.reqs \in Seq(ReqId)  BY DEF OwnerType, OwnerItem, Requesters
<1>4. [e EXCEPT !.reqs = Append(e.reqs, Id(m))] \in OwnerItem
  <2>1. Append(e.reqs, Id(m)) \in Requesters  BY <1>1, <1>3, AppendElements DEF Requesters
  <2> QED  BY <1>3, <2>1, OwnerEntryUpdate
<1>5. NetType'  BY <1>1, RetrieveType DEF OwnerJoin, NetType
<1>6. ownerTable' \in [Gpm -> SUBSET OwnerItem]  BY <1>2, <1>4 DEF OwnerType
<1> QED  BY <1>5, <1>6 DEF OwnerJoin, OwnerType

LEMMA OwnerReadType ==
    ASSUME NetType, L2Type, OwnerType, NEW g \in Gpm, OwnerRead(g)
    PROVE  NetType' /\ L2Type' /\ OwnerType'
<1> DEFINE m == Head(toOutside[g])
           e == [id |-> Id(m), line |-> m.line, open |-> TRUE, reqs |-> <<Id(m)>>]
<1>1. toOutside[g] # <<>> /\ m \in ReqMsg /\ Id(m) \in ReqId /\ m.line \in Line
  BY HeadType DEF OwnerRead, HeadIs, Received, ReqMsg
<1>2. e \in OwnerItem
  <2>1. <<Id(m)>> \in Requesters  BY <1>1 DEF Requesters
  <2> HIDE DEF m
  <2> QED  BY <1>1, <2>1 DEF OwnerItem
<1>3. NetType'  BY <1>1, RetrieveType DEF OwnerRead, NetType
<1>4. L2Type'  BY <1>1, SendL2Type DEF OwnerRead, L2Type
<1>5. /\ ownerTable' = [ownerTable EXCEPT ![g] = @ \cup {e}]
      /\ ownerLive' = [ownerLive EXCEPT ![g] = @ + 1] /\ ownerRspQueue' = ownerRspQueue
  BY DEF OwnerRead
<1> HIDE DEF e
<1>6. OwnerType'
  <2>1. ownerLive[g] + 1 \in Int  BY DEF OwnerType
  <2> QED  BY <1>2, <1>5, <2>1 DEF OwnerType
<1> QED  BY <1>3, <1>4, <1>6

LEMMA OwnerBaselineType ==
    ASSUME NetType, L2Type, OwnerType, NEW g \in Gpm, NEW limit, OwnerBaseline(g, limit)
    PROVE  NetType' /\ L2Type' /\ OwnerType'
<1>1. NetType' /\ L2Type'  BY ForwardToL2Type DEF OwnerBaseline
<1>2. ownerTable' \in [Gpm -> SUBSET OwnerItem]
  BY OwnerCloseType DEF OwnerBaseline, OwnerType
<1> QED  BY <1>1, <1>2 DEF OwnerBaseline, OwnerType

LEMMA OwnerWriteBlockedType ==
    ASSUME OwnerType, NEW g \in Gpm, NEW limit, OwnerWriteBlocked(g, limit)
    PROVE  OwnerType'
  BY OwnerCloseType DEF OwnerWriteBlocked, OwnerType

\* What a stage finds at the head of ToL2.
LEMMA L2HeadType ==
    ASSUME L2Type, NEW g \in Gpm, l2Rsp[g] # <<>>
    PROVE  /\ Head(l2Rsp[g]) \in L2Item /\ Tail(l2Rsp[g]) \in Seq(L2Item)
           /\ Head(l2Rsp[g]).ver \in Nat /\ Head(l2Rsp[g]).id \in ReqId
<1>1. l2Rsp[g] \in Seq(L2Item)  BY DEF L2Type
<1>2. Head(l2Rsp[g]) \in L2Item /\ Tail(l2Rsp[g]) \in Seq(L2Item)
  BY <1>1, TailElements
<1> QED  BY <1>2 DEF L2Item

LEMMA OwnerL2RspType ==
    ASSUME L2Type, OwnerType, NEW g \in Gpm, OwnerL2Rsp(g)
    PROVE  L2Type' /\ OwnerType'
<1> DEFINE r == Head(l2Rsp[g])
<1>1. r \in L2Item /\ Tail(l2Rsp[g]) \in Seq(L2Item) /\ r.ver \in Nat
  BY L2HeadType DEF OwnerL2Rsp
<1>2. PICK e \in ownerTable[g] :
          /\ ownerTable' = [ownerTable EXCEPT ![g] = @ \ {e}]
          /\ ownerRspQueue' = [ownerRspQueue EXCEPT ![g] = Append(@,
                 [reqs |-> e.reqs, ver |-> r.ver,
                  multicast |-> OwnerMulticast /\ Len(e.reqs) > 1])]
  BY DEF OwnerL2Rsp
<1>3. e.reqs \in Requesters  BY DEF OwnerType, OwnerItem
<1>4. [reqs |-> e.reqs, ver |-> r.ver, multicast |-> OwnerMulticast /\ Len(e.reqs) > 1] \in RspItem
  <2>1. (OwnerMulticast /\ Len(e.reqs) > 1) \in BOOLEAN  OBVIOUS
  <2> HIDE DEF r
  <2> QED  BY <1>1, <1>3, <2>1 DEF RspItem
<1>5. ownerRspQueue' \in [Gpm -> Seq(RspItem)]
  BY <1>2, <1>4, AppendElements DEF OwnerType
<1>6. ownerTable' \in [Gpm -> SUBSET OwnerItem]  BY <1>2 DEF OwnerType
<1>7. L2Type'  BY <1>1 DEF OwnerL2Rsp, L2Type
<1> QED  BY <1>5, <1>6, <1>7 DEF OwnerL2Rsp, OwnerType

LEMMA RspType ==
    ASSUME NEW id \in ReqId, NEW ver \in Nat
    PROVE  /\ id[1] \in Gpm /\ id[2] \in Nat /\ id = <<id[1], id[2]>>
           /\ [type |-> "rsp", seq |-> id[2], ver |-> ver] \in RspMsg
           /\ Rsp(id, ver) = [type |-> "rsp", seq |-> id[2], ver |-> ver]
<1>1. id[1] \in Gpm /\ id[2] \in Nat /\ id = <<id[1], id[2]>>  BY DEF ReqId
<1> QED  BY <1>1 DEF RspMsg, Rsp

LEMMA ForwardFromL2Type ==
    ASSUME NetType, L2Type, NEW g \in Gpm, ForwardFromL2(g)
    PROVE  NetType' /\ L2Type'
<1> DEFINE r == Head(l2Rsp[g])
<1>1. /\ r \in L2Item /\ Tail(l2Rsp[g]) \in Seq(L2Item) /\ r.ver \in Nat /\ r.id \in ReqId
  BY L2HeadType DEF ForwardFromL2
<1>2. /\ Send(g, r.id[1], [type |-> "rsp", seq |-> r.id[2], ver |-> r.ver])
      /\ fromOutside' = [fromOutside EXCEPT ![g] = @ \ {r.id}]
      /\ l2Rsp' = [l2Rsp EXCEPT ![g] = Tail(@)]
      /\ UNCHANGED <<toOutside, l2Queue, hist>>
  BY DEF ForwardFromL2
<1>3. NetType'  BY <1>1, <1>2, RspType, SendType DEF NetType, Msg
<1>4. L2Type'  BY <1>1, <1>2 DEF L2Type
<1> QED  BY <1>3, <1>4

\* The requesters of an entry to be answered, and a packet for each.
LEMMA MulticastElements ==
    ASSUME NEW e \in RspItem, NEW d \in {e.reqs[i][1] : i \in DOMAIN e.reqs}
    PROVE  LET id == CHOOSE id \in Range(e.reqs) : id[1] = d
           IN  id \in Range(e.reqs) /\ id \in ReqId /\ id[1] = d
<1>1. e.reqs \in Seq(ReqId)  BY DEF RspItem, Requesters
<1>2. Range(e.reqs) \subseteq ReqId  BY <1>1, SeqType DEF Range
<1>3. \E id \in Range(e.reqs) : id[1] = d  BY DEF Range
<1> QED  BY <1>2, <1>3

LEMMA SendMulticastType ==
    ASSUME NetType, OwnerType, NEW g \in Gpm, SendMulticast(g)
    PROVE  NetType' /\ OwnerType'
<1> DEFINE e == Head(ownerRspQueue[g])
           To == {e.reqs[i][1] : i \in DOMAIN e.reqs}
           IdOf(d) == CHOOSE id \in Range(e.reqs) : id[1] = d
           leaf == [d \in To |-> Rsp(IdOf(d), e.ver)]
<1>1. ownerRspQueue[g] \in Seq(RspItem) /\ ownerRspQueue[g] # <<>>
  BY DEF OwnerType, SendMulticast
<1>2. e \in RspItem /\ Tail(ownerRspQueue[g]) \in Seq(RspItem)
  BY <1>1, TailElements
<1>3. e.ver \in Nat  BY <1>2 DEF RspItem
<1>4. \A d \in To : leaf[d] \in Msg
  <2> TAKE d \in To
  <2>1. IdOf(d) \in ReqId  BY <1>2, MulticastElements
  <2> QED  BY <1>3, <2>1, RspType DEF Msg
<1>5. /\ net' = [net EXCEPT ![g] = [d \in Gpm |->
                    IF d \in To THEN Append(net[g][d], leaf[d]) ELSE net[g][d]]]
      /\ toOutside' = toOutside
      /\ ownerRspQueue' = [ownerRspQueue EXCEPT ![g] = Tail(ownerRspQueue[g])]
      /\ ownerLive' = [ownerLive EXCEPT ![g] = ownerLive[g] - 1]
      /\ ownerTable' = ownerTable
  BY DEF SendMulticast, Multicast, EntryDone, NetType, OwnerType
<1> HIDE DEF leaf, To, e
<1>6. NetType'
  <2>1. \A d \in Gpm : d \in To => Append(net[g][d], leaf[d]) \in Seq(Msg)
    BY <1>4, AppendElements DEF NetType
  <2> QED  BY <1>5, <2>1 DEF NetType
<1>7. OwnerType'
  <2>1. ownerLive[g] - 1 \in Int  BY DEF OwnerType
  <2> QED  BY <1>2, <1>5, <2>1 DEF OwnerType
<1> QED  BY <1>6, <1>7

LEMMA SendUnicastType ==
    ASSUME NetType, OwnerType, NEW g \in Gpm, SendUnicast(g)
    PROVE  NetType' /\ OwnerType'
<1> DEFINE e == Head(ownerRspQueue[g])
           last == Len(e.reqs) = 1
           f == [e EXCEPT !.reqs = Tail(e.reqs)]
           rest == Tail(ownerRspQueue[g])
<1>1. ownerRspQueue[g] \in Seq(RspItem) /\ ownerRspQueue[g] # <<>>
  BY DEF OwnerType, SendUnicast
<1>2. e \in RspItem /\ rest \in Seq(RspItem)
  BY <1>1, TailElements
<1>3. e.ver \in Nat /\ e.reqs \in Seq(ReqId) /\ e.reqs # <<>>
  BY <1>2 DEF RspItem, Requesters
<1>4. Head(e.reqs) \in ReqId /\ Tail(e.reqs) \in Seq(ReqId)  BY <1>3, TailElements
<1>5. /\ Send(g, Head(e.reqs)[1], Rsp(Head(e.reqs), e.ver))
      /\ ownerRspQueue' = [ownerRspQueue EXCEPT ![g] =
             (IF last THEN <<>> ELSE <<f>>) \o rest]
      /\ ownerLive' = [ownerLive EXCEPT ![g] = IF last THEN ownerLive[g] - 1 ELSE ownerLive[g]]
      /\ UNCHANGED <<toOutside, ownerTable>>
  BY DEF SendUnicast, EntryDone
<1>6. ~ last => f \in RspItem
  <2>1. ~ last => Tail(e.reqs) \in Requesters
    <3>1. Len(Tail(e.reqs)) = Len(e.reqs) - 1 /\ Len(e.reqs) \in Nat \ {0}
      BY <1>3, TailElements
    <3>2. ~ last => Len(Tail(e.reqs)) # 0  BY <3>1
    <3> QED  BY <1>4, <3>2, SeqType DEF Requesters
  <2> HIDE DEF e
  <2> QED  BY <1>2, <2>1, Zenon DEF RspItem
<1> HIDE DEF e, f, rest
<1>7. NetType'
  <2>1. Rsp(Head(e.reqs), e.ver) \in Msg /\ Head(e.reqs)[1] \in Gpm
    BY <1>3, <1>4, RspType DEF Msg
  <2> QED  BY <1>5, <2>1, SendType DEF NetType
<1>8. OwnerType'
  <2>1. <<>> \o rest \in Seq(RspItem)  BY <1>2, ConcatElements
  <2>2. ~ last => <<f>> \in Seq(RspItem)  BY <1>6
  <2>3. ~ last => <<f>> \o rest \in Seq(RspItem)  BY <1>2, <2>2, ConcatElements
  <2>4. ownerLive[g] - 1 \in Int  BY DEF OwnerType
  <2> QED  BY <1>5, <2>1, <2>3, <2>4 DEF OwnerType
<1> QED  BY <1>7, <1>8

LEMMA L2ServeType ==
    ASSUME L2Type, NEW g \in Gpm, L2Serve(g)
    PROVE  L2Type'
<1>1. PICK i \in DOMAIN l2Queue[g] :
        LET m == l2Queue[g][i]
            after == IF m.op = "write" THEN Append(hist[m.line], Id(m)) ELSE hist[m.line]
        IN  /\ hist' = [hist EXCEPT ![m.line] = after]
            /\ l2Queue' = [l2Queue EXCEPT ![g] = RemoveAt(@, i)]
            /\ l2Rsp' = [l2Rsp EXCEPT ![g] = Append(@, [id |-> Id(m), ver |-> Len(after)])]
            /\ fromOutside' = fromOutside
  BY DEF L2Serve
<1> DEFINE m == l2Queue[g][i]
           after == IF m.op = "write" THEN Append(hist[m.line], Id(m)) ELSE hist[m.line]
<1>2. l2Queue[g] \in Seq(ReqMsg) /\ l2Rsp[g] \in Seq(L2Item)  BY DEF L2Type
<1>3. i \in 1 .. Len(l2Queue[g]) /\ m \in ReqMsg  BY <1>2, SeqType
<1>4. m.line \in Line /\ Id(m) \in ReqId  BY <1>3 DEF ReqMsg, ReqId, Id
<1>5. after \in Seq(ReqId)
  <2>1. hist[m.line] \in Seq(ReqId)  BY <1>4 DEF L2Type
  <2> HIDE DEF m
  <2> QED  BY <1>4, <2>1, AppendElements
<1>6. RemoveAt(l2Queue[g], i) \in Seq(ReqMsg)  BY <1>2, <1>3, RemoveAtElements
<1>7. [id |-> Id(m), ver |-> Len(after)] \in L2Item
  BY <1>4, <1>5, SeqType DEF L2Item
<1>8. /\ hist' = [hist EXCEPT ![m.line] = after]
      /\ l2Queue' = [l2Queue EXCEPT ![g] = RemoveAt(l2Queue[g], i)]
      /\ l2Rsp' = [l2Rsp EXCEPT ![g] = Append(l2Rsp[g], [id |-> Id(m), ver |-> Len(after)])]
      /\ fromOutside' = fromOutside
  BY <1>1
<1> HIDE DEF m, after
<1>9. Append(l2Rsp[g], [id |-> Id(m), ver |-> Len(after)]) \in Seq(L2Item)
  BY <1>2, <1>7, AppendElements
<1> QED  BY <1>4, <1>5, <1>6, <1>8, <1>9 DEF L2Type

LEMMA LocalWriteType ==
    ASSUME L2Type, NEW l \in Line, LocalWrite(l)
    PROVE  L2Type'
<1>1. <<Owner[l], 0>> \in ReqId  BY OwnerAssumption DEF ReqId
<1>2. Append(hist[l], <<Owner[l], 0>>) \in Seq(ReqId)  BY <1>1, AppendElements DEF L2Type
<1> QED  BY <1>2 DEF LocalWrite, L2Type

LEMMA DriverType ==
    ASSUME CtrlType, setup \in Setup, setup' = setup, DriverNext
    PROVE  CtrlType'
<1>1. Cardinality(Gpm) \in Nat  BY GpmAssumption, FS_CardinalityType
<1>2. setup.maxDrain \in Nat  BY SetupAssumption
<1>3. CASE InitiateRDMADrain
  <2>1. drains + 1 \in 0 .. setup.maxDrain  BY <1>2, <1>3 DEF InitiateRDMADrain, CtrlType
  <2> QED  BY <1>1, <1>3, <2>1 DEF InitiateRDMADrain, DriverSend, CtrlType
<1>4. CASE PrepareRDMARestart
  BY <1>1, <1>4 DEF PrepareRDMARestart, DriverSend, CtrlType
<1> QED  BY <1>3, <1>4 DEF DriverNext

LEMMA ControlType ==
    ASSUME CtrlType, setup' = setup, NEW g \in Gpm, NEW pending, CtrlNext(g, pending)
    PROVE  CtrlType'
<1>1. numACK - 1 \in Int  BY DEF CtrlType
<1>2. CASE ProcessDrainReq(g)  BY <1>2 DEF ProcessDrainReq, CtrlType
<1>3. CASE ProcessRestartReq(g)  BY <1>1, <1>3 DEF ProcessRestartReq, ACK, CtrlType
<1>4. CASE DrainRDMA(g, pending)  BY <1>1, <1>4 DEF DrainRDMA, ACK, CtrlType
<1> QED  BY <1>2, <1>3, <1>4 DEF CtrlNext

LEMMA NextType == Type /\ [Next]_vars => Type'
<1> SUFFICES ASSUME Type, [Next]_vars PROVE Type'  OBVIOUS
<1>0. /\ NetType /\ L1Type /\ L2Type /\ ReqType /\ OwnerType /\ CtrlType
      /\ setup \in Setup
  BY DEF Type, L1Type
<1>1. ASSUME NEW g \in Gpm, FromL1(g) PROVE Type'
  <2>1. CASE ReqActive
    <3>1. UNCHANGED <<netVars, fromInside, fromOutside, l2Vars, ctrlVars, ownerVars>>
      BY <1>1, <2>1 DEF FromL1
    <3>2. L1Type' /\ ReqType' /\ setup' = setup
      <4>1. CASE Merge(g)  BY <1>0, <3>1, <4>1, MergeType DEF Merge, Accept
      <4>2. ASSUME NEW t \in BOOLEAN, NewEntry(g, t) PROVE L1Type' /\ ReqType' /\ setup' = setup
        BY <1>0, <3>1, <4>2, NewEntryType DEF NewEntry, Accept
      <4> QED  BY <1>1, <2>1, <4>1, <4>2 DEF FromL1, Track, Bypass
    <3> QED  BY <1>0, <3>1, <3>2, KeepType DEF Type
  <2>2. CASE ~ ReqActive
    <3>1. ForwardReq(g) /\ UNCHANGED <<reqVars, ownerVars>>  BY <1>1, <2>2 DEF FromL1
    <3>2. UNCHANGED <<fromOutside, l2Vars, ctrlVars, setup>>
      BY <3>1 DEF ForwardReq, Accept
    <3> QED  BY <1>0, <3>1, <3>2, ForwardReqType, KeepType DEF Type
  <2> QED  BY <2>1, <2>2
<1>2. ASSUME NEW g \in Gpm, RspFromOutside(g) PROVE Type'
  <2>1. CASE ReqActive
    <3>1. Response(g) /\ UNCHANGED <<fromInside, fromOutside, l2Vars, ctrlVars, ownerVars>>
      BY <1>2, <2>1 DEF RspFromOutside
    <3>2. setup' = setup  BY <3>1 DEF Response, l1Vars
    <3> QED  BY <1>0, <3>1, <3>2, ResponseType, KeepType DEF Type
  <2>2. CASE ~ ReqActive
    <3>1. ForwardRsp(g) /\ UNCHANGED <<reqVars, ownerVars>>  BY <1>2, <2>2 DEF RspFromOutside
    <3>2. UNCHANGED <<fromOutside, l2Vars, ctrlVars, setup>>  BY <3>1 DEF ForwardRsp
    <3> QED  BY <1>0, <3>1, <3>2, ForwardRspType, KeepType DEF Type
  <2> QED  BY <2>1, <2>2
<1>3. ASSUME NEW g \in Gpm, ReqFromOutside(g) PROVE Type'
  <2>1. CASE OwnerJoin(g)
    <3>1. UNCHANGED <<l1Vars, fromInside, fromOutside, l2Vars, ctrlVars, reqVars>>
      BY <2>1 DEF OwnerJoin
    <3> QED  BY <1>0, <2>1, <3>1, OwnerJoinType, KeepType DEF Type, l1Vars
  <2>2. CASE OwnerRead(g)
    <3>1. UNCHANGED <<l1Vars, fromInside, ctrlVars, reqVars>>  BY <2>2 DEF OwnerRead
    <3> QED  BY <1>0, <2>2, <3>1, OwnerReadType, KeepType DEF Type, l1Vars
  <2>3. CASE OwnerBaseline(g, OwnerLimit)
    <3>1. UNCHANGED <<l1Vars, fromInside, ctrlVars, reqVars>>
      BY <2>3 DEF OwnerBaseline, ForwardToL2
    <3> QED  BY <1>0, <2>3, <3>1, OwnerBaselineType, KeepType DEF Type, l1Vars
  <2>4. CASE OwnerWriteBlocked(g, OwnerLimit)
    <3>1. UNCHANGED <<netVars, l1Vars, fromInside, fromOutside, l2Vars, ctrlVars, reqVars>>
      BY <2>4 DEF OwnerWriteBlocked
    <3> QED  BY <1>0, <2>4, <3>1, OwnerWriteBlockedType, KeepType DEF Type, l1Vars
  <2> QED  BY <1>3, <2>1, <2>2, <2>3, <2>4 DEF ReqFromOutside
<1>4. ASSUME NEW g \in Gpm, FromL2(g) PROVE Type'
  <2>1. CASE OwnerL2Rsp(g)
    <3>1. UNCHANGED <<netVars, l1Vars, fromInside, ctrlVars, reqVars>>
      BY <2>1 DEF OwnerL2Rsp
    <3> QED  BY <1>0, <2>1, <3>1, OwnerL2RspType, KeepType DEF Type, l1Vars
  <2>2. CASE ForwardFromL2(g) /\ UNCHANGED <<reqVars, ownerVars>>
    <3>1. UNCHANGED <<l1Vars, fromInside, ctrlVars>>  BY <2>2 DEF ForwardFromL2
    <3> QED  BY <1>0, <2>2, <3>1, ForwardFromL2Type, KeepType DEF Type, l1Vars
  <2> QED  BY <1>4, <2>1, <2>2 DEF FromL2
<1>5. ASSUME NEW g \in Gpm, OwnerSend(g) PROVE Type'
  <2>1. UNCHANGED <<l1Vars, fromInside, fromOutside, l2Vars, ctrlVars, reqVars>>
    BY <1>5 DEF OwnerSend, SendMulticast, SendUnicast
  <2> QED  BY <1>0, <1>5, <2>1, SendMulticastType, SendUnicastType, KeepType
           DEF Type, OwnerSend, l1Vars
<1>6. ASSUME NEW g \in Gpm, ReqIssue(g) PROVE Type'
  BY <1>0, <1>6, IssueType, KeepType DEF Type, ReqIssue, Issue, l1Vars
<1>7. ASSUME NEW g \in Gpm, FanoutStep(g) PROVE Type'
  BY <1>0, <1>7, FanoutType, KeepType DEF Type, FanoutStep, Fanout
<1>8. ASSUME NEW g \in Gpm, Ctrl(g) PROVE Type'
  BY <1>0, <1>8, ControlType, KeepType DEF Type, Ctrl, l1Vars
<1>9. CASE Driver
  BY <1>0, <1>9, DriverType, KeepType DEF Type, Driver, l1Vars
<1>10. CASE L2AndNetwork
  <2>1. UNCHANGED <<reqVars, ownerVars>>  BY <1>10 DEF L2AndNetwork
  <2>2. CASE NetStep
    <3>1. UNCHANGED <<l1Vars, fromInside, fromOutside, l2Vars, ctrlVars>>  BY <2>2 DEF NetStep
    <3> QED  BY <1>0, <2>1, <2>2, <3>1, ArriveType, KeepType DEF Type, NetStep, l1Vars
  <2>3. ASSUME NEW g \in Gpm, L2Serve(g) PROVE Type'
    <3>1. UNCHANGED <<netVars, l1Vars, fromInside, fromOutside, ctrlVars>>
      BY <2>3 DEF L2Serve
    <3> QED  BY <1>0, <2>1, <2>3, <3>1, L2ServeType, KeepType DEF Type, l1Vars
  <2> QED  BY <1>10, <2>2, <2>3 DEF L2AndNetwork
<1>11. CASE LocalWrites
  <2>1. PICK l \in Line : LocalWrite(l) /\ UNCHANGED <<reqVars, ownerVars>>
    BY <1>11 DEF LocalWrites
  <2>2. UNCHANGED <<netVars, l1Vars, fromInside, fromOutside, ctrlVars>>
    BY <2>1 DEF LocalWrite
  <2> QED  BY <1>0, <2>1, <2>2, LocalWriteType, KeepType DEF Type, l1Vars
<1>12. CASE UNCHANGED vars
  BY <1>0, <1>12, KeepType DEF Type, vars, engineVars, l1Vars
<1> QED
  BY <1>1, <1>2, <1>3, <1>4, <1>5, <1>6, <1>7, <1>8, <1>9, <1>10, <1>11, <1>12
     DEF Next, Engine

\* Whatever the engines, the L2 caches, the network and the driver do, every buffer
\* and table holds packets, requests and entries of its kind, no buffer at ToOutside
\* is overfull, nothing is answered that was not sent to L1 before, and no response
\* is queued that answers nobody.
THEOREM WellTyped == Spec => []Type
<1> QED  BY InitType, NextType, PTL DEF Spec


-------------------------------------------------------------------------------
\* The inductive invariant, for the requester of g.

\* An entry stands for one accepted request, its seq.
SeqOK(g) ==
    /\ \A e \in entries[g] : e.seq \in 1 .. accepted[g]
    /\ \A e, f \in entries[g] : e.seq = f.seq => e = f

\* What waits in the FIFO of a destination is the entries for it that are not sent,
\* each in one place.
QueueOK(g) ==
    /\ \A e \in entries[g] : ~ e.sent =>
           \E i \in 1 .. Len(reqQueues[g][e.dst]) : reqQueues[g][e.dst][i] = e.seq
    /\ \A d \in Gpm : \A i \in 1 .. Len(reqQueues[g][d]) :
           \E e \in entries[g] : ~ e.sent /\ e.dst = d /\ e.seq = reqQueues[g][d][i]
    /\ \A d \in Gpm : \A i, j \in 1 .. Len(reqQueues[g][d]) :
           reqQueues[g][d][i] = reqQueues[g][d][j] => i = j

\* The counters, in terms of the seq's, which merging does not change.
SentSeqs(g)  == {n \in 1 .. accepted[g] : \E e \in entries[g] : e.seq = n /\ e.sent}
SentTo(g, d) == {n \in 1 .. accepted[g] : \E e \in entries[g] : e.seq = n /\ e.sent /\ e.dst = d}
Unanswered(g) == {n \in 1 .. accepted[g] : answers[g][n] = <<>>}

CountOK(g) ==
    /\ total[g] = Cardinality(SentSeqs(g)) /\ total[g] <= Window
    /\ \A d \in Gpm : inflight[g][d] = Cardinality(SentTo(g, d))

WaitersOK(g) ==
    /\ ReqActive => waiters[g] = Cardinality(Unanswered(g))
    /\ waiters[g] <= WaiterCap

\* A request is in one place.
IsWaiting(g, n)  == \E e \in entries[g] : \E i \in 1 .. Len(e.waiters) : e.waiters[i] = n
IsReady(g, n)    == \E i \in 1 .. Len(fanout[g]) : fanout[g][i].req = n
IsAnswered(g, n) == answers[g][n] # <<>>

WaitingOK(g) ==
    /\ \A e \in entries[g] : \A i \in 1 .. Len(e.waiters) : e.waiters[i] \in 1 .. accepted[g]
    /\ \A e, f \in entries[g] : \A i \in 1 .. Len(e.waiters), j \in 1 .. Len(f.waiters) :
           e.waiters[i] = f.waiters[j] => e = f /\ i = j

ReadyOK(g) ==
    /\ \A i \in 1 .. Len(fanout[g]) : fanout[g][i].req \in 1 .. accepted[g]
    /\ \A i, j \in 1 .. Len(fanout[g]) : fanout[g][i].req = fanout[g][j].req => i = j

AnsweredOK(g) ==
    \A n \in 1 .. Len(reqs[g]) : IsAnswered(g, n) => n <= accepted[g] /\ Len(answers[g][n]) = 1

PlaceOK(g) == \A n \in 1 .. accepted[g] :
    /\ IsWaiting(g, n) \/ IsReady(g, n) \/ IsAnswered(g, n) \/ n \in fromInside[g]
    /\ IsWaiting(g, n) => ~ IsReady(g, n) /\ ~ IsAnswered(g, n)
    /\ IsReady(g, n) => ~ IsAnswered(g, n)
    /\ n \in fromInside[g] => ~ IsAnswered(g, n)

\* Either T18 or the baseline is the requester.
ModeOK(g) ==
    /\ ReqActive => fromInside[g] = {}
    /\ ~ ReqActive => entries[g] = {} /\ fanout[g] = <<>> /\ waiters[g] = 0

ReqInv(g) == /\ SeqOK(g) /\ QueueOK(g) /\ CountOK(g) /\ WaitersOK(g)
             /\ WaitingOK(g) /\ ReadyOK(g) /\ AnsweredOK(g) /\ PlaceOK(g) /\ ModeOK(g)

-------------------------------------------------------------------------------
\* Facts that several actions need.

\* Sets of numbers of requests are finite.
LEMMA NumbersFinite ==
    ASSUME Type, NEW g \in Gpm, NEW T \in SUBSET (1 .. accepted[g])
    PROVE  IsFiniteSet(T) /\ Cardinality(T) \in Nat
<1>0. accepted[g] \in Int /\ 1 \in Int  BY DEF Type, L1Type
<1>1. IsFiniteSet(1 .. accepted[g])  BY <1>0, FS_Interval
<1> QED  BY <1>1, FS_Subset, FS_CardinalityType

\* What a request that is accepted finds: it is nowhere yet.
LEMMA FreshNumber ==
    ASSUME Type, NEW g \in Gpm, ReqInv(g), HasInput(g)
    PROVE  /\ accepted[g] + 1 \in 1 .. Len(reqs[g])
           /\ accepted[g] + 1 \notin 1 .. accepted[g]
           /\ 1 .. accepted[g] + 1 = 1 .. accepted[g] \cup {accepted[g] + 1}
           /\ ~ IsAnswered(g, accepted[g] + 1)
           /\ accepted[g] + 1 \notin fromInside[g]
<1>1. accepted[g] \in Nat /\ accepted[g] + 1 \in 1 .. Len(reqs[g])
  BY InputType DEF Type, L1Type
<1>2. accepted[g] + 1 \notin 1 .. accepted[g] /\ ~ (accepted[g] + 1 <= accepted[g])
      /\ 1 .. accepted[g] + 1 = 1 .. accepted[g] \cup {accepted[g] + 1}
  BY <1>1
<1>3. ~ IsAnswered(g, accepted[g] + 1)  BY <1>1, <1>2 DEF ReqInv, AnsweredOK
<1>4. fromInside[g] \subseteq 1 .. accepted[g]  BY DEF Type, L1Type
<1> QED  BY <1>1, <1>2, <1>3, <1>4

\* What an accepted request adds to the counter of the waiters.
LEMMA AcceptCount ==
    ASSUME Type, NEW g \in Gpm, ReqInv(g), HasInput(g),
           Accept(g), UNCHANGED answers
    PROVE  /\ accepted'[g] = accepted[g] + 1 /\ reqs' = reqs /\ ReqActive' = ReqActive
           /\ Cardinality(Unanswered(g)') = Cardinality(Unanswered(g)) + 1
           /\ AnsweredOK(g)'
<1> DEFINE n == accepted[g] + 1
<1>1. accepted'[g] = n /\ setup' = setup /\ reqs' = reqs
  BY DEF Accept, Type, L1Type, reqs
<1>2. Unanswered(g)' = Unanswered(g) \cup {n}
  BY <1>1, FreshNumber DEF Unanswered, IsAnswered
<1>3. n \notin Unanswered(g)  BY FreshNumber DEF Unanswered
<1>4. IsFiniteSet(Unanswered(g))  BY NumbersFinite DEF Unanswered
<1>5. Cardinality(Unanswered(g)') = Cardinality(Unanswered(g)) + 1
  BY <1>2, <1>3, <1>4, FS_AddElement
<1>6. AnsweredOK(g)'
  <2>1. accepted[g] \in Nat  BY DEF Type, L1Type
  <2>2. AnsweredOK(g)  BY DEF ReqInv
  <2>3. \A m \in 1 .. Len(reqs[g]) : m <= accepted[g] => m <= n  BY <2>1, Workload DEF Type, L1Type
  <2> HIDE DEF n
  <2> QED  BY <1>1, <2>2, <2>3 DEF AnsweredOK, IsAnswered
<1> QED  BY <1>1, <1>5, <1>6 DEF ReqActive

-------------------------------------------------------------------------------
\* Every action keeps the invariant.
\* What waits in the FIFOs is still there when the entries change otherwise.
LEMMA QueueKept ==
    ASSUME NEW g \in Gpm, ReqInv(g), UNCHANGED reqQueues,
           \A x \in entries'[g] : \E y \in entries[g] :
               x.seq = y.seq /\ x.dst = y.dst /\ x.sent = y.sent,
           \A y \in entries[g] : \E x \in entries'[g] :
               x.seq = y.seq /\ x.dst = y.dst /\ x.sent = y.sent
    PROVE  QueueOK(g)'
<1>1. \A x \in entries'[g] : ~ x.sent =>
          \E i \in 1 .. Len(reqQueues'[g][x.dst]) : reqQueues'[g][x.dst][i] = x.seq
  BY DEF ReqInv, QueueOK
<1>2. \A d \in Gpm : \A i \in 1 .. Len(reqQueues'[g][d]) :
          \E x \in entries'[g] : ~ x.sent /\ x.dst = d /\ x.seq = reqQueues'[g][d][i]
  <2> TAKE d \in Gpm
  <2> TAKE i \in 1 .. Len(reqQueues'[g][d])
  <2>1. PICK y \in entries[g] : ~ y.sent /\ y.dst = d /\ y.seq = reqQueues'[g][d][i]
    BY DEF ReqInv, QueueOK
  <2>2. PICK x \in entries'[g] : x.seq = y.seq /\ x.dst = y.dst /\ x.sent = y.sent
    OBVIOUS
  <2> QED  BY <2>1, <2>2
<1>3. \A d \in Gpm : \A i, j \in 1 .. Len(reqQueues'[g][d]) :
          reqQueues'[g][d][i] = reqQueues'[g][d][j] => i = j
  BY DEF ReqInv, QueueOK
<1> QED  BY <1>1, <1>2, <1>3, Zenon DEF QueueOK

LEMMA MergeInv ==
    ASSUME Type, Type', NEW g \in Gpm, ReqInv(g), ReqActive, Merge(g), UNCHANGED fromInside
    PROVE  ReqInv(g)'
<1>0. PICK n : n = accepted[g] + 1  OBVIOUS
<1>1. PICK e \in entries[g] :
          entries' = [entries EXCEPT ![g] = (entries[g] \ {e}) \cup
                          {[e EXCEPT !.waiters = Append(e.waiters, n)]}]
  BY <1>0 DEF Merge, OpenEntry, Table
<1> DEFINE f == [e EXCEPT !.waiters = Append(e.waiters, n)]
<1>2. /\ waiters'[g] = waiters[g] + 1 /\ waiters[g] < WaiterCap /\ waiters[g] \in Int
      /\ HasInput(g) /\ Accept(g)
      /\ UNCHANGED <<answers, reqQueues, inflight, total, fanout>>
  BY DEF Merge, Type, ReqType
<1>3. entries'[g] = (entries[g] \ {e}) \cup {f} /\ e \in Entry
  BY <1>1 DEF Type, ReqType
<1>4. e.waiters \in Seq(Nat) /\ n \in Nat /\ accepted[g] \in Nat
  BY <1>0, <1>3 DEF Entry, Type, L1Type
<1>5. f.seq = e.seq /\ f.dst = e.dst /\ f.sent = e.sent /\ f.waiters = Append(e.waiters, n)
  BY <1>3, <1>4, AppendElements, EntryUpdate
<1>6. /\ Len(f.waiters) = Len(e.waiters) + 1 /\ Len(e.waiters) \in Nat
      /\ f.waiters[Len(e.waiters) + 1] = n
      /\ \A i \in 1 .. Len(e.waiters) : f.waiters[i] = e.waiters[i]
  BY <1>4, <1>5, AppendElements
<1> HIDE DEF f
<1>7. /\ accepted'[g] = n /\ reqs' = reqs /\ ReqActive' = ReqActive
      /\ Cardinality(Unanswered(g)') = Cardinality(Unanswered(g)) + 1
      /\ AnsweredOK(g)'
  BY <1>0, <1>2, AcceptCount
<1>8. /\ n \notin 1 .. accepted[g] /\ 1 .. n = 1 .. accepted[g] \cup {n}
      /\ ~ IsAnswered(g, n) /\ n \notin fromInside[g]
  BY <1>0, <1>2, FreshNumber
<1>9. SeqOK(g)'  BY <1>3, <1>5, <1>7, <1>8 DEF ReqInv, SeqOK
<1>10. QueueOK(g)'
  <2>1. \A x \in entries'[g] : \E y \in entries[g] :
            x.seq = y.seq /\ x.dst = y.dst /\ x.sent = y.sent
    BY <1>3, <1>5
  <2>2. \A y \in entries[g] : \E x \in entries'[g] :
            x.seq = y.seq /\ x.dst = y.dst /\ x.sent = y.sent
    BY <1>3, <1>5
  <2> QED  BY <1>2, <2>1, <2>2, QueueKept
<1>11. CountOK(g)'
  <2>1. SentSeqs(g)' = SentSeqs(g)
    BY <1>3, <1>5, <1>7, <1>8 DEF ReqInv, SeqOK, SentSeqs
  <2>2. \A d \in Gpm : SentTo(g, d)' = SentTo(g, d)
    BY <1>3, <1>5, <1>7, <1>8 DEF ReqInv, SeqOK, SentTo
  <2> QED  BY <1>2, <2>1, <2>2 DEF ReqInv, CountOK
<1>12. WaitersOK(g)'
  BY <1>2, <1>7, RequesterAssumption DEF ReqInv, WaitersOK
<1>13. WaitingOK(g)'
  <2>1. ASSUME NEW x \in entries'[g], NEW i \in 1 .. Len(x.waiters)
        PROVE  \/ x.waiters[i] = n /\ x = f /\ i = Len(e.waiters) + 1
               \/ /\ x \in entries[g] /\ x # e /\ x.waiters[i] \in 1 .. accepted[g]
               \/ /\ x = f /\ i \in 1 .. Len(e.waiters) /\ x.waiters[i] = e.waiters[i]
                  /\ x.waiters[i] \in 1 .. accepted[g]
    BY <1>3, <1>6 DEF ReqInv, WaitingOK
  <2>2. \A x \in entries'[g] : \A i \in 1 .. Len(x.waiters) : x.waiters[i] \in 1 .. n
    BY <1>8, <2>1
  <2>3. ASSUME NEW x \in entries'[g], NEW y \in entries'[g],
               NEW i \in 1 .. Len(x.waiters), NEW j \in 1 .. Len(y.waiters),
               x.waiters[i] = y.waiters[j]
        PROVE  x = y /\ i = j
    <3>1. WaitingOK(g)  BY DEF ReqInv
    <3> QED  BY <1>3, <1>8, <2>1, <2>3, <3>1 DEF WaitingOK
  <2> QED  BY <1>7, <2>2, <2>3 DEF WaitingOK
<1>14. ReadyOK(g)'  BY <1>2, <1>7, <1>8 DEF ReqInv, ReadyOK
<1>15. PlaceOK(g)'
  <2>1. \A m : IsWaiting(g, m)' <=> IsWaiting(g, m) \/ m = n
    <3>1. \A m : IsWaiting(g, m)' => IsWaiting(g, m) \/ m = n
      BY <1>3, <1>6 DEF IsWaiting
    <3>2. \A m : IsWaiting(g, m) => IsWaiting(g, m)'
      BY <1>3, <1>6 DEF IsWaiting
    <3>3. IsWaiting(g, n)'
      <4>1. f \in entries'[g] /\ Len(e.waiters) + 1 \in 1 .. Len(f.waiters)
        BY <1>3, <1>6
      <4> QED  BY <1>6, <4>1 DEF IsWaiting
    <3> QED  BY <3>1, <3>2, <3>3
  <2>2. ~ IsReady(g, n)  BY <1>8 DEF ReqInv, ReadyOK, IsReady
  <2>3. \A m : /\ IsReady(g, m)' <=> IsReady(g, m)
               /\ IsAnswered(g, m)' <=> IsAnswered(g, m)
               /\ m \in fromInside'[g] <=> m \in fromInside[g]
    BY <1>2 DEF IsReady, IsAnswered
  <2> QED  BY <1>7, <1>8, <2>1, <2>2, <2>3 DEF ReqInv, PlaceOK
<1>16. ModeOK(g)'  BY <1>7 DEF ReqInv, ModeOK
<1> QED  BY <1>7, <1>9, <1>10, <1>11, <1>12, <1>13, <1>14, <1>15, <1>16 DEF ReqInv

\* Closing entries changes nothing else of them.
Same(x, y) == x.seq = y.seq /\ x.dst = y.dst /\ x.sent = y.sent /\ x.waiters = y.waiters

LEMMA CloseKept ==
    ASSUME NEW es \in SUBSET Entry, NEW l, \A y, z \in es : y.seq = z.seq => y = z
    PROVE  /\ \A x \in CloseLines(es, l) : \E y \in es : Same(x, y)
           /\ \A y \in es : \E x \in CloseLines(es, l) : Same(x, y)
           /\ \A x, w \in CloseLines(es, l) : x.seq = w.seq => x = w
<1> DEFINE c(y) == IF y.inTable /\ y.line = l THEN [y EXCEPT !.open = FALSE] ELSE y
<1>1. \A y \in es : Same(c(y), y)  BY EntryUpdate DEF Same
<1>2. CloseLines(es, l) = {c(y) : y \in es}  BY DEF CloseLines
<1>3. \A y \in es : c(y).seq = y.seq  BY <1>1 DEF Same
<1> HIDE DEF c
<1> QED  BY <1>1, <1>2, <1>3

LEMMA NewEntryInv ==
    ASSUME Type, Type', NEW g \in Gpm, ReqInv(g), ReqActive, NEW tracked \in BOOLEAN,
           NewEntry(g, tracked), UNCHANGED fromInside
    PROVE  ReqInv(g)'
<1>0. PICK n, d : n = accepted[g] + 1 /\ d = Owner[Head1(g).line]  OBVIOUS
<1>1. /\ HasInput(g) /\ Accept(g) /\ waiters[g] < WaiterCap
      /\ UNCHANGED <<answers, inflight, total, fanout>>
  BY DEF NewEntry
<1>2. /\ n \notin 1 .. accepted[g] /\ 1 .. n = 1 .. accepted[g] \cup {n} /\ n \in 1 .. n
      /\ ~ IsAnswered(g, n) /\ n \notin fromInside[g] /\ n \in Nat /\ d \in Gpm
  BY <1>0, <1>1, FreshNumber, InputType DEF Type, L1Type
<1>3. PICK closed :
          /\ \A x \in closed : \E y \in entries[g] : Same(x, y)
          /\ \A y \in entries[g] : \E x \in closed : Same(x, y)
          /\ \A x, w \in closed : x.seq = w.seq => x = w
          /\ \E e : /\ entries' = [entries EXCEPT ![g] = closed \cup {e}]
                    /\ e.seq = n /\ e.dst = d /\ ~ e.sent /\ e.waiters = <<n>>
  <2> DEFINE r == Head1(g)
             e == [seq |-> n, line |-> r.line, dst |-> d,
                   open |-> tracked /\ ReqMerge /\ Mergeable(r),
                   inTable |-> tracked, sent |-> FALSE, waiters |-> <<n>>]
             closed == IF ReqMerge /\ r.op = "write" THEN CloseLines(entries[g], r.line)
                                                     ELSE entries[g]
  <2>1. entries' = [entries EXCEPT ![g] = closed \cup {e}]
    BY <1>0 DEF NewEntry
  <2>2. e.seq = n /\ e.dst = d /\ ~ e.sent /\ e.waiters = <<n>>  OBVIOUS
  <2>3. \A y, z \in entries[g] : y.seq = z.seq => y = z  BY DEF ReqInv, SeqOK
  <2>4. entries[g] \in SUBSET Entry  BY DEF Type, ReqType
  <2>5. /\ \A x \in closed : \E y \in entries[g] : Same(x, y)
        /\ \A y \in entries[g] : \E x \in closed : Same(x, y)
        /\ \A x, w \in closed : x.seq = w.seq => x = w
    <3>1. CASE ReqMerge /\ r.op = "write"
      <4>1. closed = CloseLines(entries[g], r.line)  BY <3>1
      <4> HIDE DEF closed, r
      <4> QED  BY <2>3, <2>4, <4>1, CloseKept
    <3>2. CASE ~ (ReqMerge /\ r.op = "write")
      <4>1. closed = entries[g]  BY <3>2
      <4> HIDE DEF closed, r
      <4> QED  BY <2>3, <4>1 DEF Same
    <3> QED  BY <3>1, <3>2
  <2> HIDE DEF closed, e, r
  <2> QED  BY <2>1, <2>2, <2>5
<1>4. PICK e : /\ entries' = [entries EXCEPT ![g] = closed \cup {e}]
               /\ e.seq = n /\ e.dst = d /\ ~ e.sent /\ e.waiters = <<n>>
  BY <1>3
<1>5. /\ entries'[g] = closed \cup {e} /\ waiters'[g] = waiters[g] + 1 /\ waiters[g] \in Int
      /\ Len(e.waiters) = 1 /\ e.waiters[1] = n
  <2>1. entries'[g] = closed \cup {e}  BY <1>4 DEF Type, ReqType
  <2>2. waiters'[g] = waiters[g] + 1 /\ waiters[g] \in Int  BY DEF NewEntry, Type, ReqType
  <2>3. Len(e.waiters) = 1 /\ e.waiters[1] = n  BY <1>2, <1>4
  <2> QED  BY <2>1, <2>2, <2>3
<1>6. /\ reqQueues[g][d] \in Seq(Nat) /\ Len(reqQueues[g][d]) \in Nat
      /\ Len(reqQueues'[g][d]) = Len(reqQueues[g][d]) + 1
      /\ reqQueues'[g][d][Len(reqQueues[g][d]) + 1] = n
      /\ \A i \in 1 .. Len(reqQueues[g][d]) : reqQueues'[g][d][i] = reqQueues[g][d][i]
      /\ \A c \in Gpm : c # d => reqQueues'[g][c] = reqQueues[g][c]
  <2>1. /\ reqQueues' = [reqQueues EXCEPT ![g][d] = Append(reqQueues[g][d], n)]
        /\ reqQueues \in [Gpm -> [Gpm -> Seq(Nat)]]
    BY <1>0 DEF NewEntry, Type, ReqType
  <2>2. /\ reqQueues'[g][d] = Append(reqQueues[g][d], n) /\ reqQueues[g][d] \in Seq(Nat)
        /\ \A c \in Gpm : c # d => reqQueues'[g][c] = reqQueues[g][c]
    BY <1>2, <2>1
  <2> QED  BY <1>2, <2>2, AppendElements, SeqType
<1>7. /\ accepted'[g] = n /\ reqs' = reqs /\ ReqActive' = ReqActive
      /\ Cardinality(Unanswered(g)') = Cardinality(Unanswered(g)) + 1
      /\ AnsweredOK(g)'
  BY <1>0, <1>1, AcceptCount
<1>8. SeqOK(g)'
  <2>1. \A x \in closed : x.seq \in 1 .. accepted[g]
    BY <1>3 DEF ReqInv, SeqOK, Same
  <2> QED  BY <1>2, <1>3, <1>4, <1>5, <1>7, <2>1 DEF SeqOK
<1>9. QueueOK(g)'
  <2>1. ASSUME NEW x \in entries'[g], ~ x.sent
        PROVE  \E i \in 1 .. Len(reqQueues'[g][x.dst]) : reqQueues'[g][x.dst][i] = x.seq
    <3>1. CASE x = e
      <4>1. Len(reqQueues[g][d]) + 1 \in 1 .. Len(reqQueues'[g][d])  BY <1>6
      <4> QED  BY <1>4, <1>6, <3>1, <4>1
    <3>2. CASE x \in closed
      <4>1. PICK y \in entries[g] : Same(x, y)  BY <1>3, <3>2
      <4>2. PICK i \in 1 .. Len(reqQueues[g][y.dst]) : reqQueues[g][y.dst][i] = y.seq
        BY <2>1, <4>1 DEF ReqInv, QueueOK, Same
      <4>3. y.dst \in Gpm  BY DEF Type, ReqType, Entry
      <4>4. i \in 1 .. Len(reqQueues'[g][y.dst]) /\ reqQueues'[g][y.dst][i] = y.seq
        <5>1. CASE y.dst = d
          <6>1. i \in 1 .. Len(reqQueues[g][d])  BY <4>2, <5>1
          <6> QED  BY <1>6, <4>2, <5>1, <6>1
        <5>2. CASE y.dst # d  BY <1>6, <4>2, <4>3, <5>2
        <5> QED  BY <5>1, <5>2
      <4> QED  BY <4>1, <4>4 DEF Same
    <3> QED  BY <1>5, <3>1, <3>2
  <2>2. \A c \in Gpm : \A i \in 1 .. Len(reqQueues[g][c]) :
            /\ reqQueues[g][c][i] \in 1 .. accepted[g]
            /\ \E x \in entries'[g] : ~ x.sent /\ x.dst = c /\ x.seq = reqQueues[g][c][i]
    <3> TAKE c \in Gpm
    <3> TAKE i \in 1 .. Len(reqQueues[g][c])
    <3>1. PICK y \in entries[g] : ~ y.sent /\ y.dst = c /\ y.seq = reqQueues[g][c][i]
      BY DEF ReqInv, QueueOK
    <3>2. y.seq \in 1 .. accepted[g]  BY DEF ReqInv, SeqOK
    <3>3. PICK x \in closed : Same(x, y)  BY <1>3
    <3> QED  BY <1>5, <3>1, <3>2, <3>3 DEF Same
  <2>3. ASSUME NEW c \in Gpm, NEW i \in 1 .. Len(reqQueues'[g][c])
        PROVE  \/ /\ c = d /\ i = Len(reqQueues[g][d]) + 1 /\ reqQueues'[g][c][i] = n
               \/ /\ i \in 1 .. Len(reqQueues[g][c])
                  /\ reqQueues'[g][c][i] = reqQueues[g][c][i]
    <3>1. CASE c = d
      <4>1. i = Len(reqQueues[g][d]) + 1 \/ i \in 1 .. Len(reqQueues[g][d])
        BY <1>6, <3>1
      <4> QED  BY <1>6, <3>1, <4>1
    <3>2. CASE c # d  BY <1>6, <3>2
    <3> QED  BY <3>1, <3>2
  <2>4. \A c \in Gpm : \A i \in 1 .. Len(reqQueues'[g][c]) :
            \E x \in entries'[g] : ~ x.sent /\ x.dst = c /\ x.seq = reqQueues'[g][c][i]
    BY <1>4, <1>5, <2>2, <2>3
  <2>5. ASSUME NEW c \in Gpm, NEW i \in 1 .. Len(reqQueues'[g][c]),
               NEW j \in 1 .. Len(reqQueues'[g][c]), reqQueues'[g][c][i] = reqQueues'[g][c][j]
        PROVE  i = j
    <3>1. \A k, l \in 1 .. Len(reqQueues[g][c]) : reqQueues[g][c][k] = reqQueues[g][c][l] => k = l
      BY DEF ReqInv, QueueOK
    <3> QED  BY <1>2, <2>2, <2>3, <2>5, <3>1
  <2> QED  BY <2>1, <2>4, <2>5 DEF QueueOK
<1>10. CountOK(g)'
  <2>2. ASSUME NEW m
        PROVE  (\E x \in entries'[g] : x.seq = m /\ x.sent) <=>
               (\E x \in entries[g] : x.seq = m /\ x.sent)
    BY <1>3, <1>4, <1>5 DEF Same
  <2>3. SentSeqs(g)' = SentSeqs(g)
    BY <1>2, <1>7, <2>2 DEF ReqInv, SeqOK, SentSeqs
  <2>4. ASSUME NEW c \in Gpm PROVE SentTo(g, c)' = SentTo(g, c)
    <3>1. \A x \in entries[g] : x.seq \in 1 .. accepted[g]  BY DEF ReqInv, SeqOK
    <3>2. SentTo(g, c)' \subseteq SentTo(g, c)
      BY <1>3, <1>4, <1>5, <1>7, <3>1 DEF SentTo, Same
    <3>3. SentTo(g, c) \subseteq SentTo(g, c)'
      BY <1>2, <1>3, <1>4, <1>5, <1>7 DEF SentTo, Same
    <3> QED  BY <3>2, <3>3
  <2> QED  BY <1>1, <2>3, <2>4 DEF ReqInv, CountOK
<1>11. WaitersOK(g)'
  BY <1>1, <1>5, <1>7, RequesterAssumption DEF ReqInv, WaitersOK
<1>12. WaitingOK(g)'
  <2>1. ASSUME NEW x \in entries'[g], NEW i \in 1 .. Len(x.waiters)
        PROVE  \/ x = e /\ i = 1 /\ x.waiters[i] = n
               \/ /\ x \in closed
                  /\ \E y \in entries[g] : Same(x, y) /\ y.waiters[i] \in 1 .. accepted[g]
    BY <1>3, <1>5 DEF ReqInv, WaitingOK, Same
  <2>2. \A x \in entries'[g] : \A i \in 1 .. Len(x.waiters) : x.waiters[i] \in 1 .. n
    BY <1>2, <2>1 DEF Same
  <2>3. ASSUME NEW x \in entries'[g], NEW y \in entries'[g],
               NEW i \in 1 .. Len(x.waiters), NEW j \in 1 .. Len(y.waiters),
               x.waiters[i] = y.waiters[j]
        PROVE  x = y /\ i = j
    <3>1. CASE x.waiters[i] = n
      <4>1. x = e /\ i = 1  BY <1>2, <2>1, <3>1 DEF Same
      <4>2. y.waiters[j] = n  BY <2>3, <3>1
      <4>3. y = e /\ j = 1  BY <1>2, <2>1, <4>2 DEF Same
      <4> QED  BY <4>1, <4>3
    <3>2. CASE x.waiters[i] # n
      <4>1. x \in closed /\ y \in closed  BY <2>1, <2>3, <3>2
      <4>2. PICK x0 \in entries[g] : Same(x, x0)  BY <1>3, <4>1
      <4>3. PICK y0 \in entries[g] : Same(y, y0)  BY <1>3, <4>1
      <4>4. x0 = y0 /\ i = j  BY <2>3, <4>2, <4>3 DEF ReqInv, WaitingOK, Same
      <4>5. x.seq = y.seq  BY <4>2, <4>3, <4>4 DEF Same
      <4> QED  BY <1>3, <4>1, <4>4, <4>5
    <3> QED  BY <3>1, <3>2
  <2> QED  BY <1>7, <2>2, <2>3 DEF WaitingOK
<1>13. ReadyOK(g)'  BY <1>1, <1>2, <1>7 DEF ReqInv, ReadyOK
<1>14. PlaceOK(g)'
  <2>1. \A m : IsWaiting(g, m)' <=> IsWaiting(g, m) \/ m = n
    <3>1. \A m : IsWaiting(g, m)' => IsWaiting(g, m) \/ m = n
      BY <1>3, <1>5 DEF IsWaiting, Same
    <3>2. \A m : IsWaiting(g, m) => IsWaiting(g, m)'
      BY <1>3, <1>5 DEF IsWaiting, Same
    <3>3. IsWaiting(g, n)'  BY <1>5 DEF IsWaiting
    <3> QED  BY <3>1, <3>2, <3>3
  <2>2. ~ IsReady(g, n)  BY <1>2 DEF ReqInv, ReadyOK, IsReady
  <2>3. \A m : /\ IsReady(g, m)' <=> IsReady(g, m)
               /\ IsAnswered(g, m)' <=> IsAnswered(g, m)
               /\ m \in fromInside'[g] <=> m \in fromInside[g]
    BY <1>1 DEF IsReady, IsAnswered
  <2> QED  BY <1>2, <1>7, <2>1, <2>2, <2>3 DEF ReqInv, PlaceOK
<1>15. ModeOK(g)'  BY <1>7 DEF ReqInv, ModeOK
<1> QED  BY <1>7, <1>8, <1>9, <1>10, <1>11, <1>12, <1>13, <1>14, <1>15 DEF ReqInv

LEMMA IssueInv ==
    ASSUME Type, Type', NEW g \in Gpm, ReqInv(g), Issue(g), UNCHANGED fromInside
    PROVE  ReqInv(g)'
<1>1. PICK d \in Gpm :
          /\ Best(g, d)
          /\ entries' = [entries EXCEPT ![g] =
                {IF e.seq = Head(reqQueues[g][d]) THEN [e EXCEPT !.sent = TRUE] ELSE e : e \in @}]
          /\ reqQueues' = [reqQueues EXCEPT ![g][d] = Tail(@)]
          /\ Acquire(g, d)
          /\ UNCHANGED <<l1Vars, waiters, fanout>>
  BY DEF Issue
<1>2. PICK n : n = Head(reqQueues[g][d])  OBVIOUS
<1>3. /\ reqQueues[g][d] # <<>> /\ total[g] < Window
  BY <1>1 DEF Best, Waiting, CanSendNow, CanSend
<1>4. /\ reqQueues[g][d] \in Seq(Nat) /\ Len(reqQueues[g][d]) \in Nat \ {0}
      /\ reqQueues[g][d][1] = n
      /\ Len(reqQueues'[g][d]) = Len(reqQueues[g][d]) - 1
      /\ \A i \in 1 .. Len(reqQueues[g][d]) - 1 : reqQueues'[g][d][i] = reqQueues[g][d][i + 1]
      /\ \A c \in Gpm : c # d => reqQueues'[g][c] = reqQueues[g][c]
  <2>1. reqQueues[g][d] \in Seq(Nat)  BY DEF Type, ReqType
  <2>2. /\ reqQueues'[g][d] = Tail(reqQueues[g][d])
        /\ \A c \in Gpm : c # d => reqQueues'[g][c] = reqQueues[g][c]
    BY <1>1 DEF Type, ReqType
  <2> QED  BY <1>2, <1>3, <2>1, <2>2, TailElements
<1>5. PICK e0 \in entries[g] : ~ e0.sent /\ e0.dst = d /\ e0.seq = n
  <2>1. 1 \in 1 .. Len(reqQueues[g][d])  BY <1>4
  <2> QED  BY <1>4, <2>1 DEF ReqInv, QueueOK
<1> DEFINE Marked(x, y) == /\ x.seq = y.seq /\ x.dst = y.dst /\ x.waiters = y.waiters
                           /\ x.sent <=> (y.sent \/ y.seq = n)
<1>6. /\ \A x \in entries'[g] : \E y \in entries[g] : Marked(x, y)
      /\ \A y \in entries[g] : \E x \in entries'[g] : Marked(x, y)
      /\ \A x, w \in entries'[g] : x.seq = w.seq => x = w
  <2> DEFINE c(y) == IF y.seq = n THEN [y EXCEPT !.sent = TRUE] ELSE y
  <2>1. \A y \in entries[g] : y \in Entry  BY DEF Type, ReqType
  <2>2. \A y \in entries[g] : Marked(c(y), y)  BY <2>1, EntryUpdate DEF Entry
  <2>3. entries'[g] = {c(y) : y \in entries[g]}  BY <1>1, <1>2 DEF Type, ReqType
  <2>4. \A y \in entries[g] : c(y).seq = y.seq  BY <2>2
  <2>5. \A y, z \in entries[g] : y.seq = z.seq => y = z  BY DEF ReqInv, SeqOK
  <2> HIDE DEF c, Marked
  <2> QED  BY <2>2, <2>3, <2>4, <2>5
<1>7. /\ accepted' = accepted /\ reqs' = reqs /\ ReqActive' = ReqActive
      /\ UNCHANGED <<answers, waiters, fanout, fromInside>>
  BY <1>1 DEF l1Vars, reqs, ReqActive
<1>8. SeqOK(g)'  BY <1>6, <1>7 DEF ReqInv, SeqOK
<1>9. QueueOK(g)'
  <2>1. ASSUME NEW x \in entries'[g], ~ x.sent
        PROVE  \E i \in 1 .. Len(reqQueues'[g][x.dst]) : reqQueues'[g][x.dst][i] = x.seq
    <3>1. PICK y \in entries[g] : Marked(x, y)  BY <1>6
    <3>2. PICK i \in 1 .. Len(reqQueues[g][y.dst]) : reqQueues[g][y.dst][i] = y.seq
      BY <2>1, <3>1 DEF ReqInv, QueueOK
    <3>3. y.dst \in Gpm /\ y.seq # n  BY <2>1, <3>1 DEF Type, ReqType, Entry
    <3>4. CASE y.dst = d
      <4>1. i # 1  BY <1>4, <3>2, <3>3, <3>4
      <4>2. i - 1 \in 1 .. Len(reqQueues[g][d]) - 1 /\ i - 1 + 1 = i  BY <1>4, <3>2, <3>4, <4>1
      <4>3. i - 1 \in 1 .. Len(reqQueues'[g][d]) /\ reqQueues'[g][d][i - 1] = y.seq
        BY <1>4, <3>2, <3>4, <4>2
      <4> QED  BY <3>1, <3>4, <4>3
    <3>5. CASE y.dst # d  BY <1>4, <3>1, <3>2, <3>3, <3>5
    <3> QED  BY <3>4, <3>5
  <2>2. ASSUME NEW c \in Gpm, NEW i \in 1 .. Len(reqQueues'[g][c])
        PROVE  \/ /\ c = d /\ i + 1 \in 1 .. Len(reqQueues[g][c]) /\ i + 1 # 1
                  /\ reqQueues'[g][c][i] = reqQueues[g][c][i + 1]
               \/ /\ c # d /\ i \in 1 .. Len(reqQueues[g][c])
                  /\ reqQueues'[g][c][i] = reqQueues[g][c][i]
    <3>1. CASE c = d
      <4>1. i \in 1 .. Len(reqQueues[g][d]) - 1  BY <1>4, <3>1
      <4>2. i + 1 \in 1 .. Len(reqQueues[g][d]) /\ i + 1 # 1  BY <1>4, <4>1
      <4> QED  BY <1>4, <3>1, <4>1, <4>2
    <3>2. CASE c # d  BY <1>4, <3>2
    <3> QED  BY <3>1, <3>2
  <2>3. ASSUME NEW c \in Gpm, NEW i \in 1 .. Len(reqQueues[g][c]), c # d \/ i # 1
        PROVE  \E x \in entries'[g] : ~ x.sent /\ x.dst = c /\ x.seq = reqQueues[g][c][i]
    <3>1. PICK y \in entries[g] : ~ y.sent /\ y.dst = c /\ y.seq = reqQueues[g][c][i]
      BY DEF ReqInv, QueueOK
    <3>2. y.seq # n
      <4>1. CASE c # d  BY <1>5, <3>1, <4>1 DEF ReqInv, SeqOK
      <4>2. CASE c = d
        <5>1. i # 1 /\ 1 \in 1 .. Len(reqQueues[g][d])  BY <1>4, <2>3, <4>2
        <5>2. reqQueues[g][d][i] # reqQueues[g][d][1]
          BY <2>3, <4>2, <5>1, Zenon DEF ReqInv, QueueOK
        <5> QED  BY <1>4, <3>1, <4>2, <5>2
      <4> QED  BY <4>1, <4>2
    <3>3. PICK x \in entries'[g] : Marked(x, y)  BY <1>6
    <3> QED  BY <3>1, <3>2, <3>3
  <2>4. \A c \in Gpm : \A i \in 1 .. Len(reqQueues'[g][c]) :
            \E x \in entries'[g] : ~ x.sent /\ x.dst = c /\ x.seq = reqQueues'[g][c][i]
    <3> TAKE c \in Gpm
    <3> TAKE i \in 1 .. Len(reqQueues'[g][c])
    <3> QED  BY <2>2, <2>3
  <2>5. ASSUME NEW c \in Gpm, NEW i \in 1 .. Len(reqQueues'[g][c]),
               NEW j \in 1 .. Len(reqQueues'[g][c]), reqQueues'[g][c][i] = reqQueues'[g][c][j]
        PROVE  i = j
    <3>1. \A k, l \in 1 .. Len(reqQueues[g][c]) : reqQueues[g][c][k] = reqQueues[g][c][l] => k = l
      BY DEF ReqInv, QueueOK
    <3>2. CASE c # d
      BY <2>2, <2>5, <3>1, <3>2
    <3>3. CASE c = d
      <4>1. /\ i + 1 \in 1 .. Len(reqQueues[g][c]) /\ j + 1 \in 1 .. Len(reqQueues[g][c])
            /\ reqQueues[g][c][i + 1] = reqQueues[g][c][j + 1]
        BY <2>2, <2>5, <3>3
      <4>2. i + 1 = j + 1 /\ i \in Int /\ j \in Int  BY <3>1, <4>1
      <4> QED  BY <4>2
    <3> QED  BY <3>2, <3>3
  <2> QED  BY <2>1, <2>4, <2>5 DEF QueueOK
<1>10. CountOK(g)'
  <2>1. /\ total'[g] = total[g] + 1 /\ inflight'[g][d] = inflight[g][d] + 1
        /\ \A c \in Gpm : c # d => inflight'[g][c] = inflight[g][c]
        /\ total[g] \in Int
    BY <1>1 DEF Acquire, Type, ReqType
  <2>2. n \in 1 .. accepted[g]  BY <1>5 DEF ReqInv, SeqOK
  <2>3. n \notin SentSeqs(g) /\ n \notin SentTo(g, d)
    BY <1>5 DEF ReqInv, SeqOK, SentSeqs, SentTo
  <2>4. SentSeqs(g)' = SentSeqs(g) \cup {n}
    <3>1. SentSeqs(g)' \subseteq SentSeqs(g) \cup {n}
      BY <1>6, <1>7 DEF SentSeqs
    <3>2. SentSeqs(g) \cup {n} \subseteq SentSeqs(g)'
      BY <1>5, <1>6, <1>7, <2>2 DEF SentSeqs
    <3> QED  BY <3>1, <3>2
  <2>5. SentTo(g, d)' = SentTo(g, d) \cup {n}
    <3>1. SentTo(g, d)' \subseteq SentTo(g, d) \cup {n}
      BY <1>6, <1>7 DEF SentTo
    <3>2. SentTo(g, d) \cup {n} \subseteq SentTo(g, d)'
      BY <1>5, <1>6, <1>7, <2>2 DEF SentTo
    <3> QED  BY <3>1, <3>2
  <2>6. ASSUME NEW c \in Gpm, c # d PROVE SentTo(g, c)' = SentTo(g, c)
    <3>1. \A y \in entries[g] : y.dst = c => y.seq # n
      BY <1>5, <2>6 DEF ReqInv, SeqOK
    <3>2. SentTo(g, c)' \subseteq SentTo(g, c)
      BY <1>6, <1>7, <3>1 DEF SentTo
    <3>3. SentTo(g, c) \subseteq SentTo(g, c)'
      BY <1>6, <1>7 DEF SentTo
    <3> QED  BY <3>2, <3>3
  <2>7. IsFiniteSet(SentSeqs(g)) /\ IsFiniteSet(SentTo(g, d))
    <3>1. SentSeqs(g) \in SUBSET (1 .. accepted[g]) /\ SentTo(g, d) \in SUBSET (1 .. accepted[g])
      BY DEF SentSeqs, SentTo
    <3> QED  BY <3>1, NumbersFinite
  <2>8. Cardinality(SentSeqs(g)') = Cardinality(SentSeqs(g)) + 1
        /\ Cardinality(SentTo(g, d)') = Cardinality(SentTo(g, d)) + 1
    BY <2>3, <2>4, <2>5, <2>7, FS_AddElement
  <2>9. total'[g] <= Window  BY <1>3, <2>1, RequesterAssumption
  <2>10. \A c \in Gpm : inflight'[g][c] = Cardinality(SentTo(g, c)')
    BY <2>1, <2>6, <2>8 DEF ReqInv, CountOK
  <2> QED  BY <2>1, <2>8, <2>9, <2>10 DEF ReqInv, CountOK
<1>11. WaitersOK(g)'  BY <1>7 DEF ReqInv, WaitersOK, Unanswered
<1>12. WaitingOK(g)'
  <2>1. WaitingOK(g)  BY DEF ReqInv
  <2>2. \A x \in entries'[g] : \A i \in 1 .. Len(x.waiters) : x.waiters[i] \in 1 .. accepted[g]
    BY <1>6, <2>1 DEF WaitingOK
  <2>3. ASSUME NEW x \in entries'[g], NEW y \in entries'[g],
               NEW i \in 1 .. Len(x.waiters), NEW j \in 1 .. Len(y.waiters),
               x.waiters[i] = y.waiters[j]
        PROVE  x = y /\ i = j
    <3>1. PICK x0 \in entries[g] : Marked(x, x0)  BY <1>6
    <3>2. PICK y0 \in entries[g] : Marked(y, y0)  BY <1>6
    <3>3. x0 = y0 /\ i = j  BY <2>1, <2>3, <3>1, <3>2 DEF WaitingOK
    <3>4. x.seq = y.seq  BY <3>1, <3>2, <3>3
    <3> QED  BY <1>6, <3>3, <3>4
  <2> QED  BY <1>7, <2>2, <2>3 DEF WaitingOK
<1>13. ReadyOK(g)'  BY <1>7 DEF ReqInv, ReadyOK
<1>14. AnsweredOK(g)'  BY <1>7 DEF ReqInv, AnsweredOK, IsAnswered
<1>15. PlaceOK(g)'
  <2>1. \A m : IsWaiting(g, m)' <=> IsWaiting(g, m)
    BY <1>6 DEF IsWaiting
  <2>2. \A m : /\ IsReady(g, m)' <=> IsReady(g, m)
               /\ IsAnswered(g, m)' <=> IsAnswered(g, m)
               /\ m \in fromInside'[g] <=> m \in fromInside[g]
    BY <1>7 DEF IsReady, IsAnswered
  <2> QED  BY <1>7, <2>1, <2>2 DEF ReqInv, PlaceOK
<1>16. ModeOK(g)'
  <2>1. ~ ReqActive => entries[g] = {}  BY DEF ReqInv, ModeOK
  <2>2. ReqActive  BY <1>5, <2>1
  <2> QED  BY <1>7, <2>2 DEF ReqInv, ModeOK
<1> QED  BY <1>8, <1>9, <1>10, <1>11, <1>12, <1>13, <1>14, <1>15, <1>16 DEF ReqInv

LEMMA ResponseInv ==
    ASSUME Type, Type', NEW g \in Gpm, ReqInv(g), ReqActive, Response(g), UNCHANGED fromInside
    PROVE  ReqInv(g)'
<1>1. PICK e \in entries[g] :
          /\ e.sent
          /\ entries' = [entries EXCEPT ![g] = @ \ {e}]
          /\ Release(g, e.dst)
          /\ fanout' = [fanout EXCEPT ![g] = @ \o Woken(e, Head(toOutside[g]).ver)]
  BY DEF Response
<1>2. PICK ver \in Nat : ver = Head(toOutside[g]).ver
  <2>1. Head(toOutside[g]) \in RspMsg
    BY HeadType DEF Response, HeadIs, Received, Type
  <2> QED  BY <2>1 DEF RspMsg
<1>3. e \in Entry /\ e.dst \in Gpm /\ e.waiters \in Seq(Nat)
  <2>1. e \in Entry  BY DEF Type, ReqType
  <2> QED  BY <2>1 DEF Entry
<1>a. PICK a \in Nat, b \in Nat : a = Len(fanout[g]) /\ b = Len(e.waiters)
  <2>1. fanout[g] \in Seq(Waking)  BY DEF Type, ReqType
  <2> QED  BY <1>3, <2>1, SeqType
<1>4. entries'[g] = entries[g] \ {e}  BY <1>1 DEF Type, ReqType
<1>5. /\ accepted' = accepted /\ reqs' = reqs /\ ReqActive' = ReqActive
      /\ UNCHANGED <<answers, reqQueues, waiters, fromInside>>
  BY DEF Response, l1Vars, reqs, ReqActive
<1>6. /\ Len(fanout'[g]) = a + b
      /\ \A i \in 1 .. a : fanout'[g][i] = fanout[g][i]
      /\ \A i \in 1 .. b : fanout'[g][a + i].req = e.waiters[i]
  <2>1. fanout[g] \in Seq(Waking) /\ fanout'[g] = fanout[g] \o Woken(e, ver)
    BY <1>1, <1>2 DEF Type, ReqType
  <2>2. /\ Woken(e, ver) \in Seq(Waking) /\ Len(Woken(e, ver)) = Len(e.waiters)
        /\ \A i \in 1 .. Len(e.waiters) : Woken(e, ver)[i].req = e.waiters[i]
    BY <1>2, <1>3, WokenType
  <2>3. PICK w \in Seq(Waking) : w = Woken(e, ver)  BY <2>2
  <2>4. /\ Len(fanout[g] \o w) = Len(fanout[g]) + Len(w)
        /\ \A i \in 1 .. Len(fanout[g]) : (fanout[g] \o w)[i] = fanout[g][i]
        /\ \A i \in 1 .. Len(w) : (fanout[g] \o w)[Len(fanout[g]) + i] = w[i]
    BY <2>1, ConcatElements
  <2> QED  BY <1>a, <2>1, <2>2, <2>3, <2>4
\* A response that is ready was ready before, or belongs to a waiter of e.
<1>7. ASSUME NEW i \in 1 .. Len(fanout'[g])
      PROVE  \/ /\ i \in 1 .. a /\ fanout'[g][i] = fanout[g][i]
             \/ /\ i - a \in 1 .. b /\ i \notin 1 .. a /\ i \in Int
                /\ fanout'[g][i].req = e.waiters[i - a]
  <2>1. i \in 1 .. a + b  BY <1>6
  <2>2. CASE i <= a  BY <1>6, <2>1, <2>2
  <2>3. CASE ~ (i <= a)
    <3>1. i - a \in 1 .. b /\ a + (i - a) = i /\ i \notin 1 .. a  BY <2>1, <2>3
    <3> QED  BY <1>6, <2>1, <3>1
  <2> QED  BY <2>2, <2>3
<1>8. SeqOK(g)'  BY <1>4, <1>5 DEF ReqInv, SeqOK
<1>9. QueueOK(g)'
  <2>1. \A x \in entries'[g] : ~ x.sent =>
            \E i \in 1 .. Len(reqQueues[g][x.dst]) : reqQueues[g][x.dst][i] = x.seq
    BY <1>4 DEF ReqInv, QueueOK
  <2>2. \A c \in Gpm : \A i \in 1 .. Len(reqQueues[g][c]) :
            \E x \in entries'[g] : ~ x.sent /\ x.dst = c /\ x.seq = reqQueues[g][c][i]
    BY <1>1, <1>4 DEF ReqInv, QueueOK
  <2> QED  BY <1>5, <2>1, <2>2 DEF ReqInv, QueueOK
<1>10. CountOK(g)'
  <2>1. /\ total'[g] = total[g] - 1 /\ inflight'[g][e.dst] = inflight[g][e.dst] - 1
        /\ \A c \in Gpm : c # e.dst => inflight'[g][c] = inflight[g][c]
        /\ total[g] \in Int
    BY <1>1, <1>3 DEF Release, Type, ReqType
  <2>2. e.seq \in SentSeqs(g) /\ e.seq \in SentTo(g, e.dst)
    BY <1>1 DEF ReqInv, SeqOK, SentSeqs, SentTo
  <2>3. \A y \in entries[g] : y.seq = e.seq => y = e  BY DEF ReqInv, SeqOK
  <2>4. SentSeqs(g)' = SentSeqs(g) \ {e.seq}
    <3>1. SentSeqs(g)' \subseteq SentSeqs(g) \ {e.seq}  BY <1>4, <1>5, <2>3 DEF SentSeqs
    <3>2. SentSeqs(g) \ {e.seq} \subseteq SentSeqs(g)'  BY <1>4, <1>5 DEF SentSeqs
    <3> QED  BY <3>1, <3>2
  <2>5. \A c \in Gpm : SentTo(g, c)' = IF c = e.dst THEN SentTo(g, c) \ {e.seq} ELSE SentTo(g, c)
    <3> TAKE c \in Gpm
    <3>1. SentTo(g, c)' \subseteq SentTo(g, c) \ {e.seq}
      BY <1>4, <1>5, <2>3 DEF SentTo
    <3>2. SentTo(g, c) \ {e.seq} \subseteq SentTo(g, c)'  BY <1>4, <1>5 DEF SentTo
    <3>3. c # e.dst => e.seq \notin SentTo(g, c)  BY <2>3 DEF SentTo
    <3> QED  BY <3>1, <3>2, <3>3
  <2>6. IsFiniteSet(SentSeqs(g)) /\ IsFiniteSet(SentTo(g, e.dst))
        /\ Cardinality(SentSeqs(g)) \in Nat
    <3>1. SentSeqs(g) \in SUBSET (1 .. accepted[g]) /\ SentTo(g, e.dst) \in SUBSET (1 .. accepted[g])
      BY DEF SentSeqs, SentTo
    <3> QED  BY <3>1, NumbersFinite
  <2>7. Cardinality(SentSeqs(g)') = Cardinality(SentSeqs(g)) - 1
        /\ Cardinality(SentTo(g, e.dst)') = Cardinality(SentTo(g, e.dst)) - 1
    <3>1. SentTo(g, e.dst)' = SentTo(g, e.dst) \ {e.seq}  BY <1>3, <2>5
    <3>2. Cardinality(SentTo(g, e.dst) \ {e.seq}) = Cardinality(SentTo(g, e.dst)) - 1
      BY <2>2, <2>6, FS_RemoveElement
    <3>3. Cardinality(SentSeqs(g) \ {e.seq}) = Cardinality(SentSeqs(g)) - 1
      BY <2>2, <2>6, FS_RemoveElement
    <3> QED  BY <2>4, <3>1, <3>2, <3>3
  <2>8. total'[g] <= Window  BY <2>1, RequesterAssumption DEF ReqInv, CountOK
  <2>9. \A c \in Gpm : inflight'[g][c] = Cardinality(SentTo(g, c)')
    BY <2>1, <2>5, <2>7 DEF ReqInv, CountOK
  <2> QED  BY <2>1, <2>7, <2>8, <2>9 DEF ReqInv, CountOK
<1>11. WaitersOK(g)'  BY <1>5 DEF ReqInv, WaitersOK, Unanswered
<1>12. WaitingOK(g)'  BY <1>4, <1>5 DEF ReqInv, WaitingOK
<1>13. \A i \in 1 .. Len(e.waiters) :
           /\ e.waiters[i] \in 1 .. accepted[g]
           /\ ~ IsReady(g, e.waiters[i]) /\ ~ IsAnswered(g, e.waiters[i])
  <2>1. \A i \in 1 .. Len(e.waiters) :
            e.waiters[i] \in 1 .. accepted[g] /\ IsWaiting(g, e.waiters[i])
    BY DEF ReqInv, WaitingOK, IsWaiting
  <2> QED  BY <2>1 DEF ReqInv, PlaceOK
<1>14. ReadyOK(g)'
  <2>1. ReadyOK(g)  BY DEF ReqInv
  <2>2. \A i \in 1 .. Len(fanout'[g]) : fanout'[g][i].req \in 1 .. accepted[g]
    BY <1>a, <1>7, <1>13, <2>1 DEF ReadyOK
  <2>3. ASSUME NEW i \in 1 .. Len(fanout'[g]), NEW j \in 1 .. Len(fanout'[g]),
               fanout'[g][i].req = fanout'[g][j].req
        PROVE  i = j
    <3>1. \A k \in 1 .. Len(fanout'[g]) : k \in 1 .. a => IsReady(g, fanout'[g][k].req)
      BY <1>a, <1>6 DEF IsReady
    <3>2. \A k \in 1 .. Len(fanout'[g]) : k \notin 1 .. a => ~ IsReady(g, fanout'[g][k].req)
      BY <1>a, <1>7, <1>13
    <3>3. CASE i \in 1 .. a
      <4>1. j \in 1 .. a  BY <2>3, <3>1, <3>2, <3>3
      <4> QED  BY <1>a, <1>6, <2>1, <2>3, <3>3, <4>1 DEF ReadyOK
    <3>4. CASE i \notin 1 .. a
      <4>1. j \notin 1 .. a  BY <2>3, <3>1, <3>2, <3>4
      <4>2. /\ i - a \in 1 .. b /\ j - a \in 1 .. b /\ i \in Int /\ j \in Int
            /\ e.waiters[i - a] = e.waiters[j - a]
        BY <1>7, <2>3, <3>4, <4>1
      <4>3. i - a = j - a  BY <1>a, <4>2 DEF ReqInv, WaitingOK
      <4> QED  BY <4>2, <4>3
    <3> QED  BY <3>3, <3>4
  <2> QED  BY <1>5, <2>2, <2>3 DEF ReadyOK
<1>15. AnsweredOK(g)'  BY <1>5 DEF ReqInv, AnsweredOK, IsAnswered
<1>16. PlaceOK(g)'
  <2> DEFINE Mine(m) == \E i \in 1 .. Len(e.waiters) : e.waiters[i] = m
  <2>1. \A m : IsWaiting(g, m)' <=> IsWaiting(g, m) /\ ~ Mine(m)
    <3>1. \A m : IsWaiting(g, m)' => IsWaiting(g, m) /\ ~ Mine(m)
      BY <1>4 DEF IsWaiting, ReqInv, WaitingOK
    <3>2. \A m : IsWaiting(g, m) /\ ~ Mine(m) => IsWaiting(g, m)'
      BY <1>4 DEF IsWaiting
    <3> QED  BY <3>1, <3>2
  <2>2. \A m : IsReady(g, m)' <=> IsReady(g, m) \/ Mine(m)
    <3>1. \A m : IsReady(g, m)' => IsReady(g, m) \/ Mine(m)
      BY <1>a, <1>7 DEF IsReady
    <3>2. ASSUME NEW m, IsReady(g, m) PROVE IsReady(g, m)'
      <4>1. PICK i \in 1 .. a : fanout[g][i].req = m  BY <1>a, <3>2 DEF IsReady
      <4>2. i \in 1 .. Len(fanout'[g])  BY <1>6
      <4> QED  BY <1>6, <4>1, <4>2 DEF IsReady
    <3>3. ASSUME NEW m, Mine(m) PROVE IsReady(g, m)'
      <4>1. PICK i \in 1 .. b : e.waiters[i] = m  BY <1>a, <3>3
      <4>2. a + i \in 1 .. Len(fanout'[g])  BY <1>6
      <4> QED  BY <1>6, <4>1, <4>2 DEF IsReady
    <3> QED  BY <3>1, <3>2, <3>3
  <2>3. \A m : /\ IsAnswered(g, m)' <=> IsAnswered(g, m)
               /\ m \in fromInside'[g] <=> m \in fromInside[g]
    BY <1>5 DEF IsAnswered
  <2>4. \A m : Mine(m) => IsWaiting(g, m) /\ ~ IsAnswered(g, m)
    BY <1>13 DEF IsWaiting
  <2> HIDE DEF Mine
  <2> QED  BY <1>5, <2>1, <2>2, <2>3, <2>4 DEF ReqInv, PlaceOK
<1>17. ModeOK(g)'  BY <1>5 DEF ReqInv, ModeOK
<1> QED  BY <1>8, <1>9, <1>10, <1>11, <1>12, <1>14, <1>15, <1>16, <1>17 DEF ReqInv

\* A response goes to L1 for a request that has none.
LEMMA AnswerInv ==
    ASSUME Type, NEW g \in Gpm, ReqInv(g), NEW n \in 1 .. accepted[g], ~ IsAnswered(g, n),
           NEW ver \in Nat, Answer(g, n, ver), UNCHANGED <<setup, accepted>>
    PROVE  /\ AnsweredOK(g)' /\ \A m \in 1 .. accepted[g] :
                  IsAnswered(g, m)' <=> IsAnswered(g, m) \/ m = n
           /\ Cardinality(Unanswered(g)') = Cardinality(Unanswered(g)) - 1
           /\ Cardinality(Unanswered(g)) \in Nat
<1>1. /\ 1 .. accepted[g] \subseteq 1 .. Len(reqs[g]) /\ n \in 1 .. Len(reqs[g])
      /\ DOMAIN reqs[g] = 1 .. Len(reqs[g]) /\ reqs' = reqs
  <2>1. accepted[g] \in Nat /\ accepted[g] <= Len(reqs[g]) /\ setup \in Setup
    BY DEF Type, L1Type
  <2>2. Len(reqs[g]) \in Nat /\ DOMAIN reqs[g] = 1 .. Len(reqs[g])  BY <2>1, Workload
  <2> QED  BY <2>1, <2>2 DEF reqs
<1>2. /\ answers[g][n] = <<>>
      /\ \A m \in 1 .. Len(reqs[g]) :
             answers'[g][m] = IF m = n THEN Append(<<>>, ver) ELSE answers[g][m]
  <2>1. answers = [h \in Gpm |-> answers[h]] /\ answers[g] \in [1 .. Len(reqs[g]) -> Seq(Nat)]
    BY <1>1 DEF Type, L1Type
  <2>2. answers' = [answers EXCEPT ![g] = [answers[g] EXCEPT ![n] = Append(answers[g][n], ver)]]
    BY DEF Answer
  <2>3. answers'[g] = [answers[g] EXCEPT ![n] = Append(answers[g][n], ver)]  BY <2>1, <2>2
  <2> QED  BY <2>1, <2>3 DEF IsAnswered
<1>3. Append(<<>>, ver) # <<>> /\ Len(Append(<<>>, ver)) = 1  OBVIOUS
<1>4. AnsweredOK(g)'
  <2>1. n <= accepted[g]  BY DEF Type, L1Type
  <2> QED  BY <1>1, <1>2, <1>3, <2>1 DEF ReqInv, AnsweredOK, IsAnswered
<1>5. \A m \in 1 .. accepted[g] : IsAnswered(g, m)' <=> IsAnswered(g, m) \/ m = n
  BY <1>1, <1>2, <1>3 DEF IsAnswered
<1>6. Unanswered(g)' = Unanswered(g) \ {n}
  BY <1>1, <1>2, <1>3 DEF Unanswered
<1>7. n \in Unanswered(g) /\ Unanswered(g) \in SUBSET (1 .. accepted[g])
  BY <1>2 DEF Unanswered
<1>8. IsFiniteSet(Unanswered(g)) /\ Cardinality(Unanswered(g)) \in Nat
  BY <1>7, NumbersFinite
<1>9. Cardinality(Unanswered(g) \ {n}) = Cardinality(Unanswered(g)) - 1
  BY <1>7, <1>8, FS_RemoveElement
<1> QED  BY <1>4, <1>5, <1>6, <1>8, <1>9

LEMMA FanoutInv ==
    ASSUME Type, Type', NEW g \in Gpm, ReqInv(g), Fanout(g), UNCHANGED fromInside
    PROVE  ReqInv(g)'
<1>1. PICK n, ver, a : /\ n = Head(fanout[g]).req /\ ver = Head(fanout[g]).ver
                       /\ a = Len(fanout[g])
  OBVIOUS
<1>2. /\ fanout[g] \in Seq(Waking) /\ fanout[g] # <<>> /\ fanout'[g] = Tail(fanout[g])
      /\ waiters'[g] = waiters[g] - 1 /\ waiters[g] \in Int
      /\ Answer(g, n, ver)
      /\ UNCHANGED <<setup, accepted, entries, reqQueues, inflight, total>>
      /\ reqs' = reqs /\ ReqActive' = ReqActive
  BY <1>1 DEF Fanout, Type, ReqType, reqs, ReqActive
<1>3. /\ Head(fanout[g]) \in Waking /\ Head(fanout[g]) = fanout[g][1] /\ a \in Nat \ {0}
      /\ Len(fanout'[g]) = a - 1
      /\ \A i \in 1 .. a - 1 : fanout'[g][i] = fanout[g][i + 1]
  BY <1>1, <1>2, TailElements
<1>4. ver \in Nat /\ n = fanout[g][1].req /\ 1 \in 1 .. a
  BY <1>1, <1>3 DEF Waking
<1>5. n \in 1 .. accepted[g] /\ IsReady(g, n)
  BY <1>1, <1>4 DEF ReqInv, ReadyOK, IsReady
<1>6. ~ IsAnswered(g, n) /\ ~ IsWaiting(g, n)  BY <1>5 DEF ReqInv, PlaceOK
<1>7. /\ AnsweredOK(g)'
      /\ \A m \in 1 .. accepted[g] : IsAnswered(g, m)' <=> IsAnswered(g, m) \/ m = n
      /\ Cardinality(Unanswered(g)') = Cardinality(Unanswered(g)) - 1
      /\ Cardinality(Unanswered(g)) \in Nat
  BY <1>2, <1>4, <1>5, <1>6, AnswerInv
<1>8. ReqActive /\ fromInside[g] = {}  BY <1>2 DEF ReqInv, ModeOK
<1>9. SeqOK(g)' /\ QueueOK(g)'
  <2>1. UNCHANGED <<accepted, entries, reqQueues>>  BY <1>2
  <2>2. SeqOK(g)'  BY <2>1 DEF ReqInv, SeqOK
  <2>3. QueueOK(g)'
    BY <2>1, QueueKept
  <2> QED  BY <2>2, <2>3
<1>10. CountOK(g)'  BY <1>2 DEF ReqInv, CountOK, SentSeqs, SentTo
<1>11. WaitersOK(g)'
  BY <1>2, <1>7, <1>8, RequesterAssumption DEF ReqInv, WaitersOK
<1>12. WaitingOK(g)'  BY <1>2 DEF ReqInv, WaitingOK
<1>13. \A i \in 1 .. Len(fanout'[g]) :
           /\ i + 1 \in 1 .. a /\ i + 1 # 1 /\ i \in Int /\ fanout'[g][i] = fanout[g][i + 1]
  BY <1>3
<1>14. \A i, j \in 1 .. a : fanout[g][i].req = fanout[g][j].req => i = j
  BY <1>1 DEF ReqInv, ReadyOK
<1>15. ReadyOK(g)'
  <2>1. \A i \in 1 .. Len(fanout'[g]) : fanout'[g][i].req \in 1 .. accepted[g]
    BY <1>1, <1>13 DEF ReqInv, ReadyOK
  <2>2. ASSUME NEW i \in 1 .. Len(fanout'[g]), NEW j \in 1 .. Len(fanout'[g]),
               fanout'[g][i].req = fanout'[g][j].req
        PROVE  i = j
    <3>1. /\ fanout'[g][i] = fanout[g][i + 1] /\ fanout'[g][j] = fanout[g][j + 1]
          /\ i + 1 \in 1 .. a /\ j + 1 \in 1 .. a /\ i \in Int /\ j \in Int
      BY <1>13
    <3>2. fanout[g][i + 1].req = fanout[g][j + 1].req  BY <2>2, <3>1
    <3>3. i + 1 = j + 1  BY <1>14, <3>1, <3>2, Zenon
    <3> QED  BY <3>1, <3>3
  <2> QED  BY <1>2, <2>1, <2>2 DEF ReadyOK
<1>16. PlaceOK(g)'
  <2>1. \A m : IsReady(g, m)' <=> IsReady(g, m) /\ m # n
    <3>1. ASSUME NEW m, IsReady(g, m)' PROVE IsReady(g, m) /\ m # n
      <4>1. PICK i \in 1 .. Len(fanout'[g]) : fanout'[g][i].req = m  BY <3>1 DEF IsReady
      <4>2. i + 1 \in 1 .. a /\ fanout[g][i + 1].req = m /\ i + 1 # 1  BY <1>13, <4>1
      <4> QED  BY <1>1, <1>4, <1>14, <4>2 DEF IsReady
    <3>2. ASSUME NEW m, IsReady(g, m), m # n PROVE IsReady(g, m)'
      <4>1. PICK i \in 1 .. a : fanout[g][i].req = m  BY <1>1, <3>2 DEF IsReady
      <4>2. i # 1  BY <1>4, <3>2, <4>1
      <4>3. i - 1 \in 1 .. a - 1 /\ i - 1 + 1 = i  BY <1>3, <4>1, <4>2
      <4>4. i - 1 \in 1 .. Len(fanout'[g]) /\ fanout'[g][i - 1].req = m
        BY <1>3, <4>1, <4>3
      <4> QED  BY <4>4 DEF IsReady
    <3> QED  BY <3>1, <3>2
  <2>2. \A m : IsWaiting(g, m)' <=> IsWaiting(g, m)  BY <1>2 DEF IsWaiting
  <2> QED  BY <1>2, <1>5, <1>6, <1>7, <1>8, <2>1, <2>2 DEF ReqInv, PlaceOK
<1>17. ModeOK(g)'  BY <1>2, <1>8 DEF ReqInv, ModeOK
<1> QED  BY <1>7, <1>9, <1>10, <1>11, <1>12, <1>15, <1>16, <1>17 DEF ReqInv

\* The baseline keeps the numbers of the requests under way in fromInside.
LEMMA ForwardReqInv ==
    ASSUME Type, Type', NEW g \in Gpm, ReqInv(g), ~ ReqActive, ForwardReq(g), UNCHANGED reqVars
    PROVE  ReqInv(g)'
<1>0. PICK n : n = accepted[g] + 1  OBVIOUS
<1>1. /\ HasInput(g) /\ Accept(g) /\ UNCHANGED answers
      /\ fromInside'[g] = fromInside[g] \cup {n}
      /\ UNCHANGED <<entries, reqQueues, inflight, total, waiters, fanout>>
  BY <1>0 DEF ForwardReq, reqVars, Type, L1Type
<1>2. /\ n \notin 1 .. accepted[g] /\ 1 .. n = 1 .. accepted[g] \cup {n}
      /\ ~ IsAnswered(g, n)
  BY <1>0, <1>1, FreshNumber
<1>3. /\ accepted'[g] = n /\ reqs' = reqs /\ ReqActive' = ReqActive /\ AnsweredOK(g)'
  BY <1>0, <1>1, AcceptCount
<1>4. entries[g] = {} /\ fanout[g] = <<>> /\ waiters[g] = 0  BY DEF ReqInv, ModeOK
<1>5. SeqOK(g)' /\ WaitingOK(g)'  BY <1>1, <1>4 DEF SeqOK, WaitingOK
<1>6. QueueOK(g)' /\ ReadyOK(g)' /\ WaitersOK(g)' /\ ModeOK(g)'
  BY <1>1, <1>3, <1>4 DEF ReqInv, QueueOK, ReadyOK, WaitersOK, ModeOK
<1>7. CountOK(g)'
  <2>1. SentSeqs(g)' = SentSeqs(g)  BY <1>1, <1>4 DEF SentSeqs
  <2>2. ASSUME NEW c \in Gpm PROVE SentTo(g, c)' = SentTo(g, c)
    BY <1>1, <1>4 DEF SentTo
  <2> QED  BY <1>1, <2>1, <2>2 DEF ReqInv, CountOK
<1>8. PlaceOK(g)'
  <2>1. \A m : ~ IsWaiting(g, m) /\ ~ IsWaiting(g, m)' /\ ~ IsReady(g, m) /\ ~ IsReady(g, m)'
    BY <1>1, <1>4 DEF IsWaiting, IsReady
  <2>2. \A m : IsAnswered(g, m)' <=> IsAnswered(g, m)  BY <1>1 DEF IsAnswered
  <2> QED  BY <1>1, <1>2, <1>3, <2>1, <2>2 DEF ReqInv, PlaceOK
<1> QED  BY <1>3, <1>5, <1>6, <1>7, <1>8 DEF ReqInv

LEMMA ForwardRspInv ==
    ASSUME Type, Type', NEW g \in Gpm, ReqInv(g), ~ ReqActive, ForwardRsp(g), UNCHANGED reqVars
    PROVE  ReqInv(g)'
<1>0. PICK n, ver : n = Head(toOutside[g]).seq /\ ver = Head(toOutside[g]).ver  OBVIOUS
<1>1. /\ n \in fromInside[g] /\ Answer(g, n, ver)
      /\ fromInside'[g] = fromInside[g] \ {n}
      /\ UNCHANGED <<setup, accepted, entries, reqQueues, inflight, total, waiters, fanout>>
      /\ reqs' = reqs /\ ReqActive' = ReqActive
  BY <1>0 DEF ForwardRsp, reqVars, Type, L1Type, reqs, ReqActive
<1>2. ver \in Nat
  <2>1. Head(toOutside[g]) \in RspMsg
    BY HeadType DEF ForwardRsp, HeadIs, Received, Type
  <2> QED  BY <1>0, <2>1 DEF RspMsg
<1>3. n \in 1 .. accepted[g]  BY <1>1 DEF Type, L1Type
<1>4. ~ IsAnswered(g, n)  BY <1>1, <1>3 DEF ReqInv, PlaceOK
<1>5. /\ AnsweredOK(g)'
      /\ \A m \in 1 .. accepted[g] : IsAnswered(g, m)' <=> IsAnswered(g, m) \/ m = n
  BY <1>1, <1>2, <1>3, <1>4, AnswerInv
<1>6. entries[g] = {} /\ fanout[g] = <<>> /\ waiters[g] = 0  BY DEF ReqInv, ModeOK
<1>7. SeqOK(g)' /\ WaitingOK(g)'  BY <1>1, <1>6 DEF SeqOK, WaitingOK
<1>8. QueueOK(g)' /\ ReadyOK(g)' /\ WaitersOK(g)' /\ ModeOK(g)'
  BY <1>1, <1>6 DEF ReqInv, QueueOK, ReadyOK, WaitersOK, ModeOK
<1>9. CountOK(g)'  BY <1>1 DEF ReqInv, CountOK, SentSeqs, SentTo
<1>10. PlaceOK(g)'
  <2>1. \A m : ~ IsWaiting(g, m) /\ ~ IsWaiting(g, m)' /\ ~ IsReady(g, m) /\ ~ IsReady(g, m)'
    BY <1>1, <1>6 DEF IsWaiting, IsReady
  <2> QED  BY <1>1, <1>5, <2>1 DEF ReqInv, PlaceOK
<1> QED  BY <1>5, <1>7, <1>8, <1>9, <1>10 DEF ReqInv

-------------------------------------------------------------------------------
\* What the requester of g has is not changed by the others.
Untouched(g) ==
    /\ setup' = setup /\ accepted'[g] = accepted[g] /\ answers'[g] = answers[g]
    /\ fromInside'[g] = fromInside[g] /\ entries'[g] = entries[g]
    /\ reqQueues'[g] = reqQueues[g] /\ inflight'[g] = inflight[g] /\ total'[g] = total[g]
    /\ waiters'[g] = waiters[g] /\ fanout'[g] = fanout[g]

LEMMA Frame ==
    ASSUME NEW g \in Gpm, ReqInv(g), Untouched(g)
    PROVE  ReqInv(g)'
<1>1. reqs' = reqs /\ ReqActive' = ReqActive  BY DEF Untouched, reqs, ReqActive
<1>2. SeqOK(g)' /\ QueueOK(g)'  BY DEF Untouched, ReqInv, SeqOK, QueueOK
<1>3. CountOK(g)'  BY DEF Untouched, ReqInv, CountOK, SentSeqs, SentTo
<1>4. WaitersOK(g)'  BY <1>1 DEF Untouched, ReqInv, WaitersOK, Unanswered
<1>5. WaitingOK(g)' /\ ReadyOK(g)'  BY DEF Untouched, ReqInv, WaitingOK, ReadyOK
<1>6. AnsweredOK(g)'  BY <1>1 DEF Untouched, ReqInv, AnsweredOK, IsAnswered
<1>7. PlaceOK(g)'
  <2>1. \A n : /\ IsWaiting(g, n)' <=> IsWaiting(g, n)
               /\ IsReady(g, n)' <=> IsReady(g, n)
               /\ IsAnswered(g, n)' <=> IsAnswered(g, n)
    BY DEF Untouched, IsWaiting, IsReady, IsAnswered
  <2>2. accepted'[g] = accepted[g] /\ fromInside'[g] = fromInside[g]  BY DEF Untouched
  <2> QED  BY <2>1, <2>2, Zenon DEF ReqInv, PlaceOK
<1>8. ModeOK(g)'  BY <1>1 DEF Untouched, ReqInv, ModeOK
<1> QED  BY <1>2, <1>3, <1>4, <1>5, <1>6, <1>7, <1>8 DEF ReqInv

LEMMA OthersUntouched ==
    ASSUME Type, NEW g \in Gpm, NEW h \in Gpm, h # g
    PROVE  /\ Merge(g) /\ UNCHANGED fromInside => Untouched(h)
           /\ \A t \in BOOLEAN : NewEntry(g, t) /\ UNCHANGED fromInside => Untouched(h)
           /\ ForwardReq(g) /\ UNCHANGED reqVars => Untouched(h)
           /\ Response(g) /\ UNCHANGED fromInside => Untouched(h)
           /\ ForwardRsp(g) /\ UNCHANGED reqVars => Untouched(h)
           /\ Issue(g) /\ UNCHANGED fromInside => Untouched(h)
           /\ Fanout(g) /\ UNCHANGED fromInside => Untouched(h)
<1>0. /\ accepted \in [Gpm -> Nat] /\ answers = [k \in Gpm |-> answers[k]]
      /\ fromInside \in [Gpm -> SUBSET Nat] /\ entries \in [Gpm -> SUBSET Entry]
      /\ reqQueues \in [Gpm -> [Gpm -> Seq(Nat)]] /\ inflight \in [Gpm -> [Gpm -> Int]]
      /\ total \in [Gpm -> Int] /\ waiters \in [Gpm -> Int] /\ fanout \in [Gpm -> Seq(Waking)]
  BY DEF Type, L1Type, ReqType
<1>1. Merge(g) /\ UNCHANGED fromInside => Untouched(h)
  BY <1>0 DEF Merge, Accept, Untouched
<1>2. \A t \in BOOLEAN : NewEntry(g, t) /\ UNCHANGED fromInside => Untouched(h)
  BY <1>0 DEF NewEntry, Accept, Untouched
<1>3. ForwardReq(g) /\ UNCHANGED reqVars => Untouched(h)
  BY <1>0 DEF ForwardReq, Accept, reqVars, Untouched
<1>4. Response(g) /\ UNCHANGED fromInside => Untouched(h)
  BY <1>0 DEF Response, Release, l1Vars, Untouched
<1>5. ForwardRsp(g) /\ UNCHANGED reqVars => Untouched(h)
  BY <1>0 DEF ForwardRsp, Answer, reqVars, Untouched
<1>6. Issue(g) /\ UNCHANGED fromInside => Untouched(h)
  BY <1>0 DEF Issue, Acquire, l1Vars, Untouched
<1>7. Fanout(g) /\ UNCHANGED fromInside => Untouched(h)
  BY <1>0 DEF Fanout, Answer, Untouched
<1> QED  BY <1>1, <1>2, <1>3, <1>4, <1>5, <1>6, <1>7

LEMMA InitInv == ASSUME Init, NEW g \in Gpm PROVE ReqInv(g)
<1>1. /\ accepted[g] = 0 /\ fromInside[g] = {} /\ entries[g] = {} /\ fanout[g] = <<>>
      /\ waiters[g] = 0 /\ total[g] = 0
      /\ \A d \in Gpm : reqQueues[g][d] = <<>> /\ inflight[g][d] = 0
      /\ answers[g] = [n \in DOMAIN reqs[g] |-> <<>>]
      /\ setup \in Setup
  BY DEF Init, EngineInit, ReqInit
<1>2. 1 .. 0 = {} /\ Len(<<>>) = 0  OBVIOUS
<1>3. SeqOK(g) /\ QueueOK(g)  BY <1>1, <1>2 DEF SeqOK, QueueOK
<1>4. /\ SentSeqs(g) = {} /\ Unanswered(g) = {}
      /\ \A d \in Gpm : SentTo(g, d) = {}
  BY <1>1, <1>2 DEF SentSeqs, SentTo, Unanswered
<1>5. CountOK(g) /\ WaitersOK(g)
  <2>1. Cardinality({}) = 0  BY FS_EmptySet
  <2>2. Window \in Nat /\ WaiterCap \in Nat  BY RequesterAssumption
  <2>3. 0 <= Window /\ 0 <= WaiterCap  BY <2>2
  <2>4. CountOK(g)  BY <1>1, <1>4, <2>1, <2>3 DEF CountOK
  <2>5. WaitersOK(g)  BY <1>1, <1>4, <2>1, <2>3 DEF WaitersOK
  <2> QED  BY <2>4, <2>5
<1>6. WaitingOK(g) /\ ReadyOK(g)  BY <1>1, <1>2 DEF WaitingOK, ReadyOK
<1>7. AnsweredOK(g)  BY <1>1, Workload DEF AnsweredOK, IsAnswered
<1>8. PlaceOK(g) /\ ModeOK(g)  BY <1>1, <1>2 DEF PlaceOK, ModeOK
<1> QED  BY <1>3, <1>5, <1>6, <1>7, <1>8 DEF ReqInv

RequesterInv == \A g \in Gpm : ReqInv(g)

LEMMA NextInv == ASSUME Type, Type', RequesterInv, [Next]_vars PROVE RequesterInv'
<1>1. ASSUME NEW g \in Gpm, ReqInv(g)', \A h \in Gpm : h # g => Untouched(h)
      PROVE  RequesterInv'
  BY <1>1, Frame DEF RequesterInv
<1>2. ASSUME UNCHANGED <<l1Vars, fromInside, reqVars>> PROVE RequesterInv'
  <2>1. \A h \in Gpm : Untouched(h)  BY <1>2 DEF l1Vars, reqVars, Untouched
  <2> QED  BY <2>1, Frame DEF RequesterInv
<1>3. ASSUME NEW g \in Gpm, FromL1(g) PROVE RequesterInv'
  <2>0. ReqInv(g)  BY DEF RequesterInv
  <2>1. CASE ReqActive
    <3>1. UNCHANGED fromInside /\ (Merge(g) \/ \E t \in BOOLEAN : NewEntry(g, t))
      BY <1>3, <2>1 DEF FromL1, Track, Bypass
    <3>2. CASE Merge(g)
      <4>1. ReqInv(g)'  BY <2>0, <2>1, <3>1, <3>2, MergeInv
      <4>2. \A h \in Gpm : h # g => Untouched(h)  BY <3>1, <3>2, OthersUntouched
      <4> QED  BY <1>1, <4>1, <4>2
    <3>3. ASSUME NEW t \in BOOLEAN, NewEntry(g, t) PROVE RequesterInv'
      <4>1. ReqInv(g)'  BY <2>0, <2>1, <3>1, <3>3, NewEntryInv
      <4>2. \A h \in Gpm : h # g => Untouched(h)  BY <3>1, <3>3, OthersUntouched
      <4> QED  BY <1>1, <4>1, <4>2
    <3> QED  BY <3>1, <3>2, <3>3
  <2>2. CASE ~ ReqActive
    <3>1. ForwardReq(g) /\ UNCHANGED reqVars  BY <1>3, <2>2 DEF FromL1
    <3>2. ReqInv(g)'  BY <2>0, <2>2, <3>1, ForwardReqInv
    <3>3. \A h \in Gpm : h # g => Untouched(h)  BY <3>1, OthersUntouched
    <3> QED  BY <1>1, <3>2, <3>3
  <2> QED  BY <2>1, <2>2
<1>4. ASSUME NEW g \in Gpm, RspFromOutside(g) PROVE RequesterInv'
  <2>0. ReqInv(g)  BY DEF RequesterInv
  <2>1. CASE ReqActive
    <3>1. Response(g) /\ UNCHANGED fromInside  BY <1>4, <2>1 DEF RspFromOutside
    <3>2. ReqInv(g)'  BY <2>0, <2>1, <3>1, ResponseInv
    <3>3. \A h \in Gpm : h # g => Untouched(h)  BY <3>1, OthersUntouched
    <3> QED  BY <1>1, <3>2, <3>3
  <2>2. CASE ~ ReqActive
    <3>1. ForwardRsp(g) /\ UNCHANGED reqVars  BY <1>4, <2>2 DEF RspFromOutside
    <3>2. ReqInv(g)'  BY <2>0, <2>2, <3>1, ForwardRspInv
    <3>3. \A h \in Gpm : h # g => Untouched(h)  BY <3>1, OthersUntouched
    <3> QED  BY <1>1, <3>2, <3>3
  <2> QED  BY <2>1, <2>2
<1>5. ASSUME NEW g \in Gpm, ReqIssue(g) PROVE RequesterInv'
  <2>1. Issue(g) /\ UNCHANGED fromInside /\ ReqInv(g)  BY <1>5 DEF ReqIssue, RequesterInv
  <2>2. ReqInv(g)'  BY <2>1, IssueInv
  <2>3. \A h \in Gpm : h # g => Untouched(h)  BY <2>1, OthersUntouched
  <2> QED  BY <1>1, <2>2, <2>3
<1>6. ASSUME NEW g \in Gpm, FanoutStep(g) PROVE RequesterInv'
  <2>1. Fanout(g) /\ UNCHANGED fromInside /\ ReqInv(g)  BY <1>6 DEF FanoutStep, RequesterInv
  <2>2. ReqInv(g)'  BY <2>1, FanoutInv
  <2>3. \A h \in Gpm : h # g => Untouched(h)  BY <2>1, OthersUntouched
  <2> QED  BY <1>1, <2>2, <2>3
<1>7. ASSUME NEW g \in Gpm, ReqFromOutside(g) \/ FromL2(g) \/ OwnerSend(g) \/ Ctrl(g)
      PROVE  RequesterInv'
  <2>1. ReqFromOutside(g) => UNCHANGED <<l1Vars, fromInside, reqVars>>
    BY DEF ReqFromOutside, OwnerJoin, OwnerRead, OwnerBaseline, OwnerWriteBlocked, ForwardToL2
  <2>2. FromL2(g) => UNCHANGED <<l1Vars, fromInside, reqVars>>
    BY DEF FromL2, OwnerL2Rsp, ForwardFromL2
  <2>3. OwnerSend(g) => UNCHANGED <<l1Vars, fromInside, reqVars>>
    BY DEF OwnerSend, SendMulticast, SendUnicast
  <2>4. Ctrl(g) => UNCHANGED <<l1Vars, fromInside, reqVars>>  BY DEF Ctrl
  <2> QED  BY <1>2, <1>7, <2>1, <2>2, <2>3, <2>4
<1>8. CASE Driver  BY <1>2, <1>8 DEF Driver
<1>9. CASE L2AndNetwork  BY <1>2, <1>9 DEF L2AndNetwork, NetStep, L2Serve
<1>10. CASE LocalWrites  BY <1>2, <1>10 DEF LocalWrites, LocalWrite
<1>11. CASE UNCHANGED vars  BY <1>2, <1>11 DEF vars, engineVars
<1> QED
  BY <1>3, <1>4, <1>5, <1>6, <1>7, <1>8, <1>9, <1>10, <1>11 DEF Next, Engine

\* The inductive invariant of all the requesters.
THEOREM RequesterInvariant == Spec => [](Type /\ RequesterInv)
<1>1. Init => Type /\ RequesterInv  BY InitType, InitInv DEF RequesterInv
<1>2. Type /\ RequesterInv /\ [Next]_vars => (Type /\ RequesterInv)'
  BY NextType, NextInv
<1> QED  BY <1>1, <1>2, PTL DEF Spec

-------------------------------------------------------------------------------
\* Sets of the same size, by a function that is one-to-one and onto.
LEMMA SameSize ==
    ASSUME NEW S, NEW T, IsFiniteSet(T), NEW f \in [S -> T],
           \A x, y \in S : f[x] = f[y] => x = y, \A t \in T : \E x \in S : f[x] = t
    PROVE  IsFiniteSet(S) /\ Cardinality(S) = Cardinality(T)
<1>1. f \in Injection(S, T) /\ f \in Surjection(S, T)
  BY DEF Injection, Surjection, IsInjective
<1> QED  BY <1>1, FS_Injection

\* The invariant counts the entries that were sent by their seq's.
LEMMA CountersOK == Type /\ RequesterInv => RequesterCounters
<1> SUFFICES ASSUME Type, RequesterInv, NEW g \in Gpm
             PROVE  /\ total[g] = Cardinality(Sent(g)) /\ total[g] <= Window
                    /\ \A d \in Gpm : inflight[g][d] = Cardinality({e \in Sent(g) : e.dst = d})
                    /\ ReqActive => waiters[g] = Cardinality({n \in 1 .. accepted[g] : answers[g][n] = <<>>})
                    /\ waiters[g] <= WaiterCap
  BY DEF RequesterCounters
<1>1. ReqInv(g)  BY DEF RequesterInv
<1>2. Cardinality(Sent(g)) = Cardinality(SentSeqs(g))
  <2> DEFINE f == [e \in Sent(g) |-> e.seq]
  <2>1. f \in [Sent(g) -> SentSeqs(g)]  BY <1>1 DEF Sent, SentSeqs, ReqInv, SeqOK
  <2>2. \A x, y \in Sent(g) : f[x] = f[y] => x = y  BY <1>1 DEF Sent, ReqInv, SeqOK
  <2>3. \A n \in SentSeqs(g) : \E x \in Sent(g) : f[x] = n  BY DEF Sent, SentSeqs
  <2>4. SentSeqs(g) \in SUBSET (1 .. accepted[g])  BY DEF SentSeqs
  <2>5. IsFiniteSet(SentSeqs(g))  BY <2>4, NumbersFinite
  <2> HIDE DEF f
  <2> QED  BY <2>1, <2>2, <2>3, <2>5, SameSize
<1>3. ASSUME NEW d \in Gpm
      PROVE  Cardinality({e \in Sent(g) : e.dst = d}) = Cardinality(SentTo(g, d))
  <2> DEFINE S == {e \in Sent(g) : e.dst = d}
             f == [e \in S |-> e.seq]
  <2>1. f \in [S -> SentTo(g, d)]  BY <1>1 DEF Sent, SentTo, ReqInv, SeqOK
  <2>2. \A x, y \in S : f[x] = f[y] => x = y  BY <1>1 DEF Sent, ReqInv, SeqOK
  <2>3. \A n \in SentTo(g, d) : \E x \in S : f[x] = n  BY DEF Sent, SentTo
  <2>4. SentTo(g, d) \in SUBSET (1 .. accepted[g])  BY DEF SentTo
  <2>5. IsFiniteSet(SentTo(g, d))  BY <2>4, NumbersFinite
  <2> HIDE DEF f, S
  <2>6. Cardinality(S) = Cardinality(SentTo(g, d))  BY <2>1, <2>2, <2>3, <2>5, SameSize
  <2> QED  BY <2>6 DEF S
<1> QED  BY <1>1, <1>2, <1>3 DEF ReqInv, CountOK, WaitersOK, Unanswered

\* The counters of the requesters are right: in every state each GPM's window and
\* credits are charged for just the entries that are in the network, and the count of
\* waiters is that of the requests it has taken from L1 and not answered; none exceeds
\* its limit.
THEOREM RequesterCountersCorrect == Spec => []RequesterCounters
<1> QED  BY RequesterInvariant, CountersOK, PTL

LEMMA AtMostOne ==
    ASSUME NEW S, \A x, y \in S : x = y
    PROVE  Cardinality(S) = IF S = {} THEN 0 ELSE 1
<1>1. CASE S = {}  BY <1>1, FS_EmptySet
<1>2. CASE S # {}
  <2>1. PICK x \in S : TRUE  BY <1>2
  <2>2. S = {x}  BY <2>1
  <2> QED  BY <1>2, <2>2, FS_Singleton
<1> QED  BY <1>1, <1>2

\* A request is in one place only, and in none before it is accepted.
LEMMA OnceOK == Type /\ RequesterInv => AnsweredOnce
<1> SUFFICES ASSUME Type, RequesterInv, NEW g \in Gpm, NEW n \in DOMAIN reqs[g]
             PROVE  LET waiting == {e \in entries[g] : n \in Range(e.waiters)}
                        ready   == {i \in DOMAIN fanout[g] : fanout[g][i].req = n}
                    IN  /\ \A e \in waiting : Occurrences(e.waiters, n) = 1
                        /\ Cardinality(waiting) + Cardinality(ready) + Len(answers[g][n])
                               + (IF n \in fromInside[g] THEN 1 ELSE 0)
                           = IF n <= accepted[g] THEN 1 ELSE 0
  BY DEF AnsweredOnce
<1> DEFINE waiting == {e \in entries[g] : n \in Range(e.waiters)}
           ready   == {i \in DOMAIN fanout[g] : fanout[g][i].req = n}
<1>1. ReqInv(g)  BY DEF RequesterInv
<1>2. /\ n \in 1 .. Len(reqs[g]) /\ n \in Nat /\ accepted[g] \in Nat /\ n >= 1
      /\ answers[g][n] \in Seq(Nat)
  <2>1. setup \in Setup /\ accepted[g] \in Nat /\ answers[g] \in [DOMAIN reqs[g] -> Seq(Nat)]
    BY DEF Type, L1Type
  <2> QED  BY <2>1, Workload
<1>3. \A e \in entries[g] : e.waiters \in Seq(Nat) /\ DOMAIN e.waiters = 1 .. Len(e.waiters)
  <2>1. \A e \in entries[g] : e \in Entry  BY DEF Type, ReqType
  <2>2. \A e \in entries[g] : e.waiters \in Seq(Nat)  BY <2>1 DEF Entry
  <2> QED  BY <2>2, SeqType
<1>4. DOMAIN fanout[g] = 1 .. Len(fanout[g])
  <2>1. fanout[g] \in Seq(Waking)  BY DEF Type, ReqType
  <2> QED  BY <2>1, SeqType
<1>5. \A e \in entries[g] : n \in Range(e.waiters) <=>
          \E i \in 1 .. Len(e.waiters) : e.waiters[i] = n
  BY <1>3 DEF Range
<1>6. \A e \in waiting : Occurrences(e.waiters, n) = 1
  <2> TAKE e \in waiting
  <2> DEFINE S == {i \in DOMAIN e.waiters : e.waiters[i] = n}
  <2>1. S # {}  BY <1>3, <1>5
  <2>2. \A i, j \in S : i = j  BY <1>1, <1>3 DEF ReqInv, WaitingOK
  <2> HIDE DEF S
  <2>3. Cardinality(S) = 1  BY <2>1, <2>2, AtMostOne
  <2> QED  BY <2>3 DEF Occurrences, S
<1>7. Cardinality(waiting) = IF IsWaiting(g, n) THEN 1 ELSE 0
  <2>1. \A x, y \in waiting : x = y  BY <1>1, <1>5 DEF ReqInv, WaitingOK
  <2>2. waiting # {} <=> IsWaiting(g, n)  BY <1>5 DEF IsWaiting
  <2> HIDE DEF waiting
  <2> QED  BY <2>1, <2>2, AtMostOne
<1>8. Cardinality(ready) = IF IsReady(g, n) THEN 1 ELSE 0
  <2>1. \A x, y \in ready : x = y  BY <1>1, <1>4 DEF ReqInv, ReadyOK
  <2>2. ready # {} <=> IsReady(g, n)  BY <1>4 DEF IsReady
  <2> HIDE DEF ready
  <2> QED  BY <2>1, <2>2, AtMostOne
<1>9. Len(answers[g][n]) = IF IsAnswered(g, n) THEN 1 ELSE 0
  <2>1. IsAnswered(g, n) => Len(answers[g][n]) = 1  BY <1>1, <1>2 DEF ReqInv, AnsweredOK
  <2>2. ~ IsAnswered(g, n) => Len(answers[g][n]) = 0  BY <1>2 DEF IsAnswered
  <2> QED  BY <2>1, <2>2
<1>10. fromInside[g] \subseteq 1 .. accepted[g]  BY DEF Type, L1Type
<1>11. n \in fromInside[g] => ~ IsWaiting(g, n) /\ ~ IsReady(g, n)
  <2>1. n \in fromInside[g] => ~ ReqActive  BY <1>1 DEF ReqInv, ModeOK
  <2>2. ~ ReqActive => entries[g] = {} /\ fanout[g] = <<>>  BY <1>1 DEF ReqInv, ModeOK
  <2> QED  BY <2>1, <2>2 DEF IsWaiting, IsReady
<1>12. CASE n <= accepted[g]
  <2>1. n \in 1 .. accepted[g]  BY <1>2, <1>12
  <2>2. /\ IsWaiting(g, n) \/ IsReady(g, n) \/ IsAnswered(g, n) \/ n \in fromInside[g]
        /\ IsWaiting(g, n) => ~ IsReady(g, n) /\ ~ IsAnswered(g, n)
        /\ IsReady(g, n) => ~ IsAnswered(g, n)
        /\ n \in fromInside[g] => ~ IsAnswered(g, n)
    BY <1>1, <2>1 DEF ReqInv, PlaceOK
  <2> HIDE DEF waiting, ready
  <2>3. Cardinality(waiting) + Cardinality(ready) + Len(answers[g][n])
            + (IF n \in fromInside[g] THEN 1 ELSE 0) = 1
    BY <1>7, <1>8, <1>9, <1>11, <2>2
  <2> QED  BY <1>6, <1>12, <2>3 DEF waiting, ready
<1>13. CASE ~ (n <= accepted[g])
  <2>1. n \notin 1 .. accepted[g]  BY <1>2, <1>13
  <2>2. ~ IsWaiting(g, n) /\ ~ IsReady(g, n) /\ ~ IsAnswered(g, n) /\ n \notin fromInside[g]
    BY <1>1, <1>2, <1>10, <1>13, <2>1
       DEF ReqInv, WaitingOK, ReadyOK, AnsweredOK, IsWaiting, IsReady
  <2> HIDE DEF waiting, ready
  <2>3. Cardinality(waiting) + Cardinality(ready) + Len(answers[g][n])
            + (IF n \in fromInside[g] THEN 1 ELSE 0) = 0
    BY <1>7, <1>8, <1>9, <2>2
  <2> QED  BY <1>6, <1>13, <2>3 DEF waiting, ready
<1> QED  BY <1>12, <1>13

\* No response is lost or duplicated: whatever the order of arrivals, merges, sends and
\* responses, a request that was taken from L1 waits in one entry, or for its fan-out,
\* or has been answered, once; and nothing waits for a request that was not taken.
THEOREM AnsweredOnceCorrect == Spec => []AnsweredOnce
<1> QED  BY RequesterInvariant, OnceOK, PTL

-------------------------------------------------------------------------------
\* The engines together.

\* The request that a packet on its way to d belongs to.
PacketId(m, d) == IF m.type = "req" THEN Id(m) ELSE <<d, m.seq>>

\* Packets for d in a buffer: the requests they belong to, and that each belongs
\* to another one.
In(q, d, id)   == \E i \in 1 .. Len(q) : PacketId(q[i], d) = id
Distinct(q, d) == \A i, j \in 1 .. Len(q) : PacketId(q[i], d) = PacketId(q[j], d) => i = j

\* The same for the responses of the L2, and for the responses to be sent.
InL2Rsp(q, id)     == \E i \in 1 .. Len(q) : q[i].id = id
DistinctL2Rsp(q)   == \A i, j \in 1 .. Len(q) : q[i].id = q[j].id => i = j
InReqs(r, id)      == \E i \in 1 .. Len(r) : r[i] = id
InAnswers(q, id)   == \E k \in 1 .. Len(q) : InReqs(q[k].reqs, id)
DistinctAnswers(q) == \A k, l \in 1 .. Len(q) :
    \A i \in 1 .. Len(q[k].reqs), j \in 1 .. Len(q[l].reqs) :
        q[k].reqs[i] = q[l].reqs[j] => k = l /\ i = j

-------------------------------------------------------------------------------
\* The places where a request can be between its Send by the requester and the
\* arrival of its response: a link, a port, and at its owner fromOutside, the merge
\* table or the queue of responses.
Place == {"net", "port", "base", "table", "rsp"} \X Gpm \X Gpm

Here(p, id) ==
    \/ p[1] = "net" /\ In(net[p[2]][p[3]], p[3], id)
    \/ p[1] = "port" /\ p[2] = p[3] /\ In(toOutside[p[2]], p[2], id)
    \/ p[1] = "base" /\ p[2] = p[3] /\ id \in fromOutside[p[2]]
    \/ p[1] = "table" /\ p[2] = p[3] /\ \E e \in ownerTable[p[2]] : InReqs(e.reqs, id)
    \/ p[1] = "rsp" /\ p[2] = p[3] /\ InAnswers(ownerRspQueue[p[2]], id)

\* The requester waits for the response.
Outstanding(id) ==
    \/ id[2] \in fromInside[id[1]]
    \/ \E e \in entries[id[1]] : e.sent /\ e.seq = id[2]

\* A request is in one place, and once there, and only while it is waited for.
PlacedOK == \A id \in ReqId :
    /\ \A p, q \in Place : Here(p, id) /\ Here(q, id) => p = q
    /\ \A p \in Place : Here(p, id) => Outstanding(id)

SingleOK ==
    /\ \A s, d \in Gpm : Distinct(net[s][d], d)
    /\ \A d \in Gpm : /\ Distinct(toOutside[d], d)
                      /\ DistinctAnswers(ownerRspQueue[d])

TableOK(d) ==
    /\ \A e \in ownerTable[d] : e.id = e.reqs[1]
    /\ \A e, f \in ownerTable[d] : \A i \in 1 .. Len(e.reqs), j \in 1 .. Len(f.reqs) :
           e.reqs[i] = f.reqs[j] => e = f /\ i = j

\* What is at the L2 belongs to a request of the baseline or to the entry that it
\* was sent for, and comes back once.
L2OK(d) ==
    /\ \A id \in ReqId : In(l2Queue[d], d, id) \/ InL2Rsp(l2Rsp[d], id) =>
           id \in fromOutside[d] \/ \E e \in ownerTable[d] : e.id = id
    /\ Distinct(l2Queue[d], d) /\ DistinctL2Rsp(l2Rsp[d])
    /\ \A id \in ReqId : ~ (In(l2Queue[d], d, id) /\ InL2Rsp(l2Rsp[d], id))

\* The read of id is a read of line l.
ReadAt(q, id, l) == \A i \in 1 .. Len(q) : Id(q[i]) = id => q[i].line = l /\ q[i].op # "write"

\* No write of l follows the read of id: NoWriteAfter, in terms of the requests q
\* and the responses r at the L2 and of what the L2 has written to the line.
IsWrite(m, l) == m.op = "write" /\ m.line = l

NoLaterWrite(q, r, h, id, l) ==
    /\ \A i \in 1 .. Len(q) : Id(q[i]) = id => \A j \in i .. Len(q) : ~ IsWrite(q[j], l)
    /\ \A i \in 1 .. Len(r) : r[i].id = id =>
           /\ \A j \in 1 .. Len(q) : ~ IsWrite(q[j], l)
           /\ \A j \in r[i].ver + 1 .. Len(h) : h[j][2] = 0

\* The read of an entry is a read of its line, and as long as the entry is open no
\* write of its line follows it.
ReadOK(d) ==
    /\ ~ OwnerMerge => ownerTable[d] = {}
    /\ \A e \in ownerTable[d] :
           /\ ReadAt(l2Queue[d], e.id, e.line)
           /\ e.open => NoLaterWrite(l2Queue[d], l2Rsp[d], hist[e.line], e.id, e.line)

\* Requests go to the owner of their line, so that its L2 alone serves the line.
Owned(q, d) == \A i \in 1 .. Len(q) : q[i].type = "req" => Owner[q[i].line] = d

ToOwner(g) == \A e \in entries[g] : e.dst = Owner[reqs[g][e.seq].line]

OwnedOK ==
    /\ \A g \in Gpm : ToOwner(g)
    /\ \A s, d \in Gpm : Owned(net[s][d], d)
    /\ \A d \in Gpm : /\ Owned(toOutside[d], d) /\ Owned(l2Queue[d], d)
                      /\ \A e \in ownerTable[d] : Owner[e.line] = d

WayInv == PlacedOK /\ SingleOK /\ OwnedOK /\ \A d \in Gpm : TableOK(d) /\ L2OK(d) /\ ReadOK(d)

-------------------------------------------------------------------------------
\* An engine that has answered the drain request takes nothing from L1 and has
\* nothing to wait for.
Quiet(g) == pauseIncomingReqsFromL1[g] /\ entries[g] = {} /\ fanout[g] = <<>> /\ fromInside[g] = {}

\* The engines whose answer the driver waits for.
ToDrain   == {g \in Gpm : ctrl[g] = "drain" \/ isDraining[g]}
ToRestart == {g \in Gpm : ctrl[g] = "restart"}

DrainInv ==
    /\ \A g \in Gpm : isDraining[g] => pauseIncomingReqsFromL1[g] /\ ctrl[g] = "none"
    /\ migration = "drain" =>
           /\ numACK = Cardinality(ToDrain) /\ ToRestart = {}
           /\ \A g \in Gpm \ ToDrain : Quiet(g)
    /\ migration = "move" => ToDrain = {} /\ ToRestart = {} /\ \A g \in Gpm : Quiet(g)
    /\ migration = "restart" => numACK = Cardinality(ToRestart) /\ ToDrain = {}
    /\ migration = "none" => ToDrain = {} /\ ToRestart = {}

SystemInv == Type /\ RequesterInv /\ WayInv /\ DrainInv

-------------------------------------------------------------------------------
\* What the operations on buffers do to the packets in them.
LEMMA InAppend ==
    ASSUME NEW S, NEW q \in Seq(S), NEW m \in S, NEW d, Distinct(q, d), ~ In(q, d, PacketId(m, d))
    PROVE  /\ Distinct(Append(q, m), d)
           /\ \A id : In(Append(q, m), d, id) <=> In(q, d, id) \/ id = PacketId(m, d)
<1>1. PICK n \in Nat : n = Len(q)  OBVIOUS
<1>2. PICK t : t = Append(q, m)  OBVIOUS
<1>3. /\ Len(t) = n + 1 /\ t[n + 1] = m /\ \A i \in 1 .. n : t[i] = q[i]
  BY <1>1, <1>2, AppendElements
<1>4. \A i \in 1 .. n + 1 : i \in 1 .. n \/ i = n + 1  BY <1>1
<1>5. \A i \in 1 .. n : PacketId(t[i], d) = PacketId(q[i], d) /\ PacketId(q[i], d) # PacketId(m, d)
  BY <1>1, <1>3 DEF In
<1>6. Distinct(t, d)
  <2> SUFFICES ASSUME NEW i \in 1 .. n + 1, NEW j \in 1 .. n + 1,
                      PacketId(t[i], d) = PacketId(t[j], d)
               PROVE  i = j
    BY <1>3 DEF Distinct
  <2>1. CASE i = n + 1  BY <1>3, <1>4, <1>5, <2>1
  <2>2. CASE i \in 1 .. n
    <3>1. j \in 1 .. n  BY <1>3, <1>4, <1>5, <2>2
    <3> QED  BY <1>1, <1>5, <2>2, <3>1 DEF Distinct
  <2> QED  BY <1>4, <2>1, <2>2
<1>7. ASSUME NEW id PROVE In(t, d, id) <=> In(q, d, id) \/ id = PacketId(m, d)
  <2>1. n + 1 \in 1 .. n + 1 /\ \A i \in 1 .. n : i \in 1 .. n + 1  BY <1>1
  <2> QED  BY <1>1, <1>3, <1>4, <1>5, <2>1 DEF In
<1> QED  BY <1>2, <1>6, <1>7

LEMMA InRemoveAt ==
    ASSUME NEW S, NEW q \in Seq(S), NEW k \in 1 .. Len(q), NEW d, Distinct(q, d)
    PROVE  /\ Distinct(RemoveAt(q, k), d)
           /\ \A id : In(RemoveAt(q, k), d, id) <=> In(q, d, id) /\ id # PacketId(q[k], d)
<1>1. PICK n \in Nat : n = Len(q)  OBVIOUS
<1>2. PICK t : t = RemoveAt(q, k)  OBVIOUS
<1>3. /\ Len(t) = n - 1 /\ \A j \in 1 .. n - 1 : t[j] = IF j < k THEN q[j] ELSE q[j + 1]
      /\ k \in 1 .. n
  BY <1>1, <1>2, RemoveAtElements
<1> DEFINE o(j) == IF j < k THEN j ELSE j + 1
<1>4. /\ \A j \in 1 .. n - 1 : o(j) \in 1 .. n /\ o(j) # k /\ t[j] = q[o(j)]
      /\ \A i, j \in 1 .. n - 1 : o(i) = o(j) => i = j
  BY <1>1, <1>3
<1>5. \A i \in 1 .. n : i # k => \E j \in 1 .. n - 1 : o(j) = i
  <2> TAKE i \in 1 .. n
  <2>1. CASE i < k  BY <1>1, <1>3, <2>1
  <2>2. CASE i > k
    <3>1. i - 1 \in 1 .. n - 1 /\ ~ (i - 1 < k) /\ i - 1 + 1 = i  BY <1>1, <1>3, <2>2
    <3> QED  BY <3>1
  <2> QED  BY <1>1, <1>3, <2>1, <2>2
<1> HIDE DEF o
<1>6. Distinct(t, d)
  BY <1>1, <1>3, <1>4 DEF Distinct
<1>7. ASSUME NEW id PROVE In(t, d, id) <=> In(q, d, id) /\ id # PacketId(q[k], d)
  <2>1. In(t, d, id) => In(q, d, id) /\ id # PacketId(q[k], d)
    BY <1>1, <1>3, <1>4 DEF In, Distinct
  <2>2. ASSUME In(q, d, id), id # PacketId(q[k], d) PROVE In(t, d, id)
    <3>1. PICK i \in 1 .. n : PacketId(q[i], d) = id /\ i # k  BY <1>1, <2>2 DEF In
    <3>2. PICK j \in 1 .. n - 1 : o(j) = i  BY <1>5, <3>1
    <3> QED  BY <1>3, <1>4, <3>1, <3>2 DEF In
  <2> QED  BY <2>1, <2>2
<1> QED  BY <1>2, <1>6, <1>7

LEMMA InTail ==
    ASSUME NEW S, NEW q \in Seq(S), q # <<>>, NEW d, Distinct(q, d)
    PROVE  /\ Distinct(Tail(q), d) /\ In(q, d, PacketId(Head(q), d))
           /\ \A id : In(Tail(q), d, id) <=> In(q, d, id) /\ id # PacketId(Head(q), d)
<1>1. PICK n \in Nat \ {0} : n = Len(q)  BY TailElements
<1>2. PICK t : t = Tail(q)  OBVIOUS
<1>3. Len(t) = n - 1 /\ Head(q) = q[1] /\ \A j \in 1 .. n - 1 : t[j] = q[j + 1]
  BY <1>1, <1>2, TailElements
<1>4. /\ \A j \in 1 .. n - 1 : j + 1 \in 1 .. n /\ j + 1 # 1
      /\ \A i, j \in 1 .. n - 1 : i + 1 = j + 1 => i = j
      /\ 1 \in 1 .. n
  BY <1>1
<1>5. \A i \in 1 .. n : i # 1 => \E j \in 1 .. n - 1 : j + 1 = i
  <2> TAKE i \in 1 .. n
  <2>1. i # 1 => i - 1 \in 1 .. n - 1 /\ i - 1 + 1 = i  BY <1>1
  <2> QED  BY <2>1
<1>6. Distinct(t, d)
  <2> SUFFICES ASSUME NEW i \in 1 .. n - 1, NEW j \in 1 .. n - 1,
                      PacketId(t[i], d) = PacketId(t[j], d)
               PROVE  i = j
    BY <1>3 DEF Distinct
  <2>1. i + 1 = j + 1  BY <1>1, <1>3, <1>4 DEF Distinct
  <2> QED  BY <1>4, <2>1
<1>7. ASSUME NEW id PROVE In(t, d, id) <=> In(q, d, id) /\ id # PacketId(Head(q), d)
  <2>1. In(t, d, id) => In(q, d, id) /\ id # PacketId(Head(q), d)
    BY <1>1, <1>3, <1>4 DEF In, Distinct
  <2>2. ASSUME In(q, d, id), id # PacketId(Head(q), d) PROVE In(t, d, id)
    <3>1. PICK i \in 1 .. n : PacketId(q[i], d) = id /\ i # 1  BY <1>1, <1>3, <2>2 DEF In
    <3>2. PICK j \in 1 .. n - 1 : j + 1 = i  BY <1>5, <3>1
    <3> QED  BY <1>3, <1>4, <3>1, <3>2 DEF In
  <2> QED  BY <2>1, <2>2
<1> QED  BY <1>1, <1>2, <1>3, <1>4, <1>6, <1>7 DEF In

\* The same for the incoming buffer of ToL2.
LEMMA InL2RspAppend ==
    ASSUME NEW S, NEW q \in Seq(S), NEW r \in S, DistinctL2Rsp(q), ~ InL2Rsp(q, r.id)
    PROVE  /\ DistinctL2Rsp(Append(q, r))
           /\ \A id : InL2Rsp(Append(q, r), id) <=> InL2Rsp(q, id) \/ id = r.id
<1>1. PICK n \in Nat : n = Len(q)  OBVIOUS
<1>2. PICK t : t = Append(q, r)  OBVIOUS
<1>3. /\ Len(t) = n + 1 /\ t[n + 1] = r /\ \A i \in 1 .. n : t[i] = q[i]
  BY <1>1, <1>2, AppendElements
<1>4. \A i \in 1 .. n + 1 : i \in 1 .. n \/ i = n + 1  BY <1>1
<1>5. \A i \in 1 .. n : t[i].id = q[i].id /\ q[i].id # r.id
  BY <1>1, <1>3 DEF InL2Rsp
<1>6. DistinctL2Rsp(t)
  <2> SUFFICES ASSUME NEW i \in 1 .. n + 1, NEW j \in 1 .. n + 1, t[i].id = t[j].id
               PROVE  i = j
    BY <1>3 DEF DistinctL2Rsp
  <2>1. CASE i = n + 1  BY <1>3, <1>4, <1>5, <2>1
  <2>2. CASE i \in 1 .. n
    <3>1. j \in 1 .. n  BY <1>3, <1>4, <1>5, <2>2
    <3> QED  BY <1>1, <1>5, <2>2, <3>1 DEF DistinctL2Rsp
  <2> QED  BY <1>4, <2>1, <2>2
<1>7. ASSUME NEW id PROVE InL2Rsp(t, id) <=> InL2Rsp(q, id) \/ id = r.id
  <2>1. n + 1 \in 1 .. n + 1 /\ \A i \in 1 .. n : i \in 1 .. n + 1  BY <1>1
  <2> QED  BY <1>1, <1>3, <1>4, <1>5, <2>1 DEF InL2Rsp
<1> QED  BY <1>2, <1>6, <1>7

LEMMA InL2RspTail ==
    ASSUME NEW S, NEW q \in Seq(S), q # <<>>, DistinctL2Rsp(q)
    PROVE  /\ DistinctL2Rsp(Tail(q)) /\ InL2Rsp(q, Head(q).id)
           /\ \A id : InL2Rsp(Tail(q), id) <=> InL2Rsp(q, id) /\ id # Head(q).id
<1>1. PICK n \in Nat \ {0} : n = Len(q)  BY TailElements
<1>2. PICK t : t = Tail(q)  OBVIOUS
<1>3. Len(t) = n - 1 /\ Head(q) = q[1] /\ \A j \in 1 .. n - 1 : t[j] = q[j + 1]
  BY <1>1, <1>2, TailElements
<1>4. /\ \A j \in 1 .. n - 1 : j + 1 \in 1 .. n /\ j + 1 # 1
      /\ \A i, j \in 1 .. n - 1 : i + 1 = j + 1 => i = j
      /\ 1 \in 1 .. n
  BY <1>1
<1>5. \A i \in 1 .. n : i # 1 => \E j \in 1 .. n - 1 : j + 1 = i
  <2> TAKE i \in 1 .. n
  <2>1. i # 1 => i - 1 \in 1 .. n - 1 /\ i - 1 + 1 = i  BY <1>1
  <2> QED  BY <2>1
<1>6. DistinctL2Rsp(t)
  <2> SUFFICES ASSUME NEW i \in 1 .. n - 1, NEW j \in 1 .. n - 1, t[i].id = t[j].id
               PROVE  i = j
    BY <1>3 DEF DistinctL2Rsp
  <2>1. i + 1 = j + 1  BY <1>1, <1>3, <1>4 DEF DistinctL2Rsp
  <2> QED  BY <1>4, <2>1
<1>7. ASSUME NEW id PROVE InL2Rsp(t, id) <=> InL2Rsp(q, id) /\ id # Head(q).id
  <2>1. InL2Rsp(t, id) => InL2Rsp(q, id) /\ id # Head(q).id
    BY <1>1, <1>3, <1>4 DEF InL2Rsp, DistinctL2Rsp
  <2>2. ASSUME InL2Rsp(q, id), id # Head(q).id PROVE InL2Rsp(t, id)
    <3>1. PICK i \in 1 .. n : q[i].id = id /\ i # 1  BY <1>1, <1>3, <2>2 DEF InL2Rsp
    <3>2. PICK j \in 1 .. n - 1 : j + 1 = i  BY <1>5, <3>1
    <3> QED  BY <1>3, <1>4, <3>1, <3>2 DEF InL2Rsp
  <2> QED  BY <2>1, <2>2
<1> QED  BY <1>1, <1>2, <1>3, <1>4, <1>6, <1>7 DEF InL2Rsp

\* The owners of the lines, when a buffer grows or shrinks.
LEMMA OwnedKept ==
    ASSUME NEW S, NEW q \in Seq(S), NEW d, Owned(q, d)
    PROVE  /\ \A m \in S : (m.type = "req" => Owner[m.line] = d) => Owned(Append(q, m), d)
           /\ \A k \in 1 .. Len(q) : Owned(RemoveAt(q, k), d)
           /\ q # <<>> => Owned(Tail(q), d)
<1>1. PICK n \in Nat : n = Len(q)  OBVIOUS
<1>2. ASSUME NEW m \in S, m.type = "req" => Owner[m.line] = d PROVE Owned(Append(q, m), d)
  <2>1. PICK t : t = Append(q, m)  OBVIOUS
  <2>2. Len(t) = n + 1 /\ t[n + 1] = m /\ \A i \in 1 .. n : t[i] = q[i]
    BY <1>1, <2>1, AppendElements
  <2>3. \A i \in 1 .. n + 1 : i \in 1 .. n \/ i = n + 1  BY <1>1
  <2>4. Owned(t, d)  BY <1>1, <1>2, <2>2, <2>3 DEF Owned
  <2> QED  BY <2>1, <2>4
<1>3. ASSUME NEW k \in 1 .. Len(q) PROVE Owned(RemoveAt(q, k), d)
  <2>1. PICK t : t = RemoveAt(q, k)  OBVIOUS
  <2>2. Len(t) = n - 1 /\ \A j \in 1 .. n - 1 : t[j] = IF j < k THEN q[j] ELSE q[j + 1]
    BY <1>1, <2>1, RemoveAtElements
  <2>3. \A j \in 1 .. n - 1 : j \in 1 .. n /\ j + 1 \in 1 .. n  BY <1>1
  <2>4. Owned(t, d)  BY <1>1, <2>2, <2>3 DEF Owned
  <2> QED  BY <2>1, <2>4
<1>4. ASSUME q # <<>> PROVE Owned(Tail(q), d)
  <2>1. PICK t : t = Tail(q)  OBVIOUS
  <2>2. Len(t) = n - 1 /\ \A j \in 1 .. n - 1 : t[j] = q[j + 1]
    BY <1>1, <1>4, <2>1, TailElements
  <2>3. \A j \in 1 .. n - 1 : j + 1 \in 1 .. n  BY <1>1
  <2>4. Owned(t, d)  BY <1>1, <2>2, <2>3 DEF Owned
  <2> QED  BY <2>1, <2>4
<1> QED  BY <1>2, <1>3, <1>4

\* A single packet is another one than those of an empty buffer.
LEMMA InHead ==
    ASSUME NEW S, NEW q \in Seq(S), q # <<>>, NEW d
    PROVE  /\ In(q, d, PacketId(Head(q), d))
           /\ Owned(q, d) /\ Head(q).type = "req" => Owner[Head(q).line] = d
<1>1. 1 \in 1 .. Len(q) /\ Head(q) = q[1]  BY TailElements
<1> QED  BY <1>1 DEF In, Owned

\* The responses of an entry join the queue, or leave it, all or the first of them.
LEMMA InAnswersAppend ==
    ASSUME NEW S, NEW q \in Seq(S), NEW e \in S, DistinctAnswers(q),
           \A i, j \in 1 .. Len(e.reqs) : e.reqs[i] = e.reqs[j] => i = j,
           \A i \in 1 .. Len(e.reqs) : ~ InAnswers(q, e.reqs[i])
    PROVE  /\ DistinctAnswers(Append(q, e))
           /\ \A id : InAnswers(Append(q, e), id) <=> InAnswers(q, id) \/ InReqs(e.reqs, id)
<1>1. PICK n \in Nat : n = Len(q)  OBVIOUS
<1>2. PICK t : t = Append(q, e)  OBVIOUS
<1>3. /\ Len(t) = n + 1 /\ t[n + 1] = e /\ \A i \in 1 .. n : t[i] = q[i]
  BY <1>1, <1>2, AppendElements
<1>4. \A i \in 1 .. n + 1 : i \in 1 .. n \/ i = n + 1  BY <1>1
<1>5. n + 1 \in 1 .. n + 1 /\ \A i \in 1 .. n : i \in 1 .. n + 1  BY <1>1
<1>6. \A i \in 1 .. Len(e.reqs) : \A k \in 1 .. n : \A j \in 1 .. Len(q[k].reqs) :
          e.reqs[i] # q[k].reqs[j]
  BY <1>1 DEF InAnswers, InReqs
<1>7. DistinctAnswers(t)
  <2> SUFFICES ASSUME NEW k \in 1 .. n + 1, NEW l \in 1 .. n + 1,
                      NEW i \in 1 .. Len(t[k].reqs), NEW j \in 1 .. Len(t[l].reqs),
                      t[k].reqs[i] = t[l].reqs[j]
               PROVE  k = l /\ i = j
    BY <1>3 DEF DistinctAnswers
  <2>1. CASE k = n + 1
    <3>1. l = n + 1  BY <1>3, <1>4, <1>6, <2>1
    <3> QED  BY <1>3, <2>1, <3>1
  <2>2. CASE k \in 1 .. n
    <3>1. t[k] = q[k] /\ i \in 1 .. Len(q[k].reqs)  BY <1>3, <2>2
    <3>2. l # n + 1
      <4> SUFFICES ASSUME l = n + 1 PROVE FALSE  OBVIOUS
      <4>1. j \in 1 .. Len(e.reqs) /\ e.reqs[j] = q[k].reqs[i]  BY <1>3, <3>1
      <4> QED  BY <1>6, <2>2, <3>1, <4>1
    <3>3. l \in 1 .. n  BY <1>4, <3>2
    <3>4. t[l] = q[l] /\ j \in 1 .. Len(q[l].reqs)  BY <1>3, <3>3
    <3> QED  BY <1>1, <2>2, <3>1, <3>3, <3>4 DEF DistinctAnswers
  <2> QED  BY <1>4, <2>1, <2>2
<1>8. ASSUME NEW id PROVE InAnswers(t, id) <=> InAnswers(q, id) \/ InReqs(e.reqs, id)
  <2>1. InAnswers(t, id) => InAnswers(q, id) \/ InReqs(e.reqs, id)
    BY <1>1, <1>3, <1>4 DEF InAnswers
  <2>2. InAnswers(q, id) => InAnswers(t, id)
    BY <1>1, <1>3, <1>5 DEF InAnswers
  <2>3. InReqs(e.reqs, id) => InAnswers(t, id)
    BY <1>3, <1>5 DEF InAnswers
  <2> QED  BY <2>1, <2>2, <2>3
<1> QED  BY <1>2, <1>7, <1>8

LEMMA InAnswersTail ==
    ASSUME NEW S, NEW q \in Seq(S), q # <<>>, DistinctAnswers(q)
    PROVE  /\ DistinctAnswers(Tail(q))
           /\ \A i \in 1 .. Len(Head(q).reqs) : InAnswers(q, Head(q).reqs[i])
           /\ \A i, j \in 1 .. Len(Head(q).reqs) : Head(q).reqs[i] = Head(q).reqs[j] => i = j
           /\ \A id : InAnswers(Tail(q), id) => InAnswers(q, id) /\ ~ InReqs(Head(q).reqs, id)
<1>1. PICK n \in Nat \ {0} : n = Len(q)  BY TailElements
<1>2. PICK t : t = Tail(q)  OBVIOUS
<1>3. Len(t) = n - 1 /\ Head(q) = q[1] /\ \A j \in 1 .. n - 1 : t[j] = q[j + 1]
  BY <1>1, <1>2, TailElements
<1>4. /\ \A j \in 1 .. n - 1 : j + 1 \in 1 .. n /\ j + 1 # 1
      /\ \A i, j \in 1 .. n - 1 : i + 1 = j + 1 => i = j
      /\ 1 \in 1 .. n
  BY <1>1
<1>5. DistinctAnswers(t)
  <2> SUFFICES ASSUME NEW k \in 1 .. n - 1, NEW l \in 1 .. n - 1,
                      NEW i \in 1 .. Len(t[k].reqs), NEW j \in 1 .. Len(t[l].reqs),
                      t[k].reqs[i] = t[l].reqs[j]
               PROVE  k = l /\ i = j
    BY <1>3 DEF DistinctAnswers
  <2>0. PICK a, b : a = k + 1 /\ b = l + 1  OBVIOUS
  <2>1. a \in 1 .. Len(q) /\ b \in 1 .. Len(q) /\ t[k] = q[a] /\ t[l] = q[b]
    BY <1>1, <1>3, <1>4, <2>0
  <2>2. /\ i \in 1 .. Len(q[a].reqs) /\ j \in 1 .. Len(q[b].reqs)
        /\ q[a].reqs[i] = q[b].reqs[j]
    BY <2>1
  <2>3. a = b /\ i = j  BY <2>1, <2>2 DEF DistinctAnswers
  <2> QED  BY <1>4, <2>0, <2>3
<1>6. \A i \in 1 .. Len(q[1].reqs) : InAnswers(q, q[1].reqs[i])
  BY <1>1, <1>4 DEF InAnswers, InReqs
<1>7. \A i, j \in 1 .. Len(q[1].reqs) : q[1].reqs[i] = q[1].reqs[j] => i = j
  BY <1>1, <1>4 DEF DistinctAnswers
<1>8. ASSUME NEW id, InAnswers(t, id) PROVE InAnswers(q, id) /\ ~ InReqs(q[1].reqs, id)
  <2>1. PICK k \in 1 .. n - 1 : InReqs(t[k].reqs, id)  BY <1>3, <1>8 DEF InAnswers
  <2>2. PICK i \in 1 .. Len(q[k + 1].reqs) : q[k + 1].reqs[i] = id
    BY <1>3, <2>1 DEF InReqs
  <2>3. InAnswers(q, id)  BY <1>1, <1>4, <2>2 DEF InAnswers, InReqs
  <2>4. ~ InReqs(q[1].reqs, id)
    BY <1>1, <1>4, <2>2 DEF InReqs, DistinctAnswers
  <2> QED  BY <2>3, <2>4
<1> QED  BY <1>2, <1>3, <1>5, <1>6, <1>7, <1>8

LEMMA InAnswersFirst ==
    ASSUME NEW S, NEW q \in Seq(S), q # <<>>, DistinctAnswers(q), NEW f \in S,
           NEW R, Head(q).reqs \in Seq(R), Head(q).reqs # <<>>, f.reqs = Tail(Head(q).reqs)
    PROVE  /\ DistinctAnswers(<<f>> \o Tail(q))
           /\ InAnswers(q, Head(Head(q).reqs))
           /\ \A id : InAnswers(<<f>> \o Tail(q), id) =>
                          InAnswers(q, id) /\ id # Head(Head(q).reqs)
<1>1. PICK n \in Nat \ {0} : n = Len(q)  BY TailElements
<1>2. PICK t, r : t = <<f>> \o Tail(q) /\ r = Head(q).reqs  OBVIOUS
<1>3. Len(Tail(q)) = n - 1 /\ Head(q) = q[1] /\ \A j \in 1 .. n - 1 : Tail(q)[j] = q[j + 1]
  BY <1>1, TailElements
<1>4. /\ Len(t) = n /\ t[1] = f
      /\ \A k \in 1 .. n : k # 1 => t[k] = q[k]
  <2>1. <<f>> \in Seq(S) /\ Len(<<f>>) = 1 /\ <<f>>[1] = f /\ 1 \in 1 .. 1  OBVIOUS
  <2>2. Tail(q) \in Seq(S)  BY TailElements
  <2>3. /\ Len(t) = 1 + Len(Tail(q)) /\ t[1] = f
        /\ \A k \in 1 .. Len(Tail(q)) : t[1 + k] = Tail(q)[k]
    BY <1>2, <2>1, <2>2, ConcatElements
  <2>4. ASSUME NEW k \in 1 .. n, k # 1 PROVE t[k] = q[k]
    <3>1. PICK j : j = k - 1  OBVIOUS
    <3>2. j \in 1 .. n - 1 /\ 1 + j = k /\ j + 1 = k  BY <1>1, <2>4, <3>1
    <3> QED  BY <1>3, <2>3, <3>2
  <2> QED  BY <1>1, <1>3, <2>3, <2>4
<1>5. PICK m \in Nat \ {0} : m = Len(r)  BY <1>2, TailElements
<1>6. Len(f.reqs) = m - 1 /\ Head(r) = r[1] /\ \A j \in 1 .. m - 1 : f.reqs[j] = r[j + 1]
  BY <1>2, <1>5, TailElements
<1> DEFINE o(k, i) == IF k = 1 THEN i + 1 ELSE i
<1>7. ASSUME NEW k \in 1 .. n, NEW i \in 1 .. Len(t[k].reqs)
      PROVE  /\ o(k, i) \in 1 .. Len(q[k].reqs) /\ t[k].reqs[i] = q[k].reqs[o(k, i)]
             /\ k = 1 => o(k, i) # 1
             /\ i \in Int
  <2>1. CASE k = 1
    <3>1. q[k].reqs = r /\ t[k].reqs = f.reqs  BY <1>2, <1>3, <1>4, <2>1
    <3>2. i \in 1 .. m - 1 /\ i + 1 \in 1 .. m /\ i + 1 # 1  BY <1>5, <1>6, <1>7, <3>1
    <3> QED  BY <1>5, <1>6, <2>1, <3>1, <3>2
  <2>2. CASE k # 1
    <3>1. t[k] = q[k]  BY <1>4, <2>2
    <3> QED  BY <2>2, <3>1
  <2> QED  BY <2>1, <2>2
<1>8. DistinctAnswers(t)
  <2> SUFFICES ASSUME NEW k \in 1 .. n, NEW l \in 1 .. n,
                      NEW i \in 1 .. Len(t[k].reqs), NEW j \in 1 .. Len(t[l].reqs),
                      t[k].reqs[i] = t[l].reqs[j]
               PROVE  k = l /\ i = j
    BY <1>4 DEF DistinctAnswers
  <2>1. PICK a, b : a = o(k, i) /\ b = o(l, j)  OBVIOUS
  <2>2. /\ a \in 1 .. Len(q[k].reqs) /\ b \in 1 .. Len(q[l].reqs)
        /\ q[k].reqs[a] = q[l].reqs[b]
    BY <1>7, <2>1
  <2>3. k = l /\ a = b  BY <1>1, <2>2 DEF DistinctAnswers
  <2>4. i \in Int /\ j \in Int  BY <1>7
  <2> QED  BY <2>1, <2>3, <2>4
<1>9. 1 \in 1 .. n /\ 1 \in 1 .. m  BY <1>1, <1>5
<1>10. InAnswers(q, r[1])  BY <1>1, <1>2, <1>3, <1>5, <1>9 DEF InAnswers, InReqs
<1>11. ASSUME NEW id, InAnswers(t, id) PROVE InAnswers(q, id) /\ id # r[1]
  <2>1. PICK k \in 1 .. n : \E i \in 1 .. Len(t[k].reqs) : t[k].reqs[i] = id
    BY <1>4, <1>11 DEF InAnswers, InReqs
  <2>2. PICK i \in 1 .. Len(t[k].reqs) : t[k].reqs[i] = id  BY <2>1
  <2>3. PICK a : a = o(k, i)  OBVIOUS
  <2>4. a \in 1 .. Len(q[k].reqs) /\ q[k].reqs[a] = id /\ (k = 1 => a # 1)
    BY <1>7, <2>2, <2>3
  <2>5. InAnswers(q, id)  BY <1>1, <2>4 DEF InAnswers, InReqs
  <2>6. id # r[1]
    <3> SUFFICES ASSUME id = r[1] PROVE FALSE  OBVIOUS
    <3>1. q[1].reqs = r  BY <1>2, <1>3
    <3>2. k = 1 /\ a = 1
      BY <1>1, <1>5, <1>9, <2>4, <3>1 DEF DistinctAnswers
    <3> QED  BY <2>4, <3>2
  <2> QED  BY <2>5, <2>6
<1> QED  BY <1>2, <1>6, <1>8, <1>10, <1>11

-------------------------------------------------------------------------------
\* What is the same for all the operations that move a request.

\* Requests move from p to the places that f gives, and what is waited for still is.
LEMMA MoveStep ==
    ASSUME PlacedOK, NEW I \in SUBSET ReqId, NEW p \in Place, NEW f,
           \A id \in I : Here(p, id),
           \A id \in ReqId : \A q \in Place : Here(q, id)' =>
               \/ Here(q, id) /\ ~ (q = p /\ id \in I)
               \/ id \in I /\ q = f[id],
           \A id \in ReqId : Outstanding(id) => Outstanding(id)'
    PROVE  PlacedOK'
<1> SUFFICES ASSUME NEW id \in ReqId
             PROVE  /\ \A q, r \in Place : Here(q, id)' /\ Here(r, id)' => q = r
                    /\ \A q \in Place : Here(q, id)' => Outstanding(id)'
  BY DEF PlacedOK
<1>1. /\ \A q, r \in Place : Here(q, id) /\ Here(r, id) => q = r
      /\ \A q \in Place : Here(q, id) => Outstanding(id)
  BY DEF PlacedOK
<1>2. CASE id \in I
  <2>1. \A q \in Place : Here(q, id)' => q = f[id]  BY <1>1, <1>2
  <2>2. Outstanding(id)  BY <1>1, <1>2
  <2> QED  BY <2>1, <2>2
<1>3. CASE id \notin I
  <2>1. \A q \in Place : Here(q, id)' => Here(q, id)  BY <1>3
  <2> QED  BY <1>1, <2>1
<1> QED  BY <1>2, <1>3

\* A single request moves.
LEMMA MoveOne ==
    ASSUME PlacedOK, NEW k \in ReqId, NEW p \in Place, NEW q \in Place, Here(p, k),
           \A id \in ReqId : \A r \in Place : Here(r, id)' =>
               (Here(r, id) /\ ~ (r = p /\ id = k)) \/ (id = k /\ r = q),
           \A id \in ReqId : Outstanding(id) => Outstanding(id)'
    PROVE  PlacedOK'
<1> SUFFICES ASSUME NEW id \in ReqId
             PROVE  /\ \A r, t \in Place : Here(r, id)' /\ Here(t, id)' => r = t
                    /\ \A r \in Place : Here(r, id)' => Outstanding(id)'
  BY DEF PlacedOK
<1>1. /\ \A r, t \in Place : Here(r, id) /\ Here(t, id) => r = t
      /\ \A r \in Place : Here(r, id) => Outstanding(id)
  BY DEF PlacedOK
<1>2. CASE id = k
  <2>1. \A r \in Place : Here(r, id)' => r = q  BY <1>1, <1>2
  <2>2. Outstanding(id)  BY <1>1, <1>2
  <2> QED  BY <2>1, <2>2
<1>3. CASE id # k  BY <1>1, <1>3
<1> QED  BY <1>2, <1>3

\* No request moves.
LEMMA KeepStep ==
    ASSUME PlacedOK,
           \A id \in ReqId : \A q \in Place : Here(q, id)' => Here(q, id),
           \A id \in ReqId : Outstanding(id) => Outstanding(id)'
    PROVE  PlacedOK'
BY DEF PlacedOK

\* A request is sent, which nobody waited for before.
LEMMA AddStep ==
    ASSUME PlacedOK, NEW k \in ReqId, NEW p \in Place, ~ Outstanding(k), Outstanding(k)',
           \A id \in ReqId : \A q \in Place : Here(q, id)' => Here(q, id) \/ (id = k /\ q = p),
           \A id \in ReqId : Outstanding(id) => Outstanding(id)'
    PROVE  PlacedOK'
<1> SUFFICES ASSUME NEW id \in ReqId
             PROVE  /\ \A q, r \in Place : Here(q, id)' /\ Here(r, id)' => q = r
                    /\ \A q \in Place : Here(q, id)' => Outstanding(id)'
  BY DEF PlacedOK
<1>1. /\ \A q, r \in Place : Here(q, id) /\ Here(r, id) => q = r
      /\ \A q \in Place : Here(q, id) => Outstanding(id)
  BY DEF PlacedOK
<1>2. CASE id = k
  <2>1. \A q \in Place : Here(q, id)' => q = p  BY <1>1, <1>2
  <2> QED  BY <1>2, <2>1
<1>3. CASE id # k
  <2>1. \A q \in Place : Here(q, id)' => Here(q, id)  BY <1>3
  <2> QED  BY <1>1, <2>1
<1> QED  BY <1>2, <1>3

\* A response is taken, and the request is no longer waited for.
LEMMA RemoveStep ==
    ASSUME PlacedOK, NEW k \in ReqId, NEW p \in Place, Here(p, k),
           \A id \in ReqId : \A q \in Place : Here(q, id)' => Here(q, id) /\ ~ (id = k /\ q = p),
           \A id \in ReqId : id # k /\ Outstanding(id) => Outstanding(id)'
    PROVE  PlacedOK'
<1> SUFFICES ASSUME NEW id \in ReqId
             PROVE  /\ \A q, r \in Place : Here(q, id)' /\ Here(r, id)' => q = r
                    /\ \A q \in Place : Here(q, id)' => Outstanding(id)'
  BY DEF PlacedOK
<1>1. /\ \A q, r \in Place : Here(q, id) /\ Here(r, id) => q = r
      /\ \A q \in Place : Here(q, id) => Outstanding(id)
  BY DEF PlacedOK
<1>2. CASE id = k
  <2>1. \A q \in Place : ~ Here(q, id)'  BY <1>1, <1>2
  <2> QED  BY <2>1
<1>3. CASE id # k  BY <1>1, <1>3
<1> QED  BY <1>2, <1>3

-------------------------------------------------------------------------------
\* Facts that several actions need.
LEMMA PacketIdType ==
    ASSUME NEW d \in Gpm, NEW m \in Msg
    PROVE  /\ PacketId(m, d) \in ReqId
           /\ m \in ReqMsg => m.type = "req" /\ PacketId(m, d) = Id(m) /\ m.line \in Line
           /\ m \in RspMsg => m.type = "rsp" /\ PacketId(m, d) = <<d, m.seq>>
<1>1. m \in ReqMsg => m.type = "req" /\ m.src \in Gpm /\ m.seq \in Nat /\ m.line \in Line
  BY DEF ReqMsg
<1>2. m \in RspMsg => m.type = "rsp" /\ m.seq \in Nat  BY DEF RspMsg
<1> QED  BY <1>1, <1>2 DEF PacketId, Msg, ReqId, Id

\* The buffers, and the requests of the entries.
LEMMA BufferTypes ==
    ASSUME Type, NEW d \in Gpm
    PROVE  /\ \A s \in Gpm : net[s][d] \in Seq(Msg)
           /\ toOutside[d] \in Seq(Msg)
           /\ l2Queue[d] \in Seq(ReqMsg) /\ l2Queue[d] \in Seq(Msg)
           /\ l2Rsp[d] \in Seq(L2Item)
           /\ ownerRspQueue[d] \in Seq(RspItem)
           /\ ownerTable[d] \in SUBSET OwnerItem /\ fromOutside[d] \in SUBSET ReqId
           /\ \A e \in ownerTable[d] : /\ e.id \in ReqId /\ e.line \in Line
                                       /\ e.reqs \in Seq(ReqId) /\ e.reqs # <<>>
                                       /\ 1 \in 1 .. Len(e.reqs)
<1>1. /\ \A s \in Gpm : net[s][d] \in Seq(Msg)
      /\ toOutside[d] \in Seq(Msg)
      /\ l2Queue[d] \in Seq(ReqMsg)
      /\ l2Rsp[d] \in Seq(L2Item)
      /\ ownerRspQueue[d] \in Seq(RspItem)
      /\ ownerTable[d] \in SUBSET OwnerItem /\ fromOutside[d] \in SUBSET ReqId
  BY DEF Type, NetType, L2Type, OwnerType
<1>2. l2Queue[d] \in Seq(Msg)  BY <1>1 DEF Msg
<1>3. \A e \in ownerTable[d] : e \in OwnerItem  BY <1>1
<1>4. \A e \in ownerTable[d] : /\ e.id \in ReqId /\ e.line \in Line
                               /\ e.reqs \in Seq(ReqId) /\ e.reqs # <<>>
  BY <1>3 DEF OwnerItem, Requesters
<1>5. \A e \in ownerTable[d] : 1 \in 1 .. Len(e.reqs)  BY <1>4, TailElements
<1> QED  BY <1>1, <1>2, <1>4, <1>5

\* A request that is in one place is not in another one.
LEMMA NowhereElse ==
    ASSUME Type, PlacedOK, NEW id \in ReqId, NEW p \in Place, Here(p, id), NEW d \in Gpm
    PROVE  /\ \A s \in Gpm : p # <<"net", s, d>> => ~ In(net[s][d], d, id)
           /\ p # <<"port", d, d>> => ~ In(toOutside[d], d, id)
           /\ p # <<"base", d, d>> => id \notin fromOutside[d]
           /\ p # <<"table", d, d>> =>
                  /\ \A e \in ownerTable[d] : ~ InReqs(e.reqs, id)
                  /\ TableOK(d) => \A e \in ownerTable[d] : e.id # id
           /\ p # <<"rsp", d, d>> => ~ InAnswers(ownerRspQueue[d], id)
<1>1. \A q \in Place : Here(q, id) => q = p  BY DEF PlacedOK
<1>2. \A s \in Gpm : p # <<"net", s, d>> => ~ In(net[s][d], d, id)
  <2> TAKE s \in Gpm
  <2>1. <<"net", s, d>> \in Place  BY DEF Place
  <2>2. In(net[s][d], d, id) => Here(<<"net", s, d>>, id)  BY DEF Here
  <2> QED  BY <1>1, <2>1, <2>2
<1>3. p # <<"port", d, d>> => ~ In(toOutside[d], d, id)
  <2>1. <<"port", d, d>> \in Place  BY DEF Place
  <2>2. In(toOutside[d], d, id) => Here(<<"port", d, d>>, id)  BY DEF Here
  <2> QED  BY <1>1, <2>1, <2>2
<1>4. p # <<"base", d, d>> => id \notin fromOutside[d]
  <2>1. <<"base", d, d>> \in Place  BY DEF Place
  <2>2. id \in fromOutside[d] => Here(<<"base", d, d>>, id)  BY DEF Here
  <2> QED  BY <1>1, <2>1, <2>2
<1>5. p # <<"table", d, d>> => \A e \in ownerTable[d] : ~ InReqs(e.reqs, id)
  <2>1. <<"table", d, d>> \in Place  BY DEF Place
  <2>2. \A e \in ownerTable[d] : InReqs(e.reqs, id) => Here(<<"table", d, d>>, id)  BY DEF Here
  <2> QED  BY <1>1, <2>1, <2>2
<1>6. TableOK(d) => \A e \in ownerTable[d] : InReqs(e.reqs, e.id)
  BY BufferTypes DEF TableOK, InReqs
<1>7. p # <<"rsp", d, d>> => ~ InAnswers(ownerRspQueue[d], id)
  <2>1. <<"rsp", d, d>> \in Place  BY DEF Place
  <2>2. InAnswers(ownerRspQueue[d], id) => Here(<<"rsp", d, d>>, id)  BY DEF Here
  <2> QED  BY <1>1, <2>1, <2>2
<1> QED  BY <1>2, <1>3, <1>4, <1>5, <1>6, <1>7

\* An owner that nothing happens to.
LEMMA OwnerFrame ==
    ASSUME NEW d \in Gpm, TableOK(d), L2OK(d), ReadOK(d),
           ownerTable'[d] = ownerTable[d], l2Queue'[d] = l2Queue[d], l2Rsp'[d] = l2Rsp[d],
           fromOutside'[d] = fromOutside[d],
           \A e \in ownerTable[d] : hist'[e.line] = hist[e.line]
    PROVE  TableOK(d)' /\ L2OK(d)' /\ ReadOK(d)'
<1>1. TableOK(d)'  BY DEF TableOK
<1>2. L2OK(d)'  BY DEF L2OK
<1>3. ReadOK(d)'  BY DEF ReadOK
<1> QED  BY <1>1, <1>2, <1>3

LEMMA OwnersFrame ==
    ASSUME WayInv, UNCHANGED <<ownerTable, l2Queue, l2Rsp, fromOutside, hist>>
    PROVE  \A d \in Gpm : TableOK(d)' /\ L2OK(d)' /\ ReadOK(d)'
BY OwnerFrame DEF WayInv

\* The network hands a packet to the port of its destination.
LEMMA ArriveWay ==
    ASSUME Type, WayInv, NEW s \in Gpm, NEW d \in Gpm, Arrive(s, d),
           UNCHANGED <<l1Vars, fromInside, fromOutside, l2Vars, reqVars, ownerVars>>
    PROVE  WayInv'
<1>0. /\ UNCHANGED <<fromInside, entries, fromOutside, ownerTable, ownerRspQueue>>
      /\ UNCHANGED <<l2Queue, l2Rsp, hist, setup, reqs>>
  BY DEF l1Vars, l2Vars, reqVars, ownerVars, reqs
<1>1. /\ net \in [Gpm -> [Gpm -> Seq(Msg)]] /\ toOutside \in [Gpm -> Seq(Msg)]
      /\ net[s][d] \in Seq(Msg) /\ toOutside[d] \in Seq(Msg)
  BY DEF Type, NetType
<1>2. PICK i \in 1 .. Len(net[s][d]) :
          /\ toOutside' = [toOutside EXCEPT ![d] = Append(toOutside[d], net[s][d][i])]
          /\ net' = [net EXCEPT ![s][d] = RemoveAt(net[s][d], i)]
  <2>1. DOMAIN net[s][d] = 1 .. Len(net[s][d])  BY <1>1, SeqType
  <2> QED  BY <2>1, Zenon DEF Arrive
<1>3. PICK m, k : m = net[s][d][i] /\ k = PacketId(m, d)  OBVIOUS
<1>4. m \in Msg /\ k \in ReqId  BY <1>1, <1>2, <1>3, SeqType, PacketIdType
<1>5. /\ PlacedOK /\ SingleOK /\ OwnedOK
      /\ Distinct(net[s][d], d) /\ Distinct(toOutside[d], d)
      /\ Owned(net[s][d], d) /\ Owned(toOutside[d], d)
      /\ m.type = "req" => Owner[m.line] = d
  BY <1>2, <1>3 DEF WayInv, SingleOK, OwnedOK, Owned
<1>6. PICK p, q : p = <<"net", s, d>> /\ q = <<"port", d, d>>  OBVIOUS
<1>7. p \in Place /\ q \in Place /\ p # q /\ Here(p, k)
  <2>1. p \in Place /\ q \in Place /\ p # q  BY <1>6 DEF Place
  <2>2. In(net[s][d], d, k)  BY <1>2, <1>3 DEF In
  <2> QED  BY <1>6, <2>1, <2>2 DEF Here
<1>8. ~ In(toOutside[d], d, k)  BY <1>4, <1>5, <1>6, <1>7, NowhereElse
<1>9. /\ toOutside'[d] = Append(toOutside[d], m) /\ net'[s][d] = RemoveAt(net[s][d], i)
      /\ \A g \in Gpm : g # d => toOutside'[g] = toOutside[g]
      /\ \A g, h \in Gpm : <<g, h>> # <<s, d>> => net'[g][h] = net[g][h]
  BY <1>1, <1>2, <1>3
<1>10. /\ Distinct(toOutside'[d], d)
       /\ \A id : In(toOutside'[d], d, id) <=> In(toOutside[d], d, id) \/ id = k
  BY <1>1, <1>3, <1>4, <1>5, <1>8, <1>9, InAppend
<1>11. /\ Distinct(net'[s][d], d)
       /\ \A id : In(net'[s][d], d, id) <=> In(net[s][d], d, id) /\ id # k
  BY <1>1, <1>2, <1>3, <1>5, <1>9, InRemoveAt
<1>12. ASSUME NEW id \in ReqId, NEW r \in Place, Here(r, id)'
       PROVE  (Here(r, id) /\ ~ (r = p /\ id = k)) \/ (id = k /\ r = q)
  <2>0. r = <<r[1], r[2], r[3]>> /\ r[2] \in Gpm /\ r[3] \in Gpm  BY DEF Place
  <2>1. CASE r[1] = "net"
    <3>1. In(net'[r[2]][r[3]], r[3], id)  BY <1>12, <2>1 DEF Here
    <3>2. In(net[r[2]][r[3]], r[3], id) /\ ~ (r = p /\ id = k)
      BY <1>6, <1>9, <1>11, <2>0, <3>1
    <3> QED  BY <2>1, <3>2 DEF Here
  <2>2. CASE r[1] = "port"
    <3>1. r[2] = r[3] /\ In(toOutside'[r[2]], r[2], id)  BY <1>12, <2>2 DEF Here
    <3>2. In(toOutside[r[2]], r[2], id) \/ (id = k /\ r = q)
      BY <1>6, <1>9, <1>10, <2>0, <2>2, <3>1
    <3> QED  BY <1>6, <2>2, <3>1, <3>2 DEF Here
  <2>3. CASE r[1] \notin {"net", "port"}  BY <1>0, <1>6, <1>12, <2>3 DEF Here
  <2> QED  BY <2>1, <2>2, <2>3
<1>13. \A id \in ReqId : Outstanding(id) => Outstanding(id)'  BY <1>0 DEF Outstanding
<1>14. PlacedOK'  BY <1>4, <1>5, <1>7, <1>12, <1>13, MoveOne
<1>15. SingleOK'  BY <1>0, <1>5, <1>9, <1>10, <1>11 DEF SingleOK
<1>16. OwnedOK'
  <2>1. Owned(toOutside'[d], d) /\ Owned(net'[s][d], d)
    BY <1>1, <1>2, <1>4, <1>5, <1>9, OwnedKept
  <2>2. \A g \in Gpm : ToOwner(g)'  BY <1>0, <1>5 DEF OwnedOK, ToOwner
  <2>3. \A g, h \in Gpm : Owned(net'[g][h], h)
    <3> SUFFICES ASSUME NEW g \in Gpm, NEW h \in Gpm PROVE Owned(net'[g][h], h)  OBVIOUS
    <3>1. CASE <<g, h>> = <<s, d>>  BY <2>1, <3>1
    <3>2. CASE <<g, h>> # <<s, d>>
      <4>1. net'[g][h] = net[g][h]  BY <1>9, <3>2
      <4> QED  BY <1>5, <4>1 DEF OwnedOK
    <3> QED  BY <3>1, <3>2
  <2>4. \A g \in Gpm : Owned(toOutside'[g], g)
    <3> SUFFICES ASSUME NEW g \in Gpm, g # d PROVE Owned(toOutside'[g], g)  BY <2>1
    <3>1. toOutside'[g] = toOutside[g]  BY <1>9
    <3> QED  BY <1>5, <3>1 DEF OwnedOK
  <2>5. \A g \in Gpm : /\ Owned(l2Queue'[g], g)
                       /\ \A e \in ownerTable'[g] : Owner[e.line] = g
    BY <1>0, <1>5 DEF OwnedOK
  <2> QED  BY <2>2, <2>3, <2>4, <2>5, Zenon DEF OwnedOK
<1>17. \A g \in Gpm : TableOK(g)' /\ L2OK(g)' /\ ReadOK(g)'  BY <1>0, OwnersFrame
<1> QED  BY <1>14, <1>15, <1>16, <1>17 DEF WayInv

-------------------------------------------------------------------------------
\* A packet is sent: what is in the links then.
LEMMA SendWay ==
    ASSUME Type, WayInv, NEW g \in Gpm, NEW d \in Gpm, NEW m \in Msg, Send(g, d, m),
           NEW k, k = PacketId(m, d), ~ In(net[g][d], d, k),
           m.type = "req" => Owner[m.line] = d
    PROVE  /\ \A s, h \in Gpm : Distinct(net'[s][h], h) /\ Owned(net'[s][h], h)
           /\ \A id : \A r \in Place : r[1] = "net" /\ Here(r, id)' =>
                  Here(r, id) \/ (id = k /\ r = <<"net", g, d>>)
<1>1. /\ net \in [Gpm -> [Gpm -> Seq(Msg)]] /\ net[g][d] \in Seq(Msg)
      /\ net' = [net EXCEPT ![g][d] = Append(net[g][d], m)]
  BY DEF Type, NetType, Send
<1>2. /\ net'[g][d] = Append(net[g][d], m)
      /\ \A s, h \in Gpm : <<s, h>> # <<g, d>> => net'[s][h] = net[s][h]
  BY <1>1
<1>3. \A s, h \in Gpm : Distinct(net[s][h], h) /\ Owned(net[s][h], h)
  BY DEF WayInv, SingleOK, OwnedOK
<1>4. /\ Distinct(net'[g][d], d)
      /\ \A id : In(net'[g][d], d, id) <=> In(net[g][d], d, id) \/ id = k
  BY <1>1, <1>2, <1>3, InAppend
<1>5. Owned(net'[g][d], d)  BY <1>1, <1>2, <1>3, OwnedKept
<1>6. \A s, h \in Gpm : Distinct(net'[s][h], h) /\ Owned(net'[s][h], h)
  BY <1>2, <1>3, <1>4, <1>5
<1>7. ASSUME NEW id, NEW r \in Place, r[1] = "net", Here(r, id)'
      PROVE  Here(r, id) \/ (id = k /\ r = <<"net", g, d>>)
  <2>1. r = <<r[1], r[2], r[3]>> /\ r[2] \in Gpm /\ r[3] \in Gpm  BY DEF Place
  <2>2. In(net'[r[2]][r[3]], r[3], id)  BY <1>7 DEF Here
  <2>3. In(net[r[2]][r[3]], r[3], id) \/ (id = k /\ r = <<"net", g, d>>)
    BY <1>2, <1>4, <1>7, <2>1, <2>2
  <2> QED  BY <1>7, <2>3 DEF Here
<1> QED  BY <1>6, <1>7

\* A packet is taken from a port: what is in the ports then.
LEMMA RetrieveWay ==
    ASSUME Type, WayInv, NEW g \in Gpm, toOutside[g] # <<>>, Retrieve(g),
           NEW k, k = PacketId(Head(toOutside[g]), g)
    PROVE  /\ k \in ReqId /\ <<"port", g, g>> \in Place /\ Here(<<"port", g, g>>, k)
           /\ Head(toOutside[g]).type = "req" => Owner[Head(toOutside[g]).line] = g
           /\ \A h \in Gpm : Distinct(toOutside'[h], h) /\ Owned(toOutside'[h], h)
           /\ \A id : \A r \in Place : r[1] = "port" /\ Here(r, id)' =>
                  Here(r, id) /\ ~ (id = k /\ r = <<"port", g, g>>)
<1>1. /\ toOutside \in [Gpm -> Seq(Msg)] /\ toOutside[g] \in Seq(Msg)
      /\ toOutside' = [toOutside EXCEPT ![g] = Tail(toOutside[g])]
  BY DEF Type, NetType, Retrieve
<1>2. /\ toOutside'[g] = Tail(toOutside[g])
      /\ \A h \in Gpm : h # g => toOutside'[h] = toOutside[h]
  BY <1>1
<1>3. \A h \in Gpm : Distinct(toOutside[h], h) /\ Owned(toOutside[h], h)
  BY DEF WayInv, SingleOK, OwnedOK
<1>4. /\ Distinct(toOutside'[g], g)
      /\ \A id : In(toOutside'[g], g, id) <=> In(toOutside[g], g, id) /\ id # k
      /\ In(toOutside[g], g, k)
  BY <1>1, <1>2, <1>3, InTail
<1>5. Owned(toOutside'[g], g)  BY <1>1, <1>2, <1>3, OwnedKept
<1>6. Head(toOutside[g]).type = "req" => Owner[Head(toOutside[g]).line] = g
  BY <1>1, <1>3, InHead
<1>7. k \in ReqId
  <2>1. Head(toOutside[g]) \in Msg  BY <1>1, TailElements
  <2> QED  BY <2>1, PacketIdType
<1>8. <<"port", g, g>> \in Place /\ Here(<<"port", g, g>>, k)
  BY <1>4 DEF Place, Here
<1>9. ASSUME NEW id, NEW r \in Place, r[1] = "port", Here(r, id)'
      PROVE  Here(r, id) /\ ~ (id = k /\ r = <<"port", g, g>>)
  <2>1. r = <<r[1], r[2], r[3]>> /\ r[2] \in Gpm /\ r[3] \in Gpm  BY DEF Place
  <2>2. r[2] = r[3] /\ In(toOutside'[r[2]], r[2], id)  BY <1>9 DEF Here
  <2>3. In(toOutside[r[2]], r[2], id) /\ ~ (id = k /\ r = <<"port", g, g>>)
    BY <1>2, <1>4, <1>9, <2>1, <2>2
  <2> QED  BY <1>9, <2>2, <2>3 DEF Here
<1>10. \A h \in Gpm : Distinct(toOutside'[h], h) /\ Owned(toOutside'[h], h)
  BY <1>2, <1>3, <1>4, <1>5
<1> QED  BY <1>6, <1>7, <1>8, <1>9, <1>10

-------------------------------------------------------------------------------
\* The requester.  A step that sends and receives nothing.
LEMMA RequesterWay ==
    ASSUME WayInv, UNCHANGED <<netVars, fromOutside, l2Vars, ownerVars, setup>>,
           \A id \in ReqId : Outstanding(id) => Outstanding(id)',
           \A g \in Gpm : ToOwner(g)'
    PROVE  WayInv'
<1>1. /\ UNCHANGED <<net, toOutside, fromOutside, l2Queue, l2Rsp, hist>>
      /\ UNCHANGED <<ownerTable, ownerRspQueue>>
  BY DEF netVars, l2Vars, ownerVars
<1>2. \A id \in ReqId : \A r \in Place : Here(r, id)' => Here(r, id)  BY <1>1 DEF Here
<1>3. PlacedOK'  BY <1>2, KeepStep DEF WayInv
<1>4. SingleOK'  BY <1>1 DEF WayInv, SingleOK
<1>5. OwnedOK'  BY <1>1 DEF WayInv, OwnedOK
<1>6. \A g \in Gpm : TableOK(g)' /\ L2OK(g)' /\ ReadOK(g)'  BY <1>1, OwnersFrame
<1> QED  BY <1>3, <1>4, <1>5, <1>6 DEF WayInv

LEMMA MergeWay ==
    ASSUME Type, WayInv, NEW g \in Gpm, Merge(g),
           UNCHANGED <<netVars, fromInside, fromOutside, l2Vars, ownerVars>>
    PROVE  WayInv'
<1>1. PICK e \in entries[g], w \in Seq(Nat) :
          entries' = [entries EXCEPT ![g] = (entries[g] \ {e}) \cup {[e EXCEPT !.waiters = w]}]
  <2>1. PICK e \in entries[g] :
            entries' = [entries EXCEPT ![g] = (entries[g] \ {e}) \cup
                            {[e EXCEPT !.waiters = Append(e.waiters, accepted[g] + 1)]}]
    BY DEF Merge, OpenEntry, Table
  <2>2. e.waiters \in Seq(Nat) /\ accepted[g] + 1 \in Nat
    <3>1. entries \in [Gpm -> SUBSET Entry] /\ accepted[g] \in Nat
      BY DEF Type, ReqType, L1Type
    <3>2. e \in Entry  BY <3>1
    <3> QED  BY <3>1, <3>2 DEF Entry
  <2>3. Append(e.waiters, accepted[g] + 1) \in Seq(Nat)  BY <2>2, AppendElements
  <2> QED  BY <2>1, <2>3
<1> DEFINE f == [e EXCEPT !.waiters = w]
<1>2. setup' = setup /\ reqs' = reqs  BY DEF Merge, Accept, reqs
<1>3. e \in Entry /\ entries \in [Gpm -> SUBSET Entry]  BY DEF Type, ReqType
<1>4. f.seq = e.seq /\ f.dst = e.dst /\ f.sent = e.sent  BY <1>3, EntryUpdate
<1> HIDE DEF f
<1>5. /\ entries'[g] = (entries[g] \ {e}) \cup {f}
      /\ \A h \in Gpm : h # g => entries'[h] = entries[h]
  BY <1>1, <1>3 DEF f
<1>6. \A id \in ReqId : Outstanding(id) => Outstanding(id)'
  BY <1>4, <1>5 DEF Outstanding, ReqId
<1>7. \A h \in Gpm : ToOwner(h)'
  BY <1>2, <1>4, <1>5 DEF WayInv, OwnedOK, ToOwner
<1> QED  BY <1>2, <1>6, <1>7, RequesterWay

LEMMA NewEntryWay ==
    ASSUME Type, RequesterInv, WayInv, NEW g \in Gpm, NEW t \in BOOLEAN, NewEntry(g, t),
           UNCHANGED <<netVars, fromInside, fromOutside, l2Vars, ownerVars>>
    PROVE  WayInv'
<1>1. PICK n, d : n = accepted[g] + 1 /\ d = Owner[Head1(g).line]  OBVIOUS
<1>2. setup' = setup /\ reqs' = reqs  BY DEF NewEntry, Accept, reqs
<1>3. entries \in [Gpm -> SUBSET Entry] /\ entries[g] \in SUBSET Entry  BY DEF Type, ReqType
<1>4. PICK closed, e :
          /\ entries' = [entries EXCEPT ![g] = closed \cup {e}]
          /\ \A x \in closed : \E y \in entries[g] : Same(x, y)
          /\ \A y \in entries[g] : \E x \in closed : Same(x, y)
          /\ e.seq = n /\ e.dst = d
  <2> DEFINE r == Head1(g)
             e == [seq |-> n, line |-> r.line, dst |-> d,
                   open |-> t /\ ReqMerge /\ Mergeable(r),
                   inTable |-> t, sent |-> FALSE, waiters |-> <<n>>]
             closed == IF ReqMerge /\ r.op = "write" THEN CloseLines(entries[g], r.line)
                                                     ELSE entries[g]
  <2>1. entries' = [entries EXCEPT ![g] = closed \cup {e}]
    BY <1>1 DEF NewEntry
  <2>2. e.seq = n /\ e.dst = d  OBVIOUS
  <2>3. \A y, z \in entries[g] : y.seq = z.seq => y = z  BY DEF RequesterInv, ReqInv, SeqOK
  <2>4. /\ \A x \in closed : \E y \in entries[g] : Same(x, y)
        /\ \A y \in entries[g] : \E x \in closed : Same(x, y)
    <3>1. CASE ReqMerge /\ r.op = "write"
      <4>1. closed = CloseLines(entries[g], r.line)  BY <3>1
      <4> HIDE DEF closed, r
      <4> QED  BY <1>3, <2>3, <4>1, CloseKept
    <3>2. CASE ~ (ReqMerge /\ r.op = "write")
      <4>1. closed = entries[g]  BY <3>2
      <4> HIDE DEF closed, r
      <4> QED  BY <4>1 DEF Same
    <3> QED  BY <3>1, <3>2
  <2> HIDE DEF closed, e, r
  <2> QED  BY <2>1, <2>2, <2>4
<1>5. entries'[g] = closed \cup {e} /\ \A h \in Gpm : h # g => entries'[h] = entries[h]
  BY <1>3, <1>4
<1>6. \A id \in ReqId : Outstanding(id) => Outstanding(id)'
  <2> SUFFICES ASSUME NEW id \in ReqId, Outstanding(id) PROVE Outstanding(id)'  OBVIOUS
  <2>1. CASE id[1] = g
    <3>1. CASE id[2] \in fromInside[id[1]]  BY <3>1 DEF Outstanding
    <3>2. CASE \E y \in entries[g] : y.sent /\ y.seq = id[2]
      <4>1. PICK y \in entries[g] : y.sent /\ y.seq = id[2]  BY <3>2
      <4>2. PICK x \in closed : Same(x, y)  BY <1>4
      <4> QED  BY <1>5, <2>1, <4>1, <4>2 DEF Outstanding, Same
    <3> QED  BY <2>1, <3>1, <3>2 DEF Outstanding
  <2>2. CASE id[1] # g  BY <1>5, <2>2 DEF Outstanding, ReqId
  <2> QED  BY <2>1, <2>2
<1>7. \A h \in Gpm : ToOwner(h)'
  <2>1. HasInput(g)  BY DEF NewEntry
  <2>2. Head1(g) = reqs[g][n]  BY <1>1 DEF Head1
  <2>3. \A h \in Gpm : ToOwner(h)  BY DEF WayInv, OwnedOK
  <2>4. ToOwner(g)'
    <3> SUFFICES ASSUME NEW x \in entries'[g] PROVE x.dst = Owner[reqs[g][x.seq].line]
      BY <1>2 DEF ToOwner
    <3>1. CASE x = e  BY <1>1, <1>4, <2>2, <3>1
    <3>2. CASE x \in closed
      <4>1. PICK y \in entries[g] : Same(x, y)  BY <1>4, <3>2
      <4>2. y.dst = Owner[reqs[g][y.seq].line]  BY <2>3 DEF ToOwner
      <4> QED  BY <4>1, <4>2 DEF Same
    <3> QED  BY <1>5, <3>1, <3>2
  <2>5. \A h \in Gpm : h # g => ToOwner(h)'  BY <1>2, <1>5, <2>3 DEF ToOwner
  <2> QED  BY <2>4, <2>5
<1> QED  BY <1>2, <1>6, <1>7, RequesterWay

\* A request is sent to the owner of its line.
LEMMA RequestSentWay ==
    ASSUME Type, WayInv, NEW g \in Gpm, NEW d \in Gpm, NEW m \in ReqMsg, Send(g, d, m),
           Owner[m.line] = d, ~ Outstanding(Id(m)), Outstanding(Id(m))',
           \A id \in ReqId : Outstanding(id) => Outstanding(id)',
           \A h \in Gpm : ToOwner(h)',
           UNCHANGED <<toOutside, fromOutside, l2Vars, ownerVars, setup>>
    PROVE  WayInv'
<1>0. UNCHANGED <<toOutside, fromOutside, l2Queue, l2Rsp, hist, ownerTable, ownerRspQueue>>
  BY DEF l2Vars, ownerVars
<1>1. PICK k : k = Id(m)  OBVIOUS
<1>2. m \in Msg /\ k \in ReqId /\ k = PacketId(m, d)  BY <1>1, PacketIdType DEF Msg
<1>3. PlacedOK /\ ~ Outstanding(k) /\ Outstanding(k)'  BY <1>1 DEF WayInv
<1>4. PICK p : p = <<"net", g, d>>  OBVIOUS
<1>5. p \in Place  BY <1>4 DEF Place
<1>6. ~ In(net[g][d], d, k)
  <2>1. ~ Here(p, k)  BY <1>2, <1>3, <1>5 DEF PlacedOK
  <2> QED  BY <1>4, <2>1 DEF Here
<1>7. /\ \A s, h \in Gpm : Distinct(net'[s][h], h) /\ Owned(net'[s][h], h)
      /\ \A id : \A r \in Place : r[1] = "net" /\ Here(r, id)' =>
             Here(r, id) \/ (id = k /\ r = p)
  BY <1>2, <1>4, <1>6, SendWay
<1>8. \A id \in ReqId : \A r \in Place : Here(r, id)' => Here(r, id) \/ (id = k /\ r = p)
  <2> SUFFICES ASSUME NEW id \in ReqId, NEW r \in Place, Here(r, id)'
               PROVE  Here(r, id) \/ (id = k /\ r = p)
    OBVIOUS
  <2>1. CASE r[1] = "net"  BY <1>7, <2>1
  <2>2. CASE r[1] # "net"  BY <1>0, <2>2 DEF Here
  <2> QED  BY <2>1, <2>2
<1>9. PlacedOK'  BY <1>2, <1>3, <1>5, <1>8, AddStep
<1>10. SingleOK'  BY <1>0, <1>7 DEF WayInv, SingleOK
<1>11. OwnedOK'  BY <1>0, <1>7 DEF WayInv, OwnedOK
<1>12. \A h \in Gpm : TableOK(h)' /\ L2OK(h)' /\ ReadOK(h)'  BY <1>0, OwnersFrame
<1> QED  BY <1>9, <1>10, <1>11, <1>12 DEF WayInv

LEMMA ForwardReqWay ==
    ASSUME Type, RequesterInv, WayInv, NEW g \in Gpm, ~ ReqActive, ForwardReq(g),
           UNCHANGED <<reqVars, ownerVars>>
    PROVE  WayInv'
<1>1. PICK n, d : n = accepted[g] + 1 /\ d = Owner[Head1(g).line]  OBVIOUS
<1>2. /\ HasInput(g) /\ Send(g, d, Packet(g, n)) /\ setup' = setup
      /\ fromInside' = [fromInside EXCEPT ![g] = fromInside[g] \cup {n}]
      /\ UNCHANGED <<toOutside, fromOutside, l2Vars, entries>>
  BY <1>1 DEF ForwardReq, Accept, reqVars
<1>3. n \in 1 .. Len(reqs[g]) /\ Head1(g) = reqs[g][n] /\ d \in Gpm /\ setup \in Setup
  BY <1>1, <1>2, InputType DEF Type, L1Type
<1>4. PICK m : m = Packet(g, n)  OBVIOUS
<1>5. m \in ReqMsg /\ Owner[m.line] = d /\ Id(m) = <<g, n>>
  BY <1>1, <1>3, <1>4, PacketType
<1>6. fromInside \in [Gpm -> SUBSET Nat]  BY DEF Type, L1Type
<1>7. entries[g] = {} /\ n \notin fromInside[g]
  BY <1>1, <1>2, FreshNumber DEF RequesterInv, ReqInv, ModeOK
<1>8. ~ Outstanding(Id(m))  BY <1>5, <1>7 DEF Outstanding
<1>9. Outstanding(Id(m))'
  <2>1. n \in fromInside'[g]  BY <1>2, <1>6
  <2>2. Id(m)[1] = g /\ Id(m)[2] = n  BY <1>5
  <2> QED  BY <2>1, <2>2 DEF Outstanding, Id
<1>10. \A id \in ReqId : Outstanding(id) => Outstanding(id)'
  BY <1>2, <1>6 DEF Outstanding, ReqId
<1>11. \A h \in Gpm : ToOwner(h)'  BY <1>2 DEF WayInv, OwnedOK, ToOwner, reqs
<1> QED  BY <1>2, <1>3, <1>4, <1>5, <1>8, <1>9, <1>10, <1>11, RequestSentWay

LEMMA IssueWay ==
    ASSUME Type, RequesterInv, WayInv, NEW g \in Gpm, Issue(g),
           UNCHANGED <<fromInside, fromOutside, l2Vars, ownerVars>>
    PROVE  WayInv'
<1>1. PICK d \in Gpm :
          /\ Best(g, d)
          /\ Send(g, d, Packet(g, Head(reqQueues[g][d])))
          /\ entries' = [entries EXCEPT ![g] =
                {IF e.seq = Head(reqQueues[g][d]) THEN [e EXCEPT !.sent = TRUE] ELSE e : e \in @}]
          /\ UNCHANGED <<toOutside, l1Vars>>
  BY DEF Issue
<1>2. PICK n : n = Head(reqQueues[g][d])  OBVIOUS
<1>3. ReqInv(g)  BY DEF RequesterInv
<1>4. PICK e0 \in entries[g] : ~ e0.sent /\ e0.dst = d /\ e0.seq = n
  <2>1. reqQueues[g][d] # <<>>  BY <1>1 DEF Best, Waiting
  <2>2. reqQueues[g][d] \in Seq(Nat)  BY DEF Type, ReqType
  <2>3. 1 \in 1 .. Len(reqQueues[g][d]) /\ n = reqQueues[g][d][1]
    BY <1>2, <2>1, <2>2, TailElements
  <2> QED  BY <1>3, <2>3 DEF ReqInv, QueueOK
<1> DEFINE Marked(x, y) == /\ x.seq = y.seq /\ x.dst = y.dst
                           /\ x.sent <=> (y.sent \/ y.seq = n)
<1>5. /\ \A x \in entries'[g] : \E y \in entries[g] : Marked(x, y)
      /\ \A y \in entries[g] : \E x \in entries'[g] : Marked(x, y)
      /\ \A h \in Gpm : h # g => entries'[h] = entries[h]
  <2> DEFINE c(y) == IF y.seq = n THEN [y EXCEPT !.sent = TRUE] ELSE y
  <2>0. entries \in [Gpm -> SUBSET Entry]  BY DEF Type, ReqType
  <2>1. \A y \in entries[g] : y \in Entry  BY <2>0
  <2>2. \A y \in entries[g] : Marked(c(y), y)  BY <2>1, EntryUpdate DEF Entry
  <2>3. entries'[g] = {c(y) : y \in entries[g]}  BY <1>1, <1>2, <2>0
  <2>4. \A h \in Gpm : h # g => entries'[h] = entries[h]  BY <1>1, <2>0
  <2> HIDE DEF c, Marked
  <2> QED  BY <2>2, <2>3, <2>4
<1>6. setup' = setup /\ reqs' = reqs  BY <1>1 DEF l1Vars, reqs
<1>7. n \in 1 .. Len(reqs[g]) /\ setup \in Setup
  <2>1. n \in 1 .. accepted[g]  BY <1>3, <1>4 DEF ReqInv, SeqOK
  <2>2. accepted[g] \in Nat /\ accepted[g] <= Len(reqs[g]) /\ setup \in Setup
    BY DEF Type, L1Type
  <2>3. Len(reqs[g]) \in Nat  BY <2>2, Workload
  <2> QED  BY <2>1, <2>2, <2>3
<1>8. PICK m : m = Packet(g, n)  OBVIOUS
<1>9. m \in ReqMsg /\ Owner[m.line] = d /\ Id(m) = <<g, n>>
  <2>1. m \in ReqMsg /\ m.line = reqs[g][n].line /\ Id(m) = <<g, n>>
    BY <1>7, <1>8, PacketType
  <2>2. Owner[reqs[g][n].line] = d  BY <1>4 DEF WayInv, OwnedOK, ToOwner
  <2> QED  BY <2>1, <2>2
<1>10. Id(m)[1] = g /\ Id(m)[2] = n  BY <1>9
<1>11. ~ Outstanding(Id(m))
  <2>1. fromInside[g] = {}  BY <1>3, <1>4 DEF ReqInv, ModeOK
  <2>2. \A y \in entries[g] : y.seq = n => ~ y.sent  BY <1>3, <1>4 DEF ReqInv, SeqOK
  <2> QED  BY <1>10, <2>1, <2>2 DEF Outstanding
<1>12. Outstanding(Id(m))'
  <2>1. PICK x \in entries'[g] : Marked(x, e0)  BY <1>4, <1>5
  <2> HIDE DEF Id
  <2> QED  BY <1>4, <1>8, <1>10, <2>1 DEF Outstanding, Id
<1>13. \A id \in ReqId : Outstanding(id) => Outstanding(id)'
  <2> SUFFICES ASSUME NEW id \in ReqId, Outstanding(id) PROVE Outstanding(id)'  OBVIOUS
  <2>1. CASE id[1] = g
    <3>1. CASE id[2] \in fromInside[id[1]]  BY <3>1 DEF Outstanding
    <3>2. CASE \E y \in entries[g] : y.sent /\ y.seq = id[2]
      <4>1. PICK y \in entries[g] : y.sent /\ y.seq = id[2]  BY <3>2
      <4>2. PICK x \in entries'[g] : Marked(x, y)  BY <1>5
      <4> QED  BY <2>1, <4>1, <4>2 DEF Outstanding
    <3> QED  BY <2>1, <3>1, <3>2 DEF Outstanding
  <2>2. CASE id[1] # g  BY <1>5, <2>2 DEF Outstanding, ReqId
  <2> QED  BY <2>1, <2>2
<1>14. \A h \in Gpm : ToOwner(h)'
  <2>1. \A h \in Gpm : ToOwner(h)  BY DEF WayInv, OwnedOK
  <2>2. ToOwner(g)'  BY <1>5, <1>6, <2>1 DEF ToOwner
  <2>3. \A h \in Gpm : h # g => ToOwner(h)'  BY <1>5, <1>6, <2>1 DEF ToOwner
  <2> QED  BY <2>2, <2>3
<1> HIDE DEF Marked
<1> QED  BY <1>1, <1>2, <1>6, <1>8, <1>9, <1>11, <1>12, <1>13, <1>14, RequestSentWay

\* A response is taken from the port.
LEMMA ResponseTakenWay ==
    ASSUME Type, WayInv, NEW g \in Gpm, toOutside[g] # <<>>, Retrieve(g),
           NEW k, k = PacketId(Head(toOutside[g]), g),
           \A id \in ReqId : id # k /\ Outstanding(id) => Outstanding(id)',
           \A h \in Gpm : ToOwner(h)',
           UNCHANGED <<net, fromOutside, l2Vars, ownerVars>>
    PROVE  WayInv'
<1>0. UNCHANGED <<net, fromOutside, l2Queue, l2Rsp, hist, ownerTable, ownerRspQueue>>
  BY DEF l2Vars, ownerVars
<1>1. PICK p : p = <<"port", g, g>>  OBVIOUS
<1>2. /\ k \in ReqId /\ p \in Place /\ Here(p, k)
      /\ \A h \in Gpm : Distinct(toOutside'[h], h) /\ Owned(toOutside'[h], h)
      /\ \A id : \A r \in Place : r[1] = "port" /\ Here(r, id)' =>
             Here(r, id) /\ ~ (id = k /\ r = p)
  BY <1>1, RetrieveWay
<1>3. \A id \in ReqId : \A r \in Place : Here(r, id)' => Here(r, id) /\ ~ (id = k /\ r = p)
  <2> SUFFICES ASSUME NEW id \in ReqId, NEW r \in Place, Here(r, id)'
               PROVE  Here(r, id) /\ ~ (id = k /\ r = p)
    OBVIOUS
  <2>1. CASE r[1] = "port"  BY <1>2, <2>1
  <2>2. CASE r[1] # "port"  BY <1>0, <1>1, <2>2 DEF Here
  <2> QED  BY <2>1, <2>2
<1>4. PlacedOK'  BY <1>2, <1>3, RemoveStep DEF WayInv
<1>5. SingleOK'  BY <1>0, <1>2 DEF WayInv, SingleOK
<1>6. OwnedOK'  BY <1>0, <1>2 DEF WayInv, OwnedOK
<1>7. \A h \in Gpm : TableOK(h)' /\ L2OK(h)' /\ ReadOK(h)'  BY <1>0, OwnersFrame
<1> QED  BY <1>4, <1>5, <1>6, <1>7 DEF WayInv

LEMMA ResponseWay ==
    ASSUME Type, RequesterInv, WayInv, NEW g \in Gpm, Response(g),
           UNCHANGED <<fromInside, fromOutside, l2Vars, ownerVars>>
    PROVE  WayInv'
<1>1. PICK m, k : m = Head(toOutside[g]) /\ k = PacketId(m, g)  OBVIOUS
<1>2. PICK e \in entries[g] :
          e.sent /\ e.seq = m.seq /\ entries' = [entries EXCEPT ![g] = entries[g] \ {e}]
  BY <1>1 DEF Response
<1>3. /\ toOutside[g] # <<>> /\ Retrieve(g) /\ HeadIs(g, "rsp")
      /\ setup' = setup /\ reqs' = reqs /\ net' = net
  BY DEF Response, HeadIs, Received, l1Vars, reqs
<1>4. k = <<g, m.seq>>
  <2>1. m \in RspMsg  BY <1>1, <1>3, HeadType DEF Type
  <2> QED  BY <1>1, <2>1, PacketIdType DEF Msg
<1>5. /\ entries'[g] = entries[g] \ {e}
      /\ \A h \in Gpm : h # g => entries'[h] = entries[h]
  BY <1>2 DEF Type, ReqType
<1>6. \A id \in ReqId : id # k /\ Outstanding(id) => Outstanding(id)'
  <2> SUFFICES ASSUME NEW id \in ReqId, id # k, Outstanding(id) PROVE Outstanding(id)'
    OBVIOUS
  <2>1. CASE id[1] = g
    <3>1. id[2] # m.seq  BY <1>4, <2>1 DEF ReqId
    <3> QED  BY <1>2, <1>5, <2>1, <3>1 DEF Outstanding
  <2>2. CASE id[1] # g  BY <1>5, <2>2 DEF Outstanding, ReqId
  <2> QED  BY <2>1, <2>2
<1>7. \A h \in Gpm : ToOwner(h)'  BY <1>3, <1>5 DEF WayInv, OwnedOK, ToOwner
<1> QED  BY <1>1, <1>3, <1>6, <1>7, ResponseTakenWay

LEMMA ForwardRspWay ==
    ASSUME Type, RequesterInv, WayInv, NEW g \in Gpm, ForwardRsp(g),
           UNCHANGED <<reqVars, ownerVars>>
    PROVE  WayInv'
<1>1. PICK m, k : m = Head(toOutside[g]) /\ k = PacketId(m, g)  OBVIOUS
<1>2. fromInside' = [fromInside EXCEPT ![g] = fromInside[g] \ {m.seq}]
  BY <1>1 DEF ForwardRsp
<1>3. /\ toOutside[g] # <<>> /\ Retrieve(g) /\ HeadIs(g, "rsp")
      /\ setup' = setup /\ reqs' = reqs /\ UNCHANGED <<net, entries, fromOutside, l2Vars>>
  BY DEF ForwardRsp, HeadIs, Received, reqVars, reqs
<1>4. k = <<g, m.seq>>
  <2>1. m \in RspMsg  BY <1>1, <1>3, HeadType DEF Type
  <2> QED  BY <1>1, <2>1, PacketIdType DEF Msg
<1>5. /\ fromInside'[g] = fromInside[g] \ {m.seq}
      /\ \A h \in Gpm : h # g => fromInside'[h] = fromInside[h]
  BY <1>2 DEF Type, L1Type
<1>6. \A id \in ReqId : id # k /\ Outstanding(id) => Outstanding(id)'
  <2> SUFFICES ASSUME NEW id \in ReqId, id # k, Outstanding(id) PROVE Outstanding(id)'
    OBVIOUS
  <2>1. CASE id[1] = g
    <3>1. id[2] # m.seq  BY <1>4, <2>1 DEF ReqId
    <3> QED  BY <1>3, <1>5, <2>1, <3>1 DEF Outstanding
  <2>2. CASE id[1] # g  BY <1>3, <1>5, <2>2 DEF Outstanding, ReqId
  <2> QED  BY <2>1, <2>2
<1>7. \A h \in Gpm : ToOwner(h)'  BY <1>3 DEF WayInv, OwnedOK, ToOwner
<1> QED  BY <1>1, <1>3, <1>6, <1>7, ResponseTakenWay

-------------------------------------------------------------------------------
\* The order of reads and writes at the L2.

\* A request joins the L2's queue: one that is not the read of id ...
LEMMA OrderAppend ==
    ASSUME NEW S, NEW q \in Seq(S), NEW m \in S, NEW id, NEW l, Id(m) # id, ReadAt(q, id, l)
    PROVE  /\ ReadAt(Append(q, m), id, l)
           /\ \A r, h : NoLaterWrite(q, r, h, id, l) /\ ~ IsWrite(m, l) =>
                  NoLaterWrite(Append(q, m), r, h, id, l)
<1>1. PICK n \in Nat : n = Len(q)  OBVIOUS
<1>2. PICK t : t = Append(q, m)  OBVIOUS
<1>3. /\ Len(t) = n + 1 /\ t[n + 1] = m /\ \A i \in 1 .. n : t[i] = q[i]
  BY <1>1, <1>2, AppendElements
<1>4. \A i \in 1 .. n + 1 : i \in 1 .. n \/ i = n + 1  BY <1>1
<1>5. ReadAt(t, id, l)  BY <1>1, <1>3, <1>4 DEF ReadAt
<1>6. ASSUME NEW r, NEW h, NoLaterWrite(q, r, h, id, l), ~ IsWrite(m, l)
      PROVE  NoLaterWrite(t, r, h, id, l)
  <2>1. ASSUME NEW i \in 1 .. n + 1, Id(t[i]) = id, NEW j \in i .. n + 1
        PROVE  ~ IsWrite(t[j], l)
    <3>1. i \in 1 .. n  BY <1>3, <1>4, <2>1
    <3>2. j = n + 1 \/ (j \in i .. n /\ j \in 1 .. n)  BY <1>1, <3>1
    <3> QED  BY <1>1, <1>3, <1>6, <2>1, <3>1, <3>2 DEF NoLaterWrite
  <2>2. ASSUME NEW i \in 1 .. Len(r), r[i].id = id, NEW j \in 1 .. n + 1
        PROVE  ~ IsWrite(t[j], l)
    BY <1>1, <1>3, <1>4, <1>6, <2>2 DEF NoLaterWrite
  <2> QED  BY <1>3, <1>6, <2>1, <2>2 DEF NoLaterWrite
<1> QED  BY <1>2, <1>5, <1>6

\* ... and the read of id.
LEMMA OrderRead ==
    ASSUME NEW S, NEW q \in Seq(S), NEW m \in S, NEW l, m.line = l, m.op # "write",
           \A i \in 1 .. Len(q) : Id(q[i]) # Id(m),
           NEW r, \A i \in 1 .. Len(r) : r[i].id # Id(m), NEW h
    PROVE  ReadAt(Append(q, m), Id(m), l) /\ NoLaterWrite(Append(q, m), r, h, Id(m), l)
<1>1. PICK n \in Nat : n = Len(q)  OBVIOUS
<1>2. PICK t, id : t = Append(q, m) /\ id = Id(m)  OBVIOUS
<1>3. /\ Len(t) = n + 1 /\ t[n + 1] = m /\ \A i \in 1 .. n : t[i] = q[i]
  BY <1>1, <1>2, AppendElements
<1>4. \A i \in 1 .. n + 1 : i \in 1 .. n \/ i = n + 1  BY <1>1
<1>5. \A i \in 1 .. n + 1 : Id(t[i]) = id => i = n + 1  BY <1>1, <1>2, <1>3, <1>4
<1>6. \A j \in n + 1 .. n + 1 : j = n + 1  BY <1>1
<1>7. ReadAt(t, id, l)  BY <1>3, <1>5 DEF ReadAt
<1>8. NoLaterWrite(t, r, h, id, l)
  BY <1>2, <1>3, <1>5, <1>6 DEF NoLaterWrite, IsWrite
<1> QED  BY <1>2, <1>7, <1>8

\* A response of the L2 is taken.
LEMMA OrderRsp ==
    ASSUME NEW S, NEW r \in Seq(S), r # <<>>, NEW q, NEW h, NEW id, NEW l,
           NoLaterWrite(q, r, h, id, l)
    PROVE  NoLaterWrite(q, Tail(r), h, id, l)
<1>1. PICK n \in Nat \ {0} : n = Len(r)  BY TailElements
<1>2. PICK t : t = Tail(r)  OBVIOUS
<1>3. Len(t) = n - 1 /\ \A j \in 1 .. n - 1 : t[j] = r[j + 1] /\ j + 1 \in 1 .. n
  BY <1>1, <1>2, TailElements
<1>4. NoLaterWrite(q, t, h, id, l)  BY <1>1, <1>3 DEF NoLaterWrite
<1> QED  BY <1>2, <1>4

\* A write of the owner's own L1 caches, which has the number 0.
LEMMA OrderLocal ==
    ASSUME NEW S, NEW h \in Seq(S), NEW w \in S, w[2] = 0, NEW q, NEW r, NEW id, NEW l,
           \A i \in 1 .. Len(r) : r[i].ver \in Nat,
           NoLaterWrite(q, r, h, id, l)
    PROVE  NoLaterWrite(q, r, Append(h, w), id, l)
<1>1. PICK n \in Nat : n = Len(h)  OBVIOUS
<1>2. PICK t : t = Append(h, w)  OBVIOUS
<1>3. /\ Len(t) = n + 1 /\ t[n + 1] = w /\ \A i \in 1 .. n : t[i] = h[i]
  BY <1>1, <1>2, AppendElements
<1>4. ASSUME NEW i \in 1 .. Len(r), r[i].id = id, NEW j \in r[i].ver + 1 .. n + 1
      PROVE  t[j][2] = 0
  <2>1. j = n + 1 \/ (j \in r[i].ver + 1 .. n /\ j \in 1 .. n)  BY <1>1
  <2> QED  BY <1>1, <1>3, <1>4, <2>1 DEF NoLaterWrite
<1>5. NoLaterWrite(q, r, t, id, l)  BY <1>3, <1>4 DEF NoLaterWrite
<1> QED  BY <1>2, <1>5

\* The L2 serves m, the i-th of its requests q and the first of them for its line, with
\* the response x; r and h are as in NoLaterWrite.
Serves(q, r, h, i, m, w, x) ==
    /\ q \in Seq(ReqMsg) /\ r \in Seq(L2Item) /\ h \in Seq(ReqId) /\ x \in L2Item
    /\ i \in 1 .. Len(q) /\ m = q[i] /\ w = Id(m) /\ x.id = w /\ w \in ReqId
    /\ \A j \in 1 .. i - 1 : q[j].line # m.line
    /\ \A a, b \in 1 .. Len(q) : Id(q[a]) = Id(q[b]) => a = b
    /\ \A a \in 1 .. Len(r) : r[a].id # w

LEMMA OrderServe ==
    ASSUME NEW q, NEW r, NEW h, NEW i, NEW m, NEW w, NEW x, Serves(q, r, h, i, m, w, x),
           NEW l, NEW id, ReadAt(q, id, l),
           m.line = l => x.ver = IF m.op = "write" THEN Len(h) + 1 ELSE Len(h),
           NEW k, k = IF IsWrite(m, l) THEN Append(h, w) ELSE h
    PROVE  /\ ReadAt(RemoveAt(q, i), id, l)
           /\ NoLaterWrite(q, r, h, id, l) =>
                  NoLaterWrite(RemoveAt(q, i), Append(r, x), k, id, l)
<1>s. /\ q \in Seq(ReqMsg) /\ r \in Seq(L2Item) /\ h \in Seq(ReqId) /\ x \in L2Item
      /\ i \in 1 .. Len(q) /\ m = q[i] /\ w = Id(m) /\ x.id = w
      /\ \A j \in 1 .. i - 1 : q[j].line # m.line
      /\ \A a, b \in 1 .. Len(q) : Id(q[a]) = Id(q[b]) => a = b
      /\ \A a \in 1 .. Len(r) : r[a].id # w
  BY DEF Serves
<1>1. PICK n \in Nat : n = Len(q)  BY <1>s
<1>2. PICK t : t = RemoveAt(q, i)  OBVIOUS
<1>3. /\ Len(t) = n - 1 /\ \A j \in 1 .. n - 1 : t[j] = IF j < i THEN q[j] ELSE q[j + 1]
      /\ i \in 1 .. n
  <2>1. q \in Seq(ReqMsg) /\ i \in 1 .. Len(q)  BY <1>s
  <2> QED  BY <1>1, <1>2, <2>1, RemoveAtElements
<1> DEFINE o(j) == IF j < i THEN j ELSE j + 1
<1>4. /\ \A j \in 1 .. n - 1 : o(j) \in 1 .. n /\ o(j) # i /\ t[j] = q[o(j)]
      /\ \A a \in 1 .. n - 1 : \A b \in a .. n - 1 : b \in 1 .. n - 1 /\ o(b) \in o(a) .. n
  <2>1. \A j \in 1 .. n - 1 : o(j) \in 1 .. n /\ o(j) # i  BY <1>1, <1>3
  <2>2. \A j \in 1 .. n - 1 : t[j] = q[o(j)]  BY <1>3
  <2>3. \A a \in 1 .. n - 1 : \A b \in a .. n - 1 : b \in 1 .. n - 1 /\ o(b) \in o(a) .. n
    BY <1>1, <1>3
  <2> QED  BY <2>1, <2>2, <2>3, Zenon
<1>5. \A j \in 1 .. n - 1 : o(j) \in 1 .. i - 1 \/ o(j) \in i .. n
  BY <1>1, <1>3
<1> HIDE DEF o
<1>6. ReadAt(t, id, l)  BY <1>1, <1>3, <1>4 DEF ReadAt
<1>7. PICK a \in Nat : a = Len(r)  BY <1>s
<1>8. PICK u : u = Append(r, x)  OBVIOUS
<1>9. Len(u) = a + 1 /\ u[a + 1] = x /\ \A j \in 1 .. a : u[j] = r[j]
  BY <1>s, <1>7, <1>8, AppendElements
<1>10. \A j \in 1 .. a + 1 : j \in 1 .. a \/ j = a + 1  BY <1>7
<1>11. ASSUME NoLaterWrite(q, r, h, id, l) PROVE NoLaterWrite(t, u, k, id, l)
  <2>1. ASSUME NEW b \in 1 .. n - 1, Id(t[b]) = id, NEW j \in b .. n - 1
        PROVE  ~ IsWrite(t[j], l)
    <3>1. o(b) \in 1 .. n /\ Id(q[o(b)]) = id /\ o(j) \in o(b) .. n /\ t[j] = q[o(j)]
      BY <1>4, <2>1
    <3> QED  BY <1>1, <1>11, <3>1 DEF NoLaterWrite
  <2>2. ASSUME NEW b \in 1 .. a + 1, u[b].id = id
        PROVE  /\ \A j \in 1 .. n - 1 : ~ IsWrite(t[j], l)
               /\ \A j \in u[b].ver + 1 .. Len(k) : k[j][2] = 0
    <3>1. CASE b \in 1 .. a
      <4>1. r[b].id = id /\ u[b].ver = r[b].ver /\ Id(m) # id
        BY <1>s, <1>7, <1>9, <2>2, <3>1
      <4>2. /\ \A j \in 1 .. n : ~ IsWrite(q[j], l)
            /\ \A j \in r[b].ver + 1 .. Len(h) : h[j][2] = 0
        BY <1>1, <1>7, <1>11, <3>1, <4>1 DEF NoLaterWrite
      <4>3. k = h  BY <1>s, <1>3, <4>2
      <4> QED  BY <1>4, <4>1, <4>2, <4>3
    <3>2. CASE b = a + 1
      <4>1. Id(m) = id /\ u[b] = x  BY <1>s, <1>9, <2>2, <3>2
      <4>2. m.line = l /\ m.op # "write"  BY <1>s, <1>1, <1>3, <4>1 DEF ReadAt
      <4>3. k = h /\ u[b].ver = Len(h)  BY <4>1, <4>2 DEF IsWrite
      <4>4. \A j \in u[b].ver + 1 .. Len(k) : FALSE
        <5>1. Len(h) \in Nat  BY <1>s
        <5> QED  BY <4>3, <5>1
      <4>5. \A j \in i .. n : ~ IsWrite(q[j], l)
        BY <1>s, <1>1, <1>3, <1>11, <4>1 DEF NoLaterWrite
      <4>6. \A j \in 1 .. i - 1 : ~ IsWrite(q[j], l)  BY <1>s, <4>2 DEF IsWrite
      <4>7. \A j \in 1 .. n - 1 : ~ IsWrite(t[j], l)  BY <1>4, <1>5, <4>5, <4>6
      <4> QED  BY <4>4, <4>7
    <3> QED  BY <1>10, <3>1, <3>2
  <2> QED  BY <1>3, <1>9, <2>1, <2>2 DEF NoLaterWrite
<1> QED  BY <1>2, <1>6, <1>8, <1>11

-------------------------------------------------------------------------------
\* The owner.  What it finds at the head of ToOutside is nowhere else.
LEMMA FreshAtOwner ==
    ASSUME Type, WayInv, NEW g \in Gpm, HeadIs(g, "req"),
           NEW m, m = Head(toOutside[g]), NEW k, k = Id(m)
    PROVE  /\ toOutside[g] # <<>> /\ m \in ReqMsg /\ k \in ReqId /\ k = PacketId(m, g)
           /\ m.line \in Line /\ Owner[m.line] = g
           /\ k \notin fromOutside[g]
           /\ \A e \in ownerTable[g] : ~ InReqs(e.reqs, k) /\ e.id # k
           /\ ~ In(l2Queue[g], g, k) /\ ~ InL2Rsp(l2Rsp[g], k)
           /\ \A i \in 1 .. Len(l2Queue[g]) : Id(l2Queue[g][i]) # k
           /\ \A i \in 1 .. Len(l2Rsp[g]) : l2Rsp[g][i].id # k
<1>1. toOutside[g] # <<>> /\ m \in ReqMsg /\ k \in ReqId
  BY HeadType DEF HeadIs, Received, Type
<1>2. k = PacketId(m, g) /\ m.line \in Line /\ m.type = "req"
  BY <1>1, PacketIdType DEF Msg
<1>3. toOutside[g] \in Seq(Msg)  BY BufferTypes
<1>4. Owned(toOutside[g], g)  BY DEF WayInv, OwnedOK
<1>5. In(toOutside[g], g, k) /\ Owner[m.line] = g  BY <1>1, <1>2, <1>3, <1>4, InHead
<1>6. PICK p : p = <<"port", g, g>>  OBVIOUS
<1>7. p \in Place /\ Here(p, k) /\ p # <<"base", g, g>> /\ p # <<"table", g, g>>
  BY <1>5, <1>6 DEF Place, Here
<1>8. PlacedOK /\ TableOK(g) /\ L2OK(g)  BY DEF WayInv
<1>9. /\ k \notin fromOutside[g]
      /\ \A e \in ownerTable[g] : ~ InReqs(e.reqs, k) /\ e.id # k
  BY <1>1, <1>7, <1>8, NowhereElse
<1>10. ~ In(l2Queue[g], g, k) /\ ~ InL2Rsp(l2Rsp[g], k)  BY <1>1, <1>8, <1>9 DEF L2OK
<1>11. \A i \in 1 .. Len(l2Queue[g]) : Id(l2Queue[g][i]) # k
  <2> TAKE i \in 1 .. Len(l2Queue[g])
  <2>1. l2Queue[g][i] \in ReqMsg  BY BufferTypes, SeqType
  <2>2. PacketId(l2Queue[g][i], g) = Id(l2Queue[g][i])  BY <2>1, PacketIdType DEF Msg
  <2> QED  BY <1>10, <2>2 DEF In
<1>12. \A i \in 1 .. Len(l2Rsp[g]) : l2Rsp[g][i].id # k  BY <1>10 DEF InL2Rsp
<1> QED  BY <1>1, <1>2, <1>5, <1>9, <1>10, <1>11, <1>12

\* A request is taken from ToOutside, to the place q in the owner.
LEMMA TakenWay ==
    ASSUME Type, WayInv, NEW g \in Gpm, toOutside[g] # <<>>, Retrieve(g),
           NEW k, k = PacketId(Head(toOutside[g]), g), NEW q \in Place,
           \A id \in ReqId : \A r \in Place : r[1] \in {"table", "base"} /\ Here(r, id)' =>
               Here(r, id) \/ (id = k /\ r = q),
           UNCHANGED <<net, ownerRspQueue, fromInside, entries, setup>>,
           \A d \in Gpm : d # g =>
               /\ ownerTable'[d] = ownerTable[d] /\ l2Queue'[d] = l2Queue[d]
               /\ TableOK(d)' /\ L2OK(d)' /\ ReadOK(d)',
           Owned(l2Queue'[g], g), \A e \in ownerTable'[g] : Owner[e.line] = g,
           TableOK(g)' /\ L2OK(g)' /\ ReadOK(g)'
    PROVE  WayInv'
<1>1. PICK p : p = <<"port", g, g>>  OBVIOUS
<1>2. /\ k \in ReqId /\ p \in Place /\ Here(p, k)
      /\ \A h \in Gpm : Distinct(toOutside'[h], h) /\ Owned(toOutside'[h], h)
      /\ \A id : \A r \in Place : r[1] = "port" /\ Here(r, id)' =>
             Here(r, id) /\ ~ (id = k /\ r = p)
  BY <1>1, RetrieveWay
<1>3. \A id \in ReqId : \A r \in Place : Here(r, id)' =>
          (Here(r, id) /\ ~ (r = p /\ id = k)) \/ (id = k /\ r = q)
  <2> SUFFICES ASSUME NEW id \in ReqId, NEW r \in Place, Here(r, id)'
               PROVE  (Here(r, id) /\ ~ (r = p /\ id = k)) \/ (id = k /\ r = q)
    OBVIOUS
  <2>1. CASE r[1] = "port"  BY <1>2, <2>1
  <2>2. CASE r[1] \in {"table", "base"}  BY <1>1, <2>2
  <2>3. CASE r[1] \in {"net", "rsp"}  BY <1>1, <2>3 DEF Here
  <2> QED  BY <2>1, <2>2, <2>3 DEF Place
<1>4. \A id \in ReqId : Outstanding(id) => Outstanding(id)'  BY DEF Outstanding
<1>5. PlacedOK'  BY <1>2, <1>3, <1>4, MoveOne DEF WayInv
<1>6. SingleOK'  BY <1>2 DEF WayInv, SingleOK
<1>7. OwnedOK'  BY <1>2 DEF WayInv, OwnedOK, ToOwner, reqs
<1> QED  BY <1>5, <1>6, <1>7 DEF WayInv

LEMMA OwnerJoinWay ==
    ASSUME Type, WayInv, NEW g \in Gpm, OwnerJoin(g)
    PROVE  WayInv'
<1>0. /\ HeadIs(g, "req") /\ Retrieve(g)
      /\ UNCHANGED <<net, setup, fromInside, entries, fromOutside, l2Queue, l2Rsp, hist,
                     ownerRspQueue>>
  BY DEF OwnerJoin, l1Vars, l2Vars, reqVars
<1>1. PICK m, k : m = Head(toOutside[g]) /\ k = Id(m)  OBVIOUS
<1>2. /\ toOutside[g] # <<>> /\ k \in ReqId /\ k = PacketId(m, g)
      /\ \A e \in ownerTable[g] : ~ InReqs(e.reqs, k) /\ e.id # k
  BY <1>0, <1>1, FreshAtOwner
<1>3. PICK e \in ownerTable[g] :
          ownerTable' = [ownerTable EXCEPT ![g] = (ownerTable[g] \ {e}) \cup
                             {[e EXCEPT !.reqs = Append(e.reqs, k)]}]
  BY <1>1 DEF OwnerJoin, OwnerOpen
<1>4. PICK f : f = [e EXCEPT !.reqs = Append(e.reqs, k)]  OBVIOUS
<1>5. /\ ownerTable'[g] = (ownerTable[g] \ {e}) \cup {f}
      /\ \A d \in Gpm : d # g => ownerTable'[d] = ownerTable[d]
  BY <1>3, <1>4 DEF Type, OwnerType
<1>6. e.reqs \in Seq(ReqId) /\ 1 \in 1 .. Len(e.reqs)  BY BufferTypes
<1>7. f.id = e.id /\ f.line = e.line /\ f.open = e.open /\ f.reqs = Append(e.reqs, k)
  <2>1. e \in OwnerItem  BY BufferTypes
  <2>2. Append(e.reqs, k) \in Requesters  BY <1>2, <1>6, AppendElements DEF Requesters
  <2> QED  BY <1>4, <2>1, <2>2, OwnerEntryUpdate
<1>8. PICK n \in Nat \ {0} : n = Len(e.reqs)  BY <1>6, SeqType
<1>9. /\ Len(f.reqs) = n + 1 /\ f.reqs[n + 1] = k
      /\ \A i \in 1 .. n : f.reqs[i] = e.reqs[i]
      /\ \A i \in 1 .. n + 1 : i \in 1 .. n \/ i = n + 1
  BY <1>2, <1>6, <1>7, <1>8, AppendElements
<1>10. PICK q : q = <<"table", g, g>>  OBVIOUS
<1>11. q \in Place  BY <1>10 DEF Place
<1>12. \A id : InReqs(f.reqs, id) => InReqs(e.reqs, id) \/ id = k
  BY <1>8, <1>9 DEF InReqs
<1>13. \A id \in ReqId : \A r \in Place : r[1] \in {"table", "base"} /\ Here(r, id)' =>
           Here(r, id) \/ (id = k /\ r = q)
  <2> SUFFICES ASSUME NEW id \in ReqId, NEW r \in Place, r[1] \in {"table", "base"}, Here(r, id)'
               PROVE  Here(r, id) \/ (id = k /\ r = q)
    OBVIOUS
  <2>0. r = <<r[1], r[2], r[3]>> /\ r[2] \in Gpm /\ r[3] \in Gpm  BY DEF Place
  <2>1. CASE r[1] = "base"  BY <1>0, <2>1 DEF Here
  <2>2. CASE r[1] = "table"
    <3>1. r[2] = r[3] /\ \E x \in ownerTable'[r[2]] : InReqs(x.reqs, id)  BY <2>2 DEF Here
    <3>2. PICK x \in ownerTable'[r[2]] : InReqs(x.reqs, id)  BY <3>1
    <3>3. CASE r[2] # g  BY <1>5, <2>0, <2>2, <3>1, <3>2, <3>3 DEF Here
    <3>4. CASE r[2] = g
      <4>1. r = q  BY <1>10, <2>0, <2>2, <3>1, <3>4
      <4>2. (\E y \in ownerTable[g] : InReqs(y.reqs, id)) \/ id = k
        BY <1>5, <1>12, <3>2, <3>4
      <4> QED  BY <2>2, <3>1, <3>4, <4>1, <4>2 DEF Here
    <3> QED  BY <3>3, <3>4
  <2> QED  BY <2>1, <2>2
<1>14. TableOK(g) /\ L2OK(g) /\ ReadOK(g)  BY DEF WayInv
<1>15. TableOK(g)'
  <2>1. f.id = f.reqs[1]  BY <1>6, <1>7, <1>8, <1>9, <1>14 DEF TableOK
  <2>2. \A y \in ownerTable[g] : \A i \in 1 .. Len(y.reqs) : y.reqs[i] # k
    BY <1>2 DEF InReqs
  <2>3. ASSUME NEW x \in ownerTable'[g], NEW y \in ownerTable'[g],
               NEW i \in 1 .. Len(x.reqs), NEW j \in 1 .. Len(y.reqs), x.reqs[i] = y.reqs[j]
        PROVE  x = y /\ i = j
    <3>1. CASE x = f /\ y = f
      <4>1. CASE i = n + 1  BY <1>8, <1>9, <2>2, <2>3, <3>1, <4>1
      <4>2. CASE i \in 1 .. n
        <5>1. j \in 1 .. n  BY <1>8, <1>9, <2>2, <2>3, <3>1, <4>2
        <5> QED  BY <1>8, <1>9, <1>14, <2>3, <3>1, <4>2, <5>1 DEF TableOK
      <4> QED  BY <1>9, <3>1, <4>1, <4>2
    <3>2. CASE x = f /\ y # f
      <4>1. y \in ownerTable[g] /\ y # e  BY <1>5, <3>2
      <4>2. i \in 1 .. n  BY <1>8, <1>9, <2>2, <2>3, <3>2, <4>1
      <4> QED  BY <1>8, <1>9, <1>14, <2>3, <3>2, <4>1, <4>2 DEF TableOK
    <3>3. CASE x # f /\ y = f
      <4>1. x \in ownerTable[g] /\ x # e  BY <1>5, <3>3
      <4>2. j \in 1 .. n  BY <1>8, <1>9, <2>2, <2>3, <3>3, <4>1
      <4> QED  BY <1>8, <1>9, <1>14, <2>3, <3>3, <4>1, <4>2 DEF TableOK
    <3>4. CASE x # f /\ y # f
      <4>1. x \in ownerTable[g] /\ y \in ownerTable[g]  BY <1>5, <3>4
      <4> QED  BY <1>14, <2>3, <4>1 DEF TableOK
    <3> QED  BY <3>1, <3>2, <3>3, <3>4
  <2>4. \A x \in ownerTable'[g] : x.id = x.reqs[1]  BY <1>5, <1>14, <2>1 DEF TableOK
  <2> QED  BY <2>3, <2>4 DEF TableOK
<1>16. L2OK(g)'
  <2>1. \A id : (\E y \in ownerTable[g] : y.id = id) => \E x \in ownerTable'[g] : x.id = id
    BY <1>5, <1>7
  <2> QED  BY <1>0, <1>14, <2>1 DEF L2OK
<1>17. ReadOK(g)'  BY <1>0, <1>5, <1>7, <1>14 DEF ReadOK
<1>18. \A x \in ownerTable'[g] : Owner[x.line] = g
  BY <1>5, <1>7 DEF WayInv, OwnedOK
<1>19. Owned(l2Queue'[g], g)  BY <1>0 DEF WayInv, OwnedOK
<1>20. \A d \in Gpm : d # g =>
           /\ ownerTable'[d] = ownerTable[d] /\ l2Queue'[d] = l2Queue[d]
           /\ TableOK(d)' /\ L2OK(d)' /\ ReadOK(d)'
  BY <1>0, <1>5, OwnerFrame DEF WayInv
<1> QED  BY <1>0, <1>1, <1>2, <1>11, <1>13, <1>15, <1>16, <1>17, <1>18, <1>19, <1>20, TakenWay

\* A new request is sent to the L2.
LEMMA SendL2Way ==
    ASSUME Type, WayInv, NEW g \in Gpm, HeadIs(g, "req"),
           NEW m, m = Head(toOutside[g]), NEW k, k = Id(m), SendL2(g, m)
    PROVE  /\ l2Queue'[g] = Append(l2Queue[g], m) /\ UNCHANGED <<l2Rsp, hist>>
           /\ \A d \in Gpm : d # g => l2Queue'[d] = l2Queue[d]
           /\ Distinct(l2Queue'[g], g) /\ Owned(l2Queue'[g], g)
           /\ \A id : In(l2Queue'[g], g, id) <=> In(l2Queue[g], g, id) \/ id = k
<1>1. /\ m \in ReqMsg /\ k = PacketId(m, g) /\ Owner[m.line] = g /\ ~ In(l2Queue[g], g, k)
  BY FreshAtOwner
<1>2. l2Queue[g] \in Seq(ReqMsg)  BY BufferTypes
<1>3. /\ l2Queue'[g] = Append(l2Queue[g], m) /\ UNCHANGED <<l2Rsp, hist>>
      /\ \A d \in Gpm : d # g => l2Queue'[d] = l2Queue[d]
  BY DEF SendL2, Type, L2Type
<1>4. Distinct(l2Queue[g], g) /\ Owned(l2Queue[g], g)
  BY DEF WayInv, L2OK, OwnedOK
<1>5. /\ Distinct(Append(l2Queue[g], m), g)
      /\ \A id : In(Append(l2Queue[g], m), g, id) <=> In(l2Queue[g], g, id) \/ id = k
  BY <1>1, <1>2, <1>4, InAppend
<1>6. Owned(Append(l2Queue[g], m), g)  BY <1>1, <1>2, <1>4, OwnedKept
<1> QED  BY <1>3, <1>5, <1>6

LEMMA OwnerReadWay ==
    ASSUME Type, WayInv, NEW g \in Gpm, OwnerRead(g)
    PROVE  WayInv'
<1>0. /\ HeadIs(g, "req") /\ Retrieve(g) /\ OwnerMerge
      /\ UNCHANGED <<net, setup, fromInside, entries, fromOutside, ownerRspQueue>>
  BY DEF OwnerRead, l1Vars, reqVars
<1>1. PICK m, k : m = Head(toOutside[g]) /\ k = Id(m)  OBVIOUS
<1>2. /\ toOutside[g] # <<>> /\ m \in ReqMsg /\ k \in ReqId /\ k = PacketId(m, g)
      /\ m.line \in Line /\ Owner[m.line] = g
      /\ \A e \in ownerTable[g] : ~ InReqs(e.reqs, k) /\ e.id # k
      /\ ~ In(l2Queue[g], g, k) /\ ~ InL2Rsp(l2Rsp[g], k)
      /\ \A i \in 1 .. Len(l2Queue[g]) : Id(l2Queue[g][i]) # k
      /\ \A i \in 1 .. Len(l2Rsp[g]) : l2Rsp[g][i].id # k
  BY <1>0, <1>1, FreshAtOwner
<1>3. SendL2(g, m) /\ m.op = "read"  BY <1>1 DEF OwnerRead, Mergeable
<1>4. PICK f : /\ f.id = k /\ f.line = m.line /\ f.open = TRUE /\ f.reqs = <<k>>
               /\ ownerTable' = [ownerTable EXCEPT ![g] = ownerTable[g] \cup {f}]
  <2> DEFINE f == [id |-> k, line |-> m.line, open |-> TRUE, reqs |-> <<k>>]
  <2>1. ownerTable' = [ownerTable EXCEPT ![g] = ownerTable[g] \cup {f}]
    BY <1>1 DEF OwnerRead
  <2>2. f.id = k /\ f.line = m.line /\ f.open = TRUE /\ f.reqs = <<k>>  OBVIOUS
  <2> HIDE DEF f
  <2> QED  BY <2>1, <2>2
<1>5. /\ ownerTable'[g] = ownerTable[g] \cup {f}
      /\ \A d \in Gpm : d # g => ownerTable'[d] = ownerTable[d]
  BY <1>4 DEF Type, OwnerType
<1>6. Len(f.reqs) = 1 /\ f.reqs[1] = k /\ \A i \in 1 .. 1 : i = 1  BY <1>4
<1>7. /\ l2Queue'[g] = Append(l2Queue[g], m) /\ UNCHANGED <<l2Rsp, hist>>
      /\ \A d \in Gpm : d # g => l2Queue'[d] = l2Queue[d]
      /\ Distinct(l2Queue'[g], g) /\ Owned(l2Queue'[g], g)
      /\ \A id : In(l2Queue'[g], g, id) <=> In(l2Queue[g], g, id) \/ id = k
  BY <1>0, <1>1, <1>3, SendL2Way
<1>8. TableOK(g) /\ L2OK(g) /\ ReadOK(g)  BY DEF WayInv
<1>10. PICK q : q = <<"table", g, g>>  OBVIOUS
<1>11. q \in Place  BY <1>10 DEF Place
<1>12. \A id : InReqs(f.reqs, id) => id = k  BY <1>6 DEF InReqs
<1>13. \A id \in ReqId : \A r \in Place : r[1] \in {"table", "base"} /\ Here(r, id)' =>
           Here(r, id) \/ (id = k /\ r = q)
  <2> SUFFICES ASSUME NEW id \in ReqId, NEW r \in Place, r[1] \in {"table", "base"}, Here(r, id)'
               PROVE  Here(r, id) \/ (id = k /\ r = q)
    OBVIOUS
  <2>0. r = <<r[1], r[2], r[3]>> /\ r[2] \in Gpm /\ r[3] \in Gpm  BY DEF Place
  <2>1. CASE r[1] = "base"  BY <1>0, <2>1 DEF Here
  <2>2. CASE r[1] = "table"
    <3>1. r[2] = r[3] /\ \E x \in ownerTable'[r[2]] : InReqs(x.reqs, id)  BY <2>2 DEF Here
    <3>2. PICK x \in ownerTable'[r[2]] : InReqs(x.reqs, id)  BY <3>1
    <3>3. CASE r[2] # g  BY <1>5, <2>0, <2>2, <3>1, <3>2, <3>3 DEF Here
    <3>4. CASE r[2] = g
      <4>1. r = q  BY <1>10, <2>0, <2>2, <3>1, <3>4
      <4>2. (\E y \in ownerTable[g] : InReqs(y.reqs, id)) \/ id = k
        BY <1>5, <1>12, <3>2, <3>4
      <4> QED  BY <2>2, <3>1, <3>4, <4>1, <4>2 DEF Here
    <3> QED  BY <3>3, <3>4
  <2> QED  BY <2>1, <2>2
<1>14. \A y \in ownerTable[g] : \A i \in 1 .. Len(y.reqs) : y.reqs[i] # k
  BY <1>2 DEF InReqs
<1>15. TableOK(g)'
  <2>1. \A x \in ownerTable'[g] : x.id = x.reqs[1]  BY <1>4, <1>5, <1>6, <1>8 DEF TableOK
  <2>2. ASSUME NEW x \in ownerTable'[g], NEW y \in ownerTable'[g],
               NEW i \in 1 .. Len(x.reqs), NEW j \in 1 .. Len(y.reqs), x.reqs[i] = y.reqs[j]
        PROVE  x = y /\ i = j
    <3>1. CASE x = f \/ y = f
      <4>1. x = f /\ y = f  BY <1>5, <1>6, <1>14, <2>2, <3>1
      <4> QED  BY <1>6, <4>1
    <3>2. CASE x # f /\ y # f
      <4>1. x \in ownerTable[g] /\ y \in ownerTable[g]  BY <1>5, <3>2
      <4> QED  BY <1>8, <2>2, <4>1 DEF TableOK
    <3> QED  BY <3>1, <3>2
  <2> QED  BY <2>1, <2>2 DEF TableOK
<1>16. L2OK(g)'
  <2>1. \A id : (\E y \in ownerTable[g] : y.id = id) \/ id = k => \E x \in ownerTable'[g] : x.id = id
    BY <1>4, <1>5
  <2>2. ASSUME NEW id \in ReqId, In(l2Queue'[g], g, id) \/ InL2Rsp(l2Rsp[g], id)
        PROVE  id \in fromOutside[g] \/ \E x \in ownerTable'[g] : x.id = id
    BY <1>7, <1>8, <2>1, <2>2 DEF L2OK
  <2>3. \A id \in ReqId : ~ (In(l2Queue'[g], g, id) /\ InL2Rsp(l2Rsp[g], id))
    BY <1>2, <1>7, <1>8 DEF L2OK
  <2> QED  BY <1>0, <1>7, <1>8, <2>2, <2>3 DEF L2OK
<1>17. ReadOK(g)'
  <2>0. l2Queue[g] \in Seq(ReqMsg) /\ m \in ReqMsg  BY <1>2, BufferTypes
  <2> SUFFICES ASSUME NEW x \in ownerTable'[g]
               PROVE  /\ ReadAt(Append(l2Queue[g], m), x.id, x.line)
                      /\ x.open => NoLaterWrite(Append(l2Queue[g], m), l2Rsp[g], hist[x.line], x.id, x.line)
    BY <1>0, <1>7 DEF ReadOK
  <2>1. CASE x = f
    <3>1. m.op # "write"  BY <1>3
    <3>2. PICK l, h : l = m.line /\ h = hist[m.line]  OBVIOUS
    <3>3. /\ ReadAt(Append(l2Queue[g], m), Id(m), l)
          /\ NoLaterWrite(Append(l2Queue[g], m), l2Rsp[g], h, Id(m), l)
      BY <1>1, <1>2, <2>0, <3>1, <3>2, OrderRead
    <3> QED  BY <1>1, <1>4, <2>1, <3>2, <3>3
  <2>2. CASE x \in ownerTable[g]
    <3>1. Id(m) # x.id /\ ~ IsWrite(m, x.line)  BY <1>1, <1>2, <1>3, <2>2 DEF IsWrite
    <3>2. /\ ReadAt(l2Queue[g], x.id, x.line)
          /\ x.open => NoLaterWrite(l2Queue[g], l2Rsp[g], hist[x.line], x.id, x.line)
      BY <1>8, <2>2 DEF ReadOK
    <3> QED  BY <2>0, <3>1, <3>2, OrderAppend
  <2> QED  BY <1>5, <2>1, <2>2
<1>18. \A x \in ownerTable'[g] : Owner[x.line] = g
  BY <1>2, <1>4, <1>5 DEF WayInv, OwnedOK
<1>20. \A d \in Gpm : d # g =>
           /\ ownerTable'[d] = ownerTable[d] /\ l2Queue'[d] = l2Queue[d]
           /\ TableOK(d)' /\ L2OK(d)' /\ ReadOK(d)'
  BY <1>0, <1>5, <1>7, OwnerFrame DEF WayInv
<1>21. toOutside[g] # <<>> /\ k = PacketId(Head(toOutside[g]), g) /\ Retrieve(g)
  BY <1>0, <1>1, <1>2
<1>22. Owned(l2Queue'[g], g)  BY <1>7
<1>23. UNCHANGED <<net, ownerRspQueue, fromInside, entries, setup>>  BY <1>0
<1> QED  BY <1>11, <1>13, <1>15, <1>16, <1>17, <1>18, <1>20, <1>21, <1>22, <1>23, TakenWay

\* Closing entries changes nothing else of them, and closes those of the line.
SameEntry(x, y) == x.id = y.id /\ x.line = y.line /\ x.reqs = y.reqs /\ (x.open => y.open)

LEMMA OwnerCloseKept ==
    ASSUME NEW es \in SUBSET OwnerItem, NEW l, \A y, z \in es : y.id = z.id => y = z
    PROVE  /\ \A x \in OwnerCloseLines(es, l) :
                  (\E y \in es : SameEntry(x, y)) /\ (x.open => x.line # l)
           /\ \A y \in es : \E x \in OwnerCloseLines(es, l) : SameEntry(x, y)
           /\ \A x, w \in OwnerCloseLines(es, l) : x.id = w.id => x = w
<1> DEFINE c(y) == IF y.line = l THEN [y EXCEPT !.open = FALSE] ELSE y
<1>1. \A y \in es : SameEntry(c(y), y) /\ (c(y).open => c(y).line # l)
  <2> TAKE y \in es
  <2>1. y \in OwnerItem  OBVIOUS
  <2> QED  BY <2>1, OwnerEntryUpdate DEF SameEntry
<1>2. OwnerCloseLines(es, l) = {c(y) : y \in es}  BY DEF OwnerCloseLines
<1>3. \A y \in es : c(y).id = y.id  BY <1>1 DEF SameEntry
<1> HIDE DEF c
<1> QED  BY <1>1, <1>2, <1>3

\* What closing keeps, and what it is for.
LEMMA OwnerCloseWay ==
    ASSUME Type, WayInv, NEW g \in Gpm, NEW l,
           ownerTable' = [ownerTable EXCEPT ![g] = OwnerCloseLines(ownerTable[g], l)]
    PROVE  /\ TableOK(g)'
           /\ \A id : (\E y \in ownerTable[g] : y.id = id) <=> \E x \in ownerTable'[g] : x.id = id
           /\ \A x \in ownerTable'[g] :
                  (\E y \in ownerTable[g] : SameEntry(x, y)) /\ (x.open => x.line # l)
           /\ \A x \in ownerTable'[g] : Owner[x.line] = g
           /\ \A d \in Gpm : d # g => ownerTable'[d] = ownerTable[d]
           /\ \A id : \A r \in Place : r[1] = "table" /\ Here(r, id)' => Here(r, id)
<1>1. /\ ownerTable'[g] = OwnerCloseLines(ownerTable[g], l)
      /\ \A d \in Gpm : d # g => ownerTable'[d] = ownerTable[d]
  BY DEF Type, OwnerType
<1>2. TableOK(g)  BY DEF WayInv
<1>3. \A y, z \in ownerTable[g] : y.id = z.id => y = z
  <2> SUFFICES ASSUME NEW y \in ownerTable[g], NEW z \in ownerTable[g], y.id = z.id PROVE y = z
    OBVIOUS
  <2>1. 1 \in 1 .. Len(y.reqs) /\ 1 \in 1 .. Len(z.reqs)  BY BufferTypes
  <2> QED  BY <1>2, <2>1 DEF TableOK
<1>4. ownerTable[g] \in SUBSET OwnerItem  BY BufferTypes
<1>5. /\ \A x \in ownerTable'[g] :
             (\E y \in ownerTable[g] : SameEntry(x, y)) /\ (x.open => x.line # l)
      /\ \A y \in ownerTable[g] : \E x \in ownerTable'[g] : SameEntry(x, y)
      /\ \A x, w \in ownerTable'[g] : x.id = w.id => x = w
  BY <1>1, <1>3, <1>4, OwnerCloseKept
<1>6. TableOK(g)'
  <2>1. \A x \in ownerTable'[g] : x.id = x.reqs[1]  BY <1>2, <1>5 DEF TableOK, SameEntry
  <2>2. ASSUME NEW x \in ownerTable'[g], NEW w \in ownerTable'[g],
               NEW i \in 1 .. Len(x.reqs), NEW j \in 1 .. Len(w.reqs), x.reqs[i] = w.reqs[j]
        PROVE  x = w /\ i = j
    <3>1. PICK y \in ownerTable[g] : SameEntry(x, y)  BY <1>5
    <3>2. PICK z \in ownerTable[g] : SameEntry(w, z)  BY <1>5
    <3>3. y = z /\ i = j  BY <1>2, <2>2, <3>1, <3>2 DEF TableOK, SameEntry
    <3> QED  BY <1>5, <3>1, <3>2, <3>3 DEF SameEntry
  <2> QED  BY <2>1, <2>2 DEF TableOK
<1>7. \A id : (\E y \in ownerTable[g] : y.id = id) <=> \E x \in ownerTable'[g] : x.id = id
  BY <1>5 DEF SameEntry
<1>8. \A x \in ownerTable'[g] : Owner[x.line] = g
  BY <1>5 DEF WayInv, OwnedOK, SameEntry
<1>9. ASSUME NEW id, NEW r \in Place, r[1] = "table", Here(r, id)' PROVE Here(r, id)
  <2>0. r[2] \in Gpm  BY DEF Place
  <2>1. r[2] = r[3] /\ \E x \in ownerTable'[r[2]] : InReqs(x.reqs, id)  BY <1>9 DEF Here
  <2>2. PICK x \in ownerTable'[r[2]] : InReqs(x.reqs, id)  BY <2>1
  <2>3. \E y \in ownerTable[r[2]] : InReqs(y.reqs, id)
    <3>1. CASE r[2] # g  BY <1>1, <2>0, <2>2, <3>1
    <3>2. CASE r[2] = g  BY <1>5, <2>2, <3>2 DEF SameEntry
    <3> QED  BY <3>1, <3>2
  <2> QED  BY <1>9, <2>1, <2>3 DEF Here
<1> QED  BY <1>1, <1>5, <1>6, <1>7, <1>8, <1>9

LEMMA OwnerBaselineWay ==
    ASSUME Type, WayInv, NEW g \in Gpm, NEW limit, OwnerBaseline(g, limit)
    PROVE  WayInv'
<1>0. /\ HeadIs(g, "req") /\ Retrieve(g)
      /\ UNCHANGED <<net, setup, fromInside, entries, ownerRspQueue>>
  BY DEF OwnerBaseline, ForwardToL2, l1Vars, reqVars
<1>1. PICK m, k : m = Head(toOutside[g]) /\ k = Id(m)  OBVIOUS
<1>2. /\ toOutside[g] # <<>> /\ m \in ReqMsg /\ k \in ReqId /\ k = PacketId(m, g)
      /\ m.line \in Line /\ Owner[m.line] = g
      /\ \A e \in ownerTable[g] : ~ InReqs(e.reqs, k) /\ e.id # k
      /\ ~ In(l2Queue[g], g, k) /\ ~ InL2Rsp(l2Rsp[g], k)
  BY <1>0, <1>1, FreshAtOwner
<1>3. SendL2(g, m) /\ fromOutside' = [fromOutside EXCEPT ![g] = fromOutside[g] \cup {k}]
  BY <1>1 DEF OwnerBaseline, ForwardToL2
<1>4. /\ fromOutside'[g] = fromOutside[g] \cup {k}
      /\ \A d \in Gpm : d # g => fromOutside'[d] = fromOutside[d]
  BY <1>3 DEF Type, L2Type
<1>5. TableOK(g) /\ L2OK(g) /\ ReadOK(g) /\ OwnedOK  BY DEF WayInv
<1>6. /\ TableOK(g)'
      /\ \A id : (\E y \in ownerTable[g] : y.id = id) <=> \E x \in ownerTable'[g] : x.id = id
      /\ \A x \in ownerTable'[g] :
             /\ \E y \in ownerTable[g] : SameEntry(x, y)
             /\ x.open /\ OwnerMerge /\ m.op = "write" => x.line # m.line
      /\ \A x \in ownerTable'[g] : Owner[x.line] = g
      /\ \A d \in Gpm : d # g => ownerTable'[d] = ownerTable[d]
      /\ \A id : \A r \in Place : r[1] = "table" /\ Here(r, id)' => Here(r, id)
  <2>1. CASE OwnerMerge /\ m.op = "write"
    <3>1. PICK l : l = m.line  OBVIOUS
    <3>2. ownerTable' = [ownerTable EXCEPT ![g] = OwnerCloseLines(ownerTable[g], l)]
      BY <1>1, <2>1, <3>1 DEF OwnerBaseline
    <3>3. /\ TableOK(g)'
          /\ \A id : (\E y \in ownerTable[g] : y.id = id) <=> \E x \in ownerTable'[g] : x.id = id
          /\ \A x \in ownerTable'[g] :
                 (\E y \in ownerTable[g] : SameEntry(x, y)) /\ (x.open => x.line # l)
          /\ \A x \in ownerTable'[g] : Owner[x.line] = g
          /\ \A d \in Gpm : d # g => ownerTable'[d] = ownerTable[d]
          /\ \A id : \A r \in Place : r[1] = "table" /\ Here(r, id)' => Here(r, id)
      BY <3>2, OwnerCloseWay
    <3>4. \A x \in ownerTable'[g] :
             /\ \E y \in ownerTable[g] : SameEntry(x, y)
             /\ x.open /\ OwnerMerge /\ m.op = "write" => x.line # m.line
      BY <3>1, <3>3
    <3> QED  BY <3>3, <3>4
  <2>2. CASE ~ (OwnerMerge /\ m.op = "write")
    <3>1. ownerTable' = ownerTable  BY <1>1, <2>2 DEF OwnerBaseline
    <3>2. \A x \in ownerTable[g] : Owner[x.line] = g  BY <1>5 DEF OwnedOK
    <3>3. TableOK(g)'  BY <1>5, <3>1 DEF TableOK
    <3>4. \A id : \A r \in Place : r[1] = "table" /\ Here(r, id)' => Here(r, id)
      BY <3>1 DEF Here
    <3> QED  BY <2>2, <3>1, <3>2, <3>3, <3>4 DEF SameEntry
  <2> QED  BY <2>1, <2>2
<1>7. /\ l2Queue'[g] = Append(l2Queue[g], m) /\ UNCHANGED <<l2Rsp, hist>>
      /\ \A d \in Gpm : d # g => l2Queue'[d] = l2Queue[d]
      /\ Distinct(l2Queue'[g], g) /\ Owned(l2Queue'[g], g)
      /\ \A id : In(l2Queue'[g], g, id) <=> In(l2Queue[g], g, id) \/ id = k
  BY <1>0, <1>1, <1>3, SendL2Way
<1>8. PICK q : q = <<"base", g, g>>  OBVIOUS
<1>9. q \in Place  BY <1>8 DEF Place
<1>10. \A id \in ReqId : \A r \in Place : r[1] \in {"table", "base"} /\ Here(r, id)' =>
           Here(r, id) \/ (id = k /\ r = q)
  <2> SUFFICES ASSUME NEW id \in ReqId, NEW r \in Place, r[1] \in {"table", "base"}, Here(r, id)'
               PROVE  Here(r, id) \/ (id = k /\ r = q)
    OBVIOUS
  <2>0. r = <<r[1], r[2], r[3]>> /\ r[2] \in Gpm /\ r[3] \in Gpm  BY DEF Place
  <2>1. CASE r[1] = "table"  BY <1>6, <2>1
  <2>2. CASE r[1] = "base"
    <3>1. r[2] = r[3] /\ id \in fromOutside'[r[2]]  BY <2>2 DEF Here
    <3>2. id \in fromOutside[r[2]] \/ (id = k /\ r[2] = g)  BY <1>4, <2>0, <3>1
    <3> QED  BY <1>8, <2>0, <2>2, <3>1, <3>2 DEF Here
  <2> QED  BY <2>1, <2>2
<1>11. L2OK(g)'
  <2>1. ASSUME NEW id \in ReqId, In(l2Queue'[g], g, id) \/ InL2Rsp(l2Rsp[g], id)
        PROVE  id \in fromOutside'[g] \/ \E x \in ownerTable'[g] : x.id = id
    <3>1. In(l2Queue[g], g, id) \/ InL2Rsp(l2Rsp[g], id) \/ id = k  BY <1>7, <2>1
    <3>2. id \in fromOutside[g] \/ (\E x \in ownerTable[g] : x.id = id) \/ id = k
      BY <1>5, <3>1 DEF L2OK
    <3> QED  BY <1>4, <1>6, <3>2
  <2>2. \A id \in ReqId : ~ (In(l2Queue'[g], g, id) /\ InL2Rsp(l2Rsp[g], id))
    BY <1>2, <1>5, <1>7 DEF L2OK
  <2> QED  BY <1>5, <1>7, <2>1, <2>2 DEF L2OK
<1>12. ReadOK(g)'
  <2>0. l2Queue[g] \in Seq(ReqMsg) /\ m \in ReqMsg  BY <1>2, BufferTypes
  <2>1. ~ OwnerMerge => ownerTable'[g] = {}  BY <1>5, <1>6 DEF ReadOK
  <2>2. ASSUME NEW x \in ownerTable'[g]
        PROVE  /\ ReadAt(Append(l2Queue[g], m), x.id, x.line)
               /\ x.open => NoLaterWrite(Append(l2Queue[g], m), l2Rsp[g], hist[x.line], x.id, x.line)
    <3>1. PICK y \in ownerTable[g] : SameEntry(x, y)  BY <1>6
    <3>2. /\ ReadAt(l2Queue[g], x.id, x.line)
          /\ x.open => NoLaterWrite(l2Queue[g], l2Rsp[g], hist[x.line], x.id, x.line)
      BY <1>5, <3>1 DEF ReadOK, SameEntry
    <3>3. Id(m) # x.id  BY <1>1, <1>2, <3>1 DEF SameEntry
    <3>4. x.open => ~ IsWrite(m, x.line)  BY <1>6, <2>1 DEF IsWrite
    <3> QED  BY <2>0, <3>2, <3>3, <3>4, OrderAppend
  <2> QED  BY <1>7, <2>1, <2>2 DEF ReadOK
<1>13. \A d \in Gpm : d # g =>
           /\ ownerTable'[d] = ownerTable[d] /\ l2Queue'[d] = l2Queue[d]
           /\ TableOK(d)' /\ L2OK(d)' /\ ReadOK(d)'
  BY <1>4, <1>6, <1>7, OwnerFrame DEF WayInv
<1>14. toOutside[g] # <<>> /\ k = PacketId(Head(toOutside[g]), g) /\ Retrieve(g)
  BY <1>0, <1>1, <1>2
<1>15. Owned(l2Queue'[g], g) /\ \A x \in ownerTable'[g] : Owner[x.line] = g  BY <1>6, <1>7
<1>16. TableOK(g)' /\ L2OK(g)' /\ ReadOK(g)'  BY <1>6, <1>11, <1>12
<1> QED  BY <1>0, <1>9, <1>10, <1>13, <1>14, <1>15, <1>16, TakenWay

LEMMA OwnerWriteBlockedWay ==
    ASSUME Type, WayInv, NEW g \in Gpm, NEW limit, OwnerWriteBlocked(g, limit)
    PROVE  WayInv'
<1>0. /\ UNCHANGED <<net, toOutside, setup, fromInside, entries, ownerRspQueue>>
      /\ UNCHANGED <<fromOutside, l2Queue, l2Rsp, hist>> /\ OwnerMerge
  BY DEF OwnerWriteBlocked, netVars, l1Vars, l2Vars, reqVars
<1>1. PICK l : ownerTable' = [ownerTable EXCEPT ![g] = OwnerCloseLines(ownerTable[g], l)]
  BY DEF OwnerWriteBlocked
<1>2. /\ TableOK(g)'
      /\ \A id : (\E y \in ownerTable[g] : y.id = id) <=> \E x \in ownerTable'[g] : x.id = id
      /\ \A x \in ownerTable'[g] : \E y \in ownerTable[g] : SameEntry(x, y)
      /\ \A x \in ownerTable'[g] : Owner[x.line] = g
      /\ \A d \in Gpm : d # g => ownerTable'[d] = ownerTable[d]
      /\ \A id : \A r \in Place : r[1] = "table" /\ Here(r, id)' => Here(r, id)
  BY <1>1, OwnerCloseWay
<1>3. L2OK(g) /\ ReadOK(g)  BY DEF WayInv
<1>4. PlacedOK'
  <2>1. ASSUME NEW id \in ReqId, NEW r \in Place, Here(r, id)' PROVE Here(r, id)
    <3>1. CASE r[1] = "table"  BY <1>2, <2>1, <3>1
    <3>2. CASE r[1] # "table"  BY <1>0, <2>1, <3>2 DEF Here
    <3> QED  BY <3>1, <3>2
  <2>2. \A id \in ReqId : Outstanding(id) => Outstanding(id)'  BY <1>0 DEF Outstanding
  <2> QED  BY <2>1, <2>2, KeepStep DEF WayInv
<1>5. SingleOK'  BY <1>0 DEF WayInv, SingleOK
<1>6. OwnedOK'  BY <1>0, <1>2 DEF WayInv, OwnedOK, ToOwner, reqs
<1>7. L2OK(g)'  BY <1>0, <1>2, <1>3 DEF L2OK
<1>8. ReadOK(g)'
  <2>1. ASSUME NEW x \in ownerTable'[g]
        PROVE  /\ ReadAt(l2Queue[g], x.id, x.line)
               /\ x.open => NoLaterWrite(l2Queue[g], l2Rsp[g], hist[x.line], x.id, x.line)
    <3>1. PICK y \in ownerTable[g] : SameEntry(x, y)  BY <1>2
    <3> QED  BY <1>3, <3>1 DEF ReadOK, SameEntry
  <2> QED  BY <1>0, <2>1 DEF ReadOK
<1>9. \A d \in Gpm : d # g => TableOK(d)' /\ L2OK(d)' /\ ReadOK(d)'
  BY <1>0, <1>2, OwnerFrame DEF WayInv
<1> QED  BY <1>2, <1>4, <1>5, <1>6, <1>7, <1>8, <1>9 DEF WayInv

\* A response of the L2: the requests of its entry are to be answered.
LEMMA OwnerL2RspWay ==
    ASSUME Type, WayInv, NEW g \in Gpm, OwnerL2Rsp(g)
    PROVE  WayInv'
<1>0. /\ UNCHANGED <<net, toOutside, setup, fromInside, entries, fromOutside, l2Queue, hist>>
      /\ l2Rsp[g] # <<>>
  BY DEF OwnerL2Rsp, netVars, l1Vars, reqVars
<1>e. PICK e \in ownerTable[g] :
          /\ e.id = Head(l2Rsp[g]).id
          /\ ownerTable' = [ownerTable EXCEPT ![g] = ownerTable[g] \ {e}]
          /\ ownerRspQueue' = [ownerRspQueue EXCEPT ![g] = Append(ownerRspQueue[g],
                 [reqs |-> e.reqs, ver |-> Head(l2Rsp[g]).ver,
                  multicast |-> OwnerMulticast /\ Len(e.reqs) > 1])]
  BY DEF OwnerL2Rsp
<1>x. PICK x : x = [reqs |-> e.reqs, ver |-> Head(l2Rsp[g]).ver,
                    multicast |-> OwnerMulticast /\ Len(e.reqs) > 1]
  OBVIOUS
<1>1. /\ e.id = Head(l2Rsp[g]).id
      /\ ownerTable' = [ownerTable EXCEPT ![g] = ownerTable[g] \ {e}]
      /\ ownerRspQueue' = [ownerRspQueue EXCEPT ![g] = Append(ownerRspQueue[g], x)]
      /\ x = [reqs |-> e.reqs, ver |-> Head(l2Rsp[g]).ver,
              multicast |-> OwnerMulticast /\ Len(e.reqs) > 1]
  BY <1>e, <1>x
<1>2. /\ ownerTable'[g] = ownerTable[g] \ {e}
      /\ \A d \in Gpm : d # g => ownerTable'[d] = ownerTable[d]
      /\ ownerRspQueue'[g] = Append(ownerRspQueue[g], x)
      /\ \A d \in Gpm : d # g => ownerRspQueue'[d] = ownerRspQueue[d]
      /\ l2Rsp'[g] = Tail(l2Rsp[g])
      /\ \A d \in Gpm : d # g => l2Rsp'[d] = l2Rsp[d]
  BY <1>1 DEF OwnerL2Rsp, Type, OwnerType, L2Type
<1>3. /\ l2Rsp[g] \in Seq(L2Item) /\ ownerRspQueue[g] \in Seq(RspItem)
      /\ e.id \in ReqId /\ e.reqs \in Requesters /\ e.reqs \in Seq(ReqId)
      /\ \A i \in 1 .. Len(e.reqs) : e.reqs[i] \in ReqId
  <2>1. l2Rsp[g] \in Seq(L2Item) /\ ownerRspQueue[g] \in Seq(RspItem)
        /\ e.id \in ReqId /\ e.reqs \in Seq(ReqId) /\ e.reqs # <<>>
    BY BufferTypes
  <2> QED  BY <2>1, SeqType DEF Requesters
<1>4. x \in RspItem /\ x.reqs = e.reqs
  <2>1. Head(l2Rsp[g]) \in L2Item  BY <1>0, <1>3, TailElements
  <2>2. Head(l2Rsp[g]).ver \in Nat  BY <2>1 DEF L2Item
  <2>3. (OwnerMulticast /\ Len(e.reqs) > 1) \in BOOLEAN  OBVIOUS
  <2>4. x.reqs = e.reqs  BY <1>1
  <2> QED  BY <1>1, <1>3, <2>2, <2>3, <2>4 DEF RspItem
<1>5. PlacedOK /\ SingleOK /\ OwnedOK /\ TableOK(g) /\ L2OK(g) /\ ReadOK(g)
      /\ DistinctAnswers(ownerRspQueue[g]) /\ DistinctL2Rsp(l2Rsp[g])
  BY DEF WayInv, SingleOK, L2OK
<1>6. PICK p, q : p = <<"table", g, g>> /\ q = <<"rsp", g, g>>  OBVIOUS
<1>7. /\ p \in Place /\ q \in Place /\ p # q
      /\ \A id : InReqs(e.reqs, id) => Here(p, id)
  BY <1>6 DEF Place, Here
<1>8. \A i \in 1 .. Len(e.reqs) : ~ InAnswers(ownerRspQueue[g], e.reqs[i])
  <2> TAKE i \in 1 .. Len(e.reqs)
  <2>1. PICK id \in ReqId : id = e.reqs[i]  BY <1>3
  <2>2. Here(p, id)  BY <1>7, <2>1 DEF InReqs
  <2> QED  BY <1>5, <1>6, <1>7, <2>1, <2>2, NowhereElse
<1>9. \A i, j \in 1 .. Len(e.reqs) : e.reqs[i] = e.reqs[j] => i = j  BY <1>5 DEF TableOK
<1>10. /\ DistinctAnswers(ownerRspQueue'[g])
       /\ \A id : InAnswers(ownerRspQueue'[g], id) <=>
                      InAnswers(ownerRspQueue[g], id) \/ InReqs(e.reqs, id)
  <2>1. /\ DistinctAnswers(Append(ownerRspQueue[g], x))
        /\ \A id : InAnswers(Append(ownerRspQueue[g], x), id) <=>
                       InAnswers(ownerRspQueue[g], id) \/ InReqs(e.reqs, id)
    BY <1>3, <1>4, <1>5, <1>8, <1>9, InAnswersAppend
  <2> QED  BY <1>2, <2>1
<1>11. PICK I : I = {id \in ReqId : InReqs(e.reqs, id)}  OBVIOUS
<1>12. PICK f : f = [id \in ReqId |-> q]  OBVIOUS
<1>13. \A y \in ownerTable[g] \ {e} : \A id : InReqs(y.reqs, id) => ~ InReqs(e.reqs, id)
  <2>1. \A y \in ownerTable[g] : \A i \in 1 .. Len(y.reqs), j \in 1 .. Len(e.reqs) :
            y.reqs[i] = e.reqs[j] => y = e
    BY <1>5 DEF TableOK
  <2> QED  BY <2>1 DEF InReqs
<1>14. ASSUME NEW id \in ReqId, NEW r \in Place, Here(r, id)'
       PROVE  (Here(r, id) /\ ~ (r = p /\ id \in I)) \/ (id \in I /\ r = f[id])
  <2>0. r = <<r[1], r[2], r[3]>> /\ r[2] \in Gpm /\ r[3] \in Gpm  BY DEF Place
  <2>1. CASE r[1] = "table"
    <3>1. r[2] = r[3] /\ \E y \in ownerTable'[r[2]] : InReqs(y.reqs, id)
      BY <1>14, <2>1 DEF Here
    <3>2. PICK y \in ownerTable'[r[2]] : InReqs(y.reqs, id)  BY <3>1
    <3>3. CASE r[2] # g
      <4>1. y \in ownerTable[r[2]] /\ r # p  BY <1>2, <1>6, <2>0, <3>2, <3>3
      <4> QED  BY <2>1, <3>1, <3>2, <4>1 DEF Here
    <3>4. CASE r[2] = g
      <4>1. y \in ownerTable[g] \ {e}  BY <1>2, <3>2, <3>4
      <4>2. id \notin I  BY <1>11, <1>13, <3>2, <4>1
      <4> QED  BY <2>1, <3>1, <3>2, <3>4, <4>1, <4>2 DEF Here
    <3> QED  BY <3>3, <3>4
  <2>2. CASE r[1] = "rsp"
    <3>1. r[2] = r[3] /\ InAnswers(ownerRspQueue'[r[2]], id)  BY <1>14, <2>2 DEF Here
    <3>2. InAnswers(ownerRspQueue[r[2]], id) \/ (id \in I /\ r = q)
      BY <1>2, <1>6, <1>10, <1>11, <2>0, <2>2, <3>1
    <3> QED  BY <1>6, <1>12, <2>2, <3>1, <3>2 DEF Here
  <2>3. CASE r[1] \notin {"table", "rsp"}  BY <1>0, <1>6, <1>14, <2>3 DEF Here
  <2> QED  BY <2>1, <2>2, <2>3
<1>15. \A id \in ReqId : Outstanding(id) => Outstanding(id)'  BY <1>0 DEF Outstanding
<1>16. PlacedOK'
  <2>1. I \in SUBSET ReqId /\ \A id \in I : Here(p, id)  BY <1>7, <1>11
  <2> QED  BY <1>5, <1>7, <1>14, <1>15, <2>1, MoveStep
<1>17. SingleOK'  BY <1>0, <1>2, <1>5, <1>10 DEF SingleOK
<1>18. OwnedOK'
  <2>1. \A d \in Gpm : \A y \in ownerTable'[d] : Owner[y.line] = d
    BY <1>2, <1>5 DEF OwnedOK
  <2> QED  BY <1>0, <1>5, <2>1 DEF OwnedOK, ToOwner, reqs
<1>19. TableOK(g)'  BY <1>2, <1>5 DEF TableOK
<1>20. /\ DistinctL2Rsp(l2Rsp'[g]) /\ InL2Rsp(l2Rsp[g], e.id)
       /\ \A id : InL2Rsp(l2Rsp'[g], id) <=> InL2Rsp(l2Rsp[g], id) /\ id # e.id
  BY <1>0, <1>1, <1>2, <1>3, <1>5, InL2RspTail
<1>21. L2OK(g)'
  <2>1. ASSUME NEW id \in ReqId, In(l2Queue[g], g, id) \/ InL2Rsp(l2Rsp'[g], id)
        PROVE  id \in fromOutside[g] \/ \E y \in ownerTable'[g] : y.id = id
    <3>1. id # e.id  BY <1>5, <1>20, <2>1 DEF L2OK
    <3>2. id \in fromOutside[g] \/ \E y \in ownerTable[g] : y.id = id
      BY <1>5, <1>20, <2>1 DEF L2OK
    <3> QED  BY <1>2, <3>1, <3>2
  <2>2. \A id \in ReqId : ~ (In(l2Queue[g], g, id) /\ InL2Rsp(l2Rsp'[g], id))
    BY <1>5, <1>20 DEF L2OK
  <2> QED  BY <1>0, <1>5, <1>20, <2>1, <2>2 DEF L2OK
<1>22. ReadOK(g)'
  <2>1. ASSUME NEW y \in ownerTable'[g]
        PROVE  /\ ReadAt(l2Queue[g], y.id, y.line)
               /\ y.open => NoLaterWrite(l2Queue[g], l2Rsp'[g], hist[y.line], y.id, y.line)
    <3>1. y \in ownerTable[g]  BY <1>2
    <3>2. /\ ReadAt(l2Queue[g], y.id, y.line)
          /\ y.open => NoLaterWrite(l2Queue[g], l2Rsp[g], hist[y.line], y.id, y.line)
      BY <1>5, <3>1 DEF ReadOK
    <3>3. PICK id, l : id = y.id /\ l = y.line  OBVIOUS
    <3>4. PICK h : h = hist[y.line]  OBVIOUS
    <3>5. NoLaterWrite(l2Queue[g], l2Rsp[g], h, id, l) =>
              NoLaterWrite(l2Queue[g], Tail(l2Rsp[g]), h, id, l)
      BY <1>0, <1>3, OrderRsp
    <3> QED  BY <1>2, <3>2, <3>3, <3>4, <3>5
  <2>2. ~ OwnerMerge => ownerTable'[g] = {}  BY <1>2, <1>5 DEF ReadOK
  <2> QED  BY <1>0, <2>1, <2>2 DEF ReadOK
<1>23. \A d \in Gpm : d # g => TableOK(d)' /\ L2OK(d)' /\ ReadOK(d)'
  BY <1>0, <1>2, OwnerFrame DEF WayInv
<1> QED  BY <1>16, <1>17, <1>18, <1>19, <1>21, <1>22, <1>23 DEF WayInv

\* The packet of a response belongs to the request that it answers.
LEMMA ResponsePacket ==
    ASSUME NEW id \in ReqId, NEW ver \in Nat
    PROVE  /\ id[1] \in Gpm /\ Rsp(id, ver) \in Msg /\ Rsp(id, ver).type # "req"
           /\ PacketId(Rsp(id, ver), id[1]) = id
<1>1. id = <<id[1], id[2]>> /\ id[1] \in Gpm /\ id[2] \in Nat  BY DEF ReqId
<1>2. PICK m : m = Rsp(id, ver)  OBVIOUS
<1>3. m.type = "rsp" /\ m.seq = id[2]  BY <1>2 DEF Rsp
<1>4. m \in RspMsg  BY <1>1, <1>2 DEF RspMsg, Rsp
<1> QED  BY <1>1, <1>2, <1>3, <1>4 DEF PacketId, Msg

\* A response of the L2 to a request of the baseline.
LEMMA ForwardFromL2Way ==
    ASSUME Type, WayInv, NEW g \in Gpm, ForwardFromL2(g), UNCHANGED <<reqVars, ownerVars>>
    PROVE  WayInv'
<1>0. /\ UNCHANGED <<toOutside, setup, fromInside, entries, l2Queue, hist>>
      /\ UNCHANGED <<ownerTable, ownerRspQueue>> /\ l2Rsp[g] # <<>>
  BY DEF ForwardFromL2, l1Vars, reqVars, ownerVars
<1>1. PICK k, v : k = Head(l2Rsp[g]).id /\ v = Head(l2Rsp[g]).ver  OBVIOUS
<1>2. l2Rsp[g] \in Seq(L2Item)  BY BufferTypes
<1>3. k \in ReqId /\ v \in Nat
  <2>1. Head(l2Rsp[g]) \in L2Item  BY <1>0, <1>2, TailElements
  <2> QED  BY <1>1, <2>1 DEF L2Item
<1>4. PICK d, m : d = k[1] /\ m = Rsp(k, v)  OBVIOUS
<1>5. d \in Gpm /\ m \in Msg /\ m.type # "req" /\ k = PacketId(m, d)
  BY <1>3, <1>4, ResponsePacket
<1>6. /\ k \in fromOutside[g] /\ Send(g, d, m)
      /\ fromOutside' = [fromOutside EXCEPT ![g] = fromOutside[g] \ {k}]
      /\ l2Rsp' = [l2Rsp EXCEPT ![g] = Tail(l2Rsp[g])]
  BY <1>1, <1>4 DEF ForwardFromL2, Rsp
<1>7. /\ fromOutside'[g] = fromOutside[g] \ {k}
      /\ \A h \in Gpm : h # g => fromOutside'[h] = fromOutside[h]
      /\ l2Rsp'[g] = Tail(l2Rsp[g])
      /\ \A h \in Gpm : h # g => l2Rsp'[h] = l2Rsp[h]
  BY <1>6 DEF Type, L2Type
<1>8. /\ PlacedOK /\ SingleOK /\ OwnedOK /\ L2OK(g) /\ ReadOK(g) /\ TableOK(g)
      /\ DistinctL2Rsp(l2Rsp[g])
  BY DEF WayInv, L2OK
<1>9. PICK p, q : p = <<"base", g, g>> /\ q = <<"net", g, d>>  OBVIOUS
<1>10. p \in Place /\ q \in Place /\ p # q /\ Here(p, k)
  BY <1>5, <1>6, <1>9 DEF Place, Here
<1>11. ~ In(net[g][d], d, k)  BY <1>3, <1>5, <1>8, <1>9, <1>10, NowhereElse
<1>12. /\ \A s, h \in Gpm : Distinct(net'[s][h], h) /\ Owned(net'[s][h], h)
       /\ \A id : \A r \in Place : r[1] = "net" /\ Here(r, id)' =>
              Here(r, id) \/ (id = k /\ r = q)
  BY <1>5, <1>6, <1>9, <1>11, SendWay
<1>13. ASSUME NEW id \in ReqId, NEW r \in Place, Here(r, id)'
       PROVE  (Here(r, id) /\ ~ (r = p /\ id = k)) \/ (id = k /\ r = q)
  <2>0. r = <<r[1], r[2], r[3]>> /\ r[2] \in Gpm /\ r[3] \in Gpm  BY DEF Place
  <2>1. CASE r[1] = "net"
    <3>1. r # p  BY <1>9, <2>1
    <3> QED  BY <1>12, <1>13, <2>1, <3>1
  <2>2. CASE r[1] = "base"
    <3>1. r[2] = r[3] /\ id \in fromOutside'[r[2]]  BY <1>13, <2>2 DEF Here
    <3>2. id \in fromOutside[r[2]] /\ ~ (r = p /\ id = k)  BY <1>7, <1>9, <2>0, <3>1
    <3> QED  BY <2>2, <3>1, <3>2 DEF Here
  <2>3. CASE r[1] \notin {"net", "base"}  BY <1>0, <1>9, <1>13, <2>3 DEF Here
  <2> QED  BY <2>1, <2>2, <2>3
<1>14. \A id \in ReqId : Outstanding(id) => Outstanding(id)'  BY <1>0 DEF Outstanding
<1>15. PlacedOK'  BY <1>3, <1>8, <1>10, <1>13, <1>14, MoveOne
<1>16. SingleOK'  BY <1>0, <1>8, <1>12 DEF SingleOK
<1>17. OwnedOK'  BY <1>0, <1>8, <1>12 DEF OwnedOK, ToOwner, reqs
<1>18. TableOK(g)'  BY <1>0, <1>8 DEF TableOK
<1>19. /\ DistinctL2Rsp(l2Rsp'[g]) /\ InL2Rsp(l2Rsp[g], k)
       /\ \A id : InL2Rsp(l2Rsp'[g], id) <=> InL2Rsp(l2Rsp[g], id) /\ id # k
  BY <1>0, <1>1, <1>2, <1>7, <1>8, InL2RspTail
<1>20. L2OK(g)'
  <2>1. ASSUME NEW id \in ReqId, In(l2Queue[g], g, id) \/ InL2Rsp(l2Rsp'[g], id)
        PROVE  id \in fromOutside'[g] \/ \E y \in ownerTable[g] : y.id = id
    <3>1. id # k  BY <1>8, <1>19, <2>1 DEF L2OK
    <3>2. id \in fromOutside[g] \/ \E y \in ownerTable[g] : y.id = id
      BY <1>8, <1>19, <2>1 DEF L2OK
    <3> QED  BY <1>7, <3>1, <3>2
  <2>2. \A id \in ReqId : ~ (In(l2Queue[g], g, id) /\ InL2Rsp(l2Rsp'[g], id))
    BY <1>8, <1>19 DEF L2OK
  <2> QED  BY <1>0, <1>8, <1>19, <2>1, <2>2 DEF L2OK
<1>21. ReadOK(g)'
  <2>1. ASSUME NEW y \in ownerTable[g]
        PROVE  /\ ReadAt(l2Queue[g], y.id, y.line)
               /\ y.open => NoLaterWrite(l2Queue[g], l2Rsp'[g], hist[y.line], y.id, y.line)
    <3>1. /\ ReadAt(l2Queue[g], y.id, y.line)
          /\ y.open => NoLaterWrite(l2Queue[g], l2Rsp[g], hist[y.line], y.id, y.line)
      BY <1>8 DEF ReadOK
    <3>2. PICK id, l, h : id = y.id /\ l = y.line /\ h = hist[y.line]  OBVIOUS
    <3>3. NoLaterWrite(l2Queue[g], l2Rsp[g], h, id, l) =>
              NoLaterWrite(l2Queue[g], Tail(l2Rsp[g]), h, id, l)
      BY <1>0, <1>2, OrderRsp
    <3> QED  BY <1>7, <3>1, <3>2, <3>3
  <2>2. ~ OwnerMerge => ownerTable[g] = {}  BY <1>8 DEF ReadOK
  <2> QED  BY <1>0, <2>1, <2>2 DEF ReadOK
<1>22. \A h \in Gpm : h # g => TableOK(h)' /\ L2OK(h)' /\ ReadOK(h)'
  BY <1>0, <1>7, OwnerFrame DEF WayInv
<1> QED  BY <1>15, <1>16, <1>17, <1>18, <1>20, <1>21, <1>22 DEF WayInv

\* A response is sent to the one requester of an entry, or to the first of them.
LEMMA SendUnicastWay ==
    ASSUME Type, WayInv, NEW g \in Gpm, SendUnicast(g)
    PROVE  WayInv'
<1>0. /\ UNCHANGED <<toOutside, setup, fromInside, entries, fromOutside, l2Queue, l2Rsp, hist>>
      /\ ownerTable' = ownerTable /\ ownerRspQueue[g] # <<>>
  BY DEF SendUnicast, l1Vars, l2Vars, reqVars
<1>1. PICK e, k : e = Head(ownerRspQueue[g]) /\ k = Head(e.reqs)  OBVIOUS
<1>2. ownerRspQueue[g] \in Seq(RspItem)  BY BufferTypes
<1>3. e \in RspItem /\ e.reqs \in Seq(ReqId) /\ e.reqs # <<>> /\ e.ver \in Nat
  <2>1. e \in RspItem  BY <1>0, <1>1, <1>2, TailElements
  <2> QED  BY <2>1 DEF RspItem, Requesters
<1>4. k \in ReqId /\ k = e.reqs[1] /\ 1 \in 1 .. Len(e.reqs)  BY <1>1, <1>3, TailElements
<1>5. PICK d, m : d = k[1] /\ m = Rsp(k, e.ver)  OBVIOUS
<1>6. d \in Gpm /\ m \in Msg /\ m.type # "req" /\ k = PacketId(m, d)
  BY <1>3, <1>4, <1>5, ResponsePacket
<1>7. Send(g, d, m)  BY <1>1, <1>5 DEF SendUnicast
<1>8. PlacedOK /\ SingleOK /\ OwnedOK /\ DistinctAnswers(ownerRspQueue[g])
  BY DEF WayInv, SingleOK
<1>9. /\ DistinctAnswers(ownerRspQueue'[g]) /\ InAnswers(ownerRspQueue[g], k)
      /\ \A id : InAnswers(ownerRspQueue'[g], id) => InAnswers(ownerRspQueue[g], id) /\ id # k
      /\ \A h \in Gpm : h # g => ownerRspQueue'[h] = ownerRspQueue[h]
  <2>0. PICK t : t = Tail(ownerRspQueue[g])  OBVIOUS
  <2>1. CASE Len(e.reqs) = 1
    <3>1. ownerRspQueue' = [ownerRspQueue EXCEPT ![g] = <<>> \o t]
      BY <1>1, <2>0, <2>1 DEF SendUnicast
    <3>2. <<>> \o t = t
      <4>1. t \in Seq(RspItem)  BY <1>0, <1>2, <2>0, TailElements
      <4> QED  BY <4>1
    <3>3. /\ ownerRspQueue'[g] = t
          /\ \A h \in Gpm : h # g => ownerRspQueue'[h] = ownerRspQueue[h]
      BY <3>1, <3>2 DEF Type, OwnerType
    <3>4. /\ DistinctAnswers(t)
          /\ \A i \in 1 .. Len(e.reqs) : InAnswers(ownerRspQueue[g], e.reqs[i])
          /\ \A id : InAnswers(t, id) => InAnswers(ownerRspQueue[g], id) /\ ~ InReqs(e.reqs, id)
      BY <1>0, <1>1, <1>2, <1>8, <2>0, InAnswersTail
    <3>5. InReqs(e.reqs, k)  BY <1>4 DEF InReqs
    <3> QED  BY <1>4, <3>3, <3>4, <3>5
  <2>2. CASE Len(e.reqs) # 1
    <3>0. PICK f : f = [e EXCEPT !.reqs = Tail(e.reqs)]  OBVIOUS
    <3>1. ownerRspQueue' = [ownerRspQueue EXCEPT ![g] = <<f>> \o t]
      BY <1>1, <2>0, <2>2, <3>0 DEF SendUnicast
    <3>2. /\ ownerRspQueue'[g] = <<f>> \o t
          /\ \A h \in Gpm : h # g => ownerRspQueue'[h] = ownerRspQueue[h]
      BY <3>1 DEF Type, OwnerType
    <3>3. f \in RspItem /\ f.reqs = Tail(e.reqs)
      <4>1. Tail(e.reqs) \in Seq(ReqId) /\ Len(Tail(e.reqs)) # 0
        <5>1. /\ Len(e.reqs) \in Nat \ {0} /\ Tail(e.reqs) \in Seq(ReqId)
              /\ Len(Tail(e.reqs)) = Len(e.reqs) - 1
          BY <1>3, TailElements
        <5> QED  BY <2>2, <5>1
      <4>2. Tail(e.reqs) \in Requesters  BY <4>1, SeqType DEF Requesters
      <4>3. f \in RspItem  BY <1>3, <3>0, <4>2, Zenon DEF RspItem
      <4>4. f.reqs = Tail(e.reqs)  BY <1>3, <3>0 DEF RspItem
      <4> QED  BY <4>3, <4>4
    <3>4. /\ DistinctAnswers(<<f>> \o t) /\ InAnswers(ownerRspQueue[g], k)
          /\ \A id : InAnswers(<<f>> \o t, id) => InAnswers(ownerRspQueue[g], id) /\ id # k
      BY <1>0, <1>1, <1>2, <1>3, <1>8, <2>0, <3>3, InAnswersFirst
    <3> QED  BY <3>2, <3>4
  <2> QED  BY <2>1, <2>2
<1>10. PICK p, q : p = <<"rsp", g, g>> /\ q = <<"net", g, d>>  OBVIOUS
<1>11. p \in Place /\ q \in Place /\ p # q /\ Here(p, k)
  BY <1>6, <1>9, <1>10 DEF Place, Here
<1>12. ~ In(net[g][d], d, k)  BY <1>4, <1>6, <1>8, <1>10, <1>11, NowhereElse
<1>13. /\ \A s, h \in Gpm : Distinct(net'[s][h], h) /\ Owned(net'[s][h], h)
       /\ \A id : \A r \in Place : r[1] = "net" /\ Here(r, id)' =>
              Here(r, id) \/ (id = k /\ r = q)
  BY <1>6, <1>7, <1>10, <1>12, SendWay
<1>14. ASSUME NEW id \in ReqId, NEW r \in Place, Here(r, id)'
       PROVE  (Here(r, id) /\ ~ (r = p /\ id = k)) \/ (id = k /\ r = q)
  <2>0. r = <<r[1], r[2], r[3]>> /\ r[2] \in Gpm /\ r[3] \in Gpm  BY DEF Place
  <2>1. CASE r[1] = "net"
    <3>1. r # p  BY <1>10, <2>1
    <3> QED  BY <1>13, <1>14, <2>1, <3>1
  <2>2. CASE r[1] = "rsp"
    <3>1. r[2] = r[3] /\ InAnswers(ownerRspQueue'[r[2]], id)  BY <1>14, <2>2 DEF Here
    <3>2. InAnswers(ownerRspQueue[r[2]], id) /\ ~ (r = p /\ id = k)
      BY <1>9, <1>10, <2>0, <3>1
    <3> QED  BY <2>2, <3>1, <3>2 DEF Here
  <2>3. CASE r[1] \notin {"net", "rsp"}  BY <1>0, <1>10, <1>14, <2>3 DEF Here
  <2> QED  BY <2>1, <2>2, <2>3
<1>15. \A id \in ReqId : Outstanding(id) => Outstanding(id)'  BY <1>0 DEF Outstanding
<1>16. PlacedOK'  BY <1>4, <1>8, <1>11, <1>14, <1>15, MoveOne
<1>17. SingleOK'  BY <1>0, <1>8, <1>9, <1>13 DEF SingleOK
<1>18. OwnedOK'  BY <1>0, <1>8, <1>13 DEF OwnedOK, ToOwner, reqs
<1>19. \A h \in Gpm : TableOK(h)' /\ L2OK(h)' /\ ReadOK(h)'  BY <1>0, OwnersFrame
<1> QED  BY <1>16, <1>17, <1>18, <1>19 DEF WayInv

\* One response is sent to all the requesters of an entry.
LEMMA SendMulticastWay ==
    ASSUME Type, WayInv, NEW g \in Gpm, SendMulticast(g)
    PROVE  WayInv'
<1>0. /\ UNCHANGED <<toOutside, setup, fromInside, entries, fromOutside, l2Queue, l2Rsp, hist>>
      /\ ownerTable' = ownerTable /\ ownerRspQueue[g] # <<>>
  BY DEF SendMulticast, l1Vars, l2Vars, reqVars
<1>1. PICK e : e = Head(ownerRspQueue[g])  OBVIOUS
<1>2. ownerRspQueue[g] \in Seq(RspItem)  BY BufferTypes
<1>3. e \in RspItem /\ e.reqs \in Seq(ReqId) /\ e.ver \in Nat
  <2>1. e \in RspItem  BY <1>0, <1>1, <1>2, TailElements
  <2> QED  BY <2>1 DEF RspItem, Requesters
<1>4. PlacedOK /\ SingleOK /\ OwnedOK /\ DistinctAnswers(ownerRspQueue[g])
  BY DEF WayInv, SingleOK
<1>5. /\ ownerRspQueue'[g] = Tail(ownerRspQueue[g])
      /\ \A h \in Gpm : h # g => ownerRspQueue'[h] = ownerRspQueue[h]
  BY DEF SendMulticast, Type, OwnerType
<1>6. /\ DistinctAnswers(ownerRspQueue'[g])
      /\ \A i \in 1 .. Len(e.reqs) : InAnswers(ownerRspQueue[g], e.reqs[i])
      /\ \A id : InAnswers(ownerRspQueue'[g], id) =>
                     InAnswers(ownerRspQueue[g], id) /\ ~ InReqs(e.reqs, id)
  BY <1>0, <1>1, <1>2, <1>4, <1>5, InAnswersTail
<1>7. PICK I : I = {id \in ReqId : InReqs(e.reqs, id)}  OBVIOUS
<1>8. PICK p : p = <<"rsp", g, g>>  OBVIOUS
<1>9. p \in Place /\ \A id \in I : Here(p, id)
  BY <1>6, <1>7, <1>8 DEF Place, Here, InReqs
<1>10. \A h \in Gpm : h # g => net'[h] = net[h]
  BY DEF SendMulticast, Multicast, Type, NetType
<1>11. ASSUME NEW d \in Gpm
       PROVE  \/ net'[g][d] = net[g][d]
              \/ \E k \in I : k[1] = d /\ net'[g][d] = Append(net[g][d], Rsp(k, e.ver))
  <2> DEFINE To == {e.reqs[i][1] : i \in DOMAIN e.reqs}
             IdOf(c) == CHOOSE id \in Range(e.reqs) : id[1] = c
  <2>1. net' = [net EXCEPT ![g] = [c \in Gpm |->
                    IF c \in DOMAIN [b \in To |-> Rsp(IdOf(b), e.ver)]
                    THEN Append(net[g][c], [b \in To |-> Rsp(IdOf(b), e.ver)][c]) ELSE net[g][c]]]
    BY <1>1 DEF SendMulticast, Multicast
  <2>2. PICK k : k = IdOf(d)  OBVIOUS
  <2>3. net'[g][d] = IF d \in To THEN Append(net[g][d], Rsp(k, e.ver)) ELSE net[g][d]
    <3> HIDE DEF To, IdOf
    <3> QED  BY <2>1, <2>2 DEF Type, NetType
  <2>4. CASE d \in To
    <3>1. k \in Range(e.reqs) /\ k \in ReqId /\ k[1] = d  BY <1>3, <2>2, <2>4, MulticastElements
    <3>2. InReqs(e.reqs, k)  BY <1>3, <3>1, SeqType DEF Range, InReqs
    <3> HIDE DEF To, IdOf
    <3> QED  BY <1>7, <2>3, <2>4, <3>1, <3>2
  <2>5. CASE d \notin To
    <3> HIDE DEF To, IdOf
    <3> QED  BY <2>3, <2>5
  <2> QED  BY <2>4, <2>5
<1>12. ASSUME NEW d \in Gpm
       PROVE  /\ Distinct(net'[g][d], d) /\ Owned(net'[g][d], d)
              /\ \A id : In(net'[g][d], d, id) => In(net[g][d], d, id) \/ (id \in I /\ id[1] = d)
  <2>0. net[g][d] \in Seq(Msg) /\ Distinct(net[g][d], d) /\ Owned(net[g][d], d)
    BY <1>4, BufferTypes DEF SingleOK, OwnedOK
  <2>1. CASE net'[g][d] = net[g][d]  BY <2>0, <2>1
  <2>2. CASE \E k \in I : k[1] = d /\ net'[g][d] = Append(net[g][d], Rsp(k, e.ver))
    <3>1. PICK k \in I : k[1] = d /\ net'[g][d] = Append(net[g][d], Rsp(k, e.ver))  BY <2>2
    <3>2. PICK m : m = Rsp(k, e.ver)  OBVIOUS
    <3>3. k \in ReqId /\ m \in Msg /\ m.type # "req" /\ PacketId(m, d) = k
      BY <1>3, <1>7, <3>1, <3>2, ResponsePacket
    <3>4. ~ In(net[g][d], d, k)
      <4>1. p # <<"net", g, d>>  BY <1>8
      <4> QED  BY <1>4, <1>9, <3>3, <4>1, NowhereElse
    <3>5. /\ Distinct(Append(net[g][d], m), d)
          /\ \A id : In(Append(net[g][d], m), d, id) <=> In(net[g][d], d, id) \/ id = k
      BY <2>0, <3>3, <3>4, InAppend
    <3>6. Owned(Append(net[g][d], m), d)  BY <2>0, <3>3, OwnedKept
    <3> QED  BY <3>1, <3>2, <3>5, <3>6
  <2> QED  BY <1>11, <2>1, <2>2
<1>13. PICK f : f = [id \in ReqId |-> <<"net", g, id[1]>>]  OBVIOUS
<1>14. ASSUME NEW id \in ReqId, NEW r \in Place, Here(r, id)'
       PROVE  (Here(r, id) /\ ~ (r = p /\ id \in I)) \/ (id \in I /\ r = f[id])
  <2>0. r = <<r[1], r[2], r[3]>> /\ r[2] \in Gpm /\ r[3] \in Gpm  BY DEF Place
  <2>1. CASE r[1] = "net"
    <3>1. In(net'[r[2]][r[3]], r[3], id) /\ r # p  BY <1>8, <1>14, <2>1 DEF Here
    <3>2. In(net[r[2]][r[3]], r[3], id) \/ (id \in I /\ r[2] = g /\ r[3] = id[1])
      BY <1>10, <1>12, <2>0, <3>1
    <3>3. id \in I /\ r[2] = g /\ r[3] = id[1] => r = f[id]  BY <1>13, <2>0, <2>1
    <3> QED  BY <2>1, <3>1, <3>2, <3>3 DEF Here
  <2>2. CASE r[1] = "rsp"
    <3>1. r[2] = r[3] /\ InAnswers(ownerRspQueue'[r[2]], id)  BY <1>14, <2>2 DEF Here
    <3>2. InAnswers(ownerRspQueue[r[2]], id) /\ ~ (r = p /\ id \in I)
      BY <1>5, <1>6, <1>7, <1>8, <2>0, <3>1
    <3> QED  BY <2>2, <3>1, <3>2 DEF Here
  <2>3. CASE r[1] \notin {"net", "rsp"}  BY <1>0, <1>8, <1>14, <2>3 DEF Here
  <2> QED  BY <2>1, <2>2, <2>3
<1>15. \A id \in ReqId : Outstanding(id) => Outstanding(id)'  BY <1>0 DEF Outstanding
<1>16. PlacedOK'
  <2>1. I \in SUBSET ReqId  BY <1>7
  <2> QED  BY <1>4, <1>9, <1>14, <1>15, <2>1, MoveStep
<1>17. \A s, d \in Gpm : Distinct(net'[s][d], d) /\ Owned(net'[s][d], d)
  BY <1>4, <1>10, <1>12 DEF SingleOK, OwnedOK
<1>18. SingleOK'  BY <1>0, <1>4, <1>5, <1>6, <1>17 DEF SingleOK
<1>19. OwnedOK'  BY <1>0, <1>4, <1>17 DEF OwnedOK, ToOwner, reqs
<1>20. \A h \in Gpm : TableOK(h)' /\ L2OK(h)' /\ ReadOK(h)'  BY <1>0, OwnersFrame
<1> QED  BY <1>16, <1>18, <1>19, <1>20 DEF WayInv

-------------------------------------------------------------------------------
\* The L2 serves a request: reads and writes of the line keep their order.
LEMMA L2ServeWay ==
    ASSUME Type, WayInv, NEW g \in Gpm, L2Serve(g), UNCHANGED <<reqVars, ownerVars>>
    PROVE  WayInv'
<1>0. /\ UNCHANGED <<net, toOutside, setup, fromInside, entries, fromOutside>>
      /\ UNCHANGED <<ownerTable, ownerRspQueue>>
  BY DEF L2Serve, netVars, l1Vars, reqVars, ownerVars
<1>1. l2Queue[g] \in Seq(ReqMsg) /\ l2Queue[g] \in Seq(Msg) /\ l2Rsp[g] \in Seq(L2Item)
  BY BufferTypes
<1>2. PICK i \in 1 .. Len(l2Queue[g]) :
          /\ \A j \in 1 .. i - 1 : l2Queue[g][j].line # l2Queue[g][i].line
          /\ LET m == l2Queue[g][i]
                 after == IF m.op = "write" THEN Append(hist[m.line], Id(m)) ELSE hist[m.line]
             IN  /\ hist' = [hist EXCEPT ![m.line] = after]
                 /\ l2Queue' = [l2Queue EXCEPT ![g] = RemoveAt(l2Queue[g], i)]
                 /\ l2Rsp' = [l2Rsp EXCEPT ![g] =
                                  Append(l2Rsp[g], [id |-> Id(m), ver |-> Len(after)])]
  <2>1. DOMAIN l2Queue[g] = 1 .. Len(l2Queue[g])  BY <1>1, SeqType
  <2>2. \A i \in DOMAIN l2Queue[g] : i \in 1 .. Len(l2Queue[g])  BY <2>1
  <2> QED  BY <2>2, Zenon DEF L2Serve
<1>3. PICK m, k : m = l2Queue[g][i] /\ k = Id(m)  OBVIOUS
<1>4. m \in ReqMsg /\ k \in ReqId /\ k = PacketId(m, g) /\ m.line \in Line
  <2>1. m \in ReqMsg  BY <1>1, <1>3, SeqType
  <2> QED  BY <1>3, <2>1, PacketIdType DEF Msg
<1>5. PICK after : after = IF m.op = "write" THEN Append(hist[m.line], k) ELSE hist[m.line]
  OBVIOUS
<1>6. PICK x : x = [id |-> k, ver |-> Len(after)]  OBVIOUS
<1>7. hist[m.line] \in Seq(ReqId) /\ after \in Seq(ReqId) /\ Len(after) \in Nat
      /\ Len(after) = IF m.op = "write" THEN Len(hist[m.line]) + 1 ELSE Len(hist[m.line])
  <2>1. hist[m.line] \in Seq(ReqId)  BY <1>4 DEF Type, L2Type
  <2> QED  BY <1>4, <1>5, <2>1, AppendElements, SeqType
<1>8. x \in L2Item /\ x.id = k /\ x.ver = Len(after) /\ x.ver \in Nat
  BY <1>4, <1>6, <1>7 DEF L2Item
<1>9. /\ l2Queue'[g] = RemoveAt(l2Queue[g], i) /\ l2Rsp'[g] = Append(l2Rsp[g], x)
      /\ \A d \in Gpm : d # g => l2Queue'[d] = l2Queue[d] /\ l2Rsp'[d] = l2Rsp[d]
      /\ \A l \in Line : hist'[l] = IF l = m.line THEN after ELSE hist[l]
  BY <1>2, <1>3, <1>5, <1>6 DEF Type, L2Type
<1>10. /\ PlacedOK /\ SingleOK /\ OwnedOK /\ TableOK(g) /\ L2OK(g) /\ ReadOK(g)
       /\ Distinct(l2Queue[g], g) /\ DistinctL2Rsp(l2Rsp[g]) /\ Owned(l2Queue[g], g)
  BY DEF WayInv, L2OK, OwnedOK
<1>11. In(l2Queue[g], g, k) /\ ~ InL2Rsp(l2Rsp[g], k) /\ Owner[m.line] = g
  <2>1. In(l2Queue[g], g, k)  BY <1>2, <1>3, <1>4 DEF In
  <2>2. m.type = "req"  BY <1>4 DEF ReqMsg
  <2> QED  BY <1>2, <1>3, <1>4, <1>10, <2>1, <2>2 DEF L2OK, Owned
<1>12. /\ Distinct(l2Queue'[g], g) /\ Owned(l2Queue'[g], g)
       /\ \A id : In(l2Queue'[g], g, id) <=> In(l2Queue[g], g, id) /\ id # k
  BY <1>1, <1>2, <1>3, <1>4, <1>9, <1>10, InRemoveAt, OwnedKept
<1>13. /\ DistinctL2Rsp(l2Rsp'[g])
       /\ \A id : InL2Rsp(l2Rsp'[g], id) <=> InL2Rsp(l2Rsp[g], id) \/ id = k
  <2>1. /\ DistinctL2Rsp(Append(l2Rsp[g], x))
        /\ \A id : InL2Rsp(Append(l2Rsp[g], x), id) <=> InL2Rsp(l2Rsp[g], id) \/ id = x.id
    BY <1>1, <1>8, <1>10, <1>11, InL2RspAppend
  <2> QED  BY <1>8, <1>9, <2>1
<1>14. \A id \in ReqId : \A r \in Place : Here(r, id)' => Here(r, id)  BY <1>0 DEF Here
<1>15. \A id \in ReqId : Outstanding(id) => Outstanding(id)'  BY <1>0 DEF Outstanding
<1>16. PlacedOK'  BY <1>10, <1>14, <1>15, KeepStep
<1>17. SingleOK'  BY <1>0, <1>10 DEF SingleOK
<1>18. OwnedOK'
  <2>1. \A d \in Gpm : Owned(l2Queue'[d], d)  BY <1>9, <1>10, <1>12 DEF OwnedOK
  <2> QED  BY <1>0, <1>10, <2>1 DEF OwnedOK, ToOwner, reqs
<1>19. TableOK(g)'  BY <1>0, <1>10 DEF TableOK
<1>20. L2OK(g)'
  <2>1. ASSUME NEW id \in ReqId, In(l2Queue'[g], g, id) \/ InL2Rsp(l2Rsp'[g], id)
        PROVE  id \in fromOutside[g] \/ \E y \in ownerTable[g] : y.id = id
    <3>1. In(l2Queue[g], g, id) \/ InL2Rsp(l2Rsp[g], id)  BY <1>11, <1>12, <1>13, <2>1
    <3> QED  BY <1>10, <3>1 DEF L2OK
  <2>2. \A id \in ReqId : ~ (In(l2Queue'[g], g, id) /\ InL2Rsp(l2Rsp'[g], id))
    BY <1>10, <1>12, <1>13 DEF L2OK
  <2> QED  BY <1>0, <1>12, <1>13, <2>1, <2>2 DEF L2OK
<1>21. ReadOK(g)'
  <2>1. \A a, b \in 1 .. Len(l2Queue[g]) : Id(l2Queue[g][a]) = Id(l2Queue[g][b]) => a = b
    <3>1. \A a \in 1 .. Len(l2Queue[g]) : PacketId(l2Queue[g][a], g) = Id(l2Queue[g][a])
      <4> TAKE a \in 1 .. Len(l2Queue[g])
      <4>1. l2Queue[g][a] \in ReqMsg  BY <1>1, SeqType
      <4> QED  BY <4>1, PacketIdType DEF Msg
    <3> QED  BY <1>10, <3>1 DEF Distinct
  <2>2. \A a \in 1 .. Len(l2Rsp[g]) : l2Rsp[g][a].id # k  BY <1>11 DEF InL2Rsp
  <2>3. ASSUME NEW y \in ownerTable[g]
        PROVE  /\ ReadAt(l2Queue'[g], y.id, y.line)
               /\ y.open => NoLaterWrite(l2Queue'[g], l2Rsp'[g], hist'[y.line], y.id, y.line)
    <3>1. /\ ReadAt(l2Queue[g], y.id, y.line)
          /\ y.open => NoLaterWrite(l2Queue[g], l2Rsp[g], hist[y.line], y.id, y.line)
      BY <1>10 DEF ReadOK
    <3>2. PICK id, l, h, z : id = y.id /\ l = y.line /\ h = hist[y.line] /\ z = hist'[y.line]
      OBVIOUS
    <3>3. id \in ReqId /\ l \in Line /\ h \in Seq(ReqId)
      <4>1. y.id \in ReqId /\ y.line \in Line  BY BufferTypes
      <4> QED  BY <3>2, <4>1 DEF Type, L2Type
    <3>4. m.line = l => x.ver = IF m.op = "write" THEN Len(h) + 1 ELSE Len(h)
      BY <1>7, <1>8, <3>2
    <3>5. z = IF IsWrite(m, l) THEN Append(h, k) ELSE h
      BY <1>5, <1>9, <3>2, <3>3 DEF IsWrite
    <3>6. ReadAt(l2Queue[g], id, l)  BY <3>1, <3>2
    <3>7. \A j \in 1 .. i - 1 : l2Queue[g][j].line # m.line  BY <1>2, <1>3
    <3>8. /\ ReadAt(RemoveAt(l2Queue[g], i), id, l)
          /\ NoLaterWrite(l2Queue[g], l2Rsp[g], h, id, l) =>
                 NoLaterWrite(RemoveAt(l2Queue[g], i), Append(l2Rsp[g], x), z, id, l)
      <4>1. PICK q, r : q = l2Queue[g] /\ r = l2Rsp[g]  OBVIOUS
      <4>2. q \in Seq(ReqMsg) /\ r \in Seq(L2Item)  BY <1>1, <4>1
      <4>3. /\ i \in 1 .. Len(q) /\ m = q[i] /\ \A j \in 1 .. i - 1 : q[j].line # m.line
            /\ \A a, b \in 1 .. Len(q) : Id(q[a]) = Id(q[b]) => a = b
        BY <1>3, <2>1, <3>7, <4>1
      <4>4. \A a \in 1 .. Len(r) : r[a].id # k  BY <2>2, <4>1
      <4>5. k \in ReqId /\ k = Id(m) /\ x \in L2Item /\ x.id = k  BY <1>3, <1>4, <1>8
      <4>6. Serves(q, r, h, i, m, k, x)  BY <3>3, <4>2, <4>3, <4>4, <4>5 DEF Serves
      <4>7. ReadAt(q, id, l)  BY <3>6, <4>1
      <4>8. /\ ReadAt(RemoveAt(q, i), id, l)
            /\ NoLaterWrite(q, r, h, id, l) =>
                   NoLaterWrite(RemoveAt(q, i), Append(r, x), z, id, l)
        BY <3>4, <3>5, <4>6, <4>7, OrderServe
      <4> QED  BY <4>1, <4>8
    <3> QED  BY <1>9, <3>1, <3>2, <3>8
  <2>4. ~ OwnerMerge => ownerTable[g] = {}  BY <1>10 DEF ReadOK
  <2> QED  BY <1>0, <2>3, <2>4 DEF ReadOK
<1>22. ASSUME NEW d \in Gpm, d # g PROVE TableOK(d)' /\ L2OK(d)' /\ ReadOK(d)'
  <2>1. \A y \in ownerTable[d] : hist'[y.line] = hist[y.line]
    <3> TAKE y \in ownerTable[d]
    <3>1. y.line \in Line /\ Owner[y.line] = d  BY <1>10, BufferTypes DEF OwnedOK
    <3> QED  BY <1>9, <1>11, <1>22, <3>1
  <2>2. TableOK(d) /\ L2OK(d) /\ ReadOK(d)  BY DEF WayInv
  <2>3. /\ ownerTable'[d] = ownerTable[d] /\ l2Queue'[d] = l2Queue[d] /\ l2Rsp'[d] = l2Rsp[d]
        /\ fromOutside'[d] = fromOutside[d]
    BY <1>0, <1>9, <1>22
  <2> QED  BY <2>1, <2>2, <2>3, OwnerFrame
<1> QED  BY <1>16, <1>17, <1>18, <1>19, <1>20, <1>21, <1>22 DEF WayInv

\* A write by an L1 cache of the owner itself.
LEMMA LocalWriteWay ==
    ASSUME Type, WayInv, NEW w \in Line, LocalWrite(w), UNCHANGED <<reqVars, ownerVars>>
    PROVE  WayInv'
<1>0. /\ UNCHANGED <<net, toOutside, setup, fromInside, entries, fromOutside, l2Queue, l2Rsp>>
      /\ UNCHANGED <<ownerTable, ownerRspQueue>>
  BY DEF LocalWrite, netVars, l1Vars, reqVars, ownerVars
<1>1. PICK v : v = <<Owner[w], 0>>  OBVIOUS
<1>2. v \in ReqId /\ v[2] = 0  BY <1>1, OwnerAssumption DEF ReqId
<1>3. \A l \in Line : /\ hist[l] \in Seq(ReqId)
                      /\ hist'[l] = IF l = w THEN Append(hist[l], v) ELSE hist[l]
  BY <1>1 DEF LocalWrite, Type, L2Type
<1>4. \A id \in ReqId : \A r \in Place : Here(r, id)' => Here(r, id)  BY <1>0 DEF Here
<1>5. \A id \in ReqId : Outstanding(id) => Outstanding(id)'  BY <1>0 DEF Outstanding
<1>6. PlacedOK'  BY <1>4, <1>5, KeepStep DEF WayInv
<1>7. SingleOK'  BY <1>0 DEF WayInv, SingleOK
<1>8. OwnedOK'  BY <1>0 DEF WayInv, OwnedOK, ToOwner, reqs
<1>9. ASSUME NEW d \in Gpm PROVE TableOK(d)' /\ L2OK(d)' /\ ReadOK(d)'
  <2>1. TableOK(d) /\ L2OK(d) /\ ReadOK(d)  BY DEF WayInv
  <2>2. TableOK(d)' /\ L2OK(d)'  BY <1>0, <2>1 DEF TableOK, L2OK
  <2>3. ASSUME NEW y \in ownerTable[d]
        PROVE  /\ ReadAt(l2Queue[d], y.id, y.line)
               /\ y.open => NoLaterWrite(l2Queue[d], l2Rsp[d], hist'[y.line], y.id, y.line)
    <3>1. /\ ReadAt(l2Queue[d], y.id, y.line)
          /\ y.open => NoLaterWrite(l2Queue[d], l2Rsp[d], hist[y.line], y.id, y.line)
      BY <2>1 DEF ReadOK
    <3>2. y.line \in Line  BY BufferTypes
    <3>3. PICK id, l, h : id = y.id /\ l = y.line /\ h = hist[y.line]  OBVIOUS
    <3>4. h \in Seq(ReqId)  BY <1>3, <3>2, <3>3
    <3>5. \A i \in 1 .. Len(l2Rsp[d]) : l2Rsp[d][i].ver \in Nat
      <4> TAKE i \in 1 .. Len(l2Rsp[d])
      <4>1. l2Rsp[d][i] \in L2Item  BY BufferTypes, SeqType
      <4> QED  BY <4>1 DEF L2Item
    <3>6. NoLaterWrite(l2Queue[d], l2Rsp[d], h, id, l) =>
              NoLaterWrite(l2Queue[d], l2Rsp[d], Append(h, v), id, l)
      BY <1>2, <3>4, <3>5, OrderLocal
    <3> QED  BY <1>3, <3>1, <3>2, <3>3, <3>6
  <2>4. ~ OwnerMerge => ownerTable[d] = {}  BY <2>1 DEF ReadOK
  <2>5. ReadOK(d)'  BY <1>0, <2>3, <2>4 DEF ReadOK
  <2> QED  BY <2>2, <2>5
<1> QED  BY <1>6, <1>7, <1>8, <1>9 DEF WayInv

-------------------------------------------------------------------------------
\* Every step.
LEMMA InitWay == Init => WayInv
<1> SUFFICES ASSUME Init PROVE WayInv  OBVIOUS
<1>1. \A s, d \in Gpm : net[s][d] = <<>>  BY DEF Init, EngineInit, NetInit
<1>2. \A d \in Gpm : /\ toOutside[d] = <<>> /\ fromOutside[d] = {} /\ fromInside[d] = {}
                     /\ entries[d] = {} /\ l2Queue[d] = <<>> /\ l2Rsp[d] = <<>>
                     /\ ownerTable[d] = {} /\ ownerRspQueue[d] = <<>>
  BY DEF Init, EngineInit, NetInit, ReqInit, OwnerInit
<1>3. Len(<<>>) = 0 /\ 1 .. 0 = {}  OBVIOUS
<1>4. \A d, id : ~ In(<<>>, d, id) /\ ~ InL2Rsp(<<>>, id) /\ ~ InAnswers(<<>>, id)
  BY <1>3 DEF In, InL2Rsp, InAnswers
<1>5. PlacedOK
  <2>1. ASSUME NEW id \in ReqId, NEW p \in Place PROVE ~ Here(p, id)
    <3>1. p[2] \in Gpm /\ p[3] \in Gpm  BY DEF Place
    <3> QED  BY <1>1, <1>2, <1>4, <3>1 DEF Here
  <2> QED  BY <2>1 DEF PlacedOK
<1>6. SingleOK  BY <1>1, <1>2, <1>3 DEF SingleOK, Distinct, DistinctAnswers
<1>7. OwnedOK  BY <1>1, <1>2, <1>3 DEF OwnedOK, ToOwner, Owned
<1>8. \A d \in Gpm : TableOK(d) /\ ReadOK(d)  BY <1>2 DEF TableOK, ReadOK
<1>9. \A d \in Gpm : L2OK(d)  BY <1>2, <1>3, <1>4 DEF L2OK, Distinct, DistinctL2Rsp
<1> QED  BY <1>5, <1>6, <1>7, <1>8, <1>9 DEF WayInv

LEMMA NextWay == ASSUME Type, RequesterInv, WayInv, [Next]_vars PROVE WayInv'
<1>1. ASSUME UNCHANGED <<netVars, fromInside, fromOutside, l2Vars, ownerVars, setup, entries>>
      PROVE  WayInv'
  <2>1. \A id \in ReqId : Outstanding(id) => Outstanding(id)'  BY <1>1 DEF Outstanding
  <2>2. \A g \in Gpm : ToOwner(g)'  BY <1>1 DEF WayInv, OwnedOK, ToOwner, reqs
  <2> QED  BY <1>1, <2>1, <2>2, RequesterWay
<1>2. ASSUME NEW g \in Gpm, FromL1(g) PROVE WayInv'
  <2>1. CASE ReqActive
    <3>1. /\ UNCHANGED <<netVars, fromInside, fromOutside, l2Vars, ownerVars>>
          /\ Merge(g) \/ \E t \in BOOLEAN : NewEntry(g, t)
      BY <1>2, <2>1 DEF FromL1, Track, Bypass
    <3>2. CASE Merge(g)  BY <3>1, <3>2, MergeWay
    <3>3. ASSUME NEW t \in BOOLEAN, NewEntry(g, t) PROVE WayInv'  BY <3>1, <3>3, NewEntryWay
    <3> QED  BY <3>1, <3>2, <3>3
  <2>2. CASE ~ ReqActive
    <3>1. ForwardReq(g) /\ UNCHANGED <<reqVars, ownerVars>>  BY <1>2, <2>2 DEF FromL1
    <3> QED  BY <2>2, <3>1, ForwardReqWay
  <2> QED  BY <2>1, <2>2
<1>3. ASSUME NEW g \in Gpm, RspFromOutside(g) PROVE WayInv'
  <2>1. CASE ReqActive
    <3>1. Response(g) /\ UNCHANGED <<fromInside, fromOutside, l2Vars, ownerVars>>
      BY <1>3, <2>1 DEF RspFromOutside
    <3> QED  BY <3>1, ResponseWay
  <2>2. CASE ~ ReqActive
    <3>1. ForwardRsp(g) /\ UNCHANGED <<reqVars, ownerVars>>  BY <1>3, <2>2 DEF RspFromOutside
    <3> QED  BY <3>1, ForwardRspWay
  <2> QED  BY <2>1, <2>2
<1>4. ASSUME NEW g \in Gpm, ReqFromOutside(g) PROVE WayInv'
  <2>1. PICK limit : limit = OwnerLimit  OBVIOUS
  <2>2. OwnerJoin(g) \/ OwnerRead(g) \/ OwnerBaseline(g, limit) \/ OwnerWriteBlocked(g, limit)
    BY <1>4, <2>1 DEF ReqFromOutside
  <2> QED  BY <2>2, OwnerJoinWay, OwnerReadWay, OwnerBaselineWay, OwnerWriteBlockedWay
<1>5. ASSUME NEW g \in Gpm, FromL2(g) PROVE WayInv'
  BY <1>5, OwnerL2RspWay, ForwardFromL2Way DEF FromL2
<1>6. ASSUME NEW g \in Gpm, OwnerSend(g) PROVE WayInv'
  BY <1>6, SendMulticastWay, SendUnicastWay DEF OwnerSend
<1>7. ASSUME NEW g \in Gpm, ReqIssue(g) PROVE WayInv'
  <2>1. Issue(g) /\ UNCHANGED <<fromInside, fromOutside, l2Vars, ownerVars>>
    BY <1>7 DEF ReqIssue
  <2> QED  BY <2>1, IssueWay
<1>8. ASSUME NEW g \in Gpm, FanoutStep(g) PROVE WayInv'
  <2>1. UNCHANGED <<netVars, fromInside, fromOutside, l2Vars, ownerVars, setup, entries>>
    BY <1>8 DEF FanoutStep, Fanout
  <2> QED  BY <1>1, <2>1
<1>9. ASSUME NEW g \in Gpm, Ctrl(g) PROVE WayInv'
  <2>1. UNCHANGED <<netVars, fromInside, fromOutside, l2Vars, ownerVars, setup, entries>>
    BY <1>9 DEF Ctrl, l1Vars, reqVars
  <2> QED  BY <1>1, <2>1
<1>10. CASE Driver
  <2>1. UNCHANGED <<netVars, fromInside, fromOutside, l2Vars, ownerVars, setup, entries>>
    BY <1>10 DEF Driver, l1Vars, reqVars
  <2> QED  BY <1>1, <2>1
<1>11. CASE L2AndNetwork
  <2>1. UNCHANGED <<reqVars, ownerVars>>  BY <1>11 DEF L2AndNetwork
  <2>2. ASSUME NetStep PROVE WayInv'
    <3>1. PICK s \in Gpm, d \in Gpm : Arrive(s, d)  BY <2>2 DEF NetStep
    <3>2. UNCHANGED <<l1Vars, fromInside, fromOutside, l2Vars>>  BY <2>2 DEF NetStep
    <3> QED  BY <2>1, <3>1, <3>2, ArriveWay
  <2>3. ASSUME NEW g \in Gpm, L2Serve(g) PROVE WayInv'  BY <2>1, <2>3, L2ServeWay
  <2> QED  BY <1>11, <2>2, <2>3 DEF L2AndNetwork
<1>12. CASE LocalWrites
  <2>1. PICK l \in Line : LocalWrite(l) /\ UNCHANGED <<reqVars, ownerVars>>
    BY <1>12 DEF LocalWrites
  <2> QED  BY <2>1, LocalWriteWay
<1>13. CASE UNCHANGED vars
  <2>1. UNCHANGED <<netVars, fromInside, fromOutside, l2Vars, ownerVars, setup, entries>>
    BY <1>13 DEF vars, engineVars, l1Vars, reqVars
  <2> QED  BY <1>1, <2>1
<1> QED
  BY <1>2, <1>3, <1>4, <1>5, <1>6, <1>7, <1>8, <1>9, <1>10, <1>11, <1>12, <1>13
     DEF Next, Engine

-------------------------------------------------------------------------------
\* Draining.  An engine that has answered the drain request stays quiet.
LEMMA QuietKept ==
    ASSUME Type, [Next]_vars, UNCHANGED ctrlVars, NEW g \in Gpm, Quiet(g)
    PROVE  Quiet(g)'
<1>0. /\ pauseIncomingReqsFromL1[g] /\ entries[g] = {} /\ fanout[g] = <<>> /\ fromInside[g] = {}
      /\ pauseIncomingReqsFromL1' = pauseIncomingReqsFromL1
  BY DEF Quiet, ctrlVars
<1>1. ASSUME Untouched(g) PROVE Quiet(g)'  BY <1>0, <1>1 DEF Untouched, Quiet
<1>2. ASSUME UNCHANGED <<l1Vars, fromInside, reqVars>> PROVE Quiet(g)'
  BY <1>0, <1>2 DEF reqVars, Quiet
<1>3. ~ HasInput(g)  BY <1>0 DEF HasInput
<1>4. ASSUME NEW h \in Gpm, FromL1(h) PROVE Quiet(g)'
  <2>1. HasInput(h)
    BY <1>4 DEF FromL1, Merge, Track, Bypass, NewEntry, ForwardReq
  <2>2. h # g  BY <1>3, <2>1
  <2>3. CASE ReqActive
    <3>1. UNCHANGED fromInside /\ (Merge(h) \/ \E t \in BOOLEAN : NewEntry(h, t))
      BY <1>4, <2>3 DEF FromL1, Track, Bypass
    <3> QED  BY <1>1, <2>2, <3>1, OthersUntouched
  <2>4. CASE ~ ReqActive
    <3>1. ForwardReq(h) /\ UNCHANGED reqVars  BY <1>4, <2>4 DEF FromL1
    <3> QED  BY <1>1, <2>2, <3>1, OthersUntouched
  <2> QED  BY <2>3, <2>4
<1>5. ASSUME NEW h \in Gpm, RspFromOutside(h) PROVE Quiet(g)'
  <2>1. CASE ReqActive
    <3>1. Response(h) /\ UNCHANGED fromInside  BY <1>5, <2>1 DEF RspFromOutside
    <3>2. h # g  BY <1>0, <3>1 DEF Response
    <3> QED  BY <1>1, <3>1, <3>2, OthersUntouched
  <2>2. CASE ~ ReqActive
    <3>1. ForwardRsp(h) /\ UNCHANGED reqVars  BY <1>5, <2>2 DEF RspFromOutside
    <3>2. h # g  BY <1>0, <3>1 DEF ForwardRsp
    <3> QED  BY <1>1, <3>1, <3>2, OthersUntouched
  <2> QED  BY <2>1, <2>2
<1>6. ASSUME NEW h \in Gpm, ReqIssue(h) PROVE Quiet(g)'
  <2>1. Issue(h) /\ UNCHANGED fromInside  BY <1>6 DEF ReqIssue
  <2>2. CASE h # g  BY <1>1, <2>1, <2>2, OthersUntouched
  <2>3. CASE h = g
    <3>1. PICK d \in Gpm :
              entries' = [entries EXCEPT ![h] =
                  {IF e.seq = Head(reqQueues[h][d]) THEN [e EXCEPT !.sent = TRUE] ELSE e : e \in @}]
      BY <2>1 DEF Issue
    <3>2. entries'[g] = {}  BY <1>0, <2>3, <3>1 DEF Type, ReqType
    <3> QED  BY <1>0, <2>1, <3>2 DEF Issue, Quiet
  <2> QED  BY <2>2, <2>3
<1>7. ASSUME NEW h \in Gpm, FanoutStep(h) PROVE Quiet(g)'
  <2>1. Fanout(h) /\ UNCHANGED fromInside  BY <1>7 DEF FanoutStep
  <2>2. h # g  BY <1>0, <2>1 DEF Fanout
  <2> QED  BY <1>1, <2>1, <2>2, OthersUntouched
<1>8. ASSUME NEW h \in Gpm, ReqFromOutside(h) \/ FromL2(h) \/ OwnerSend(h) \/ Ctrl(h)
      PROVE  Quiet(g)'
  <2>1. ReqFromOutside(h) => UNCHANGED <<l1Vars, fromInside, reqVars>>
    BY DEF ReqFromOutside, OwnerJoin, OwnerRead, OwnerBaseline, OwnerWriteBlocked, ForwardToL2
  <2>2. FromL2(h) => UNCHANGED <<l1Vars, fromInside, reqVars>>
    BY DEF FromL2, OwnerL2Rsp, ForwardFromL2
  <2>3. OwnerSend(h) => UNCHANGED <<l1Vars, fromInside, reqVars>>
    BY DEF OwnerSend, SendMulticast, SendUnicast
  <2>4. Ctrl(h) => UNCHANGED <<l1Vars, fromInside, reqVars>>  BY DEF Ctrl
  <2> QED  BY <1>2, <1>8, <2>1, <2>2, <2>3, <2>4
<1>9. CASE Driver  BY <1>2, <1>9 DEF Driver
<1>10. CASE L2AndNetwork  BY <1>2, <1>10 DEF L2AndNetwork, NetStep, L2Serve
<1>11. CASE LocalWrites  BY <1>2, <1>11 DEF LocalWrites, LocalWrite
<1>12. CASE UNCHANGED vars  BY <1>2, <1>12 DEF vars, engineVars
<1> QED
  BY <1>4, <1>5, <1>6, <1>7, <1>8, <1>9, <1>10, <1>11, <1>12 DEF Next, Engine

\* The engines that the driver waits for are finitely many.
LEMMA EnginesFinite ==
    ASSUME NEW T \in SUBSET Gpm
    PROVE  /\ IsFiniteSet(T) /\ Cardinality(T) \in Nat
           /\ Cardinality(T) = 0 => T = {}
           /\ \A g \in T : Cardinality(T \ {g}) = Cardinality(T) - 1
<1>1. IsFiniteSet(T)  BY GpmAssumption, FS_Subset
<1> QED  BY <1>1, FS_CardinalityType, FS_EmptySet, FS_RemoveElement

LEMMA InitDrain == Init => DrainInv
<1> SUFFICES ASSUME Init PROVE DrainInv  OBVIOUS
<1>1. migration = "none" /\ \A g \in Gpm : ~ isDraining[g] /\ ctrl[g] = "none"
  BY DEF Init, EngineInit
<1>2. ToDrain = {} /\ ToRestart = {}  BY <1>1 DEF ToDrain, ToRestart
<1> QED  BY <1>1, <1>2 DEF DrainInv

\* Steps of the engines, of the L2 and of the network.
LEMMA KeepDrain == ASSUME Type, DrainInv, [Next]_vars, UNCHANGED ctrlVars PROVE DrainInv'
<1>1. \A g \in Gpm : Quiet(g) => Quiet(g)'  BY QuietKept
<1>2. ToDrain' = ToDrain /\ ToRestart' = ToRestart  BY DEF ToDrain, ToRestart, ctrlVars
<1>3. /\ migration' = migration /\ numACK' = numACK /\ isDraining' = isDraining
      /\ ctrl' = ctrl /\ pauseIncomingReqsFromL1' = pauseIncomingReqsFromL1
  BY DEF ctrlVars
<1> QED  BY <1>1, <1>2, <1>3 DEF DrainInv

\* Steps of the driver: it asks all engines to drain, or all to restart.
LEMMA DriverDrain == ASSUME Type, DrainInv, DriverNext PROVE DrainInv'
<1>1. CASE InitiateRDMADrain
  <2>1. /\ migration = "none" /\ migration' = "drain" /\ numACK' = Cardinality(Gpm)
        /\ \A g \in Gpm : ctrl'[g] = "drain" /\ isDraining'[g] = isDraining[g]
    BY <1>1 DEF InitiateRDMADrain, DriverSend
  <2>2. \A g \in Gpm : ~ isDraining'[g]  BY <2>1 DEF DrainInv, ToDrain
  <2>3. ToDrain' = Gpm /\ ToRestart' = {}  BY <2>1 DEF ToDrain, ToRestart
  <2> QED  BY <2>1, <2>2, <2>3 DEF DrainInv
<1>2. CASE PrepareRDMARestart
  <2>1. /\ migration = "move" /\ migration' = "restart" /\ numACK' = Cardinality(Gpm)
        /\ \A g \in Gpm : ctrl'[g] = "restart" /\ isDraining'[g] = isDraining[g]
    BY <1>2 DEF PrepareRDMARestart, DriverSend
  <2>2. \A g \in Gpm : ~ isDraining'[g]  BY <2>1 DEF DrainInv, ToDrain
  <2>3. ToDrain' = {} /\ ToRestart' = Gpm  BY <2>1, <2>2 DEF ToDrain, ToRestart
  <2> QED  BY <2>1, <2>2, <2>3 DEF DrainInv
<1> QED  BY <1>1, <1>2 DEF DriverNext

\* Steps of the engines that drain or restart.
LEMMA CtrlDrain ==
    ASSUME Type, RequesterInv, DrainInv, NEW g \in Gpm, Ctrl(g)
    PROVE  DrainInv'
<1>0. /\ UNCHANGED <<fromInside, entries, fanout>>
      /\ migration \in {"none", "drain", "move", "restart"} /\ numACK \in Int
      /\ \A h \in Gpm : isDraining[h] \in BOOLEAN /\ ctrl[h] \in {"none", "drain", "restart"}
  BY DEF Ctrl, reqVars, Type, CtrlType
<1>1. CASE ProcessDrainReq(g)
  <2>1. /\ ctrl[g] = "drain" /\ migration' = migration /\ numACK' = numACK
        /\ \A h \in Gpm :
              /\ ctrl'[h] = IF h = g THEN "none" ELSE ctrl[h]
              /\ isDraining'[h] = IF h = g THEN TRUE ELSE isDraining[h]
              /\ pauseIncomingReqsFromL1'[h] =
                     IF h = g THEN TRUE ELSE pauseIncomingReqsFromL1[h]
    BY <1>1 DEF ProcessDrainReq, Type, CtrlType
  <2>2. ToDrain' = ToDrain /\ ToRestart' = ToRestart
    <3>1. g \in ToDrain /\ g \in ToDrain' /\ g \notin ToRestart /\ g \notin ToRestart'
      BY <2>1 DEF ToDrain, ToRestart
    <3>2. \A h \in Gpm : h # g => /\ h \in ToDrain' <=> h \in ToDrain
                                  /\ h \in ToRestart' <=> h \in ToRestart
      BY <2>1 DEF ToDrain, ToRestart
    <3> QED  BY <3>1, <3>2 DEF ToDrain, ToRestart
  <2>3. \A h \in Gpm : Quiet(h) => Quiet(h)'  BY <1>0, <2>1 DEF Quiet
  <2>4. \A h \in Gpm : isDraining'[h] => pauseIncomingReqsFromL1'[h] /\ ctrl'[h] = "none"
    BY <2>1 DEF DrainInv
  <2> QED  BY <2>1, <2>2, <2>3, <2>4 DEF DrainInv
<1>2. CASE ProcessRestartReq(g)
  <2>1. /\ ctrl[g] = "restart" /\ numACK' = numACK - 1
        /\ migration' = IF numACK = 1 THEN "none" ELSE migration
        /\ \A h \in Gpm :
              /\ ctrl'[h] = IF h = g THEN "none" ELSE ctrl[h]
              /\ isDraining'[h] = isDraining[h]
    BY <1>2 DEF ProcessRestartReq, ACK, Type, CtrlType
  <2>2. g \in ToRestart  BY <2>1 DEF ToRestart
  <2>3. migration = "restart" /\ numACK = Cardinality(ToRestart) /\ ToDrain = {}
    BY <1>0, <2>2 DEF DrainInv
  <2>4. \A h \in Gpm : ~ isDraining[h] /\ ctrl[h] # "drain"  BY <2>3 DEF ToDrain
  <2>5. ToRestart' = ToRestart \ {g} /\ ToDrain' = {}
    BY <2>1, <2>4 DEF ToRestart, ToDrain
  <2>6. numACK' = Cardinality(ToRestart') /\ (numACK = 1 => ToRestart' = {})
    <3>1. ToRestart \in SUBSET Gpm  BY DEF ToRestart
    <3>2. ToRestart \ {g} \in SUBSET Gpm  BY <3>1
    <3>3. Cardinality(ToRestart \ {g}) = numACK - 1  BY <2>2, <2>3, <3>1, EnginesFinite
    <3>4. numACK = 1 => Cardinality(ToRestart \ {g}) = 0  BY <3>3
    <3> QED  BY <2>1, <2>5, <3>2, <3>3, <3>4, EnginesFinite
  <2>7. \A h \in Gpm : ~ isDraining'[h]  BY <2>1, <2>4
  <2> QED  BY <2>1, <2>3, <2>5, <2>6, <2>7 DEF DrainInv
<1>3. CASE DrainRDMA(g, HasPendingWork(g))
  <2>1. /\ isDraining[g] /\ numACK' = numACK - 1
        /\ fromInside[g] = {} /\ ~ HasPendingWork(g)
        /\ migration' = IF numACK = 1 THEN "move" ELSE migration
        /\ ctrl' = ctrl /\ pauseIncomingReqsFromL1' = pauseIncomingReqsFromL1
        /\ \A h \in Gpm : isDraining'[h] = IF h = g THEN FALSE ELSE isDraining[h]
    BY <1>3 DEF DrainRDMA, ACK, Type, CtrlType
  <2>2. g \in ToDrain /\ pauseIncomingReqsFromL1[g] /\ ctrl[g] = "none"
    BY <2>1 DEF ToDrain, DrainInv
  <2>3. /\ migration = "drain" /\ numACK = Cardinality(ToDrain) /\ ToRestart = {}
        /\ \A h \in Gpm \ ToDrain : Quiet(h)
    BY <1>0, <2>2 DEF DrainInv
  <2>4. fanout[g] = <<>> /\ entries[g] = {}
    <3>1. /\ Waiting(g) = {} /\ fanout[g] = <<>> /\ \A e \in entries[g] : ~ e.sent
      BY <2>1 DEF HasPendingWork, ReqPending
    <3>2. \A d \in Gpm : reqQueues[g][d] = <<>>  BY <3>1 DEF Waiting
    <3>3. QueueOK(g)  BY DEF RequesterInv, ReqInv
    <3>4. ASSUME NEW e \in entries[g] PROVE FALSE
      <4>1. e \in Entry  BY DEF Type, ReqType
      <4>2. e.dst \in Gpm  BY <4>1 DEF Entry
      <4>3. PICK i \in 1 .. Len(reqQueues[g][e.dst]) : reqQueues[g][e.dst][i] = e.seq
        BY <3>1, <3>3 DEF QueueOK
      <4>4. Len(<<>>) = 0  OBVIOUS
      <4> QED  BY <3>2, <4>2, <4>3, <4>4
    <3> QED  BY <3>1, <3>4
  <2>5. Quiet(g)'  BY <1>0, <2>1, <2>2, <2>4 DEF Quiet
  <2>6. \A h \in Gpm : Quiet(h) => Quiet(h)'  BY <1>0, <2>1 DEF Quiet
  <2>7. ToDrain' = ToDrain \ {g} /\ ToRestart' = {}
    BY <2>1, <2>2, <2>3 DEF ToDrain, ToRestart
  <2>8. \A h \in Gpm \ ToDrain' : Quiet(h)'  BY <2>3, <2>5, <2>6, <2>7
  <2>9. numACK' = Cardinality(ToDrain') /\ (numACK = 1 => ToDrain' = {})
    <3>1. ToDrain \in SUBSET Gpm  BY DEF ToDrain
    <3>2. ToDrain \ {g} \in SUBSET Gpm  BY <3>1
    <3>3. Cardinality(ToDrain \ {g}) = numACK - 1  BY <2>2, <2>3, <3>1, EnginesFinite
    <3>4. numACK = 1 => Cardinality(ToDrain \ {g}) = 0  BY <3>3
    <3> QED  BY <2>1, <2>7, <3>2, <3>3, <3>4, EnginesFinite
  <2>10. \A h \in Gpm : isDraining'[h] => pauseIncomingReqsFromL1'[h] /\ ctrl'[h] = "none"
    BY <2>1 DEF DrainInv
  <2> QED  BY <2>1, <2>3, <2>7, <2>8, <2>9, <2>10 DEF DrainInv
<1> QED  BY <1>1, <1>2, <1>3 DEF Ctrl, CtrlNext

LEMMA NextDrain == ASSUME Type, RequesterInv, DrainInv, [Next]_vars PROVE DrainInv'
<1>1. ASSUME NEW g \in Gpm, Ctrl(g) PROVE DrainInv'  BY <1>1, CtrlDrain
<1>2. CASE Driver  BY <1>2, DriverDrain DEF Driver
<1>3. ASSUME NEW g \in Gpm, FromL1(g) PROVE UNCHANGED ctrlVars
  BY <1>3 DEF FromL1, ForwardReq
<1>4. ASSUME NEW g \in Gpm, RspFromOutside(g) PROVE UNCHANGED ctrlVars
  BY <1>4 DEF RspFromOutside, ForwardRsp
<1>5. ASSUME NEW g \in Gpm, ReqFromOutside(g) PROVE UNCHANGED ctrlVars
  BY <1>5 DEF ReqFromOutside, OwnerJoin, OwnerRead, OwnerBaseline, OwnerWriteBlocked, ForwardToL2
<1>6. ASSUME NEW g \in Gpm, FromL2(g) PROVE UNCHANGED ctrlVars
  BY <1>6 DEF FromL2, OwnerL2Rsp, ForwardFromL2
<1>7. ASSUME NEW g \in Gpm, OwnerSend(g) PROVE UNCHANGED ctrlVars
  BY <1>7 DEF OwnerSend, SendMulticast, SendUnicast
<1>8. ASSUME NEW g \in Gpm, ReqIssue(g) \/ FanoutStep(g) PROVE UNCHANGED ctrlVars
  BY <1>8 DEF ReqIssue, FanoutStep
<1>9. CASE L2AndNetwork
  <2>1. UNCHANGED ctrlVars  BY <1>9 DEF L2AndNetwork, NetStep, L2Serve
  <2> QED  BY <2>1, KeepDrain
<1>10. CASE LocalWrites
  <2>1. UNCHANGED ctrlVars  BY <1>10 DEF LocalWrites, LocalWrite
  <2> QED  BY <2>1, KeepDrain
<1>11. CASE UNCHANGED vars
  <2>1. UNCHANGED ctrlVars  BY <1>11 DEF vars, engineVars
  <2> QED  BY <2>1, KeepDrain
<1>12. UNCHANGED ctrlVars => DrainInv'  BY KeepDrain
<1> QED
  BY <1>1, <1>2, <1>3, <1>4, <1>5, <1>6, <1>7, <1>8, <1>9, <1>10, <1>11, <1>12
     DEF Next, Engine

-------------------------------------------------------------------------------
\* The inductive invariant of the engines together: the types, the requesters, the
\* way of every request to the owner and back (RdmaEngine, T18Owner), and
\* the count of the engines that the driver waits for.
THEOREM SystemInvariant == Spec => []SystemInv
<1>1. Init => SystemInv
  <2>1. Init => RequesterInv  BY InitInv DEF RequesterInv
  <2> QED  BY <2>1, InitType, InitWay, InitDrain DEF SystemInv
<1>2. SystemInv /\ [Next]_vars => SystemInv'
  <2> SUFFICES ASSUME SystemInv, [Next]_vars PROVE SystemInv'  OBVIOUS
  <2>1. Type /\ RequesterInv /\ WayInv /\ DrainInv  BY DEF SystemInv
  <2>2. Type'  BY <2>1, NextType
  <2>3. RequesterInv'  BY <2>1, <2>2, NextInv
  <2>4. WayInv'  BY <2>1, NextWay
  <2>5. DrainInv'  BY <2>1, NextDrain
  <2> QED  BY <2>2, <2>3, <2>4, <2>5 DEF SystemInv
<1> QED  BY <1>1, <1>2, PTL DEF Spec

-------------------------------------------------------------------------------
\* With every engine quiet, no request is waited for, so that none is in any place.
LEMMA QuietEmpty ==
    ASSUME Type, WayInv, \A g \in Gpm : Quiet(g)
    PROVE  NothingUnderWay
<1>1. \A g \in Gpm : entries[g] = {} /\ fanout[g] = <<>> /\ fromInside[g] = {}  BY DEF Quiet
<1>2. \A id \in ReqId : ~ Outstanding(id)
  <2> TAKE id \in ReqId
  <2>1. id[1] \in Gpm  BY DEF ReqId
  <2> QED  BY <1>1, <2>1 DEF Outstanding
<1>3. \A id \in ReqId : \A p \in Place : ~ Here(p, id)  BY <1>2 DEF WayInv, PlacedOK
<1>4. ASSUME NEW s \in Gpm, NEW d \in Gpm PROVE net[s][d] = <<>>
  <2> SUFFICES ASSUME net[s][d] # <<>> PROVE FALSE  OBVIOUS
  <2>1. net[s][d] \in Seq(Msg)  BY BufferTypes
  <2>2. Head(net[s][d]) \in Msg  BY <2>1, TailElements
  <2>3. PICK id : id = PacketId(Head(net[s][d]), d)  OBVIOUS
  <2>4. id \in ReqId /\ In(net[s][d], d, id)  BY <2>1, <2>2, <2>3, PacketIdType, InHead
  <2>5. PICK p : p = <<"net", s, d>>  OBVIOUS
  <2>6. p \in Place /\ Here(p, id)  BY <2>4, <2>5 DEF Place, Here
  <2> QED  BY <1>3, <2>4, <2>6
<1>5. ASSUME NEW d \in Gpm PROVE toOutside[d] = <<>>
  <2> SUFFICES ASSUME toOutside[d] # <<>> PROVE FALSE  OBVIOUS
  <2>1. toOutside[d] \in Seq(Msg)  BY BufferTypes
  <2>2. Head(toOutside[d]) \in Msg  BY <2>1, TailElements
  <2>3. PICK id : id = PacketId(Head(toOutside[d]), d)  OBVIOUS
  <2>4. id \in ReqId /\ In(toOutside[d], d, id)  BY <2>1, <2>2, <2>3, PacketIdType, InHead
  <2>5. PICK p : p = <<"port", d, d>>  OBVIOUS
  <2>6. p \in Place /\ Here(p, id)  BY <2>4, <2>5 DEF Place, Here
  <2> QED  BY <1>3, <2>4, <2>6
<1>6. ASSUME NEW d \in Gpm PROVE fromOutside[d] = {}
  <2> SUFFICES ASSUME NEW id \in fromOutside[d] PROVE FALSE  OBVIOUS
  <2>1. id \in ReqId  BY BufferTypes
  <2>2. PICK p : p = <<"base", d, d>>  OBVIOUS
  <2>3. p \in Place /\ Here(p, id)  BY <2>2 DEF Place, Here
  <2> QED  BY <1>3, <2>1, <2>3
<1>7. ASSUME NEW d \in Gpm PROVE ownerTable[d] = {}
  <2> SUFFICES ASSUME NEW e \in ownerTable[d] PROVE FALSE  OBVIOUS
  <2>1. e.reqs \in Seq(ReqId) /\ 1 \in 1 .. Len(e.reqs)  BY BufferTypes
  <2>2. PICK id : id = e.reqs[1]  OBVIOUS
  <2>3. id \in ReqId /\ InReqs(e.reqs, id)  BY <2>1, <2>2, SeqType DEF InReqs
  <2>4. PICK p : p = <<"table", d, d>>  OBVIOUS
  <2>5. p \in Place /\ Here(p, id)  BY <2>3, <2>4 DEF Place, Here
  <2> QED  BY <1>3, <2>3, <2>5
<1>8. ASSUME NEW d \in Gpm PROVE ownerRspQueue[d] = <<>>
  <2> SUFFICES ASSUME ownerRspQueue[d] # <<>> PROVE FALSE  OBVIOUS
  <2>1. ownerRspQueue[d] \in Seq(RspItem)  BY BufferTypes
  <2>2. 1 \in 1 .. Len(ownerRspQueue[d]) /\ ownerRspQueue[d][1] \in RspItem
    BY <2>1, TailElements
  <2>3. PICK r : r = ownerRspQueue[d][1].reqs  OBVIOUS
  <2>4. r \in Seq(ReqId) /\ r # <<>>  BY <2>2, <2>3 DEF RspItem, Requesters
  <2>5. PICK id : id = r[1]  OBVIOUS
  <2>6. id \in ReqId /\ InReqs(r, id)  BY <2>4, <2>5, TailElements DEF InReqs
  <2>7. InAnswers(ownerRspQueue[d], id)  BY <2>2, <2>3, <2>6 DEF InAnswers
  <2>8. PICK p : p = <<"rsp", d, d>>  OBVIOUS
  <2>9. p \in Place /\ Here(p, id)  BY <2>7, <2>8 DEF Place, Here
  <2> QED  BY <1>3, <2>6, <2>9
<1>9. ASSUME NEW d \in Gpm PROVE l2Queue[d] = <<>> /\ l2Rsp[d] = <<>>
  <2>1. \A id \in ReqId : ~ In(l2Queue[d], d, id) /\ ~ InL2Rsp(l2Rsp[d], id)
    BY <1>6, <1>7 DEF WayInv, L2OK
  <2>2. ASSUME l2Queue[d] # <<>> PROVE FALSE
    <3>1. l2Queue[d] \in Seq(Msg)  BY BufferTypes
    <3>2. Head(l2Queue[d]) \in Msg  BY <2>2, <3>1, TailElements
    <3> QED  BY <2>1, <2>2, <3>1, <3>2, PacketIdType, InHead
  <2>3. ASSUME l2Rsp[d] # <<>> PROVE FALSE
    <3>1. l2Rsp[d] \in Seq(L2Item)  BY BufferTypes
    <3>2. 1 \in 1 .. Len(l2Rsp[d]) /\ l2Rsp[d][1] \in L2Item  BY <2>3, <3>1, TailElements
    <3>3. l2Rsp[d][1].id \in ReqId  BY <3>2 DEF L2Item
    <3> QED  BY <2>1, <3>2, <3>3 DEF InL2Rsp
  <2> QED  BY <2>2, <2>3
<1> QED  BY <1>1, <1>4, <1>5, <1>6, <1>7, <1>8, <1>9 DEF NothingUnderWay

\* The driver moves pages only when no request of any GPM is under way, in an engine,
\* in the network or in an L2 (RdmaEngine!DrainRDMA: comp.go, drainRDMA; the driver's
\* count of the acknowledgements).
THEOREM DrainedBeforeMoveCorrect == Spec => []DrainedBeforeMove
<1>1. SystemInv => DrainedBeforeMove
  <2> SUFFICES ASSUME SystemInv, migration = "move" PROVE NothingUnderWay
    BY DEF DrainedBeforeMove
  <2>1. \A g \in Gpm : Quiet(g)  BY DEF SystemInv, DrainInv
  <2> QED  BY <2>1, QuietEmpty DEF SystemInv
<1> QED  BY <1>1, SystemInvariant, PTL

-------------------------------------------------------------------------------
\* The invariant about the reads of the owner, in the words of the property.
LEMMA NoWriteOK ==
    ASSUME Type, NEW g \in Gpm, NEW e \in ownerTable[g],
           NoLaterWrite(l2Queue[g], l2Rsp[g], hist[e.line], e.id, e.line)
    PROVE  NoWriteAfter(g, e)
<1>1. /\ DOMAIN l2Queue[g] = 1 .. Len(l2Queue[g])
      /\ DOMAIN l2Rsp[g] = 1 .. Len(l2Rsp[g])
  BY BufferTypes, SeqType
<1> QED  BY <1>1 DEF NoWriteAfter, NoLaterWrite, IsWrite

\* The entries of a table have different ids.
LEMMA OneEntry ==
    ASSUME Type, WayInv, NEW g \in Gpm
    PROVE  \A x, y \in ownerTable[g] : x.id = y.id => x = y
<1> TAKE x, y \in ownerTable[g]
<1>1. TableOK(g) /\ 1 \in 1 .. Len(x.reqs) /\ 1 \in 1 .. Len(y.reqs)  BY BufferTypes DEF WayInv
<1> QED  BY <1>1 DEF TableOK

\* The steps that add no request to an entry.
LEMMA JoinNothing ==
    ASSUME Type, WayInv, NEW g \in Gpm, NEW e \in ownerTable[g], NEW f \in ownerTable'[g],
           e.id = f.id
    PROVE  /\ (\E y \in ownerTable[g] : SameEntry(f, y)) => e.reqs = f.reqs
           /\ f \in ownerTable[g] => e.reqs = f.reqs
BY OneEntry DEF SameEntry

LEMMA JoinStep ==
    ASSUME Type, WayInv, [Next]_vars, NEW g \in Gpm, NEW e \in ownerTable[g],
           NEW f \in ownerTable'[g], e.id = f.id, e.reqs # f.reqs
    PROVE  OwnerJoin(g)
<1>0. f \notin ownerTable[g] /\ ~ \E y \in ownerTable[g] : SameEntry(f, y)  BY JoinNothing
<1>2. ASSUME UNCHANGED ownerTable PROVE FALSE  BY <1>0, <1>2
<1>3. ASSUME NEW h \in Gpm, NEW l, ownerTable' = [ownerTable EXCEPT ![h] = OwnerCloseLines(@, l)]
      PROVE  FALSE
  <2>1. ownerTable'[h] = OwnerCloseLines(ownerTable[h], l)
        /\ \A d \in Gpm : d # h => ownerTable'[d] = ownerTable[d]
    BY <1>3 DEF Type, OwnerType
  <2>2. h = g  BY <1>0, <2>1
  <2>3. ownerTable[g] \in SUBSET OwnerItem  BY BufferTypes
  <2>4. \E y \in ownerTable[g] : SameEntry(f, y)  BY <2>1, <2>2, <2>3, OneEntry, OwnerCloseKept
  <2> QED  BY <1>0, <2>4
<1>4. ASSUME NEW h \in Gpm, OwnerJoin(h) PROVE OwnerJoin(g)
  <2>1. PICK es : ownerTable' = [ownerTable EXCEPT ![h] = es]  BY <1>4 DEF OwnerJoin
  <2>2. \A d \in Gpm : d # h => ownerTable'[d] = ownerTable[d]  BY <2>1 DEF Type, OwnerType
  <2> QED  BY <1>0, <1>4, <2>2
<1>5. ASSUME NEW h \in Gpm, OwnerRead(h) PROVE FALSE
  <2>1. PICK m, k : m = Head(toOutside[h]) /\ k = Id(m)  OBVIOUS
  <2>2. HeadIs(h, "req") /\ \A y \in ownerTable[h] : y.id # k
    BY <1>5, <2>1, FreshAtOwner DEF OwnerRead
  <2>3. PICK x : /\ x.id = k
                 /\ ownerTable' = [ownerTable EXCEPT ![h] = ownerTable[h] \cup {x}]
    <3> DEFINE x == [id |-> k, line |-> m.line, open |-> TRUE, reqs |-> <<k>>]
    <3>1. ownerTable' = [ownerTable EXCEPT ![h] = ownerTable[h] \cup {x}]
      BY <1>5, <2>1 DEF OwnerRead
    <3>2. x.id = k  OBVIOUS
    <3> HIDE DEF x
    <3> QED  BY <3>1, <3>2
  <2>4. /\ ownerTable'[h] = ownerTable[h] \cup {x}
        /\ \A d \in Gpm : d # h => ownerTable'[d] = ownerTable[d]
    BY <2>3 DEF Type, OwnerType
  <2> QED  BY <1>0, <2>2, <2>3, <2>4
<1>6. ASSUME NEW h \in Gpm, OwnerL2Rsp(h) PROVE FALSE
  <2>1. PICK x \in ownerTable[h] : ownerTable' = [ownerTable EXCEPT ![h] = @ \ {x}]
    BY <1>6 DEF OwnerL2Rsp
  <2>2. /\ ownerTable'[h] = ownerTable[h] \ {x}
        /\ \A d \in Gpm : d # h => ownerTable'[d] = ownerTable[d]
    BY <2>1 DEF Type, OwnerType
  <2> QED  BY <1>0, <2>2
<1>7. ASSUME NEW h \in Gpm, NEW n, OwnerBaseline(h, n) PROVE FALSE
  <2>1. PICK l : l = Head(toOutside[h]).line  OBVIOUS
  <2>2. \/ ownerTable' = [ownerTable EXCEPT ![h] = OwnerCloseLines(@, l)]
        \/ UNCHANGED ownerTable
    BY <1>7, <2>1 DEF OwnerBaseline
  <2> QED  BY <1>2, <1>3, <2>2
<1>8. ASSUME NEW h \in Gpm, NEW n, OwnerWriteBlocked(h, n) PROVE FALSE
  <2>1. PICK l : l = Head(toOutside[h]).line  OBVIOUS
  <2>2. ownerTable' = [ownerTable EXCEPT ![h] = OwnerCloseLines(@, l)]
    BY <1>8, <2>1 DEF OwnerWriteBlocked
  <2> QED  BY <1>3, <2>2
<1>9. ASSUME NEW h \in Gpm, ReqFromOutside(h) PROVE OwnerJoin(g)
  <2>1. PICK n : n = OwnerLimit  OBVIOUS
  <2>2. OwnerJoin(h) \/ OwnerRead(h) \/ OwnerBaseline(h, n) \/ OwnerWriteBlocked(h, n)
    BY <1>9, <2>1 DEF ReqFromOutside
  <2> QED  BY <1>4, <1>5, <1>7, <1>8, <2>2
<1>10. ASSUME NEW h \in Gpm, FromL2(h) PROVE FALSE
  <2>1. ForwardFromL2(h) /\ UNCHANGED <<reqVars, ownerVars>> => UNCHANGED ownerTable
    BY DEF ownerVars
  <2> QED  BY <1>2, <1>6, <1>10, <2>1 DEF FromL2
<1>11. ASSUME NEW h \in Gpm, FromL1(h) \/ RspFromOutside(h) \/ ReqIssue(h) \/ FanoutStep(h)
                             \/ Ctrl(h)
       PROVE  FALSE
  <2>1. UNCHANGED ownerTable
    BY <1>11 DEF FromL1, RspFromOutside, ReqIssue, FanoutStep, Ctrl, ownerVars
  <2> QED  BY <1>2, <2>1
<1>12. ASSUME NEW h \in Gpm, OwnerSend(h) PROVE FALSE
  <2>1. UNCHANGED ownerTable  BY <1>12 DEF OwnerSend, SendMulticast, SendUnicast
  <2> QED  BY <1>2, <2>1
<1>13. ASSUME Driver \/ L2AndNetwork \/ LocalWrites \/ UNCHANGED vars PROVE FALSE
  <2>1. UNCHANGED ownerTable  BY <1>13 DEF Driver, L2AndNetwork, LocalWrites, vars, ownerVars
  <2> QED  BY <1>2, <2>1
<1> QED  BY <1>9, <1>10, <1>11, <1>12, <1>13 DEF Next, Engine

\* "Reads merged before the write return the pre-write value" (t18_owner.go): a read
\* joins an entry only while no write that passes the engine follows the L2 read of the
\* entry, at the L2 or before it.
THEOREM MergedAsForwardedCorrect == Spec => MergedAsForwarded
<1> DEFINE Merged == \A g \in Gpm : \A e \in ownerTable[g] : \A f \in ownerTable'[g] :
                         e.id = f.id /\ e.reqs # f.reqs => NoWriteAfter(g, e)
<1>1. SystemInv /\ [Next]_vars => [Merged]_vars
  <2> SUFFICES ASSUME SystemInv, [Next]_vars, NEW g \in Gpm, NEW e \in ownerTable[g],
                      NEW f \in ownerTable'[g], e.id = f.id, e.reqs # f.reqs
               PROVE  NoWriteAfter(g, e)
    OBVIOUS
  <2>0. Type /\ WayInv  BY DEF SystemInv
  <2>1. OwnerJoin(g)  BY <2>0, JoinStep
  <2>2. PICK k : k = Id(Head(toOutside[g]))  OBVIOUS
  <2>3. PICK x \in ownerTable[g] :
            /\ x.open
            /\ ownerTable' = [ownerTable EXCEPT ![g] = (ownerTable[g] \ {x}) \cup
                                 {[x EXCEPT !.reqs = Append(x.reqs, k)]}]
    BY <2>1, <2>2 DEF OwnerJoin, OwnerOpen
  <2>4. f \notin ownerTable[g]  BY <2>0, JoinNothing
  <2>5. e = x
    <3>1. PICK y : y = [x EXCEPT !.reqs = Append(x.reqs, k)]  OBVIOUS
    <3>2. x \in OwnerItem  BY <2>0, BufferTypes
    <3>3. y.id = x.id  BY <3>1, <3>2 DEF OwnerItem
    <3>4. ownerTable'[g] = (ownerTable[g] \ {x}) \cup {y}
      BY <2>0, <2>3, <3>1 DEF Type, OwnerType
    <3>5. f = y  BY <2>4, <3>4
    <3> QED  BY <2>0, <3>3, <3>5, OneEntry
  <2>6. NoLaterWrite(l2Queue[g], l2Rsp[g], hist[e.line], e.id, e.line)
    BY <2>0, <2>3, <2>5 DEF WayInv, ReadOK
  <2> QED  BY <2>0, <2>6, NoWriteOK
<1> QED  BY <1>1, SystemInvariant, PTL DEF Spec, MergedAsForwarded

===============================================================================
