------------------------ MODULE VectorMemoryPath_proofs ------------------------
(***************************************************************************)
(* The wavefronts get the data of their accesses in program order, and     *)
(* neither the reorder buffer nor the CU waits for an answer that cannot   *)
(* come, for any number of accesses and flushes and any size of the        *)
(* buffers.                                                                *)
(*                                                                         *)
(* The inductive invariant rests on two facts.  Every message names the    *)
(* access it is for, either directly or by the ID of the ROB's             *)
(* transaction; and from the CU through the ROB and back there is one      *)
(* queue, in which the accesses in flight stand in program order, whatever *)
(* copies from before a flush stand between them.                          *)
(***************************************************************************)
EXTENDS VectorMemoryPath, SequenceLemmas

\* The messages of a connection.
Message(c) == IF c = "cuToROB" THEN Access
              ELSE IF c = "robToAT" THEN RobReq
              ELSE IF c = "atToROB" THEN RspMsg(Nat)
              ELSE RspMsg(AccessID)

Transaction == [req : Access, reqID : Nat, rsp : 0 .. MaxAccess]

Buffers(b) ==
    /\ b = [c \in Connection |-> b[c]]
    /\ \A c \in Connection : b[c] \in Seq(Message(c))

Stopped == {"discardAT", "discardROB", "reset", "restartAT", "restartROB", "resume"}

Type ==
    /\ issued \in Nat /\ nextID \in Nat
    /\ toSend \in Seq(Access) /\ inFlight \in Seq(Access) /\ shadow \in Seq(Access)
    /\ id \in [Access -> Nat] /\ done \in Seq(Access)
    /\ isPaused \in BOOLEAN /\ isSendingOut \in BOOLEAN
    /\ isFlushingROB \in BOOLEAN /\ isFlushingAT \in BOOLEAN
    /\ transactions \in Seq(Transaction) /\ table \in SUBSET Nat
    /\ translating \in SUBSET RobReq /\ inBottom \in SUBSET RobReq
    /\ Buffers(out) /\ Buffers(port)
    /\ phase \in {"none", "flush"} \cup Stopped

\* The flush: who is stopped in which phase.
PhaseOK ==
    /\ isSendingOut => isPaused
    /\ phase \in Stopped => isPaused /\ ~ isSendingOut /\ inFlight = <<>>
    /\ isPaused /\ ~ isSendingOut => phase \in Stopped
    /\ shadow # <<>> => isPaused
    /\ isPaused => toSend = <<>>
    /\ isFlushingROB <=> phase \in {"reset", "restartAT", "restartROB"}
    /\ isFlushingAT <=> phase \in {"discardROB", "reset", "restartAT"}

\* The accesses that are not answered, in program order: those in flight, of which the
\* last ones have yet to be sent, and those to be sent again.
OrderOK ==
    /\ \A k \in 1 .. Len(done) : done[k] = k
    /\ \A k \in 1 .. Len(inFlight) : inFlight[k] = Len(done) + k
    /\ \A k \in 1 .. Len(shadow) : shadow[k] = Len(done) + Len(inFlight) + k
    /\ \A k \in 1 .. Len(toSend) : toSend[k] = issued - Len(toSend) + k
    /\ Len(toSend) <= Len(inFlight)
    /\ issued = Len(done) + Len(inFlight) + Len(shadow)

\* The transactions of the ROB have different IDs, all in the table.
TransactionsOK ==
    /\ isFlushingROB => transactions = <<>>
    /\ \A i \in 1 .. Len(transactions) :
           /\ transactions[i].reqID \in table /\ transactions[i].reqID < nextID
           /\ transactions[i].rsp # 0 => transactions[i].rsp = transactions[i].req
    /\ \A i, j \in 1 .. Len(transactions) :
           transactions[i].reqID = transactions[j].reqID => i = j

\* Requests and responses have the ID of the access they are for, or that of a
\* transaction that is gone.
For(reqID, a) ==
    /\ reqID < nextID
    /\ \A i \in 1 .. Len(transactions) :
           transactions[i].reqID = reqID => transactions[i].req = a

ToTranslate == Content("robToAT") \cup translating \cup inBottom

DataOK ==
    /\ \A r \in ToTranslate : For(r.reqID, r.access)
    /\ \A m \in Content("atToROB") : For(m.rspTo, m.data)
    /\ \A m \in Content("robToCU") : m.data = m.rspTo.access

\* The accesses that have been sent at least once.
SentUpTo == issued - Len(toSend)

ReachOK ==
    /\ \A a \in Content("cuToROB") : a <= SentUpTo
    /\ \A i \in 1 .. Len(transactions) : transactions[i].req <= SentUpTo
    /\ \A m \in Content("robToCU") : m.rspTo.access <= SentUpTo

\* The way from the CU through the ROB and back is a queue of accesses.  A response
\* that the CU will drop, because its ID is an earlier one, is 0.
MarkOf(ids) == [m \in RspMsg(AccessID) |->
                    IF m.rspTo.id = ids[m.rspTo.access] THEN m.rspTo.access ELSE 0]
ReqOf       == [t \in Transaction |-> t.req]
Along(f, s) == [i \in 1 .. Len(s) |-> f[s[i]]]

Numbering(f, S) == f \in [S -> Nat]

Cat(s, t) == s \o t
Queue(a, b, r, p, o) == Cat(Cat(Cat(Cat(a, b), r), p), o)

Way == Queue(Along(MarkOf(id), port["robToCU"]), Along(MarkOf(id), out["robToCU"]),
             Along(ReqOf, transactions), port["cuToROB"], out["cuToROB"])

\* The accesses in flight that have been sent are in the queue, in program order.
SentNow == Len(done) + 1 .. Len(done) + Len(inFlight) - Len(toSend)

InOrder(q, S) == \E f \in [S -> 1 .. Len(q)] :
    /\ \A a \in S : q[f[a]] = a
    /\ \A a, b \in S : a < b => f[a] < f[b]

FlowOK == InOrder(Way, SentNow)

PathInv == Type /\ PhaseOK /\ OrderOK /\ TransactionsOK /\ DataOK /\ NoOrphan /\ ReachOK /\ FlowOK

-------------------------------------------------------------------------------
(* Messages and connections. *)

LEMMA AccessNat == MaxAccess \in Nat /\ Access \subseteq Nat \ {0}
  BY PathAssumption DEF Access

LEMMA Connections ==
    /\ "cuToROB" \in Connection /\ "robToAT" \in Connection
    /\ "atToROB" \in Connection /\ "robToCU" \in Connection
    /\ Message("cuToROB") = Access /\ Message("robToAT") = RobReq
    /\ Message("atToROB") = RspMsg(Nat) /\ Message("robToCU") = RspMsg(AccessID)
  BY DEF Connection, Message

\* A message is sent into the buffer at the source, behind the others.
LEMMA SendBuffers ==
    ASSUME Buffers(out), NEW c \in Connection, NEW m \in Message(c), Send(c, m)
    PROVE  /\ Buffers(out') /\ out'[c] = Append(out[c], m)
           /\ Range(out'[c]) = Range(out[c]) \cup {m}
           /\ \A d \in Connection \ {c} : out'[d] = out[d]
<1>1. /\ out = [d \in Connection |-> out[d]] /\ out[c] \in Seq(Message(c))
      /\ \A d \in Connection : out[d] \in Seq(Message(d))
  BY DEF Buffers
<1>2. out' = [out EXCEPT ![c] = Append(@, m)]  BY DEF Send
<1>3. Append(out[c], m) \in Seq(Message(c)) /\ Range(Append(out[c], m)) = Range(out[c]) \cup {m}
  BY <1>1, AppendElements, AppendRange
<1>4. out'[c] = Append(out[c], m) /\ \A d \in Connection \ {c} : out'[d] = out[d]
  BY <1>1, <1>2, Zenon
<1>5. out' = [d \in Connection |-> out'[d]]  BY <1>1, <1>2
<1>6. \A d \in Connection : out'[d] \in Seq(Message(d))  BY <1>1, <1>3, <1>4, Zenon
<1> QED  BY <1>3, <1>4, <1>5, <1>6, Zenon DEF Buffers

LEMMA RetrieveBuffers ==
    ASSUME Buffers(port), NEW c \in Connection, port[c] # <<>>, Retrieve(c)
    PROVE  /\ Buffers(port') /\ port'[c] = Tail(port[c])
           /\ Head(port[c]) \in Message(c) /\ Head(port[c]) \in Range(port[c])
           /\ Range(port[c]) = Range(port'[c]) \cup {Head(port[c])}
           /\ \A d \in Connection \ {c} : port'[d] = port[d]
<1>1. /\ port = [d \in Connection |-> port[d]] /\ port[c] \in Seq(Message(c))
      /\ \A d \in Connection : port[d] \in Seq(Message(d))
  BY DEF Buffers
<1>2. port' = [port EXCEPT ![c] = Tail(@)]  BY DEF Retrieve
<1>3. /\ Tail(port[c]) \in Seq(Message(c)) /\ Head(port[c]) \in Message(c)
      /\ Head(port[c]) \in Range(port[c])
      /\ Range(port[c]) = Range(Tail(port[c])) \cup {Head(port[c])}
  BY <1>1, TailElements, TailRange
<1>4. port'[c] = Tail(port[c]) /\ \A d \in Connection \ {c} : port'[d] = port[d]
  BY <1>1, <1>2, Zenon
<1>5. port' = [d \in Connection |-> port'[d]]  BY <1>1, <1>2
<1>6. \A d \in Connection : port'[d] \in Seq(Message(d))  BY <1>1, <1>3, <1>4, Zenon
<1> QED  BY <1>3, <1>4, <1>5, <1>6, Zenon DEF Buffers

\* Delivery moves the first message of one buffer to the end of the other.
LEMMA DeliverBuffers ==
    ASSUME Buffers(out), Buffers(port), NEW c \in Connection, Deliver(c)
    PROVE  /\ Buffers(out') /\ Buffers(port')
           /\ out[c] # <<>> /\ out'[c] = Tail(out[c])
           /\ port'[c] = Append(port[c], Head(out[c]))
           /\ \A d \in Connection \ {c} : out'[d] = out[d] /\ port'[d] = port[d]
           /\ \A d \in Connection : Content(d)' = Content(d)
<1>1. /\ out = [d \in Connection |-> out[d]] /\ port = [d \in Connection |-> port[d]]
      /\ out[c] \in Seq(Message(c)) /\ port[c] \in Seq(Message(c))
      /\ \A d \in Connection : out[d] \in Seq(Message(d)) /\ port[d] \in Seq(Message(d))
  BY DEF Buffers
<1>2. /\ out[c] # <<>> /\ out' = [out EXCEPT ![c] = Tail(@)]
      /\ port' = [port EXCEPT ![c] = Append(@, Head(out[c]))]
  BY DEF Deliver
<1>3. /\ Tail(out[c]) \in Seq(Message(c)) /\ Head(out[c]) \in Message(c)
      /\ Range(out[c]) = Range(Tail(out[c])) \cup {Head(out[c])}
  BY <1>1, <1>2, TailElements, TailRange
<1>4. /\ Append(port[c], Head(out[c])) \in Seq(Message(c))
      /\ Range(Append(port[c], Head(out[c]))) = Range(port[c]) \cup {Head(out[c])}
  BY <1>1, <1>3, AppendElements, AppendRange
<1>5. /\ out'[c] = Tail(out[c]) /\ port'[c] = Append(port[c], Head(out[c]))
      /\ \A d \in Connection \ {c} : out'[d] = out[d] /\ port'[d] = port[d]
  BY <1>1, <1>2, Zenon
<1>6. out' = [d \in Connection |-> out'[d]] /\ port' = [d \in Connection |-> port'[d]]
  BY <1>1, <1>2
<1>7. \A d \in Connection : out'[d] \in Seq(Message(d)) /\ port'[d] \in Seq(Message(d))
  BY <1>1, <1>3, <1>4, <1>5, Zenon
<1>8. Range(out'[c]) \cup Range(port'[c]) = Range(out[c]) \cup Range(port[c])
  BY <1>3, <1>4, <1>5
<1>9. \A d \in Connection : Content(d)' = Content(d)  BY <1>5, <1>8, Zenon DEF Content
<1> QED  BY <1>2, <1>5, <1>6, <1>7, <1>9, Zenon DEF Buffers

-------------------------------------------------------------------------------
(* Types. *)

LEMMA InitType == Init => Type
<1> SUFFICES ASSUME Init PROVE Type  OBVIOUS
<1>1. /\ out = [c \in Connection |-> <<>>] /\ port = [c \in Connection |-> <<>>]
      /\ \A c \in Connection : <<>> \in Seq(Message(c))
  BY DEF Init
<1>2. Buffers(out) /\ Buffers(port)  BY <1>1, Zenon DEF Buffers
<1>3. id \in [Access -> Nat]  BY DEF Init
<1>4. /\ toSend \in Seq(Access) /\ inFlight \in Seq(Access) /\ shadow \in Seq(Access)
      /\ done \in Seq(Access) /\ transactions \in Seq(Transaction)
  BY DEF Init
<1>5. /\ issued \in Nat /\ nextID \in Nat /\ isPaused \in BOOLEAN /\ isSendingOut \in BOOLEAN
      /\ isFlushingROB \in BOOLEAN /\ isFlushingAT \in BOOLEAN
      /\ table \in SUBSET Nat /\ translating \in SUBSET RobReq /\ inBottom \in SUBSET RobReq
      /\ phase \in {"none", "flush"} \cup Stopped
  BY DEF Init
<1> QED  BY <1>2, <1>3, <1>4, <1>5, Zenon DEF Type

\* What the head of a buffer is.
LEMMA TypedHeads ==
    ASSUME Type
    PROVE  /\ (toSend # <<>> => Head(toSend) \in Access /\ Tail(toSend) \in Seq(Access))
           /\ (shadow # <<>> => Head(shadow) \in Access /\ Tail(shadow) \in Seq(Access))
           /\ (inFlight # <<>> => Head(inFlight) \in Access /\ Tail(inFlight) \in Seq(Access))
           /\ (transactions # <<>> => /\ Head(transactions) \in Transaction
                                      /\ Tail(transactions) \in Seq(Transaction))
<1>1. /\ toSend \in Seq(Access) /\ shadow \in Seq(Access) /\ inFlight \in Seq(Access)
      /\ transactions \in Seq(Transaction)
  BY DEF Type
<1> QED  BY <1>1, TailElements

LEMMA AccessType == \A n \in Nat : n < MaxAccess => n + 1 \in Access
  BY PathAssumption DEF Access

LEMMA CUType ==
    ASSUME Type, CUNext
    PROVE  Type'
<1>t. /\ toSend \in Seq(Access) /\ inFlight \in Seq(Access) /\ shadow \in Seq(Access)
      /\ id \in [Access -> Nat] /\ done \in Seq(Access) /\ issued \in Nat
      /\ Buffers(out) /\ Buffers(port)
  BY DEF Type
<1>1. CASE Execute
  <2>1. issued + 1 \in Access /\ issued' \in Nat  BY <1>1, <1>t, AccessType DEF Execute
  <2>2. inFlight' \in Seq(Access) /\ toSend' \in Seq(Access)
    BY <1>1, <1>t, <2>1, AppendElements DEF Execute
  <2>3. UNCHANGED <<shadow, id, isPaused, isSendingOut, done, robVars, atVars, out, port, cpVars>>
    BY <1>1 DEF Execute
  <2> QED  BY <2>1, <2>2, <2>3 DEF Type, robVars, atVars, cpVars, Buffers
<1>2. CASE SendRequest
  <2>1. /\ Head(toSend) \in Access /\ toSend' \in Seq(Access)
    BY <1>2, TypedHeads DEF SendRequest
  <2>2. Buffers(out')
    BY <1>2, <1>t, <2>1, Connections, SendBuffers DEF SendRequest
  <2>3. UNCHANGED <<issued, inFlight, shadow, id, isPaused, isSendingOut, done,
                   robVars, atVars, port, cpVars>>
    BY <1>2 DEF SendRequest
  <2> QED  BY <2>1, <2>2, <2>3 DEF Type, robVars, atVars, cpVars, Buffers
<1>3. CASE Resend
  <2>1. Head(shadow) \in Access /\ shadow' \in Seq(Access)  BY <1>3, TypedHeads DEF Resend
  <2>2. Buffers(out')
    BY <1>3, <1>t, <2>1, Connections, SendBuffers DEF Resend
  <2>3. inFlight' \in Seq(Access)  BY <1>3, <1>t, <2>1, AppendElements DEF Resend
  <2>4. id' \in [Access -> Nat]  BY <1>3, <1>t, <2>1 DEF Resend
  <2>5. UNCHANGED <<issued, toSend, isPaused, isSendingOut, done, robVars, atVars, port, cpVars>>
    BY <1>3 DEF Resend
  <2> QED  BY <2>1, <2>2, <2>3, <2>4, <2>5 DEF Type, robVars, atVars, cpVars, Buffers
<1>4. CASE Resume
  BY <1>4 DEF Resume, Type, robVars, atVars, cpVars, Buffers
<1>5. CASE ReceiveRsp
  <2>1. /\ Head(port["robToCU"]) \in RspMsg(AccessID) /\ Buffers(port')
    BY <1>5, <1>t, Connections, RetrieveBuffers DEF ReceiveRsp
  <2>2. Head(port["robToCU"]).data \in Access  BY <2>1 DEF RspMsg
  <2>3. inFlight' \in Seq(Access)
    BY <1>5, <1>t, TypedHeads DEF ReceiveRsp, IsOldest
  <2>4. done' \in Seq(Access)
    BY <1>5, <1>t, <2>2, AppendElements DEF ReceiveRsp
  <2>5. UNCHANGED <<issued, toSend, shadow, id, isPaused, isSendingOut, robVars, atVars,
                   out, cpVars>>
    BY <1>5 DEF ReceiveRsp
  <2> QED  BY <2>1, <2>3, <2>4, <2>5 DEF Type, robVars, atVars, cpVars, Buffers
<1>6. CASE FlushPipeline
  <2>1. shadow' \in Seq(Access)
    BY <1>6, <1>t, ConcatElements DEF FlushPipeline
  <2>2. phase' = "discardAT"  BY <1>6 DEF FlushPipeline, Advance
  <2>3. /\ inFlight' \in Seq(Access) /\ toSend' \in Seq(Access)
        /\ isSendingOut' \in BOOLEAN /\ isPaused' \in BOOLEAN
    <3>1. /\ inFlight' = <<>> /\ toSend' = <<>> /\ isSendingOut' = FALSE /\ isPaused' = TRUE
      BY <1>6 DEF FlushPipeline
    <3>2. <<>> \in Seq(Access)  OBVIOUS
    <3> QED  BY <3>1, <3>2, Zenon
  <2>4. UNCHANGED <<issued, id, done, robVars, atVars, out, port>>
    BY <1>6 DEF FlushPipeline
  <2> QED  BY <2>1, <2>2, <2>3, <2>4 DEF Type, Stopped, robVars, atVars, Buffers
<1>7. CASE PipelineResume
  <2>1. phase' = "none"  BY <1>7 DEF PipelineResume, Advance
  <2> QED  BY <1>7, <2>1 DEF PipelineResume, Type, robVars, atVars, Buffers
<1> QED  BY <1>1, <1>2, <1>3, <1>4, <1>5, <1>6, <1>7 DEF CUNext

\* The list of the ROB when a response has been entered into it.
LEMMA Entered ==
    ASSUME Type, ParseBottom
    PROVE  /\ transactions' \in Seq(Transaction) /\ Len(transactions') = Len(transactions)
           /\ \A i \in 1 .. Len(transactions) :
                  /\ transactions'[i].req = transactions[i].req
                  /\ transactions'[i].reqID = transactions[i].reqID
                  /\ transactions'[i].rsp =
                         IF /\ Head(port["atToROB"]).rspTo \in table
                            /\ transactions[i].reqID = Head(port["atToROB"]).rspTo
                         THEN Head(port["atToROB"]).data ELSE transactions[i].rsp
<1>1. Buffers(port) /\ transactions \in Seq(Transaction)  BY DEF Type
<1> DEFINE m == Head(port["atToROB"])
<1>2. m.data \in Access
  <2>1. m \in RspMsg(Nat)  BY <1>1, Connections, RetrieveBuffers DEF ParseBottom
  <2> QED  BY <2>1 DEF RspMsg
<1>3. /\ DOMAIN transactions = 1 .. Len(transactions) /\ Len(transactions) \in Nat
      /\ \A i \in 1 .. Len(transactions) : transactions[i] \in Transaction
  BY <1>1, SeqType
<1>4. transactions' = [i \in DOMAIN transactions |->
           IF m.rspTo \in table /\ transactions[i].reqID = m.rspTo
           THEN [transactions[i] EXCEPT !.rsp = m.data] ELSE transactions[i]]
  BY DEF ParseBottom
<1> HIDE DEF m
<1>5. \A i \in 1 .. Len(transactions) : transactions'[i] =
           IF m.rspTo \in table /\ transactions[i].reqID = m.rspTo
           THEN [transactions[i] EXCEPT !.rsp = m.data] ELSE transactions[i]
  BY <1>3, <1>4, Zenon
<1>6. ASSUME NEW i \in 1 .. Len(transactions)
      PROVE  /\ transactions'[i] \in Transaction
             /\ transactions'[i].req = transactions[i].req
             /\ transactions'[i].reqID = transactions[i].reqID
             /\ transactions'[i].rsp =
                         IF m.rspTo \in table /\ transactions[i].reqID = m.rspTo
                         THEN m.data ELSE transactions[i].rsp
  <2>1. PICK t \in Transaction : t = transactions[i]  BY <1>3
  <2>2. m.data \in 0 .. MaxAccess  BY <1>2, PathAssumption DEF Access
  <2>3. /\ [t EXCEPT !.rsp = m.data] \in Transaction
        /\ [t EXCEPT !.rsp = m.data].req = t.req
        /\ [t EXCEPT !.rsp = m.data].reqID = t.reqID
        /\ [t EXCEPT !.rsp = m.data].rsp = m.data
    BY <2>2 DEF Transaction
  <2> QED  BY <1>5, <2>1, <2>3, Zenon
<1>7. transactions' = [i \in 1 .. Len(transactions) |-> transactions'[i]]
  BY <1>3, <1>4
<1>8. transactions' \in [1 .. Len(transactions) -> Transaction]
  BY <1>6, <1>7, Zenon
<1>9. transactions' \in Seq(Transaction) /\ Len(transactions') = Len(transactions)
  BY <1>3, <1>8
<1> QED  BY <1>6, <1>9 DEF m

LEMMA ROBType ==
    ASSUME Type, ROBNext
    PROVE  Type'
<1>t. /\ transactions \in Seq(Transaction) /\ id \in [Access -> Nat]
      /\ table \in SUBSET Nat /\ nextID \in Nat
      /\ Buffers(out) /\ Buffers(port)
  BY DEF Type
<1>1. CASE TopDown
  <2>1. PICK a \in Access : a = Head(port["cuToROB"])
    BY <1>1, <1>t, Connections, RetrieveBuffers DEF TopDown
  <2>2. Buffers(port')
    BY <1>1, <1>t, Connections, RetrieveBuffers DEF TopDown
  <2>3. Buffers(out')
    <3>1. [reqID |-> nextID, access |-> a] \in RobReq  BY <1>t, <2>1 DEF RobReq
    <3> QED  BY <1>1, <1>t, <2>1, <3>1, Connections, SendBuffers DEF TopDown
  <2>4. transactions' \in Seq(Transaction)
    <3>1. [req |-> a, reqID |-> nextID, rsp |-> 0] \in Transaction
      BY <1>t, <2>1, PathAssumption DEF Transaction
    <3> QED  BY <1>1, <1>t, <2>1, <3>1, AppendElements DEF TopDown
  <2>5. table' \in SUBSET Nat /\ nextID' \in Nat  BY <1>1, <1>t DEF TopDown
  <2>6. UNCHANGED <<cuVars, isFlushingROB, atVars, cpVars>>  BY <1>1 DEF TopDown
  <2> QED  BY <2>2, <2>3, <2>4, <2>5, <2>6 DEF Type, cuVars, atVars, cpVars
<1>2. CASE ParseBottom
  <2>1. transactions' \in Seq(Transaction)  BY <1>2, Entered
  <2>2. Buffers(port')
    BY <1>2, <1>t, Connections, RetrieveBuffers DEF ParseBottom
  <2>3. UNCHANGED <<cuVars, table, nextID, isFlushingROB, atVars, out, cpVars>>
    BY <1>2 DEF ParseBottom
  <2> QED  BY <2>1, <2>2, <2>3 DEF Type, cuVars, atVars, cpVars, Buffers
<1>3. CASE BottomUp
  <2>1. PICK t \in Transaction : t = Head(transactions)  BY <1>3, TypedHeads DEF BottomUp
  <2>2. t.req \in Access /\ t.rsp \in Access
    BY <1>3, <2>1 DEF BottomUp, Transaction, Access
  <2>3. [rspTo |-> [access |-> t.req, id |-> id[t.req]], data |-> t.rsp] \in RspMsg(AccessID)
    BY <1>t, <2>2 DEF RspMsg, AccessID
  <2>4. Buffers(out')  BY <1>3, <1>t, <2>1, <2>3, Connections, SendBuffers DEF BottomUp
  <2>5. transactions' \in Seq(Transaction)  BY <1>3, TypedHeads DEF BottomUp
  <2>6. table' \in SUBSET Nat  BY <1>3, <1>t DEF BottomUp
  <2>7. UNCHANGED <<cuVars, nextID, isFlushingROB, atVars, port, cpVars>>  BY <1>3 DEF BottomUp
  <2> QED  BY <2>4, <2>5, <2>6, <2>7 DEF Type, cuVars, atVars, cpVars, Buffers
<1>4. CASE DiscardROB
  <2>1. phase' = "reset" /\ transactions' \in Seq(Transaction)
    BY <1>4 DEF DiscardROB, Advance
  <2> QED  BY <1>4, <2>1 DEF DiscardROB, Type, Stopped, cuVars, atVars, Buffers
<1>5. CASE RestartROB
  <2>1. phase' = "resume" /\ transactions' \in Seq(Transaction)
    BY <1>5 DEF RestartROB, Advance
  <2>2. Buffers(port')
    <3>1. port' = [port EXCEPT !["cuToROB"] = <<>>, !["atToROB"] = <<>>]
      BY <1>5 DEF RestartROB
    <3>2. \A c \in Connection : port'[c] = <<>> \/ port'[c] = port[c]
      BY <1>t, <3>1 DEF Buffers
    <3>3. \A c \in Connection : <<>> \in Seq(Message(c))  OBVIOUS
    <3>4. \A c \in Connection : port'[c] \in Seq(Message(c))
      BY <1>t, <3>2, <3>3, Zenon DEF Buffers
    <3>5. port' = [c \in Connection |-> port'[c]]  BY <1>t, <3>1 DEF Buffers
    <3> QED  BY <3>4, <3>5, Zenon DEF Buffers
  <2> QED  BY <1>5, <2>1, <2>2 DEF RestartROB, Type, Stopped, cuVars, atVars, Buffers
<1> QED  BY <1>1, <1>2, <1>3, <1>4, <1>5 DEF ROBNext

LEMMA ATType ==
    ASSUME Type, ATNext
    PROVE  Type'
<1>t. /\ translating \in SUBSET RobReq /\ inBottom \in SUBSET RobReq
      /\ Buffers(out) /\ Buffers(port)
  BY DEF Type
<1>1. CASE Translate
  <2>1. Head(port["robToAT"]) \in RobReq /\ Buffers(port')
    BY <1>1, <1>t, Connections, RetrieveBuffers DEF Translate
  <2>2. translating' \in SUBSET RobReq  BY <1>1, <1>t, <2>1 DEF Translate
  <2>3. UNCHANGED <<cuVars, robVars, inBottom, isFlushingAT, out, cpVars>>
    BY <1>1 DEF Translate
  <2> QED  BY <2>1, <2>2, <2>3 DEF Type, cuVars, robVars, cpVars, Buffers
<1>2. CASE ParseTranslation
  <2>1. translating' \in SUBSET RobReq /\ inBottom' \in SUBSET RobReq
    BY <1>2, <1>t DEF ParseTranslation
  <2>2. UNCHANGED <<cuVars, robVars, isFlushingAT, out, port, cpVars>>
    BY <1>2 DEF ParseTranslation
  <2> QED  BY <2>1, <2>2 DEF Type, cuVars, robVars, cpVars, Buffers
<1>3. CASE Respond
  <2>1. PICK r \in inBottom : /\ Send("atToROB", [rspTo |-> r.reqID, data |-> r.access])
                              /\ inBottom' = inBottom \ {r}
    BY <1>3 DEF Respond
  <2>2. [rspTo |-> r.reqID, data |-> r.access] \in RspMsg(Nat)
    BY <1>t, <2>1 DEF RspMsg, RobReq
  <2>3. Buffers(out')  BY <1>t, <2>1, <2>2, Connections, SendBuffers
  <2>4. inBottom' \in SUBSET RobReq  BY <1>t, <2>1
  <2>5. UNCHANGED <<cuVars, robVars, translating, isFlushingAT, port, cpVars>>
    BY <1>3 DEF Respond
  <2> QED  BY <2>3, <2>4, <2>5 DEF Type, cuVars, robVars, cpVars, Buffers
<1>4. CASE DiscardAT
  <2>1. phase' = "discardROB"  BY <1>4 DEF DiscardAT, Advance
  <2> QED  BY <1>4, <2>1 DEF DiscardAT, Type, Stopped, cuVars, robVars, Buffers
<1>5. CASE RestartAT
  <2>1. phase' = "restartROB"  BY <1>5 DEF RestartAT, Advance
  <2>2. Buffers(port')
    <3>1. port' = [port EXCEPT !["robToAT"] = <<>>]
      BY <1>5 DEF RestartAT
    <3>2. \A c \in Connection : port'[c] = <<>> \/ port'[c] = port[c]
      BY <1>t, <3>1 DEF Buffers
    <3>3. \A c \in Connection : <<>> \in Seq(Message(c))  OBVIOUS
    <3>4. \A c \in Connection : port'[c] \in Seq(Message(c))
      BY <1>t, <3>2, <3>3, Zenon DEF Buffers
    <3>5. port' = [c \in Connection |-> port'[c]]  BY <1>t, <3>1 DEF Buffers
    <3> QED  BY <3>4, <3>5, Zenon DEF Buffers
  <2> QED  BY <1>5, <2>1, <2>2 DEF RestartAT, Type, Stopped, cuVars, robVars, Buffers
<1> QED  BY <1>1, <1>2, <1>3, <1>4, <1>5 DEF ATNext

LEMMA TypeStep ==
    ASSUME Type, [Next]_vars
    PROVE  Type'
<1>1. CASE CUNext  BY <1>1, CUType
<1>2. CASE ROBNext  BY <1>2, ROBType
<1>3. CASE ATNext  BY <1>3, ATType
<1>4. CASE CachesAndTLBs
  <2>1. phase' = "restartAT"  BY <1>4 DEF CachesAndTLBs, Advance
  <2> QED  BY <1>4, <2>1 DEF CachesAndTLBs, Type, Stopped, cuVars, robVars, atVars, Buffers
<1>5. ASSUME NEW c \in Connection, Deliver(c)
      PROVE  Type'
  <2>1. Buffers(out') /\ Buffers(port')  BY <1>5, DeliverBuffers DEF Type
  <2>2. UNCHANGED <<cuVars, robVars, atVars, cpVars>>  BY <1>5 DEF Deliver
  <2> QED  BY <2>1, <2>2 DEF Type, cuVars, robVars, atVars, cpVars
<1>6. CASE ShootDown
  BY <1>6 DEF ShootDown, Type, cuVars, robVars, atVars, Buffers
<1>7. CASE UNCHANGED vars
  BY <1>7 DEF vars, Type, cuVars, robVars, atVars, cpVars, Buffers
<1> QED  BY <1>1, <1>2, <1>3, <1>4, <1>5, <1>6, <1>7 DEF Next, Progress

-------------------------------------------------------------------------------
(* Who is stopped in which phase. *)

LEMMA PhaseStep ==
    ASSUME PhaseOK, Type, [Next]_vars
    PROVE  PhaseOK'
<1> USE DEF PhaseOK, Stopped, Advance
<1>1. CASE Execute  BY <1>1 DEF Execute, robVars, atVars, cpVars
<1>2. CASE SendRequest  BY <1>2 DEF SendRequest, robVars, atVars, cpVars
<1>3. CASE Resend  BY <1>3 DEF Resend, robVars, atVars, cpVars
<1>4. CASE Resume  BY <1>4 DEF Resume, robVars, atVars, cpVars
<1>5. CASE ReceiveRsp
  <2>1. phase \notin Stopped  BY <1>5 DEF ReceiveRsp
  <2> QED  BY <1>5, <2>1 DEF ReceiveRsp, robVars, atVars, cpVars
<1>6. CASE FlushPipeline
  <2>1. /\ phase' = "discardAT" /\ phase = "flush" /\ inFlight' = <<>> /\ toSend' = <<>>
        /\ isSendingOut' = FALSE /\ isPaused' = TRUE
        /\ UNCHANGED <<isFlushingROB, isFlushingAT>>
    BY <1>6 DEF FlushPipeline, robVars, atVars
  <2> QED  BY <2>1
<1>7. CASE PipelineResume  BY <1>7 DEF PipelineResume, robVars, atVars
<1>8. CASE TopDown  BY <1>8 DEF TopDown, cuVars, atVars, cpVars
<1>9. CASE ParseBottom
  <2>1. UNCHANGED <<cuVars, isFlushingROB, atVars, cpVars>>  BY <1>9 DEF ParseBottom
  <2> QED  BY <2>1 DEF cuVars, atVars, cpVars
<1>10. CASE BottomUp
  <2>1. UNCHANGED <<cuVars, isFlushingROB, atVars, cpVars>>  BY <1>10 DEF BottomUp
  <2> QED  BY <2>1 DEF cuVars, atVars, cpVars
<1>11. CASE DiscardROB  BY <1>11 DEF DiscardROB, cuVars, atVars
<1>12. CASE RestartROB  BY <1>12 DEF RestartROB, cuVars, atVars
<1>13. CASE Translate  BY <1>13 DEF Translate, cuVars, robVars, cpVars
<1>14. CASE ParseTranslation  BY <1>14 DEF ParseTranslation, cuVars, robVars, cpVars
<1>15. CASE Respond  BY <1>15 DEF Respond, cuVars, robVars, cpVars
<1>16. CASE DiscardAT  BY <1>16 DEF DiscardAT, cuVars, robVars
<1>17. CASE RestartAT  BY <1>17 DEF RestartAT, cuVars, robVars
<1>18. CASE CachesAndTLBs  BY <1>18 DEF CachesAndTLBs, cuVars, robVars, atVars
<1>19. CASE \E c \in Connection : Deliver(c)
  BY <1>19 DEF Deliver, cuVars, robVars, atVars, cpVars
<1>20. CASE ShootDown  BY <1>20 DEF ShootDown, cuVars, robVars, atVars
<1>21. CASE UNCHANGED vars  BY <1>21 DEF vars, cuVars, robVars, atVars, cpVars
<1> QED
  BY <1>1, <1>2, <1>3, <1>4, <1>5, <1>6, <1>7, <1>8, <1>9, <1>10, <1>11, <1>12, <1>13,
     <1>14, <1>15, <1>16, <1>17, <1>18, <1>19, <1>20, <1>21
     DEF Next, Progress, CUNext, ROBNext, ATNext

-------------------------------------------------------------------------------
(* The order of the accesses of the CU. *)

\* The actions of the others leave the CU as it is.
LEMMA OthersSteps ==
    ASSUME [Next]_vars, ~ CUNext
    PROVE  UNCHANGED cuVars
  BY DEF Next, Progress, ROBNext, ATNext, TopDown, ParseBottom, BottomUp, DiscardROB,
         RestartROB, Translate, ParseTranslation, Respond, DiscardAT, RestartAT,
         CachesAndTLBs, Deliver, ShootDown, vars

LEMMA Lengths ==
    ASSUME Type
    PROVE  /\ Len(done) \in Nat /\ Len(inFlight) \in Nat /\ Len(shadow) \in Nat
           /\ Len(toSend) \in Nat /\ issued \in Nat /\ Len(transactions) \in Nat
           /\ (inFlight = <<>> <=> Len(inFlight) = 0) /\ (shadow = <<>> <=> Len(shadow) = 0)
           /\ (toSend = <<>> <=> Len(toSend) = 0)
           /\ (transactions = <<>> <=> Len(transactions) = 0)
  BY SeqType DEF Type

\* The response that the CU takes is for the first access that is not answered.
LEMMA Oldest ==
    ASSUME Type, PhaseOK, OrderOK, DataOK, ReachOK, ReceiveRsp,
           IsOldest(Head(port["robToCU"]))
    PROVE  /\ inFlight # <<>> /\ Head(inFlight) = Len(done) + 1
           /\ Head(port["robToCU"]).data = Len(done) + 1
           /\ Len(toSend) < Len(inFlight)
<1> DEFINE m == Head(port["robToCU"])
<1>1. /\ m.rspTo = [access |-> Head(inFlight), id |-> id[Head(inFlight)]]
      /\ inFlight # <<>>
  BY DEF IsOldest
<1>2. m \in Content("robToCU")
  BY Connections, RetrieveBuffers DEF Type, ReceiveRsp, Content
<1>3. Head(inFlight) = Len(done) + 1
  BY <1>1, Lengths DEF OrderOK, Type
<1>4. m.rspTo.access = Len(done) + 1  BY <1>1, <1>3
<1>5. m.data = Len(done) + 1 /\ Len(done) + 1 <= SentUpTo
  BY <1>2, <1>4 DEF DataOK, ReachOK
<1>6. Len(toSend) < Len(inFlight)
  BY <1>1, <1>5, Lengths DEF SentUpTo, OrderOK, PhaseOK
<1> QED  BY <1>1, <1>3, <1>5, <1>6

LEMMA OrderStep ==
    ASSUME Type, PhaseOK, OrderOK, DataOK, ReachOK, [Next]_vars
    PROVE  OrderOK'
<1>t. /\ toSend \in Seq(Access) /\ inFlight \in Seq(Access) /\ shadow \in Seq(Access)
      /\ done \in Seq(Access)
  BY DEF Type
<1>n. Access \subseteq Nat \ {0}  BY AccessNat
<1>1. CASE Execute
  <2>1. issued + 1 \in Access  BY <1>1, <1>t, AccessType DEF Execute, Type
  <2>2. /\ inFlight' = Append(inFlight, issued + 1) /\ toSend' = Append(toSend, issued + 1)
        /\ issued' = issued + 1 /\ UNCHANGED <<done, shadow>> /\ shadow = <<>>
    BY <1>1 DEF Execute, PhaseOK
  <2>3. /\ Len(inFlight') = Len(inFlight) + 1 /\ inFlight'[Len(inFlight) + 1] = issued + 1
        /\ \A k \in 1 .. Len(inFlight) : inFlight'[k] = inFlight[k]
        /\ Len(toSend') = Len(toSend) + 1 /\ toSend'[Len(toSend) + 1] = issued + 1
        /\ \A k \in 1 .. Len(toSend) : toSend'[k] = toSend[k]
    BY <1>t, <2>1, <2>2, AppendElements
  <2>4. \A k \in 1 .. Len(inFlight') : inFlight'[k] = Len(done') + k
    BY <2>2, <2>3, Lengths DEF OrderOK
  <2>5. \A k \in 1 .. Len(toSend') : toSend'[k] = issued' - Len(toSend') + k
    <3>1. PICK l \in Nat, n \in Nat : l = Len(toSend) /\ n = issued  BY Lengths
    <3>2. Len(toSend') = l + 1 /\ issued' = n + 1 /\ (n + 1) - (l + 1) = n - l
      BY <2>2, <2>3, <3>1
    <3>3. ASSUME NEW k \in 1 .. l + 1
          PROVE  toSend'[k] = n - l + k
      <4>1. CASE k \in 1 .. l  BY <2>3, <3>1, <4>1 DEF OrderOK
      <4>2. CASE k = l + 1  BY <2>3, <3>1, <4>2
      <4> QED  BY <4>1, <4>2
    <3> QED  BY <3>2, <3>3
  <2>6. \A k \in 1 .. Len(shadow') : shadow'[k] = Len(done') + Len(inFlight') + k
    BY <2>2
  <2>7. Len(toSend') <= Len(inFlight') /\ issued' = Len(done') + Len(inFlight') + Len(shadow')
    BY <2>2, <2>3, Lengths DEF OrderOK
  <2> QED  BY <2>2, <2>4, <2>5, <2>6, <2>7 DEF OrderOK
<1>2. CASE SendRequest
  <2>1. /\ toSend # <<>> /\ toSend' = Tail(toSend)
        /\ UNCHANGED <<issued, inFlight, shadow, done>>
    BY <1>2 DEF SendRequest
  <2>2. /\ Len(toSend') = Len(toSend) - 1
        /\ \A k \in 1 .. Len(toSend) - 1 : toSend'[k] = toSend[k + 1]
    BY <1>t, <2>1, TailElements
  <2>3. \A k \in 1 .. Len(toSend') : toSend'[k] = issued' - Len(toSend') + k
    <3>1. SUFFICES ASSUME NEW k \in 1 .. Len(toSend) - 1
                   PROVE  toSend[k + 1] = issued - (Len(toSend) - 1) + k
      BY <2>1, <2>2
    <3>2. k + 1 \in 1 .. Len(toSend)  BY Lengths
    <3> QED  BY <3>2, Lengths DEF OrderOK
  <2> QED  BY <2>1, <2>2, <2>3, Lengths DEF OrderOK
<1>3. CASE Resend
  <2>1. /\ shadow # <<>> /\ shadow' = Tail(shadow) /\ inFlight' = Append(inFlight, Head(shadow))
        /\ UNCHANGED <<issued, toSend, done>>
    BY <1>3 DEF Resend
  <2>2. /\ Len(shadow') = Len(shadow) - 1 /\ Head(shadow) = shadow[1] /\ Head(shadow) \in Access
        /\ \A k \in 1 .. Len(shadow) - 1 : shadow'[k] = shadow[k + 1]
    BY <1>t, <2>1, TailElements
  <2>3. /\ Len(inFlight') = Len(inFlight) + 1 /\ inFlight'[Len(inFlight) + 1] = Head(shadow)
        /\ \A k \in 1 .. Len(inFlight) : inFlight'[k] = inFlight[k]
    BY <1>t, <2>1, <2>2, AppendElements
  <2>4. Head(shadow) = Len(done) + Len(inFlight) + 1
    BY <2>1, <2>2, Lengths DEF OrderOK
  <2>5. \A k \in 1 .. Len(inFlight') : inFlight'[k] = Len(done') + k
    <3>1. SUFFICES ASSUME NEW k \in 1 .. Len(inFlight) + 1
                   PROVE  inFlight'[k] = Len(done) + k
      BY <2>1, <2>3
    <3>2. CASE k \in 1 .. Len(inFlight)  BY <2>3, <3>2 DEF OrderOK
    <3>3. CASE k = Len(inFlight) + 1  BY <2>3, <2>4, <3>3, Lengths
    <3> QED  BY <3>2, <3>3, Lengths
  <2>6. \A k \in 1 .. Len(shadow') : shadow'[k] = Len(done') + Len(inFlight') + k
    <3>1. SUFFICES ASSUME NEW k \in 1 .. Len(shadow) - 1
                   PROVE  shadow[k + 1] = Len(done) + (Len(inFlight) + 1) + k
      BY <2>1, <2>2, <2>3
    <3>2. k + 1 \in 1 .. Len(shadow)  BY Lengths
    <3> QED  BY <3>2, Lengths DEF OrderOK
  <2> QED  BY <2>1, <2>2, <2>3, <2>5, <2>6, Lengths DEF OrderOK
<1>4. CASE Resume  BY <1>4 DEF Resume, OrderOK
<1>5. CASE ReceiveRsp
  <2>1. CASE ~ IsOldest(Head(port["robToCU"]))
    BY <1>5, <2>1 DEF ReceiveRsp, OrderOK
  <2>2. CASE IsOldest(Head(port["robToCU"]))
    <3>1. /\ inFlight # <<>> /\ Len(toSend) < Len(inFlight)
          /\ inFlight' = Tail(inFlight) /\ done' = Append(done, Len(done) + 1)
          /\ UNCHANGED <<issued, toSend, shadow>>
      BY <1>5, <2>2, Oldest DEF ReceiveRsp
    <3>2. Len(done) + 1 \in Access
      BY <1>5, <1>t, <2>2, Oldest, TypedHeads
    <3>3. /\ Len(done') = Len(done) + 1 /\ done'[Len(done) + 1] = Len(done) + 1
          /\ \A k \in 1 .. Len(done) : done'[k] = done[k]
      BY <1>t, <3>1, <3>2, AppendElements
    <3>4. /\ Len(inFlight') = Len(inFlight) - 1
          /\ \A k \in 1 .. Len(inFlight) - 1 : inFlight'[k] = inFlight[k + 1]
      BY <1>t, <3>1, TailElements
    <3>5. \A k \in 1 .. Len(done') : done'[k] = k
      <4>1. SUFFICES ASSUME NEW k \in 1 .. Len(done) + 1 PROVE done'[k] = k
        BY <3>3
      <4>2. CASE k \in 1 .. Len(done)  BY <3>3, <4>2 DEF OrderOK
      <4>3. CASE k = Len(done) + 1  BY <3>3, <4>3
      <4> QED  BY <4>2, <4>3, Lengths
    <3>6. \A k \in 1 .. Len(inFlight') : inFlight'[k] = Len(done') + k
      <4>1. SUFFICES ASSUME NEW k \in 1 .. Len(inFlight) - 1
                     PROVE  inFlight[k + 1] = (Len(done) + 1) + k
        BY <3>3, <3>4
      <4>2. k + 1 \in 1 .. Len(inFlight)  BY Lengths
      <4> QED  BY <4>2, Lengths DEF OrderOK
    <3>7. \A k \in 1 .. Len(shadow') : shadow'[k] = Len(done') + Len(inFlight') + k
      BY <3>1, <3>3, <3>4, Lengths DEF OrderOK
    <3>8. \A k \in 1 .. Len(toSend') : toSend'[k] = issued' - Len(toSend') + k
      BY <3>1 DEF OrderOK
    <3>9. Len(toSend') <= Len(inFlight') /\ issued' = Len(done') + Len(inFlight') + Len(shadow')
      BY <3>1, <3>3, <3>4, Lengths DEF OrderOK
    <3> QED  BY <3>5, <3>6, <3>7, <3>8, <3>9 DEF OrderOK
  <2> QED  BY <2>1, <2>2
<1>6. CASE FlushPipeline
  <2>1. /\ inFlight' = <<>> /\ toSend' = <<>> /\ UNCHANGED <<issued, done>>
        /\ shadow' = inFlight \o (IF isSendingOut THEN shadow ELSE <<>>)
        /\ phase = "flush"
    BY <1>6 DEF FlushPipeline, Advance
  <2>2. shadow' = inFlight \o shadow
    <3>1. ~ isSendingOut => shadow = <<>>  BY <2>1 DEF PhaseOK, Stopped
    <3> QED  BY <2>1, <3>1
  <2>3. /\ Len(shadow') = Len(inFlight) + Len(shadow)
        /\ \A k \in 1 .. Len(inFlight) : shadow'[k] = inFlight[k]
        /\ \A k \in 1 .. Len(shadow) : shadow'[Len(inFlight) + k] = shadow[k]
    BY <1>t, <2>2, ConcatElements
  <2>4. \A k \in 1 .. Len(shadow') : shadow'[k] = Len(done) + k
    <3>1. SUFFICES ASSUME NEW k \in 1 .. Len(inFlight) + Len(shadow)
                   PROVE  shadow'[k] = Len(done) + k
      BY <2>3
    <3>2. CASE k <= Len(inFlight)
      <4>1. k \in 1 .. Len(inFlight)  BY <3>2, Lengths
      <4> QED  BY <2>3, <4>1 DEF OrderOK
    <3>3. CASE k > Len(inFlight)
      <4>1. PICK j \in 1 .. Len(shadow) : k = Len(inFlight) + j
        <5>1. k - Len(inFlight) \in 1 .. Len(shadow) /\ k = Len(inFlight) + (k - Len(inFlight))
          BY <3>3, Lengths
        <5> QED  BY <5>1
      <4>2. shadow'[k] = shadow[j]  BY <2>3, <4>1
      <4>3. shadow[j] = Len(done) + Len(inFlight) + j  BY DEF OrderOK
      <4> QED  BY <4>1, <4>2, <4>3, Lengths
    <3> QED  BY <3>2, <3>3, Lengths
  <2>5. Len(inFlight') = 0 /\ Len(toSend') = 0  BY <2>1
  <2>6. \A k \in 1 .. Len(shadow') : shadow'[k] = Len(done') + Len(inFlight') + k
    BY <2>1, <2>4, <2>5, Lengths
  <2>7. issued' = Len(done') + Len(inFlight') + Len(shadow')
    BY <2>1, <2>3, <2>5, Lengths DEF OrderOK
  <2>8. /\ \A k \in 1 .. Len(done') : done'[k] = k
        /\ \A k \in 1 .. Len(inFlight') : inFlight'[k] = Len(done') + k
        /\ \A k \in 1 .. Len(toSend') : toSend'[k] = issued' - Len(toSend') + k
    BY <2>1, <2>5 DEF OrderOK
  <2> QED  BY <2>5, <2>6, <2>7, <2>8 DEF OrderOK
<1>7. CASE PipelineResume  BY <1>7 DEF PipelineResume, OrderOK
<1>8. CASE ~ CUNext
  <2>1. UNCHANGED cuVars  BY <1>8, OthersSteps
  <2> QED  BY <2>1 DEF cuVars, OrderOK
<1> QED  BY <1>1, <1>2, <1>3, <1>4, <1>5, <1>6, <1>7, <1>8 DEF CUNext

-------------------------------------------------------------------------------
(* The transactions of the ROB. *)

LEMMA OtherThanROB ==
    ASSUME [Next]_vars, ~ ROBNext
    PROVE  UNCHANGED robVars
  BY DEF Next, Progress, CUNext, ATNext, Execute, SendRequest, Resend, Resume, ReceiveRsp,
         FlushPipeline, PipelineResume, Translate, ParseTranslation, Respond, DiscardAT,
         RestartAT, CachesAndTLBs, Deliver, ShootDown, vars

\* The list of the ROB when a request has been added.
LEMMA Added ==
    ASSUME Type, TopDown
    PROVE  /\ Head(port["cuToROB"]) \in Access
           /\ Len(transactions') = Len(transactions) + 1
           /\ transactions'[Len(transactions) + 1] =
                  [req |-> Head(port["cuToROB"]), reqID |-> nextID, rsp |-> 0]
           /\ \A i \in 1 .. Len(transactions) : transactions'[i] = transactions[i]
           /\ nextID' = nextID + 1 /\ nextID \in Nat
<1>1. Head(port["cuToROB"]) \in Access
  BY Connections, RetrieveBuffers DEF TopDown, Type
<1>2. [req |-> Head(port["cuToROB"]), reqID |-> nextID, rsp |-> 0] \in Transaction
  BY <1>1, PathAssumption DEF Type, Transaction
<1> QED  BY <1>1, <1>2, AppendElements DEF TopDown, Type

\* The list of the ROB when the first request has been answered.
LEMMA Answered ==
    ASSUME Type, BottomUp
    PROVE  /\ transactions # <<>> /\ Len(transactions) \in Nat \ {0}
           /\ Head(transactions) = transactions[1] /\ Head(transactions) \in Transaction
           /\ Head(transactions).req \in Access /\ Head(transactions).rsp \in Access
           /\ Len(transactions') = Len(transactions) - 1
           /\ \A i \in 1 .. Len(transactions) - 1 : transactions'[i] = transactions[i + 1]
           /\ UNCHANGED nextID
<1>1. /\ transactions # <<>> /\ transactions \in Seq(Transaction)
      /\ transactions' = Tail(transactions) /\ UNCHANGED nextID
  BY DEF BottomUp, Type
<1>2. /\ Head(transactions) = transactions[1] /\ Head(transactions) \in Transaction
      /\ Len(transactions) \in Nat \ {0} /\ Len(transactions') = Len(transactions) - 1
      /\ \A i \in 1 .. Len(transactions) - 1 : transactions'[i] = transactions[i + 1]
  BY <1>1, TailElements
<1>3. Head(transactions).req \in Access /\ Head(transactions).rsp \in Access
  BY <1>2 DEF BottomUp, Transaction, Access
<1> QED  BY <1>1, <1>2, <1>3

LEMMA Listed ==
    ASSUME Type, NEW i \in 1 .. Len(transactions)
    PROVE  /\ transactions[i].req \in Access /\ transactions[i].reqID \in Nat
           /\ transactions[i].rsp \in Nat
<1>1. transactions[i] \in Transaction  BY SeqType DEF Type
<1> QED  BY <1>1, PathAssumption DEF Transaction

LEMMA TransactionsStep ==
    ASSUME Type, TransactionsOK, DataOK, [Next]_vars
    PROVE  TransactionsOK'
<1>1. CASE TopDown
  <2> DEFINE n == Len(transactions)
  <2>1. n \in Nat  BY Lengths
  <2>2. /\ Len(transactions') = n + 1 /\ nextID' = nextID + 1 /\ nextID \in Nat
        /\ transactions'[n + 1].reqID = nextID /\ transactions'[n + 1].rsp = 0
        /\ \A i \in 1 .. n : transactions'[i] = transactions[i]
    BY <1>1, Added
  <2>3. table' = table \cup {nextID} /\ ~ isFlushingROB'  BY <1>1 DEF TopDown
  <2>4. \A i \in 1 .. n : /\ transactions[i].reqID \in table /\ transactions[i].reqID < nextID
                          /\ transactions[i].reqID \in Nat
                          /\ transactions[i].rsp # 0 => transactions[i].rsp = transactions[i].req
    BY Listed DEF TransactionsOK
  <2>5. \A i, j \in 1 .. n : transactions[i].reqID = transactions[j].reqID => i = j
    BY DEF TransactionsOK
  <2> HIDE DEF n
  <2>6. \A i \in 1 .. n + 1 : i \in 1 .. n \/ i = n + 1  BY <2>1
  <2>7. ASSUME NEW i \in 1 .. n + 1
        PROVE  /\ transactions'[i].reqID \in table' /\ transactions'[i].reqID < nextID'
               /\ transactions'[i].rsp # 0 => transactions'[i].rsp = transactions'[i].req
    <3>1. CASE i \in 1 .. n  BY <2>2, <2>3, <2>4, <3>1
    <3>2. CASE i = n + 1  BY <2>2, <2>3, <3>2
    <3> QED  BY <2>6, <3>1, <3>2
  <2>8. ASSUME NEW i \in 1 .. n + 1, NEW j \in 1 .. n + 1,
               transactions'[i].reqID = transactions'[j].reqID
        PROVE  i = j
    <3>1. CASE i \in 1 .. n /\ j \in 1 .. n  BY <2>2, <2>5, <2>8, <3>1
    <3>2. CASE i \in 1 .. n /\ j = n + 1  BY <2>2, <2>4, <2>8, <3>2
    <3>3. CASE i = n + 1 /\ j \in 1 .. n  BY <2>2, <2>4, <2>8, <3>3
    <3> QED  BY <2>6, <3>1, <3>2, <3>3
  <2> QED  BY <2>2, <2>3, <2>7, <2>8 DEF TransactionsOK
<1>2. CASE ParseBottom
  <2> DEFINE m == Head(port["atToROB"])
  <2>1. m \in Content("atToROB")
    BY <1>2, Connections, RetrieveBuffers DEF ParseBottom, Type, Content
  <2>2. For(m.rspTo, m.data)  BY <2>1 DEF DataOK
  <2>3. /\ Len(transactions') = Len(transactions) /\ UNCHANGED <<table, nextID, isFlushingROB>>
        /\ ~ isFlushingROB
    BY <1>2, Entered DEF ParseBottom
  <2>4. ASSUME NEW i \in 1 .. Len(transactions)
        PROVE  /\ transactions'[i].reqID \in table' /\ transactions'[i].reqID < nextID'
               /\ transactions'[i].rsp # 0 => transactions'[i].rsp = transactions'[i].req
    <3>1. /\ transactions'[i].req = transactions[i].req
          /\ transactions'[i].reqID = transactions[i].reqID
          /\ \/ transactions'[i].rsp = transactions[i].rsp
             \/ transactions[i].reqID = m.rspTo /\ transactions'[i].rsp = m.data
      BY <1>2, Entered
    <3> QED  BY <2>2, <2>3, <3>1 DEF For, TransactionsOK
  <2>5. \A i, j \in 1 .. Len(transactions) :
            transactions'[i].reqID = transactions'[j].reqID => i = j
    BY <1>2, Entered DEF TransactionsOK
  <2> QED  BY <2>3, <2>4, <2>5 DEF TransactionsOK
<1>3. CASE BottomUp
  <2> DEFINE n == Len(transactions)
  <2>1. /\ n \in Nat \ {0} /\ Len(transactions') = n - 1 /\ UNCHANGED nextID
        /\ \A i \in 1 .. n - 1 : transactions'[i] = transactions[i + 1]
        /\ Head(transactions) = transactions[1]
    BY <1>3, Answered
  <2>2. table' = table \ {transactions[1].reqID} /\ ~ isFlushingROB'
    BY <1>3, <2>1 DEF BottomUp
  <2>3. \A i \in 1 .. n - 1 : i + 1 \in 1 .. n /\ i + 1 # 1  BY <2>1
  <2>4. 1 \in 1 .. n  BY <2>1
  <2>5. ASSUME NEW i \in 1 .. n - 1
        PROVE  /\ transactions'[i].reqID \in table' /\ transactions'[i].reqID < nextID'
               /\ transactions'[i].rsp # 0 => transactions'[i].rsp = transactions'[i].req
    <3>1. i + 1 \in 1 .. n /\ i + 1 # 1 /\ transactions'[i] = transactions[i + 1]
      BY <2>1, <2>3
    <3>2. transactions[i + 1].reqID # transactions[1].reqID
      BY <2>4, <3>1 DEF TransactionsOK
    <3> QED  BY <2>1, <2>2, <3>1, <3>2 DEF TransactionsOK
  <2>6. ASSUME NEW i \in 1 .. n - 1, NEW j \in 1 .. n - 1,
               transactions'[i].reqID = transactions'[j].reqID
        PROVE  i = j
    <3>1. i + 1 = j + 1  BY <2>1, <2>3, <2>6 DEF TransactionsOK
    <3> QED  BY <2>1, <3>1
  <2> QED  BY <2>1, <2>2, <2>5, <2>6 DEF TransactionsOK
<1>4. CASE DiscardROB \/ RestartROB
  <2>1. transactions' = <<>>  BY <1>4 DEF DiscardROB, RestartROB
  <2>2. Len(transactions') = 0  BY <2>1
  <2> QED  BY <2>1, <2>2 DEF TransactionsOK
<1>5. CASE ~ ROBNext
  <2>1. UNCHANGED robVars  BY <1>5, OtherThanROB
  <2> QED  BY <2>1 DEF robVars, TransactionsOK
<1> QED  BY <1>1, <1>2, <1>3, <1>4, <1>5 DEF ROBNext

-------------------------------------------------------------------------------
(* What the messages are for. *)

\* A transaction that is in the list after a step was in it before, or is new.
LEMMA ListedBefore ==
    ASSUME Type, [Next]_vars
    PROVE  /\ nextID' \in Nat /\ nextID <= nextID'
           /\ \A i \in 1 .. Len(transactions') :
                  \/ \E j \in 1 .. Len(transactions) :
                         /\ transactions'[i].reqID = transactions[j].reqID
                         /\ transactions'[i].req = transactions[j].req
                  \/ TopDown /\ transactions'[i].reqID = nextID
<1>1. nextID \in Nat /\ Len(transactions) \in Nat  BY Lengths DEF Type
<1>2. CASE TopDown
  <2>1. /\ Len(transactions') = Len(transactions) + 1 /\ nextID' = nextID + 1
        /\ transactions'[Len(transactions) + 1].reqID = nextID
        /\ \A i \in 1 .. Len(transactions) : transactions'[i] = transactions[i]
    BY <1>2, Added
  <2>2. \A i \in 1 .. Len(transactions) + 1 :
            i \in 1 .. Len(transactions) \/ i = Len(transactions) + 1
    BY <1>1
  <2>3. nextID' \in Nat /\ nextID <= nextID'  BY <1>1, <2>1
  <2> QED  BY <1>2, <2>1, <2>2, <2>3
<1>3. CASE ParseBottom
  <2>1. /\ Len(transactions') = Len(transactions) /\ UNCHANGED nextID
        /\ \A i \in 1 .. Len(transactions) :
               /\ transactions'[i].reqID = transactions[i].reqID
               /\ transactions'[i].req = transactions[i].req
    BY <1>3, Entered DEF ParseBottom
  <2> QED  BY <1>1, <2>1
<1>4. CASE BottomUp
  <2>1. /\ Len(transactions') = Len(transactions) - 1 /\ UNCHANGED nextID
        /\ \A i \in 1 .. Len(transactions) - 1 : transactions'[i] = transactions[i + 1]
    BY <1>4, Answered
  <2>2. \A i \in 1 .. Len(transactions) - 1 : i + 1 \in 1 .. Len(transactions)  BY <1>1
  <2> QED  BY <1>1, <2>1, <2>2
<1>5. CASE DiscardROB \/ RestartROB
  <2>1. transactions' = <<>> /\ UNCHANGED nextID  BY <1>5 DEF DiscardROB, RestartROB
  <2>2. Len(transactions') = 0  BY <2>1
  <2> QED  BY <1>1, <2>1, <2>2
<1>6. CASE ~ ROBNext
  <2>1. UNCHANGED <<transactions, nextID>>  BY <1>6, OtherThanROB DEF robVars
  <2> QED  BY <1>1, <2>1
<1> QED  BY <1>2, <1>3, <1>4, <1>5, <1>6 DEF ROBNext

LEMMA ForStep ==
    ASSUME Type, [Next]_vars, NEW r \in Nat, NEW a, For(r, a)
    PROVE  For(r, a)'
<1>1. r < nextID  BY DEF For
<1>2. nextID \in Nat  BY DEF Type
<1>3. nextID' \in Nat /\ nextID <= nextID'  BY ListedBefore
<1>4. r < nextID'  BY <1>1, <1>2, <1>3
<1>5. ASSUME NEW i \in 1 .. Len(transactions'), transactions'[i].reqID = r
      PROVE  transactions'[i].req = a
  <2>1. PICK j \in 1 .. Len(transactions) :
            /\ transactions'[i].reqID = transactions[j].reqID
            /\ transactions'[i].req = transactions[j].req
    BY <1>1, <1>2, <1>5, ListedBefore
  <2> QED  BY <1>5, <2>1 DEF For
<1> QED  BY <1>4, <1>5 DEF For

\* Who sends over a connection, and who receives from it.
LEMMA OutKept ==
    ASSUME Type, [Next]_vars, \A c \in Connection : ~ Deliver(c)
    PROVE  /\ ~ (SendRequest \/ Resend) => out'["cuToROB"] = out["cuToROB"]
           /\ ~ TopDown => out'["robToAT"] = out["robToAT"]
           /\ ~ Respond => out'["atToROB"] = out["atToROB"]
           /\ ~ BottomUp => out'["robToCU"] = out["robToCU"]
<1>1. out = [c \in Connection |-> out[c]]  BY DEF Type, Buffers
<1>2. \A c \in Connection : \A m : Send(c, m) => \A d \in Connection \ {c} : out'[d] = out[d]
  BY <1>1 DEF Send
<1>3. CASE SendRequest \/ Resend
  <2>1. \E m : Send("cuToROB", m)  BY <1>3 DEF SendRequest, Resend
  <2> QED  BY <1>2, <1>3, <2>1 DEF Connection
<1>4. CASE TopDown
  <2>1. \E m : Send("robToAT", m)  BY <1>4 DEF TopDown
  <2> QED  BY <1>2, <1>4, <2>1 DEF Connection
<1>5. CASE Respond
  <2>1. \E m : Send("atToROB", m)  BY <1>5 DEF Respond
  <2> QED  BY <1>2, <1>5, <2>1 DEF Connection
<1>6. CASE BottomUp
  <2>1. \E m : Send("robToCU", m)  BY <1>6 DEF BottomUp
  <2> QED  BY <1>2, <1>6, <2>1 DEF Connection
<1>7. CASE UNCHANGED out  BY <1>7
<1>8. ~ (SendRequest \/ Resend \/ TopDown \/ Respond \/ BottomUp) => UNCHANGED out
  BY DEF Next, Progress, CUNext, ROBNext, ATNext, Execute, Resume, ReceiveRsp, FlushPipeline,
         PipelineResume, ParseBottom, DiscardROB, RestartROB, Translate, ParseTranslation,
         DiscardAT, RestartAT, CachesAndTLBs, ShootDown, vars
<1> QED  BY <1>3, <1>4, <1>5, <1>6, <1>7, <1>8

LEMMA PortKept ==
    ASSUME Type, [Next]_vars, \A c \in Connection : ~ Deliver(c)
    PROVE  /\ ~ (TopDown \/ RestartROB) => port'["cuToROB"] = port["cuToROB"]
           /\ ~ (Translate \/ RestartAT) => port'["robToAT"] = port["robToAT"]
           /\ ~ (ParseBottom \/ RestartROB) => port'["atToROB"] = port["atToROB"]
           /\ ~ ReceiveRsp => port'["robToCU"] = port["robToCU"]
<1>1. port = [c \in Connection |-> port[c]]  BY DEF Type, Buffers
<1>2. \A c \in Connection : Retrieve(c) => \A d \in Connection \ {c} : port'[d] = port[d]
  BY <1>1 DEF Retrieve
<1>3. CASE TopDown
  <2>1. Retrieve("cuToROB")  BY <1>3 DEF TopDown
  <2> QED  BY <1>2, <1>3, <2>1 DEF Connection
<1>4. CASE ParseBottom
  <2>1. Retrieve("atToROB")  BY <1>4 DEF ParseBottom
  <2> QED  BY <1>2, <1>4, <2>1 DEF Connection
<1>5. CASE Translate
  <2>1. Retrieve("robToAT")  BY <1>5 DEF Translate
  <2> QED  BY <1>2, <1>5, <2>1 DEF Connection
<1>6. CASE ReceiveRsp
  <2>1. Retrieve("robToCU")  BY <1>6 DEF ReceiveRsp
  <2> QED  BY <1>2, <1>6, <2>1 DEF Connection
<1>7. CASE RestartROB \/ RestartAT
  BY <1>1, <1>7 DEF RestartROB, RestartAT, Connection
<1>8. ~ (TopDown \/ ParseBottom \/ Translate \/ ReceiveRsp \/ RestartROB \/ RestartAT)
          => UNCHANGED port
  BY DEF Next, Progress, CUNext, ROBNext, ATNext, Execute, SendRequest, Resend, Resume,
         FlushPipeline, PipelineResume, BottomUp, DiscardROB, ParseTranslation, Respond,
         DiscardAT, CachesAndTLBs, ShootDown, vars
<1> QED  BY <1>3, <1>4, <1>5, <1>6, <1>7, <1>8

\* A restart empties a port.
LEMMA EmptiedPorts ==
    ASSUME Type
    PROVE  /\ RestartAT => port'["robToAT"] = <<>>
           /\ RestartROB => port'["cuToROB"] = <<>> /\ port'["atToROB"] = <<>>
           /\ Range(<<>>) = {}
<1>1. port = [c \in Connection |-> port[c]]  BY DEF Type, Buffers
<1> QED  BY <1>1 DEF RestartAT, RestartROB, Connection, Range

\* What is on the way after a step was on it before, or has been sent.
LEMMA ToTranslateStep ==
    ASSUME Type, [Next]_vars
    PROVE  \A r \in ToTranslate' :
               \/ r \in ToTranslate
               \/ /\ TopDown
                  /\ r = [reqID |-> nextID, access |-> Head(port["cuToROB"])]
<1> USE Connections
<1>t. Buffers(out) /\ Buffers(port)  BY DEF Type
<1>1. ASSUME NEW c \in Connection, Deliver(c)
      PROVE  ToTranslate' = ToTranslate
  <2>1. Content("robToAT")' = Content("robToAT")  BY <1>1, <1>t, DeliverBuffers
  <2> QED  BY <1>1, <2>1 DEF Deliver, ToTranslate, atVars
<1> SUFFICES ASSUME \A c \in Connection : ~ Deliver(c)
             PROVE  \A r \in ToTranslate' :
                        \/ r \in ToTranslate
                        \/ /\ TopDown
                           /\ r = [reqID |-> nextID, access |-> Head(port["cuToROB"])]
  BY <1>1
<1>2. CASE TopDown
  <2> DEFINE m == [reqID |-> nextID, access |-> Head(port["cuToROB"])]
  <2>1. m \in RobReq  BY <1>2, Added DEF RobReq
  <2>2. Range(out'["robToAT"]) = Range(out["robToAT"]) \cup {m}
    BY <1>2, <1>t, <2>1, SendBuffers DEF TopDown
  <2>3. port'["robToAT"] = port["robToAT"]
    <3>1. ~ (Translate \/ RestartAT)
      BY <1>2, <2>1, Added DEF TopDown, Translate, RestartAT, Retrieve, robVars
    <3> QED  BY <3>1, PortKept
  <2>4. UNCHANGED <<translating, inBottom>>  BY <1>2 DEF TopDown, atVars
  <2> QED  BY <1>2, <2>2, <2>3, <2>4 DEF ToTranslate, Content
<1>3. CASE Translate
  <2>1. Range(port["robToAT"]) = Range(port'["robToAT"]) \cup {Head(port["robToAT"])}
    BY <1>3, <1>t, RetrieveBuffers DEF Translate
  <2>2. translating' = translating \cup {Head(port["robToAT"])} /\ UNCHANGED <<inBottom, out>>
    BY <1>3 DEF Translate
  <2> QED  BY <2>1, <2>2 DEF ToTranslate, Content
<1>4. CASE RestartAT
  <2>1. Range(port'["robToAT"]) = {} /\ UNCHANGED <<translating, inBottom, out>>
    BY <1>4, EmptiedPorts DEF RestartAT
  <2> QED  BY <2>1 DEF ToTranslate, Content
<1>5. CASE ~ TopDown /\ ~ Translate /\ ~ RestartAT
  <2>1. Content("robToAT")' = Content("robToAT")  BY <1>5, OutKept, PortKept DEF Content
  <2>2. translating' \cup inBottom' \subseteq translating \cup inBottom
    BY <1>5 DEF Next, Progress, CUNext, ROBNext, ATNext, Execute, SendRequest, Resend, Resume,
           ReceiveRsp, FlushPipeline, PipelineResume, ParseBottom, BottomUp, DiscardROB,
           RestartROB, ParseTranslation, Respond, DiscardAT, CachesAndTLBs, ShootDown,
           vars, atVars
  <2> QED  BY <2>1, <2>2 DEF ToTranslate
<1> QED  BY <1>2, <1>3, <1>4, <1>5

LEMMA AnswersStep ==
    ASSUME Type, [Next]_vars
    PROVE  \A m \in Content("atToROB")' :
               \/ m \in Content("atToROB")
               \/ \E r \in inBottom : Respond /\ m = [rspTo |-> r.reqID, data |-> r.access]
<1> USE Connections
<1>t. Buffers(out) /\ Buffers(port)  BY DEF Type
<1>1. ASSUME NEW c \in Connection, Deliver(c)
      PROVE  Content("atToROB")' = Content("atToROB")
  BY <1>1, <1>t, DeliverBuffers
<1> SUFFICES ASSUME \A c \in Connection : ~ Deliver(c)
             PROVE  \A m \in Content("atToROB")' :
                        \/ m \in Content("atToROB")
                        \/ \E r \in inBottom :
                               Respond /\ m = [rspTo |-> r.reqID, data |-> r.access]
  BY <1>1
<1>2. CASE Respond
  <2>1. PICK r \in inBottom : Send("atToROB", [rspTo |-> r.reqID, data |-> r.access])
    BY <1>2 DEF Respond
  <2>2. [rspTo |-> r.reqID, data |-> r.access] \in RspMsg(Nat)
    BY <2>1 DEF Type, RspMsg, RobReq
  <2>3. Range(out'["atToROB"]) =
            Range(out["atToROB"]) \cup {[rspTo |-> r.reqID, data |-> r.access]}
    BY <1>t, <2>1, <2>2, SendBuffers
  <2>4. UNCHANGED port  BY <1>2 DEF Respond
  <2> QED  BY <1>2, <2>3, <2>4 DEF Content
<1>3. CASE ParseBottom
  <2>1. Range(port'["atToROB"]) \subseteq Range(port["atToROB"])
    BY <1>3, <1>t, RetrieveBuffers DEF ParseBottom
  <2>2. UNCHANGED out  BY <1>3 DEF ParseBottom
  <2> QED  BY <2>1, <2>2 DEF Content
<1>4. CASE RestartROB
  <2>1. Range(port'["atToROB"]) = {} /\ UNCHANGED out  BY <1>4, EmptiedPorts DEF RestartROB
  <2> QED  BY <2>1 DEF Content
<1>5. CASE ~ Respond /\ ~ ParseBottom /\ ~ RestartROB
  BY <1>5, OutKept, PortKept DEF Content
<1> QED  BY <1>2, <1>3, <1>4, <1>5

LEMMA ResponsesStep ==
    ASSUME Type, [Next]_vars
    PROVE  \A m \in Content("robToCU")' :
               \/ m \in Content("robToCU")
               \/ /\ BottomUp
                  /\ m = [rspTo |-> [access |-> Head(transactions).req,
                                      id |-> id[Head(transactions).req]],
                           data |-> Head(transactions).rsp]
<1> USE Connections
<1>t. Buffers(out) /\ Buffers(port)  BY DEF Type
<1> DEFINE new == [rspTo |-> [access |-> Head(transactions).req,
                              id |-> id[Head(transactions).req]],
                   data |-> Head(transactions).rsp]
<1>1. ASSUME NEW c \in Connection, Deliver(c)
      PROVE  Content("robToCU")' = Content("robToCU")
  BY <1>1, <1>t, DeliverBuffers
<1> SUFFICES ASSUME \A c \in Connection : ~ Deliver(c)
             PROVE  \A m \in Content("robToCU")' :
                        m \in Content("robToCU") \/ (BottomUp /\ m = new)
  BY <1>1
<1>2. CASE BottomUp
  <2>1. new \in RspMsg(AccessID)
    BY <1>2, Answered DEF Type, RspMsg, AccessID
  <2>2. Send("robToCU", new) /\ UNCHANGED port
    BY <1>2 DEF BottomUp
  <2> HIDE DEF new
  <2>3. Range(out'["robToCU"]) = Range(out["robToCU"]) \cup {new}
    BY <1>t, <2>1, <2>2, SendBuffers
  <2> QED  BY <1>2, <2>2, <2>3 DEF Content
<1>3. CASE ReceiveRsp
  <2>1. Range(port'["robToCU"]) \subseteq Range(port["robToCU"])
    BY <1>3, <1>t, RetrieveBuffers DEF ReceiveRsp
  <2>2. UNCHANGED out  BY <1>3 DEF ReceiveRsp
  <2> QED  BY <2>1, <2>2 DEF Content
<1>4. CASE ~ BottomUp /\ ~ ReceiveRsp
  BY <1>4, OutKept, PortKept DEF Content
<1> QED  BY <1>2, <1>3, <1>4

LEMMA AccessesStep ==
    ASSUME Type, [Next]_vars
    PROVE  \A a \in Content("cuToROB")' :
               \/ a \in Content("cuToROB")
               \/ SendRequest /\ a = Head(toSend)
               \/ Resend /\ a = Head(shadow)
<1> USE Connections
<1>t. Buffers(out) /\ Buffers(port)  BY DEF Type
<1> DEFINE Before(a) == \/ a \in Content("cuToROB")
                        \/ SendRequest /\ a = Head(toSend)
                        \/ Resend /\ a = Head(shadow)
<1>1. ASSUME NEW c \in Connection, Deliver(c)
      PROVE  Content("cuToROB")' = Content("cuToROB")
  BY <1>1, <1>t, DeliverBuffers
<1> SUFFICES ASSUME \A c \in Connection : ~ Deliver(c)
             PROVE  \A a \in Content("cuToROB")' : Before(a)
  BY <1>1
<1>2. CASE SendRequest
  <2>1. Range(out'["cuToROB"]) = Range(out["cuToROB"]) \cup {Head(toSend)} /\ UNCHANGED port
    BY <1>2, <1>t, TypedHeads, SendBuffers DEF SendRequest
  <2> QED  BY <1>2, <2>1 DEF Content
<1>3. CASE Resend
  <2>1. Range(out'["cuToROB"]) = Range(out["cuToROB"]) \cup {Head(shadow)} /\ UNCHANGED port
    BY <1>3, <1>t, TypedHeads, SendBuffers DEF Resend
  <2> QED  BY <1>3, <2>1 DEF Content
<1>4. CASE TopDown
  <2>1. Range(port'["cuToROB"]) \subseteq Range(port["cuToROB"])
    BY <1>4, <1>t, RetrieveBuffers DEF TopDown
  <2>2. out'["cuToROB"] = out["cuToROB"]
    BY <1>4, <1>t DEF TopDown, Send, Buffers
  <2> QED  BY <2>1, <2>2 DEF Content
<1>5. CASE RestartROB
  <2>1. Range(port'["cuToROB"]) = {} /\ UNCHANGED out  BY <1>5, EmptiedPorts DEF RestartROB
  <2> QED  BY <2>1 DEF Content
<1>6. CASE ~ SendRequest /\ ~ Resend /\ ~ TopDown /\ ~ RestartROB
  BY <1>6, OutKept, PortKept DEF Content
<1> QED  BY <1>2, <1>3, <1>4, <1>5, <1>6

LEMMA TypedContent ==
    ASSUME Type
    PROVE  /\ ToTranslate \subseteq RobReq /\ Content("atToROB") \subseteq RspMsg(Nat)
           /\ Content("robToCU") \subseteq RspMsg(AccessID)
           /\ Content("cuToROB") \subseteq Access
<1>1. \A c \in Connection : out[c] \in Seq(Message(c)) /\ port[c] \in Seq(Message(c))
  BY DEF Type, Buffers
<1>2. \A c \in Connection : Content(c) \subseteq Message(c)
  BY <1>1, RangeOfSeq DEF Content
<1> QED  BY <1>2, Connections DEF ToTranslate, Type

LEMMA DataStep ==
    ASSUME Type, TransactionsOK, DataOK, [Next]_vars
    PROVE  DataOK'
<1>1. ASSUME NEW r \in ToTranslate'
      PROVE  For(r.reqID, r.access)'
  <2>1. CASE r \in ToTranslate
    <3>1. r.reqID \in Nat /\ For(r.reqID, r.access)
      BY <2>1, TypedContent DEF DataOK, RobReq
    <3>2. PICK q, a : q \in Nat /\ q = r.reqID /\ a = r.access  BY <3>1
    <3>3. For(q, a)'  BY <3>1, <3>2, ForStep
    <3> QED  BY <3>2, <3>3
  <2>2. CASE TopDown /\ r = [reqID |-> nextID, access |-> Head(port["cuToROB"])]
    <3> DEFINE n == Len(transactions)
    <3>1. /\ n \in Nat /\ nextID \in Nat /\ nextID' = nextID + 1 /\ Len(transactions') = n + 1
          /\ transactions'[n + 1].req = Head(port["cuToROB"])
          /\ \A i \in 1 .. n : transactions'[i] = transactions[i]
      BY <2>2, Added, Lengths
    <3>2. \A i \in 1 .. n : transactions[i].reqID < nextID /\ transactions[i].reqID \in Nat
      BY Listed DEF TransactionsOK
    <3>3. ASSUME NEW i \in 1 .. n + 1, transactions'[i].reqID = nextID
          PROVE  transactions'[i].req = Head(port["cuToROB"])
      <4>1. i \in 1 .. n \/ i = n + 1  BY <3>1
      <4>2. i \notin 1 .. n  BY <3>1, <3>2, <3>3
      <4> QED  BY <3>1, <4>1, <4>2
    <3> QED  BY <2>2, <3>1, <3>3 DEF For
  <2> QED  BY <2>1, <2>2, ToTranslateStep
<1>2. ASSUME NEW m \in Content("atToROB")'
      PROVE  For(m.rspTo, m.data)'
  <2>1. PICK q, a : q \in Nat /\ q = m.rspTo /\ a = m.data /\ For(q, a)
    <3>1. CASE m \in Content("atToROB")
      BY <3>1, TypedContent DEF DataOK, RspMsg
    <3>2. CASE \E r \in inBottom : m = [rspTo |-> r.reqID, data |-> r.access]
      BY <3>2, TypedContent DEF DataOK, ToTranslate, RobReq
    <3> QED  BY <3>1, <3>2, AnswersStep
  <2>2. For(q, a)'  BY <2>1, ForStep
  <2> QED  BY <2>1, <2>2
<1>3. ASSUME NEW m \in Content("robToCU")'
      PROVE  m.data = m.rspTo.access
  <2>1. CASE m \in Content("robToCU")  BY <2>1 DEF DataOK
  <2>2. CASE /\ BottomUp
             /\ m = [rspTo |-> [access |-> Head(transactions).req,
                                id |-> id[Head(transactions).req]],
                     data |-> Head(transactions).rsp]
    <3>1. /\ Head(transactions) = transactions[1] /\ 1 \in 1 .. Len(transactions)
          /\ Head(transactions).rsp # 0
      BY <2>2, Answered DEF BottomUp
    <3>2. Head(transactions).rsp = Head(transactions).req  BY <3>1 DEF TransactionsOK
    <3> QED  BY <2>2, <3>2
  <2> QED  BY <2>1, <2>2, ResponsesStep
<1> QED  BY <1>1, <1>2, <1>3 DEF DataOK

-------------------------------------------------------------------------------
(* A transaction without a response is answered, or can be. *)

LEMMA ToTranslateKept ==
    ASSUME Type, [Next]_vars, NEW r \in ToTranslate, ~ DiscardAT, ~ RestartAT
    PROVE  r \in ToTranslate' \/ [rspTo |-> r.reqID, data |-> r.access] \in Content("atToROB")'
<1> USE Connections
<1>t. Buffers(out) /\ Buffers(port)  BY DEF Type
<1>1. ASSUME NEW c \in Connection, Deliver(c)
      PROVE  ToTranslate' = ToTranslate
  <2>1. Content("robToAT")' = Content("robToAT")  BY <1>1, <1>t, DeliverBuffers
  <2> QED  BY <1>1, <2>1 DEF Deliver, ToTranslate, atVars
<1> SUFFICES ASSUME \A c \in Connection : ~ Deliver(c)
             PROVE  \/ r \in ToTranslate'
                    \/ [rspTo |-> r.reqID, data |-> r.access] \in Content("atToROB")'
  BY <1>1
<1>2. CASE TopDown
  <2> DEFINE m == [reqID |-> nextID, access |-> Head(port["cuToROB"])]
  <2>1. m \in RobReq  BY <1>2, Added DEF RobReq
  <2>2. Range(out'["robToAT"]) = Range(out["robToAT"]) \cup {m}
    BY <1>2, <1>t, <2>1, SendBuffers DEF TopDown
  <2>3. port'["robToAT"] = port["robToAT"]
    <3>1. ~ (Translate \/ RestartAT)
      BY <1>2, <2>1, Added DEF TopDown, Translate, RestartAT, Retrieve, robVars
    <3> QED  BY <3>1, PortKept
  <2>4. UNCHANGED <<translating, inBottom>>  BY <1>2 DEF TopDown, atVars
  <2> QED  BY <2>2, <2>3, <2>4 DEF ToTranslate, Content
<1>3. CASE Translate
  <2>1. Range(port["robToAT"]) = Range(port'["robToAT"]) \cup {Head(port["robToAT"])}
    BY <1>3, <1>t, RetrieveBuffers DEF Translate
  <2>2. translating' = translating \cup {Head(port["robToAT"])} /\ UNCHANGED <<inBottom, out>>
    BY <1>3 DEF Translate
  <2> QED  BY <2>1, <2>2 DEF ToTranslate, Content
<1>4. CASE ParseTranslation
  <2>1. translating' \cup inBottom' = translating \cup inBottom /\ UNCHANGED <<out, port>>
    BY <1>4 DEF ParseTranslation
  <2> QED  BY <2>1 DEF ToTranslate, Content
<1>5. CASE Respond
  <2>1. PICK q \in inBottom : /\ Send("atToROB", [rspTo |-> q.reqID, data |-> q.access])
                              /\ inBottom' = inBottom \ {q} /\ UNCHANGED <<translating, port>>
    BY <1>5 DEF Respond
  <2>2. [rspTo |-> q.reqID, data |-> q.access] \in RspMsg(Nat)
    BY <2>1 DEF Type, RspMsg, RobReq
  <2>3. Range(out'["atToROB"]) =
            Range(out["atToROB"]) \cup {[rspTo |-> q.reqID, data |-> q.access]}
    BY <1>t, <2>1, <2>2, SendBuffers
  <2>4. out'["robToAT"] = out["robToAT"]
    <3>1. "robToAT" \in Connection \ {"atToROB"}  OBVIOUS
    <3> QED  BY <1>t, <2>1, <2>2, <3>1, SendBuffers
  <2>5. CASE r = q  BY <2>3, <2>5 DEF Content
  <2>6. CASE r # q  BY <2>1, <2>4, <2>6 DEF ToTranslate, Content
  <2> QED  BY <2>5, <2>6
<1>6. CASE ~ TopDown /\ ~ Translate /\ ~ ParseTranslation /\ ~ Respond
  <2>1. Content("robToAT")' = Content("robToAT")  BY <1>6, OutKept, PortKept DEF Content
  <2>2. UNCHANGED <<translating, inBottom>>
    BY <1>6 DEF Next, Progress, CUNext, ROBNext, ATNext, Execute, SendRequest, Resend, Resume,
           ReceiveRsp, FlushPipeline, PipelineResume, ParseBottom, BottomUp, DiscardROB,
           RestartROB, CachesAndTLBs, ShootDown, vars, atVars
  <2> QED  BY <2>1, <2>2 DEF ToTranslate
<1> QED  BY <1>2, <1>3, <1>4, <1>5, <1>6

LEMMA AnswersKept ==
    ASSUME Type, [Next]_vars, NEW m \in Content("atToROB"), ~ RestartROB
    PROVE  m \in Content("atToROB")' \/ (ParseBottom /\ m = Head(port["atToROB"]))
<1> USE Connections
<1>t. Buffers(out) /\ Buffers(port)  BY DEF Type
<1>1. ASSUME NEW c \in Connection, Deliver(c)
      PROVE  Content("atToROB")' = Content("atToROB")
  BY <1>1, <1>t, DeliverBuffers
<1> SUFFICES ASSUME \A c \in Connection : ~ Deliver(c)
             PROVE  m \in Content("atToROB")' \/ (ParseBottom /\ m = Head(port["atToROB"]))
  BY <1>1
<1>2. CASE Respond
  <2>1. PICK r \in inBottom : Send("atToROB", [rspTo |-> r.reqID, data |-> r.access])
    BY <1>2 DEF Respond
  <2>2. [rspTo |-> r.reqID, data |-> r.access] \in RspMsg(Nat)
    BY <2>1 DEF Type, RspMsg, RobReq
  <2>3. Range(out["atToROB"]) \subseteq Range(out'["atToROB"])
    BY <1>t, <2>1, <2>2, SendBuffers
  <2>4. UNCHANGED port  BY <1>2 DEF Respond
  <2> QED  BY <2>3, <2>4 DEF Content
<1>3. CASE ParseBottom
  <2>1. Range(port["atToROB"]) = Range(port'["atToROB"]) \cup {Head(port["atToROB"])}
    BY <1>3, <1>t, RetrieveBuffers DEF ParseBottom
  <2>2. UNCHANGED out  BY <1>3 DEF ParseBottom
  <2> QED  BY <1>3, <2>1, <2>2 DEF Content
<1>4. CASE ~ Respond /\ ~ ParseBottom
  BY <1>4, OutKept, PortKept DEF Content
<1> QED  BY <1>2, <1>3, <1>4

\* A transaction that has no response after a step had none before, or is new.
LEMMA OpenBefore ==
    ASSUME Type, TransactionsOK, [Next]_vars, NEW i \in 1 .. Len(transactions'),
           transactions'[i].rsp = 0
    PROVE  \/ \E j \in 1 .. Len(transactions) :
                  /\ transactions[j].rsp = 0 /\ transactions[j].reqID = transactions'[i].reqID
                  /\ ParseBottom => transactions[j].reqID # Head(port["atToROB"]).rspTo
           \/ TopDown /\ transactions'[i].reqID = nextID
<1>n. Len(transactions) \in Nat  BY Lengths
<1>1. CASE TopDown
  <2>1. /\ Len(transactions') = Len(transactions) + 1
        /\ transactions'[Len(transactions) + 1].reqID = nextID
        /\ \A j \in 1 .. Len(transactions) : transactions'[j] = transactions[j]
    BY <1>1, Added
  <2>2. i \in 1 .. Len(transactions) \/ i = Len(transactions) + 1  BY <1>n, <2>1
  <2>3. CASE i = Len(transactions) + 1  BY <1>1, <2>1, <2>3
  <2>4. CASE i \in 1 .. Len(transactions) /\ ~ ParseBottom  BY <2>1, <2>4
  <2>5. ~ ParseBottom
    <3>1. nextID' = nextID + 1 /\ nextID \in Nat  BY <1>1, Added
    <3> QED  BY <3>1 DEF ParseBottom
  <2> QED  BY <2>2, <2>3, <2>4, <2>5
<1>2. CASE ParseBottom
  <2> DEFINE m == Head(port["atToROB"])
  <2>1. i \in 1 .. Len(transactions)  BY <1>2, Entered
  <2>2. /\ transactions'[i].reqID = transactions[i].reqID
        /\ transactions'[i].rsp = IF m.rspTo \in table /\ transactions[i].reqID = m.rspTo
                                  THEN m.data ELSE transactions[i].rsp
    BY <1>2, <2>1, Entered
  <2>3. m.data # 0
    <3>1. m \in RspMsg(Nat)  BY <1>2, Connections, RetrieveBuffers DEF ParseBottom, Type
    <3>2. m.data \in Access  BY <3>1 DEF RspMsg
    <3> QED  BY <3>2, AccessNat
  <2>4. transactions[i].reqID \in table  BY <2>1 DEF TransactionsOK
  <2>5. transactions[i].reqID # m.rspTo  BY <2>2, <2>3, <2>4
  <2> QED  BY <2>1, <2>2, <2>5
<1>3. CASE BottomUp /\ ~ ParseBottom
  <2>1. /\ Len(transactions') = Len(transactions) - 1
        /\ \A j \in 1 .. Len(transactions) - 1 : transactions'[j] = transactions[j + 1]
    BY <1>3, Answered
  <2>2. i + 1 \in 1 .. Len(transactions) /\ transactions'[i] = transactions[i + 1]
    BY <1>n, <2>1
  <2> QED  BY <1>3, <2>2
<1>4. CASE DiscardROB \/ RestartROB
  <2>1. transactions' = <<>>  BY <1>4 DEF DiscardROB, RestartROB
  <2>2. Len(transactions') = 0  BY <2>1
  <2> QED  BY <2>2
<1>5. CASE ~ ROBNext
  <2>1. UNCHANGED transactions /\ ~ ParseBottom  BY <1>5, OtherThanROB DEF robVars, ROBNext
  <2> QED  BY <2>1
<1> QED  BY <1>1, <1>2, <1>3, <1>4, <1>5 DEF ROBNext

LEMMA OrphanStep ==
    ASSUME Type, PhaseOK, TransactionsOK, NoOrphan, [Next]_vars, Type'
    PROVE  NoOrphan'
<1>d. DOMAIN transactions = 1 .. Len(transactions) /\ DOMAIN transactions' = 1 .. Len(transactions')
  BY SeqType DEF Type
<1>1. SUFFICES ASSUME phase' # "discardROB", NEW i \in 1 .. Len(transactions'),
                      transactions'[i].rsp = 0, NEW r, r = transactions'[i].reqID
               PROVE  Answerable(r)'
  <2>1. SUFFICES ASSUME phase' # "discardROB", NEW i \in 1 .. Len(transactions'),
                        transactions'[i].rsp = 0
                 PROVE  \E r : r = transactions'[i].reqID /\ Answerable(r)'
    BY <1>d DEF NoOrphan
  <2> QED  BY <2>1
<1>2. ~ DiscardAT  BY <1>1 DEF DiscardAT, Advance
<1>3. transactions' # <<>>
  <2>1. Len(transactions') # 0  BY <1>1
  <2> QED  BY <2>1
<1>4. ~ DiscardROB /\ ~ RestartROB  BY <1>3 DEF DiscardROB, RestartROB
<1>5. ~ RestartAT
  <2> SUFFICES ASSUME RestartAT PROVE FALSE  OBVIOUS
  <2>1. phase = "restartAT" /\ transactions' = transactions
    BY DEF RestartAT, Advance, robVars
  <2>2. isFlushingROB  BY <2>1 DEF PhaseOK
  <2> QED  BY <1>3, <2>1, <2>2 DEF TransactionsOK
<1>6. phase # "discardROB"
  BY <1>1, <1>4 DEF Next, Progress, CUNext, ROBNext, ATNext, Execute, SendRequest, Resend,
        Resume, ReceiveRsp, FlushPipeline, PipelineResume, TopDown, ParseBottom, BottomUp,
        Translate, ParseTranslation, Respond, DiscardAT, RestartAT, CachesAndTLBs, Deliver,
        ShootDown, Advance, vars, cpVars
<1>7. CASE TopDown /\ r = nextID
  <2> DEFINE m == [reqID |-> nextID, access |-> Head(port["cuToROB"])]
  <2>1. m \in RobReq  BY <1>7, Added DEF RobReq
  <2>2. m \in Range(out'["robToAT"])
    <3>1. Send("robToAT", m) /\ Buffers(out)  BY <1>7 DEF TopDown, Type
    <3> HIDE DEF m
    <3> QED  BY <2>1, <3>1, Connections, SendBuffers
  <2>3. m \in Content("robToAT")' /\ m.reqID = nextID  BY <2>2 DEF Content
  <2> QED  BY <1>7, <2>3 DEF Answerable
<1>8. ASSUME NEW j \in 1 .. Len(transactions), transactions[j].rsp = 0,
             transactions[j].reqID = r,
             ParseBottom => transactions[j].reqID # Head(port["atToROB"]).rspTo
      PROVE  Answerable(r)'
  <2>2. Answerable(r)  BY <1>6, <1>8, <1>d DEF NoOrphan
  <2>3. CASE \E m \in ToTranslate : m.reqID = r
    <3>1. PICK m \in ToTranslate : m.reqID = r  BY <2>3
    <3>2. CASE m \in ToTranslate'
      BY <1>8, <3>1, <3>2 DEF Answerable, ToTranslate
    <3>3. CASE [rspTo |-> m.reqID, data |-> m.access] \in Content("atToROB")'
      BY <1>8, <3>1, <3>3 DEF Answerable
    <3> QED  BY <1>2, <1>5, <3>2, <3>3, ToTranslateKept
  <2>4. CASE \E m \in Content("atToROB") : m.rspTo = r
    <3>1. PICK m \in Content("atToROB") : m.rspTo = r  BY <2>4
    <3>2. m \in Content("atToROB")'  BY <1>4, <1>8, <3>1, AnswersKept
    <3> QED  BY <1>8, <3>1, <3>2 DEF Answerable
  <2> QED  BY <2>2, <2>3, <2>4 DEF Answerable, ToTranslate
<1> QED  BY <1>1, <1>7, <1>8, OpenBefore

-------------------------------------------------------------------------------
(* How far the accesses have been sent. *)

LEMMA ReachStep ==
    ASSUME Type, PhaseOK, OrderOK, ReachOK, [Next]_vars
    PROVE  ReachOK'
<1>1. SentUpTo \in Int /\ SentUpTo' \in Int /\ SentUpTo <= SentUpTo'
  <2>1. Len(toSend) \in Nat /\ issued \in Nat /\ toSend \in Seq(Access)  BY Lengths DEF Type
  <2>2. CASE Execute
    <3>1. issued + 1 \in Access  BY <2>1, <2>2, AccessType DEF Execute
    <3>2. Len(toSend') = Len(toSend) + 1 /\ issued' = issued + 1
      BY <2>1, <2>2, <3>1, AppendElements DEF Execute
    <3> QED  BY <2>1, <3>2 DEF SentUpTo
  <2>3. CASE SendRequest
    <3>1. Len(toSend') = Len(toSend) - 1 /\ issued' = issued
      BY <2>1, <2>3, TailElements DEF SendRequest
    <3> QED  BY <2>1, <3>1 DEF SentUpTo
  <2>4. CASE FlushPipeline
    <3>1. toSend' = <<>> /\ issued' = issued  BY <2>4 DEF FlushPipeline
    <3>2. Len(toSend') = 0  BY <3>1
    <3> QED  BY <2>1, <3>1, <3>2 DEF SentUpTo
  <2>5. CASE Resend \/ Resume \/ ReceiveRsp \/ PipelineResume
    <3>1. UNCHANGED <<issued, toSend>>
      BY <2>5 DEF Resend, Resume, ReceiveRsp, PipelineResume
    <3> QED  BY <2>1, <3>1 DEF SentUpTo
  <2>6. CASE ~ CUNext
    <3>1. UNCHANGED <<issued, toSend>>  BY <2>6, OthersSteps DEF cuVars
    <3> QED  BY <2>1, <3>1 DEF SentUpTo
  <2> QED  BY <2>2, <2>3, <2>4, <2>5, <2>6 DEF CUNext
<1>2. ASSUME NEW a \in Content("cuToROB")'
      PROVE  a <= SentUpTo'
  <2>1. CASE a \in Content("cuToROB")
    <3>1. a \in Nat /\ a <= SentUpTo  BY <2>1, TypedContent, AccessNat DEF ReachOK
    <3> QED  BY <1>1, <3>1
  <2>2. CASE SendRequest /\ a = Head(toSend)
    <3>1. /\ toSend # <<>> /\ toSend \in Seq(Access) /\ toSend' = Tail(toSend)
          /\ issued' = issued
      BY <2>2 DEF SendRequest, Type
    <3>2. Head(toSend) = toSend[1] /\ Len(toSend') = Len(toSend) - 1 /\ 1 \in 1 .. Len(toSend)
      BY <3>1, TailElements, Lengths
    <3>3. a = issued - Len(toSend) + 1  BY <2>2, <3>2 DEF OrderOK
    <3> QED  BY <3>1, <3>2, <3>3, Lengths DEF SentUpTo
  <2>3. CASE Resend /\ a = Head(shadow)
    <3>1. /\ shadow # <<>> /\ shadow \in Seq(Access) /\ UNCHANGED <<issued, toSend>>
      BY <2>3 DEF Resend, Type
    <3>2. Head(shadow) = shadow[1] /\ 1 \in 1 .. Len(shadow)
      BY <3>1, TailElements, Lengths
    <3>3. a = Len(done) + Len(inFlight) + 1  BY <2>3, <3>2 DEF OrderOK
    <3>4. Len(toSend) = 0 /\ a <= issued
      <4>1. toSend = <<>>  BY <3>1 DEF PhaseOK
      <4>2. Len(shadow) >= 1  BY <3>1, Lengths
      <4> QED  BY <3>3, <4>1, <4>2, Lengths DEF OrderOK
    <3>5. Len(toSend') = 0 /\ issued' = issued  BY <3>1, <3>4
    <3> QED  BY <3>3, <3>4, <3>5, Lengths DEF SentUpTo
  <2> QED  BY <2>1, <2>2, <2>3, AccessesStep
<1>3. ASSUME NEW i \in 1 .. Len(transactions')
      PROVE  transactions'[i].req <= SentUpTo'
  <2>1. CASE TopDown
    <3>1. /\ Len(transactions') = Len(transactions) + 1 /\ Head(port["cuToROB"]) \in Access
          /\ transactions'[Len(transactions) + 1].req = Head(port["cuToROB"])
          /\ \A j \in 1 .. Len(transactions) : transactions'[j] = transactions[j]
      BY <2>1, Added
    <3>2. i \in 1 .. Len(transactions) \/ i = Len(transactions) + 1  BY <3>1, Lengths
    <3>3. CASE i \in 1 .. Len(transactions)
      <4>1. transactions'[i].req \in Nat  BY <3>1, <3>3, Listed, AccessNat
      <4> QED  BY <1>1, <3>1, <3>3, <4>1 DEF ReachOK
    <3>4. CASE i = Len(transactions) + 1
      <4>1. Head(port["cuToROB"]) \in Content("cuToROB")
        BY <2>1, Connections, RetrieveBuffers DEF TopDown, Type, Content
      <4>2. Head(port["cuToROB"]) <= SentUpTo /\ Head(port["cuToROB"]) \in Nat
        BY <3>1, <4>1, AccessNat DEF ReachOK
      <4> QED  BY <1>1, <3>1, <3>4, <4>2
    <3> QED  BY <3>2, <3>3, <3>4
  <2>2. CASE ~ TopDown
    <3>1. PICK j \in 1 .. Len(transactions) : transactions'[i].req = transactions[j].req
      BY <2>2, ListedBefore
    <3>2. transactions[j].req \in Nat  BY Listed, AccessNat
    <3> QED  BY <1>1, <3>1, <3>2 DEF ReachOK
  <2> QED  BY <2>1, <2>2
<1>4. ASSUME NEW m \in Content("robToCU")'
      PROVE  m.rspTo.access <= SentUpTo'
  <2>1. CASE m \in Content("robToCU")
    <3>1. m.rspTo.access \in Nat
      BY <2>1, TypedContent, AccessNat DEF RspMsg, AccessID
    <3> QED  BY <1>1, <2>1, <3>1 DEF ReachOK
  <2>2. CASE BottomUp /\ m.rspTo.access = Head(transactions).req
    <3>1. Head(transactions) = transactions[1] /\ 1 \in 1 .. Len(transactions)
      BY <2>2, Answered
    <3>2. transactions[1].req \in Nat /\ transactions[1].req <= SentUpTo
      BY <3>1, Listed, AccessNat DEF ReachOK
    <3> QED  BY <1>1, <2>2, <3>1, <3>2
  <2> QED  BY <2>1, <2>2, ResponsesStep
<1> QED  BY <1>2, <1>3, <1>4 DEF ReachOK

-------------------------------------------------------------------------------
(* Queues that hold accesses in program order. *)

LEMMA AlongElements ==
    ASSUME NEW S, NEW f, Numbering(f, S), NEW s \in Seq(S)
    PROVE  /\ Along(f, s) \in Seq(Nat) /\ Len(Along(f, s)) = Len(s)
           /\ \A i \in 1 .. Len(s) : Along(f, s)[i] = f[s[i]]
<1>1. Len(s) \in Nat /\ \A i \in 1 .. Len(s) : s[i] \in S  BY SeqType
<1>2. \A i \in 1 .. Len(s) : f[s[i]] \in Nat  BY <1>1 DEF Numbering
<1>3. Along(f, s) = [i \in 1 .. Len(s) |-> f[s[i]]]  BY DEF Along
<1> QED  BY <1>1, <1>2, <1>3

LEMMA AlongAppend ==
    ASSUME NEW S, NEW f, Numbering(f, S), NEW s \in Seq(S), NEW e \in S
    PROVE  Along(f, Append(s, e)) = Append(Along(f, s), f[e])
<1>1. PICK n \in Nat : n = Len(s)  BY SeqType
<1>2. PICK w \in Seq(S) : w = Append(s, e)  BY AppendElements
<1>3. w \in Seq(S) /\ Len(w) = n + 1 /\ w[n + 1] = e /\ \A i \in 1 .. n : w[i] = s[i]
  BY <1>1, <1>2, AppendElements
<1>4. PICK u : u = Along(f, s)  OBVIOUS
<1>5. PICK v : v = Along(f, w)  OBVIOUS
<1>6. u \in Seq(Nat) /\ Len(u) = n /\ \A i \in 1 .. n : u[i] = f[s[i]]
  BY <1>1, <1>4, AlongElements
<1>7. v \in Seq(Nat) /\ Len(v) = n + 1 /\ \A i \in 1 .. n + 1 : v[i] = f[w[i]]
  <2>1. /\ Along(f, w) \in Seq(Nat) /\ Len(Along(f, w)) = Len(w)
        /\ \A i \in 1 .. Len(w) : Along(f, w)[i] = f[w[i]]
    BY AlongElements
  <2> QED  BY <1>3, <1>5, <2>1
<1>8. PICK h \in Nat : h = f[e]  BY DEF Numbering
<1>9. PICK y : y = Append(u, h)  OBVIOUS
<1>10. /\ y \in Seq(Nat) /\ Len(y) = n + 1 /\ y[n + 1] = h
       /\ \A i \in 1 .. n : y[i] = u[i]
  BY <1>6, <1>9, AppendElements
<1>11. ASSUME NEW i \in 1 .. n + 1
       PROVE  v[i] = y[i]
  <2>1. CASE i \in 1 .. n
    <3>1. v[i] = f[w[i]]  BY <1>7
    <3>2. y[i] = f[s[i]] /\ w[i] = s[i]  BY <1>3, <1>6, <1>10, <2>1
    <3> QED  BY <3>1, <3>2, Zenon
  <2>2. CASE i = n + 1  BY <1>3, <1>7, <1>8, <1>10, <2>2
  <2> QED  BY <2>1, <2>2
<1>12. v = y  BY <1>7, <1>10, <1>11, SeqEqual
<1> QED  BY <1>2, <1>4, <1>5, <1>8, <1>9, <1>12, Zenon

LEMMA AlongTail ==
    ASSUME NEW S, NEW f, Numbering(f, S), NEW s \in Seq(S), s # <<>>
    PROVE  /\ Along(f, s) # <<>> /\ Head(Along(f, s)) = f[Head(s)]
           /\ Along(f, Tail(s)) = Tail(Along(f, s))
<1>1. PICK n \in Nat \ {0} : n = Len(s)  BY TailElements
<1>2. PICK w \in Seq(S) : w = Tail(s)  BY TailElements
<1>3. /\ w \in Seq(S) /\ Len(w) = n - 1 /\ \A i \in 1 .. n - 1 : w[i] = s[i + 1]
      /\ Head(s) = s[1]
  BY <1>1, <1>2, TailElements
<1>4. PICK u : u = Along(f, s)  OBVIOUS
<1>5. PICK v : v = Along(f, w)  OBVIOUS
<1>6. u \in Seq(Nat) /\ Len(u) = n /\ \A i \in 1 .. n : u[i] = f[s[i]]
  BY <1>1, <1>4, AlongElements
<1>7. v \in Seq(Nat) /\ Len(v) = n - 1 /\ \A i \in 1 .. n - 1 : v[i] = f[w[i]]
  <2>1. /\ Along(f, w) \in Seq(Nat) /\ Len(Along(f, w)) = Len(w)
        /\ \A i \in 1 .. Len(w) : Along(f, w)[i] = f[w[i]]
    BY AlongElements
  <2> QED  BY <1>3, <1>5, <2>1
<1>8. u # <<>>  BY <1>6, SeqType
<1>9. PICK y : y = Tail(u)  OBVIOUS
<1>10. /\ Head(u) = u[1] /\ y \in Seq(Nat) /\ Len(y) = n - 1
       /\ \A i \in 1 .. n - 1 : y[i] = u[i + 1]
  BY <1>6, <1>8, <1>9, TailElements
<1>11. 1 \in 1 .. n /\ \A i \in 1 .. n - 1 : i + 1 \in 1 .. n  OBVIOUS
<1>12. ASSUME NEW i \in 1 .. n - 1
       PROVE  v[i] = y[i]
  <2>1. v[i] = f[w[i]] /\ w[i] = s[i + 1]  BY <1>3, <1>7
  <2>2. y[i] = f[s[i + 1]]  BY <1>6, <1>10, <1>11
  <2> QED  BY <2>1, <2>2, Zenon
<1>13. v = y  BY <1>7, <1>10, <1>12, SeqEqual
<1>14. Head(u) = f[Head(s)]  BY <1>3, <1>6, <1>10, <1>11
<1> QED  BY <1>2, <1>4, <1>5, <1>8, <1>9, <1>13, <1>14, Zenon

LEMMA CatElements ==
    ASSUME NEW s \in Seq(Nat), NEW t \in Seq(Nat)
    PROVE  /\ Cat(s, t) \in Seq(Nat) /\ Len(Cat(s, t)) = Len(s) + Len(t)
           /\ \A i \in 1 .. Len(s) : Cat(s, t)[i] = s[i]
           /\ \A i \in 1 .. Len(t) : Cat(s, t)[Len(s) + i] = t[i]
  BY ConcatElements DEF Cat

LEMMA CatAppend ==
    ASSUME NEW s \in Seq(Nat), NEW t \in Seq(Nat), NEW e \in Nat
    PROVE  Cat(s, Append(t, e)) = Append(Cat(s, t), e)
  BY ConcatAppend DEF Cat

LEMMA CatTail ==
    ASSUME NEW s \in Seq(Nat), NEW t \in Seq(Nat), s # <<>>
    PROVE  /\ Cat(Tail(s), t) = Tail(Cat(s, t))
           /\ Cat(s, t) # <<>> /\ Head(Cat(s, t)) = Head(s)
<1>1. Cat(Tail(s), t) = Tail(Cat(s, t)) /\ Cat(s, t) # <<>>  BY TailConcat DEF Cat
<1>2. 1 \in 1 .. Len(s) /\ Head(s) = s[1]  BY TailElements
<1>3. Cat(s, t) \in Seq(Nat) /\ \A i \in 1 .. Len(s) : Cat(s, t)[i] = s[i]
  BY CatElements
<1>4. Cat(s, t)[1] = s[1]  BY <1>2, <1>3
<1>5. Head(Cat(s, t)) = Cat(s, t)[1]  BY <1>1, <1>3, TailElements
<1> QED  BY <1>1, <1>2, <1>4, <1>5

\* An element that moves from one part of the queue to the part before it stays where it
\* is in the queue.
LEMMA Moved ==
    ASSUME NEW y \in Seq(Nat), NEW z \in Seq(Nat), z # <<>>
    PROVE  /\ Cat(Append(y, Head(z)), Tail(z)) = Cat(y, z)
           /\ \A x \in Seq(Nat) : Cat(Cat(x, Append(y, Head(z))), Tail(z)) = Cat(Cat(x, y), z)
<1>1. PICK h \in Nat : h = Head(z)  BY TailElements
<1>2. \A w \in Seq(Nat) : Cat(Append(w, h), Tail(z)) = Cat(w, z)
  BY <1>1, HeadMoves DEF Cat
<1>3. ASSUME NEW x \in Seq(Nat)
      PROVE  Cat(Cat(x, Append(y, h)), Tail(z)) = Cat(Cat(x, y), z)
  <2>1. Cat(x, Append(y, h)) = Append(Cat(x, y), h)  BY CatAppend
  <2>2. Cat(x, y) \in Seq(Nat)  BY CatElements
  <2> QED  BY <1>2, <2>1, <2>2, Zenon
<1> QED  BY <1>1, <1>2, <1>3, Zenon

LEMMA QueueType ==
    ASSUME NEW a \in Seq(Nat), NEW b \in Seq(Nat), NEW r \in Seq(Nat), NEW p \in Seq(Nat),
           NEW o \in Seq(Nat)
    PROVE  /\ Cat(a, b) \in Seq(Nat) /\ Cat(Cat(a, b), r) \in Seq(Nat)
           /\ Cat(Cat(Cat(a, b), r), p) \in Seq(Nat) /\ Queue(a, b, r, p, o) \in Seq(Nat)
<1>1. \A s, t \in Seq(Nat) : Cat(s, t) \in Seq(Nat)  BY CatElements
<1> QED  BY <1>1, Zenon DEF Queue

\* The queue when it changes at its end, or at its head.
Ends(q, e, s)   == s = Append(q, e)
Begins(q, h, s) == q # <<>> /\ Head(q) = h /\ Tail(q) = s

LEMMA QueueEnds ==
    ASSUME NEW a \in Seq(Nat), NEW b \in Seq(Nat), NEW r \in Seq(Nat), NEW p \in Seq(Nat),
           NEW o \in Seq(Nat), NEW e \in Nat
    PROVE  Ends(Queue(a, b, r, p, o), e, Queue(a, b, r, p, Append(o, e)))
<1>1. PICK x \in Seq(Nat) : x = Cat(a, b)  BY CatElements
<1>2. PICK y \in Seq(Nat) : y = Cat(x, r)  BY CatElements
<1>3. PICK z \in Seq(Nat) : z = Cat(y, p)  BY CatElements
<1>4. Queue(a, b, r, p, o) = Cat(z, o)  BY <1>1, <1>2, <1>3, Zenon DEF Queue
<1>5. Queue(a, b, r, p, Append(o, e)) = Cat(z, Append(o, e))
  BY <1>1, <1>2, <1>3, Zenon DEF Queue
<1>6. Cat(z, Append(o, e)) = Append(Cat(z, o), e)  BY CatAppend
<1> QED  BY <1>4, <1>5, <1>6, Zenon DEF Ends

LEMMA CatBegins ==
    ASSUME NEW s \in Seq(Nat), NEW t \in Seq(Nat), NEW h, NEW x, Begins(s, h, x)
    PROVE  x \in Seq(Nat) /\ Begins(Cat(s, t), h, Cat(x, t))
<1>1. s # <<>> /\ Head(s) = h /\ Tail(s) = x  BY DEF Begins
<1>2. Tail(s) \in Seq(Nat)  BY <1>1, TailElements
<1>3. /\ Cat(Tail(s), t) = Tail(Cat(s, t)) /\ Cat(s, t) # <<>>
      /\ Head(Cat(s, t)) = Head(s)
  BY <1>1, CatTail
<1> QED  BY <1>1, <1>2, <1>3, Zenon DEF Begins

LEMMA QueueBegins ==
    ASSUME NEW a \in Seq(Nat), NEW b \in Seq(Nat), NEW r \in Seq(Nat), NEW p \in Seq(Nat),
           NEW o \in Seq(Nat), NEW h, NEW x, Begins(a, h, x)
    PROVE  Begins(Queue(a, b, r, p, o), h, Queue(x, b, r, p, o))
<1>1. PICK s \in Seq(Nat) : s = Cat(a, b)  BY CatElements
<1>2. PICK t \in Seq(Nat) : t = Cat(s, r)  BY CatElements
<1>3. PICK u \in Seq(Nat) : u = Cat(t, p)  BY CatElements
<1>4. PICK v : v = Cat(x, b)  OBVIOUS
<1>5. PICK w : w = Cat(v, r)  OBVIOUS
<1>6. PICK y : y = Cat(w, p)  OBVIOUS
<1>7. Begins(s, h, v)
  <2>1. Begins(Cat(a, b), h, Cat(x, b))  BY CatBegins
  <2> QED  BY <1>1, <1>4, <2>1, Zenon
<1>8. Begins(t, h, w)
  <2>1. Begins(Cat(s, r), h, Cat(v, r))  BY <1>7, CatBegins
  <2> QED  BY <1>2, <1>5, <2>1, Zenon
<1>9. Begins(u, h, y)
  <2>1. Begins(Cat(t, p), h, Cat(w, p))  BY <1>8, CatBegins
  <2> QED  BY <1>3, <1>6, <2>1, Zenon
<1>10. Begins(Cat(u, o), h, Cat(y, o))  BY <1>9, CatBegins
<1> QED  BY <1>1, <1>2, <1>3, <1>4, <1>5, <1>6, <1>10, Zenon DEF Queue

\* What moves on in the queue.
LEMMA MovesOver ==
    ASSUME NEW a \in Seq(Nat), NEW b \in Seq(Nat), NEW r \in Seq(Nat), NEW p \in Seq(Nat),
           NEW o \in Seq(Nat), o # <<>>
    PROVE  Queue(a, b, r, Append(p, Head(o)), Tail(o)) = Queue(a, b, r, p, o)
<1>1. PICK x \in Seq(Nat) : x = Cat(Cat(a, b), r)  BY QueueType
<1>2. Cat(Cat(x, Append(p, Head(o))), Tail(o)) = Cat(Cat(x, p), o)  BY Moved
<1> QED  BY <1>1, <1>2, Zenon DEF Queue

LEMMA MovesIn ==
    ASSUME NEW a \in Seq(Nat), NEW b \in Seq(Nat), NEW p \in Seq(Nat), NEW o \in Seq(Nat),
           NEW T, NEW g, Numbering(g, T), NEW s \in Seq(T), NEW t \in T, p # <<>>,
           g[t] = Head(p)
    PROVE  Queue(a, b, Along(g, Append(s, t)), Tail(p), o) = Queue(a, b, Along(g, s), p, o)
<1>1. PICK x \in Seq(Nat) : x = Cat(a, b)  BY QueueType
<1>2. PICK r \in Seq(Nat) : r = Along(g, s)  BY AlongElements
<1>3. Along(g, Append(s, t)) = Append(r, Head(p))
  <2>1. Along(g, Append(s, t)) = Append(Along(g, s), g[t])  BY AlongAppend
  <2> QED  BY <1>2, <2>1, Zenon
<1>4. Cat(Cat(x, Append(r, Head(p))), Tail(p)) = Cat(Cat(x, r), p)  BY Moved
<1> QED  BY <1>1, <1>2, <1>3, <1>4, Zenon DEF Queue

LEMMA MovesOut ==
    ASSUME NEW a \in Seq(Nat), NEW p \in Seq(Nat), NEW o \in Seq(Nat),
           NEW S, NEW f, Numbering(f, S), NEW u \in Seq(S), NEW m \in S,
           NEW T, NEW g, Numbering(g, T), NEW s \in Seq(T), s # <<>>, f[m] = g[Head(s)]
    PROVE  Queue(a, Along(f, Append(u, m)), Along(g, Tail(s)), p, o) =
               Queue(a, Along(f, u), Along(g, s), p, o)
<1>1. PICK b \in Seq(Nat) : b = Along(f, u)  BY AlongElements
<1>2. PICK r \in Seq(Nat) : r = Along(g, s)  BY AlongElements
<1>3. r # <<>> /\ Head(r) = f[m] /\ Along(g, Tail(s)) = Tail(r)
  <2>1. /\ Along(g, s) # <<>> /\ Head(Along(g, s)) = g[Head(s)]
        /\ Along(g, Tail(s)) = Tail(Along(g, s))
    BY AlongTail
  <2> QED  BY <1>2, <2>1, Zenon
<1>4. Along(f, Append(u, m)) = Append(b, Head(r))
  <2>1. Along(f, Append(u, m)) = Append(Along(f, u), f[m])  BY AlongAppend
  <2> QED  BY <1>1, <1>3, <2>1, Zenon
<1>5. Cat(Cat(a, Append(b, Head(r))), Tail(r)) = Cat(Cat(a, b), r)  BY <1>3, Moved
<1> QED  BY <1>1, <1>2, <1>3, <1>4, <1>5, Zenon DEF Queue

LEMMA MovesBack ==
    ASSUME NEW r \in Seq(Nat), NEW p \in Seq(Nat), NEW o \in Seq(Nat),
           NEW S, NEW f, Numbering(f, S), NEW u \in Seq(S), NEW s \in Seq(S), s # <<>>
    PROVE  Queue(Along(f, Append(u, Head(s))), Along(f, Tail(s)), r, p, o) =
               Queue(Along(f, u), Along(f, s), r, p, o)
<1>1. PICK a \in Seq(Nat) : a = Along(f, u)  BY AlongElements
<1>2. PICK b \in Seq(Nat) : b = Along(f, s)  BY AlongElements
<1>3. b # <<>> /\ Head(b) = f[Head(s)] /\ Along(f, Tail(s)) = Tail(b)
  <2>1. /\ Along(f, s) # <<>> /\ Head(Along(f, s)) = f[Head(s)]
        /\ Along(f, Tail(s)) = Tail(Along(f, s))
    BY AlongTail
  <2> QED  BY <1>2, <2>1, Zenon
<1>4. Along(f, Append(u, Head(s))) = Append(a, Head(b))
  <2>1. PICK h \in S : h = Head(s)  BY TailElements
  <2>2. Along(f, Append(u, h)) = Append(Along(f, u), f[h])  BY AlongAppend
  <2> QED  BY <1>1, <1>3, <2>1, <2>2, Zenon
<1>5. Cat(Append(a, Head(b)), Tail(b)) = Cat(a, b)  BY <1>3, Moved
<1> QED  BY <1>1, <1>2, <1>3, <1>4, <1>5, Zenon DEF Queue

\* The head of the queue leaves.
LEMMA Leaves ==
    ASSUME NEW b \in Seq(Nat), NEW r \in Seq(Nat), NEW p \in Seq(Nat), NEW o \in Seq(Nat),
           NEW S, NEW f, Numbering(f, S), NEW u \in Seq(S), u # <<>>
    PROVE  Begins(Queue(Along(f, u), b, r, p, o), f[Head(u)],
                  Queue(Along(f, Tail(u)), b, r, p, o))
<1>1. PICK a \in Seq(Nat) : a = Along(f, u)  BY AlongElements
<1>2. PICK x : x = Along(f, Tail(u))  OBVIOUS
<1>3. PICK h : h = f[Head(u)]  OBVIOUS
<1>4. Begins(a, h, x)
  <2>1. /\ Along(f, u) # <<>> /\ Head(Along(f, u)) = f[Head(u)]
        /\ Along(f, Tail(u)) = Tail(Along(f, u))
    BY AlongTail
  <2> QED  BY <1>1, <1>2, <1>3, <2>1, Zenon DEF Begins
<1>5. Begins(Queue(a, b, r, p, o), h, Queue(x, b, r, p, o))  BY <1>4, QueueBegins
<1> QED  BY <1>1, <1>2, <1>3, <1>5, Zenon

LEMMA InOrderNone == \A q : InOrder(q, {})
<1> SUFFICES ASSUME NEW q PROVE InOrder(q, {})  OBVIOUS
<1>1. [a \in {} |-> 0] \in [{} -> 1 .. Len(q)]  OBVIOUS
<1> QED  BY <1>1 DEF InOrder

LEMMA InOrderFewer ==
    ASSUME NEW q \in Seq(Nat), NEW S, NEW T \in SUBSET S, InOrder(q, S)
    PROVE  InOrder(q, T)
<1>1. PICK f \in [S -> 1 .. Len(q)] :
          /\ \A a \in S : q[f[a]] = a
          /\ \A a, b \in S : a < b => f[a] < f[b]
  BY DEF InOrder
<1>2. PICK g : g = [a \in T |-> f[a]]  OBVIOUS
<1>3. g \in [T -> 1 .. Len(q)] /\ \A a \in T : g[a] = f[a]  BY <1>1, <1>2
<1>4. /\ \A a \in T : q[g[a]] = a
      /\ \A a, b \in T : a < b => g[a] < g[b]
  BY <1>1, <1>3
<1> QED  BY <1>3, <1>4 DEF InOrder

\* A new element at the end.
LEMMA InOrderAppend ==
    ASSUME NEW q \in Seq(Nat), NEW S \in SUBSET Nat, NEW e \in Nat, InOrder(q, S)
    PROVE  /\ InOrder(Append(q, e), S)
           /\ (\A a \in S : a < e) => InOrder(Append(q, e), S \cup {e})
<1>1. PICK f \in [S -> 1 .. Len(q)] :
          /\ \A a \in S : q[f[a]] = a
          /\ \A a, b \in S : a < b => f[a] < f[b]
  BY DEF InOrder
<1>2. PICK n \in Nat : n = Len(q)  BY SeqType
<1>3. /\ Len(Append(q, e)) = n + 1 /\ Append(q, e)[n + 1] = e
      /\ \A i \in 1 .. n : Append(q, e)[i] = q[i]
  BY <1>2, AppendElements
<1>4. \A a \in S : f[a] \in 1 .. n /\ f[a] \in 1 .. n + 1  BY <1>1, <1>2
<1>5. InOrder(Append(q, e), S)
  <2>1. f \in [S -> 1 .. Len(Append(q, e))]  BY <1>1, <1>3, <1>4
  <2>2. \A a \in S : Append(q, e)[f[a]] = a  BY <1>1, <1>3, <1>4
  <2> QED  BY <1>1, <2>1, <2>2 DEF InOrder
<1>6. ASSUME \A a \in S : a < e
      PROVE  InOrder(Append(q, e), S \cup {e})
  <2>1. e \notin S  BY <1>6
  <2>2. PICK g : g = [a \in S \cup {e} |-> IF a = e THEN n + 1 ELSE f[a]]  OBVIOUS
  <2>3. g[e] = n + 1 /\ \A a \in S : g[a] = f[a]  BY <2>1, <2>2
  <2>4. \A a \in S \cup {e} : (IF a = e THEN n + 1 ELSE f[a]) \in 1 .. n + 1
    BY <1>4
  <2>5. g \in [S \cup {e} -> 1 .. Len(Append(q, e))]  BY <1>3, <2>2, <2>4
  <2>6. \A a \in S \cup {e} : Append(q, e)[g[a]] = a  BY <1>1, <1>3, <1>4, <2>3
  <2>7. ASSUME NEW a \in S \cup {e}, NEW b \in S \cup {e}, a < b
        PROVE  g[a] < g[b]
    <3>1. CASE a \in S /\ b \in S  BY <1>1, <2>3, <2>7, <3>1
    <3>2. CASE a \in S /\ b = e  BY <1>4, <2>3, <3>2
    <3>3. a # e  BY <1>6, <2>7
    <3> QED  BY <3>1, <3>2, <3>3
  <2> QED  BY <2>5, <2>6, <2>7 DEF InOrder
<1> QED  BY <1>5, <1>6

\* The first element leaves; it is no element of the set, or a later copy of one.
LEMMA InOrderTail ==
    ASSUME NEW q \in Seq(Nat), NEW S \in SUBSET Nat, InOrder(q, S), q # <<>>,
           Head(q) \in S => \E b \in S : b < Head(q)
    PROVE  InOrder(Tail(q), S)
<1>1. PICK f \in [S -> 1 .. Len(q)] :
          /\ \A a \in S : q[f[a]] = a
          /\ \A a, b \in S : a < b => f[a] < f[b]
  BY DEF InOrder
<1>2. PICK n \in Nat \ {0} : n = Len(q)  BY TailElements
<1>3. /\ Head(q) = q[1] /\ Len(Tail(q)) = n - 1
      /\ \A i \in 1 .. n - 1 : Tail(q)[i] = q[i + 1]
  BY <1>2, TailElements
<1>4. \A a \in S : f[a] \in 1 .. n  BY <1>1, <1>2
<1>5. ASSUME NEW a \in S PROVE f[a] # 1
  <2> SUFFICES ASSUME f[a] = 1 PROVE FALSE  OBVIOUS
  <2>1. Head(q) = a  BY <1>1, <1>3
  <2>2. PICK b \in S : b < a  BY <2>1
  <2>3. f[b] < f[a]  BY <1>1, <2>2
  <2> QED  BY <1>4, <2>3
<1>6. \A a \in S : f[a] - 1 \in 1 .. n - 1  BY <1>4, <1>5
<1>7. PICK g : g = [a \in S |-> f[a] - 1]  OBVIOUS
<1>8. g \in [S -> 1 .. Len(Tail(q))] /\ \A a \in S : g[a] = f[a] - 1
  BY <1>3, <1>6, <1>7
<1>9. \A a \in S : Tail(q)[g[a]] = a
  <2>1. ASSUME NEW a \in S PROVE Tail(q)[f[a] - 1] = q[f[a]]
    <3>1. f[a] - 1 \in 1 .. n - 1 /\ (f[a] - 1) + 1 = f[a]  BY <1>4, <1>6
    <3> QED  BY <1>3, <3>1
  <2> QED  BY <1>1, <1>8, <2>1
<1>10. \A a, b \in S : a < b => g[a] < g[b]  BY <1>1, <1>4, <1>8
<1> QED  BY <1>8, <1>9, <1>10 DEF InOrder

\* A queue that has the elements of the set where another one has them.
Keeps(q, r, S) == Len(r) = Len(q) /\ \A i \in 1 .. Len(q) : q[i] \in S => r[i] = q[i]

LEMMA InOrderKept ==
    ASSUME NEW q \in Seq(Nat), NEW r \in Seq(Nat), NEW S, InOrder(q, S), Keeps(q, r, S)
    PROVE  InOrder(r, S)
<1>1. PICK f \in [S -> 1 .. Len(q)] :
          /\ \A a \in S : q[f[a]] = a
          /\ \A a, b \in S : a < b => f[a] < f[b]
  BY DEF InOrder
<1>2. f \in [S -> 1 .. Len(r)] /\ \A a \in S : r[f[a]] = a  BY <1>1 DEF Keeps
<1> QED  BY <1>1, <1>2 DEF InOrder

LEMMA CatKept ==
    ASSUME NEW q \in Seq(Nat), NEW r \in Seq(Nat), NEW t \in Seq(Nat), NEW u \in Seq(Nat),
           NEW S, Keeps(q, r, S), Keeps(t, u, S)
    PROVE  Keeps(Cat(q, t), Cat(r, u), S)
<1>1. PICK m \in Nat, n \in Nat : m = Len(q) /\ n = Len(t)  BY SeqType
<1>2. Len(r) = m /\ Len(u) = n  BY <1>1 DEF Keeps
<1>3. PICK v, w : v = Cat(q, t) /\ w = Cat(r, u)  OBVIOUS
<1>4. /\ Len(v) = m + n /\ \A i \in 1 .. m : v[i] = q[i]
      /\ \A i \in 1 .. n : v[m + i] = t[i]
  <2>1. /\ Len(Cat(q, t)) = Len(q) + Len(t) /\ \A i \in 1 .. Len(q) : Cat(q, t)[i] = q[i]
        /\ \A i \in 1 .. Len(t) : Cat(q, t)[Len(q) + i] = t[i]
    BY CatElements
  <2> QED  BY <1>1, <1>3, <2>1
<1>5. /\ Len(w) = m + n /\ \A i \in 1 .. m : w[i] = r[i]
      /\ \A i \in 1 .. n : w[m + i] = u[i]
  <2>1. /\ Len(Cat(r, u)) = Len(r) + Len(u) /\ \A i \in 1 .. Len(r) : Cat(r, u)[i] = r[i]
        /\ \A i \in 1 .. Len(u) : Cat(r, u)[Len(r) + i] = u[i]
    BY CatElements
  <2> QED  BY <1>2, <1>3, <2>1
<1>6. ASSUME NEW i \in 1 .. m + n, v[i] \in S
      PROVE  w[i] = v[i]
  <2>1. CASE i \in 1 .. m  BY <1>1, <1>4, <1>5, <1>6, <2>1 DEF Keeps
  <2>2. CASE i \notin 1 .. m
    <3>1. PICK j \in 1 .. n : i = m + j
      <4>1. i - m \in 1 .. n /\ i = m + (i - m)  BY <2>2
      <4> QED  BY <4>1
    <3> QED  BY <1>1, <1>4, <1>5, <1>6, <3>1 DEF Keeps
  <2> QED  BY <2>1, <2>2
<1> QED  BY <1>3, <1>4, <1>5, <1>6 DEF Keeps

LEMMA QueueKept ==
    ASSUME NEW a \in Seq(Nat), NEW b \in Seq(Nat), NEW r \in Seq(Nat), NEW p \in Seq(Nat),
           NEW o \in Seq(Nat), NEW c \in Seq(Nat), NEW d \in Seq(Nat), NEW S,
           Keeps(a, c, S), Keeps(b, d, S)
    PROVE  Keeps(Queue(a, b, r, p, o), Queue(c, d, r, p, o), S)
<1>1. PICK x \in Seq(Nat) : x = Cat(a, b)  BY CatElements
<1>2. PICK y \in Seq(Nat) : y = Cat(x, r)  BY CatElements
<1>3. PICK z \in Seq(Nat) : z = Cat(y, p)  BY CatElements
<1>4. PICK u \in Seq(Nat) : u = Cat(c, d)  BY CatElements
<1>5. PICK v \in Seq(Nat) : v = Cat(u, r)  BY CatElements
<1>6. PICK w \in Seq(Nat) : w = Cat(v, p)  BY CatElements
<1>7. Keeps(r, r, S) /\ Keeps(p, p, S) /\ Keeps(o, o, S)  BY DEF Keeps
<1>8. Keeps(x, u, S)
  <2>1. Keeps(Cat(a, b), Cat(c, d), S)  BY CatKept
  <2> QED  BY <1>1, <1>4, <2>1, Zenon
<1>9. Keeps(y, v, S)
  <2>1. Keeps(Cat(x, r), Cat(u, r), S)  BY <1>7, <1>8, CatKept
  <2> QED  BY <1>2, <1>5, <2>1, Zenon
<1>10. Keeps(z, w, S)
  <2>1. Keeps(Cat(y, p), Cat(v, p), S)  BY <1>7, <1>9, CatKept
  <2> QED  BY <1>3, <1>6, <2>1, Zenon
<1>11. Keeps(Cat(z, o), Cat(w, o), S)  BY <1>7, <1>10, CatKept
<1> QED  BY <1>1, <1>2, <1>3, <1>4, <1>5, <1>6, <1>11, Zenon DEF Queue

-------------------------------------------------------------------------------
(* The accesses on the way from the CU through the ROB and back. *)

LEMMA WayParts ==
    ASSUME Type
    PROVE  /\ Numbering(MarkOf(id), RspMsg(AccessID)) /\ Numbering(ReqOf, Transaction)
           /\ port["robToCU"] \in Seq(RspMsg(AccessID))
           /\ out["robToCU"] \in Seq(RspMsg(AccessID))
           /\ transactions \in Seq(Transaction)
           /\ port["cuToROB"] \in Seq(Nat) /\ out["cuToROB"] \in Seq(Nat)
           /\ Along(MarkOf(id), port["robToCU"]) \in Seq(Nat)
           /\ Along(MarkOf(id), out["robToCU"]) \in Seq(Nat)
           /\ Along(ReqOf, transactions) \in Seq(Nat)
           /\ Way \in Seq(Nat)
<1>1. \A c \in Connection : out[c] \in Seq(Message(c)) /\ port[c] \in Seq(Message(c))
  BY DEF Type, Buffers
<1>2. /\ port["robToCU"] \in Seq(RspMsg(AccessID)) /\ out["robToCU"] \in Seq(RspMsg(AccessID))
      /\ port["cuToROB"] \in Seq(Access) /\ out["cuToROB"] \in Seq(Access)
  BY <1>1, Connections
<1>3. port["cuToROB"] \in Seq(Nat) /\ out["cuToROB"] \in Seq(Nat)
  BY <1>2, AccessNat, SeqMonotonic
<1>4. Numbering(ReqOf, Transaction)  BY AccessNat DEF ReqOf, Transaction, Numbering
<1>5. Numbering(MarkOf(id), RspMsg(AccessID))
  <2>1. \A m \in RspMsg(AccessID) : m.rspTo.access \in Nat
    BY AccessNat DEF RspMsg, AccessID
  <2> QED  BY <2>1 DEF MarkOf, Numbering
<1>6. transactions \in Seq(Transaction)  BY DEF Type
<1>7. /\ Along(MarkOf(id), port["robToCU"]) \in Seq(Nat)
      /\ Along(MarkOf(id), out["robToCU"]) \in Seq(Nat)
      /\ Along(ReqOf, transactions) \in Seq(Nat)
  BY <1>2, <1>4, <1>5, <1>6, AlongElements
<1>8. Way \in Seq(Nat)  BY <1>3, <1>7, QueueType DEF Way
<1> QED  BY <1>2, <1>3, <1>4, <1>5, <1>6, <1>7, <1>8

\* A message that moves on, or that becomes another one for the same access, stays where
\* it is in the queue.
LEMMA WayDelivered ==
    ASSUME Type, NEW c \in Connection, Deliver(c)
    PROVE  Way' = Way
<1>1. /\ out[c] # <<>> /\ out'[c] = Tail(out[c])
      /\ port'[c] = Append(port[c], Head(out[c]))
      /\ \A d \in Connection \ {c} : out'[d] = out[d] /\ port'[d] = port[d]
  BY DeliverBuffers DEF Type
<1>2. UNCHANGED <<id, transactions>>  BY DEF Deliver, cuVars, robVars
<1>3. PICK f : f = MarkOf(id)  OBVIOUS
<1>4. PICK r \in Seq(Nat) : r = Along(ReqOf, transactions)  BY WayParts
<1>5. PICK u \in Seq(RspMsg(AccessID)), s \in Seq(RspMsg(AccessID)) :
          u = port["robToCU"] /\ s = out["robToCU"]
  BY WayParts
<1>6. PICK p \in Seq(Nat), o \in Seq(Nat) : p = port["cuToROB"] /\ o = out["cuToROB"]
  BY WayParts
<1>7. Numbering(f, RspMsg(AccessID))  BY <1>3, WayParts
<1>8. Way = Queue(Along(f, u), Along(f, s), r, p, o)
  BY <1>3, <1>4, <1>5, <1>6, Zenon DEF Way
<1>9. CASE c = "robToCU"
  <2>1. s # <<>>  BY <1>1, <1>5, <1>9
  <2>2. Queue(Along(f, Append(u, Head(s))), Along(f, Tail(s)), r, p, o) =
            Queue(Along(f, u), Along(f, s), r, p, o)
    BY <1>7, <2>1, MovesBack
  <2>3. /\ port'["robToCU"] = Append(u, Head(s)) /\ out'["robToCU"] = Tail(s)
        /\ port'["cuToROB"] = p /\ out'["cuToROB"] = o
    BY <1>1, <1>5, <1>6, <1>9, Connections
  <2>4. Way' = Queue(Along(f, Append(u, Head(s))), Along(f, Tail(s)), r, p, o)
    BY <1>2, <1>3, <1>4, <2>3 DEF Way
  <2> QED  BY <1>8, <2>2, <2>4, Zenon
<1>10. CASE c = "cuToROB"
  <2>1. o # <<>>  BY <1>1, <1>6, <1>10
  <2>2. PICK a \in Seq(Nat), b \in Seq(Nat) : a = Along(f, u) /\ b = Along(f, s)
    BY <1>7, AlongElements
  <2>3. Queue(a, b, r, Append(p, Head(o)), Tail(o)) = Queue(a, b, r, p, o)
    BY <2>1, MovesOver
  <2>4. /\ port'["robToCU"] = u /\ out'["robToCU"] = s
        /\ port'["cuToROB"] = Append(p, Head(o)) /\ out'["cuToROB"] = Tail(o)
    BY <1>1, <1>5, <1>6, <1>10, Connections
  <2>5. Way' = Queue(a, b, r, Append(p, Head(o)), Tail(o))
    BY <1>2, <1>3, <1>4, <2>2, <2>4 DEF Way
  <2> QED  BY <1>8, <2>2, <2>3, <2>5, Zenon
<1>11. CASE c # "robToCU" /\ c # "cuToROB"
  <2>1. /\ port'["robToCU"] = port["robToCU"] /\ out'["robToCU"] = out["robToCU"]
        /\ port'["cuToROB"] = port["cuToROB"] /\ out'["cuToROB"] = out["cuToROB"]
    BY <1>1, <1>11, Connections
  <2> QED  BY <1>2, <2>1 DEF Way
<1> QED  BY <1>9, <1>10, <1>11

LEMMA WayTopDown ==
    ASSUME Type, TopDown
    PROVE  Way' = Way
<1>1. Buffers(out) /\ Buffers(port)  BY DEF Type
<1>2. PICK h \in Access, n \in Nat : h = Head(port["cuToROB"]) /\ n = nextID  BY Added
<1>3. PICK t : t = [req |-> h, reqID |-> n, rsp |-> 0]  OBVIOUS
<1>4. PICK m : m = [reqID |-> n, access |-> h]  OBVIOUS
<1>5. /\ port["cuToROB"] # <<>> /\ Retrieve("cuToROB") /\ Send("robToAT", m)
      /\ transactions' = Append(transactions, t) /\ UNCHANGED id
  BY <1>2, <1>3, <1>4 DEF TopDown, cuVars
<1>6. t \in Transaction /\ ReqOf[t] = h
  <2>1. t \in Transaction  BY <1>3, PathAssumption DEF Transaction
  <2> QED  BY <1>3, <2>1 DEF ReqOf
<1>7. m \in RobReq  BY <1>4 DEF RobReq
<1>8. port'["cuToROB"] = Tail(port["cuToROB"]) /\ port'["robToCU"] = port["robToCU"]
  <2>1. "robToCU" \in Connection \ {"cuToROB"}  BY Connections
  <2> QED  BY <1>1, <1>5, <2>1, Connections, RetrieveBuffers
<1>9. out'["cuToROB"] = out["cuToROB"] /\ out'["robToCU"] = out["robToCU"]
  <2>1. "cuToROB" \in Connection \ {"robToAT"} /\ "robToCU" \in Connection \ {"robToAT"}
    BY Connections
  <2> QED  BY <1>1, <1>5, <1>7, <2>1, Connections, SendBuffers
<1>10. PICK a \in Seq(Nat), b \in Seq(Nat) :
           a = Along(MarkOf(id), port["robToCU"]) /\ b = Along(MarkOf(id), out["robToCU"])
  BY WayParts
<1>11. PICK p \in Seq(Nat), o \in Seq(Nat) : p = port["cuToROB"] /\ o = out["cuToROB"]
  BY WayParts
<1>12. PICK s \in Seq(Transaction) : s = transactions  BY WayParts
<1>13. PICK g : g = ReqOf  OBVIOUS
<1>14. Numbering(g, Transaction) /\ p # <<>> /\ g[t] = Head(p) /\ t \in Transaction
  BY <1>2, <1>5, <1>6, <1>11, <1>13, WayParts
<1>15. Queue(a, b, Along(g, Append(s, t)), Tail(p), o) = Queue(a, b, Along(g, s), p, o)
  BY <1>14, MovesIn
<1>16. Way = Queue(a, b, Along(g, s), p, o)
  BY <1>10, <1>11, <1>12, <1>13, Zenon DEF Way
<1>17. Way' = Queue(a, b, Along(g, Append(s, t)), Tail(p), o)
  BY <1>5, <1>8, <1>9, <1>10, <1>11, <1>12, <1>13 DEF Way
<1> QED  BY <1>15, <1>16, <1>17, Zenon

LEMMA WayBottomUp ==
    ASSUME Type, BottomUp
    PROVE  Way' = Way
<1>1. Buffers(out) /\ id \in [Access -> Nat]  BY DEF Type
<1>2. PICK t \in Transaction : t = Head(transactions)  BY Answered
<1>3. transactions # <<>> /\ t.req \in Access /\ t.rsp \in Access  BY <1>2, Answered
<1>4. PICK m : m = [rspTo |-> [access |-> t.req, id |-> id[t.req]], data |-> t.rsp]
  OBVIOUS
<1>5. /\ Send("robToCU", m) /\ transactions' = Tail(transactions) /\ UNCHANGED <<id, port>>
  BY <1>2, <1>4 DEF BottomUp, cuVars
<1>6. m \in RspMsg(AccessID) /\ MarkOf(id)[m] = t.req
  <2>1. m \in RspMsg(AccessID)  BY <1>1, <1>3, <1>4 DEF RspMsg, AccessID
  <2>2. m.rspTo.access = t.req /\ m.rspTo.id = id[t.req]  BY <1>4
  <2> QED  BY <2>1, <2>2 DEF MarkOf
<1>7. ReqOf[t] = t.req  BY <1>2 DEF ReqOf
<1>8. out'["robToCU"] = Append(out["robToCU"], m) /\ out'["cuToROB"] = out["cuToROB"]
  <2>1. "cuToROB" \in Connection \ {"robToCU"}  BY Connections
  <2> QED  BY <1>1, <1>5, <1>6, <2>1, Connections, SendBuffers
<1>9. PICK f : f = MarkOf(id)  OBVIOUS
<1>10. PICK g : g = ReqOf  OBVIOUS
<1>11. PICK a \in Seq(Nat) : a = Along(f, port["robToCU"])  BY <1>9, WayParts
<1>12. PICK u \in Seq(RspMsg(AccessID)) : u = out["robToCU"]  BY WayParts
<1>13. PICK p \in Seq(Nat), o \in Seq(Nat) : p = port["cuToROB"] /\ o = out["cuToROB"]
  BY WayParts
<1>14. PICK s \in Seq(Transaction) : s = transactions  BY WayParts
<1>15. /\ Numbering(f, RspMsg(AccessID)) /\ Numbering(g, Transaction)
       /\ s # <<>> /\ f[m] = g[Head(s)] /\ m \in RspMsg(AccessID)
  BY <1>2, <1>3, <1>6, <1>7, <1>9, <1>10, <1>14, WayParts
<1>16. Queue(a, Along(f, Append(u, m)), Along(g, Tail(s)), p, o) =
           Queue(a, Along(f, u), Along(g, s), p, o)
  BY <1>15, MovesOut
<1>17. Way = Queue(a, Along(f, u), Along(g, s), p, o)
  BY <1>9, <1>10, <1>11, <1>12, <1>13, <1>14, Zenon DEF Way
<1>18. Way' = Queue(a, Along(f, Append(u, m)), Along(g, Tail(s)), p, o)
  BY <1>5, <1>8, <1>9, <1>10, <1>11, <1>12, <1>13, <1>14 DEF Way
<1> QED  BY <1>16, <1>17, <1>18, Zenon

LEMMA WayStep ==
    ASSUME Type, [Next]_vars, ~ (SendRequest \/ Resend \/ ReceiveRsp \/ DiscardROB \/ RestartROB)
    PROVE  Way' = Way
<1>1. CASE \E c \in Connection : Deliver(c)  BY <1>1, WayDelivered
<1>2. CASE TopDown  BY <1>2, WayTopDown
<1>3. CASE BottomUp  BY <1>3, WayBottomUp
<1>4. CASE (\A c \in Connection : ~ Deliver(c)) /\ ~ TopDown /\ ~ BottomUp
  <2>1. /\ out'["cuToROB"] = out["cuToROB"] /\ out'["robToCU"] = out["robToCU"]
        /\ port'["cuToROB"] = port["cuToROB"] /\ port'["robToCU"] = port["robToCU"]
    BY <1>4, OutKept, PortKept
  <2>2. UNCHANGED id
    BY DEF Next, Progress, CUNext, ROBNext, ATNext, Execute, Resume, FlushPipeline,
           PipelineResume, TopDown, ParseBottom, BottomUp, Translate, ParseTranslation,
           Respond, DiscardAT, RestartAT, CachesAndTLBs, Deliver, ShootDown, vars, cuVars
  <2>3. Along(ReqOf, transactions') = Along(ReqOf, transactions)
    <3>1. CASE ParseBottom
      <4>1. PICK n \in Nat : n = Len(transactions)  BY Lengths
      <4>2. /\ transactions' \in Seq(Transaction) /\ Len(transactions') = n
            /\ \A i \in 1 .. n : transactions'[i].req = transactions[i].req
        BY <3>1, <4>1, Entered
      <4>3. \A i \in 1 .. n : transactions'[i] \in Transaction /\ transactions[i] \in Transaction
        BY <4>1, <4>2, SeqType DEF Type
      <4>4. \A t \in Transaction : ReqOf[t] = t.req  BY DEF ReqOf
      <4>5. \A i \in 1 .. n : ReqOf[transactions'[i]] = ReqOf[transactions[i]]
        BY <4>2, <4>3, <4>4
      <4> QED  BY <4>1, <4>2, <4>5 DEF Along
    <3>2. CASE ~ ROBNext  BY <3>2, OtherThanROB DEF robVars
    <3> QED  BY <1>4, <3>1, <3>2 DEF ROBNext
  <2> QED  BY <2>1, <2>2, <2>3 DEF Way
<1> QED  BY <1>1, <1>2, <1>3, <1>4

LEMMA SentStep ==
    ASSUME Type, [Next]_vars, ~ (SendRequest \/ Resend \/ ReceiveRsp \/ FlushPipeline)
    PROVE  SentNow' = SentNow
<1>1. CASE Execute
  <2>1. issued + 1 \in Access  BY <1>1, AccessType DEF Execute, Type
  <2>2. /\ Len(inFlight') = Len(inFlight) + 1 /\ Len(toSend') = Len(toSend) + 1
        /\ UNCHANGED done
    BY <1>1, <2>1, AppendElements DEF Execute, Type
  <2>3. PICK d \in Nat, k \in Nat, l \in Nat :
            d = Len(done) /\ k = Len(inFlight) /\ l = Len(toSend)
    BY Lengths
  <2>4. SentNow' = d + 1 .. d + (k + 1) - (l + 1)  BY <2>2, <2>3 DEF SentNow
  <2>5. SentNow = d + 1 .. d + k - l  BY <2>3 DEF SentNow
  <2>6. d + (k + 1) - (l + 1) = d + k - l  OBVIOUS
  <2> QED  BY <2>4, <2>5, <2>6, Zenon
<1>2. CASE Resume \/ PipelineResume
  BY <1>2 DEF Resume, PipelineResume, SentNow
<1>3. CASE ~ CUNext
  BY <1>3, OthersSteps DEF cuVars, SentNow
<1> QED  BY <1>1, <1>2, <1>3 DEF CUNext

LEMMA Interval ==
    ASSUME NEW m \in Nat, NEW n \in Nat, m <= n
    PROVE  /\ (m + 1 .. n) \cup {n + 1} = m + 1 .. n + 1
           /\ \A a \in m + 1 .. n : a \in Nat /\ 0 < a /\ a < n + 1
           /\ (m + 1 .. n) \ {m + 1} = (m + 1) + 1 .. n
  OBVIOUS

\* An access is sent for the first time.
LEMMA FlowSend ==
    ASSUME Type, PhaseOK, OrderOK, FlowOK, SendRequest
    PROVE  FlowOK'
<1>1. /\ toSend # <<>> /\ Send("cuToROB", Head(toSend)) /\ toSend' = Tail(toSend)
      /\ ~ isPaused /\ UNCHANGED <<id, port, transactions, done, inFlight, issued>>
  BY DEF SendRequest, robVars
<1>2. PICK e \in Nat : e = Head(toSend)  BY <1>1, TypedHeads, AccessNat
<1>3. e \in Access  BY <1>1, <1>2, TypedHeads
<1>4. out'["cuToROB"] = Append(out["cuToROB"], e) /\ out'["robToCU"] = out["robToCU"]
  <2>1. "robToCU" \in Connection \ {"cuToROB"}  BY Connections
  <2> QED  BY <1>1, <1>2, <1>3, <2>1, Connections, SendBuffers DEF Type
<1>5. PICK q \in Seq(Nat) : q = Way  BY WayParts
<1>6. Way' = Append(q, e)
  <2>1. PICK a \in Seq(Nat), b \in Seq(Nat), r \in Seq(Nat) :
            /\ a = Along(MarkOf(id), port["robToCU"])
            /\ b = Along(MarkOf(id), out["robToCU"])
            /\ r = Along(ReqOf, transactions)
    BY WayParts
  <2>2. PICK p \in Seq(Nat), o \in Seq(Nat) : p = port["cuToROB"] /\ o = out["cuToROB"]
    BY WayParts
  <2>3. Ends(Queue(a, b, r, p, o), e, Queue(a, b, r, p, Append(o, e)))  BY QueueEnds
  <2>4. q = Queue(a, b, r, p, o)  BY <1>5, <2>1, <2>2, Zenon DEF Way
  <2>5. Way' = Queue(a, b, r, p, Append(o, e))  BY <1>1, <1>4, <2>1, <2>2 DEF Way
  <2> QED  BY <2>3, <2>4, <2>5, Zenon DEF Ends
<1>7. PICK d \in Nat, k \in Nat, l \in Nat :
          d = Len(done) /\ k = Len(inFlight) /\ l = Len(toSend)
  BY Lengths
<1>8. e = d + k - l + 1 /\ l <= k /\ l # 0
  <2>1. l # 0  BY <1>1, <1>7, Lengths
  <2>2. toSend[1] = issued - l + 1
    <3>1. 1 \in 1 .. l  BY <2>1
    <3> QED  BY <1>7, <3>1 DEF OrderOK
  <2>3. e = toSend[1]  BY <1>1, <1>2, TailElements DEF Type
  <2>4. Len(shadow) = 0  BY <1>1, Lengths DEF PhaseOK
  <2>5. issued = d + k /\ l <= k  BY <1>7, <2>4 DEF OrderOK
  <2> QED  BY <2>1, <2>2, <2>3, <2>5
<1>9. Len(toSend') = l - 1  BY <1>1, <1>7, TailElements DEF Type
<1>10. PICK n \in Nat : n = d + k - l  BY <1>8
<1>11. PICK S \in SUBSET Nat : S = d + 1 .. n  OBVIOUS
<1>12. SentNow = S  BY <1>7, <1>10, <1>11 DEF SentNow
<1>13. e = n + 1 /\ d <= n  BY <1>8, <1>10
<1>14. SentNow' = S \cup {e}
  <2>1. SentNow' = d + 1 .. d + k - (l - 1)  BY <1>1, <1>7, <1>9 DEF SentNow
  <2>2. d + k - (l - 1) = n + 1  BY <1>8, <1>10
  <2> QED  BY <1>11, <1>13, <2>1, <2>2, Interval
<1>15. \A a \in S : a < e  BY <1>11, <1>13, Interval
<1>16. InOrder(q, S)  BY <1>5, <1>12 DEF FlowOK
<1>17. InOrder(Append(q, e), S \cup {e})  BY <1>15, <1>16, InOrderAppend
<1> QED  BY <1>6, <1>14, <1>17 DEF FlowOK

\* Another ID for one access: what the other accesses have in the queue stays.
LEMMA MarksKept ==
    ASSUME NEW f, NEW g, Numbering(f, RspMsg(AccessID)), Numbering(g, RspMsg(AccessID)), NEW S,
           \A m \in RspMsg(AccessID) : f[m] \in S => g[m] = f[m],
           NEW s \in Seq(RspMsg(AccessID))
    PROVE  Keeps(Along(f, s), Along(g, s), S)
<1>1. PICK n \in Nat : n = Len(s)  BY SeqType
<1>2. \A i \in 1 .. n : s[i] \in RspMsg(AccessID)  BY <1>1, SeqType
<1>3. PICK a : a = Along(f, s)  OBVIOUS
<1>4. PICK b : b = Along(g, s)  OBVIOUS
<1>5. Len(a) = n /\ \A i \in 1 .. n : a[i] = f[s[i]]  BY <1>1, <1>3, AlongElements
<1>6. Len(b) = n /\ \A i \in 1 .. n : b[i] = g[s[i]]  BY <1>1, <1>4, AlongElements
<1>7. Keeps(a, b, S)  BY <1>2, <1>5, <1>6 DEF Keeps
<1> QED  BY <1>3, <1>4, <1>7, Zenon

\* An access is sent again: the CU will drop the responses to the earlier ID.
LEMMA FlowResend ==
    ASSUME Type, PhaseOK, OrderOK, FlowOK, Resend, Type'
    PROVE  FlowOK'
<1>1. /\ shadow # <<>> /\ Send("cuToROB", Head(shadow)) /\ isSendingOut
      /\ id' = [id EXCEPT ![Head(shadow)] = @ + 1] /\ inFlight' = Append(inFlight, Head(shadow))
      /\ UNCHANGED <<port, transactions, done, toSend>>
  BY DEF Resend, robVars
<1>2. PICK e \in Nat : e = Head(shadow)  BY <1>1, TypedHeads, AccessNat
<1>3. e \in Access  BY <1>1, <1>2, TypedHeads
<1>4. out'["cuToROB"] = Append(out["cuToROB"], e) /\ out'["robToCU"] = out["robToCU"]
  <2>1. "robToCU" \in Connection \ {"cuToROB"}  BY Connections
  <2> QED  BY <1>1, <1>2, <1>3, <2>1, Connections, SendBuffers DEF Type
<1>5. PICK d \in Nat, n \in Nat : d = Len(done) /\ n = d + Len(inFlight)
  <2>1. PICK d \in Nat, k \in Nat : d = Len(done) /\ k = Len(inFlight)  BY Lengths
  <2>2. d + k \in Nat  OBVIOUS
  <2> QED  BY <2>1, <2>2
<1>6. Len(toSend) = 0 /\ Len(toSend') = 0
  BY <1>1, Lengths DEF PhaseOK
<1>7. e = n + 1
  <2>1. 1 \in 1 .. Len(shadow)  BY <1>1, Lengths
  <2>2. e = shadow[1]  BY <1>1, <1>2, TailElements DEF Type
  <2> QED  BY <1>5, <2>1, <2>2, Lengths DEF OrderOK
<1>8. Len(inFlight') = Len(inFlight) + 1  BY <1>1, <1>2, <1>3, AppendElements DEF Type
<1>9. d <= n  BY <1>5, Lengths
<1>10. PICK S \in SUBSET Nat : S = d + 1 .. n  OBVIOUS
<1>11. SentNow = S
  <2>1. SentNow = d + 1 .. n - 0  BY <1>5, <1>6 DEF SentNow
  <2> QED  BY <1>10, <2>1
<1>12. SentNow' = S \cup {e}
  <2>1. SentNow' = d + 1 .. d + (Len(inFlight) + 1) - 0
    BY <1>1, <1>5, <1>6, <1>8 DEF SentNow
  <2>2. d + (Len(inFlight) + 1) - 0 = n + 1  BY <1>5, Lengths
  <2> QED  BY <1>7, <1>9, <1>10, <2>1, <2>2, Interval
<1>13. (\A a \in S : a < e) /\ e \notin S /\ 0 \notin S  BY <1>7, <1>9, <1>10, Interval
<1>14. PICK f : f = MarkOf(id)  OBVIOUS
<1>15. PICK g : g = MarkOf(id')  OBVIOUS
<1>16. Numbering(f, RspMsg(AccessID)) /\ Numbering(g, RspMsg(AccessID))
  <2>1. \A m \in RspMsg(AccessID) : m.rspTo.access \in Nat
    BY AccessNat DEF RspMsg, AccessID
  <2> QED  BY <1>14, <1>15, <2>1 DEF MarkOf, Numbering
<1>17. \A m \in RspMsg(AccessID) : f[m] \in S => g[m] = f[m]
  <2>1. SUFFICES ASSUME NEW m \in RspMsg(AccessID), f[m] \in S
                 PROVE  g[m] = f[m]
    OBVIOUS
  <2>2. m.rspTo.access \in Access  BY DEF RspMsg, AccessID
  <2>3. f[m] = IF m.rspTo.id = id[m.rspTo.access] THEN m.rspTo.access ELSE 0
    BY <1>14 DEF MarkOf
  <2>4. g[m] = IF m.rspTo.id = id'[m.rspTo.access] THEN m.rspTo.access ELSE 0
    BY <1>15 DEF MarkOf
  <2>5. f[m] = m.rspTo.access /\ m.rspTo.access # e  BY <1>13, <2>1, <2>3
  <2>6. id'[m.rspTo.access] = id[m.rspTo.access]
    BY <1>1, <1>2, <2>2, <2>5 DEF Type
  <2> QED  BY <2>3, <2>4, <2>6
<1>18. PICK u \in Seq(RspMsg(AccessID)), s \in Seq(RspMsg(AccessID)) :
           u = port["robToCU"] /\ s = out["robToCU"]
  BY WayParts
<1>19. PICK r \in Seq(Nat) : r = Along(ReqOf, transactions)  BY WayParts
<1>20. PICK p \in Seq(Nat), o \in Seq(Nat) : p = port["cuToROB"] /\ o = out["cuToROB"]
  BY WayParts
<1>21. PICK a \in Seq(Nat), b \in Seq(Nat) : a = Along(f, u) /\ b = Along(f, s)
  BY <1>16, AlongElements
<1>22. PICK v \in Seq(Nat), w \in Seq(Nat) : v = Along(g, u) /\ w = Along(g, s)
  BY <1>16, AlongElements
<1>23. Keeps(a, v, S) /\ Keeps(b, w, S)
  <2>1. Keeps(Along(f, u), Along(g, u), S)  BY <1>16, <1>17, MarksKept
  <2>2. Keeps(Along(f, s), Along(g, s), S)  BY <1>16, <1>17, MarksKept
  <2> QED  BY <1>21, <1>22, <2>1, <2>2, Zenon
<1>24. PICK x \in Seq(Nat) : x = Queue(a, b, r, p, o)  BY QueueType
<1>25. PICK y \in Seq(Nat) : y = Queue(v, w, r, p, o)  BY QueueType
<1>26. Keeps(x, y, S)
  <2>1. Keeps(Queue(a, b, r, p, o), Queue(v, w, r, p, o), S)  BY <1>23, QueueKept
  <2> QED  BY <1>24, <1>25, <2>1, Zenon
<1>27. Way = x
  BY <1>14, <1>18, <1>19, <1>20, <1>21, <1>24, Zenon DEF Way
<1>28. Way' = Append(y, e)
  <2>1. Ends(Queue(v, w, r, p, o), e, Queue(v, w, r, p, Append(o, e)))  BY QueueEnds
  <2>2. Way' = Queue(v, w, r, p, Append(o, e))
    BY <1>1, <1>4, <1>15, <1>18, <1>19, <1>20, <1>22 DEF Way
  <2> QED  BY <1>25, <2>1, <2>2, Zenon DEF Ends
<1>29. InOrder(y, S)
  <2>1. InOrder(x, S)  BY <1>11, <1>27 DEF FlowOK
  <2> QED  BY <1>26, <2>1, InOrderKept
<1>30. InOrder(Append(y, e), S \cup {e})  BY <1>13, <1>29, InOrderAppend
<1> QED  BY <1>12, <1>28, <1>30 DEF FlowOK

\* The CU takes a message: the response to its oldest access, or one to be dropped.
LEMMA FlowReceive ==
    ASSUME Type, PhaseOK, OrderOK, DataOK, ReachOK, FlowOK, ReceiveRsp
    PROVE  FlowOK'
<1>1. /\ port["robToCU"] # <<>> /\ Retrieve("robToCU")
      /\ UNCHANGED <<id, out, transactions, toSend>>
  BY DEF ReceiveRsp, robVars
<1>2. port'["robToCU"] = Tail(port["robToCU"]) /\ port'["cuToROB"] = port["cuToROB"]
  <2>1. "cuToROB" \in Connection \ {"robToCU"}  BY Connections
  <2> QED  BY <1>1, <2>1, Connections, RetrieveBuffers DEF Type
<1>3. PICK q \in Seq(Nat) : q = Way  BY WayParts
<1>4. PICK m \in RspMsg(AccessID) : m = Head(port["robToCU"])
  BY <1>1, WayParts, TailElements
<1>5. Way' = Tail(q) /\ q # <<>> /\ Head(q) = MarkOf(id)[m]
  <2>1. PICK f : f = MarkOf(id)  OBVIOUS
  <2>2. PICK u \in Seq(RspMsg(AccessID)) : u = port["robToCU"]  BY WayParts
  <2>3. PICK b \in Seq(Nat), r \in Seq(Nat) :
            b = Along(f, out["robToCU"]) /\ r = Along(ReqOf, transactions)
    BY <2>1, WayParts
  <2>4. PICK p \in Seq(Nat), o \in Seq(Nat) : p = port["cuToROB"] /\ o = out["cuToROB"]
    BY WayParts
  <2>5. Numbering(f, RspMsg(AccessID)) /\ u # <<>>  BY <1>1, <2>1, <2>2, WayParts
  <2>6. Begins(Queue(Along(f, u), b, r, p, o), f[Head(u)],
               Queue(Along(f, Tail(u)), b, r, p, o))
    BY <2>5, Leaves
  <2>7. q = Queue(Along(f, u), b, r, p, o)
    BY <1>3, <2>1, <2>2, <2>3, <2>4, Zenon DEF Way
  <2>8. Way' = Queue(Along(f, Tail(u)), b, r, p, o)
    BY <1>1, <1>2, <2>1, <2>2, <2>3, <2>4 DEF Way
  <2> QED  BY <1>4, <2>1, <2>2, <2>6, <2>7, <2>8, Zenon DEF Begins
<1>6. PICK d \in Nat, k \in Nat, l \in Nat :
          d = Len(done) /\ k = Len(inFlight) /\ l = Len(toSend)
  BY Lengths
<1>7. l <= k  BY <1>6 DEF OrderOK
<1>8. PICK n \in Nat : n = d + k - l  BY <1>7
<1>9. PICK S \in SUBSET Nat : S = d + 1 .. n  OBVIOUS
<1>10. SentNow = S /\ InOrder(q, S)
  <2>1. SentNow = S  BY <1>6, <1>8, <1>9 DEF SentNow
  <2> QED  BY <1>3, <2>1 DEF FlowOK
<1>11. CASE IsOldest(m)
  <2>1. /\ inFlight # <<>> /\ Head(inFlight) = d + 1 /\ l < k
        /\ inFlight' = Tail(inFlight) /\ done' = Append(done, m.data)
    BY <1>4, <1>6, <1>11, Oldest DEF ReceiveRsp
  <2>2. Len(inFlight') = k - 1 /\ Len(done') = d + 1
    <3>1. m.data \in Access  BY DEF RspMsg
    <3> QED  BY <1>6, <2>1, <3>1, AppendElements, TailElements DEF Type
  <2>3. SentNow' = S \ {d + 1}
    <3>1. SentNow' = (d + 1) + 1 .. (d + 1) + (k - 1) - l
      BY <1>1, <1>6, <2>2 DEF SentNow
    <3>2. (d + 1) + (k - 1) - l = n /\ d <= n  BY <1>7, <1>8
    <3> QED  BY <1>9, <3>1, <3>2, Interval
  <2>4. Head(q) = d + 1
    <3>1. m.rspTo.access = d + 1 /\ m.rspTo.id = id[d + 1]
      BY <1>11, <2>1 DEF IsOldest
    <3> QED  BY <1>5, <3>1 DEF MarkOf
  <2>5. InOrder(q, S \ {d + 1})  BY <1>10, InOrderFewer
  <2>6. InOrder(Tail(q), S \ {d + 1})
    <3>1. Head(q) \notin S \ {d + 1} /\ S \ {d + 1} \in SUBSET Nat  BY <2>4
    <3> QED  BY <1>5, <2>5, <3>1, InOrderTail
  <2> QED  BY <1>5, <2>3, <2>6 DEF FlowOK
<1>12. CASE ~ IsOldest(m)
  <2>1. SentNow' = S
    <3>1. UNCHANGED <<inFlight, done>>  BY <1>4, <1>12 DEF ReceiveRsp
    <3> QED  BY <1>1, <1>10, <3>1 DEF SentNow
  <2>2. ASSUME Head(q) \in S
        PROVE  \E b \in S : b < Head(q)
    <3>1. PICK h \in S : h = Head(q)  BY <2>2
    <3>2. h \in d + 1 .. n  BY <1>9
    <3>3. m.rspTo.access = h /\ m.rspTo.id = id[h]
      <4>1. h # 0  BY <3>2
      <4> QED  BY <1>5, <3>1, <4>1 DEF MarkOf
    <3>4. h # d + 1
      <4> SUFFICES ASSUME h = d + 1 PROVE FALSE  OBVIOUS
      <4>1. k # 0  BY <1>8, <3>2
      <4>2. inFlight # <<>> /\ 1 \in 1 .. k  BY <1>6, <4>1, Lengths
      <4>3. Head(inFlight) = inFlight[1]  BY <4>2, TailElements DEF Type
      <4>4. Head(inFlight) = d + 1  BY <1>6, <4>2, <4>3 DEF OrderOK
      <4>5. m.rspTo \in AccessID  BY DEF RspMsg
      <4>6. m.rspTo = [access |-> h, id |-> id[h]]  BY <3>3, <4>5 DEF AccessID
      <4> QED  BY <1>12, <4>2, <4>4, <4>6 DEF IsOldest
    <3>5. d + 1 \in d + 1 .. n /\ d + 1 < h  BY <3>2, <3>4
    <3> QED  BY <1>9, <3>1, <3>5
  <2>3. InOrder(Tail(q), S)  BY <1>5, <1>10, <2>2, InOrderTail
  <2> QED  BY <1>5, <2>1, <2>3 DEF FlowOK
<1> QED  BY <1>11, <1>12

LEMMA FlowStep ==
    ASSUME PathInv, [Next]_vars, Type', PhaseOK'
    PROVE  FlowOK'
<1>1. Type /\ PhaseOK /\ OrderOK /\ DataOK /\ ReachOK /\ FlowOK  BY DEF PathInv
<1>2. CASE SendRequest  BY <1>1, <1>2, FlowSend
<1>3. CASE Resend  BY <1>1, <1>3, FlowResend
<1>4. CASE ReceiveRsp  BY <1>1, <1>4, FlowReceive
<1>5. CASE FlushPipeline \/ DiscardROB \/ RestartROB
  <2>1. inFlight' = <<>>
    <3>1. phase' \in Stopped
      BY <1>5 DEF FlushPipeline, DiscardROB, RestartROB, Advance, Stopped
    <3> QED  BY <3>1 DEF PhaseOK
  <2>2. PICK d \in Nat, l \in Nat : d = Len(done') /\ l = Len(toSend')  BY SeqType DEF Type
  <2>3. SentNow' = {}
    <3>1. SentNow' = d + 1 .. d + 0 - l  BY <2>1, <2>2 DEF SentNow
    <3> QED  BY <3>1
  <2> QED  BY <2>3, InOrderNone DEF FlowOK
<1>6. CASE ~ (SendRequest \/ Resend \/ ReceiveRsp \/ FlushPipeline \/ DiscardROB \/ RestartROB)
  BY <1>1, <1>6, WayStep, SentStep DEF FlowOK
<1> QED  BY <1>2, <1>3, <1>4, <1>5, <1>6

-------------------------------------------------------------------------------
(* The theorems. *)

LEMMA InitPathInv == Init => PathInv
<1> SUFFICES ASSUME Init PROVE PathInv  OBVIOUS
<1>1. Type  BY InitType
<1>2. /\ issued = 0 /\ toSend = <<>> /\ inFlight = <<>> /\ shadow = <<>> /\ done = <<>>
      /\ isPaused = FALSE /\ isSendingOut = FALSE /\ transactions = <<>>
      /\ isFlushingROB = FALSE /\ translating = {} /\ inBottom = {} /\ isFlushingAT = FALSE
      /\ out = [c \in Connection |-> <<>>] /\ port = [c \in Connection |-> <<>>]
      /\ phase = "none"
  BY DEF Init
<1>3. Len(<<>>) = 0  OBVIOUS
<1>4. PhaseOK  BY <1>2 DEF PhaseOK, Stopped
<1>5. OrderOK  BY <1>2, <1>3 DEF OrderOK
<1>6. TransactionsOK  BY <1>2, <1>3 DEF TransactionsOK
<1>7. \A c \in Connection : Content(c) = {}
  BY <1>2 DEF Content, Range
<1>8. DataOK  BY <1>2, <1>7, Connections DEF DataOK, ToTranslate
<1>9. NoOrphan  BY <1>2 DEF NoOrphan
<1>10. ReachOK  BY <1>2, <1>3, <1>7, Connections DEF ReachOK
<1>11. FlowOK
  <2>1. SentNow = {}
    <3>1. SentNow = 0 + 1 .. 0 + 0 - 0  BY <1>2, <1>3 DEF SentNow
    <3> QED  BY <3>1
  <2> QED  BY <2>1, InOrderNone DEF FlowOK
<1> QED  BY <1>1, <1>4, <1>5, <1>6, <1>8, <1>9, <1>10, <1>11 DEF PathInv

LEMMA PathInvStep == PathInv /\ [Next]_vars => PathInv'
<1> SUFFICES ASSUME PathInv, [Next]_vars PROVE PathInv'  OBVIOUS
<1>1. /\ Type /\ PhaseOK /\ OrderOK /\ TransactionsOK /\ DataOK /\ NoOrphan /\ ReachOK
  BY DEF PathInv
<1>2. Type'  BY <1>1, TypeStep
<1>3. PhaseOK'  BY <1>1, PhaseStep
<1>4. OrderOK'  BY <1>1, OrderStep
<1>5. TransactionsOK'  BY <1>1, <1>2, <1>3, <1>4, TransactionsStep DEF PathInv
<1>6. DataOK'  BY <1>1, <1>2, <1>3, <1>4, <1>5, DataStep DEF PathInv
<1>7. NoOrphan'  BY <1>1, <1>2, <1>3, <1>4, <1>5, OrphanStep DEF PathInv
<1>8. ReachOK'  BY <1>1, <1>2, <1>3, <1>4, ReachStep DEF PathInv
<1>9. FlowOK'  BY <1>2, <1>3, FlowStep
<1> QED  BY <1>2, <1>3, <1>4, <1>5, <1>6, <1>7, <1>8, <1>9 DEF PathInv

\* The accesses on the way, type data, phases, order and transactions hold together: the
\* invariant that all the results below follow from.
THEOREM PathInvariant == Spec => []PathInv
<1>1. Init => PathInv  BY InitPathInv
<1>2. PathInv /\ [Next]_vars => PathInv'  BY PathInvStep
<1> QED  BY <1>1, <1>2, PTL DEF Spec

\* The wavefronts get the data of their accesses, each once and in program order
\* (handleVectorDataLoadReturn), however often the CU is flushed and whatever responses
\* and copies of requests survive a flush.
THEOREM RightDataCorrect == Spec => []RightData
<1>1. PathInv => RightData
  <2> SUFFICES ASSUME PathInv PROVE RightData  OBVIOUS
  <2>1. PICK n \in Nat : n = Len(done)  BY Lengths DEF PathInv
  <2>2. PICK d \in Seq(Nat) : d = done  BY AccessNat, SeqMonotonic DEF PathInv, Type
  <2>3. Len(d) = n /\ \A k \in 1 .. n : d[k] = k  BY <2>1, <2>2 DEF PathInv, OrderOK
  <2>4. PICK s : s = [i \in 1 .. n |-> i]  OBVIOUS
  <2>5. s \in Seq(Nat) /\ Len(s) = n /\ \A k \in 1 .. n : s[k] = k
    <3>1. \A i \in 1 .. n : i \in Nat  OBVIOUS
    <3> QED  BY <2>4, <3>1
  <2>6. \A k \in 1 .. n : d[k] = s[k]  BY <2>3, <2>5
  <2>7. d = s  BY <2>3, <2>5, <2>6, SeqEqual
  <2> QED  BY <2>1, <2>2, <2>4, <2>7, Zenon DEF RightData
<1> QED  BY <1>1, PathInvariant, PTL

\* The ROB waits for no answer that cannot come: every request that it has sent and that
\* is not answered is in the address translator or on its way there or back
\* (discardROB and its address translator's flush apart).
THEOREM NoOrphanCorrect == Spec => []NoOrphan
<1>1. PathInv => NoOrphan  BY DEF PathInv
<1> QED  BY <1>1, PathInvariant, PTL

-------------------------------------------------------------------------------
(* Where an access is that the CU waits for. *)

Has(s, e) == \E i \in 1 .. Len(s) : s[i] = e

LEMMA CatHas ==
    ASSUME NEW s \in Seq(Nat), NEW t \in Seq(Nat), NEW e, Has(Cat(s, t), e)
    PROVE  Has(s, e) \/ Has(t, e)
<1>1. PICK m \in Nat, n \in Nat : m = Len(s) /\ n = Len(t)  BY SeqType
<1>2. PICK w : w = Cat(s, t)  OBVIOUS
<1>3. /\ Len(w) = m + n /\ \A i \in 1 .. m : w[i] = s[i]
      /\ \A i \in 1 .. n : w[m + i] = t[i]
  <2>1. /\ Len(Cat(s, t)) = Len(s) + Len(t) /\ \A i \in 1 .. Len(s) : Cat(s, t)[i] = s[i]
        /\ \A i \in 1 .. Len(t) : Cat(s, t)[Len(s) + i] = t[i]
    BY CatElements
  <2> QED  BY <1>1, <1>2, <2>1
<1>4. PICK i \in 1 .. m + n : w[i] = e  BY <1>2, <1>3 DEF Has
<1>5. CASE i \in 1 .. m  BY <1>1, <1>3, <1>4, <1>5 DEF Has
<1>6. CASE i \notin 1 .. m
  <2>1. i - m \in 1 .. n /\ i = m + (i - m)  BY <1>6
  <2>2. t[i - m] = e  BY <1>3, <1>4, <2>1
  <2> QED  BY <1>1, <2>1, <2>2 DEF Has
<1> QED  BY <1>5, <1>6

LEMMA QueueHas ==
    ASSUME NEW a \in Seq(Nat), NEW b \in Seq(Nat), NEW r \in Seq(Nat), NEW p \in Seq(Nat),
           NEW o \in Seq(Nat), NEW e, Has(Queue(a, b, r, p, o), e)
    PROVE  Has(a, e) \/ Has(b, e) \/ Has(r, e) \/ Has(p, e) \/ Has(o, e)
<1>1. PICK x \in Seq(Nat) : x = Cat(a, b)  BY CatElements
<1>2. PICK y \in Seq(Nat) : y = Cat(x, r)  BY CatElements
<1>3. PICK z \in Seq(Nat) : z = Cat(y, p)  BY CatElements
<1>4. Has(Cat(z, o), e)  BY <1>1, <1>2, <1>3, Zenon DEF Queue
<1>5. Has(z, e) \/ Has(o, e)  BY <1>4, CatHas
<1>6. Has(z, e) => Has(y, e) \/ Has(p, e)
  <2>1. Has(Cat(y, p), e) => Has(y, e) \/ Has(p, e)  BY CatHas
  <2> QED  BY <1>3, <2>1, Zenon
<1>7. Has(y, e) => Has(x, e) \/ Has(r, e)
  <2>1. Has(Cat(x, r), e) => Has(x, e) \/ Has(r, e)  BY CatHas
  <2> QED  BY <1>2, <2>1, Zenon
<1>8. Has(x, e) => Has(a, e) \/ Has(b, e)
  <2>1. Has(Cat(a, b), e) => Has(a, e) \/ Has(b, e)  BY CatHas
  <2> QED  BY <1>1, <2>1, Zenon
<1> QED  BY <1>5, <1>6, <1>7, <1>8

LEMMA AlongHas ==
    ASSUME NEW S, NEW f, Numbering(f, S), NEW s \in Seq(S), NEW e, Has(Along(f, s), e)
    PROVE  \E x \in Range(s) : x \in S /\ f[x] = e
<1>1. PICK n \in Nat : n = Len(s)  BY SeqType
<1>2. PICK a : a = Along(f, s)  OBVIOUS
<1>3. Len(a) = n /\ \A i \in 1 .. n : a[i] = f[s[i]]  BY <1>1, <1>2, AlongElements
<1>4. PICK i \in 1 .. n : a[i] = e  BY <1>2, <1>3 DEF Has
<1>5. s[i] \in S /\ i \in DOMAIN s  BY <1>1, SeqType
<1>6. s[i] \in Range(s)  BY <1>5, Zenon DEF Range
<1>7. f[s[i]] = e  BY <1>3, <1>4
<1> QED  BY <1>5, <1>6, <1>7

LEMMA HasRange ==
    ASSUME NEW s \in Seq(Nat), NEW e, Has(s, e)
    PROVE  e \in Range(s)
<1>1. PICK i \in 1 .. Len(s) : s[i] = e  BY DEF Has
<1>2. i \in DOMAIN s  BY SeqType
<1> QED  BY <1>1, <1>2, Zenon DEF Range

\* An access in flight that has been sent is in the queue.
LEMMA InFlightOnWay ==
    ASSUME PathInv, NEW a \in Range(inFlight) \ Range(toSend)
    PROVE  a \in Access /\ Has(Way, a)
<1>1. Type /\ PhaseOK /\ OrderOK /\ FlowOK  BY DEF PathInv
<1>2. PICK d \in Nat, k \in Nat, l \in Nat :
          d = Len(done) /\ k = Len(inFlight) /\ l = Len(toSend)
  BY <1>1, Lengths
<1>3. DOMAIN inFlight = 1 .. k /\ DOMAIN toSend = 1 .. l
  BY <1>1, <1>2, SeqType DEF Type
<1>4. PICK i \in 1 .. k : a = inFlight[i]
  <2>1. PICK i \in DOMAIN inFlight : a = inFlight[i]  BY Zenon DEF Range
  <2> QED  BY <1>3, <2>1, Zenon
<1>5. a \in Access  BY <1>1, <1>2, <1>4, SeqType DEF Type
<1>6. a = d + i  BY <1>1, <1>2, <1>4 DEF OrderOK
<1>7. i <= k - l
  <2> SUFFICES ASSUME ~ (i <= k - l) PROVE FALSE  OBVIOUS
  <2>1. l <= k  BY <1>1, <1>2 DEF OrderOK
  <2>2. i - (k - l) \in 1 .. l  BY <2>1
  <2>3. l # 0  BY <2>2
  <2>4. Len(shadow) = 0
    <3>1. toSend # <<>>  BY <1>1, <1>2, <2>3, Lengths
    <3> QED  BY <1>1, <3>1, Lengths DEF PhaseOK
  <2>5. issued = d + k  BY <1>1, <1>2, <2>4 DEF OrderOK
  <2>6. toSend[i - (k - l)] = issued - l + (i - (k - l))
    BY <1>1, <1>2, <2>2 DEF OrderOK
  <2>7. toSend[i - (k - l)] = a  BY <1>6, <2>1, <2>5, <2>6
  <2>8. toSend[i - (k - l)] \in Range(toSend)  BY <1>3, <2>2, Zenon DEF Range
  <2> QED  BY <2>7, <2>8
<1>8. a \in SentNow
  <2>1. SentNow = d + 1 .. d + k - l  BY <1>2 DEF SentNow
  <2>2. d + i \in d + 1 .. d + k - l  BY <1>7
  <2> QED  BY <1>6, <2>1, <2>2
<1>9. Has(Way, a)  BY <1>1, <1>8 DEF FlowOK, InOrder, Has
<1> QED  BY <1>5, <1>9

\* The CU waits for no answer that cannot come: an access that it has sent is in the
\* ROB, or on its way there, or the response that the CU will take is on its way back.
THEOREM NothingLostCorrect == Spec => []NothingLost
<1>1. PathInv => NothingLost
  <2> SUFFICES ASSUME PathInv, NEW e \in Range(inFlight) \ Range(toSend)
               PROVE  \/ e \in Content("cuToROB")
                      \/ \E i \in DOMAIN transactions : transactions[i].req = e
                      \/ \E m \in Content("robToCU") :
                             m.rspTo = [access |-> e, id |-> id[e]]
    BY DEF NothingLost
  <2>1. Type  BY DEF PathInv
  <2>2. e \in Access /\ Has(Way, e)  BY InFlightOnWay
  <2>3. PICK f : f = MarkOf(id)  OBVIOUS
  <2>4. PICK u \in Seq(RspMsg(AccessID)), s \in Seq(RspMsg(AccessID)) :
            u = port["robToCU"] /\ s = out["robToCU"]
    BY <2>1, WayParts
  <2>5. Numbering(f, RspMsg(AccessID)) /\ Numbering(ReqOf, Transaction)
        /\ transactions \in Seq(Transaction)
    BY <2>1, <2>3, WayParts
  <2>6. PICK a \in Seq(Nat), b \in Seq(Nat) : a = Along(f, u) /\ b = Along(f, s)
    BY <2>5, AlongElements
  <2>7. PICK r \in Seq(Nat) : r = Along(ReqOf, transactions)  BY <2>1, WayParts
  <2>8. PICK p \in Seq(Nat), o \in Seq(Nat) : p = port["cuToROB"] /\ o = out["cuToROB"]
    BY <2>1, WayParts
  <2>9. Has(Queue(a, b, r, p, o), e)
    BY <2>2, <2>3, <2>4, <2>6, <2>7, <2>8, Zenon DEF Way
  <2>10. Has(a, e) \/ Has(b, e) \/ Has(r, e) \/ Has(p, e) \/ Has(o, e)
    BY <2>9, QueueHas
  <2>11. ASSUME NEW m \in RspMsg(AccessID), f[m] = e
         PROVE  m.rspTo = [access |-> e, id |-> id[e]]
    <3>1. m.rspTo \in AccessID  BY DEF RspMsg
    <3>2. e # 0  BY <2>2, AccessNat
    <3>3. m.rspTo.access = e /\ m.rspTo.id = id[e]  BY <2>3, <2>11, <3>2 DEF MarkOf
    <3> QED  BY <3>1, <3>3 DEF AccessID
  <2>12. CASE Has(a, e) \/ Has(b, e)
    <3>1. \E m \in Range(u) \cup Range(s) : m \in RspMsg(AccessID) /\ f[m] = e
      <4>1. CASE Has(a, e)
        <5>1. Has(Along(f, u), e)  BY <2>6, <4>1
        <5> QED  BY <2>5, <5>1, AlongHas
      <4>2. CASE Has(b, e)
        <5>1. Has(Along(f, s), e)  BY <2>6, <4>2
        <5> QED  BY <2>5, <5>1, AlongHas
      <4> QED  BY <2>12, <4>1, <4>2
    <3>2. Content("robToCU") = Range(s) \cup Range(u)  BY <2>4 DEF Content
    <3> QED  BY <2>11, <3>1, <3>2
  <2>13. CASE Has(r, e)
    <3>1. PICK t \in Range(transactions) : t \in Transaction /\ ReqOf[t] = e
      <4>1. Has(Along(ReqOf, transactions), e)  BY <2>7, <2>13
      <4> QED  BY <2>5, <4>1, AlongHas
    <3>2. t.req = e  BY <3>1 DEF ReqOf
    <3>3. PICK i \in DOMAIN transactions : t = transactions[i]  BY Zenon DEF Range
    <3> QED  BY <3>2, <3>3
  <2>14. CASE Has(p, e) \/ Has(o, e)
    <3>1. e \in Range(p) \/ e \in Range(o)  BY <2>14, HasRange
    <3> QED  BY <2>8, <3>1 DEF Content
  <2> QED  BY <2>10, <2>12, <2>13, <2>14
<1> QED  BY <1>1, PathInvariant, PTL

===============================================================================
