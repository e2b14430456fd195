--------------------------- MODULE VectorMemoryPath ---------------------------
(***************************************************************************)
(* The vector memory accesses of a compute unit, on their way through its  *)
(* reorder buffer (mgpusim/timing/rob) and its address translator (akita/  *)
(* mem/vm/addresstranslator), and what the command processor does to the   *)
(* three of them when a page migrates: it flushes the CU, which keeps the  *)
(* unanswered accesses in its shadow buffer, lets the AT and the ROB       *)
(* discard what they know, and restarts them in the opposite order; the CU *)
(* then sends the accesses again.                                          *)
(*                                                                         *)
(* A message to the ROB is the access itself, the Go object, whose ID      *)
(* changes when it is sent again: a copy that survived the flush changes   *)
(* with it.  Every connection has a buffer at its source and the port at   *)
(* its end, and a component that restarts empties its ports only.          *)
(***************************************************************************)
EXTENDS Naturals, Sequences, FiniteSets, SequencesExt

CONSTANTS
    MaxAccess,      \* bound: accesses of the CU, 1 .. MaxAccess
    MaxFlush,       \* bound: flushes
    InFlightLimit,  \* InFlightVectorMemAccessLimit
    BufferSize,     \* bufferSize of the ROB
    OutCap,         \* messages that a connection buffers for one port
    PortCap         \* capacity of a port

ASSUME PathAssumption ==
    /\ {MaxAccess, MaxFlush} \subseteq Nat
    /\ {InFlightLimit, BufferSize, OutCap, PortCap} \subseteq Nat \ {0}

VARIABLES
    issued,         \* accesses executed by the CU's vector memory unit
    toSend,         \* those that the unit has yet to send
    inFlight,       \* InFlightVectorMemAccess
    shadow,         \* shadowInFlightVectorMemAccess
    id,             \* id[a]: the ID of access a, a number of times it was sent again
    isPaused, isSendingOut,
    done,           \* the data that were returned to the wavefronts, in order
    transactions,   \* the ROB's list: [req, reqID, rsp], rsp is 0 at first
    table,          \* keys of toBottomReqIDToTransactionTable
    nextID,         \* the next ID of a request to the AT
    isFlushingROB,
    translating,    \* transactions of the AT: [reqID, access]
    inBottom,       \* inflightReqToBottom of the AT
    isFlushingAT,
    out, port,      \* out[c], port[c]: the two buffers of connection c
    phase,          \* the request that the command processor waits for
    flushes         \* flushes so far

cuVars  == <<issued, toSend, inFlight, shadow, id, isPaused, isSendingOut, done>>
robVars == <<transactions, table, nextID, isFlushingROB>>
atVars  == <<translating, inBottom, isFlushingAT>>
cpVars  == <<phase, flushes>>
vars    == <<cuVars, robVars, atVars, out, port, cpVars>>

Access     == 1 .. MaxAccess
Connection == {"cuToROB", "robToAT", "atToROB", "robToCU"}

Init ==
    /\ issued = 0 /\ toSend = <<>> /\ inFlight = <<>> /\ shadow = <<>>
    /\ id = [a \in Access |-> 0]
    /\ isPaused = FALSE /\ isSendingOut = FALSE /\ done = <<>>
    /\ transactions = <<>> /\ table = {} /\ nextID = 0 /\ isFlushingROB = FALSE
    /\ translating = {} /\ inBottom = {} /\ isFlushingAT = FALSE
    /\ out = [c \in Connection |-> <<>>] /\ port = [c \in Connection |-> <<>>]
    /\ phase = "none" /\ flushes = 0

Send(c, m) == /\ Len(out[c]) < OutCap
              /\ out' = [out EXCEPT ![c] = Append(@, m)]

Retrieve(c) == port' = [port EXCEPT ![c] = Tail(@)]

Deliver(c) ==
    /\ out[c] # <<>> /\ Len(port[c]) < PortCap
    /\ port' = [port EXCEPT ![c] = Append(@, Head(out[c]))]
    /\ out' = [out EXCEPT ![c] = Tail(@)]
    /\ UNCHANGED <<cuVars, robVars, atVars, cpVars>>

\* The command processor has got the responses of one phase and sends the requests
\* of the next.
Advance(from, to) == phase = from /\ phase' = to

-------------------------------------------------------------------------------
\* The compute unit.

\* VectorMemoryUnit.executeFlatLoad and executeFlatStore.
Execute ==
    /\ ~ isPaused /\ issued < MaxAccess
    /\ Len(inFlight) + 1 <= InFlightLimit
    /\ issued' = issued + 1
    /\ inFlight' = Append(inFlight, issued + 1)
    /\ toSend' = Append(toSend, issued + 1)
    /\ UNCHANGED <<shadow, id, isPaused, isSendingOut, done, robVars, atVars, out, port, cpVars>>

SendRequest ==
    /\ ~ isPaused /\ toSend # <<>>
    /\ Send("cuToROB", Head(toSend))
    /\ toSend' = Tail(toSend)
    /\ UNCHANGED <<issued, inFlight, shadow, id, isPaused, isSendingOut, done,
                   robVars, atVars, port, cpVars>>

\* sendVectorShadowBufferAccesses; an attempt that fails changes the ID as well,
\* but nobody sees that ID.
Resend ==
    /\ isSendingOut /\ shadow # <<>>
    /\ Send("cuToROB", Head(shadow))
    /\ id' = [id EXCEPT ![Head(shadow)] = @ + 1]
    /\ inFlight' = Append(inFlight, Head(shadow))
    /\ shadow' = Tail(shadow)
    /\ UNCHANGED <<issued, toSend, isPaused, isSendingOut, done, robVars, atVars, port, cpVars>>

\* checkShadowBuffers, when there is nothing left to send.
Resume ==
    /\ isSendingOut /\ shadow = <<>>
    /\ isSendingOut' = FALSE /\ isPaused' = FALSE
    /\ UNCHANGED <<issued, toSend, inFlight, shadow, id, done, robVars, atVars, out, port, cpVars>>

\* Mutant: every response is taken for that of the oldest access.
AnyResponse(m) == inFlight # <<>>

\* handleVectorDataLoadReturn and handleVectorDataStoreRsp: only the response to
\* the oldest access is taken, every other one is dropped.
IsOldest(m) ==
    inFlight # <<>> /\ m.rspTo = [access |-> Head(inFlight), id |-> id[Head(inFlight)]]

ReceiveRsp ==
    /\ ~ isPaused \/ isSendingOut
    /\ port["robToCU"] # <<>>
    /\ LET m == Head(port["robToCU"]) IN
           /\ inFlight' = IF IsOldest(m) THEN Tail(inFlight) ELSE inFlight
           /\ done' = IF IsOldest(m) THEN Append(done, m.data) ELSE done
    /\ Retrieve("robToCU")
    /\ UNCHANGED <<issued, toSend, shadow, id, isPaused, isSendingOut, robVars, atVars,
                   out, cpVars>>

\* Mutant: what is still to be sent again is forgotten.
FlushForgetsShadow ==
    /\ Advance("flush", "discardAT")
    /\ shadow' = inFlight
    /\ inFlight' = <<>> /\ toSend' = <<>>
    /\ isSendingOut' = FALSE /\ isPaused' = TRUE
    /\ UNCHANGED <<issued, id, done, robVars, atVars, out, port, flushes>>

\* doFlush: what is still to be sent again is put back first.
FlushPipeline ==
    /\ Advance("flush", "discardAT")
    /\ shadow' = inFlight \o (IF isSendingOut THEN shadow ELSE <<>>)
    /\ inFlight' = <<>> /\ toSend' = <<>>
    /\ isSendingOut' = FALSE /\ isPaused' = TRUE
    /\ UNCHANGED <<issued, id, done, robVars, atVars, out, port, flushes>>

\* handlePipelineResume, which answers before anything is sent again.
PipelineResume ==
    /\ Advance("resume", "none")
    /\ isSendingOut' = TRUE
    /\ UNCHANGED <<issued, toSend, inFlight, shadow, id, isPaused, done, robVars, atVars,
                   out, port, flushes>>

CUNext == \/ Execute \/ SendRequest \/ Resend \/ Resume \/ ReceiveRsp
          \/ FlushPipeline \/ PipelineResume

-------------------------------------------------------------------------------
\* The reorder buffer.

IsFull == Len(transactions) >= BufferSize

TopDown ==
    /\ ~ isFlushingROB /\ ~ IsFull
    /\ port["cuToROB"] # <<>>
    /\ LET a == Head(port["cuToROB"]) IN
           /\ Send("robToAT", [reqID |-> nextID, access |-> a])
           /\ transactions' = Append(transactions, [req |-> a, reqID |-> nextID, rsp |-> 0])
    /\ table' = table \cup {nextID}
    /\ nextID' = nextID + 1
    /\ Retrieve("cuToROB")
    /\ UNCHANGED <<cuVars, isFlushingROB, atVars, cpVars>>

\* A response to a request that is not in the table is dropped.
ParseBottom ==
    /\ ~ isFlushingROB /\ port["atToROB"] # <<>>
    /\ LET m == Head(port["atToROB"]) IN
       transactions' = [i \in DOMAIN transactions |->
           IF m.rspTo \in table /\ transactions[i].reqID = m.rspTo
           THEN [transactions[i] EXCEPT !.rsp = m.data] ELSE transactions[i]]
    /\ Retrieve("atToROB")
    /\ UNCHANGED <<cuVars, table, nextID, isFlushingROB, atVars, out, cpVars>>

BottomUp ==
    /\ ~ isFlushingROB /\ transactions # <<>>
    /\ LET t == Head(transactions) IN
           /\ t.rsp # 0
           /\ Send("robToCU", [rspTo |-> [access |-> t.req, id |-> id[t.req]], data |-> t.rsp])
           /\ table' = table \ {t.reqID}
    /\ transactions' = Tail(transactions)
    /\ UNCHANGED <<cuVars, nextID, isFlushingROB, atVars, port, cpVars>>

\* Mutant: the ROB goes on after the discard.
DiscardAndGoOn ==
    /\ Advance("discardROB", "reset")
    /\ transactions' = <<>> /\ table' = {}
    /\ UNCHANGED <<cuVars, nextID, isFlushingROB, atVars, out, port, flushes>>

DiscardROB ==
    /\ Advance("discardROB", "reset")
    /\ isFlushingROB' = TRUE
    /\ transactions' = <<>> /\ table' = {}
    /\ UNCHANGED <<cuVars, nextID, atVars, out, port, flushes>>

RestartROB ==
    /\ Advance("restartROB", "resume")
    /\ isFlushingROB' = FALSE
    /\ transactions' = <<>> /\ table' = {}
    /\ port' = [port EXCEPT !["cuToROB"] = <<>>, !["atToROB"] = <<>>]
    /\ UNCHANGED <<cuVars, nextID, atVars, out, flushes>>

ROBNext == TopDown \/ ParseBottom \/ BottomUp \/ DiscardROB \/ RestartROB

-------------------------------------------------------------------------------
\* The address translator.  The TLB and the L1 cache answer in any order; what
\* they answer to discarded requests is dropped and leaves no trace.

Translate ==
    /\ ~ isFlushingAT /\ port["robToAT"] # <<>>
    /\ translating' = translating \cup {Head(port["robToAT"])}
    /\ Retrieve("robToAT")
    /\ UNCHANGED <<cuVars, robVars, inBottom, isFlushingAT, out, cpVars>>

ParseTranslation == \E r \in translating :
    /\ ~ isFlushingAT
    /\ translating' = translating \ {r}
    /\ inBottom' = inBottom \cup {r}
    /\ UNCHANGED <<cuVars, robVars, isFlushingAT, out, port, cpVars>>

Respond == \E r \in inBottom :
    /\ ~ isFlushingAT
    /\ Send("atToROB", [rspTo |-> r.reqID, data |-> r.access])
    /\ inBottom' = inBottom \ {r}
    /\ UNCHANGED <<cuVars, robVars, translating, isFlushingAT, port, cpVars>>

DiscardAT ==
    /\ Advance("discardAT", "discardROB")
    /\ isFlushingAT' = TRUE
    /\ translating' = {} /\ inBottom' = {}
    /\ UNCHANGED <<cuVars, robVars, out, port, flushes>>

RestartAT ==
    /\ Advance("restartAT", "restartROB")
    /\ isFlushingAT' = FALSE
    /\ port' = [port EXCEPT !["robToAT"] = <<>>]
    /\ UNCHANGED <<cuVars, robVars, translating, inBottom, out, flushes>>

ATNext == Translate \/ ParseTranslation \/ Respond \/ DiscardAT \/ RestartAT

-------------------------------------------------------------------------------
\* The command processor.  It sends the requests for the AT and for the ROB at once,
\* but through one port and to the AT first, and a request is answered in the cycle
\* after it arrives: they are carried out in this order.

ShootDown ==
    /\ phase = "none" /\ flushes < MaxFlush
    /\ phase' = "flush" /\ flushes' = flushes + 1
    /\ UNCHANGED <<cuVars, robVars, atVars, out, port>>

\* The caches and the TLBs have been flushed, the page has moved, and the caches
\* and the TLBs have restarted.
CachesAndTLBs ==
    /\ Advance("reset", "restartAT")
    /\ UNCHANGED <<cuVars, robVars, atVars, out, port, flushes>>

Progress == \/ CUNext \/ ROBNext \/ ATNext \/ CachesAndTLBs
            \/ \E c \in Connection : Deliver(c)

Next == Progress \/ ShootDown

\* Components tick as long as they make progress; no migration need happen.
Spec == Init /\ [][Next]_vars /\ WF_vars(Progress)

-------------------------------------------------------------------------------
RobReq == [reqID : Nat, access : Access]
RspMsg(To) == [rspTo : To, data : Access]
AccessID == [access : Access, id : Nat]

Content(c) == Range(out[c]) \cup Range(port[c])

\* The wavefronts get the data of their accesses, each once and in program order,
\* although responses from before a flush and copies of requests that survived it
\* are still under way when the accesses are sent again.
RightData == done = [i \in 1 .. Len(done) |-> i]

\* The ROB waits for no answer that cannot come: a request it has sent is in the
\* AT or on its way, unless the AT has discarded it and the ROB is about to.  The
\* head of the list would block the CU for ever.
Answerable(r) ==
    \/ \E m \in Content("robToAT") \cup translating \cup inBottom : m.reqID = r
    \/ \E m \in Content("atToROB") : m.rspTo = r

NoOrphan == phase # "discardROB" =>
    \A i \in DOMAIN transactions : transactions[i].rsp = 0 => Answerable(transactions[i].reqID)

\* The same for the CU, which drops every response that is not for its oldest
\* access: the access, or the response to it, is still to come.
NothingLost == \A a \in Range(inFlight) \ Range(toSend) :
    \/ a \in Content("cuToROB")
    \/ \E i \in DOMAIN transactions : transactions[i].req = a
    \/ \E m \in Content("robToCU") : m.rspTo = [access |-> a, id |-> id[a]]

\* Every access is answered in the end, however often the CU is flushed and even
\* when it is flushed again before it has sent all its accesses.
AllDone == <>[](Len(done) = MaxAccess /\ ~ isPaused)
===============================================================================
