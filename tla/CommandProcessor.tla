--------------------------- MODULE CommandProcessor ---------------------------
(***************************************************************************)
(* The command processor and the DMA engine of each GPU.  The command      *)
(* processor takes one request of the driver at a time, hands kernels to   *)
(* its dispatchers and copies to the DMA engine, and leads the flush of    *)
(* the caches, the shootdown and the restart of the GPU from one kind of   *)
(* component to the next, counting acknowledgements.                       *)
(***************************************************************************)
EXTENDS Dispatcher

CONSTANTS
    MaxCopies,      \* maxRequestCount of a DMA engine
    CopyAccesses    \* memory accesses of a copy request

ASSUME CommandProcessorAssumption == {MaxCopies, CopyAccesses} \subseteq Nat \ {0}

\* What the command processor controls, besides the CUs.
AT == {"at"}
Cache == {"l1", "l2"}
Component == AT \cup Cache \cup {"tlb", "rdma", "pmc"}

VARIABLES
    fromDriver,     \* the ToDriver port, a place of one request
    acks,           \* the counters of acknowledgements
    shootdown,      \* currShootdownRequest while shootDownInProcess
    flushing,       \* currFlushRequest
    control,        \* control requests under way to each component
    reply,          \* their responses, with the component that sends each
    copies,         \* copies at the ToCP port of the DMA engine
    processing      \* copies that the DMA engine processes

cpVars == <<fromDriver, acks, shootdown, flushing, control, reply, copies, processing>>

NoAcks == [cu |-> 0, atFlush |-> 0, atRestart |-> 0, tlb |-> 0, cache |-> 0]

CommandProcessorInit ==
    /\ fromDriver = [g \in GPU |-> <<>>] /\ toDriver = [g \in GPU |-> <<>>]
    /\ acks = [g \in GPU |-> NoAcks]
    /\ shootdown = [g \in GPU |-> <<>>] /\ flushing = [g \in GPU |-> <<>>]
    /\ control = [g \in GPU |-> [k \in Component |-> <<>>]]
    /\ reply = [g \in GPU |-> <<>>]
    /\ copies = [g \in GPU |-> <<>>] /\ processing = [g \in GPU |-> {}]

Tell(g, S, msg) ==
    control' = [control EXCEPT ![g] = [k \in Component |->
                    IF k \in S THEN Append(@[k], msg) ELSE @[k]]]
ToDriver(g, msg) == toDriver' = [toDriver EXCEPT ![g] = Append(@, msg)]
TellCUs(g, msg) ==
    toCP' = [c \in CU |-> IF c[1] = g THEN Append(toCP[c], msg) ELSE toCP[c]]
Retrieve(g) == fromDriver' = [fromDriver EXCEPT ![g] = Tail(@)]
IsNext(g, type) == fromDriver[g] # <<>> /\ Head(fromDriver[g]).type = type

-------------------------------------------------------------------------------
(* Requests of the driver *)

\* A launch stays in the port while all dispatchers are busy.
LaunchKernel(g) ==
    /\ IsNext(g, "Launch")
    /\ \E d \in {d \in Dispatchers : d[1] = g /\ disp[d].launch = NoLaunch} :
           /\ \A e \in Dispatchers : (e[1] = g /\ e[2] < d[2]) => disp[e].launch # NoLaunch
           /\ StartDispatching(d, Head(fromDriver[g]).launch)
    /\ Retrieve(g)
    /\ UNCHANGED <<cuVars, algorithm, reserved, toDriver, acks, shootdown, flushing, control,
                   reply, copies, processing>>

FlushReq(g) ==
    /\ IsNext(g, "Flush") /\ acks[g].cache = 0
    /\ Tell(g, Cache, [type |-> "flush"])
    /\ acks' = [acks EXCEPT ![g].cache = Cardinality(Cache)]
    /\ flushing' = [flushing EXCEPT ![g] = <<Head(fromDriver[g]).id>>]
    /\ Retrieve(g)
    /\ UNCHANGED <<cuVars, dispatchVars, toDriver, shootdown, reply, copies, processing>>

\* Mutant: a copy does not wait for the caches.
CopyAtOnce(g) ==
    /\ fromDriver[g] # <<>> /\ Head(fromDriver[g]).type \in {"H2D", "D2H"}
    /\ copies' = [copies EXCEPT ![g] = Append(@, Head(fromDriver[g]))]
    /\ Retrieve(g)
    /\ UNCHANGED <<cuVars, dispatchVars, toDriver, acks, shootdown, flushing, control, reply,
                   processing>>

MemCopy(g) ==
    /\ fromDriver[g] # <<>> /\ Head(fromDriver[g]).type \in {"H2D", "D2H"}
    /\ acks[g].cache = 0
    /\ copies' = [copies EXCEPT ![g] = Append(@, Head(fromDriver[g]))]
    /\ Retrieve(g)
    /\ UNCHANGED <<cuVars, dispatchVars, toDriver, acks, shootdown, flushing, control, reply,
                   processing>>

ShootDown(g) ==
    /\ IsNext(g, "ShootDown") /\ shootdown[g] = <<>>
    /\ shootdown' = [shootdown EXCEPT ![g] = <<Head(fromDriver[g]).pages>>]
    /\ acks' = [acks EXCEPT ![g].cu = @ + NumCU[g]]
    /\ TellCUs(g, "flush")
    /\ Retrieve(g)
    /\ UNCHANGED <<waveVars, flightVars, unitVars, mode, toACE, done, ack, dispatchVars,
                   toDriver, flushing, control, reply, copies, processing>>

GPURestart(g) ==
    /\ IsNext(g, "GPURestart")
    /\ Tell(g, Cache, [type |-> "restart"])
    /\ acks' = [acks EXCEPT ![g].cache = @ + Cardinality(Cache)]
    /\ Retrieve(g)
    /\ UNCHANGED <<cuVars, dispatchVars, toDriver, shootdown, flushing, reply, copies,
                   processing>>

\* Drain and restart of the RDMA engine and the move of a page are handed on.
HandOn(g) ==
    /\ fromDriver[g] # <<>>
    /\ LET msg == Head(fromDriver[g]) IN
       /\ msg.type \in {"RDMADrain", "RDMARestart", "PageMigration"}
       /\ Tell(g, IF msg.type = "PageMigration" THEN {"pmc"} ELSE {"rdma"}, msg)
    /\ Retrieve(g)
    /\ UNCHANGED <<cuVars, dispatchVars, toDriver, acks, shootdown, flushing, reply, copies,
                   processing>>

-------------------------------------------------------------------------------
(* Responses *)

CUFlushRsp(c) ==
    LET g == c[1] IN
    /\ ack[c] # <<>> /\ Head(ack[c]) = "flushed"
    /\ IF acks[g].cu = 1
       THEN /\ Tell(g, AT, [type |-> "flush"])
            /\ acks' = [acks EXCEPT ![g].cu = 0, ![g].atFlush = Cardinality(AT)]
       ELSE acks' = [acks EXCEPT ![g].cu = @ - 1] /\ UNCHANGED control
    /\ ack' = [ack EXCEPT ![c] = Tail(@)]
    /\ UNCHANGED <<waveVars, flightVars, unitVars, mode, toACE, toCP, done, dispatchVars,
                   toDriver, fromDriver, shootdown, flushing, reply, copies, processing>>

CURestartRsp(c) ==
    LET g == c[1] IN
    /\ ack[c] # <<>> /\ Head(ack[c]) = "restarted"
    /\ acks' = [acks EXCEPT ![g].cu = @ - 1]
    /\ IF acks[g].cu = 1 THEN ToDriver(g, [type |-> "GPURestartRsp"]) ELSE UNCHANGED toDriver
    /\ ack' = [ack EXCEPT ![c] = Tail(@)]
    /\ UNCHANGED <<waveVars, flightVars, unitVars, mode, toACE, toCP, done, dispatchVars,
                   fromDriver, shootdown, flushing, control, reply, copies, processing>>

\* A response that is the first of its port.
Reply(g, i, S) == reply[g][i].from \in S /\ \A j \in 1 .. i - 1 : reply[g][j].from \notin S

\* One acknowledgement more: the last one resets its counter and starts the next round,
\* in which n acknowledgements are awaited.
CountDown(g, counter) == acks' = [acks EXCEPT ![g][counter] = @ - 1]
NextRound(g, counter, next, n) ==
    acks' = [acks EXCEPT ![g][counter] = 0, ![g][next] = @ + n]

\* Mutant: the caches do not discard what is in flight.
ATFlushThenFlush(g) ==
    /\ IF acks[g].atFlush = 1
       THEN /\ Tell(g, Cache, [type |-> "flush"])
            /\ NextRound(g, "atFlush", "cache", Cardinality(Cache))
       ELSE CountDown(g, "atFlush") /\ UNCHANGED control
    /\ UNCHANGED <<toCP, toDriver, shootdown, flushing>>

ATFlushRsp(g) ==
    /\ IF acks[g].atFlush = 1
       THEN /\ Tell(g, Cache, [type |-> "reset"])
            /\ NextRound(g, "atFlush", "cache", Cardinality(Cache))
       ELSE CountDown(g, "atFlush") /\ UNCHANGED control
    /\ UNCHANGED <<toCP, toDriver, shootdown, flushing>>

ATRestartRsp(g) ==
    /\ IF acks[g].atRestart = 1
       THEN /\ TellCUs(g, "restart")
            /\ NextRound(g, "atRestart", "cu", NumCU[g])
       ELSE CountDown(g, "atRestart") /\ UNCHANGED toCP
    /\ UNCHANGED <<control, toDriver, shootdown, flushing>>

\* processCacheFlushRsp: the end of a flush for the driver, or of the shootdown's.
CacheFlushRsp(g) ==
    /\ CASE acks[g].cache > 1 ->
              CountDown(g, "cache") /\ UNCHANGED <<control, toDriver, flushing>>
         [] acks[g].cache = 1 /\ shootdown[g] # <<>> ->
              /\ Tell(g, {"tlb"}, [type |-> "flush", pages |-> shootdown[g][1]])
              /\ NextRound(g, "cache", "tlb", 1)
              /\ flushing' = [flushing EXCEPT ![g] = <<>>]
              /\ UNCHANGED toDriver
         [] acks[g].cache = 1 /\ shootdown[g] = <<>> ->
              /\ ToDriver(g, [type |-> "GeneralRsp", id |-> flushing[g][1]])
              /\ CountDown(g, "cache")
              /\ flushing' = [flushing EXCEPT ![g] = <<>>]
              /\ UNCHANGED control
    /\ UNCHANGED <<toCP, shootdown>>

CacheRestartRsp(g) ==
    /\ IF acks[g].cache = 1
       THEN /\ Tell(g, {"tlb"}, [type |-> "restart"])
            /\ NextRound(g, "cache", "tlb", 1)
       ELSE CountDown(g, "cache") /\ UNCHANGED control
    /\ UNCHANGED <<toCP, toDriver, shootdown, flushing>>

\* The model has one TLB per GPU: its response is the last.
TLBFlushRsp(g) ==
    /\ ToDriver(g, [type |-> "ShootDownComplete"])
    /\ shootdown' = [shootdown EXCEPT ![g] = <<>>]
    /\ CountDown(g, "tlb")
    /\ UNCHANGED <<toCP, control, flushing>>

TLBRestartRsp(g) ==
    /\ Tell(g, AT, [type |-> "restart"])
    /\ NextRound(g, "tlb", "atRestart", Cardinality(AT))
    /\ UNCHANGED <<toCP, toDriver, shootdown, flushing>>

\* What the RDMA engine, the page migration controller and the DMA engine answer is
\* handed to the driver.
HandBack(g, i) ==
    /\ reply[g][i].from \in {"rdma", "pmc", "dma"}
    /\ ToDriver(g, reply[g][i].rsp)
    /\ UNCHANGED <<toCP, acks, shootdown, flushing, control>>

InternalRsp(g) ==
    /\ \E i \in DOMAIN reply[g] :
           /\ \/ Reply(g, i, AT) /\ acks[g].atFlush > 0 /\ ATFlushRsp(g)
              \/ Reply(g, i, AT) /\ acks[g].atFlush = 0 /\ ATRestartRsp(g)
              \/ Reply(g, i, Cache) /\ reply[g][i].type = "flushed" /\ CacheFlushRsp(g)
              \/ Reply(g, i, Cache) /\ reply[g][i].type = "restarted" /\ CacheRestartRsp(g)
              \/ Reply(g, i, {"tlb"}) /\ reply[g][i].type = "flushed" /\ TLBFlushRsp(g)
              \/ Reply(g, i, {"tlb"}) /\ reply[g][i].type = "restarted" /\ TLBRestartRsp(g)
              \/ HandBack(g, i)
           /\ reply' = [reply EXCEPT ![g] = RemoveAt(@, i)]
    /\ UNCHANGED <<waveVars, flightVars, unitVars, mode, toACE, done, ack, dispatchVars,
                   fromDriver, copies, processing>>

-------------------------------------------------------------------------------
(* The DMA engine *)

ParseFromCP(g) ==
    /\ copies[g] # <<>> /\ Cardinality(processing[g]) < MaxCopies
    /\ processing' = [processing EXCEPT ![g] = @ \cup
           {[req |-> Head(copies[g]), left |-> CopyAccesses]}]
    /\ copies' = [copies EXCEPT ![g] = Tail(@)]
    /\ UNCHANGED <<cuVars, dispatchVars, toDriver, fromDriver, acks, shootdown, flushing,
                   control, reply>>

\* Memory answers one of the accesses; the last one completes the copy.
ParseFromMem(g) ==
    /\ \E x \in processing[g] :
           IF x.left > 1
           THEN /\ processing' = [processing EXCEPT ![g] =
                       (@ \ {x}) \cup {[x EXCEPT !.left = @ - 1]}]
                /\ UNCHANGED reply
           ELSE /\ processing' = [processing EXCEPT ![g] = @ \ {x}]
                /\ reply' = [reply EXCEPT ![g] = Append(@,
                       [from |-> "dma", rsp |-> [type |-> "GeneralRsp", id |-> x.req.id]])]
    /\ UNCHANGED <<cuVars, dispatchVars, toDriver, fromDriver, acks, shootdown, flushing,
                   control, copies>>
===============================================================================
