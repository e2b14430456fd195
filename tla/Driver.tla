-------------------------------- MODULE Driver --------------------------------
(***************************************************************************)
(* The driver: command queues that are worked off in order, launches on    *)
(* one GPU or divided among several, copies that are preceded by a flush   *)
(* of the caches, and the migration of pages for the MMU.                  *)
(***************************************************************************)
EXTENDS CommandProcessor, PageTranslation

CONSTANTS
    Programs,   \* the programs: a sequence of commands for each queue
    NoMigration

\* What the programs may contain.
IsCommand(c) ==
    \/ c.type = "noop"
    \/ c.type = "launch" /\ c.gpu \in GPU /\ c.kernel \in DOMAIN Kernel
    \/ /\ c.type = "unified" /\ c.kernel \in DOMAIN Kernel
       /\ c.gpus \in Seq(GPU) /\ c.gpus # <<>> /\ IsInjective(c.gpus)
    \/ c.type \in {"h2d", "d2h"} /\ c.pages \in Seq(Page)

ASSUME ProgramsAssumption ==
    \A program \in Programs : \A q \in DOMAIN program :
        program[q] \in Seq(Range(program[q])) /\ \A c \in Range(program[q]) : IsCommand(c)

VARIABLES
    queues,     \* the commands of each queue, with what the first one waits for
    l2Dirty,    \* the buffers that a kernel may have written, one of each page
    awaiting,   \* awaitingReqs: copies whose delay is not over
    toSend,     \* requestsToSend
    wire,       \* requests that have left the driver's port
    moves,      \* migrationReqToSendToCP
    driver,     \* the migration that is handled and its counters
    nextID

driverVars == <<queues, l2Dirty, awaiting, toSend, wire, moves, driver, nextID>>
gpuVars == <<cuVars, dispatchVars, toDriver, cpVars>>

NotMigratingNow ==
    [req |-> NoMigration, drain |-> 0, shootdown |-> 0, pages |-> 0, oneMoving |-> FALSE,
     restart |-> 0, rdmaRestart |-> 0]

DriverInit ==
    /\ \E program \in Programs :
           queues = [q \in DOMAIN program |->
                        [cmds |-> program[q], running |-> FALSE, reqs |-> {}]]
    /\ l2Dirty = {} /\ awaiting = <<>> /\ toSend = <<>> /\ wire = <<>> /\ moves = <<>>
    /\ driver = NotMigratingNow
    /\ nextID = 1

\* The same request for each GPU of S, in the order of their numbers.
Order(msg, S) ==
    [i \in 1 .. Cardinality(S \cap GPU) |->
        [msg EXCEPT !.gpu = CHOOSE g \in S : Cardinality({h \in S \cap GPU : h <= g}) = i]]

-------------------------------------------------------------------------------
(* Commands *)

Start(q, reqs, more) ==
    /\ queues' = [queues EXCEPT ![q].running = TRUE, ![q].reqs = reqs]
    /\ toSend' = toSend \o more
    /\ nextID' = nextID + Cardinality(reqs)

Current(q) == Head(queues[q].cmds)
CanStart(q, type) ==
    queues[q].cmds # <<>> /\ ~ queues[q].running /\ Current(q).type = type

Noop(q) ==
    /\ CanStart(q, "noop")
    /\ queues' = [queues EXCEPT ![q].cmds = Tail(@)]
    /\ UNCHANGED <<l2Dirty, awaiting, toSend, wire, moves, driver, nextID>>

\* A launch is [id, kernel, from, to] for the GPU.  All buffers count as dirty from then on.
LaunchMsg(g, id, k, from, to) ==
    [type |-> "Launch", gpu |-> g,
     launch |-> [id |-> id, kernel |-> k, from |-> from, to |-> to]]

LaunchKernelCommand(q) ==
    /\ CanStart(q, "launch")
    /\ LET c == Current(q) IN
       Start(q, {nextID}, <<LaunchMsg(c.gpu, nextID, c.kernel, 1, Kernel[c.kernel].wgs)>>)
    /\ l2Dirty' = Page
    /\ UNCHANGED <<awaiting, wire, moves, driver>>

\* distributeWGToGPUs: every GPU but the last ones gets cuCount * wgPerCU work-groups.
CUCount(gpus, n) == Cardinality({c \in CU : \E i \in 1 .. n : gpus[i] = c[1]})
LastWG(i, gpus, total) ==
    LET wgPerCU == (total - 1) \div CUCount(gpus, Len(gpus)) + 1 IN
    Min({CUCount(gpus, i) * wgPerCU, total})

\* The GPUs that get work-groups are the first ones.
UnifiedLaunch(q) ==
    /\ CanStart(q, "unified")
    /\ LET c == Current(q)
           n == Len(c.gpus)
           Last_(i) == LastWG(i, c.gpus, Kernel[c.kernel].wgs)
           some == Cardinality({i \in 1 .. n : Last_(i) > Last_(i - 1)}) IN
       Start(q, nextID .. nextID + some - 1,
             [i \in 1 .. some |-> LaunchMsg(c.gpus[i], nextID + i - 1, c.kernel,
                                            Last_(i - 1) + 1, Last_(i))])
    /\ l2Dirty' = Page
    /\ UNCHANGED <<awaiting, wire, moves, driver>>

\* A copy of some pages, preceded by a flush of all GPUs if a kernel may have written one.
\* The flushes are sent at once, the copies after a delay that all copies share.
MemCopyCommand(q) ==
    /\ CanStart(q, "h2d") \/ CanStart(q, "d2h")
    /\ LET c == Current(q)
           type == IF c.type = "h2d" THEN "H2D" ELSE "D2H"
           flush == Range(c.pages) \cap l2Dirty # {}
           first == nextID + IF flush THEN NumGPU ELSE 0
           reqs == [i \in DOMAIN c.pages |->
                       [type |-> type, gpu |-> DeviceOf(table[c.pages[i]].frame),
                        id |-> first + i - 1, frame |-> table[c.pages[i]].frame]] IN
       /\ Start(q, nextID .. first + Len(reqs) - 1,
                IF flush THEN [g \in GPU |-> [type |-> "Flush", gpu |-> g,
                                              id |-> nextID + g - 1]]
                ELSE <<>>)
       /\ awaiting' = awaiting \o reqs
    /\ UNCHANGED <<l2Dirty, wire, moves, driver>>

CopyDelayOver ==
    /\ awaiting # <<>>
    /\ toSend' = toSend \o awaiting
    /\ awaiting' = <<>>
    /\ UNCHANGED <<queues, l2Dirty, wire, moves, driver, nextID>>

StartCommand ==
    /\ \E q \in DOMAIN queues :
           Noop(q) \/ LaunchKernelCommand(q) \/ UnifiedLaunch(q) \/ MemCopyCommand(q)
    /\ UNCHANGED <<gpuVars, translationVars>>

\* processLaunchKernelReturn, processFlushReturn, ...: the command is complete when all
\* its requests have returned.
CommandReturn(id) ==
    \E q \in DOMAIN queues :
        LET x == queues[q] IN
        /\ id \in x.reqs
        /\ queues' = [queues EXCEPT ![q] =
               IF x.reqs = {id} THEN [cmds |-> Tail(x.cmds), running |-> FALSE, reqs |-> {}]
                                ELSE [x EXCEPT !.reqs = @ \ {id}]]

-------------------------------------------------------------------------------
(* Sending.  Moves of pages go past requestsToSend. *)

SendToGPUs ==
    /\ toSend # <<>> /\ Len(wire) < PortCap
    /\ wire' = Append(wire, Head(toSend))
    /\ toSend' = Tail(toSend)
    /\ UNCHANGED <<queues, l2Dirty, awaiting, moves, driver, nextID>>

SendMigrationReqToCP ==
    /\ moves # <<>> /\ ~ driver.oneMoving /\ Len(wire) < PortCap
    /\ wire' = Append(wire, Head(moves))
    /\ moves' = Tail(moves)
    /\ driver' = [driver EXCEPT !.oneMoving = TRUE]
    /\ UNCHANGED <<queues, l2Dirty, awaiting, toSend, nextID>>

Send ==
    /\ SendToGPUs \/ SendMigrationReqToCP \/ CopyDelayOver
    /\ UNCHANGED <<gpuVars, translationVars>>

\* The connection: a request waits until the command processor has taken the last one.
Deliver ==
    /\ wire # <<>>
    /\ LET g == Head(wire).gpu IN
       /\ fromDriver[g] = <<>>
       /\ fromDriver' = [fromDriver EXCEPT ![g] = <<Head(wire)>>]
    /\ wire' = Tail(wire)
    /\ UNCHANGED <<queues, l2Dirty, awaiting, toSend, moves, driver, nextID, translationVars,
                   cuVars, dispatchVars, toDriver, acks, shootdown, flushing, control, reply,
                   copies, processing>>

-------------------------------------------------------------------------------
(* Page migration *)

ParseFromMMU ==
    /\ driver.req = NoMigration /\ mmuReq # <<>>
    /\ driver' = [driver EXCEPT !.req = Head(mmuReq), !.drain = @ + NumGPU]
    /\ mmuReq' = Tail(mmuReq)
    /\ toSend' = toSend \o Order([gpu |-> 0, type |-> "RDMADrain"], GPU)
    /\ UNCHANGED <<queues, l2Dirty, awaiting, wire, moves, nextID, gpuVars, table, tlbVars,
                   mmuVars, mmuRsp>>

RDMADrainRsp ==
    /\ IF driver.drain = 1
       THEN /\ driver' = [driver EXCEPT !.drain = 0,
                                        !.shootdown = Cardinality(driver.req.accessing)]
            /\ toSend' = toSend \o
                   Order([gpu |-> 0, type |-> "ShootDown", pages |-> {driver.req.page}],
                         driver.req.accessing)
       ELSE driver' = [driver EXCEPT !.drain = @ - 1] /\ UNCHANGED toSend
    /\ UNCHANGED <<queues, moves, table, mmuRsp>>

\* preparePageForMigration takes a new frame on the GPU that asks for the page.
ShootDownComplete ==
    LET r == driver.req
        old == table[r.page].frame
        new == <<r.to, r.page, old[3] + 1>> IN
    /\ IF driver.shootdown = 1
       THEN /\ table' = [table EXCEPT ![r.page] =
                   [frame |-> new, migrating |-> TRUE, pinned |-> FALSE]]
            /\ moves' = Append(moves, [type |-> "PageMigration", gpu |-> r.to, host |-> r.host,
                                       readFrom |-> old, writeTo |-> new])
            /\ driver' = [driver EXCEPT !.shootdown = 0, !.pages = @ + 1]
       ELSE driver' = [driver EXCEPT !.shootdown = @ - 1] /\ UNCHANGED <<table, moves>>
    /\ UNCHANGED <<queues, toSend, mmuRsp>>

PageMigrationRsp ==
    /\ driver' = [driver EXCEPT !.pages = 0, !.oneMoving = FALSE,
                                !.restart = Cardinality(driver.req.accessing)]
    /\ toSend' = toSend \o Order([gpu |-> 0, type |-> "GPURestart"], driver.req.accessing)
    /\ mmuRsp' = Append(mmuRsp, driver.req.page)
    /\ UNCHANGED <<queues, moves, table>>

GPURestartRsp ==
    /\ driver' = [driver EXCEPT !.restart = @ - 1,
                                !.rdmaRestart = IF driver.restart = 1 THEN NumGPU ELSE @]
    /\ toSend' = IF driver.restart = 1
                 THEN toSend \o Order([gpu |-> 0, type |-> "RDMARestart"], GPU) ELSE toSend
    /\ UNCHANGED <<queues, moves, table, mmuRsp>>

RDMARestartRsp ==
    /\ driver' = IF driver.rdmaRestart = 1 THEN NotMigratingNow
                 ELSE [driver EXCEPT !.rdmaRestart = @ - 1]
    /\ UNCHANGED <<queues, moves, toSend, table, mmuRsp>>

\* processReturnReq, with the copies' middleware.
ReturnReq(g) ==
    /\ toDriver[g] # <<>>
    /\ LET rsp == Head(toDriver[g]) IN
       \/ /\ rsp.type \in {"LaunchKernelRsp", "GeneralRsp"}
          /\ CommandReturn(rsp.id) /\ UNCHANGED <<driver, moves, toSend, table, mmuRsp>>
       \/ rsp.type = "RDMADrainRsp" /\ RDMADrainRsp
       \/ rsp.type = "ShootDownComplete" /\ ShootDownComplete
       \/ rsp.type = "PageMigrationRsp" /\ PageMigrationRsp
       \/ rsp.type = "GPURestartRsp" /\ GPURestartRsp
       \/ rsp.type = "RDMARestartRsp" /\ RDMARestartRsp
    /\ toDriver' = [toDriver EXCEPT ![g] = Tail(@)]
    /\ UNCHANGED <<l2Dirty, awaiting, wire, nextID, cuVars, dispatchVars, cpVars, tlbVars,
                   mmuVars, mmuReq>>
===============================================================================
