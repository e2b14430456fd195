------------------------------ MODULE GpuSystem ------------------------------
(***************************************************************************)
(* Several GPUs with their driver and the MMU.  The memory side of a GPU   *)
(* (address translators, L1 and L2 caches, RDMA engine, page migration     *)
(* controller) is reduced to what the control path relies on: which frame  *)
(* an access goes to, which frames have dirty lines in L2 and which have   *)
(* lost some, which parts are paused, and writes that are still on their   *)
(* way when the compute unit that sent them has been flushed.              *)
(***************************************************************************)
EXTENDS Driver, PageMigrationController

ASSUME SystemAssumption == Device = GPU /\ Holder = GPU

VARIABLES
    paused,     \* of "at", "l1", "l2"
    rdma,       \* running, draining, paused
    dirty,      \* frames of which the L2 caches of a GPU may have dirty lines, in their
                \* blocks or, as victims, on their way to memory
    lost,       \* (history) frames of which a reset has discarded such victims
    orphans     \* frames of writes under way that no compute unit waits for

memoryVars == <<paused, rdma, dirty, lost, orphans, pmcVars>>
vars == <<driverVars, gpuVars, translationVars, memoryVars>>

Init ==
    /\ ComputeUnitInit /\ DispatcherInit /\ CommandProcessorInit
    /\ TranslationInit /\ DriverInit /\ PMCInit
    /\ paused = [g \in GPU |-> {}] /\ rdma = [g \in GPU |-> "running"]
    /\ dirty = [g \in GPU |-> {}] /\ lost = [g \in GPU |-> {}] /\ orphans = [g \in GPU |-> {}]

-------------------------------------------------------------------------------
(* Memory accesses *)

Remote(g, frame) == DeviceOf(frame) # g

Miss(g) ==
    /\ "at" \notin paused[g]
    /\ \E c \in CUsOf(g) : \E i \in DOMAIN vectors[c] :
           vectors[c][i].frame = <<>> /\ TLBMiss(g, vectors[c][i].page)
    /\ UNCHANGED <<driverVars, gpuVars, memoryVars>>

\* A remote access enters the RDMA engine, unless that is draining or paused.
Translate(c) ==
    LET g == c[1] IN
    /\ "at" \notin paused[g] /\ ~ tlbPaused[g]
    /\ \E i \in DOMAIN vectors[c] :
           LET a == vectors[c][i] IN
           /\ a.frame = <<>> /\ a.page \in DOMAIN tlb[g]
           /\ Remote(g, tlb[g][a.page]) => rdma[g] = "running"
           /\ vectors' = [vectors EXCEPT ![c][i].frame = tlb[g][a.page]]
    /\ UNCHANGED <<driverVars, dispatchVars, toDriver, cpVars, translationVars, memoryVars,
                   waveVars, fetches, scalars, shadow, unitVars, mode, cuPortVars>>

Wrote(S) == dirty' = [g \in GPU |-> dirty[g] \cup {f \in S : DeviceOf(f) = g}]

Return(c) ==
    /\ vectors[c] # <<>>
    /\ LET a == Head(vectors[c]) IN
       /\ a.frame # <<>>
       /\ "l1" \notin paused[c[1]] /\ "l2" \notin paused[DeviceOf(a.frame)]
       /\ VectorReturn(c)
       /\ Wrote(IF a.write THEN {a.frame} ELSE {})
    /\ UNCHANGED <<driverVars, dispatchVars, toDriver, cpVars, translationVars, paused, rdma,
                   lost, orphans, pmcVars>>

FlushCU(c) ==
    /\ Flush(c)
    /\ orphans' = [orphans EXCEPT ![c[1]] = @ \cup
           {a.frame : a \in {b \in Range(vectors[c]) : b.write /\ b.frame # <<>>}}]
    /\ UNCHANGED <<driverVars, dispatchVars, toDriver, cpVars, translationVars, paused, rdma,
                   dirty, lost, pmcVars>>

OrphanWrite(g) ==
    /\ \E f \in orphans[g] :
           /\ "l2" \notin paused[DeviceOf(f)]
           /\ Wrote({f})
           /\ orphans' = [orphans EXCEPT ![g] = @ \ {f}]
    /\ UNCHANGED <<driverVars, gpuVars, translationVars, paused, rdma, lost, pmcVars>>

-------------------------------------------------------------------------------
(* The components that a command processor controls *)

Answer(g, k, rsp) ==
    /\ control' = [control EXCEPT ![g][k] = Tail(@)]
    /\ reply' = [reply EXCEPT ![g] = Append(@, rsp)]
    /\ UNCHANGED <<driverVars, cuVars, dispatchVars, toDriver, fromDriver, acks, shootdown,
                   flushing, copies, processing>>

Asked(g, k, type) == control[g][k] # <<>> /\ Head(control[g][k]).type = type
PausePart(g, k) == paused' = [paused EXCEPT ![g] = @ \cup {k}]
RestartPart(g, k) == paused' = [paused EXCEPT ![g] = @ \ {k}]

AddressTranslator(g) ==
    /\ \/ Asked(g, "at", "flush") /\ PausePart(g, "at")
       \/ Asked(g, "at", "restart") /\ RestartPart(g, "at")
    /\ Answer(g, "at", [from |-> "at"])
    /\ UNCHANGED <<translationVars, rdma, dirty, lost, orphans, pmcVars>>

\* All that is dirty, except the victims in Discarded, reaches memory.
WriteBack(g, k, Discarded) ==
    IF k = "l2" THEN /\ dirty' = [dirty EXCEPT ![g] = {}]
                     /\ lost' = [lost EXCEPT ![g] = @ \cup Discarded]
                ELSE UNCHANGED <<dirty, lost>>

\* A flush waits for the transactions under way, and for the victims, and writes the dirty
\* blocks back.  A reset first discards what is under way: requests, and the victims that
\* a bank or the buffer of the write buffer has; it writes back the dirty blocks that are left
\* and pauses.
CacheStep(g, k) ==
    /\ \/ /\ Asked(g, k, "flush")
          /\ WriteBack(g, k, {})
          /\ Answer(g, k, [from |-> k, type |-> "flushed"])
          /\ UNCHANGED <<paused, orphans>>
       \/ /\ Asked(g, k, "reset")
          /\ \E Discarded \in IF k = "l2" THEN SUBSET dirty[g] ELSE {{}} : WriteBack(g, k, Discarded)
          /\ PausePart(g, k)
          /\ orphans' = IF Cache \subseteq paused'[g] THEN [orphans EXCEPT ![g] = {}]
                                                     ELSE orphans
          /\ Answer(g, k, [from |-> k, type |-> "flushed"])
       \/ /\ Asked(g, k, "restart")
          /\ RestartPart(g, k)
          /\ Answer(g, k, [from |-> k, type |-> "restarted"])
          /\ UNCHANGED <<dirty, lost, orphans>>
    /\ UNCHANGED <<translationVars, rdma, pmcVars>>

TLBStep(g) ==
    /\ \/ /\ Asked(g, "tlb", "flush")
          /\ TLBFlush(g, Head(control[g]["tlb"]).pages)
          /\ Answer(g, "tlb", [from |-> "tlb", type |-> "flushed"])
       \/ /\ Asked(g, "tlb", "restart")
          /\ TLBRestart(g)
          /\ Answer(g, "tlb", [from |-> "tlb", type |-> "restarted"])
    /\ UNCHANGED <<table, mmuVars, mmuReq, mmuRsp, memoryVars>>

\* The RDMA engine answers a drain when nothing of this GPU is on its way to another one.
RDMAStep(g) ==
    /\ \/ /\ Asked(g, "rdma", "RDMADrain")
          /\ IF \E c \in CUsOf(g) : \E a \in Range(vectors[c]) :
                    a.frame # <<>> /\ Remote(g, a.frame)
             THEN /\ rdma[g] = "running"
                  /\ rdma' = [rdma EXCEPT ![g] = "draining"]
                  /\ UNCHANGED gpuVars /\ UNCHANGED driverVars
             ELSE /\ rdma' = [rdma EXCEPT ![g] = "paused"]
                  /\ Answer(g, "rdma", [from |-> "rdma", rsp |-> [type |-> "RDMADrainRsp"]])
       \/ /\ Asked(g, "rdma", "RDMARestart")
          /\ rdma' = [rdma EXCEPT ![g] = "running"]
          /\ Answer(g, "rdma", [from |-> "rdma", rsp |-> [type |-> "RDMARestartRsp"]])
    /\ UNCHANGED <<translationVars, paused, dirty, lost, orphans, pmcVars>>

\* The page migration controllers, which have memory to themselves.
PMCStep(g) ==
    /\ \/ Asked(g, "pmc", "PageMigration") /\ PullPage(g, Head(control[g]["pmc"]))
          /\ UNCHANGED <<driverVars, gpuVars>>
       \/ MoveDone(g) /\ Answer(g, "pmc", [from |-> "pmc", rsp |-> [type |-> "PageMigrationRsp"]])
       \/ /\ DataPullReq(g) \/ DataReady(g) \/ DataPullRsp(g) \/ WriteDone(g)
          /\ UNCHANGED <<driverVars, gpuVars>>
    /\ UNCHANGED <<translationVars, paused, rdma, dirty, lost, orphans>>

-------------------------------------------------------------------------------
CUStep(c) ==
    /\ \/ \E w \in On(c) : Fetch(w) \/ Issue(w) \/ Eval(w) \/ \E u \in Unit : Retire(c, u, w)
       \/ FetchReturn(c) \/ ScalarReturn(c) \/ MapWG(c) \/ Resume(c) \/ Resend(c) \/ Unpause(c)
    /\ UNCHANGED <<driverVars, dispatchVars, toDriver, cpVars, translationVars, memoryVars>>

CUs == \E c \in CU : CUStep(c) \/ FlushCU(c) \/ Translate(c) \/ Return(c)

DispatchStep ==
    /\ \E d \in Dispatchers :
           \/ DispatchNextWG(d) \/ CompleteKernel(d)
           \/ \E c \in CUsOf(d[1]) : WGCompletion(d, c)
    /\ UNCHANGED <<driverVars, cpVars, translationVars, memoryVars>>

CPStep ==
    /\ \/ \E g \in GPU :
              \/ LaunchKernel(g) \/ FlushReq(g) \/ MemCopy(g) \/ ShootDown(g)
              \/ GPURestart(g) \/ HandOn(g) \/ InternalRsp(g)
              \/ ParseFromCP(g) \/ ParseFromMem(g)
       \/ \E c \in CU : CUFlushRsp(c) \/ CURestartRsp(c)
    /\ UNCHANGED <<driverVars, translationVars, memoryVars>>

DriverStep ==
    /\ StartCommand \/ Send \/ Deliver \/ ParseFromMMU \/ \E g \in GPU : ReturnReq(g)
    /\ UNCHANGED memoryVars

MemoryStep ==
    \E g \in GPU :
        \/ Miss(g) \/ OrphanWrite(g) \/ AddressTranslator(g) \/ TLBStep(g) \/ RDMAStep(g)
        \/ PMCStep(g) \/ \E k \in Cache : CacheStep(g, k)

MMUStep ==
    /\ \/ \E g \in GPU : TLBFill(g)
       \/ \E i \in DOMAIN walking : Walk(i)
       \/ AnswerQueued \/ RequestMigration \/ MigrationReturn
    /\ UNCHANGED <<driverVars, gpuVars, memoryVars>>

\* The program has ended.
Finished ==
    /\ \A q \in DOMAIN queues : queues[q].cmds = <<>>
    /\ UNCHANGED vars

Next == CUs \/ DispatchStep \/ CPStep \/ DriverStep \/ MemoryStep \/ MMUStep \/ Finished

Spec == Init /\ [][Next]_vars

-------------------------------------------------------------------------------
\* The DMA engine goes past the caches: while it reads or writes a frame, no L2 cache has
\* data for the frame that memory does not have.
CopySeesFlushed ==
    \A g \in GPU : \A x \in processing[g] : x.req.frame \notin dirty[g]

\* A page is copied whole, from the GPU that has it, and not while anything that was written
\* to it is in an L2 cache or on its way there, or may still come: no cache has dirty data
\* of the page, and no access to the old place is under way or begins, until the copy has
\* been made.  What the L2 cache had discarded before, when it was reset with victims under
\* way (lost), is missing from the copy as it is from the old place.
PagesMoveWhole ==
    /\ ArrivesWhole
    /\ \A g \in GPU : Asked(g, "pmc", "PageMigration") =>
           LET m == Head(control[g]["pmc"])
               f == m.readFrom IN
           /\ DeviceOf(f) = m.host
           /\ \A h \in GPU : f \notin dirty[h] \cup orphans[h]
           /\ \A c \in CU : \A a \in Range(vectors[c]) : a.frame # f
===============================================================================
