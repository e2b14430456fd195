------------------------------ MODULE ComputeUnit ------------------------------
(***************************************************************************)
(* The compute units of all GPUs: wavefronts that fetch, decode and issue  *)
(* the instructions of a kernel, the execution units, memory accesses in   *)
(* flight, barriers, and the flush and resume of the pipeline.  A kernel   *)
(* is a sequence of instructions, LineInsts to a cache line.  The caches   *)
(* are external: they answer the accesses of one kind in order, and the    *)
(* answers to what was sent before a flush are not taken (that they are    *)
(* discarded is the subject of VectorMemoryPath).                          *)
(***************************************************************************)
EXTENDS Naturals, Sequences, SequencesExt, FiniteSets, FiniteSetsExt, Functions

CONSTANTS
    NumGPU,
    NumCU,              \* the number of compute units of each GPU
    NumSIMD,
    Kernel,             \* name -> [code, wgs, waves, sgpr, vgpr, lds]
    LineInsts,
    InstBufLines,       \* cache lines in a wavefront's instruction buffer
    BarrierBufferSize,
    InFlightLimit,      \* InFlightVectorMemAccessLimit
    PortCap             \* of the CU's ports

ASSUME ComputeUnitAssumption ==
    /\ {NumGPU, NumSIMD, LineInsts, InstBufLines, BarrierBufferSize,
        InFlightLimit, PortCap} \subseteq Nat \ {0}
    /\ NumCU \in [1 .. NumGPU -> Nat \ {0}]

\* The last instruction of a program ends it, and branches stay in the program.  A kernel
\* has work-groups, and these have wavefronts.
ASSUME KernelAssumption ==
    \A k \in DOMAIN Kernel : LET code == Kernel[k].code IN
        /\ {Kernel[k].wgs, Kernel[k].waves} \subseteq Nat \ {0}
        /\ {Kernel[k].sgpr, Kernel[k].vgpr, Kernel[k].lds} \subseteq Nat
        /\ code \in Seq(Range(code)) /\ code # <<>> /\ Last(code).op = "end"
        /\ \A i \in DOMAIN code : code[i].to \in DOMAIN code

GPU  == 1 .. NumGPU
CU   == UNION {{g} \X (1 .. NumCU[g]) : g \in GPU}
SIMD == 1 .. NumSIMD

\* How many wavefronts a unit holds in its stages, with its decoder.
Unit == {"branch", "scalar", "valu", "lds", "vmem"}
Depth == [branch |-> 3, scalar |-> 4, lds |-> 4, valu |-> NumSIMD + 1, vmem |-> 2]
UnitOf(op) == IF op = "smem" THEN "scalar" ELSE op

VARIABLES
    wave,           \* the wavefronts in the pools
    fetches, scalars, vectors,  \* InFlightInstFetch, InFlightScalarMemAccess, ...
    shadow,         \* the three lists of what a flush has interrupted
    pipe,           \* the wavefronts in each unit, in order
    barrierBuffer,
    executing,      \* internalExecuting
    mode,           \* running, paused, or resending the shadow lists
    toACE,          \* MapWGReqs that a CU has not handled
    toCP,           \* flush and restart requests that a CU has not handled
    done,           \* WGCompletionMsgs under way
    ack             \* flush and restart responses under way

waveVars == <<wave>>
flightVars == <<fetches, scalars, vectors, shadow>>
unitVars == <<pipe, barrierBuffer, executing>>
cuPortVars == <<toACE, toCP, done, ack>>
cuVars == <<waveVars, flightVars, unitVars, mode, cuPortVars>>

ComputeUnitInit ==
    /\ wave = <<>>
    /\ fetches = [c \in CU |-> <<>>] /\ scalars = [c \in CU |-> <<>>]
    /\ vectors = [c \in CU |-> <<>>]
    /\ shadow = [c \in CU |-> [fetches |-> <<>>, scalars |-> <<>>, vectors |-> <<>>]]
    /\ pipe = [c \in CU |-> [u \in Unit |-> <<>>]]
    /\ barrierBuffer = [c \in CU |-> {}] /\ executing = [c \in CU |-> {}]
    /\ mode = [c \in CU |-> "running"]
    /\ toACE = [c \in CU |-> <<>>] /\ toCP = [c \in CU |-> <<>>]
    /\ done = [c \in CU |-> <<>>] /\ ack = [c \in CU |-> <<>>]

\* A wavefront is <<launch, work-group, number>>, and a launch names its kernel.
Code(w) == Kernel[w[1].kernel].code
WGOf(w) == <<w[1], w[2]>>
Waves(wg) == {<<wg[1], wg[2], i>> : i \in 1 .. Kernel[wg[1].kernel].waves}
Others(w) == Waves(WGOf(w)) \ {w}
On(c) == {w \in DOMAIN wave : wave[w].cu = c}
Line(pc) == (pc - 1) \div LineInsts

-------------------------------------------------------------------------------
(* Fetch, decode and issue *)

\* An empty buffer starts at the line of the program counter.
BufferStart(x) == IF x.buf = <<>> THEN Line(x.pc) ELSE x.from

CanFetch(w) ==
    LET x == wave[w] IN
    /\ ~ x.fetching /\ x.state # "Completed" /\ Len(x.buf) < InstBufLines
    /\ BufferStart(x) + Len(x.buf) <= Line(Len(Code(w)))

Fetch(w) ==
    LET x == wave[w] IN
    /\ mode[x.cu] = "running" /\ CanFetch(w)
    /\ fetches' = [fetches EXCEPT ![x.cu] =
           Append(@, [wave |-> w, line |-> BufferStart(x) + Len(x.buf)])]
    /\ wave' = [wave EXCEPT ![w].fetching = TRUE, ![w].from = BufferStart(x)]
    /\ UNCHANGED <<scalars, vectors, shadow, unitVars, mode, cuPortVars>>

\* Mutant: whatever line arrives is appended.
AppendAnyLine(c) ==
    /\ mode[c] # "paused" /\ fetches[c] # <<>>
    /\ LET f == Head(fetches[c]) IN
       wave' = IF f.wave \notin DOMAIN wave THEN wave
               ELSE [wave EXCEPT ![f.wave].buf = Append(@, f.line), ![f.wave].fetching = FALSE]
    /\ fetches' = [fetches EXCEPT ![c] = Tail(@)]
    /\ UNCHANGED <<scalars, vectors, shadow, unitVars, mode, cuPortVars>>

\* The line is appended only if the buffer still ends where it was asked for.
FetchReturn(c) ==
    /\ mode[c] # "paused" /\ fetches[c] # <<>>
    /\ LET f == Head(fetches[c]) IN
       wave' = IF f.wave \notin DOMAIN wave THEN wave
               ELSE [wave EXCEPT
                   ![f.wave].buf = IF f.line = wave[f.wave].from + Len(@) THEN Append(@, f.line)
                                                                           ELSE @,
                   ![f.wave].fetching = FALSE]
    /\ fetches' = [fetches EXCEPT ![c] = Tail(@)]
    /\ UNCHANGED <<scalars, vectors, shadow, unitVars, mode, cuPortVars>>

\* What is decoded is what the buffer holds at the program counter.
Decoded(x) == x.buf[Line(x.pc) - BufferStart(x) + 1] * LineInsts + ((x.pc - 1) % LineInsts) + 1

Issue(w) ==
    LET x == wave[w]
        i == Decoded(x)
        op == Code(w)[i].op IN
    /\ mode[x.cu] = "running" /\ x.state = "Ready"
    /\ Line(x.pc) < BufferStart(x) + Len(x.buf)
    /\ IF UnitOf(op) \in Unit
       THEN /\ Len(pipe[x.cu][UnitOf(op)]) < Depth[UnitOf(op)]
            /\ pipe' = [pipe EXCEPT ![x.cu][UnitOf(op)] = Append(@, w)]
            /\ UNCHANGED executing
       ELSE /\ executing' = [executing EXCEPT ![x.cu] = @ \cup {w}]
            /\ UNCHANGED pipe
    /\ wave' = [wave EXCEPT ![w].state = "Running", ![w].inst = i]
    /\ UNCHANGED <<flightVars, barrierBuffer, mode, cuPortVars>>

\* UpdatePCAndSetReady and removeStaleInstBuffer.
Advanced(x) ==
    LET stale == Min({Line(x.pc + 1) - x.from, Len(x.buf)}) IN
    [x EXCEPT !.pc = @ + 1, !.state = "Ready",
              !.buf = IF @ = <<>> THEN @ ELSE SubSeq(@, stale + 1, Len(@)),
              !.from = IF x.buf = <<>> THEN @ ELSE @ + stale]

-------------------------------------------------------------------------------
(* The execution units.  A unit changes state in its last stage only. *)

\* The transactions of an access; all but the last have CanWaitForCoalesce.  What the
\* memory side adds to one that it translates is the frame.
Transactions(w, inst) ==
    [i \in 1 .. inst.n |-> [wave |-> w, inst |-> wave[w].inst, last |-> i = inst.n,
                            page |-> inst.page, write |-> inst.write, frame |-> <<>>]]

\* In the vector ALU the SIMD units are side by side.
Retiring(c, u) ==
    {w \in Range(pipe[c][u]) :
        IF u # "valu" THEN w = Head(pipe[c][u])
        ELSE w = SelectSeq(pipe[c][u], LAMBDA v : wave[v].simd = wave[w].simd)[1]}

Retire(c, u, w) ==
    LET x == wave[w]
        inst == Code(w)[x.inst] IN
    /\ mode[c] = "running" /\ w \in Retiring(c, u)
    /\ CASE inst.op = "branch" ->
              /\ \E pc \in {x.pc + 1, inst.to} :
                     wave' = [wave EXCEPT ![w].pc = pc, ![w].state = "Ready",
                                          ![w].buf = <<>>, ![w].from = Line(pc)]
              /\ UNCHANGED flightVars
         [] inst.op = "smem" ->
              /\ scalars' = [scalars EXCEPT ![c] = @ \o Transactions(w, inst)]
              /\ wave' = [wave EXCEPT ![w] = [Advanced(x) EXCEPT !.smem = @ + 1]]
              /\ UNCHANGED <<fetches, vectors, shadow>>
         [] inst.op = "vmem" /\ inst.n > 0 ->
              /\ Len(vectors[c]) + inst.n <= InFlightLimit
              /\ vectors' = [vectors EXCEPT ![c] = @ \o Transactions(w, inst)]
              /\ wave' = [wave EXCEPT ![w] =
                     [Advanced(x) EXCEPT !.smem = @ + 1, !.vmem = @ + 1]]
              /\ UNCHANGED <<fetches, scalars, shadow>>
         [] OTHER -> wave' = [wave EXCEPT ![w] = Advanced(x)] /\ UNCHANGED flightVars
    /\ pipe' = [pipe EXCEPT ![c][u] = RemoveFirst(@, w)]
    /\ UNCHANGED <<barrierBuffer, executing, mode, cuPortVars>>

ScalarReturn(c) ==
    /\ mode[c] # "paused" /\ scalars[c] # <<>>
    /\ LET a == Head(scalars[c]) IN
       wave' = IF a.last THEN [wave EXCEPT ![a.wave].smem = @ - 1] ELSE wave
    /\ scalars' = [scalars EXCEPT ![c] = Tail(@)]
    /\ UNCHANGED <<fetches, vectors, shadow, unitVars, mode, cuPortVars>>

\* Vector accesses are FLAT instructions and count as both.
VectorReturn(c) ==
    /\ mode[c] # "paused" /\ vectors[c] # <<>>
    /\ LET a == Head(vectors[c]) IN
       wave' = IF a.last THEN [wave EXCEPT ![a.wave].smem = @ - 1, ![a.wave].vmem = @ - 1]
               ELSE wave
    /\ vectors' = [vectors EXCEPT ![c] = Tail(@)]
    /\ UNCHANGED <<fetches, scalars, shadow, unitVars, mode, cuPortVars>>

-------------------------------------------------------------------------------
(* The instructions that the scheduler executes itself *)

\* Mutant: only the wavefronts in the buffer go on, not the one that comes last.
PassBuffered(wg) ==
    /\ barrierBuffer' = [c \in CU |-> barrierBuffer[c] \ Waves(wg)]
    /\ wave' = [w \in DOMAIN wave |->
           IF w \in Waves(wg) \cap barrierBuffer[wave[w].cu] THEN Advanced(wave[w])
                                                            ELSE wave[w]]

\* All wavefronts of the work-group that have not ended go on behind the barrier.
PassBarrier(wg) ==
    /\ barrierBuffer' = [c \in CU |-> barrierBuffer[c] \ Waves(wg)]
    /\ wave' = [w \in DOMAIN wave |->
           IF w \in Waves(wg) /\ wave[w].state # "Completed" THEN Advanced(wave[w]) ELSE wave[w]]

EvalSEndPgm(w) ==
    LET x == wave[w]
        c == x.cu IN
    /\ x.smem = 0 /\ x.vmem = 0
    /\ executing' = [executing EXCEPT ![c] = @ \ {w}]
    /\ CASE \A v \in Others(w) : wave[v].state = "Completed" ->
              /\ Len(done[c]) < PortCap
              /\ done' = [done EXCEPT ![c] = Append(@, WGOf(w))]
              /\ wave' = Restrict(wave, DOMAIN wave \ Waves(WGOf(w)))
              /\ UNCHANGED barrierBuffer
         [] (\A v \in Others(w) : wave[v].state \in {"AtBarrier", "Completed"})
            /\ ~ \A v \in Others(w) : wave[v].state = "Completed" ->
              /\ barrierBuffer' = [barrierBuffer EXCEPT ![c] = @ \ Waves(WGOf(w))]
              /\ wave' = [v \in DOMAIN wave |->
                     IF v = w THEN [x EXCEPT !.state = "Completed"]
                     ELSE IF v \in Others(w) /\ wave[v].state # "Completed"
                     THEN Advanced(wave[v]) ELSE wave[v]]
              /\ UNCHANGED done
         [] OTHER ->
              /\ wave' = [wave EXCEPT ![w].state = "Completed"]
              /\ UNCHANGED <<barrierBuffer, done>>

EvalSBarrier(w) ==
    LET c == wave[w].cu
        arrived == [wave EXCEPT ![w].state = "AtBarrier"] IN
    /\ UNCHANGED done
    /\ CASE \A v \in Waves(WGOf(w)) : arrived[v].state = "AtBarrier" ->
              PassBarrier(WGOf(w)) /\ executing' = [executing EXCEPT ![c] = @ \ {w}]
         [] Cardinality(barrierBuffer[c]) < BarrierBufferSize
            /\ \E v \in Waves(WGOf(w)) : arrived[v].state # "AtBarrier" ->
              /\ barrierBuffer' = [barrierBuffer EXCEPT ![c] = @ \cup {w}]
              /\ executing' = [executing EXCEPT ![c] = @ \ {w}]
              /\ wave' = arrived
         [] OTHER -> wave' = arrived /\ UNCHANGED <<barrierBuffer, executing>>

\* wave[w].inst is what was issued, whatever the program counter is now.
Eval(w) ==
    LET x == wave[w]
        inst == Code(w)[x.inst] IN
    /\ mode[x.cu] = "running" /\ w \in executing[x.cu]
    /\ CASE inst.op = "end" -> EvalSEndPgm(w)
         [] inst.op = "barrier" -> EvalSBarrier(w)
         [] inst.op = "wait" ->
              /\ x.smem <= inst.lgkm /\ x.vmem <= inst.vm
              /\ wave' = [wave EXCEPT ![w] = Advanced(x)]
              /\ executing' = [executing EXCEPT ![x.cu] = @ \ {w}]
              /\ UNCHANGED <<barrierBuffer, done>>
         [] OTHER ->
              /\ wave' = [wave EXCEPT ![w] = Advanced(x)]
              /\ executing' = [executing EXCEPT ![x.cu] = @ \ {w}]
              /\ UNCHANGED <<barrierBuffer, done>>
    /\ UNCHANGED <<flightVars, pipe, mode, toACE, toCP, ack>>

-------------------------------------------------------------------------------
(* Requests of the dispatcher and of the command processor *)

\* handleMapWGReq: the wavefronts enter the pools of the SIMD units they were placed on.
MapWG(c) ==
    /\ mode[c] # "paused" /\ toACE[c] # <<>>
    /\ LET m == Head(toACE[c]) IN
       wave' = [w \in Waves(m.wg) \cup DOMAIN wave |->
           IF w \in Waves(m.wg)
           THEN [cu |-> c, simd |-> m.place[w[3]].simd, pc |-> 1, state |-> "Ready", inst |-> 0,
                 buf |-> <<>>, from |-> 0, fetching |-> FALSE, smem |-> 0, vmem |-> 0]
           ELSE wave[w]]
    /\ toACE' = [toACE EXCEPT ![c] = Tail(@)]
    /\ UNCHANGED <<flightVars, unitVars, mode, toCP, done, ack>>

\* Mutant: the scalar accesses in flight are forgotten.
FlushForgetsScalars(c) ==
    /\ toCP[c] # <<>> /\ Head(toCP[c]) = "flush"
    /\ toCP' = [toCP EXCEPT ![c] = Tail(@)]
    /\ shadow' = [shadow EXCEPT ![c] = [fetches |-> fetches[c], scalars |-> <<>>,
           vectors |-> [i \in DOMAIN vectors[c] |-> [vectors[c][i] EXCEPT !.frame = <<>>]]]]
    /\ fetches' = [fetches EXCEPT ![c] = <<>>]
    /\ scalars' = [scalars EXCEPT ![c] = <<>>]
    /\ vectors' = [vectors EXCEPT ![c] = <<>>]
    /\ wave' = [w \in DOMAIN wave |->
           IF wave[w].cu = c /\ wave[w].state # "Completed"
           THEN [wave[w] EXCEPT !.state = "Ready", !.fetching = FALSE] ELSE wave[w]]
    /\ pipe' = [pipe EXCEPT ![c] = [u \in Unit |-> <<>>]]
    /\ barrierBuffer' = [barrierBuffer EXCEPT ![c] = {}]
    /\ executing' = [executing EXCEPT ![c] = {}]
    /\ mode' = [mode EXCEPT ![c] = "paused"]
    /\ ack' = [ack EXCEPT ![c] = Append(@, "flushed")]
    /\ UNCHANGED <<toACE, done>>

\* A flush takes everything in flight to the shadow lists, what an earlier flush left
\* there included, and lets the wavefronts start their instructions again.
Flush(c) ==
    LET Interrupted(flight, old) ==
            flight \o IF mode[c] = "resending" THEN old ELSE <<>> IN
    /\ toCP[c] # <<>> /\ Head(toCP[c]) = "flush"
    /\ toCP' = [toCP EXCEPT ![c] = Tail(@)]
    /\ shadow' = [shadow EXCEPT ![c] =
           [fetches |-> Interrupted(fetches[c], @.fetches),
            scalars |-> Interrupted(scalars[c], @.scalars),
            vectors |-> Interrupted([i \in DOMAIN vectors[c] |->
                                        [vectors[c][i] EXCEPT !.frame = <<>>]], @.vectors)]]
    /\ fetches' = [fetches EXCEPT ![c] = <<>>]
    /\ scalars' = [scalars EXCEPT ![c] = <<>>]
    /\ vectors' = [vectors EXCEPT ![c] = <<>>]
    /\ wave' = [w \in DOMAIN wave |->
           IF wave[w].cu = c /\ wave[w].state # "Completed"
           THEN [wave[w] EXCEPT !.state = "Ready", !.fetching = FALSE] ELSE wave[w]]
    /\ pipe' = [pipe EXCEPT ![c] = [u \in Unit |-> <<>>]]
    /\ barrierBuffer' = [barrierBuffer EXCEPT ![c] = {}]
    /\ executing' = [executing EXCEPT ![c] = {}]
    /\ mode' = [mode EXCEPT ![c] = "paused"]
    /\ ack' = [ack EXCEPT ![c] = Append(@, "flushed")]
    /\ UNCHANGED <<toACE, done>>

\* The response leaves before anything is sent again.
Resume(c) ==
    /\ toCP[c] # <<>> /\ Head(toCP[c]) = "restart"
    /\ toCP' = [toCP EXCEPT ![c] = Tail(@)]
    /\ mode' = [mode EXCEPT ![c] = "resending"]
    /\ ack' = [ack EXCEPT ![c] = Append(@, "restarted")]
    /\ UNCHANGED <<waveVars, flightVars, unitVars, toACE, done>>

\* checkShadowBuffers: the head of each list that its port takes.
Resend(c) ==
    /\ mode[c] = "resending"
    /\ \E sent \in SUBSET {k \in {"fetches", "scalars", "vectors"} : shadow[c][k] # <<>>} :
           LET More(k) == IF k \in sent THEN <<Head(shadow[c][k])>> ELSE <<>> IN
           /\ sent # {}
           /\ fetches' = [fetches EXCEPT ![c] = @ \o More("fetches")]
           /\ scalars' = [scalars EXCEPT ![c] = @ \o More("scalars")]
           /\ vectors' = [vectors EXCEPT ![c] = @ \o More("vectors")]
           /\ shadow' = [shadow EXCEPT ![c] =
                  [k \in DOMAIN @ |-> IF k \in sent THEN Tail(@[k]) ELSE @[k]]]
    /\ UNCHANGED <<waveVars, unitVars, mode, cuPortVars>>

Unpause(c) ==
    /\ mode[c] = "resending" /\ \A k \in DOMAIN shadow[c] : shadow[c][k] = <<>>
    /\ mode' = [mode EXCEPT ![c] = "running"]
    /\ UNCHANGED <<waveVars, flightVars, unitVars, cuPortVars>>

-------------------------------------------------------------------------------
\* What the dispatchers ask a compute unit for are work-groups whose wavefronts are not in
\* the pools yet: no work-group is dispatched twice, by none of the algorithms.
NewWorkGroups ==
    \A c \in CU : toACE[c] # <<>> =>
        LET wg == Head(toACE[c]).wg IN
        wg[1].kernel \in DOMAIN Kernel /\ Waves(wg) \cap DOMAIN wave = {}

\* S_BARRIER: nobody is past a barrier that a wavefront of the work-group has not reached.
Barriers(w) == Cardinality({i \in 1 .. wave[w].pc - 1 : Code(w)[i].op = "barrier"})

BarrierSync ==
    \A w, v \in DOMAIN wave :
        (WGOf(w) = WGOf(v) /\ wave[v].state # "Completed" /\ wave[w].state # "Completed")
            => Barriers(w) = Barriers(v)

\* A wavefront executes the instruction at its program counter, however fetches, branches,
\* flushes and barriers interleave: what was decoded from its buffer is that instruction,
\* and it waits at a barrier only if the instruction is a barrier.
ProgramOrder ==
    \A w \in DOMAIN wave :
        /\ wave[w].state \in {"Running", "AtBarrier"} => wave[w].inst = wave[w].pc
        /\ wave[w].state = "AtBarrier" => Code(w)[wave[w].pc].op = "barrier"

\* The counters that s_waitcnt and s_endpgm look at are the accesses in flight, also
\* after flushes at any moment; no access outlives its wavefront.
CountersExact ==
    LET All(c, k, flight) == flight[c] \o shadow[c][k]
        Count(w, s) == Len(SelectSeq(s, LAMBDA a : a.wave = w /\ a.last)) IN
    \A c \in CU :
        LET scalar == All(c, "scalars", scalars)
            vector == All(c, "vectors", vectors) IN
        /\ \A w \in On(c) :
               /\ wave[w].vmem = Count(w, vector)
               /\ wave[w].smem = Count(w, scalar) + wave[w].vmem
        /\ \A a \in Range(scalar \o vector) : a.wave \in On(c)
===============================================================================
