-------------------------- MODULE GpuSystem_proofs --------------------------
(* Theorems about GpuSystem, for any GPUs, kernels, programs, sizes and migrations: *)
(* no work-group is dispatched twice, wavefronts execute their programs in order,   *)
(* and no register, LDS byte or pool entry belongs to two wavefronts.               *)
EXTENDS GpuSystem, SequenceLemmas, FiniteSetTheorems, TLAPS

-------------------------------------------------------------------------------
\* The hypothesis about the kernels: a wavefront that has to wait at a barrier finds room in
\* the barrier buffer.
RoomAtBarrier ==
    \A c \in CU : \A w \in executing[c] : Code(w)[wave[w].inst].op = "barrier" =>
        \/ \A v \in Others(w) : wave[v].state = "AtBarrier"
        \/ Cardinality(barrierBuffer[c]) < BarrierBufferSize

-------------------------------------------------------------------------------
\* The fields of a wavefront.
WaveField == {"cu", "simd", "pc", "state", "inst", "buf", "from", "fetching", "smem", "vmem"}
States == {"Ready", "Running", "AtBarrier", "Completed"}

\* An instruction buffer holds consecutive lines.
Consecutive(buf, from) ==
    from \in Nat /\ buf \in Seq(Nat) /\ \A i \in 1 .. Len(buf) : buf[i] = from + i - 1

\* That x is in order as the record of wavefront w: its buffer begins with the line of the
\* program counter or an earlier one.
Sound(w, x) ==
    /\ DOMAIN x = WaveField /\ x.cu \in CU /\ x.state \in States
    /\ x.pc \in DOMAIN Code(w)
    /\ Consecutive(x.buf, x.from) /\ x.from <= Line(x.pc)
    /\ x.state \in {"Running", "AtBarrier"} => x.inst = x.pc
    /\ x.state = "AtBarrier" => Code(w)[x.pc].op = "barrier"

WavesOK == \A w \in DOMAIN wave : w[1].kernel \in DOMAIN Kernel /\ Sound(w, wave[w])

\* The wavefronts of a work-group come and go together, on one compute unit.
GroupsOK ==
    \A w \in DOMAIN wave :
        /\ w \in Waves(WGOf(w))
        /\ \A v \in Waves(WGOf(w)) : v \in DOMAIN wave /\ wave[v].cu = wave[w].cu

\* A wavefront is in one unit or with the scheduler, once, and only while it is running.
Runs(w, c) == w \in DOMAIN wave /\ wave[w].cu = c /\ wave[w].state = "Running"
Op(w) == Code(w)[wave[w].pc].op

BusyOK ==
    /\ DOMAIN pipe = CU /\ DOMAIN executing = CU
    /\ \A c \in CU : DOMAIN pipe[c] = Unit
    /\ \A c \in CU : \A w \in executing[c] : Runs(w, c)
    /\ \A c \in CU, u \in Unit :
           /\ pipe[c][u] \in Seq(DOMAIN wave) /\ IsInjective(pipe[c][u])
           /\ \A w \in Range(pipe[c][u]) : Runs(w, c) /\ Op(w) # "end" /\ w \notin executing[c]
    /\ \A c \in CU : \A u, v \in Unit : u # v => Range(pipe[c][u]) \cap Range(pipe[c][v]) = {}

OrderInv == WavesOK /\ GroupsOK /\ BusyOK

-------------------------------------------------------------------------------
(* Programs and instruction buffers *)

LEMMA Lines ==
    ASSUME NEW p \in Nat \ {0}
    PROVE  /\ Line(p) \in Nat /\ Line(p) <= Line(p + 1)
           /\ Line(p) * LineInsts + ((p - 1) % LineInsts) + 1 = p
<1>1. LineInsts \in Nat /\ LineInsts >= 1  BY ComputeUnitAssumption
<1> DEFINE a == p - 1  b == LineInsts
<1>2. a \in Nat  OBVIOUS
<1>3. a = b * (a \div b) + (a % b) /\ a % b \in 0 .. b - 1 /\ a \div b \in Int
  BY <1>1, <1>2
<1>4. p = b * (p \div b) + (p % b) /\ p % b \in 0 .. b - 1 /\ p \div b \in Int
  BY <1>1
<1> QED  BY <1>1, <1>2, <1>3, <1>4 DEF Line

\* A program ends with its last instruction, and branches stay in it.
LEMMA ProgramsEnd ==
    ASSUME NEW w, w[1].kernel \in DOMAIN Kernel
    PROVE  /\ Len(Code(w)) \in Nat \ {0} /\ DOMAIN Code(w) = 1 .. Len(Code(w))
           /\ \A i \in DOMAIN Code(w) :
                  /\ i \in Nat \ {0} /\ Code(w)[i].to \in DOMAIN Code(w)
                  /\ Code(w)[i].op # "end" => i + 1 \in DOMAIN Code(w)
<1> DEFINE code == Code(w)  n == Len(code)
<1>1. /\ code \in Seq(Range(code)) /\ code # <<>> /\ Last(code).op = "end"
      /\ \A i \in DOMAIN code : code[i].to \in DOMAIN code
  BY KernelAssumption DEF Code
<1> HIDE DEF code
<1>2. n \in Nat \ {0} /\ DOMAIN code = 1 .. n /\ Last(code) = code[n]
  BY <1>1, FrontElements, SeqType
<1>3. code[n].op = "end"  BY <1>1, <1>2
<1>4. \A i \in 1 .. n : code[i].op # "end" => i + 1 \in 1 .. n  BY <1>2, <1>3
<1> QED  BY <1>1, <1>2, <1>4 DEF code

LEMMA SmallerOfTwo ==
    ASSUME NEW a \in Int, NEW b \in Int
    PROVE  Min({a, b}) \in {a, b} /\ Min({a, b}) <= a /\ Min({a, b}) <= b
<1>1. \E x \in {a, b} : \A y \in {a, b} : x <= y  OBVIOUS
<1> QED  BY <1>1 DEF Min

LEMMA DropLines ==
    ASSUME NEW buf, NEW from, Consecutive(buf, from), NEW k \in 0 .. Len(buf)
    PROVE  Consecutive(SubSeq(buf, k + 1, Len(buf)), from + k)
<1> DEFINE n == Len(buf)
           t == SubSeq(buf, k + 1, n)
<1>1. /\ from \in Nat /\ n \in Nat /\ k \in Nat /\ k <= n
      /\ \A i \in 1 .. n : buf[i] = from + i - 1 /\ buf[i] \in Nat
  BY SeqType DEF Consecutive
<1> HIDE DEF n
<1>2. t \in Seq(Nat) /\ Len(t) = IF k + 1 <= n THEN n - (k + 1) + 1 ELSE 0
  BY <1>1, SubSeqProperties
<1>3. \A i \in 1 .. n - (k + 1) + 1 : t[i] = buf[k + 1 + i - 1]
  BY <1>1, SubSeqProperties
<1> HIDE DEF t
<1>4. ASSUME NEW i \in 1 .. Len(t)
      PROVE  t[i] = from + k + i - 1
  <2>1. i \in 1 .. n - (k + 1) + 1 /\ k + 1 + i - 1 \in 1 .. n  BY <1>1, <1>2
  <2>2. t[i] = buf[k + 1 + i - 1]  BY <1>3, <2>1
  <2> QED  BY <1>1, <2>1, <2>2
<1>5. from + k \in Nat /\ \A i \in 1 .. Len(t) : t[i] = (from + k) + i - 1
  BY <1>1, <1>4
<1> QED  BY <1>2, <1>5 DEF Consecutive, t, n

LEMMA NoLines == ASSUME NEW from \in Nat PROVE Consecutive(<<>>, from)
  BY DEF Consecutive

LEMMA AddLine ==
    ASSUME NEW buf, NEW from, Consecutive(buf, from)
    PROVE  Consecutive(Append(buf, from + Len(buf)), from)
<1>1. from \in Nat /\ buf \in Seq(Nat) /\ Len(buf) \in Nat  BY SeqType DEF Consecutive
<1>2. from + Len(buf) \in Nat  BY <1>1
<1> DEFINE t == Append(buf, from + Len(buf))
<1>3. /\ t \in Seq(Nat) /\ Len(t) = Len(buf) + 1 /\ t[Len(buf) + 1] = from + Len(buf)
      /\ \A i \in 1 .. Len(buf) : t[i] = buf[i]
  BY <1>1, <1>2, AppendElements
<1> HIDE DEF t
<1>4. ASSUME NEW i \in 1 .. Len(t) PROVE t[i] = from + i - 1
  <2>1. CASE i = Len(buf) + 1  BY <1>1, <1>3, <2>1
  <2>2. CASE i # Len(buf) + 1
    <3>1. i \in 1 .. Len(buf)  BY <1>1, <1>3, <2>2
    <3> QED  BY <1>3, <3>1 DEF Consecutive
  <2> QED  BY <2>1, <2>2
<1> QED  BY <1>1, <1>3, <1>4 DEF Consecutive, t

\* A wavefront that goes on to its next instruction stays in order, and is ready.
LEMMA AdvancedSound ==
    ASSUME NEW w, w[1].kernel \in DOMAIN Kernel, NEW x, Sound(w, x), Code(w)[x.pc].op # "end"
    PROVE  Sound(w, Advanced(x)) /\ Advanced(x).state = "Ready" /\ Advanced(x).cu = x.cu
<1> DEFINE p == x.pc
           stale == Min({Line(p + 1) - x.from, Len(x.buf)})
           y == Advanced(x)
<1>1. DOMAIN x = WaveField /\ x.cu \in CU /\ p \in DOMAIN Code(w) /\ x.from <= Line(p)
  BY DEF Sound
<1>2. Consecutive(x.buf, x.from)  BY DEF Sound
<1>3. x.from \in Nat /\ Len(x.buf) \in Nat  BY <1>2, SeqType DEF Consecutive
<1>4. p \in Nat \ {0} /\ p + 1 \in DOMAIN Code(w)  BY <1>1, ProgramsEnd
<1>5. y = [x EXCEPT !.pc = p + 1, !.state = "Ready",
                    !.buf = IF x.buf = <<>> THEN x.buf ELSE SubSeq(x.buf, stale + 1, Len(x.buf)),
                    !.from = IF x.buf = <<>> THEN x.from ELSE x.from + stale]
  BY DEF Advanced
<1> HIDE DEF y, p
<1>6. Line(p) \in Nat /\ Line(p + 1) \in Nat /\ Line(p) <= Line(p + 1)
  <2>1. Line(p + 1) \in Nat  BY <1>4, Lines
  <2> QED  BY <1>4, <2>1, Lines
<1>7. stale \in 0 .. Len(x.buf) /\ x.from + stale <= Line(p + 1)
  <2> DEFINE a == Line(p + 1) - x.from  b == Len(x.buf)
  <2>1. a \in Nat /\ b \in Nat /\ a \in Int /\ b \in Int  BY <1>1, <1>3, <1>6 DEF p
  <2>2. stale = Min({a, b}) /\ x.from + a = Line(p + 1)  BY <1>3, <1>6
  <2> HIDE DEF stale, a
  <2>3. Min({a, b}) \in {a, b} /\ Min({a, b}) <= a /\ Min({a, b}) <= b  BY <2>1, SmallerOfTwo
  <2> QED  BY <1>3, <1>6, <2>1, <2>2, <2>3
<1> HIDE DEF stale
<1>8. /\ DOMAIN y = WaveField /\ y.cu = x.cu /\ y.pc = p + 1 /\ y.state = "Ready"
      /\ y.buf = IF x.buf = <<>> THEN x.buf ELSE SubSeq(x.buf, stale + 1, Len(x.buf))
      /\ y.from = IF x.buf = <<>> THEN x.from ELSE x.from + stale
  BY <1>1, <1>5 DEF WaveField
<1>9. Consecutive(y.buf, y.from)  BY <1>2, <1>7, <1>8, DropLines
<1>10. y.from <= Line(p + 1)  BY <1>1, <1>3, <1>6, <1>7, <1>8 DEF p
<1>11. Sound(w, y)
  BY <1>1, <1>4, <1>8, <1>9, <1>10 DEF Sound, States
<1> QED  BY <1>8, <1>11 DEF y, p

-------------------------------------------------------------------------------
(* Steps that touch one wavefront *)

LEMMA Retyped ==
    ASSUME NEW S, NEW T, NEW s \in Seq(S), Range(s) \subseteq T
    PROVE  s \in Seq(T)
<1>1. DOMAIN s = 1 .. Len(s) /\ Len(s) \in Nat  BY SeqType
<1>2. \A i \in 1 .. Len(s) : s[i] \in T  BY <1>1 DEF Range
<1>3. s = [i \in 1 .. Len(s) |-> s[i]]  OBVIOUS
<1> QED  BY <1>1, <1>2, <1>3

\* A wavefront is where it is for one compute unit only.
LEMMA OnePlace ==
    ASSUME BusyOK, NEW w, NEW c \in CU, NEW d \in CU,
           w \in executing[c] \/ \E u \in Unit : w \in Range(pipe[c][u]),
           w \in executing[d] \/ \E u \in Unit : w \in Range(pipe[d][u])
    PROVE  c = d
<1>1. Runs(w, c) /\ Runs(w, d)  BY DEF BusyOK
<1> QED  BY <1>1 DEF Runs

\* What is in the units stays there, and what the scheduler executes stays or goes.
LEMMA BusyKept ==
    ASSUME BusyOK, pipe' = pipe, DOMAIN executing' = CU,
           \A c \in CU : executing'[c] \subseteq executing[c],
           \A v : \A c \in CU :
               v \in executing'[c] \/ (\E u \in Unit : v \in Range(pipe[c][u]))
               => /\ v \in DOMAIN wave'
                  /\ wave'[v].cu = wave[v].cu /\ wave'[v].state = wave[v].state
                  /\ wave'[v].pc = wave[v].pc
    PROVE  BusyOK'
<1>1. DOMAIN pipe' = CU /\ \A c \in CU : DOMAIN pipe'[c] = Unit  BY DEF BusyOK
<1>2. ASSUME NEW c \in CU, NEW v \in executing'[c]  PROVE Runs(v, c)'
  <2>1. Runs(v, c)  BY <1>2 DEF BusyOK
  <2> QED  BY <1>2, <2>1 DEF Runs
<1>3. ASSUME NEW c \in CU, NEW u \in Unit
      PROVE  /\ pipe'[c][u] \in Seq(DOMAIN wave') /\ IsInjective(pipe'[c][u])
             /\ \A v \in Range(pipe'[c][u]) :
                    Runs(v, c)' /\ Op(v)' # "end" /\ v \notin executing'[c]
  <2>1. /\ pipe[c][u] \in Seq(DOMAIN wave) /\ IsInjective(pipe[c][u])
        /\ \A v \in Range(pipe[c][u]) : Runs(v, c) /\ Op(v) # "end" /\ v \notin executing[c]
    BY <1>3 DEF BusyOK
  <2>2. \A v \in Range(pipe[c][u]) : v \in DOMAIN wave' /\ wave'[v].cu = wave[v].cu
                                     /\ wave'[v].state = wave[v].state /\ wave'[v].pc = wave[v].pc
    BY <1>3
  <2>3. pipe[c][u] \in Seq(DOMAIN wave')  BY <2>1, <2>2, Retyped
  <2>4. \A v \in Range(pipe[c][u]) : Runs(v, c)' /\ Op(v)' # "end" /\ v \notin executing'[c]
    BY <1>3, <2>1, <2>2 DEF Runs, Op
  <2> QED  BY <2>1, <2>3, <2>4
<1>4. \A c \in CU : \A u, v \in Unit : u # v => Range(pipe'[c][u]) \cap Range(pipe'[c][v]) = {}
  BY DEF BusyOK
<1> QED  BY <1>1, <1>2, <1>3, <1>4 DEF BusyOK

LEMMA SameGroups ==
    ASSUME GroupsOK, DOMAIN wave' = DOMAIN wave,
           \A v \in DOMAIN wave : wave'[v].cu = wave[v].cu
    PROVE  GroupsOK'
<1> SUFFICES ASSUME NEW w \in DOMAIN wave
             PROVE  /\ w \in Waves(WGOf(w))
                    /\ \A v \in Waves(WGOf(w)) : v \in DOMAIN wave' /\ wave'[v].cu = wave'[w].cu
  BY DEF GroupsOK
<1>1. /\ w \in Waves(WGOf(w))
      /\ \A v \in Waves(WGOf(w)) : v \in DOMAIN wave /\ wave[v].cu = wave[w].cu
  BY DEF GroupsOK
<1> QED  BY <1>1

LEMMA OneWave ==
    ASSUME OrderInv, NEW w \in DOMAIN wave, NEW y, Sound(w, y), y.cu = wave[w].cu,
           wave' = [wave EXCEPT ![w] = y]
    PROVE  /\ WavesOK' /\ GroupsOK' /\ DOMAIN wave' = DOMAIN wave /\ wave'[w] = y
           /\ \A v \in DOMAIN wave : v # w => wave'[v] = wave[v]
<1>1. /\ DOMAIN wave' = DOMAIN wave /\ wave'[w] = y
      /\ \A v \in DOMAIN wave : v # w => wave'[v] = wave[v]
  OBVIOUS
<1>2. WavesOK'  BY <1>1 DEF OrderInv, WavesOK
<1>3. \A v \in DOMAIN wave : wave'[v].cu = wave[v].cu  BY <1>1
<1>4. GroupsOK'  BY <1>1, <1>3, SameGroups DEF OrderInv
<1> QED  BY <1>1, <1>2, <1>4

\* The state and the program counter stay, and so does where the wavefront is.
LEMMA SameState ==
    ASSUME OrderInv, NEW w \in DOMAIN wave, NEW y, Sound(w, y), y.cu = wave[w].cu,
           y.state = wave[w].state, y.pc = wave[w].pc,
           wave' = [wave EXCEPT ![w] = y], UNCHANGED <<pipe, executing>>
    PROVE  OrderInv'
<1>1. /\ WavesOK' /\ GroupsOK' /\ DOMAIN wave' = DOMAIN wave /\ wave'[w] = y
      /\ \A v \in DOMAIN wave : v # w => wave'[v] = wave[v]
  BY OneWave
<1>2. \A v \in DOMAIN wave : v \in DOMAIN wave' /\ wave'[v].cu = wave[v].cu
          /\ wave'[v].state = wave[v].state /\ wave'[v].pc = wave[v].pc
  BY <1>1
<1>3. \A v : \A c \in CU : v \in executing[c] \/ (\E u \in Unit : v \in Range(pipe[c][u]))
                       => v \in DOMAIN wave
  BY DEF OrderInv, BusyOK, Runs
<1>4. BusyOK'
  <2>1. DOMAIN executing' = CU /\ \A c \in CU : executing'[c] \subseteq executing[c]
    BY DEF OrderInv, BusyOK
  <2> QED  BY <1>2, <1>3, <2>1, BusyKept DEF OrderInv
<1> QED  BY <1>1, <1>4 DEF OrderInv

LEMMA NothingChanges ==
    ASSUME OrderInv, UNCHANGED <<pipe, executing>>, DOMAIN wave' = DOMAIN wave,
           \A v \in DOMAIN wave : wave'[v] = wave[v]
    PROVE  OrderInv'
<1>1. WavesOK'  BY DEF OrderInv, WavesOK
<1>2. GroupsOK'  BY SameGroups DEF OrderInv
<1>3. \A v : \A c \in CU : v \in executing[c] \/ (\E u \in Unit : v \in Range(pipe[c][u]))
                       => v \in DOMAIN wave
  BY DEF OrderInv, BusyOK, Runs
<1>4. BusyOK'
  <2>1. DOMAIN executing' = CU /\ \A c \in CU : executing'[c] \subseteq executing[c]
    BY DEF OrderInv, BusyOK
  <2> QED  BY <1>3, <2>1, BusyKept DEF OrderInv
<1> QED  BY <1>1, <1>2, <1>4 DEF OrderInv

\* One wavefront leaves the scheduler; what happens to others happens to none that runs.
LEMMA BusyWithout ==
    ASSUME BusyOK, NEW c \in CU, NEW w \in executing[c], pipe' = pipe,
           executing' = [executing EXCEPT ![c] = @ \ {w}],
           \A v \in DOMAIN wave : v # w /\ wave[v].state = "Running"
                                  => v \in DOMAIN wave' /\ wave'[v] = wave[v]
    PROVE  BusyOK'
<1>1. /\ DOMAIN executing' = CU /\ executing'[c] = executing[c] \ {w}
      /\ \A d \in CU : executing'[d] \subseteq executing[d]
  BY DEF BusyOK
<1>2. ASSUME NEW d \in CU, NEW v, v \in executing'[d] \/ (\E u \in Unit : v \in Range(pipe[d][u]))
      PROVE  v \in DOMAIN wave /\ v # w /\ wave[v].state = "Running"
  <2>1. v \in executing[d] \/ (\E u \in Unit : v \in Range(pipe[d][u]))  BY <1>1, <1>2
  <2>2. v \in DOMAIN wave /\ wave[v].state = "Running"  BY <2>1 DEF BusyOK, Runs
  <2>3. CASE v = w
    <3>1. c = d  BY <2>1, <2>3, OnePlace
    <3>2. \E u \in Unit : w \in Range(pipe[c][u])  BY <1>1, <1>2, <2>3, <3>1
    <3> QED  BY <3>2 DEF BusyOK
  <2> QED  BY <2>2, <2>3
<1> QED  BY <1>1, <1>2, BusyKept

LEMMA LeavesScheduler ==
    ASSUME OrderInv, NEW c \in CU, NEW w \in executing[c], NEW y, Sound(w, y),
           y.cu = wave[w].cu, wave' = [wave EXCEPT ![w] = y], pipe' = pipe,
           executing' = [executing EXCEPT ![c] = @ \ {w}]
    PROVE  OrderInv'
<1>1. w \in DOMAIN wave /\ BusyOK  BY DEF OrderInv, BusyOK, Runs
<1>2. /\ WavesOK' /\ GroupsOK' /\ DOMAIN wave' = DOMAIN wave
      /\ \A v \in DOMAIN wave : v # w => wave'[v] = wave[v]
  BY <1>1, OneWave
<1>3. BusyOK'  BY <1>1, <1>2, BusyWithout
<1> QED  BY <1>2, <1>3 DEF OrderInv

\* A wavefront leaves the unit it is in.
LEMMA LeavesUnit ==
    ASSUME OrderInv, NEW c \in CU, NEW u \in Unit, NEW w \in Range(pipe[c][u]), NEW y, Sound(w, y),
           y.cu = wave[w].cu, wave' = [wave EXCEPT ![w] = y], executing' = executing,
           pipe' = [pipe EXCEPT ![c][u] = RemoveFirst(@, w)]
    PROVE  OrderInv'
<1>1. w \in DOMAIN wave /\ BusyOK  BY DEF OrderInv, BusyOK, Runs
<1>2. /\ WavesOK' /\ GroupsOK' /\ DOMAIN wave' = DOMAIN wave
      /\ \A v \in DOMAIN wave : v # w => wave'[v] = wave[v]
  BY <1>1, OneWave
<1>3. /\ DOMAIN pipe' = CU /\ \A d \in CU : DOMAIN pipe'[d] = Unit
      /\ pipe'[c][u] = RemoveFirst(pipe[c][u], w)
      /\ \A d \in CU : \A v \in Unit : d # c \/ v # u => pipe'[d][v] = pipe[d][v]
  BY <1>1 DEF BusyOK
<1>4. /\ pipe'[c][u] \in Seq(DOMAIN wave) /\ IsInjective(pipe'[c][u])
      /\ Range(pipe'[c][u]) = Range(pipe[c][u]) \ {w}
  <2>1. pipe[c][u] \in Seq(DOMAIN wave) /\ IsInjective(pipe[c][u])  BY <1>1 DEF BusyOK
  <2> QED  BY <1>3, <2>1, RemoveFirstRange
<1>5. \A d \in CU : \A v \in Unit :
          /\ pipe'[d][v] \in Seq(DOMAIN wave) /\ IsInjective(pipe'[d][v])
          /\ Range(pipe'[d][v]) \subseteq Range(pipe[d][v])
  BY <1>1, <1>3, <1>4 DEF BusyOK
<1>6. \A d \in CU : \A v \in Unit : w \notin Range(pipe'[d][v])
  <2> SUFFICES ASSUME NEW d \in CU, NEW v \in Unit, w \in Range(pipe'[d][v])  PROVE FALSE
    OBVIOUS
  <2>1. w \in Range(pipe[d][v])  BY <1>5
  <2>2. c = d  BY <1>1, <2>1, OnePlace
  <2>3. u = v  BY <1>1, <2>1, <2>2 DEF BusyOK
  <2> QED  BY <1>4, <2>2, <2>3
<1>7. ASSUME NEW d \in CU, NEW v \in executing'[d]  PROVE Runs(v, d)'
  <2>1. Runs(v, d)  BY <1>1, <1>7 DEF BusyOK
  <2>2. v # w
    <3>1. CASE v = w
      <4>1. w \in executing[d]  BY <1>7, <3>1
      <4>2. c = d  BY <1>1, <4>1, OnePlace
      <4> QED  BY <1>1, <4>1, <4>2 DEF BusyOK
    <3> QED  BY <3>1
  <2> QED  BY <1>2, <2>1, <2>2 DEF Runs
<1>8. ASSUME NEW d \in CU, NEW k \in Unit, NEW v \in Range(pipe'[d][k])
      PROVE  Runs(v, d)' /\ Op(v)' # "end" /\ v \notin executing'[d]
  <2>0. v # w  BY <1>6, <1>8
  <2>1. v # w /\ v \in Range(pipe[d][k])
    <3>1. Range(pipe'[d][k]) \subseteq Range(pipe[d][k])  BY <1>5
    <3> QED  BY <1>8, <2>0, <3>1
  <2>2. Runs(v, d) /\ Op(v) # "end" /\ v \notin executing[d]  BY <1>1, <2>1 DEF BusyOK
  <2> QED  BY <1>2, <2>1, <2>2 DEF Runs, Op
<1>9. ASSUME NEW d \in CU, NEW k \in Unit, NEW v \in Unit, k # v
      PROVE  Range(pipe'[d][k]) \cap Range(pipe'[d][v]) = {}
  <2>1. Range(pipe'[d][k]) \subseteq Range(pipe[d][k])  BY <1>5
  <2>2. Range(pipe'[d][v]) \subseteq Range(pipe[d][v])  BY <1>5
  <2>3. Range(pipe[d][k]) \cap Range(pipe[d][v]) = {}  BY <1>1, <1>9 DEF BusyOK
  <2> QED  BY ONLY <2>1, <2>2, <2>3
<1>10. DOMAIN executing' = CU  BY <1>1 DEF BusyOK
<1>11. BusyOK'  BY <1>2, <1>3, <1>5, <1>7, <1>8, <1>9, <1>10 DEF BusyOK
<1> QED  BY <1>2, <1>11 DEF OrderInv

LEMMA FetchStep == ASSUME OrderInv, NEW w \in DOMAIN wave, Fetch(w) PROVE OrderInv'
<1> DEFINE x == wave[w]
           y == [x EXCEPT !.fetching = TRUE, !.from = BufferStart(x)]
<1>1. Sound(w, x) /\ w[1].kernel \in DOMAIN Kernel  BY DEF OrderInv, WavesOK
<1>2. BufferStart(x) \in Nat /\ BufferStart(x) <= Line(x.pc) /\ Consecutive(x.buf, BufferStart(x))
  <2>1. x.pc \in Nat \ {0}  BY <1>1, ProgramsEnd DEF Sound
  <2>2. Line(x.pc) \in Nat  BY <2>1, Lines
  <2>3. CASE x.buf = <<>>  BY <2>2, <2>3, NoLines DEF BufferStart
  <2>4. CASE x.buf # <<>>  BY <1>1, <2>4 DEF BufferStart, Sound, Consecutive
  <2> QED  BY <2>3, <2>4
<1>3. wave' = [wave EXCEPT ![w] = y] /\ UNCHANGED <<pipe, executing>>
  BY DEF Fetch, unitVars
<1> DEFINE z == BufferStart(x)
<1>4. DOMAIN x = WaveField  BY <1>1 DEF Sound
<1>5. /\ DOMAIN y = WaveField /\ y.cu = x.cu /\ y.state = x.state /\ y.pc = x.pc
      /\ y.inst = x.inst /\ y.buf = x.buf /\ y.from = z
  BY <1>4 DEF WaveField
<1> HIDE DEF y, z
<1>6. Sound(w, y)  BY <1>1, <1>2, <1>5 DEF Sound, z
<1> QED  BY <1>3, <1>5, <1>6, SameState

LEMMA FetchReturnStep == ASSUME OrderInv, NEW c \in CU, FetchReturn(c) PROVE OrderInv'
<1> DEFINE f == Head(fetches[c])
           w == f.wave
           x == wave[w]
           b == IF f.line = x.from + Len(x.buf) THEN Append(x.buf, f.line) ELSE x.buf
           y == [x EXCEPT !.buf = b, !.fetching = FALSE]
<1>1. UNCHANGED <<pipe, executing>>  BY DEF FetchReturn, unitVars
<1>2. CASE w \notin DOMAIN wave
  <2>1. UNCHANGED wave  BY <1>2 DEF FetchReturn
  <2> QED  BY <1>1, <2>1, NothingChanges
<1>3. CASE w \in DOMAIN wave
  <2>1. wave' = [wave EXCEPT ![w] = y]  BY <1>3 DEF FetchReturn
  <2> HIDE DEF f, w
  <2>2. Sound(w, x)  BY <1>3 DEF OrderInv, WavesOK
  <2>3. Consecutive(b, x.from)
    <3>1. Consecutive(x.buf, x.from)  BY <2>2 DEF Sound
    <3> QED  BY <3>1, AddLine
  <2>4. DOMAIN x = WaveField  BY <2>2 DEF Sound
  <2> DEFINE e == b
  <2>5. y = [x EXCEPT !.buf = e, !.fetching = FALSE] /\ Consecutive(e, x.from)  BY <2>3
  <2> HIDE DEF y, e
  <2>6. /\ DOMAIN y = WaveField /\ y.cu = x.cu /\ y.state = x.state /\ y.pc = x.pc
        /\ y.inst = x.inst /\ y.buf = e /\ y.from = x.from
    BY <2>4, <2>5 DEF WaveField
  <2>7. Sound(w, y)  BY <2>2, <2>5, <2>6 DEF Sound
  <2> QED  BY <1>1, <1>3, <2>1, <2>6, <2>7, SameState
<1> QED  BY <1>2, <1>3

\* The counters of a wavefront are not in the way.
LEMMA ScalarReturnStep == ASSUME OrderInv, NEW c \in CU, ScalarReturn(c) PROVE OrderInv'
<1> DEFINE a == Head(scalars[c])
           w == a.wave
           x == wave[w]
           n == x.smem - 1
           y == [x EXCEPT !.smem = n]
<1>1. UNCHANGED <<pipe, executing>>  BY DEF ScalarReturn, unitVars
<1>2. CASE ~ a.last \/ w \notin DOMAIN wave
  <2>1. \A v \in DOMAIN wave : wave'[v] = wave[v]  BY <1>2 DEF ScalarReturn
  <2>2. DOMAIN wave' = DOMAIN wave  BY DEF ScalarReturn
  <2> QED  BY <1>1, <2>1, <2>2, NothingChanges
<1>3. CASE a.last /\ w \in DOMAIN wave
  <2>1. wave' = [wave EXCEPT ![w] = y]  BY <1>3 DEF ScalarReturn
  <2> HIDE DEF a, w, n
  <2>2. Sound(w, x)  BY <1>3 DEF OrderInv, WavesOK
  <2>3. DOMAIN x = WaveField  BY <2>2 DEF Sound
  <2>4. /\ DOMAIN y = WaveField /\ y.cu = x.cu /\ y.state = x.state /\ y.pc = x.pc
        /\ y.inst = x.inst /\ y.buf = x.buf /\ y.from = x.from
    BY <2>3 DEF WaveField
  <2> HIDE DEF y
  <2>5. Sound(w, y)  BY <2>2, <2>4 DEF Sound
  <2> QED  BY <1>1, <1>3, <2>1, <2>4, <2>5, SameState
<1> QED  BY <1>2, <1>3

LEMMA VectorReturnStep == ASSUME OrderInv, NEW c \in CU, VectorReturn(c) PROVE OrderInv'
<1> DEFINE a == Head(vectors[c])
           w == a.wave
           x == wave[w]
           n == x.smem - 1
           m == x.vmem - 1
           y == [x EXCEPT !.smem = n, !.vmem = m]
<1>1. UNCHANGED <<pipe, executing>>  BY DEF VectorReturn, unitVars
<1>2. CASE ~ a.last \/ w \notin DOMAIN wave
  <2>1. \A v \in DOMAIN wave : wave'[v] = wave[v]  BY <1>2 DEF VectorReturn
  <2>2. DOMAIN wave' = DOMAIN wave  BY DEF VectorReturn
  <2> QED  BY <1>1, <2>1, <2>2, NothingChanges
<1>3. CASE a.last /\ w \in DOMAIN wave
  <2>1. wave' = [wave EXCEPT ![w] = y]  BY <1>3 DEF VectorReturn
  <2> HIDE DEF a, w, n, m
  <2>2. Sound(w, x)  BY <1>3 DEF OrderInv, WavesOK
  <2>3. DOMAIN x = WaveField  BY <2>2 DEF Sound
  <2>4. /\ DOMAIN y = WaveField /\ y.cu = x.cu /\ y.state = x.state /\ y.pc = x.pc
        /\ y.inst = x.inst /\ y.buf = x.buf /\ y.from = x.from
    BY <2>3 DEF WaveField
  <2> HIDE DEF y
  <2>5. Sound(w, y)  BY <2>2, <2>4 DEF Sound
  <2> QED  BY <1>1, <1>3, <2>1, <2>4, <2>5, SameState
<1> QED  BY <1>2, <1>3

\* What is decoded is the instruction at the program counter.
LEMMA DecodedIsNext ==
    ASSUME NEW w, w[1].kernel \in DOMAIN Kernel, NEW x, Sound(w, x),
           Line(x.pc) < BufferStart(x) + Len(x.buf)
    PROVE  Decoded(x) = x.pc
<1> DEFINE p == x.pc
<1>1. p \in Nat \ {0}  BY ProgramsEnd DEF Sound
<1>2. /\ Line(p) \in Nat /\ Line(p) * LineInsts + ((p - 1) % LineInsts) + 1 = p
  BY <1>1, Lines
<1>3. x.from \in Nat /\ Len(x.buf) \in Nat /\ x.from <= Line(p)
  BY SeqType DEF Sound, Consecutive
<1>4. \A i \in 1 .. Len(x.buf) : x.buf[i] = x.from + i - 1  BY DEF Sound, Consecutive
<1>5. x.buf # <<>> /\ BufferStart(x) = x.from
  <2>1. CASE x.buf = <<>>
    <3>1. Line(p) < Line(p) + 0  BY <1>2, <2>1 DEF BufferStart
    <3> QED  BY <1>2, <3>1
  <2> QED  BY <2>1 DEF BufferStart
<1> DEFINE i == Line(p) - x.from + 1
<1>6. i \in 1 .. Len(x.buf) /\ x.from + i - 1 = Line(p)  BY <1>2, <1>3, <1>5
<1> HIDE DEF i
<1>7. x.buf[i] = Line(p)  BY <1>4, <1>6
<1>8. Decoded(x) = x.buf[i] * LineInsts + ((p - 1) % LineInsts) + 1
  BY <1>5 DEF Decoded, i
<1> QED  BY <1>2, <1>7, <1>8

LEMMA IssueStep ==
    ASSUME OrderInv, NEW w \in DOMAIN wave, NEW c, c = wave[w].cu, Issue(w)
    PROVE  OrderInv'
<1> DEFINE x == wave[w]
           i == Decoded(x)
           op == Code(w)[i].op
           y == [x EXCEPT !.state = "Running", !.inst = i]
<1>1. Sound(w, x) /\ w[1].kernel \in DOMAIN Kernel /\ BusyOK  BY DEF OrderInv, WavesOK
<1>2. x.state = "Ready" /\ Line(x.pc) < BufferStart(x) + Len(x.buf)  BY DEF Issue
<1>3. i = x.pc  BY <1>1, <1>2, DecodedIsNext
<1>4. wave' = [wave EXCEPT ![w] = y]  BY DEF Issue
<1>5. op = Op(w)  BY <1>3 DEF Op
<1>6. c \in CU  BY <1>1 DEF Sound
<1>7. \/ /\ UnitOf(op) \in Unit /\ UNCHANGED executing
         /\ pipe' = [pipe EXCEPT ![c][UnitOf(op)] = Append(@, w)]
      \/ /\ executing' = [executing EXCEPT ![c] = @ \cup {w}]
         /\ UNCHANGED pipe
  BY DEF Issue
<1> HIDE DEF i, op
<1>8. DOMAIN x = WaveField  BY <1>1 DEF Sound
<1>9. /\ DOMAIN y = WaveField /\ y.cu = x.cu /\ y.state = "Running" /\ y.pc = x.pc
      /\ y.inst = i /\ y.buf = x.buf /\ y.from = x.from
  BY <1>8 DEF WaveField
<1> HIDE DEF y
<1>10. Sound(w, y)  BY <1>1, <1>3, <1>9 DEF Sound, States
<1>11. /\ WavesOK' /\ GroupsOK' /\ DOMAIN wave' = DOMAIN wave /\ wave'[w] = y
       /\ \A v \in DOMAIN wave : v # w => wave'[v] = wave[v]
  BY <1>4, <1>9, <1>10, OneWave
\* Before, it was nowhere.
<1>12. \A d \in CU : w \notin executing[d] /\ \A u \in Unit : w \notin Range(pipe[d][u])
  BY <1>1, <1>2 DEF BusyOK, Runs
<1>13. \A v, d : Runs(v, d) => v # w /\ Runs(v, d)' /\ Op(v)' = Op(v)
  BY <1>2, <1>11 DEF Runs, Op
<1>14. Runs(w, c)' /\ Op(w)' = op  BY <1>5, <1>9, <1>11 DEF Runs, Op
<1>15. CASE /\ executing' = [executing EXCEPT ![c] = @ \cup {w}]
            /\ UNCHANGED pipe
  <2>1. DOMAIN executing' = CU /\ \A d \in CU : executing'[d] \subseteq executing[d] \cup {w}
    BY <1>1, <1>15 DEF BusyOK
  <2>2. ASSUME NEW d \in CU, NEW v \in executing'[d]  PROVE Runs(v, d)'
    <3>1. CASE v \in executing[d]
      <4>1. Runs(v, d)  BY <1>1, <3>1 DEF BusyOK
      <4> QED  BY <1>2, <1>11, <4>1 DEF Runs
    <3>2. CASE v \notin executing[d]
      <4>1. d = c /\ v = w  BY <1>1, <1>15, <2>2, <3>2 DEF BusyOK
      <4> QED  BY <1>14, <4>1
    <3> QED  BY <3>1, <3>2
  <2>3. \A d \in CU : \A u \in Unit : \A v \in Range(pipe[d][u]) :
            Runs(v, d)' /\ Op(v)' # "end" /\ v \notin executing'[d]
    BY <1>1, <1>12, <1>13, <2>1 DEF BusyOK
  <2>4. BusyOK'  BY <1>1, <1>11, <1>15, <2>1, <2>2, <2>3 DEF BusyOK
  <2> QED  BY <1>11, <2>4 DEF OrderInv
<1>16. CASE /\ UnitOf(op) \in Unit /\ UNCHANGED executing
            /\ pipe' = [pipe EXCEPT ![c][UnitOf(op)] = Append(@, w)]
  <2> DEFINE u == UnitOf(op)
  <2>0. u \in Unit /\ op # "end"  BY <1>16 DEF UnitOf, Unit
  <2>a. pipe' = [pipe EXCEPT ![c][u] = Append(@, w)]  BY <1>16
  <2> HIDE DEF u
  <2>1. /\ DOMAIN pipe' = CU /\ \A d \in CU : DOMAIN pipe'[d] = Unit
        /\ pipe'[c][u] = Append(pipe[c][u], w)
        /\ \A d \in CU : \A k \in Unit : d # c \/ k # u => pipe'[d][k] = pipe[d][k]
    BY <1>1, <1>6, <2>0, <2>a DEF BusyOK
  <2>2. /\ pipe'[c][u] \in Seq(DOMAIN wave) /\ IsInjective(pipe'[c][u])
        /\ Range(pipe'[c][u]) = Range(pipe[c][u]) \cup {w}
    <3>1. /\ pipe[c][u] \in Seq(DOMAIN wave) /\ IsInjective(pipe[c][u])
          /\ w \notin Range(pipe[c][u])
      BY <1>1, <1>6, <1>12, <2>0 DEF BusyOK
    <3> QED  BY <2>1, <3>1, InjectiveAppend, AppendRange, AppendElements
  <2>3. \A d \in CU : \A k \in Unit :
            /\ pipe'[d][k] \in Seq(DOMAIN wave) /\ IsInjective(pipe'[d][k])
    BY <1>1, <2>1, <2>2 DEF BusyOK
  <2>4. \A d \in CU : \A k \in Unit : \A v \in Range(pipe'[d][k]) :
            v \in Range(pipe[d][k]) \/ (v = w /\ d = c /\ k = u)
    BY <2>1, <2>2
  <2>5. ASSUME NEW d \in CU, NEW k \in Unit, NEW v, v \in Range(pipe'[d][k])
        PROVE  Runs(v, d)' /\ Op(v)' # "end" /\ v \notin executing'[d]
    <3>1. CASE v \in Range(pipe[d][k])
      <4>1. Runs(v, d) /\ Op(v) # "end" /\ v \notin executing[d]  BY <1>1, <3>1 DEF BusyOK
      <4> QED  BY <1>2, <1>11, <1>16, <4>1 DEF Runs, Op
    <3>2. CASE v = w /\ d = c  BY <1>6, <1>12, <1>14, <1>16, <2>0, <3>2
    <3> QED  BY <2>4, <2>5, <3>1, <3>2
  <2>6. \A d \in CU : \A v \in executing'[d] : Runs(v, d)'  BY <1>1, <1>13, <1>16 DEF BusyOK
  <2>7. ASSUME NEW d \in CU, NEW k \in Unit, NEW l \in Unit, k # l, NEW v,
               v \in Range(pipe'[d][k]), v \in Range(pipe'[d][l])
        PROVE  FALSE
    <3>1. Range(pipe[d][k]) \cap Range(pipe[d][l]) = {}  BY <1>1, <2>7 DEF BusyOK
    <3>2. CASE v = w  BY <1>12, <2>4, <2>7, <3>2
    <3>3. CASE v # w  BY <2>4, <2>7, <3>1, <3>3
    <3> QED  BY <3>2, <3>3
  <2>b. \A d \in CU : \A k, l \in Unit : k # l => Range(pipe'[d][k]) \cap Range(pipe'[d][l]) = {}
    BY <2>7
  <2>8. DOMAIN executing' = CU  BY <1>1, <1>16 DEF BusyOK
  <2>9. BusyOK'  BY <1>11, <2>1, <2>3, <2>5, <2>6, <2>b, <2>8 DEF BusyOK
  <2> QED  BY <1>11, <2>9 DEF OrderInv
<1> QED  BY <1>7, <1>15, <1>16

LEMMA RetireStep ==
    ASSUME OrderInv, NEW c \in CU, NEW u \in Unit, NEW w, Retire(c, u, w)
    PROVE  OrderInv'
<1> DEFINE x == wave[w]
           inst == Code(w)[x.inst]
           y == wave'[w]
<1>1. w \in Range(pipe[c][u])  BY DEF Retire, Retiring
<1>2. /\ w \in DOMAIN wave /\ Sound(w, x) /\ w[1].kernel \in DOMAIN Kernel /\ x.inst = x.pc
      /\ inst.op # "end"
  BY <1>1 DEF OrderInv, BusyOK, WavesOK, Runs, Sound, Op
<1>3. pipe' = [pipe EXCEPT ![c][u] = RemoveFirst(@, w)] /\ executing' = executing
  BY DEF Retire
<1>4. /\ x.inst + 1 \in DOMAIN Code(w) /\ inst.to \in DOMAIN Code(w)
      /\ DOMAIN Code(w) \subseteq Nat \ {0}
  <2>1. x.inst \in DOMAIN Code(w)  BY <1>2 DEF Sound
  <2> QED  BY <1>2, <2>1, ProgramsEnd
<1>5. Sound(w, Advanced(x)) /\ Advanced(x).cu = x.cu  BY <1>2, AdvancedSound
<1> SUFFICES \E z : wave' = [wave EXCEPT ![w] = z] /\ Sound(w, z) /\ z.cu = x.cu
  BY <1>1, <1>3, LeavesUnit
<1>6. CASE inst.op = "branch"
  <2>1. PICK pc \in {x.pc + 1, inst.to} :
            wave' = [wave EXCEPT ![w].pc = pc, ![w].state = "Ready",
                                 ![w].buf = <<>>, ![w].from = Line(pc)]
    BY <1>6 DEF Retire
  <2>2. pc \in DOMAIN Code(w) /\ pc \in Nat \ {0}  BY <1>2, <1>4
  <2> DEFINE l == Line(pc)
             z == [x EXCEPT !.pc = pc, !.state = "Ready", !.buf = <<>>, !.from = l]
  <2>3. l \in Nat /\ l <= Line(pc)  BY <2>2, Lines
  <2>4. wave' = [wave EXCEPT ![w] = z]  BY <1>2, <2>1
  <2> HIDE DEF l
  <2>5. DOMAIN x = WaveField  BY <1>2 DEF Sound
  <2>6. /\ DOMAIN z = WaveField /\ z.cu = x.cu /\ z.state = "Ready" /\ z.pc = pc
        /\ z.buf = <<>> /\ z.from = l
    BY <2>5 DEF WaveField
  <2> HIDE DEF z
  <2>7. Sound(w, z)  BY <1>2, <2>2, <2>3, <2>6, NoLines DEF Sound, States
  <2> QED  BY <2>4, <2>6, <2>7
<1>7. CASE \/ wave' = [wave EXCEPT ![w] = [Advanced(x) EXCEPT !.smem = @ + 1]]
           \/ wave' = [wave EXCEPT ![w] = [Advanced(x) EXCEPT !.smem = @ + 1, !.vmem = @ + 1]]
  <2> DEFINE a == Advanced(x)
             n == a.smem + 1
             m == a.vmem + 1
             z1 == [a EXCEPT !.smem = n]
             z2 == [a EXCEPT !.smem = n, !.vmem = m]
  <2>1. wave' = [wave EXCEPT ![w] = z1] \/ wave' = [wave EXCEPT ![w] = z2]  BY <1>7
  <2>2. Sound(w, a) /\ a.cu = x.cu  BY <1>5
  <2> HIDE DEF a, n, m
  <2>3. DOMAIN a = WaveField  BY <2>2 DEF Sound
  <2>4. /\ DOMAIN z1 = WaveField /\ z1.cu = a.cu /\ z1.state = a.state /\ z1.pc = a.pc
        /\ z1.inst = a.inst /\ z1.buf = a.buf /\ z1.from = a.from
    BY <2>3 DEF WaveField
  <2>5. /\ DOMAIN z2 = WaveField /\ z2.cu = a.cu /\ z2.state = a.state /\ z2.pc = a.pc
        /\ z2.inst = a.inst /\ z2.buf = a.buf /\ z2.from = a.from
    BY <2>3 DEF WaveField
  <2> HIDE DEF z1, z2
  <2>6. Sound(w, z1) /\ Sound(w, z2)  BY <2>2, <2>4, <2>5 DEF Sound
  <2> QED  BY <2>1, <2>2, <2>4, <2>5, <2>6
<1>8. CASE wave' = [wave EXCEPT ![w] = Advanced(x)]  BY <1>5, <1>8
<1> QED  BY <1>6, <1>7, <1>8 DEF Retire

-------------------------------------------------------------------------------
(* Steps that touch a work-group, or all that a compute unit has *)

LEMMA SameGroup ==
    ASSUME NEW v, NEW w \in Waves(WGOf(v))
    PROVE  WGOf(w) = WGOf(v) /\ w[1] = v[1]
  BY DEF Waves, WGOf

LEMMA EvalSEndPgmStep ==
    ASSUME OrderInv, NEW w \in DOMAIN wave, NEW c, c = wave[w].cu, w \in executing[c],
           EvalSEndPgm(w), UNCHANGED pipe
    PROVE  OrderInv'
<1> DEFINE x == wave[w]
           G == Waves(WGOf(w))
           y == [x EXCEPT !.state = "Completed"]
<1>1. /\ BusyOK /\ Sound(w, x) /\ c \in CU
      /\ w \in G /\ \A v \in G : v \in DOMAIN wave /\ wave[v].cu = c
  BY DEF OrderInv, WavesOK, GroupsOK, Sound
<1>2. executing' = [executing EXCEPT ![c] = @ \ {w}]  BY DEF EvalSEndPgm
<1>3. DOMAIN x = WaveField  BY <1>1 DEF Sound
<1>4. /\ DOMAIN y = WaveField /\ y.cu = x.cu /\ y.state = "Completed" /\ y.pc = x.pc
      /\ y.inst = x.inst /\ y.buf = x.buf /\ y.from = x.from
  BY <1>3 DEF WaveField
<1>5. Sound(w, y)
  <2> HIDE DEF y
  <2> QED  BY <1>1, <1>4 DEF Sound, States
<1>6. CASE (\A v \in Others(w) : wave[v].state = "Completed")
           /\ wave' = Restrict(wave, DOMAIN wave \ G)
  <2>1. DOMAIN wave' = DOMAIN wave \ G /\ \A v \in DOMAIN wave \ G : wave'[v] = wave[v]
    BY <1>6 DEF Restrict
  <2>2. \A v \in DOMAIN wave : v # w /\ wave[v].state = "Running"
                               => v \in DOMAIN wave' /\ wave'[v] = wave[v]
    BY <1>6, <2>1 DEF Others
  <2>3. BusyOK'  BY <1>1, <1>2, <2>2, BusyWithout
  <2>4. WavesOK'  BY <2>1 DEF OrderInv, WavesOK
  <2>5. ASSUME NEW v \in DOMAIN wave'
        PROVE  /\ v \in Waves(WGOf(v))
               /\ \A k \in Waves(WGOf(v)) : k \in DOMAIN wave' /\ wave'[k].cu = wave'[v].cu
    <3>1. v \in DOMAIN wave /\ v \notin G  BY <2>1, <2>5
    <3>2. /\ v \in Waves(WGOf(v))
          /\ \A k \in Waves(WGOf(v)) : k \in DOMAIN wave /\ wave[k].cu = wave[v].cu
      BY <3>1 DEF OrderInv, GroupsOK
    <3>3. ASSUME NEW k \in Waves(WGOf(v)) PROVE k \notin G
      <4>1. WGOf(k) = WGOf(v)  BY SameGroup
      <4>2. k \in G => WGOf(k) = WGOf(w)  BY SameGroup
      <4> QED  BY <3>1, <3>2, <4>1, <4>2
    <3> QED  BY <2>1, <3>1, <3>2, <3>3
  <2>6. GroupsOK'  BY <2>5 DEF GroupsOK
  <2> QED  BY <2>3, <2>4, <2>6 DEF OrderInv
<1>7. CASE /\ \A v \in Others(w) : wave[v].state \in {"AtBarrier", "Completed"}
           /\ wave' = [v \in DOMAIN wave |->
                   IF v = w THEN y
                   ELSE IF v \in Others(w) /\ wave[v].state # "Completed"
                   THEN Advanced(wave[v]) ELSE wave[v]]
  <2>1. DOMAIN wave' = DOMAIN wave  BY <1>7
  <2>2. ASSUME NEW v \in DOMAIN wave
        PROVE  Sound(v, wave'[v]) /\ wave'[v].cu = wave[v].cu
    <3>1. Sound(v, wave[v]) /\ v[1].kernel \in DOMAIN Kernel  BY DEF OrderInv, WavesOK
    <3>2. CASE v = w  BY <1>4, <1>5, <1>7, <3>2
    <3>3. CASE v # w /\ v \in Others(w) /\ wave[v].state # "Completed"
      <4>1. wave'[v] = Advanced(wave[v]) /\ wave[v].state = "AtBarrier"  BY <1>7, <3>3
      <4>2. Code(v)[wave[v].pc].op # "end"  BY <3>1, <4>1 DEF Sound
      <4> QED  BY <3>1, <4>1, <4>2, AdvancedSound
    <3>4. CASE v # w /\ ~ (v \in Others(w) /\ wave[v].state # "Completed")
      <4>1. wave'[v] = wave[v]  BY <1>7, <3>4
      <4> QED  BY <3>1, <4>1
    <3> QED  BY <3>2, <3>3, <3>4
  <2>3. \A v \in DOMAIN wave : v # w /\ wave[v].state = "Running"
                               => v \in DOMAIN wave' /\ wave'[v] = wave[v]
    BY <1>7
  <2>4. BusyOK'  BY <1>1, <1>2, <2>3, BusyWithout
  <2>5. WavesOK'  BY <2>1, <2>2 DEF OrderInv, WavesOK
  <2>6. GroupsOK'  BY <2>1, <2>2, SameGroups DEF OrderInv
  <2> QED  BY <2>4, <2>5, <2>6 DEF OrderInv
<1>8. CASE wave' = [wave EXCEPT ![w] = y]
  BY <1>1, <1>2, <1>4, <1>5, <1>8, LeavesScheduler
<1>9. wave' = [wave EXCEPT ![w].state = "Completed"] => wave' = [wave EXCEPT ![w] = y]  OBVIOUS
<1> HIDE DEF y
<1> QED  BY <1>6, <1>7, <1>8, <1>9 DEF EvalSEndPgm, y

LEMMA EvalSBarrierStep ==
    ASSUME OrderInv, RoomAtBarrier, NEW w \in DOMAIN wave, NEW c, c = wave[w].cu,
           w \in executing[c], Op(w) = "barrier", EvalSBarrier(w), UNCHANGED pipe
    PROVE  OrderInv'
<1> DEFINE x == wave[w]
           G == Waves(WGOf(w))
           there == [wave EXCEPT ![w].state = "AtBarrier"]
           y == [x EXCEPT !.state = "AtBarrier"]
<1>1. /\ BusyOK /\ Sound(w, x) /\ c \in CU /\ w[1].kernel \in DOMAIN Kernel
      /\ w \in G /\ \A v \in G : v \in DOMAIN wave /\ wave[v].cu = c
  BY DEF OrderInv, WavesOK, GroupsOK, Sound
<1>2. x.state = "Running" /\ x.inst = x.pc
  BY <1>1 DEF BusyOK, Runs, Sound
<1>3. DOMAIN x = WaveField  BY <1>1 DEF Sound
<1>4. /\ DOMAIN y = WaveField /\ y.cu = x.cu /\ y.state = "AtBarrier" /\ y.pc = x.pc
      /\ y.inst = x.inst /\ y.buf = x.buf /\ y.from = x.from
  BY <1>3 DEF WaveField
<1>5. Sound(w, y)
  <2> HIDE DEF y
  <2> QED  BY <1>1, <1>2, <1>4 DEF Sound, States, Op
<1>6. \A v \in G : v # w => there[v] = wave[v]  BY <1>1
<1>7. CASE /\ \A v \in G : there[v].state = "AtBarrier"
           /\ PassBarrier(WGOf(w)) /\ executing' = [executing EXCEPT ![c] = @ \ {w}]
  <2>1. /\ DOMAIN wave' = DOMAIN wave
        /\ \A v \in DOMAIN wave :
               wave'[v] = IF v \in G /\ wave[v].state # "Completed" THEN Advanced(wave[v])
                                                                    ELSE wave[v]
    BY <1>7 DEF PassBarrier
  <2>2. \A v \in G : v # w => wave[v].state = "AtBarrier"  BY <1>6, <1>7
  <2>3. ASSUME NEW v \in DOMAIN wave
        PROVE  Sound(v, wave'[v]) /\ wave'[v].cu = wave[v].cu
    <3>1. Sound(v, wave[v]) /\ v[1].kernel \in DOMAIN Kernel  BY DEF OrderInv, WavesOK
    <3>2. CASE v \in G /\ wave[v].state # "Completed"
      <4>1. wave'[v] = Advanced(wave[v])  BY <2>1, <3>2
      <4>2. Code(v)[wave[v].pc].op # "end"
        <5>1. CASE v = w  BY <5>1 DEF Op
        <5>2. CASE v # w  BY <2>2, <3>1, <3>2, <5>2 DEF Sound
        <5> QED  BY <5>1, <5>2
      <4> QED  BY <3>1, <4>1, <4>2, AdvancedSound
    <3>3. CASE ~ (v \in G /\ wave[v].state # "Completed")
      <4>1. wave'[v] = wave[v]  BY <2>1, <3>3
      <4> QED  BY <3>1, <4>1
    <3> QED  BY <3>2, <3>3
  <2>4. \A v \in DOMAIN wave : v # w /\ wave[v].state = "Running"
                               => v \in DOMAIN wave' /\ wave'[v] = wave[v]
    BY <2>1, <2>2
  <2>5. BusyOK'
    <3>1. BusyOK /\ c \in CU /\ w \in executing[c]  BY <1>1
    <3>2. pipe' = pipe /\ executing' = [executing EXCEPT ![c] = @ \ {w}]  BY <1>7
    <3> HIDE DEF there, G, x, y
    <3> QED  BY ONLY <3>1, <3>2, <2>4, BusyWithout
  <2>6. WavesOK'  BY <2>1, <2>3 DEF OrderInv, WavesOK
  <2>7. GroupsOK'  BY <2>1, <2>3, SameGroups DEF OrderInv
  <2> QED  BY <2>5, <2>6, <2>7 DEF OrderInv
<1>8. CASE wave' = there /\ executing' = [executing EXCEPT ![c] = @ \ {w}]
  <2>1. wave' = [wave EXCEPT ![w] = y]  BY <1>8
  <2> QED  BY <1>1, <1>4, <1>5, <1>8, <2>1, LeavesScheduler
<1>9. \/ \A v \in G : there[v].state = "AtBarrier"
      \/ Cardinality(barrierBuffer[c]) < BarrierBufferSize
  <2>1. Code(w)[wave[w].inst].op = "barrier"  BY <1>2 DEF Op
  <2>2. there[w].state = "AtBarrier"  BY <1>1, <1>4
  <2>3. (\A v \in Others(w) : wave[v].state = "AtBarrier")
        => \A v \in G : there[v].state = "AtBarrier"
    BY <1>6, <2>2 DEF Others
  <2> QED  BY <1>1, <2>1, <2>3 DEF RoomAtBarrier
<1> HIDE DEF there
<1> QED  BY <1>7, <1>8, <1>9 DEF EvalSBarrier, there

LEMMA EvalStep ==
    ASSUME OrderInv, RoomAtBarrier, NEW w \in DOMAIN wave, NEW c, c = wave[w].cu, Eval(w)
    PROVE  OrderInv'
<1> DEFINE x == wave[w]
           inst == Code(w)[x.inst]
<1>1. w \in executing[c] /\ UNCHANGED pipe  BY DEF Eval
<1>2. Sound(w, x) /\ w[1].kernel \in DOMAIN Kernel /\ c \in CU  BY DEF OrderInv, WavesOK, Sound
<1>3. x.inst = x.pc  BY <1>1, <1>2 DEF OrderInv, BusyOK, Runs, Sound
<1>4. inst.op = Op(w)  BY <1>3 DEF Op
<1>5. CASE inst.op = "end" /\ EvalSEndPgm(w)  BY <1>1, <1>5, EvalSEndPgmStep
<1>6. CASE inst.op = "barrier" /\ EvalSBarrier(w)  BY <1>1, <1>4, <1>6, EvalSBarrierStep
<1>7. CASE /\ inst.op # "end" /\ wave' = [wave EXCEPT ![w] = Advanced(x)]
           /\ executing' = [executing EXCEPT ![c] = @ \ {w}]
  <2>1. Sound(w, Advanced(x)) /\ Advanced(x).cu = x.cu
    BY <1>2, <1>3, <1>7, AdvancedSound
  <2> QED  BY <1>1, <1>2, <1>7, <2>1, LeavesScheduler
<1> QED  BY <1>5, <1>6, <1>7 DEF Eval

LEMMA MapWGStep ==
    ASSUME OrderInv, NewWorkGroups, NEW c \in CU, MapWG(c)
    PROVE  OrderInv'
<1> DEFINE m == Head(toACE[c])
           wg == m.wg
           G == Waves(wg)
           First(w) == [cu |-> c, simd |-> m.place[w[3]].simd, pc |-> 1, state |-> "Ready",
                        inst |-> 0, buf |-> <<>>, from |-> 0, fetching |-> FALSE,
                        smem |-> 0, vmem |-> 0]
<1>1. toACE[c] # <<>> /\ UNCHANGED <<pipe, executing>>
      /\ wave' = [w \in G \cup DOMAIN wave |-> IF w \in G THEN First(w) ELSE wave[w]]
  BY DEF MapWG, unitVars
<1>2. wg[1].kernel \in DOMAIN Kernel /\ G \cap DOMAIN wave = {}  BY <1>1 DEF NewWorkGroups
<1>3. /\ DOMAIN wave' = G \cup DOMAIN wave
      /\ \A w \in G : wave'[w] = First(w)
      /\ \A w \in DOMAIN wave : wave'[w] = wave[w]
  <2> HIDE DEF First, G
  <2>1. \A w \in DOMAIN wave : w \notin G  BY <1>2
  <2> QED  BY <1>1, <2>1
<1> HIDE DEF m, wg
<1>4. ASSUME NEW w \in G
      PROVE  w[1].kernel \in DOMAIN Kernel /\ Waves(WGOf(w)) = G
  BY <1>2 DEF Waves, WGOf
<1>5. ASSUME NEW w \in G  PROVE Sound(w, First(w))
  <2> DEFINE y == First(w)
  <2>1. /\ DOMAIN y = WaveField /\ y.cu = c /\ y.state = "Ready" /\ y.pc = 1
        /\ y.buf = <<>> /\ y.from = 0
    BY DEF WaveField
  <2>2. 1 \in DOMAIN Code(w)  BY <1>4, ProgramsEnd
  <2>3. Line(1) \in Nat  BY Lines
  <2> HIDE DEF y
  <2>4. 0 <= Line(1)  BY <2>3
  <2>5. Consecutive(<<>>, 0)  BY NoLines
  <2>6. Sound(w, y)  BY <2>1, <2>2, <2>4, <2>5 DEF Sound, States
  <2> QED  BY <2>6 DEF y
<1>6. \A w \in G : First(w).cu = c  OBVIOUS
<1> HIDE DEF First, G
<1>7. WavesOK'
  <2>1. ASSUME NEW w \in DOMAIN wave'
        PROVE  w[1].kernel \in DOMAIN Kernel /\ Sound(w, wave'[w])
    <3>1. CASE w \in G  BY <1>3, <1>4, <1>5, <3>1
    <3>2. CASE w \in DOMAIN wave  BY <1>3, <3>2 DEF OrderInv, WavesOK
    <3> QED  BY <1>3, <2>1, <3>1, <3>2
  <2> QED  BY <2>1 DEF WavesOK
<1>8. GroupsOK'
  <2>1. ASSUME NEW w \in DOMAIN wave'
        PROVE  /\ w \in Waves(WGOf(w))
               /\ \A v \in Waves(WGOf(w)) : v \in DOMAIN wave' /\ wave'[v].cu = wave'[w].cu
    <3>1. CASE w \in G
      <4>1. Waves(WGOf(w)) = G  BY <1>4, <3>1
      <4> QED  BY <1>3, <1>6, <3>1, <4>1
    <3>2. CASE w \in DOMAIN wave  BY <1>3, <3>2 DEF OrderInv, GroupsOK
    <3> QED  BY <1>3, <2>1, <3>1, <3>2
  <2> QED  BY <2>1 DEF GroupsOK
<1>9. BusyOK'
  <2>1. \A v : \A d \in CU : v \in executing[d] \/ (\E u \in Unit : v \in Range(pipe[d][u]))
                             => v \in DOMAIN wave
    BY DEF OrderInv, BusyOK, Runs
  <2>2. DOMAIN executing' = CU /\ \A d \in CU : executing'[d] \subseteq executing[d]
    BY <1>1 DEF OrderInv, BusyOK
  <2> QED  BY <1>1, <1>3, <2>1, <2>2, BusyKept DEF OrderInv
<1> QED  BY <1>7, <1>8, <1>9 DEF OrderInv

\* After a flush nothing runs on the compute unit.
LEMMA FlushStep == ASSUME OrderInv, NEW c \in CU, Flush(c) PROVE OrderInv'
<1> DEFINE Again(x) == [x EXCEPT !.state = "Ready", !.fetching = FALSE]
           empty == [u \in Unit |-> <<>>]
<1>1. /\ wave' = [w \in DOMAIN wave |->
             IF wave[w].cu = c /\ wave[w].state # "Completed" THEN Again(wave[w]) ELSE wave[w]]
      /\ pipe' = [pipe EXCEPT ![c] = empty]
      /\ executing' = [executing EXCEPT ![c] = {}]
  BY DEF Flush
<1>2. BusyOK /\ DOMAIN wave' = DOMAIN wave  BY <1>1 DEF OrderInv
<1>3. ASSUME NEW w \in DOMAIN wave
      PROVE  Sound(w, wave'[w]) /\ wave'[w].cu = wave[w].cu
  <2> DEFINE x == wave[w]
             y == Again(x)
  <2>1. Sound(w, x)  BY DEF OrderInv, WavesOK
  <2>2. DOMAIN x = WaveField  BY <2>1 DEF Sound
  <2>3. /\ DOMAIN y = WaveField /\ y.cu = x.cu /\ y.state = "Ready" /\ y.pc = x.pc
        /\ y.inst = x.inst /\ y.buf = x.buf /\ y.from = x.from
    BY <2>2 DEF WaveField
  <2>4. wave'[w] = y \/ wave'[w] = x  BY <1>1
  <2> HIDE DEF y
  <2>5. Sound(w, y)  BY <2>1, <2>3 DEF Sound, States
  <2> QED  BY <2>1, <2>3, <2>4, <2>5
<1>4. WavesOK'  BY <1>2, <1>3 DEF OrderInv, WavesOK
<1>5. GroupsOK'  BY <1>2, <1>3, SameGroups DEF OrderInv
<1>6. \A w \in DOMAIN wave : wave[w].cu # c => wave'[w] = wave[w]  BY <1>1
<1>7. /\ DOMAIN executing' = CU /\ executing'[c] = {}
      /\ \A d \in CU : d # c => executing'[d] = executing[d]
  BY <1>1, <1>2 DEF BusyOK
<1>8. /\ DOMAIN pipe' = CU /\ pipe'[c] = empty
      /\ \A d \in CU : d # c => pipe'[d] = pipe[d]
  BY <1>1, <1>2 DEF BusyOK
<1>9. ASSUME NEW d \in CU, NEW w, Runs(w, d), d # c
      PROVE  Runs(w, d)' /\ Op(w)' = Op(w)
  BY <1>2, <1>6, <1>9 DEF Runs, Op
<1>10. ASSUME NEW d \in CU, NEW w \in executing'[d]  PROVE Runs(w, d)'
  <2>1. d # c /\ w \in executing[d]  BY <1>7, <1>10
  <2>2. Runs(w, d)  BY <1>2, <2>1 DEF BusyOK
  <2> QED  BY <1>9, <2>1, <2>2
<1>11. ASSUME NEW d \in CU, NEW u \in Unit
       PROVE  /\ pipe'[d][u] \in Seq(DOMAIN wave') /\ IsInjective(pipe'[d][u])
              /\ \A w \in Range(pipe'[d][u]) :
                     Runs(w, d)' /\ Op(w)' # "end" /\ w \notin executing'[d]
  <2>1. CASE d = c
    <3>1. pipe'[d][u] = <<>>  BY <1>8, <2>1
    <3>2. <<>> \in Seq(DOMAIN wave') /\ IsInjective(<<>>) /\ Range(<<>>) = {}
      BY DEF IsInjective, Range
    <3> QED  BY <3>1, <3>2
  <2>2. CASE d # c
    <3>1. /\ pipe[d][u] \in Seq(DOMAIN wave) /\ IsInjective(pipe[d][u])
          /\ \A w \in Range(pipe[d][u]) : Runs(w, d) /\ Op(w) # "end" /\ w \notin executing[d]
      BY <1>2 DEF BusyOK
    <3> QED  BY <1>2, <1>7, <1>8, <1>9, <2>2, <3>1
  <2> QED  BY <2>1, <2>2
<1>12. ASSUME NEW d \in CU, NEW u \in Unit, NEW v \in Unit, u # v
       PROVE  Range(pipe'[d][u]) \cap Range(pipe'[d][v]) = {}
  <2>1. CASE d = c
    <3>1. pipe'[d][u] = <<>>  BY <1>8, <2>1
    <3> QED  BY <3>1 DEF Range
  <2>2. CASE d # c  BY <1>2, <1>8, <1>12, <2>2 DEF BusyOK
  <2> QED  BY <2>1, <2>2
<1>13. \A d \in CU : DOMAIN pipe'[d] = Unit  BY <1>2, <1>8 DEF BusyOK
<1>14. BusyOK'  BY <1>7, <1>8, <1>10, <1>11, <1>12, <1>13 DEF BusyOK
<1> QED  BY <1>4, <1>5, <1>14 DEF OrderInv

-------------------------------------------------------------------------------
(* All steps of the system *)

CUSame == UNCHANGED <<wave, pipe, executing>>

LEMMA Unaffected == ASSUME OrderInv, CUSame PROVE OrderInv'
<1>1. UNCHANGED <<pipe, executing>> /\ wave' = wave  BY DEF CUSame
<1>2. DOMAIN wave' = DOMAIN wave /\ \A v \in DOMAIN wave : wave'[v] = wave[v]  BY <1>1
<1> QED  BY <1>1, <1>2, NothingChanges

LEMMA ElsewhereSame ==
    /\ DispatchStep => CUSame
    /\ CPStep => CUSame
    /\ DriverStep => CUSame
    /\ MMUStep => CUSame
    /\ Finished => CUSame
<1>1. DispatchStep => CUSame
  BY Zenon DEF DispatchStep, DispatchNextWG, CompleteKernel, WGCompletion, cuVars, waveVars,
         unitVars, CUSame
<1>2. CPStep => CUSame
  BY DEF CPStep, LaunchKernel, FlushReq, MemCopy, ShootDown, GPURestart, HandOn, InternalRsp,
         ParseFromCP, ParseFromMem, CUFlushRsp, CURestartRsp, cuVars, waveVars, unitVars, CUSame
<1>3. DriverStep => CUSame
  <2>1. StartCommand => CUSame  BY DEF StartCommand, gpuVars, cuVars, waveVars, unitVars, CUSame
  <2>2. Send => CUSame  BY DEF Send, gpuVars, cuVars, waveVars, unitVars, CUSame
  <2>3. Deliver => CUSame  BY DEF Deliver, cuVars, waveVars, unitVars, CUSame
  <2>4. ParseFromMMU => CUSame  BY DEF ParseFromMMU, gpuVars, cuVars, waveVars, unitVars, CUSame
  <2>5. ASSUME NEW g \in GPU, ReturnReq(g) PROVE CUSame
    BY <2>5 DEF ReturnReq, cuVars, waveVars, unitVars, CUSame
  <2> QED  BY <2>1, <2>2, <2>3, <2>4, <2>5 DEF DriverStep
<1>4. MMUStep => CUSame  BY DEF MMUStep, gpuVars, cuVars, waveVars, unitVars, CUSame
<1>5. Finished => CUSame
  BY DEF Finished, vars, gpuVars, cuVars, waveVars, unitVars, CUSame
<1> QED  BY <1>1, <1>2, <1>3, <1>4, <1>5

LEMMA MemorySame == MemoryStep => CUSame
<1> SUFFICES ASSUME NEW g \in GPU,
                    \/ Miss(g) \/ OrphanWrite(g) \/ AddressTranslator(g) \/ TLBStep(g)
                    \/ RDMAStep(g) \/ PMCStep(g) \/ \E k \in Cache : CacheStep(g, k)
             PROVE  CUSame
  BY DEF MemoryStep
<1>1. UNCHANGED cuVars \/ UNCHANGED gpuVars => CUSame
  BY DEF gpuVars, cuVars, waveVars, unitVars, CUSame
<1>2. \A k, rsp : Answer(g, k, rsp) => CUSame
  BY DEF Answer, cuVars, waveVars, unitVars, CUSame
<1>3. Miss(g) => CUSame  BY <1>1 DEF Miss
<1>4. OrphanWrite(g) => CUSame  BY <1>1 DEF OrphanWrite
<1>5. AddressTranslator(g) => CUSame  BY <1>2 DEF AddressTranslator
<1>6. TLBStep(g) => CUSame  BY <1>2 DEF TLBStep
<1>7. RDMAStep(g) => CUSame  BY <1>1, <1>2 DEF RDMAStep
<1>8. PMCStep(g) => CUSame  BY <1>1, <1>2 DEF PMCStep
<1>9. ASSUME NEW k \in Cache, CacheStep(g, k) PROVE CUSame  BY <1>2, <1>9 DEF CacheStep
<1> QED  BY <1>3, <1>4, <1>5, <1>6, <1>7, <1>8, <1>9

LEMMA OrderInit == Init => OrderInv
<1> SUFFICES ASSUME Init PROVE OrderInv  OBVIOUS
<1>1. /\ wave = <<>> /\ pipe = [c \in CU |-> [u \in Unit |-> <<>>]]
      /\ executing = [c \in CU |-> {}]
  BY DEF Init, ComputeUnitInit
<1>2. DOMAIN wave = {}  BY <1>1
<1>3. WavesOK /\ GroupsOK  BY <1>2 DEF WavesOK, GroupsOK
<1>4. ASSUME NEW c \in CU, NEW u \in Unit
      PROVE  pipe[c][u] = <<>> /\ pipe[c][u] \in Seq(DOMAIN wave) /\ IsInjective(pipe[c][u])
             /\ Range(pipe[c][u]) = {}
  <2>1. pipe[c][u] = <<>>  BY <1>1
  <2>2. <<>> \in Seq(DOMAIN wave) /\ IsInjective(<<>>) /\ Range(<<>>) = {}
    BY DEF IsInjective, Range
  <2> QED  BY <2>1, <2>2
<1>5. /\ DOMAIN pipe = CU /\ DOMAIN executing = CU
      /\ \A c \in CU : DOMAIN pipe[c] = Unit /\ executing[c] = {}
  BY <1>1
<1>6. BusyOK  BY <1>4, <1>5 DEF BusyOK
<1> QED  BY <1>3, <1>6 DEF OrderInv

LEMMA OrderStep ==
    ASSUME OrderInv, RoomAtBarrier, NewWorkGroups, [Next]_vars
    PROVE  OrderInv'
<1>1. CASE CUs
  <2>1. PICK c \in CU : CUStep(c) \/ FlushCU(c) \/ Translate(c) \/ Return(c)  BY <1>1 DEF CUs
  <2>2. CASE CUStep(c)
    <3>1. CASE \E w \in On(c) : Fetch(w) \/ Issue(w) \/ Eval(w) \/ \E u \in Unit : Retire(c, u, w)
      <4>1. PICK w \in On(c) :
                Fetch(w) \/ Issue(w) \/ Eval(w) \/ \E u \in Unit : Retire(c, u, w)
        BY <3>1
      <4>2. w \in DOMAIN wave /\ c = wave[w].cu  BY DEF On
      <4> QED  BY <4>1, <4>2, FetchStep, IssueStep, EvalStep, RetireStep
    <3>2. CASE FetchReturn(c)  BY <3>2, FetchReturnStep
    <3>3. CASE ScalarReturn(c)  BY <3>3, ScalarReturnStep
    <3>4. CASE MapWG(c)  BY <3>4, MapWGStep
    <3>5. CASE Resume(c) \/ Resend(c) \/ Unpause(c)
      <4>1. CUSame  BY <3>5 DEF Resume, Resend, Unpause, waveVars, unitVars, CUSame
      <4> QED  BY <4>1, Unaffected
    <3> QED  BY <2>2, <3>1, <3>2, <3>3, <3>4, <3>5 DEF CUStep
  <2>3. CASE FlushCU(c)  BY <2>3, FlushStep DEF FlushCU
  <2>4. CASE Translate(c)
    <3>1. CUSame  BY <2>4 DEF Translate, waveVars, unitVars, CUSame
    <3> QED  BY <3>1, Unaffected
  <2>5. CASE Return(c)
    <3>1. VectorReturn(c)  BY <2>5 DEF Return
    <3> QED  BY <3>1, VectorReturnStep
  <2> QED  BY <2>1, <2>2, <2>3, <2>4, <2>5
<1>2. CASE DispatchStep \/ CPStep \/ DriverStep \/ MemoryStep \/ MMUStep \/ Finished
  BY <1>2, ElsewhereSame, MemorySame, Unaffected
<1>3. CASE UNCHANGED vars
  <2>1. CUSame  BY <1>3 DEF vars, gpuVars, cuVars, waveVars, unitVars, CUSame
  <2> QED  BY <2>1, Unaffected
<1> QED  BY <1>1, <1>2, <1>3 DEF Next

-------------------------------------------------------------------------------
(* No work-group is dispatched twice *)

\* The launches among the messages of a queue; a queue has none twice.
Launches(q) == {q[i].launch : i \in {j \in DOMAIN q : q[j].type = "Launch"}}
IsQueue(q) ==
    /\ q \in Seq(Range(q))
    /\ \A i, j \in DOMAIN q : (i # j /\ q[i].type = "Launch" /\ q[j].type = "Launch")
                              => q[i].launch # q[j].launch

\* The launches that no dispatcher has taken: each is in one place, and its ID is used.
Pending == Launches(toSend) \cup Launches(wire) \cup UNION {Launches(fromDriver[g]) : g \in GPU}
Known(l) == l \in LaunchReq /\ l.id < nextID

PendingOK ==
    /\ \A q \in {toSend, wire, awaiting, moves} : IsQueue(q)
    /\ Launches(awaiting) = {} /\ Launches(moves) = {}
    /\ Launches(toSend) \cap Launches(wire) = {}
    /\ DOMAIN fromDriver = GPU
    /\ \A g \in GPU :
           /\ fromDriver[g] # <<>> => fromDriver[g] = <<Head(fromDriver[g])>>
           /\ Launches(fromDriver[g]) \cap (Launches(toSend) \cup Launches(wire)) = {}
    /\ \A g, h \in GPU : g # h => Launches(fromDriver[g]) \cap Launches(fromDriver[h]) = {}
    /\ nextID \in Nat /\ \A l \in Pending : Known(l)

\* The commands of the queues.
QueueField == {"cmds", "running", "reqs"}
QueuesOK ==
    \A q \in DOMAIN queues :
        LET x == queues[q] IN
        /\ DOMAIN x = QueueField
        /\ x.cmds \in Seq(Range(x.cmds)) /\ \A c \in Range(x.cmds) : IsCommand(c)
        /\ x.reqs # {} => x.cmds # <<>> /\ x.running

\* The work-groups of a launch that its dispatcher has counted.
Counted(x) ==
    IF algorithm = "partition"
    THEN UNION {{x.launch.from + (i - 1) * PerPartition(x) + n : n \in 0 .. x.part[i].count - 1} :
                    i \in DOMAIN x.part}
    ELSE {x.launch.from + n : n \in 0 .. x.part[1].count - 1}

DispField == {"launch", "sent", "completed", "nextCU", "part", "curr", "inflight"}

\* What partition i holds is its next work-group, and there is one.
HoldsNext(x) ==
    \A i \in DOMAIN x.part :
        /\ x.part[i].count # 0 => x.part[i].count <= PerPartition(x)
        /\ x.part[i].held # 0 => x.part[i].held = NextOf(x, i)
                                 /\ x.part[i].count < PerPartition(x)

\* The dispatcher x of GPU g.
Sane(x, g) ==
    /\ DOMAIN x = DispField
    /\ x.nextCU \in Int
    /\ x.part \in [1 .. NumCU[g] -> [count : Nat, held : Int]]
    /\ x.launch = NoLaunch => x = [Idle(g) EXCEPT !.nextCU = x.nextCU]
    /\ x.launch # NoLaunch => Known(x.launch) /\ x.launch \notin Pending
    /\ x.curr # <<>> => LET wg == x.curr[1].wg IN
           /\ x.curr = <<x.curr[1]>>
           /\ wg = <<x.launch, wg[2]>> /\ wg[2] \in Counted(x)
    /\ (x.launch # NoLaunch /\ algorithm = "partition") => HoldsNext(x)

DispatchersOK ==
    /\ DOMAIN disp = Dispatchers
    /\ \A d \in Dispatchers : Sane(disp[d], d[1])
    /\ \A d, e \in Dispatchers :
           (d # e /\ disp[d].launch # NoLaunch) => disp[d].launch # disp[e].launch

\* The work-groups that have left the dispatchers.
Out == {WGOf(w) : w \in DOMAIN wave} \cup UNION {{m.wg : m \in Range(toACE[c])} : c \in CU}

OutOK ==
    /\ DOMAIN toACE = CU
    /\ \A c \in CU :
           /\ toACE[c] \in Seq(Range(toACE[c]))
           /\ \A i \in DOMAIN toACE[c] :
                  LET wg == toACE[c][i].wg IN
                  /\ wg = <<wg[1], wg[2]>>
                  /\ \A k \in CU : \A j \in DOMAIN toACE[k] :
                         toACE[k][j].wg = wg => k = c /\ j = i
                  /\ \A w \in DOMAIN wave : WGOf(w) # wg
    /\ \A wg \in Out : Known(wg[1]) /\ wg[1] \notin Pending
    /\ \A d \in Dispatchers :
           /\ \A wg \in Out : wg[1] = disp[d].launch => wg[2] \in Counted(disp[d])
           /\ disp[d].curr # <<>> => disp[d].curr[1].wg \notin Out

FreshInv == PendingOK /\ QueuesOK /\ DispatchersOK /\ OutOK

LEMMA NoLaunches ==
    ASSUME NEW q, \A i \in DOMAIN q : q[i].type # "Launch", q \in Seq(Range(q))
    PROVE  IsQueue(q) /\ Launches(q) = {}
  BY DEF IsQueue, Launches

LEMMA RangeSeq == ASSUME NEW S, NEW q \in Seq(S) PROVE q \in Seq(Range(q))
<1>1. DOMAIN q = 1 .. Len(q) /\ Len(q) \in Nat  BY SeqType
<1>2. \A i \in 1 .. Len(q) : q[i] \in Range(q)  BY <1>1 DEF Range
<1>3. q = [i \in 1 .. Len(q) |-> q[i]]  BY <1>1
<1> QED  BY <1>1, <1>2, <1>3

LEMMA QueueTail ==
    ASSUME NEW q, IsQueue(q), q # <<>>
    PROVE  /\ IsQueue(Tail(q)) /\ Launches(Tail(q)) \subseteq Launches(q)
           /\ Head(q).type = "Launch" => /\ Head(q).launch \in Launches(q)
                                         /\ Head(q).launch \notin Launches(Tail(q))
<1>1. /\ q \in Seq(Range(q)) /\ Len(q) \in Nat \ {0} /\ DOMAIN q = 1 .. Len(q)
      /\ Head(q) = q[1] /\ Tail(q) \in Seq(Range(q)) /\ DOMAIN Tail(q) = 1 .. Len(q) - 1
      /\ \A i \in 1 .. Len(q) - 1 : Tail(q)[i] = q[i + 1]
  BY SeqType, TailElements DEF IsQueue
<1>2. \A i \in DOMAIN Tail(q) : i + 1 \in DOMAIN q /\ i + 1 # 1 /\ Tail(q)[i] = q[i + 1]
  BY <1>1
<1>3. 1 \in DOMAIN q  BY <1>1
<1>4. \A i, j \in DOMAIN Tail(q) : i # j => i + 1 # j + 1  BY <1>1
<1>5. Tail(q) \in Seq(Range(Tail(q)))  BY <1>1, RangeSeq
<1>6. IsQueue(Tail(q))  BY <1>2, <1>4, <1>5 DEF IsQueue
<1>7. Launches(Tail(q)) \subseteq Launches(q)  BY <1>2 DEF Launches
<1>8. ASSUME Head(q).type = "Launch"
      PROVE  Head(q).launch \in Launches(q) /\ Head(q).launch \notin Launches(Tail(q))
  BY <1>1, <1>2, <1>3, <1>8 DEF IsQueue, Launches
<1> QED  BY <1>6, <1>7, <1>8

LEMMA QueueConcat ==
    ASSUME NEW q, NEW r, IsQueue(q), IsQueue(r), Launches(q) \cap Launches(r) = {}
    PROVE  IsQueue(q \o r) /\ Launches(q \o r) = Launches(q) \cup Launches(r)
<1> DEFINE s == q \o r  n == Len(q)
<1>1. /\ n \in Nat /\ Len(r) \in Nat /\ DOMAIN q = 1 .. n /\ DOMAIN r = 1 .. Len(r)
      /\ q \in Seq(Range(q) \cup Range(r)) /\ r \in Seq(Range(q) \cup Range(r))
  BY SeqType DEF IsQueue
<1>2. /\ s \in Seq(Range(q) \cup Range(r)) /\ DOMAIN s = 1 .. n + Len(r)
      /\ \A i \in 1 .. n : s[i] = q[i]
      /\ \A i \in 1 .. Len(r) : s[n + i] = r[i]
  BY <1>1, ConcatElements, SeqType
<1> HIDE DEF s, n
<1>3. \A i \in DOMAIN s : \/ i \in DOMAIN q /\ s[i] = q[i]
                          \/ i - n \in DOMAIN r /\ s[i] = r[i - n]
  <2> SUFFICES ASSUME NEW i \in DOMAIN s
               PROVE  \/ i \in DOMAIN q /\ s[i] = q[i]
                      \/ i - n \in DOMAIN r /\ s[i] = r[i - n]
    OBVIOUS
  <2>1. CASE i <= n  BY <1>1, <1>2, <2>1
  <2>2. CASE ~ (i <= n)
    <3>1. i - n \in 1 .. Len(r) /\ n + (i - n) = i  BY <1>1, <1>2, <2>2
    <3>2. s[n + (i - n)] = r[i - n]  BY <1>2, <3>1
    <3> QED  BY <1>1, <3>1, <3>2
  <2> QED  BY <2>1, <2>2
<1>4. \A i \in DOMAIN q : i \in DOMAIN s /\ s[i] = q[i]  BY <1>1, <1>2
<1>5. \A i \in DOMAIN r : n + i \in DOMAIN s /\ s[n + i] = r[i]  BY <1>1, <1>2
<1>6. s \in Seq(Range(s))  BY <1>2, RangeSeq
<1>7. ASSUME NEW i \in DOMAIN s, NEW j \in DOMAIN s, i # j,
             s[i].type = "Launch", s[j].type = "Launch"
      PROVE  s[i].launch # s[j].launch
  <2>1. \A k \in DOMAIN q : q[k].type = "Launch" => q[k].launch \in Launches(q)
    BY DEF Launches
  <2>2. \A k \in DOMAIN r : r[k].type = "Launch" => r[k].launch \in Launches(r)
    BY DEF Launches
  <2>3. i - n # j - n  BY <1>1, <1>2, <1>7
  <2> QED  BY <1>3, <1>7, <2>1, <2>2, <2>3 DEF IsQueue
<1>8. IsQueue(s)  BY <1>6, <1>7 DEF IsQueue
<1>9. Launches(s) = Launches(q) \cup Launches(r)
  <2>1. Launches(s) \subseteq Launches(q) \cup Launches(r)  BY <1>3 DEF Launches
  <2>2. Launches(q) \subseteq Launches(s)  BY <1>4 DEF Launches
  <2>3. Launches(r) \subseteq Launches(s)  BY <1>5 DEF Launches
  <2> QED  BY <2>1, <2>2, <2>3
<1> QED  BY <1>8, <1>9 DEF s

LEMMA OneMessage ==
    ASSUME NEW m
    PROVE  /\ IsQueue(<<m>>)
           /\ Launches(<<m>>) = IF m.type = "Launch" THEN {m.launch} ELSE {}
<1>1. DOMAIN <<m>> = {1} /\ <<m>>[1] = m /\ <<m>> \in Seq({m})  OBVIOUS
<1>2. <<m>> \in Seq(Range(<<m>>))  BY <1>1, RangeSeq
<1> QED  BY <1>1, <1>2 DEF IsQueue, Launches

LEMMA QueueAppend ==
    ASSUME NEW q, NEW m, IsQueue(q), m.type = "Launch" => m.launch \notin Launches(q)
    PROVE  /\ IsQueue(Append(q, m))
           /\ Launches(Append(q, m)) =
                  Launches(q) \cup IF m.type = "Launch" THEN {m.launch} ELSE {}
<1>1. /\ IsQueue(<<m>>)
      /\ Launches(<<m>>) = IF m.type = "Launch" THEN {m.launch} ELSE {}
  BY OneMessage
<1>2. Append(q, m) = q \o <<m>>
  <2> DEFINE S == Range(q) \cup {m}
  <2>1. q \in Seq(Range(q)) /\ Range(q) \subseteq S /\ m \in S  BY DEF IsQueue
  <2> HIDE DEF S
  <2>2. q \in Seq(S)  BY ONLY <2>1, Retyped
  <2> QED  BY ONLY <2>1, <2>2, AppendIsConcat
<1> QED  BY <1>1, <1>2, QueueConcat

\* A step of driver and command processors: a launch that is new in a queue has a new ID.
PendingStep ==
    /\ PendingOK' /\ nextID <= nextID'
    /\ \A l \in Pending' : l \in Pending \/ l.id >= nextID

pendingVars == <<toSend, wire, awaiting, moves, fromDriver, nextID>>

LEMMA PendingSame == ASSUME PendingOK, UNCHANGED pendingVars PROVE PendingStep
<1>1. Pending' = Pending  BY DEF pendingVars, Pending
<1>2. nextID \in Nat  BY DEF PendingOK
<1>3. PendingOK'  BY <1>1 DEF pendingVars, PendingOK, Known
<1> QED  BY <1>1, <1>2, <1>3 DEF pendingVars, PendingStep

LEMMA DriverQueues ==
    ASSUME PendingOK, IsQueue(toSend'), Launches(toSend') = Launches(toSend),
           IsQueue(awaiting'), Launches(awaiting') = {}, IsQueue(moves'), Launches(moves') = {},
           UNCHANGED <<wire, fromDriver>>, nextID' \in Nat, nextID <= nextID'
    PROVE  PendingStep
<1>1. Pending' = Pending  BY DEF Pending
<1>2. nextID \in Nat  BY DEF PendingOK
<1>3. \A l \in Pending : Known(l)'  BY <1>2 DEF PendingOK, Known, LaunchReq
<1>4. PendingOK'  BY <1>1, <1>3 DEF PendingOK
<1> QED  BY <1>1, <1>4 DEF PendingStep

LEMMA NewLaunches ==
    ASSUME PendingOK, NEW more, IsQueue(more), toSend' = toSend \o more,
           \A l \in Launches(more) : l \in LaunchReq /\ nextID <= l.id /\ l.id < nextID',
           UNCHANGED <<wire, awaiting, moves, fromDriver>>, nextID' \in Nat, nextID <= nextID'
    PROVE  PendingStep
<1>1. nextID \in Nat  BY DEF PendingOK
<1>2. \A l \in Launches(more) : l \notin Pending
  BY <1>1 DEF PendingOK, Known, LaunchReq
<1>3. IsQueue(toSend') /\ Launches(toSend') = Launches(toSend) \cup Launches(more)
  <2>1. Launches(toSend) \cap Launches(more) = {}  BY <1>2 DEF Pending
  <2> QED  BY <2>1, QueueConcat DEF PendingOK
<1>4. Pending' = Pending \cup Launches(more)  BY <1>3 DEF Pending
<1>5. \A l \in Pending' : Known(l)'
  BY <1>1, <1>4 DEF PendingOK, Known, LaunchReq
<1>6. /\ Launches(more) \cap Launches(wire) = {}
      /\ \A g \in GPU : Launches(fromDriver[g]) \cap Launches(more) = {}
  BY <1>2 DEF Pending
<1>7. PendingOK'
  <2>1. /\ \A q \in {toSend', wire', awaiting', moves'} : IsQueue(q)
        /\ Launches(awaiting') = {} /\ Launches(moves') = {}
    BY <1>3 DEF PendingOK
  <2>2. /\ Launches(toSend') \cap Launches(wire') = {}
        /\ \A g \in GPU :
               Launches(fromDriver'[g]) \cap (Launches(toSend') \cup Launches(wire')) = {}
    BY <1>3, <1>6 DEF PendingOK
  <2> QED  BY <1>5, <2>1, <2>2 DEF PendingOK
<1> QED  BY <1>4, <1>7 DEF PendingStep

LEMMA SendToGPUsStep ==
    ASSUME PendingOK, SendToGPUs, UNCHANGED fromDriver
    PROVE  PendingStep
<1> DEFINE m == Head(toSend)
           l == IF m.type = "Launch" THEN {m.launch} ELSE {}
<1>1. /\ toSend # <<>> /\ toSend' = Tail(toSend) /\ wire' = Append(wire, m)
      /\ UNCHANGED <<awaiting, moves, fromDriver, nextID>>
  BY DEF SendToGPUs
<1>2. /\ IsQueue(toSend') /\ Launches(toSend') \subseteq Launches(toSend)
      /\ l \subseteq Launches(toSend) /\ l \cap Launches(toSend') = {}
  BY <1>1, QueueTail DEF PendingOK
<1>3. IsQueue(wire') /\ Launches(wire') = Launches(wire) \cup l
  BY <1>1, <1>2, QueueAppend DEF PendingOK
<1> HIDE DEF m, l
<1>4. Pending' \subseteq Pending  BY <1>1, <1>2, <1>3 DEF Pending
<1>5. \A k \in Pending' : Known(k)'  BY <1>1, <1>4 DEF PendingOK, Known
<1>6. Launches(toSend') \cap Launches(wire') = {}  BY <1>2, <1>3 DEF PendingOK
<1>7. \A g \in GPU :
          Launches(fromDriver'[g]) \cap (Launches(toSend') \cup Launches(wire')) = {}
  BY <1>1, <1>2, <1>3 DEF PendingOK
<1>8. PendingOK'  BY <1>1, <1>2, <1>3, <1>5, <1>6, <1>7 DEF PendingOK
<1>9. nextID <= nextID'  BY <1>1 DEF PendingOK
<1> QED  BY <1>4, <1>8, <1>9 DEF PendingStep

LEMMA SendMigrationStep ==
    ASSUME PendingOK, SendMigrationReqToCP, UNCHANGED fromDriver
    PROVE  PendingStep
<1> DEFINE m == Head(moves)
<1>1. /\ moves # <<>> /\ moves' = Tail(moves) /\ wire' = Append(wire, m)
      /\ UNCHANGED <<awaiting, toSend, fromDriver, nextID>>
  BY DEF SendMigrationReqToCP
<1>2. IsQueue(moves') /\ Launches(moves') = {} /\ m.type # "Launch"
  BY <1>1, QueueTail DEF PendingOK
<1> HIDE DEF m
<1>3. IsQueue(wire') /\ Launches(wire') = Launches(wire)
  <2>1. IsQueue(wire)  BY DEF PendingOK
  <2>2. /\ IsQueue(Append(wire, m))
        /\ Launches(Append(wire, m)) = Launches(wire) \cup {}
    BY <1>2, <2>1, QueueAppend
  <2> QED  BY <1>1, <2>2
<1>4. Pending' = Pending  BY <1>1, <1>3 DEF Pending
<1>5. PendingOK'  BY <1>1, <1>2, <1>3, <1>4 DEF PendingOK, Known
<1>6. nextID <= nextID'  BY <1>1 DEF PendingOK
<1> QED  BY <1>4, <1>5, <1>6 DEF PendingStep

LEMMA DeliverStep == ASSUME PendingOK, Deliver PROVE PendingStep
<1> DEFINE m == Head(wire)
           g == m.gpu
           l == IF m.type = "Launch" THEN {m.launch} ELSE {}
<1>1. /\ wire # <<>> /\ wire' = Tail(wire) /\ fromDriver[g] = <<>>
      /\ fromDriver' = [fromDriver EXCEPT ![g] = <<m>>]
      /\ UNCHANGED <<awaiting, toSend, moves, nextID>>
  BY DEF Deliver
<1>2. /\ IsQueue(wire') /\ Launches(wire') \subseteq Launches(wire)
      /\ l \subseteq Launches(wire) /\ l \cap Launches(wire') = {}
  BY <1>1, QueueTail DEF PendingOK
<1>3. /\ DOMAIN fromDriver' = GPU
      /\ \A h \in GPU : fromDriver'[h] = IF h = g THEN <<m>> ELSE fromDriver[h]
  BY <1>1 DEF PendingOK
<1>4. Launches(<<m>>) = l  BY OneMessage
<1>5. \A h \in GPU : Launches(fromDriver'[h]) = IF h = g THEN l ELSE Launches(fromDriver[h])
  BY <1>3, <1>4
<1> HIDE DEF l
<1>6. Pending' \subseteq Pending  BY <1>1, <1>2, <1>5 DEF Pending
<1>7. \A k \in Pending' : Known(k)'  BY <1>1, <1>6 DEF PendingOK, Known
<1>8. \A h \in GPU :
          Launches(fromDriver'[h]) \cap (Launches(toSend') \cup Launches(wire')) = {}
  BY <1>1, <1>2, <1>5 DEF PendingOK
<1>9. \A h, k \in GPU : h # k => Launches(fromDriver'[h]) \cap Launches(fromDriver'[k]) = {}
  BY <1>2, <1>5 DEF PendingOK
<1>10. \A h \in GPU : fromDriver'[h] # <<>> => fromDriver'[h] = <<Head(fromDriver'[h])>>
  BY <1>3 DEF PendingOK
<1>11. Launches(toSend') \cap Launches(wire') = {}  BY <1>1, <1>2 DEF PendingOK
<1>12. PendingOK'
  BY <1>1, <1>2, <1>3, <1>7, <1>8, <1>9, <1>10, <1>11 DEF PendingOK
<1>13. nextID <= nextID'  BY <1>1 DEF PendingOK
<1> QED  BY <1>6, <1>12, <1>13 DEF PendingStep

LEMMA RetrieveStep ==
    ASSUME PendingOK, NEW g \in GPU, fromDriver[g] # <<>>, Retrieve(g),
           UNCHANGED <<toSend, wire, awaiting, moves, nextID>>
    PROVE  /\ PendingStep
           /\ Head(fromDriver[g]).type = "Launch" =>
                  Head(fromDriver[g]).launch \in Pending \ Pending'
<1> DEFINE m == Head(fromDriver[g])
<1>1. /\ fromDriver[g] = <<m>> /\ DOMAIN fromDriver' = GPU
      /\ \A h \in GPU : fromDriver'[h] = IF h = g THEN <<>> ELSE fromDriver[h]
  <2>1. fromDriver[g] = <<m>>  BY DEF PendingOK
  <2>2. Tail(<<m>>) = <<>>  OBVIOUS
  <2> QED  BY <2>1, <2>2 DEF PendingOK, Retrieve
<1>2. Launches(<<>>) = {}  BY DEF Launches
<1>3. Launches(<<m>>) = IF m.type = "Launch" THEN {m.launch} ELSE {}  BY OneMessage
<1> HIDE DEF m
<1>4. \A h \in GPU : Launches(fromDriver'[h]) = IF h = g THEN {} ELSE Launches(fromDriver[h])
  BY <1>1, <1>2
<1>5. Pending' \subseteq Pending  BY <1>4 DEF Pending
<1>6. \A k \in Pending' : Known(k)'  BY <1>5 DEF PendingOK, Known
<1>7. PendingOK'
  <2>1. \A h \in GPU :
            /\ fromDriver'[h] # <<>> => fromDriver'[h] = <<Head(fromDriver'[h])>>
            /\ Launches(fromDriver'[h]) \cap (Launches(toSend') \cup Launches(wire')) = {}
    BY <1>1, <1>4 DEF PendingOK
  <2>2. \A h, k \in GPU : h # k => Launches(fromDriver'[h]) \cap Launches(fromDriver'[k]) = {}
    BY <1>4 DEF PendingOK
  <2> QED  BY <1>1, <1>6, <2>1, <2>2 DEF PendingOK
<1>8. m.type = "Launch" => m.launch \in Pending \ Pending'
  <2> SUFFICES ASSUME m.type = "Launch" PROVE m.launch \in Pending \ Pending'  OBVIOUS
  <2>1. m.launch \in Launches(fromDriver[g])  BY <1>1, <1>3
  <2>2. m.launch \notin Launches(toSend) \cup Launches(wire)  BY <2>1 DEF PendingOK
  <2>3. \A h \in GPU : m.launch \notin Launches(fromDriver'[h])  BY <1>4, <2>1 DEF PendingOK
  <2> QED  BY <2>1, <2>2, <2>3 DEF Pending
<1>9. nextID <= nextID'  BY DEF PendingOK
<1> QED  BY <1>5, <1>7, <1>8, <1>9 DEF PendingStep, m

-------------------------------------------------------------------------------
(* The commands of the driver *)

LEMMA FunctionSeq ==
    ASSUME NEW n \in Nat, NEW S, NEW q \in [1 .. n -> S]
    PROVE  q \in Seq(Range(q)) /\ DOMAIN q = 1 .. n
<1>1. q \in Seq(S) /\ DOMAIN q = 1 .. n  OBVIOUS
<1>2. q \in Seq(Range(q))  BY ONLY <1>1, RangeSeq
<1> QED  BY <1>1, <1>2

LEMMA OrderQueue ==
    ASSUME NEW msg, NEW S, "type" \in DOMAIN msg, msg.type # "Launch"
    PROVE  IsQueue(Order(msg, S)) /\ Launches(Order(msg, S)) = {}
<1> DEFINE size == Cardinality(S \cap GPU)
           To(i) == CHOOSE g \in S : Cardinality({h \in S \cap GPU : h <= g}) = i
           order == Order(msg, S)
<1>1. size \in Nat
  <2>1. NumGPU \in Int  BY ComputeUnitAssumption
  <2>2. IsFiniteSet(GPU)  BY <2>1, FS_Interval DEF GPU
  <2>3. IsFiniteSet(S \cap GPU)  BY <2>2, FS_Subset
  <2> QED  BY <2>3, FS_CardinalityType
<1>2. order = [i \in 1 .. size |-> [msg EXCEPT !.gpu = To(i)]]  BY DEF Order
<1> HIDE DEF size, order, To
<1>3. \A i \in 1 .. size : order[i].type = msg.type
  <2> SUFFICES ASSUME NEW i \in 1 .. size PROVE order[i].type = msg.type  OBVIOUS
  <2>1. order[i] = [msg EXCEPT !.gpu = To(i)]  BY <1>2
  <2>2. [msg EXCEPT !.gpu = To(i)].type = msg.type  OBVIOUS
  <2> QED  BY <2>1, <2>2
<1>4. \A i \in DOMAIN order : order[i].type # "Launch"  BY <1>2, <1>3
<1>5. order \in Seq(Range(order))
  <2> DEFINE T == {[msg EXCEPT !.gpu = To(i)] : i \in 1 .. size}
  <2>1. order \in [1 .. size -> T]  BY <1>2
  <2> HIDE DEF T
  <2> QED  BY <1>1, <2>1, FunctionSeq
<1> QED  BY <1>4, <1>5, NoLaunches DEF order

LEMMA MoreMessages ==
    ASSUME NEW q, NEW more, IsQueue(q), IsQueue(more), Launches(more) = {}
    PROVE  IsQueue(q \o more) /\ Launches(q \o more) = Launches(q)
  BY QueueConcat

LEMMA CommandStarts ==
    ASSUME QueuesOK, NEW q \in DOMAIN queues, NEW type, CanStart(q, type), NEW reqs,
           queues' = [queues EXCEPT ![q].running = TRUE, ![q].reqs = reqs]
    PROVE  QueuesOK' /\ IsCommand(Current(q)) /\ Current(q).type = type
<1>1. queues[q].cmds # <<>>  BY DEF CanStart
<1>2. Current(q) \in Range(queues[q].cmds)  BY <1>1, TailRange DEF QueuesOK, Current
<1>3. DOMAIN queues' = DOMAIN queues
  OBVIOUS
<1>4. ASSUME NEW p \in DOMAIN queues'
      PROVE  /\ DOMAIN queues'[p] = QueueField /\ queues'[p].cmds = queues[p].cmds
             /\ queues'[p].reqs # {} => queues'[p].cmds # <<>> /\ queues'[p].running
  <2>1. DOMAIN queues[p] = QueueField  BY <1>3 DEF QueuesOK
  <2>2. CASE p # q  BY <1>3, <2>2 DEF QueuesOK
  <2>3. CASE p = q  BY <1>1, <2>1, <2>3 DEF QueueField
  <2> QED  BY <2>2, <2>3
<1>5. QueuesOK'  BY <1>3, <1>4 DEF QueuesOK
<1> QED  BY <1>2, <1>5 DEF QueuesOK, CanStart

LEMMA NoopStep ==
    ASSUME QueuesOK, PendingOK, NEW q \in DOMAIN queues, Noop(q), UNCHANGED fromDriver
    PROVE  QueuesOK' /\ PendingStep
<1>1. /\ queues[q].cmds # <<>> /\ ~ queues[q].running
      /\ queues' = [queues EXCEPT ![q].cmds = Tail(@)]
      /\ UNCHANGED pendingVars
  BY DEF Noop, CanStart, pendingVars
<1>2. DOMAIN queues' = DOMAIN queues  BY <1>1
<1>3. ASSUME NEW p \in DOMAIN queues'
      PROVE  LET x == queues'[p] IN
             /\ DOMAIN x = QueueField
             /\ x.cmds \in Seq(Range(x.cmds)) /\ \A c \in Range(x.cmds) : IsCommand(c)
             /\ x.reqs # {} => x.cmds # <<>> /\ x.running
  <2>1. DOMAIN queues[p] = QueueField  BY <1>2 DEF QueuesOK
  <2>2. CASE p # q  BY <1>1, <1>2, <2>2 DEF QueuesOK
  <2>3. CASE p = q
    <3>1. /\ DOMAIN queues'[p] = QueueField /\ queues'[p].cmds = Tail(queues[q].cmds)
          /\ queues'[p].reqs = queues[q].reqs
      BY <1>1, <2>1, <2>3 DEF QueueField
    <3>2. queues[q].reqs = {}  BY <1>1 DEF QueuesOK
    <3>3. queues[q].cmds \in Seq(Range(queues[q].cmds))  BY DEF QueuesOK
    <3>4. /\ Tail(queues[q].cmds) \in Seq(Range(queues[q].cmds))
          /\ Range(Tail(queues[q].cmds)) \subseteq Range(queues[q].cmds)
      BY <1>1, <3>3, TailElements, TailRange
    <3>5. Tail(queues[q].cmds) \in Seq(Range(Tail(queues[q].cmds)))  BY <3>4, RangeSeq
    <3> QED  BY <3>1, <3>2, <3>4, <3>5 DEF QueuesOK
  <2> QED  BY <2>2, <2>3
<1>4. QueuesOK'  BY <1>3 DEF QueuesOK
<1> QED  BY <1>1, <1>4, PendingSame

LEMMA CommandReturnStep ==
    ASSUME QueuesOK, NEW id, CommandReturn(id)
    PROVE  QueuesOK'
<1>1. PICK q \in DOMAIN queues :
          /\ id \in queues[q].reqs
          /\ queues' = [queues EXCEPT ![q] =
                 IF queues[q].reqs = {id}
                 THEN [cmds |-> Tail(queues[q].cmds), running |-> FALSE, reqs |-> {}]
                 ELSE [queues[q] EXCEPT !.reqs = @ \ {id}]]
  BY DEF CommandReturn
<1>2. DOMAIN queues' = DOMAIN queues  BY <1>1
<1>3. queues[q].cmds # <<>> /\ queues[q].running  BY <1>1 DEF QueuesOK
<1>4. ASSUME NEW p \in DOMAIN queues'
      PROVE  LET x == queues'[p] IN
             /\ DOMAIN x = QueueField
             /\ x.cmds \in Seq(Range(x.cmds)) /\ \A c \in Range(x.cmds) : IsCommand(c)
             /\ x.reqs # {} => x.cmds # <<>> /\ x.running
  <2>1. DOMAIN queues[p] = QueueField  BY <1>2 DEF QueuesOK
  <2>2. CASE p # q  BY <1>1, <1>2, <2>2 DEF QueuesOK
  <2>3. CASE p = q /\ queues[q].reqs = {id}
    <3>1. queues'[p] = [cmds |-> Tail(queues[q].cmds), running |-> FALSE, reqs |-> {}]
      BY <1>1, <2>3
    <3>2. queues[q].cmds \in Seq(Range(queues[q].cmds))  BY DEF QueuesOK
    <3>3. /\ Tail(queues[q].cmds) \in Seq(Range(queues[q].cmds))
          /\ Range(Tail(queues[q].cmds)) \subseteq Range(queues[q].cmds)
      BY <1>3, <3>2, TailElements, TailRange
    <3>4. Tail(queues[q].cmds) \in Seq(Range(Tail(queues[q].cmds)))  BY <3>3, RangeSeq
    <3> QED  BY <3>1, <3>3, <3>4 DEF QueuesOK, QueueField
  <2>4. CASE p = q /\ queues[q].reqs # {id}
    <3>1. queues'[p] = [queues[q] EXCEPT !.reqs = @ \ {id}]  BY <1>1, <2>4
    <3>2. /\ DOMAIN queues'[p] = QueueField /\ queues'[p].cmds = queues[q].cmds
          /\ queues'[p].running = queues[q].running
      BY <2>1, <2>4, <3>1 DEF QueueField
    <3> QED  BY <1>3, <3>2 DEF QueuesOK
  <2> QED  BY <2>2, <2>3, <2>4
<1> QED  BY <1>4 DEF QueuesOK

LEMMA LaunchStep ==
    ASSUME QueuesOK, PendingOK, NEW q \in DOMAIN queues, LaunchKernelCommand(q),
           UNCHANGED fromDriver
    PROVE  QueuesOK' /\ PendingStep
<1> DEFINE c == Current(q)
           m == LaunchMsg(c.gpu, nextID, c.kernel, 1, Kernel[c.kernel].wgs)
<1>1. /\ CanStart(q, "launch") /\ Start(q, {nextID}, <<m>>)
      /\ UNCHANGED <<awaiting, wire, moves, fromDriver>>
  BY DEF LaunchKernelCommand
<1>2. QueuesOK' /\ IsCommand(c) /\ c.type = "launch"
  BY <1>1, CommandStarts DEF Start
<1>3. c.kernel \in DOMAIN Kernel  BY <1>2 DEF IsCommand
<1>4. Kernel[c.kernel].wgs \in Nat  BY <1>3, KernelAssumption
<1>5. nextID \in Nat /\ nextID' = nextID + 1  BY <1>1, FS_Singleton DEF Start, PendingOK
<1>6. m.type = "Launch" /\ m.launch \in LaunchReq /\ m.launch.id = nextID
  BY <1>3, <1>4, <1>5 DEF LaunchMsg, LaunchReq
<1> HIDE DEF m
<1>7. IsQueue(<<m>>) /\ Launches(<<m>>) = {m.launch}  BY <1>6, OneMessage
<1>8. toSend' = toSend \o <<m>>  BY <1>1 DEF Start
<1>9. /\ nextID' \in Nat /\ nextID <= nextID'
      /\ \A l \in Launches(<<m>>) : l \in LaunchReq /\ nextID <= l.id /\ l.id < nextID'
  BY <1>5, <1>6, <1>7
<1>10. PendingStep  BY <1>1, <1>7, <1>8, <1>9, NewLaunches
<1> QED  BY <1>2, <1>10

LEMMA CUsFinite == IsFiniteSet(CU)
<1> DEFINE Of == [g \in GPU |-> {g} \X (1 .. NumCU[g])]
           Sets == {{g} \X (1 .. NumCU[g]) : g \in GPU}
<1>1. NumGPU \in Int /\ \A g \in GPU : NumCU[g] \in Int  BY ComputeUnitAssumption DEF GPU
<1>2. IsFiniteSet(GPU)  BY <1>1, FS_Interval DEF GPU
<1>3. Of \in Surjection(GPU, Sets)  BY DEF Surjection
<1>4. IsFiniteSet(Sets)
  <2> HIDE DEF Of, Sets
  <2> QED  BY <1>2, <1>3, FS_Surjection
<1>5. ASSUME NEW S \in Sets PROVE IsFiniteSet(S)
  <2>1. PICK g \in GPU : S = {g} \X (1 .. NumCU[g])  OBVIOUS
  <2>2. IsFiniteSet({g})  BY FS_Singleton
  <2>3. NumCU[g] \in Int /\ 1 \in Int  BY <1>1
  <2>4. IsFiniteSet(1 .. NumCU[g])  BY ONLY <2>3, FS_Interval
  <2> QED  BY <2>1, <2>2, <2>4, FS_Product
<1>6. CU = UNION Sets  BY DEF CU
<1> HIDE DEF Sets
<1> QED  BY <1>4, <1>5, <1>6, FS_UNION

LEMMA LastWGType ==
    ASSUME NEW gpus \in Seq(GPU), gpus # <<>>, NEW total \in Nat \ {0}, NEW i
    PROVE  LastWG(i, gpus, total) \in Nat
<1>1. \A n : CUCount(gpus, n) \in Nat
  <2> TAKE n
  <2> DEFINE S == {c \in CU : \E j \in 1 .. n : gpus[j] = c[1]}
  <2>1. IsFiniteSet(S)  BY CUsFinite, FS_Subset
  <2> QED  BY <2>1, FS_CardinalityType DEF CUCount
<1> DEFINE n == Len(gpus)
           S == {c \in CU : \E j \in 1 .. n : gpus[j] = c[1]}
<1>2. CUCount(gpus, n) # 0
  <2>1. n \in Nat \ {0} /\ gpus[1] \in GPU  OBVIOUS
  <2>2. NumCU[gpus[1]] \in Nat \ {0}  BY <2>1, ComputeUnitAssumption DEF GPU
  <2>3. <<gpus[1], 1>> \in CU  BY <2>1, <2>2 DEF CU
  <2>4. <<gpus[1], 1>> \in S  BY <2>1, <2>3
  <2>5. IsFiniteSet(S)  BY CUsFinite, FS_Subset
  <2> QED  BY <2>4, <2>5, FS_EmptySet DEF CUCount
<1> DEFINE perCU == (total - 1) \div CUCount(gpus, n) + 1
<1>3. perCU \in Nat  BY <1>1, <1>2
<1> HIDE DEF perCU
<1>4. CUCount(gpus, i) * perCU \in Nat  BY <1>1, <1>3
<1>5. Min({CUCount(gpus, i) * perCU, total}) \in {CUCount(gpus, i) * perCU, total}
  <2>1. CUCount(gpus, i) * perCU \in Int /\ total \in Int  BY <1>4
  <2> QED  BY ONLY <2>1, SmallerOfTwo
<1>6. LastWG(i, gpus, total) = Min({CUCount(gpus, i) * perCU, total})
  BY DEF LastWG, perCU
<1> QED  BY <1>4, <1>5, <1>6

LEMMA UnifiedStep ==
    ASSUME QueuesOK, PendingOK, NEW q \in DOMAIN queues, UnifiedLaunch(q), UNCHANGED fromDriver
    PROVE  QueuesOK' /\ PendingStep
<1> DEFINE c == Current(q)
           total == Kernel[c.kernel].wgs
           Bound(i) == LastWG(i, c.gpus, total)
           used == {i \in 1 .. Len(c.gpus) : Bound(i) > Bound(i - 1)}
           some == Cardinality(used)
           Msg(i) == LaunchMsg(c.gpus[i], nextID + i - 1, c.kernel, Bound(i - 1) + 1, Bound(i))
           more == [i \in 1 .. some |-> Msg(i)]
<1>1. /\ CanStart(q, "unified") /\ Start(q, nextID .. nextID + some - 1, more)
      /\ UNCHANGED <<awaiting, wire, moves, fromDriver>>
  BY DEF UnifiedLaunch
<1>2. QueuesOK' /\ IsCommand(c) /\ c.type = "unified"
  BY Zenon, <1>1, CommandStarts DEF Start
<1>3. c.kernel \in DOMAIN Kernel /\ c.gpus \in Seq(GPU) /\ c.gpus # <<>>
  BY <1>2 DEF IsCommand
<1>4. \A i : Bound(i) \in Nat
  <2>1. total \in Nat \ {0}  BY <1>3, KernelAssumption
  <2> QED  BY <1>3, <2>1, LastWGType
<1>5. some \in Nat
  <2>1. Len(c.gpus) \in Int  BY <1>3
  <2>2. IsFiniteSet(1 .. Len(c.gpus))  BY <2>1, FS_Interval
  <2>3. IsFiniteSet(used)  BY <2>2, FS_Subset
  <2> QED  BY <2>3, FS_CardinalityType
<1> HIDE DEF used, some, Bound
<1>6. nextID \in Nat /\ nextID' = nextID + some
  <2>1. nextID \in Nat  BY DEF PendingOK
  <2>2. Cardinality(nextID .. nextID + some - 1) = some  BY <1>5, <2>1, FS_Interval
  <2> QED  BY <1>1, <2>1, <2>2 DEF Start
<1>7. ASSUME NEW i \in 1 .. some
      PROVE  /\ Msg(i).type = "Launch" /\ Msg(i).launch \in LaunchReq
             /\ Msg(i).launch.id = nextID + i - 1
  BY <1>3, <1>4, <1>5, <1>6 DEF LaunchMsg, LaunchReq
<1> HIDE DEF Msg
<1>8. DOMAIN more = 1 .. some /\ \A i \in 1 .. some : more[i] = Msg(i)  OBVIOUS
<1>9. more \in Seq(Range(more))
  <2> DEFINE T == {Msg(i) : i \in 1 .. some}
  <2>1. more \in [1 .. some -> T]  OBVIOUS
  <2> HIDE DEF T, more
  <2> QED  BY <1>5, <2>1, FunctionSeq
<1> HIDE DEF more
<1>10. IsQueue(more)
  <2> SUFFICES ASSUME NEW i \in 1 .. some, NEW j \in 1 .. some, i # j
               PROVE  more[i].launch # more[j].launch
    BY <1>8, <1>9 DEF IsQueue
  <2>1. nextID + i - 1 # nextID + j - 1  BY <1>5, <1>6
  <2> QED  BY <1>7, <1>8, <2>1
<1>11. \A l \in Launches(more) : l \in LaunchReq /\ nextID <= l.id /\ l.id < nextID'
  <2> SUFFICES ASSUME NEW i \in 1 .. some
               PROVE  LET l == more[i].launch IN
                      l \in LaunchReq /\ nextID <= l.id /\ l.id < nextID'
    BY <1>8 DEF Launches
  <2>1. nextID <= nextID + i - 1 /\ nextID + i - 1 < nextID'  BY <1>5, <1>6
  <2> QED  BY <1>7, <1>8, <2>1
<1>12. toSend' = toSend \o more  BY <1>1 DEF Start
<1>13. nextID' \in Nat /\ nextID <= nextID'  BY <1>5, <1>6
<1>14. PendingStep  BY <1>1, <1>10, <1>11, <1>12, <1>13, NewLaunches
<1> QED  BY <1>2, <1>14

LEMMA MemCopyStep ==
    ASSUME QueuesOK, PendingOK, NEW q \in DOMAIN queues, MemCopyCommand(q), UNCHANGED fromDriver
    PROVE  QueuesOK' /\ PendingStep
<1> DEFINE c == Current(q)
           type == IF c.type = "h2d" THEN "H2D" ELSE "D2H"
           flush == Range(c.pages) \cap l2Dirty # {}
           first == nextID + IF flush THEN NumGPU ELSE 0
           Copy(i) == [type |-> type, gpu |-> DeviceOf(table[c.pages[i]].frame),
                       id |-> first + i - 1, frame |-> table[c.pages[i]].frame]
           reqs == [i \in DOMAIN c.pages |-> Copy(i)]
           FlushMsg(g) == [type |-> "Flush", gpu |-> g, id |-> nextID + g - 1]
           flushes == [g \in GPU |-> FlushMsg(g)]
           more == IF flush THEN flushes ELSE <<>>
<1>1. /\ CanStart(q, "h2d") \/ CanStart(q, "d2h")
      /\ Start(q, nextID .. first + Len(reqs) - 1, more)
      /\ awaiting' = awaiting \o reqs
      /\ UNCHANGED <<wire, moves, fromDriver>>
  BY DEF MemCopyCommand
<1>2. QueuesOK' /\ IsCommand(c) /\ c.type \in {"h2d", "d2h"}
  BY Zenon, <1>1, CommandStarts DEF Start
<1>3. c.pages \in Seq(Page)  BY <1>2 DEF IsCommand
<1>4. Len(c.pages) \in Nat /\ DOMAIN c.pages = 1 .. Len(c.pages)  BY <1>3, SeqType
<1>5. NumGPU \in Nat /\ GPU = 1 .. NumGPU  BY ComputeUnitAssumption DEF GPU
<1>6. nextID \in Nat /\ first \in Nat  BY <1>5 DEF PendingOK
<1> HIDE DEF c, flush
<1>7. \A i \in DOMAIN c.pages : reqs[i] = Copy(i) /\ Copy(i).type # "Launch"  OBVIOUS
<1>8. \A g \in GPU : flushes[g] = FlushMsg(g) /\ FlushMsg(g).type # "Launch"  OBVIOUS
<1>9. reqs \in Seq(Range(reqs)) /\ DOMAIN reqs = DOMAIN c.pages /\ Len(reqs) = Len(c.pages)
  <2> DEFINE n == Len(c.pages)
             T == {Copy(i) : i \in 1 .. n}
  <2>1. reqs \in [1 .. n -> T]  BY <1>4
  <2> HIDE DEF T, reqs
  <2>2. reqs \in Seq(Range(reqs)) /\ DOMAIN reqs = 1 .. n  BY <1>4, <2>1, FunctionSeq
  <2> QED  BY <1>4, <2>2, SeqType
<1>10. flushes \in Seq(Range(flushes)) /\ DOMAIN flushes = GPU
  <2> DEFINE T == {FlushMsg(g) : g \in 1 .. NumGPU}
  <2>1. flushes \in [1 .. NumGPU -> T]  BY <1>5
  <2> HIDE DEF T, flushes
  <2> QED  BY <1>5, <2>1, FunctionSeq
<1> HIDE DEF reqs, flushes, first
<1>11. nextID' \in Nat /\ nextID <= nextID'
  <2>1. Cardinality(nextID .. first + Len(reqs) - 1) \in Nat
    <3>1. nextID \in Int /\ first + Len(reqs) - 1 \in Int  BY <1>4, <1>6, <1>9
    <3>2. IsFiniteSet(nextID .. first + Len(reqs) - 1)  BY <3>1, FS_Interval
    <3> QED  BY <3>2, FS_CardinalityType
  <2>2. nextID' = nextID + Cardinality(nextID .. first + Len(reqs) - 1)  BY <1>1 DEF Start
  <2> QED  BY <1>6, <2>1, <2>2
<1>12. IsQueue(reqs) /\ Launches(reqs) = {}  BY <1>7, <1>9, NoLaunches
<1>13. IsQueue(flushes) /\ Launches(flushes) = {}  BY <1>8, <1>10, NoLaunches
<1>14. IsQueue(<<>>) /\ Launches(<<>>) = {}
  <2>1. <<>> \in Seq(Range(<<>>)) /\ DOMAIN <<>> = {}  OBVIOUS
  <2> QED  BY <2>1, NoLaunches
<1>15. IsQueue(more) /\ Launches(more) = {}  BY <1>13, <1>14
<1> HIDE DEF more
<1>16. IsQueue(toSend') /\ Launches(toSend') = Launches(toSend)
  BY <1>1, <1>15, MoreMessages DEF Start, PendingOK
<1>17. IsQueue(awaiting') /\ Launches(awaiting') = {}
  BY <1>1, <1>12, MoreMessages DEF PendingOK
<1>18. IsQueue(moves') /\ Launches(moves') = {}  BY <1>1 DEF PendingOK
<1>19. PendingStep  BY <1>1, <1>11, <1>16, <1>17, <1>18, DriverQueues
<1> QED  BY <1>2, <1>19

LEMMA CopyDelayStep == ASSUME PendingOK, CopyDelayOver, UNCHANGED fromDriver PROVE PendingStep
<1>1. /\ toSend' = toSend \o awaiting /\ awaiting' = <<>>
      /\ UNCHANGED <<wire, moves, fromDriver, nextID>>
  BY DEF CopyDelayOver
<1>2. IsQueue(<<>>) /\ Launches(<<>>) = {}
  <2>1. <<>> \in Seq(Range(<<>>)) /\ DOMAIN <<>> = {}  OBVIOUS
  <2> QED  BY <2>1, NoLaunches
<1>3. IsQueue(toSend') /\ Launches(toSend') = Launches(toSend)
  BY <1>1, MoreMessages DEF PendingOK
<1>4. nextID \in Nat  BY DEF PendingOK
<1> QED  BY <1>1, <1>2, <1>3, <1>4, DriverQueues DEF PendingOK

\* The driver sends more requests that are not launches, or none.
LEMMA MoreRequests ==
    ASSUME PendingOK, UNCHANGED <<wire, awaiting, fromDriver, nextID>>,
           IsQueue(moves'), Launches(moves') = {},
           \/ UNCHANGED toSend
           \/ \E msg, S : /\ "type" \in DOMAIN msg /\ msg.type # "Launch"
                          /\ toSend' = toSend \o Order(msg, S)
    PROVE  PendingStep
<1>1. IsQueue(toSend') /\ Launches(toSend') = Launches(toSend)
  <2>1. IsQueue(toSend)  BY DEF PendingOK
  <2>2. CASE UNCHANGED toSend  BY <2>1, <2>2
  <2>3. CASE ~ UNCHANGED toSend
    <3>1. PICK msg, S : /\ "type" \in DOMAIN msg /\ msg.type # "Launch"
                        /\ toSend' = toSend \o Order(msg, S)
      BY <2>3
    <3>2. IsQueue(Order(msg, S)) /\ Launches(Order(msg, S)) = {}  BY <3>1, OrderQueue
    <3> QED  BY <2>1, <3>1, <3>2, MoreMessages
  <2> QED  BY <2>2, <2>3
<1>2. nextID' \in Nat /\ nextID <= nextID'  BY DEF PendingOK
<1> QED  BY <1>1, <1>2, DriverQueues DEF PendingOK

LEMMA ReturnStep ==
    ASSUME QueuesOK, PendingOK, NEW g \in GPU, ReturnReq(g)
    PROVE  QueuesOK' /\ PendingStep
<1> DEFINE rsp == Head(toDriver[g])
<1>1. UNCHANGED <<wire, awaiting, fromDriver, nextID>>  BY DEF ReturnReq, cpVars
<1>2. IsQueue(moves) /\ Launches(moves) = {}  BY DEF PendingOK
<1>3. QueuesOK'
  <2>1. UNCHANGED queues \/ CommandReturn(rsp.id)
    BY ONLY ReturnReq(g) DEF ReturnReq, RDMADrainRsp, ShootDownComplete, PageMigrationRsp, GPURestartRsp,
           RDMARestartRsp
  <2> QED  BY <2>1, CommandReturnStep DEF QueuesOK
<1>4. CASE UNCHANGED <<toSend, moves>>
  BY <1>1, <1>2, <1>4, <1>3, MoreRequests
<1>5. CASE RDMADrainRsp
  <2> DEFINE msg == [gpu |-> 0, type |-> "ShootDown", pages |-> {driver.req.page}]
  <2>1. "type" \in DOMAIN msg /\ msg.type # "Launch"  OBVIOUS
  <2>2. /\ UNCHANGED moves
        /\ UNCHANGED toSend \/ toSend' = toSend \o Order(msg, driver.req.accessing)
    BY <1>5 DEF RDMADrainRsp
  <2> HIDE DEF msg
  <2> QED  BY <1>1, <1>2, <2>1, <2>2, <1>3, MoreRequests
<1>6. CASE ShootDownComplete
  <2> DEFINE r == driver.req
             old == table[r.page].frame
             new == <<r.to, r.page, old[3] + 1>>
             msg == [type |-> "PageMigration", gpu |-> r.to, host |-> r.host,
                     readFrom |-> old, writeTo |-> new]
  <2>1. UNCHANGED toSend /\ (UNCHANGED moves \/ moves' = Append(moves, msg))
    BY <1>6 DEF ShootDownComplete
  <2>2. msg.type # "Launch"  OBVIOUS
  <2> HIDE DEF msg
  <2>3. /\ IsQueue(Append(moves, msg))
        /\ Launches(Append(moves, msg)) = Launches(moves) \cup {}
    BY <1>2, <2>2, QueueAppend
  <2>4. IsQueue(moves') /\ Launches(moves') = {}  BY <1>2, <2>1, <2>3
  <2> QED  BY <1>1, <2>1, <2>4, <1>3, MoreRequests
<1>7. CASE PageMigrationRsp
  <2> DEFINE msg == [gpu |-> 0, type |-> "GPURestart"]
  <2>1. "type" \in DOMAIN msg /\ msg.type # "Launch"  OBVIOUS
  <2>2. UNCHANGED moves /\ toSend' = toSend \o Order(msg, driver.req.accessing)
    BY <1>7 DEF PageMigrationRsp
  <2> HIDE DEF msg
  <2> QED  BY <1>1, <1>2, <2>1, <2>2, <1>3, MoreRequests
<1>8. CASE GPURestartRsp
  <2> DEFINE msg == [gpu |-> 0, type |-> "RDMARestart"]
  <2>1. "type" \in DOMAIN msg /\ msg.type # "Launch"  OBVIOUS
  <2>2. UNCHANGED moves /\ (UNCHANGED toSend \/ toSend' = toSend \o Order(msg, GPU))
    BY <1>8 DEF GPURestartRsp
  <2> HIDE DEF msg
  <2> QED  BY <1>1, <1>2, <2>1, <2>2, <1>3, MoreRequests
<1>9. CASE RDMARestartRsp  BY <1>4, <1>9 DEF RDMARestartRsp
<1>10. \/ UNCHANGED <<toSend, moves>> \/ RDMADrainRsp \/ ShootDownComplete
       \/ PageMigrationRsp \/ GPURestartRsp \/ RDMARestartRsp
  BY DEF ReturnReq
<1> QED  BY <1>3, <1>4, <1>5, <1>6, <1>7, <1>8, <1>9, <1>10

LEMMA MigrationRequestStep ==
    ASSUME QueuesOK, PendingOK, ParseFromMMU
    PROVE  QueuesOK' /\ PendingStep
<1> DEFINE msg == [gpu |-> 0, type |-> "RDMADrain"]
<1>1. /\ UNCHANGED <<queues, wire, awaiting, moves, fromDriver, nextID>>
      /\ toSend' = toSend \o Order(msg, GPU)
  BY DEF ParseFromMMU, gpuVars, cpVars
<1>2. "type" \in DOMAIN msg /\ msg.type # "Launch"  OBVIOUS
<1> HIDE DEF msg
<1>3. PendingStep  BY <1>1, <1>2, MoreRequests DEF PendingOK
<1> QED  BY <1>1, <1>3 DEF QueuesOK

LEMMA DriverStepOK ==
    ASSUME QueuesOK, PendingOK, DriverStep
    PROVE  QueuesOK' /\ PendingStep /\ UNCHANGED <<disp, algorithm, toACE, wave>>
<1>1. UNCHANGED <<disp, algorithm, toACE, wave>>
  BY DEF DriverStep, StartCommand, Send, Deliver, ParseFromMMU, ReturnReq, gpuVars, cuVars,
         waveVars, cuPortVars, dispatchVars
<1>2. CASE StartCommand
  <2>1. UNCHANGED fromDriver  BY <1>2 DEF StartCommand, gpuVars, cpVars
  <2>2. PICK q \in DOMAIN queues :
            Noop(q) \/ LaunchKernelCommand(q) \/ UnifiedLaunch(q) \/ MemCopyCommand(q)
    BY <1>2 DEF StartCommand
  <2>3. QueuesOK' /\ PendingStep
    BY <2>1, <2>2, NoopStep, LaunchStep, UnifiedStep, MemCopyStep
  <2> QED  BY <1>1, <2>3
<1>3. CASE Send
  <2>1. UNCHANGED fromDriver  BY <1>3 DEF Send, gpuVars, cpVars
  <2>2. PendingStep
    BY <1>3, <2>1, SendToGPUsStep, SendMigrationStep, CopyDelayStep DEF Send
  <2>3. UNCHANGED queues
    BY <1>3 DEF Send, SendToGPUs, SendMigrationReqToCP, CopyDelayOver
  <2> QED  BY <1>1, <2>2, <2>3 DEF QueuesOK
<1>4. CASE Deliver
  <2>1. UNCHANGED queues  BY <1>4 DEF Deliver
  <2> QED  BY <1>1, <1>4, <2>1, DeliverStep DEF QueuesOK
<1>5. CASE ParseFromMMU  BY <1>1, <1>5, MigrationRequestStep
<1>6. CASE \E g \in GPU : ReturnReq(g)  BY <1>1, <1>6, ReturnStep
<1> QED  BY <1>2, <1>3, <1>4, <1>5, <1>6 DEF DriverStep

-------------------------------------------------------------------------------
(* Steps that the dispatchers have no part in *)

LEMMA StillApart ==
    ASSUME PendingOK, PendingStep, NEW l, Known(l), l \notin Pending
    PROVE  Known(l)' /\ l \notin Pending'
  BY DEF PendingOK, PendingStep, Known, LaunchReq

LEMMA StillSane ==
    ASSUME PendingOK, PendingStep, NEW x, NEW g, Sane(x, g), UNCHANGED algorithm
    PROVE  Sane(x, g)'
<1>1. x.launch # NoLaunch => Known(x.launch)' /\ x.launch \notin Pending'
  BY StillApart DEF Sane
<1>2. Counted(x)' = Counted(x)  BY DEF Counted, PerPartition
<1> QED  BY <1>1, <1>2 DEF Sane, HoldsNext, NextOf, PerPartition, Idle

LEMMA Elsewhere ==
    ASSUME FreshInv, PendingStep, QueuesOK', UNCHANGED <<disp, algorithm, toACE>>,
           DOMAIN wave' \subseteq DOMAIN wave
    PROVE  FreshInv'
<1>1. PendingOK /\ QueuesOK /\ DispatchersOK /\ OutOK  BY DEF FreshInv
<1>2. DispatchersOK'
  <2>1. \A d \in Dispatchers : Sane(disp[d], d[1])'
    BY <1>1, StillSane DEF DispatchersOK
  <2> QED  BY <1>1, <2>1 DEF DispatchersOK
<1>3. Out' \subseteq Out  BY DEF Out
<1>4. \A wg \in Out' : Known(wg[1])' /\ wg[1] \notin Pending'
  BY <1>1, <1>3, StillApart DEF OutOK
<1>5. \A d \in Dispatchers : Counted(disp[d])' = Counted(disp[d])
  BY DEF Counted, PerPartition
<1>6. OutOK'
  <2>1. \A d \in Dispatchers :
            /\ \A wg \in Out' : wg[1] = disp'[d].launch => wg[2] \in Counted(disp[d])'
            /\ disp'[d].curr # <<>> => disp'[d].curr[1].wg \notin Out'
    BY <1>1, <1>3, <1>5 DEF OutOK
  <2>2. DOMAIN toACE' = CU  BY <1>1 DEF OutOK
  <2>3. \A c \in CU :
           /\ toACE'[c] \in Seq(Range(toACE'[c]))
           /\ \A i \in DOMAIN toACE'[c] :
                  LET wg == toACE'[c][i].wg IN
                  /\ wg = <<wg[1], wg[2]>>
                  /\ \A k \in CU : \A j \in DOMAIN toACE'[k] :
                         toACE'[k][j].wg = wg => k = c /\ j = i
                  /\ \A w \in DOMAIN wave' : WGOf(w) # wg
    BY <1>1 DEF OutOK
  <2> QED  BY <1>4, <2>1, <2>2, <2>3 DEF OutOK
<1>7. PendingOK'  BY DEF PendingStep
<1> QED  BY <1>2, <1>6, <1>7 DEF FreshInv

\* The command processors, but for the start of a launch.
LEMMA CPRequestStep ==
    ASSUME FreshInv, NEW g \in GPU, UNCHANGED driverVars,
           \/ FlushReq(g) \/ MemCopy(g) \/ ShootDown(g) \/ GPURestart(g) \/ HandOn(g)
    PROVE  FreshInv'
<1>1. UNCHANGED <<queues, toSend, wire, awaiting, moves, nextID, disp, algorithm, toACE, wave>>
  BY DEF driverVars, FlushReq, MemCopy, ShootDown, GPURestart, HandOn, cuVars, waveVars,
         cuPortVars, dispatchVars
<1>2. fromDriver[g] # <<>> /\ Retrieve(g)
  BY DEF FlushReq, MemCopy, ShootDown, GPURestart, HandOn, IsNext
<1>3. PendingOK /\ QueuesOK  BY DEF FreshInv
<1>4. PendingStep  BY <1>1, <1>2, <1>3, RetrieveStep
<1>5. QueuesOK'  BY <1>1, <1>3 DEF QueuesOK
<1> QED  BY <1>1, <1>4, <1>5, Elsewhere

LEMMA NothingPending ==
    ASSUME FreshInv, UNCHANGED <<driverVars, fromDriver, disp, algorithm, toACE>>,
           DOMAIN wave' \subseteq DOMAIN wave
    PROVE  FreshInv'
<1>1. UNCHANGED <<queues, toSend, wire, awaiting, moves, nextID>>  BY DEF driverVars
<1>2. PendingStep  BY <1>1, PendingSame DEF FreshInv, pendingVars
<1>3. QueuesOK'  BY <1>1 DEF FreshInv, QueuesOK
<1> QED  BY <1>2, <1>3, Elsewhere

LEMMA CPResponseStep ==
    ASSUME FreshInv, UNCHANGED driverVars,
           \/ \E g \in GPU : InternalRsp(g) \/ ParseFromCP(g) \/ ParseFromMem(g)
           \/ \E c \in CU : CUFlushRsp(c) \/ CURestartRsp(c)
    PROVE  FreshInv'
<1>1. UNCHANGED <<fromDriver, disp, algorithm, toACE, wave>>
  BY DEF InternalRsp, ParseFromCP, ParseFromMem, CUFlushRsp, CURestartRsp, cuVars, waveVars,
         cuPortVars, dispatchVars
<1> QED  BY <1>1, NothingPending

LEMMA MemorySideStep ==
    ASSUME FreshInv, MemoryStep \/ MMUStep \/ Finished
    PROVE  FreshInv'
<1> DEFINE Same == UNCHANGED <<driverVars, fromDriver, disp, algorithm, toACE, wave>>
<1>1. UNCHANGED gpuVars => UNCHANGED <<fromDriver, disp, algorithm, toACE, wave>>
  BY DEF gpuVars, cpVars, cuVars, waveVars, cuPortVars, dispatchVars
<1>2. \A g, k, rsp : Answer(g, k, rsp) => Same
  BY DEF Answer, cuVars, waveVars, cuPortVars, dispatchVars
<1>3. ASSUME NEW g \in GPU, Miss(g) \/ OrphanWrite(g) PROVE Same
  BY <1>1, <1>3 DEF Miss, OrphanWrite
<1>4. ASSUME NEW g \in GPU, AddressTranslator(g) \/ TLBStep(g) PROVE Same
  BY <1>2, <1>4 DEF AddressTranslator, TLBStep
<1>5. ASSUME NEW g \in GPU, RDMAStep(g) \/ PMCStep(g) PROVE Same
  BY <1>1, <1>2, <1>5 DEF RDMAStep, PMCStep
<1>6. ASSUME NEW g \in GPU, NEW k \in Cache, CacheStep(g, k) PROVE Same
  BY <1>2, <1>6 DEF CacheStep
<1>7. MMUStep \/ Finished => Same  BY <1>1 DEF MMUStep, Finished, vars
<1>8. Same  BY <1>3, <1>4, <1>5, <1>6, <1>7 DEF MemoryStep
<1> QED  BY <1>8, NothingPending

LEMMA WavesStay ==
    ASSUME NEW c \in CU,
           \/ \E w \in On(c) : Fetch(w) \/ Issue(w) \/ Eval(w) \/ \E u \in Unit : Retire(c, u, w)
           \/ FetchReturn(c) \/ ScalarReturn(c) \/ Resume(c) \/ Resend(c) \/ Unpause(c)
           \/ Flush(c) \/ VectorReturn(c)
    PROVE  DOMAIN wave' \subseteq DOMAIN wave /\ UNCHANGED toACE
<1>1. ASSUME NEW w, Fetch(w) \/ Issue(w)
      PROVE  DOMAIN wave' = DOMAIN wave /\ UNCHANGED toACE
  BY Zenon, <1>1 DEF Fetch, Issue, cuPortVars
<1>2. ASSUME NEW w, NEW u, Retire(c, u, w)
      PROVE  DOMAIN wave' = DOMAIN wave /\ UNCHANGED toACE
  BY Zenon, <1>2 DEF Retire, cuPortVars
<1>3. ASSUME NEW w, Eval(w)
      PROVE  DOMAIN wave' \subseteq DOMAIN wave /\ UNCHANGED toACE
  <2>1. UNCHANGED toACE  BY <1>3 DEF Eval
  <2>2. EvalSEndPgm(w) => DOMAIN wave' \subseteq DOMAIN wave  BY DEF EvalSEndPgm, Restrict
  <2>3. EvalSBarrier(w) => DOMAIN wave' \subseteq DOMAIN wave
    BY DEF EvalSBarrier, PassBarrier
  <2> QED  BY <1>3, <2>1, <2>2, <2>3 DEF Eval
<1>4. FetchReturn(c) \/ ScalarReturn(c) \/ VectorReturn(c)
          => DOMAIN wave' = DOMAIN wave /\ UNCHANGED toACE
  BY Zenon DEF FetchReturn, ScalarReturn, VectorReturn, cuPortVars
<1>5. Resume(c) \/ Resend(c) \/ Unpause(c) \/ Flush(c)
          => DOMAIN wave' = DOMAIN wave /\ UNCHANGED toACE
  BY Zenon DEF Resume, Resend, Unpause, Flush, waveVars, cuPortVars
<1> QED  BY <1>1, <1>2, <1>3, <1>4, <1>5

\* A request that its compute unit takes is a new work-group, and the only one for it.
LEMMA MapStep ==
    ASSUME FreshInv, NEW c \in CU, MapWG(c),
           UNCHANGED <<driverVars, fromDriver, disp, algorithm>>
    PROVE  FreshInv'
<1> DEFINE m == Head(toACE[c])
<1>1. PendingOK /\ QueuesOK /\ DispatchersOK /\ OutOK  BY DEF FreshInv
<1>2. UNCHANGED <<queues, toSend, wire, awaiting, moves, nextID>>  BY DEF driverVars
<1>3. PendingStep  BY <1>1, <1>2, PendingSame DEF pendingVars
<1>4. QueuesOK' /\ PendingOK'  BY <1>1, <1>2, <1>3 DEF QueuesOK, PendingStep
<1>5. DispatchersOK'
  <2>1. \A d \in Dispatchers : Sane(disp[d], d[1])'
    BY <1>1, <1>3, StillSane DEF DispatchersOK
  <2> QED  BY <1>1, <2>1 DEF DispatchersOK
<1>6. /\ toACE[c] # <<>> /\ toACE' = [toACE EXCEPT ![c] = Tail(@)]
      /\ DOMAIN wave' = Waves(m.wg) \cup DOMAIN wave
  BY DEF MapWG
<1>7. /\ DOMAIN toACE = CU /\ toACE[c] \in Seq(Range(toACE[c]))
      /\ Len(toACE[c]) \in Nat \ {0} /\ DOMAIN toACE[c] = 1 .. Len(toACE[c])
      /\ m = toACE[c][1] /\ Tail(toACE[c]) \in Seq(Range(toACE[c]))
      /\ DOMAIN Tail(toACE[c]) = 1 .. Len(toACE[c]) - 1
      /\ \A i \in 1 .. Len(toACE[c]) - 1 : Tail(toACE[c])[i] = toACE[c][i + 1]
  <2>1. DOMAIN toACE = CU /\ toACE[c] \in Seq(Range(toACE[c]))  BY <1>1 DEF OutOK
  <2> QED  BY <1>6, <2>1, SeqType, TailElements
<1>8. m.wg = <<m.wg[1], m.wg[2]>> /\ 1 \in DOMAIN toACE[c]  BY <1>1, <1>7 DEF OutOK
<1>9. \A w \in Waves(m.wg) : WGOf(w) = m.wg  BY <1>8 DEF Waves, WGOf
<1>10. DOMAIN toACE' = CU /\ toACE'[c] = Tail(toACE[c])
       /\ \A k \in CU : k # c => toACE'[k] = toACE[k]
  BY <1>6, <1>7
<1> DEFINE Back(k, i) == IF k = c THEN i + 1 ELSE i
<1>11. ASSUME NEW k \in CU, NEW i \in DOMAIN toACE'[k]
       PROVE  /\ Back(k, i) \in DOMAIN toACE[k] /\ toACE'[k][i] = toACE[k][Back(k, i)]
              /\ ~ (k = c /\ Back(k, i) = 1)
  BY <1>7, <1>10
<1>12. Out' \subseteq Out
  <2>1. ASSUME NEW k \in CU, NEW i \in DOMAIN toACE'[k] PROVE toACE'[k][i].wg \in Out
    BY <1>11, <2>1 DEF Out, Range
  <2>2. m.wg \in Out  BY <1>7, <1>8 DEF Out, Range
  <2>3. \A w \in DOMAIN wave' : WGOf(w) \in Out  BY <1>6, <1>9, <2>2 DEF Out
  <2> QED  BY <2>1, <2>3 DEF Out, Range
<1>13. \A wg \in Out' : Known(wg[1])' /\ wg[1] \notin Pending'
  BY <1>1, <1>3, <1>12, StillApart DEF OutOK
<1>14. \A d \in Dispatchers :
            /\ \A wg \in Out' : wg[1] = disp'[d].launch => wg[2] \in Counted(disp[d])'
            /\ disp'[d].curr # <<>> => disp'[d].curr[1].wg \notin Out'
  <2>1. \A d \in Dispatchers : Counted(disp[d])' = Counted(disp[d])
    BY DEF Counted, PerPartition
  <2> QED  BY <1>1, <1>12, <2>1 DEF OutOK
<1>15. ASSUME NEW k \in CU, NEW i \in DOMAIN toACE'[k]
       PROVE  LET wg == toACE'[k][i].wg IN
              /\ wg = <<wg[1], wg[2]>>
              /\ \A n \in CU : \A j \in DOMAIN toACE'[n] :
                     toACE'[n][j].wg = wg => n = k /\ j = i
              /\ \A w \in DOMAIN wave' : WGOf(w) # wg
  <2> DEFINE wg == toACE'[k][i].wg
  <2>1. /\ Back(k, i) \in DOMAIN toACE[k] /\ wg = toACE[k][Back(k, i)].wg
        /\ ~ (k = c /\ Back(k, i) = 1)
    BY <1>11
  <2>2. wg = <<wg[1], wg[2]>> /\ \A w \in DOMAIN wave : WGOf(w) # wg
    BY <1>1, <2>1 DEF OutOK
  <2>3. wg # m.wg  BY <1>1, <1>7, <1>8, <2>1 DEF OutOK
  <2>4. ASSUME NEW n \in CU, NEW j \in DOMAIN toACE'[n], toACE'[n][j].wg = wg
        PROVE  n = k /\ j = i
    <3>1. Back(n, j) \in DOMAIN toACE[n] /\ toACE'[n][j] = toACE[n][Back(n, j)]
      BY <1>11
    <3>2. n = k /\ Back(n, j) = Back(k, i)  BY <1>1, <2>1, <2>4, <3>1 DEF OutOK
    <3>3. (i \in Int /\ j \in Int) \/ k # c  BY <1>7, <1>10, <3>2
    <3> QED  BY <3>2, <3>3
  <2> QED  BY <1>6, <1>9, <2>2, <2>3, <2>4
<1>16. \A k \in CU : toACE'[k] \in Seq(Range(toACE'[k]))
  <2>1. Tail(toACE[c]) \in Seq(Range(Tail(toACE[c])))  BY <1>7, RangeSeq
  <2> QED  BY <1>1, <1>10, <2>1 DEF OutOK
<1>17. OutOK'  BY <1>10, <1>13, <1>14, <1>15, <1>16 DEF OutOK
<1> QED  BY <1>4, <1>5, <1>17 DEF FreshInv

LEMMA ComputeUnitsStep == ASSUME FreshInv, CUs PROVE FreshInv'
<1>1. UNCHANGED <<driverVars, fromDriver, disp, algorithm>>
  BY DEF CUs, CUStep, FlushCU, Translate, Return, dispatchVars, cpVars
<1>2. PICK c \in CU : CUStep(c) \/ FlushCU(c) \/ Translate(c) \/ Return(c)  BY DEF CUs
<1>3. (DOMAIN wave' \subseteq DOMAIN wave /\ UNCHANGED toACE) \/ MapWG(c)
  <2>1. CASE CUStep(c)  BY <2>1, WavesStay DEF CUStep
  <2>2. CASE FlushCU(c)  BY <2>2, WavesStay DEF FlushCU
  <2>3. CASE Translate(c)  BY <2>3 DEF Translate, waveVars, cuPortVars
  <2>4. CASE Return(c)  BY <2>4, WavesStay DEF Return
  <2> QED  BY <1>2, <2>1, <2>2, <2>3, <2>4
<1> QED  BY <1>1, <1>3, MapStep, NothingPending

-------------------------------------------------------------------------------
(* The dispatching algorithms *)

LEMMA LeastIn == ASSUME NEW S \in SUBSET Nat, S # {} PROVE Min(S) \in S
  BY SmallestNat DEF Min

LEMMA LargerOfTwo == ASSUME NEW a \in Int, NEW b \in Int PROVE Max({a, b}) \in {a, b}
<1>1. \E m \in {a, b} : \A y \in {a, b} : y <= m  OBVIOUS
<1> QED  BY <1>1 DEF Max

\* A place in partitions of p places each has one partition.
LEMMA OnePartition ==
    ASSUME NEW p \in Int, NEW a \in Int, NEW b \in Int, NEW c \in 0 .. p - 1, NEW d \in 0 .. p - 1,
           a * p + c = b * p + d
    PROVE  a = b /\ c = d
<1>1. p \in Int /\ p > 0  OBVIOUS
<1>2. ASSUME NEW i \in Int, NEW j \in Int, i < j  PROVE i * p + p <= j * p
  <2>1. j - i - 1 \in Nat  BY <1>2
  <2>2. (j - i - 1) * p >= 0  BY <1>1, <2>1
  <2>3. (j - i - 1) * p = j * p - i * p - p  BY <1>1
  <2> QED  BY <1>1, <2>2, <2>3
<1>3. a * p \in Int /\ b * p \in Int  BY <1>1
<1>4. ~ (a < b)
  <2> SUFFICES ASSUME a < b PROVE FALSE  OBVIOUS
  <2>1. a * p + p <= b * p  BY <1>2
  <2> QED  BY <1>1, <1>3, <2>1
<1>5. ~ (b < a)
  <2> SUFFICES ASSUME b < a PROVE FALSE  OBVIOUS
  <2>1. b * p + p <= a * p  BY <1>2
  <2> QED  BY <1>1, <1>3, <2>1
<1>6. a = b  BY <1>4, <1>5
<1> QED  BY <1>1, <1>3, <1>6

LEMMA PartsOf ==
    ASSUME NEW x, NEW g \in GPU, Sane(x, g), x.launch # NoLaunch
    PROVE  /\ NumCU[g] \in Nat \ {0} /\ DOMAIN x.part = 1 .. NumCU[g] /\ Len(x.part) = NumCU[g]
           /\ PerPartition(x) \in Int /\ NumWG(x.launch) \in Int
           /\ \A i \in DOMAIN x.part :
                  /\ i \in Nat \ {0} /\ x.part[i].count \in Nat /\ x.part[i].held \in Int
                  /\ NextOf(x, i) \in Int
<1>1. NumCU[g] \in Nat \ {0}  BY ComputeUnitAssumption DEF GPU
<1>2. /\ x.part \in [1 .. NumCU[g] -> [count : Nat, held : Int]] /\ x.launch \in LaunchReq
  BY DEF Sane, Known
<1>3. x.launch.from \in Nat /\ x.launch.to \in Nat  BY <1>2 DEF LaunchReq
<1>4. DOMAIN x.part = 1 .. NumCU[g] /\ Len(x.part) = NumCU[g]  BY <1>1, <1>2
<1>5. NumWG(x.launch) \in Int  BY <1>3 DEF NumWG
<1>6. PerPartition(x) \in Int  BY <1>1, <1>4, <1>5 DEF PerPartition
<1>7. \A i \in DOMAIN x.part : x.part[i].count \in Nat /\ x.part[i].held \in Int
  BY <1>2, <1>4
<1>8. ASSUME NEW i \in DOMAIN x.part  PROVE i \in Nat \ {0} /\ NextOf(x, i) \in Int
  <2> DEFINE base == (i - 1) * PerPartition(x)
  <2>1. i \in Nat \ {0}  BY <1>1, <1>4
  <2>2. base \in Int  BY <1>6, <2>1
  <2>3. NextOf(x, i) = x.launch.from + base + x.part[i].count  BY DEF NextOf
  <2> HIDE DEF base
  <2> QED  BY <1>3, <1>7, <2>1, <2>2, <2>3
<1> QED  BY <1>1, <1>4, <1>5, <1>6, <1>7, <1>8

\* What an algorithm tries on compute unit cu is the next work-group of partition from.
GoodCandidate(x, c) ==
    /\ c.cu \in Nat /\ c.from \in DOMAIN x.part /\ c.wg = NextOf(x, c.from)
    /\ algorithm = "partition" => x.part[c.from].count < PerPartition(x)
    /\ algorithm # "partition" => c.from = 1

LEMMA CyclicOrder ==
    ASSUME NEW n \in Nat \ {0}, NEW first \in Int
    PROVE  /\ DOMAIN Cyclic(first, n) = 1 .. n
           /\ \A i \in 1 .. n : Cyclic(first, n)[i] \in 1 .. n
  BY DEF Cyclic

LEMMA PartitionCandidatesGood ==
    ASSUME NEW x, NEW g \in GPU, Sane(x, g), x.launch # NoLaunch, algorithm = "partition",
           NEW order, DOMAIN order = DOMAIN x.part,
           \A i \in DOMAIN order : order[i] \in DOMAIN x.part
    PROVE  LET list == PartitionCandidates(x, order) IN
           /\ DOMAIN list \subseteq DOMAIN x.part
           /\ \A k \in DOMAIN list : GoodCandidate(x, list[k]) /\ list[k].cu = order[k]
<1> DEFINE Builds(i) == x.part[i].count < PartitionSize(x, i)
           Held(k, j) == IF Builds(j) /\ \E n \in 1 .. k - 1 : order[n] = j THEN NextOf(x, j)
                                                                            ELSE x.part[j].held
           Holding(k) == {j \in DOMAIN x.part : Held(k, j) # 0}
           Takes(k) == x.part[order[k]].count >= PerPartition(x) /\ Holding(k) # {}
           Choice(k) == IF Builds(order[k])
                        THEN [cu |-> order[k], from |-> order[k], wg |-> NextOf(x, order[k])]
                        ELSE [cu |-> order[k], from |-> Min(Holding(k)),
                              wg |-> Held(k, Min(Holding(k)))]
           list == [k \in {n \in DOMAIN order : Builds(order[n]) \/ Takes(n)} |-> Choice(k)]
<1>1. PartitionCandidates(x, order) = list  BY DEF PartitionCandidates
<1>2. /\ PerPartition(x) \in Int /\ NumWG(x.launch) \in Int
      /\ \A i \in DOMAIN x.part :
             i \in Nat \ {0} /\ x.part[i].count \in Nat /\ NextOf(x, i) \in Int
  BY PartsOf
<1>3. \A i \in DOMAIN x.part : Builds(i) => x.part[i].count < PerPartition(x)
  <2> SUFFICES ASSUME NEW i \in DOMAIN x.part, Builds(i)
               PROVE  x.part[i].count < PerPartition(x)
    OBVIOUS
  <2> DEFINE p == PerPartition(x)
             rest == NumWG(x.launch) - (i - 1) * p
             m == Min({p, rest})
  <2>1. p \in Int /\ rest \in Int  BY <1>2
  <2>2. PartitionSize(x, i) = Max({0, m})  BY DEF PartitionSize
  <2>3. x.part[i].count \in Nat  BY <1>2
  <2> HIDE DEF p, rest, m
  <2>4. m \in Int /\ m <= p  BY <2>1, SmallerOfTwo DEF m
  <2>5. Max({0, m}) \in {0, m}  BY <2>4, LargerOfTwo
  <2>6. x.part[i].count < PartitionSize(x, i)  OBVIOUS
  <2>7. x.part[i].count < p  BY ONLY <2>1, <2>2, <2>3, <2>4, <2>5, <2>6
  <2> QED  BY <2>7 DEF p
<1>4. HoldsNext(x)  BY DEF Sane
<1>5. ASSUME NEW k, NEW j \in DOMAIN x.part, Held(k, j) # 0
      PROVE  Held(k, j) = NextOf(x, j) /\ x.part[j].count < PerPartition(x)
  BY <1>3, <1>4, <1>5 DEF HoldsNext
<1>6. ASSUME NEW k, Holding(k) # {}
      PROVE  Min(Holding(k)) \in DOMAIN x.part /\ Held(k, Min(Holding(k))) # 0
  <2>1. Holding(k) \in SUBSET Nat  BY <1>2
  <2>2. Min(Holding(k)) \in Holding(k)  BY <1>6, <2>1, LeastIn
  <2> QED  BY <2>2
<1> HIDE DEF Held, Builds
<1>7. DOMAIN list \subseteq DOMAIN x.part  OBVIOUS
<1>8. ASSUME NEW k \in DOMAIN list PROVE GoodCandidate(x, list[k])
  <2>1. /\ list[k] = Choice(k) /\ (Builds(order[k]) \/ Takes(k))
        /\ order[k] \in DOMAIN x.part /\ order[k] \in Nat
    BY <1>2
  <2>2. CASE Builds(order[k])  BY Zenon, <1>3, <2>1, <2>2 DEF GoodCandidate
  <2>3. CASE ~ Builds(order[k])
    <3> DEFINE o == Min(Holding(k))
    <3>1. o \in DOMAIN x.part /\ Held(k, o) # 0  BY <1>6, <2>1, <2>3
    <3>2. Held(k, o) = NextOf(x, o) /\ x.part[o].count < PerPartition(x)  BY <1>5, <3>1
    <3>3. list[k] = [cu |-> order[k], from |-> o, wg |-> Held(k, o)]  BY <2>1, <2>3
    <3> HIDE DEF o
    <3> QED  BY Zenon, <2>1, <3>1, <3>2, <3>3 DEF GoodCandidate
  <2> QED  BY <2>2, <2>3
<1>9. \A k \in DOMAIN list : list[k].cu = order[k]  OBVIOUS
<1> HIDE DEF list
<1> QED  BY <1>1, <1>7, <1>8, <1>9

LEMMA CandidatesGood ==
    ASSUME NEW x, NEW g \in GPU, Sane(x, g), x.launch # NoLaunch
    PROVE  /\ DOMAIN Candidates(x) \subseteq Nat
           /\ \A k \in DOMAIN Candidates(x) : GoodCandidate(x, Candidates(x)[k])
<1> DEFINE first == IF algorithm = "greedy" THEN 1 ELSE x.nextCU
           order == Cyclic(first, Len(x.part))
<1>1. /\ NumCU[g] \in Nat \ {0} /\ DOMAIN x.part = 1 .. NumCU[g] /\ Len(x.part) = NumCU[g]
      /\ \A i \in DOMAIN x.part : i \in Nat \ {0}
  BY PartsOf
<1>2. first \in Int  BY DEF Sane
<1> HIDE DEF first
<1>3. DOMAIN order = DOMAIN x.part /\ \A i \in DOMAIN order : order[i] \in DOMAIN x.part
  BY <1>1, <1>2, CyclicOrder
<1> HIDE DEF order
<1>4. Candidates(x) = IF algorithm = "partition" THEN PartitionCandidates(x, order)
                      ELSE [i \in DOMAIN order |->
                                [cu |-> order[i], from |-> 1, wg |-> NextOf(x, 1)]]
  BY DEF Candidates, order, first
<1>5. CASE algorithm = "partition"
  BY <1>1, <1>3, <1>4, <1>5, PartitionCandidatesGood
<1>6. CASE algorithm # "partition"
  <2>1. 1 \in DOMAIN x.part  BY <1>1
  <2> QED  BY <1>1, <1>3, <1>4, <1>6, <2>1 DEF GoodCandidate
<1> QED  BY <1>5, <1>6

\* The outcome of the attempts: nothing is lost from what is counted, and a work-group that
\* is found a place is newly counted.
LEMMA OutcomeGood ==
    ASSUME NEW x, NEW g \in GPU, Sane(x, g), x.launch # NoLaunch, x.curr = <<>>,
           NEW list, NEW attempt, DOMAIN list \subseteq Nat,
           \A k \in DOMAIN list : GoodCandidate(x, list[k])
    PROVE  LET y == Outcome(g, x, list, attempt).x IN
           /\ Sane(y, g) /\ y.launch = x.launch
           /\ Counted(x) \subseteq Counted(y)
           /\ y.curr # <<>> => y.curr[1].wg[2] \notin Counted(x)
<1> DEFINE At(i) == <<g, list[i].cu>>
           fits == {i \in DOMAIN list : attempt[i].place # <<>>}
           tried == IF fits = {} THEN DOMAIN list ELSE {n \in DOMAIN list : n <= Min(fits)}
           i == Min(fits)
           Held(j) == IF \E n \in tried : list[n].cu = j /\ list[n].from = j
                      THEN NextOf(x, j) ELSE x.part[j].held
           part == [j \in DOMAIN x.part |->
               IF fits # {} /\ j = list[i].from THEN [count |-> x.part[j].count + 1, held |-> 0]
               ELSE [count |-> x.part[j].count, held |-> Held(j)]]
           now == [wg |-> <<x.launch, list[i].wg>>, cu |-> At(i), place |-> attempt[i].place]
           y == IF fits = {} THEN [x EXCEPT !.part = part]
                ELSE [x EXCEPT !.part = part, !.nextCU = (list[i].cu % Len(x.part)) + 1,
                               !.curr = <<now>>]
<1>1. Outcome(g, x, list, attempt).x = y  BY DEF Outcome
<1>2. /\ NumCU[g] \in Nat \ {0} /\ DOMAIN x.part = 1 .. NumCU[g] /\ Len(x.part) = NumCU[g]
      /\ PerPartition(x) \in Int
      /\ \A j \in DOMAIN x.part :
             /\ j \in Nat \ {0} /\ x.part[j].count \in Nat /\ x.part[j].held \in Int
             /\ NextOf(x, j) \in Int
  BY PartsOf
<1>3. x.launch \in LaunchReq /\ x.launch.from \in Int  BY DEF Sane, Known, LaunchReq
<1>4. fits # {} => i \in fits /\ i \in DOMAIN list
  <2> SUFFICES ASSUME fits # {} PROVE i \in fits /\ i \in DOMAIN list  OBVIOUS
  <2>1. fits \in SUBSET Nat  OBVIOUS
  <2>2. Min(fits) \in fits  BY <2>1, LeastIn
  <2> QED  BY <2>2
<1>5. tried \subseteq DOMAIN list  OBVIOUS
<1>6. ASSUME NEW j \in DOMAIN x.part
      PROVE  /\ Held(j) \in Int
             /\ Held(j) # x.part[j].held =>
                    /\ Held(j) = NextOf(x, j)
                    /\ algorithm = "partition" => x.part[j].count < PerPartition(x)
  BY <1>2, <1>5 DEF GoodCandidate
<1> HIDE DEF Held, tried, fits, i
<1>7. /\ DOMAIN part = DOMAIN x.part
      /\ \A j \in DOMAIN x.part :
             /\ part[j].count = IF fits # {} /\ j = list[i].from THEN x.part[j].count + 1
                                                               ELSE x.part[j].count
             /\ part[j].held = IF fits # {} /\ j = list[i].from THEN 0 ELSE Held(j)
  OBVIOUS
<1>8. part \in [1 .. NumCU[g] -> [count : Nat, held : Int]]  BY <1>2, <1>6
<1> HIDE DEF part
<1>9. /\ DOMAIN y = DispField /\ y.launch = x.launch /\ y.part = part
      /\ fits = {} => y.nextCU = x.nextCU /\ y.curr = <<>>
      /\ fits # {} => y.nextCU = (list[i].cu % Len(x.part)) + 1 /\ y.curr = <<now>>
  <2>1. DOMAIN x = DispField  BY DEF Sane
  <2> QED  BY <2>1 DEF DispField
<1> HIDE DEF y
<1>10. Len(part) = Len(x.part) /\ PerPartition(y) = PerPartition(x)
  <2>1. Len(part) = NumCU[g]  BY <1>2, <1>8
  <2> QED  BY <1>2, <1>9, <2>1 DEF PerPartition
<1>11. Counted(x) \subseteq Counted(y)
  <2>1. \A j \in DOMAIN x.part : 0 .. x.part[j].count - 1 \subseteq 0 .. part[j].count - 1
    BY <1>2, <1>7
  <2>2. 1 \in DOMAIN x.part  BY <1>2
  <2> QED  BY <1>7, <1>9, <1>10, <2>1, <2>2 DEF Counted
<1>12. ASSUME fits # {}
       PROVE  /\ list[i].wg \in Counted(y) /\ list[i].wg \notin Counted(x)
              /\ now.wg = <<x.launch, list[i].wg>>
  <2> DEFINE f == list[i].from
             p == PerPartition(x)
             c == x.part[f].count
  <2>1. /\ f \in DOMAIN x.part /\ list[i].wg = NextOf(x, f)
        /\ algorithm = "partition" => c < p
        /\ algorithm # "partition" => f = 1
    BY <1>4, <1>12 DEF GoodCandidate
  <2>2. list[i].wg = x.launch.from + (f - 1) * p + c  BY <2>1 DEF NextOf
  <2>3. /\ f \in Int /\ p \in Int /\ c \in Nat /\ c \in 0 .. part[f].count - 1
    <3>1. f \in Int /\ p \in Int /\ c \in Nat  BY <1>2, <2>1
    <3>2. part[f].count = c + 1  BY <1>7, <1>12, <2>1
    <3> QED  BY <3>1, <3>2
  <2> HIDE DEF p, c
  <2>4. CASE algorithm = "partition"
    <3>1. list[i].wg \in Counted(y)
      <4>1. list[i].wg \in {x.launch.from + (f - 1) * p + n : n \in 0 .. part[f].count - 1}
        BY <2>2, <2>3
      <4> QED  BY <1>7, <1>9, <1>10, <2>1, <2>4, <4>1 DEF Counted, p
    <3>2. ASSUME NEW j \in DOMAIN x.part, NEW n \in 0 .. x.part[j].count - 1,
                 list[i].wg = x.launch.from + (j - 1) * p + n
          PROVE  FALSE
      <4>1. j \in Int /\ x.part[j].count \in Nat  BY <1>2
      <4>2. x.part[j].count # 0 => x.part[j].count <= p  BY <2>4 DEF Sane, HoldsNext, p
      <4>3. n \in 0 .. p - 1 /\ c \in 0 .. p - 1  BY <2>1, <2>3, <2>4, <4>1, <4>2
      <4>4. (f - 1) * p + c = (j - 1) * p + n
        <5>1. (f - 1) * p \in Int /\ (j - 1) * p \in Int  BY <2>3, <4>1
        <5> DEFINE u == (f - 1) * p  v == (j - 1) * p
        <5>2. x.launch.from + u + c = x.launch.from + v + n  BY <2>2, <3>2
        <5> HIDE DEF u, v
        <5>3. u + c = v + n
          <6> DEFINE w == x.launch.from
          <6>1. u \in Int /\ v \in Int /\ n \in Int /\ c \in Int  BY <2>3, <5>1 DEF u, v
          <6>2. w \in Int /\ w + u + c = w + v + n  BY <1>3, <5>2
          <6> HIDE DEF w
          <6> QED  BY ONLY <6>1, <6>2
        <5> QED  BY <5>3 DEF u, v
      <4>5. f - 1 = j - 1 /\ c = n
        <5> DEFINE a == f - 1  b == j - 1
        <5>1. a \in Int /\ b \in Int  BY <2>3, <4>1
        <5>2. a * p + c = b * p + n  BY <4>4
        <5> HIDE DEF a, b
        <5>3. a = b /\ c = n  BY ONLY <2>3, <4>3, <5>1, <5>2, OnePartition
        <5> QED  BY <5>3 DEF a, b
      <4>6. f = j  BY <2>3, <4>1, <4>5
      <4> QED  BY <3>2, <4>1, <4>5, <4>6 DEF c
    <3>3. list[i].wg \notin Counted(x)  BY <2>4, <3>2 DEF Counted, p
    <3> QED  BY <3>1, <3>3
  <2>5. CASE algorithm # "partition"
    <3>1. f = 1 /\ (f - 1) * p = 0  BY <2>1, <2>3, <2>5
    <3>2. list[i].wg = x.launch.from + c  BY <1>3, <2>2, <2>3, <3>1
    <3>3. list[i].wg \in Counted(y)  BY <1>9, <2>3, <2>5, <3>1, <3>2 DEF Counted
    <3>4. list[i].wg \notin Counted(x)  BY <1>3, <2>3, <2>5, <3>1, <3>2 DEF Counted, c
    <3> QED  BY <3>3, <3>4
  <2> QED  BY <2>4, <2>5
<1>13. y.nextCU \in Int
  <2>1. x.nextCU \in Int  BY DEF Sane
  <2>2. fits # {} => list[i].cu \in Nat  BY <1>4 DEF GoodCandidate
  <2> QED  BY <1>2, <1>9, <2>1, <2>2
<1>14. algorithm = "partition" => HoldsNext(y)
  <2> SUFFICES ASSUME algorithm = "partition", NEW j \in DOMAIN x.part
               PROVE  /\ part[j].count # 0 => part[j].count <= PerPartition(x)
                      /\ part[j].held # 0 => part[j].held = NextOf(y, j)
                                             /\ part[j].count < PerPartition(x)
    BY <1>7, <1>9, <1>10 DEF HoldsNext
  <2>1. /\ x.part[j].count # 0 => x.part[j].count <= PerPartition(x)
        /\ x.part[j].held # 0 => x.part[j].held = NextOf(x, j)
                                 /\ x.part[j].count < PerPartition(x)
    BY DEF Sane, HoldsNext
  <2>2. CASE fits # {} /\ j = list[i].from
    <3>1. x.part[j].count < PerPartition(x)  BY <1>4, <2>2 DEF GoodCandidate
    <3>2. part[j].count = x.part[j].count + 1 /\ part[j].held = 0  BY <1>7, <2>2
    <3>3. x.part[j].count \in Nat /\ PerPartition(x) \in Int  BY <1>2
    <3> QED  BY <3>1, <3>2, <3>3
  <2>3. CASE ~ (fits # {} /\ j = list[i].from)
    <3>1. part[j].count = x.part[j].count /\ part[j].held = Held(j)  BY <1>7, <2>3
    <3>2. NextOf(y, j) = NextOf(x, j)  BY <1>9, <1>10, <3>1 DEF NextOf
    <3> QED  BY <1>6, <2>1, <3>1, <3>2
  <2> QED  BY <2>2, <2>3
<1>15. Sane(y, g)
  <2>1. /\ y.launch # NoLaunch /\ Known(y.launch) /\ y.launch \notin Pending
    BY <1>9 DEF Sane
  <2>2. y.curr # <<>> => LET wg == y.curr[1].wg IN
            y.curr = <<y.curr[1]>> /\ wg = <<y.launch, wg[2]>> /\ wg[2] \in Counted(y)
    BY <1>9, <1>12
  <2> QED  BY <1>8, <1>9, <1>13, <1>14, <2>1, <2>2 DEF Sane
<1>16. y.curr # <<>> => y.curr[1].wg[2] \notin Counted(x)  BY <1>9, <1>12
<1> QED  BY <1>1, <1>9, <1>11, <1>15, <1>16

LEMMA AlgorithmGood ==
    ASSUME NEW x, NEW g \in GPU, Sane(x, g), x.launch # NoLaunch, x.curr = <<>>
    PROVE  LET y == AlgorithmNext(g, x).x IN
           /\ Sane(y, g) /\ y.launch = x.launch
           /\ Counted(x) \subseteq Counted(y)
           /\ y.curr # <<>> => y.curr[1].wg[2] \notin Counted(x)
<1> DEFINE list == Candidates(x)
           attempt == Attempts(g, x, list)
<1>1. AlgorithmNext(g, x) = Outcome(g, x, list, attempt)  BY DEF AlgorithmNext
<1>2. DOMAIN list \subseteq Nat /\ \A k \in DOMAIN list : GoodCandidate(x, list[k])
  BY CandidatesGood
<1> HIDE DEF list, attempt
<1> QED  BY <1>1, <1>2, OutcomeGood

-------------------------------------------------------------------------------
(* The steps of the dispatchers *)

LEMMA OtherVars ==
    ASSUME FreshInv, UNCHANGED <<driverVars, fromDriver>>
    PROVE  PendingOK /\ PendingStep /\ PendingOK' /\ QueuesOK'
<1>1. UNCHANGED <<queues, toSend, wire, awaiting, moves, nextID>>  BY DEF driverVars
<1>2. PendingStep  BY <1>1, PendingSame DEF FreshInv, pendingVars
<1> QED  BY <1>1, <1>2 DEF FreshInv, QueuesOK, PendingStep

LEMMA StillCounted ==
    ASSUME NEW x, UNCHANGED algorithm  PROVE Counted(x)' = Counted(x)
  BY DEF Counted, PerPartition

LEMMA SameCounted ==
    ASSUME NEW e, UNCHANGED algorithm, disp'[e] = disp[e]
    PROVE  Counted(disp[e])' = Counted(disp[e])
<1>1. PICK x : x = disp[e]  OBVIOUS
<1>2. Counted(x)' = Counted(x)  BY StillCounted
<1> QED  BY <1>1, <1>2

\* Dispatcher d goes on with its launch, or has no launch any more.
LEMMA DispatchersStillOK ==
    ASSUME FreshInv, PendingStep, UNCHANGED algorithm, NEW d \in Dispatchers, NEW x,
           Sane(x, d[1]), disp' = [disp EXCEPT ![d] = x], x.launch \in {disp[d].launch, NoLaunch}
    PROVE  DispatchersOK'
<1>1. PendingOK /\ DispatchersOK  BY DEF FreshInv
<1>2. /\ DOMAIN disp' = Dispatchers /\ disp'[d] = x
      /\ \A e \in Dispatchers : e # d => disp'[e] = disp[e]
  BY <1>1 DEF DispatchersOK
<1>3. Sane(x, d[1])'  BY <1>1, StillSane
<1>4. ASSUME NEW e \in Dispatchers PROVE Sane(disp[e], e[1])'
  <2>1. CASE e = d  BY <1>2, <1>3, <2>1
  <2>2. CASE e # d
    <3>1. Sane(disp[e], e[1])  BY <1>1 DEF DispatchersOK
    <3> DEFINE y == disp[e]
    <3>2. disp'[e] = y  BY <1>2, <2>2
    <3>3. Sane(y, e[1])  BY <3>1
    <3> HIDE DEF y
    <3> QED  BY <1>1, <3>2, <3>3, StillSane
  <2> QED  BY <2>1, <2>2
<1>5. \A e, f \in Dispatchers :
          (e # f /\ disp'[e].launch # NoLaunch) => disp'[e].launch # disp'[f].launch
  BY <1>1, <1>2 DEF DispatchersOK
<1> QED  BY <1>2, <1>4, <1>5 DEF DispatchersOK

LEMMA DispatcherAlone ==
    ASSUME FreshInv, UNCHANGED <<driverVars, fromDriver, algorithm, toACE, wave>>,
           NEW d \in Dispatchers, NEW x, Sane(x, d[1]), disp' = [disp EXCEPT ![d] = x],
           \/ x.launch = NoLaunch
           \/ x.launch = disp[d].launch /\ Counted(disp[d]) \subseteq Counted(x),
           x.curr # <<>> => x.curr[1].wg \notin Out
    PROVE  FreshInv'
<1>1. PendingOK /\ PendingStep /\ PendingOK' /\ QueuesOK'  BY OtherVars
<1>2. DispatchersOK'  BY <1>1, DispatchersStillOK
<1>3. DispatchersOK /\ OutOK  BY DEF FreshInv
<1>4. disp'[d] = x /\ \A e \in Dispatchers : e # d => disp'[e] = disp[e]
  BY <1>3 DEF DispatchersOK
<1>5. Out' = Out  BY DEF Out
<1>6. \A wg \in Out' : Known(wg[1])' /\ wg[1] \notin Pending'
  BY <1>1, <1>3, <1>5, StillApart DEF OutOK
<1>7. ASSUME NEW e \in Dispatchers
      PROVE  /\ \A wg \in Out' : wg[1] = disp'[e].launch => wg[2] \in Counted(disp[e])'
             /\ disp'[e].curr # <<>> => disp'[e].curr[1].wg \notin Out'
  <2>1. CASE e # d
    <3>1. Counted(disp[e])' = Counted(disp[e])
      BY <1>4, <2>1, SameCounted
    <3> QED  BY <1>3, <1>4, <1>5, <2>1, <3>1 DEF OutOK
  <2>2. CASE e = d
    <3>1. Counted(disp[d])' = Counted(x)  BY <1>4, StillCounted
    <3>2. \A wg \in Out : wg[1] # NoLaunch
      BY <1>3, DispatcherAssumption DEF OutOK, Known
    <3>3. \A wg \in Out : wg[1] = disp[d].launch => wg[2] \in Counted(disp[d])
      BY <1>3 DEF OutOK
    <3> QED  BY <1>4, <1>5, <2>2, <3>1, <3>2, <3>3
  <2> QED  BY <2>1, <2>2
<1>8. /\ DOMAIN toACE' = CU
      /\ \A c \in CU :
             /\ toACE'[c] \in Seq(Range(toACE'[c]))
             /\ \A i \in DOMAIN toACE'[c] :
                    LET wg == toACE'[c][i].wg IN
                    /\ wg = <<wg[1], wg[2]>>
                    /\ \A k \in CU : \A j \in DOMAIN toACE'[k] :
                           toACE'[k][j].wg = wg => k = c /\ j = i
                    /\ \A w \in DOMAIN wave' : WGOf(w) # wg
  BY <1>3 DEF OutOK
<1>9. OutOK'  BY <1>6, <1>7, <1>8 DEF OutOK
<1> QED  BY <1>1, <1>2, <1>9 DEF FreshInv

\* Dispatcher d sends the work-group that it holds.
LEMMA DispatcherSends ==
    ASSUME FreshInv, UNCHANGED <<driverVars, fromDriver, algorithm, wave>>,
           NEW d \in Dispatchers, NEW x, Sane(x, d[1]), disp' = [disp EXCEPT ![d] = x],
           x.curr = <<>>, x.launch = disp[d].launch, x.launch # NoLaunch,
           Counted(disp[d]) \subseteq Counted(x),
           NEW m, m.wg = <<x.launch, m.wg[2]>>, m.wg[2] \in Counted(x), m.wg \notin Out,
           toACE' = [toACE EXCEPT ![m.cu] = Append(@, m)]
    PROVE  FreshInv'
<1>1. PendingOK /\ PendingStep /\ PendingOK' /\ QueuesOK'  BY OtherVars
<1>2. DispatchersOK'  BY <1>1, DispatchersStillOK
<1>3. DispatchersOK /\ OutOK  BY DEF FreshInv
<1>4. disp'[d] = x /\ \A e \in Dispatchers : e # d => disp'[e] = disp[e]
  BY <1>3 DEF DispatchersOK
<1>5. /\ DOMAIN toACE' = CU
      /\ \A c \in CU : toACE'[c] = IF c = m.cu THEN Append(toACE[c], m) ELSE toACE[c]
  BY <1>3 DEF OutOK
<1>6. \A c \in CU : /\ toACE[c] \in Seq(Range(toACE[c])) /\ Len(toACE[c]) \in Nat
                    /\ DOMAIN toACE[c] = 1 .. Len(toACE[c])
  BY <1>3, SeqType DEF OutOK
<1>7. ASSUME NEW c \in CU
      PROVE  /\ Append(toACE[c], m) \in Seq(Range(toACE[c]) \cup {m})
             /\ Append(toACE[c], m) \in Seq(Range(Append(toACE[c], m)))
             /\ DOMAIN Append(toACE[c], m) = 1 .. Len(toACE[c]) + 1
             /\ Append(toACE[c], m)[Len(toACE[c]) + 1] = m
             /\ \A i \in 1 .. Len(toACE[c]) : Append(toACE[c], m)[i] = toACE[c][i]
  <2> DEFINE S == Range(toACE[c]) \cup {m}
             q == toACE[c]
  <2>1. m \in S /\ q \in Seq(Range(q)) /\ Range(q) \subseteq S  BY <1>6
  <2> HIDE DEF S, q
  <2>2. q \in Seq(S)  BY ONLY <2>1, Retyped
  <2>3. /\ Append(q, m) \in Seq(S) /\ DOMAIN Append(q, m) = 1 .. Len(q) + 1
        /\ Append(q, m)[Len(q) + 1] = m
        /\ \A i \in 1 .. Len(q) : Append(q, m)[i] = q[i]
    BY ONLY <2>1, <2>2, AppendElements, SeqType
  <2>4. Append(q, m) \in Seq(Range(Append(q, m)))  BY ONLY <2>3, RangeSeq
  <2> QED  BY <2>3, <2>4 DEF S, q
<1>8. ASSUME NEW c \in CU, NEW i \in DOMAIN toACE'[c]
      PROVE  \/ i \in DOMAIN toACE[c] /\ toACE'[c][i] = toACE[c][i]
             \/ c = m.cu /\ i = Len(toACE[c]) + 1 /\ toACE'[c][i] = m
  <2>1. CASE c # m.cu  BY <1>5, <2>1
  <2>2. CASE c = m.cu  BY <1>5, <1>6, <1>7, <2>2
  <2> QED  BY <2>1, <2>2
<1>9. Out' \subseteq Out \cup {m.wg}
  <2>1. ASSUME NEW c \in CU, NEW i \in DOMAIN toACE'[c]
        PROVE  toACE'[c][i].wg \in Out \cup {m.wg}
    BY <1>8, <2>1 DEF Out, Range
  <2> QED  BY <1>5, <2>1 DEF Out, Range
<1>10. \A c \in CU : \A i \in DOMAIN toACE[c] : toACE[c][i].wg # m.wg
  BY DEF Out, Range
<1>11. \A w \in DOMAIN wave : WGOf(w) # m.wg  BY DEF Out
<1>12. \A c \in CU : toACE'[c] \in Seq(Range(toACE'[c]))
  BY <1>5, <1>6, <1>7
<1>13. ASSUME NEW c \in CU, NEW i \in DOMAIN toACE'[c]
       PROVE  LET wg == toACE'[c][i].wg IN
              /\ wg = <<wg[1], wg[2]>>
              /\ \A k \in CU : \A j \in DOMAIN toACE'[k] :
                     toACE'[k][j].wg = wg => k = c /\ j = i
              /\ \A w \in DOMAIN wave' : WGOf(w) # wg
  <2>1. CASE i \in DOMAIN toACE[c] /\ toACE'[c][i] = toACE[c][i]
    BY <1>3, <1>8, <1>10, <2>1 DEF OutOK
  <2>2. CASE c = m.cu /\ i = Len(toACE[c]) + 1 /\ toACE'[c][i] = m
    BY <1>8, <1>10, <1>11, <2>2
  <2> QED  BY <1>8, <2>1, <2>2
<1>14. \A wg \in Out' : Known(wg[1])' /\ wg[1] \notin Pending'
  <2>1. Known(x.launch) /\ x.launch \notin Pending  BY DEF Sane
  <2>2. \A wg \in Out \cup {m.wg} : Known(wg[1]) /\ wg[1] \notin Pending
    BY <1>3, <2>1 DEF OutOK
  <2> QED  BY <1>1, <1>9, <2>2, StillApart
<1>15. ASSUME NEW e \in Dispatchers
       PROVE  /\ \A wg \in Out' : wg[1] = disp'[e].launch => wg[2] \in Counted(disp[e])'
              /\ disp'[e].curr # <<>> => disp'[e].curr[1].wg \notin Out'
  <2>1. CASE e # d
    <3>1. Counted(disp[e])' = Counted(disp[e])
      BY <1>4, <2>1, SameCounted
    <3>2. disp[e].launch # x.launch  BY <1>3, <2>1 DEF DispatchersOK
    <3>3. disp[e].curr # <<>> => disp[e].curr[1].wg # m.wg
      BY <1>3, <3>2 DEF DispatchersOK, Sane
    <3>4. \A wg \in Out \cup {m.wg} : wg[1] = disp[e].launch => wg[2] \in Counted(disp[e])
      BY <1>3, <3>2 DEF OutOK
    <3> QED  BY <1>3, <1>4, <1>9, <2>1, <3>1, <3>3, <3>4 DEF OutOK
  <2>2. CASE e = d
    <3>1. Counted(disp[d])' = Counted(x)  BY <1>4, StillCounted
    <3>2. \A wg \in Out \cup {m.wg} : wg[1] = disp[d].launch => wg[2] \in Counted(x)
      BY <1>3 DEF OutOK
    <3> QED  BY <1>4, <1>9, <2>2, <3>1, <3>2
  <2> QED  BY <2>1, <2>2
<1>16. OutOK'  BY <1>5, <1>12, <1>13, <1>14, <1>15 DEF OutOK
<1> QED  BY <1>1, <1>2, <1>16 DEF FreshInv

\* What a dispatcher does with its launch besides placing work-groups.
LEMMA SaneKept ==
    ASSUME NEW x, NEW y, NEW g, Sane(x, g), x.launch # NoLaunch, DOMAIN y = DispField,
           y.launch = x.launch, y.part = x.part, y.nextCU = x.nextCU, y.curr \in {<<>>, x.curr}
    PROVE  Sane(y, g) /\ Counted(y) = Counted(x)
<1>1. PerPartition(y) = PerPartition(x)  BY DEF PerPartition
<1>2. Counted(y) = Counted(x)  BY <1>1 DEF Counted
<1>3. HoldsNext(x) => HoldsNext(y)  BY <1>1 DEF HoldsNext, NextOf
<1>4. y.curr # <<>> => LET wg == y.curr[1].wg IN
          y.curr = <<y.curr[1]>> /\ wg = <<y.launch, wg[2]>> /\ wg[2] \in Counted(y)
  BY <1>2 DEF Sane
<1> QED  BY <1>2, <1>3, <1>4 DEF Sane

LEMMA DispatchNextStep ==
    ASSUME FreshInv, NEW d \in Dispatchers, DispatchNextWG(d),
           UNCHANGED <<driverVars, fromDriver>>
    PROVE  FreshInv'
<1> DEFINE x == disp[d]
           old == [reserved |-> reserved, x |-> x]
           next == IF x.curr # <<>> THEN old ELSE AlgorithmNext(d[1], x)
           y == next.x
           m == y.curr[1]
           sent == [y EXCEPT !.curr = <<>>, !.sent = @ + 1, !.inflight = @ \cup {m}]
<1>1. /\ x.launch # NoLaunch
      /\ IF y.curr # <<>> /\ Len(toACE[m.cu]) < PortCap
         THEN /\ toACE' = [toACE EXCEPT ![m.cu] = Append(@, m)]
              /\ disp' = [disp EXCEPT ![d] = sent]
         ELSE /\ disp' = [disp EXCEPT ![d] = y]
              /\ UNCHANGED toACE
      /\ UNCHANGED <<algorithm, wave>>
  <2>1. x.launch # NoLaunch /\ UNCHANGED <<algorithm, wave>>  BY DEF DispatchNextWG, waveVars
  <2>2. PICK q \in {next} :
            IF q.x.curr # <<>> /\ Len(toACE[q.x.curr[1].cu]) < PortCap
            THEN /\ toACE' = [toACE EXCEPT ![q.x.curr[1].cu] = Append(@, q.x.curr[1])]
                 /\ disp' = [disp EXCEPT ![d] = [q.x EXCEPT
                        !.curr = <<>>, !.sent = @ + 1,
                        !.inflight = @ \cup {q.x.curr[1]}]]
            ELSE disp' = [disp EXCEPT ![d] = q.x] /\ UNCHANGED toACE
    BY Zenon DEF DispatchNextWG
  <2>3. q = next  OBVIOUS
  <2> HIDE DEF next
  <2> QED  BY <2>1, <2>2, <2>3
<1>2. DispatchersOK /\ OutOK  BY DEF FreshInv
<1>3. d[1] \in GPU  BY DEF Dispatchers
<1>4. Sane(x, d[1])  BY <1>2 DEF DispatchersOK
<1>5. /\ Sane(y, d[1]) /\ y.launch = x.launch /\ Counted(x) \subseteq Counted(y)
      /\ y.curr # <<>> => m.wg \notin Out
  <2>1. CASE x.curr # <<>>
    <3>1. y = x  BY <2>1
    <3> QED  BY <1>2, <1>4, <2>1, <3>1 DEF OutOK
  <2>2. CASE x.curr = <<>>
    <3>1. y = AlgorithmNext(d[1], x).x  BY <2>2
    <3> HIDE DEF x, y
    <3>2. /\ Sane(y, d[1]) /\ y.launch = x.launch /\ Counted(x) \subseteq Counted(y)
          /\ y.curr # <<>> => m.wg[2] \notin Counted(x)
      BY <1>1, <1>3, <1>4, <2>2, <3>1, AlgorithmGood
    <3>3. y.curr # <<>> => m.wg[1] = x.launch  BY <3>2 DEF Sane
    <3>4. \A wg \in Out : wg[1] = x.launch => wg[2] \in Counted(x)  BY <1>2 DEF OutOK, x
    <3> QED  BY <3>2, <3>3, <3>4
  <2> QED  BY <2>1, <2>2
<1> HIDE DEF next
<1>6. CASE toACE' = toACE
  <2>1. CASE disp' = [disp EXCEPT ![d] = y]
    BY <1>1, <1>5, <1>6, <2>1, DispatcherAlone
  <2>2. CASE disp' = [disp EXCEPT ![d] = sent]
    <3>1. /\ DOMAIN sent = DispField /\ sent.launch = y.launch /\ sent.part = y.part
          /\ sent.nextCU = y.nextCU /\ sent.curr = <<>>
      <4>1. DOMAIN y = DispField  BY <1>5 DEF Sane
      <4> QED  BY <4>1 DEF DispField
    <3>2. Sane(sent, d[1]) /\ Counted(sent) = Counted(y)
      <4>1. y.launch # NoLaunch  BY <1>1, <1>5
      <4> HIDE DEF x, y, sent
      <4> QED  BY <1>5, <3>1, <4>1, SaneKept
    <3> HIDE DEF sent
    <3> QED  BY <1>1, <1>5, <1>6, <2>2, <3>1, <3>2, DispatcherAlone
  <2> QED  BY <1>1, <2>1, <2>2
<1>7. CASE toACE' # toACE
  <2>1. /\ y.curr # <<>> /\ toACE' = [toACE EXCEPT ![m.cu] = Append(@, m)]
        /\ disp' = [disp EXCEPT ![d] = sent]
    BY <1>1, <1>7
  <2>2. /\ DOMAIN sent = DispField /\ sent.launch = y.launch /\ sent.part = y.part
        /\ sent.nextCU = y.nextCU /\ sent.curr = <<>>
    <3>1. DOMAIN y = DispField  BY <1>5 DEF Sane
    <3> QED  BY <3>1 DEF DispField
  <2>3. Sane(sent, d[1]) /\ Counted(sent) = Counted(y)
    <3>1. y.launch # NoLaunch  BY <1>1, <1>5
    <3> HIDE DEF x, y, sent
    <3> QED  BY <1>5, <2>2, <3>1, SaneKept
  <2>4. m.wg = <<y.launch, m.wg[2]>> /\ m.wg[2] \in Counted(y)  BY <1>5, <2>1 DEF Sane
  <2> HIDE DEF sent, m
  <2> QED  BY <1>1, <1>5, <2>1, <2>2, <2>3, <2>4, DispatcherSends
<1> QED  BY <1>6, <1>7

LEMMA CompleteKernelStep ==
    ASSUME FreshInv, NEW d \in Dispatchers, CompleteKernel(d),
           UNCHANGED <<driverVars, fromDriver>>
    PROVE  FreshInv'
<1> DEFINE x == disp[d]
           y == [Idle(d[1]) EXCEPT !.nextCU = x.nextCU]
<1>1. disp' = [disp EXCEPT ![d] = y] /\ UNCHANGED <<algorithm, toACE, wave>>
  BY DEF CompleteKernel, cuVars, waveVars, cuPortVars
<1>2. d[1] \in GPU  BY DEF Dispatchers
<1>3. Sane(x, d[1])  BY DEF FreshInv, DispatchersOK
<1>4. /\ DOMAIN y = DispField /\ y.launch = NoLaunch /\ y.curr = <<>> /\ y.nextCU = x.nextCU
      /\ y.part = [i \in 1 .. NumCU[d[1]] |-> [count |-> 0, held |-> 0]]
  BY DEF Idle, DispField
<1>5. y = [Idle(d[1]) EXCEPT !.nextCU = y.nextCU]  BY <1>4
<1> HIDE DEF y
<1>6. Sane(y, d[1])  BY <1>3, <1>4, <1>5 DEF Sane
<1> QED  BY <1>1, <1>4, <1>6, DispatcherAlone

LEMMA CompletionStep ==
    ASSUME FreshInv, NEW d \in Dispatchers, NEW c, WGCompletion(d, c),
           UNCHANGED <<driverVars, fromDriver>>
    PROVE  FreshInv'
<1> DEFINE x == disp[d]
<1>1. PICK l \in x.inflight :
          disp' = [disp EXCEPT ![d].inflight = @ \ {l}, ![d].completed = @ + 1]
  BY DEF WGCompletion
<1> DEFINE y == [x EXCEPT !.inflight = @ \ {l}, !.completed = @ + 1]
<1>2. UNCHANGED <<algorithm, toACE, wave>>  BY DEF WGCompletion, waveVars
<1>3. Sane(x, d[1]) /\ DOMAIN disp = Dispatchers  BY DEF FreshInv, DispatchersOK
<1>4. disp' = [disp EXCEPT ![d] = y]  BY <1>1, <1>3 DEF Sane, DispField
<1>5. DOMAIN y = DispField /\ y.launch = x.launch /\ y.part = x.part /\ y.nextCU = x.nextCU
      /\ y.curr = x.curr
  BY <1>3 DEF Sane, DispField
<1>6. x.launch # NoLaunch
  <2> SUFFICES ASSUME x.launch = NoLaunch PROVE FALSE  OBVIOUS
  <2>1. x = [Idle(d[1]) EXCEPT !.nextCU = x.nextCU]  BY <1>3 DEF Sane
  <2>2. x.inflight = {}  BY <2>1 DEF Idle
  <2> QED  BY <2>2
<1>7. x.curr # <<>> => x.curr[1].wg \notin Out  BY DEF FreshInv, OutOK
<1> HIDE DEF x, y
<1>8. Sane(y, d[1]) /\ Counted(y) = Counted(x)  BY <1>3, <1>5, <1>6, SaneKept
<1> QED  BY <1>2, <1>4, <1>5, <1>7, <1>8, DispatcherAlone DEF x

\* A launch that a dispatcher takes is not under way any more, and nothing of it is out.
LEMMA LaunchKernelStep ==
    ASSUME FreshInv, NEW g \in GPU, LaunchKernel(g), UNCHANGED driverVars
    PROVE  FreshInv'
<1>0. PICK l : l = Head(fromDriver[g]).launch  OBVIOUS
<1>1. PendingOK /\ QueuesOK /\ DispatchersOK /\ OutOK  BY DEF FreshInv
<1>2. /\ UNCHANGED <<queues, toSend, wire, awaiting, moves, nextID>>
      /\ UNCHANGED <<algorithm, toACE, wave>>
  BY DEF driverVars, LaunchKernel, cuVars, waveVars, cuPortVars
<1>3. PICK d \in Dispatchers :
          d[1] = g /\ disp[d].launch = NoLaunch /\ disp' = [disp EXCEPT ![d].launch = l]
  BY <1>0 DEF LaunchKernel, StartDispatching
<1>4. PendingStep /\ l \in Pending \ Pending'
  BY <1>0, <1>1, <1>2, RetrieveStep DEF LaunchKernel, IsNext
<1>5. Known(l) /\ l # NoLaunch  BY <1>1, <1>4, DispatcherAssumption DEF PendingOK, Known
<1> DEFINE x == disp[d]
<1>6. Sane(x, g) /\ x = [Idle(g) EXCEPT !.nextCU = x.nextCU]
  BY <1>1, <1>3 DEF DispatchersOK, Sane
<1>7. PICK y : y = [x EXCEPT !.launch = l]  OBVIOUS
<1>8. /\ x.part = [i \in 1 .. NumCU[g] |-> [count |-> 0, held |-> 0]] /\ x.curr = <<>>
  BY <1>6 DEF Idle
<1>9. /\ DOMAIN y = DispField /\ y.launch = l /\ y.part = x.part /\ y.nextCU = x.nextCU
      /\ y.curr = <<>>
  BY <1>6, <1>7, <1>8 DEF Sane, DispField
<1>10. /\ DOMAIN disp' = Dispatchers /\ disp'[d] = y
      /\ \A e \in Dispatchers : e # d => disp'[e] = disp[e]
  BY <1>1, <1>3, <1>7 DEF DispatchersOK
<1> HIDE DEF x
<1>11. Known(l)' /\ l \notin Pending'
  <2>1. nextID \in Nat /\ nextID' = nextID  BY <1>1, <1>2 DEF PendingOK
  <2> QED  BY <1>4, <1>5, <2>1 DEF Known
<1>12. Sane(y, g)'
  <2>1. \A i \in DOMAIN y.part : y.part[i].count = 0 /\ y.part[i].held = 0
    BY <1>8, <1>9
  <2> QED  BY <1>5, <1>6, <1>9, <1>11, <2>1 DEF Sane, HoldsNext
<1>13. ASSUME NEW e \in Dispatchers PROVE Sane(disp[e], e[1])'
  <2>1. CASE e = d  BY <1>3, <1>10, <1>12, <2>1
  <2>2. CASE e # d
    <3>1. Sane(disp[e], e[1])  BY <1>1 DEF DispatchersOK
    <3> DEFINE z == disp[e]
    <3>2. disp'[e] = z  BY <1>10, <2>2
    <3>3. Sane(z, e[1])  BY <3>1
    <3> HIDE DEF z
    <3> QED  BY <1>1, <1>2, <1>4, <3>2, <3>3, StillSane
  <2> QED  BY <2>1, <2>2
<1>14. \A e, f \in Dispatchers :
           (e # f /\ disp'[e].launch # NoLaunch) => disp'[e].launch # disp'[f].launch
  <2>1. \A e \in Dispatchers : disp[e].launch # l
    BY <1>1, <1>4, <1>5 DEF DispatchersOK, Sane
  <2> QED  BY <1>1, <1>9, <1>10, <2>1 DEF DispatchersOK
<1>15. DispatchersOK'  BY <1>10, <1>13, <1>14 DEF DispatchersOK
<1>16. Out' = Out  BY <1>2 DEF Out
<1>17. \A wg \in Out' : Known(wg[1])' /\ wg[1] \notin Pending'
  BY <1>1, <1>4, <1>16, StillApart DEF OutOK
<1>18. ASSUME NEW e \in Dispatchers
       PROVE  /\ \A wg \in Out' : wg[1] = disp'[e].launch => wg[2] \in Counted(disp[e])'
              /\ disp'[e].curr # <<>> => disp'[e].curr[1].wg \notin Out'
  <2>1. CASE e # d
    <3>1. Counted(disp[e])' = Counted(disp[e])
      BY <1>2, <1>10, <2>1, SameCounted
    <3> QED  BY <1>1, <1>10, <1>16, <2>1, <3>1 DEF OutOK
  <2>2. CASE e = d
    <3>1. \A wg \in Out : wg[1] # l  BY <1>1, <1>4 DEF OutOK
    <3> QED  BY <1>9, <1>10, <1>16, <2>2, <3>1
  <2> QED  BY <2>1, <2>2
<1>19. /\ DOMAIN toACE' = CU
       /\ \A c \in CU :
              /\ toACE'[c] \in Seq(Range(toACE'[c]))
              /\ \A i \in DOMAIN toACE'[c] :
                     LET wg == toACE'[c][i].wg IN
                     /\ wg = <<wg[1], wg[2]>>
                     /\ \A k \in CU : \A j \in DOMAIN toACE'[k] :
                            toACE'[k][j].wg = wg => k = c /\ j = i
                     /\ \A w \in DOMAIN wave' : WGOf(w) # wg
  BY <1>1, <1>2 DEF OutOK
<1>20. OutOK'  BY <1>17, <1>18, <1>19 DEF OutOK
<1>21. PendingOK' /\ QueuesOK'  BY <1>1, <1>2, <1>4 DEF PendingStep, QueuesOK
<1> QED  BY <1>15, <1>20, <1>21 DEF FreshInv

-------------------------------------------------------------------------------
LEMMA FreshInit == Init => FreshInv
<1> SUFFICES ASSUME Init PROVE FreshInv  OBVIOUS
<1>1. /\ toSend = <<>> /\ wire = <<>> /\ awaiting = <<>> /\ moves = <<>> /\ nextID = 1
      /\ fromDriver = [g \in GPU |-> <<>>] /\ disp = [d \in Dispatchers |-> Idle(d[1])]
      /\ toACE = [c \in CU |-> <<>>] /\ wave = <<>>
  BY DEF Init, DriverInit, CommandProcessorInit, DispatcherInit, ComputeUnitInit
<1>2. IsQueue(<<>>) /\ Launches(<<>>) = {}
  <2>1. <<>> \in Seq(Range(<<>>)) /\ DOMAIN <<>> = {}  OBVIOUS
  <2> QED  BY <2>1, NoLaunches
<1>3. Pending = {}  BY <1>1, <1>2 DEF Pending
<1>4. PendingOK  BY <1>1, <1>2, <1>3 DEF PendingOK
<1>5. QueuesOK
  <2>1. PICK program \in Programs :
            queues = [q \in DOMAIN program |->
                          [cmds |-> program[q], running |-> FALSE, reqs |-> {}]]
    BY DEF Init, DriverInit
  <2> QED  BY <2>1, ProgramsAssumption DEF QueuesOK, QueueField
<1>6. \A d \in Dispatchers : d[1] \in GPU  BY DEF Dispatchers
<1>7. ASSUME NEW g \in GPU
      PROVE  Sane(Idle(g), g) /\ Idle(g).launch = NoLaunch /\ Idle(g).curr = <<>>
  <2> DEFINE x == Idle(g)
  <2>1. /\ DOMAIN x = DispField /\ x.launch = NoLaunch /\ x.curr = <<>> /\ x.nextCU = 1
        /\ x.part = [i \in 1 .. NumCU[g] |-> [count |-> 0, held |-> 0]]
        /\ x = [Idle(g) EXCEPT !.nextCU = x.nextCU]
    BY DEF Idle, DispField
  <2> HIDE DEF x
  <2>2. x.part \in [1 .. NumCU[g] -> [count : Nat, held : Int]]  BY <2>1
  <2>3. Sane(x, g)  BY <2>1, <2>2 DEF Sane
  <2> QED  BY <2>1, <2>3 DEF x
<1>8. DispatchersOK  BY <1>1, <1>6, <1>7 DEF DispatchersOK
<1>9. Out = {}
  <2>1. DOMAIN wave = {}  BY <1>1
  <2>2. \A c \in CU : Range(toACE[c]) = {}  BY <1>1 DEF Range
  <2> QED  BY <2>1, <2>2 DEF Out
<1>10. OutOK  BY <1>1, <1>6, <1>7, <1>9 DEF OutOK
<1> QED  BY <1>4, <1>5, <1>8, <1>10 DEF FreshInv

LEMMA FreshStep == FreshInv /\ [Next]_vars => FreshInv'
<1> SUFFICES ASSUME FreshInv, [Next]_vars PROVE FreshInv'  OBVIOUS
<1>1. CASE CUs  BY <1>1, ComputeUnitsStep
<1>2. CASE DispatchStep
  <2>1. UNCHANGED <<driverVars, fromDriver>>  BY <1>2 DEF DispatchStep, cpVars
  <2> QED
    BY <1>2, <2>1, DispatchNextStep, CompleteKernelStep, CompletionStep DEF DispatchStep
<1>3. CASE CPStep
  BY <1>3, CPRequestStep, CPResponseStep, LaunchKernelStep DEF CPStep
<1>4. CASE DriverStep
  <2>1. QueuesOK' /\ PendingStep /\ UNCHANGED <<disp, algorithm, toACE, wave>>
    BY <1>4, DriverStepOK DEF FreshInv
  <2> QED  BY <2>1, Elsewhere
<1>5. CASE MemoryStep \/ MMUStep \/ Finished  BY <1>5, MemorySideStep
<1>6. CASE UNCHANGED vars
  <2>1. UNCHANGED <<driverVars, fromDriver, disp, algorithm, toACE, wave>>
    BY <1>6 DEF vars, gpuVars, cpVars, cuVars, waveVars, cuPortVars, dispatchVars
  <2> QED  BY <2>1, NothingPending
<1> QED  BY <1>1, <1>2, <1>3, <1>4, <1>5, <1>6 DEF Next

LEMMA FreshNew == FreshInv => NewWorkGroups
<1> SUFFICES ASSUME OutOK, NEW c \in CU, toACE[c] # <<>>
             PROVE  LET wg == Head(toACE[c]).wg IN
                    wg[1].kernel \in DOMAIN Kernel /\ Waves(wg) \cap DOMAIN wave = {}
  BY DEF FreshInv, NewWorkGroups
<1> DEFINE wg == toACE[c][1].wg
<1>1. Head(toACE[c]) = toACE[c][1] /\ 1 \in DOMAIN toACE[c]
  <2>1. toACE[c] \in Seq(Range(toACE[c]))  BY DEF OutOK
  <2> QED  BY <2>1, TailElements, SeqType
<1>2. wg = <<wg[1], wg[2]>> /\ \A w \in DOMAIN wave : WGOf(w) # wg  BY <1>1 DEF OutOK
<1>3. wg \in Out  BY <1>1 DEF Out, Range
<1>4. wg[1].kernel \in DOMAIN Kernel  BY <1>3 DEF OutOK, Known, LaunchReq
<1>5. \A w \in Waves(wg) : WGOf(w) = wg  BY <1>2 DEF Waves, WGOf
<1> QED  BY <1>1, <1>2, <1>4, <1>5

\* No work-group is dispatched twice: the wavefronts of the next one that a compute unit is
\* asked for are not in the pools, whatever the algorithm and however the launches are
\* divided (dispatcher.go, partition.go, round_robin.go, greedy.go).
THEOREM NewWorkGroupsCorrect == Spec => []NewWorkGroups
<1>1. Spec => []FreshInv  BY FreshInit, FreshStep, PTL DEF Spec
<1> QED  BY <1>1, FreshNew, PTL

-------------------------------------------------------------------------------
\* The invariant of the compute units, however fetches, answers, flushes, barriers, ends of
\* programs and new work-groups interleave.
THEOREM OrderInvariant == Spec /\ []RoomAtBarrier => []OrderInv
  BY OrderInit, OrderStep, NewWorkGroupsCorrect, PTL DEF Spec

\* What a wavefront decodes, executes and waits at is the instruction at its program counter,
\* if the barrier buffers have room.
THEOREM InstructionsInOrder == Spec /\ []RoomAtBarrier => []ProgramOrder
<1>1. OrderInv => ProgramOrder  BY DEF OrderInv, WavesOK, Sound, ProgramOrder
<1> QED  BY <1>1, OrderInvariant, PTL

-------------------------------------------------------------------------------
(* No register, LDS byte or pool entry belongs to two wavefronts *)

ResField == {"sgpr", "lds", "vgpr", "free", "nextSIMD", "held"}
Place == [simd : SIMD, vgpr : Nat, sgpr : Nat, lds : Nat]

\* The books of one compute unit.
Booked(r) ==
    /\ DOMAIN r = ResField /\ r.nextSIMD \in Nat
    /\ IsFiniteSet(Slots(r))
    /\ \A wg \in DOMAIN r.held :
           wg[1].kernel \in DOMAIN Kernel /\ r.held[wg] \in [WavesOf(wg) -> Place]
    /\ Consistent(r)

\* A work-group that a dispatcher has counted.
Begun(wg) ==
    /\ Known(wg[1]) /\ wg[1] \notin Pending
    /\ \A d \in Dispatchers : wg[1] = disp[d].launch => wg[2] \in Counted(disp[d])

Has(c, m) == m.wg \in DOMAIN reserved[c].held /\ m.place = reserved[c].held[m.wg]

BooksOK ==
    /\ DOMAIN reserved = CU
    /\ \A c \in CU : Booked(reserved[c]) /\ \A wg \in DOMAIN reserved[c].held : Begun(wg)

\* A wavefront is where its place is.
InPlace(w, x) ==
    /\ {"cu", "simd"} \subseteq DOMAIN x /\ x.cu \in CU /\ w \in Waves(WGOf(w))
    /\ WGOf(w) \in DOMAIN reserved[x.cu].held
    /\ x.simd = reserved[x.cu].held[WGOf(w)][w[3]].simd

\* What a dispatcher has placed, sent or not, keeps its place.
SentOK(x) ==
    /\ x.curr # <<>> => x.curr[1].cu \in CU /\ Has(x.curr[1].cu, x.curr[1])
    /\ \A l \in x.inflight :
           /\ l.cu \in CU /\ l.wg \in DOMAIN reserved[l.cu].held /\ l.wg[1] = x.launch
           /\ x.curr # <<>> => l.wg # x.curr[1].wg
           /\ \A k \in x.inflight : k.wg = l.wg => k = l

\* A work-group that is reported as done is nowhere any more.
DoneOK ==
    /\ DOMAIN done = CU
    /\ \A c \in CU :
           /\ done[c] \in Seq(Range(done[c]))
           /\ \A wg \in Range(done[c]) :
                  /\ Begun(wg) /\ wg \notin Out
                  /\ \A d \in Dispatchers : disp[d].curr # <<>> => disp[d].curr[1].wg # wg

PlacedOK ==
    /\ BooksOK
    /\ \A c \in CU : \A i \in DOMAIN toACE[c] : Has(c, toACE[c][i])
    /\ \A w \in DOMAIN wave : InPlace(w, wave[w])
    /\ \A d \in Dispatchers : SentOK(disp[d])
    /\ DoneOK

\* The owners all are the owners own and more, which nothing of used belongs to.
Adds(used, own, more, all) ==
    /\ Owned(used, own)
    /\ DOMAIN all = DOMAIN own \cup DOMAIN more /\ DOMAIN own \cap DOMAIN more = {}
    /\ \A g \in DOMAIN own : all[g] = own[g]
    /\ \A g \in DOMAIN more : all[g] = more[g] /\ more[g] \cap used = {}
    /\ \A g, h \in DOMAIN more : g # h => more[g] \cap more[h] = {}

\* Owners that come with what nobody used, and owners that go with all they have.
LEMMA MoreOwners ==
    ASSUME NEW used, NEW own, NEW more, NEW all, Adds(used, own, more, all)
    PROVE  Owned(used \cup UNION Range(more), all)
<1> USE DEF Adds
<1>1. \A g \in DOMAIN own : own[g] \subseteq used  BY DEF Owned, Range
<1>2. UNION Range(all) = used \cup UNION Range(more)
  <2>1. used = UNION Range(own)  BY DEF Owned
  <2> QED  BY <2>1 DEF Range
<1>3. ASSUME NEW g \in DOMAIN all, NEW h \in DOMAIN all, g # h
      PROVE  all[g] \cap all[h] = {}
  <2>1. CASE g \in DOMAIN own /\ h \in DOMAIN own  BY <1>3, <2>1 DEF Owned
  <2>2. CASE g \in DOMAIN own /\ h \in DOMAIN more  BY <1>1, <2>2
  <2>3. CASE g \in DOMAIN more /\ h \in DOMAIN own  BY <1>1, <2>3
  <2>4. CASE g \in DOMAIN more /\ h \in DOMAIN more  BY <1>3, <2>4
  <2> QED  BY <2>1, <2>2, <2>3, <2>4
<1> QED  BY <1>2, <1>3 DEF Owned

\* The owners own that are not among all have what is gone.
Leaves(used, own, gone, all) ==
    /\ Owned(used, own)
    /\ DOMAIN all \subseteq DOMAIN own /\ \A g \in DOMAIN all : all[g] = own[g]
    /\ \A g \in DOMAIN own \ DOMAIN all : own[g] \subseteq gone
    /\ \A e \in gone : \E g \in DOMAIN own \ DOMAIN all : e \in own[g]

LEMMA FewerOwners ==
    ASSUME NEW used, NEW own, NEW gone, NEW all, Leaves(used, own, gone, all)
    PROVE  Owned(used \ gone, all)
<1> USE DEF Leaves
<1>1. used = UNION {own[g] : g \in DOMAIN own}  BY DEF Owned, Range
<1>2. \A g, h \in DOMAIN own : g # h => own[g] \cap own[h] = {}  BY DEF Owned
<1>3. \A e : e \in used \ gone => e \in UNION Range(all)  BY <1>1, <1>2 DEF Range
<1>4. \A e : e \in UNION Range(all) => e \in used \ gone
  <2>1. ASSUME NEW g \in DOMAIN all, NEW e \in all[g] PROVE e \in used \ gone
    <3>1. g \in DOMAIN own /\ e \in own[g] /\ e \in used  BY <1>1
    <3>2. e \notin gone  BY <1>2, <3>1
    <3> QED  BY <3>1, <3>2
  <2> QED  BY <2>1 DEF Range
<1>5. used \ gone = UNION Range(all)  BY <1>3, <1>4
<1> QED  BY <1>2, <1>5 DEF Owned

-------------------------------------------------------------------------------
(* What ReserveResourceForWG finds is free *)

LEMMA LowestRegion ==
    ASSUME NEW used, NEW size \in Nat, NEW n \in Nat, Regions(used, size, n) # {}
    PROVE  LET o == Min(Regions(used, size, n)) IN
           o \in Nat /\ o <= size /\ Region(o, n) \cap used = {}
<1> DEFINE free == Regions(used, size, n)
<1>1. free \in SUBSET Nat  BY DEF Regions
<1>2. Min(free) \in free  BY <1>1, LeastIn
<1>3. CASE n = 0
  <2>1. Min(free) = 0  BY <1>2, <1>3 DEF Regions
  <2>2. Region(0, n) = {}  BY <1>3 DEF Region
  <2> QED  BY <2>1, <2>2
<1>4. CASE n # 0  BY <1>2, <1>4 DEF Regions
<1> QED  BY <1>3, <1>4

LEMMA FirstFitFree ==
    ASSUME NEW used, NEW size \in Nat, NEW n \in Nat, NEW m \in Nat,
           NEW offset \in FirstFit(used, size, n, m)
    PROVE  /\ \A i \in 1 .. m : offset[i] \in Nat /\ Region(offset[i], n) \cap used = {}
           /\ \A i, j \in 1 .. m :
                  i # j => Region(offset[i], n) \cap Region(offset[j], n) = {}
<1> DEFINE taken(i) == used \cup UNION {Region(offset[j], n) : j \in 1 .. i - 1}
<1>1. ASSUME NEW i \in 1 .. m
      PROVE  offset[i] \in Nat /\ Region(offset[i], n) \cap taken(i) = {}
  <2>1. Regions(taken(i), size, n) # {} /\ offset[i] = Min(Regions(taken(i), size, n))
    BY DEF FirstFit
  <2> HIDE DEF taken
  <2> QED  BY <2>1, LowestRegion
<1>2. ASSUME NEW i \in 1 .. m, NEW j \in 1 .. m, i < j
      PROVE  Region(offset[i], n) \cap Region(offset[j], n) = {}
  <2>1. i \in 1 .. j - 1  BY <1>2
  <2>2. Region(offset[i], n) \subseteq taken(j)  BY <2>1
  <2> QED  BY <1>1, <2>2
<1>3. \A i, j \in 1 .. m : i # j => i < j \/ j < i  OBVIOUS
<1> QED  BY <1>1, <1>2, <1>3

\* The wavefronts that are placed on a SIMD unit.
PlacedOn(place, s) == {i \in DOMAIN place : place[i].simd = s}

\* The places that matchWfWithSIMDs finds, also when there are not enough.
LEMMA MatchedFree ==
    ASSUME NEW r, NEW n \in Nat, NEW m \in Nat, \A s \in SIMD : r.free[s] \in Nat,
           NEW at, at = MatchSIMDs(r, n, m)
    PROVE  /\ Len(at) \in 0 .. m /\ DOMAIN at = 1 .. Len(at)
           /\ \A i \in DOMAIN at :
                  /\ at[i].simd \in SIMD /\ at[i].vgpr \in Nat
                  /\ Region(at[i].vgpr, n) \cap r.vgpr[at[i].simd] = {}
           /\ \A i, j \in DOMAIN at : (i # j /\ at[i].simd = at[j].simd)
                  => Region(at[i].vgpr, n) \cap Region(at[j].vgpr, n) = {}
           /\ \A s \in SIMD : Cardinality(PlacedOn(at, s)) <= r.free[s]
<1> DEFINE Spot == [simd : SIMD, vgpr : 0 .. NumVGPR]
           Before(a, i, s) == {j \in 1 .. i - 1 : a[j].simd = s}
           taken(a, i, s) == r.vgpr[s] \cup UNION {Region(a[j].vgpr, n) : j \in Before(a, i, s)}
           Left(a, i, s) == Regions(taken(a, i, s), NumVGPR, n)
           Fits(a, i, s) == Left(a, i, s) # {} /\ r.free[s] > Cardinality(Before(a, i, s))
           Circle(a, i) ==
               Cyclic(IF i = 1 THEN r.nextSIMD ELSE (a[i - 1].simd % NumSIMD) + 1, NumSIMD)
           Good(a) ==
               \A i \in DOMAIN a : \E p \in SIMD :
                   LET s == Circle(a, i)[p] IN
                   /\ Fits(a, i, s) /\ a[i] = [simd |-> s, vgpr |-> Min(Left(a, i, s))]
                   /\ \A q \in 1 .. p - 1 : ~ Fits(a, i, Circle(a, i)[q])
           matched == {a \in BoundedSeq(Spot, m) : Good(a)}
<1>0. MatchSIMDs(r, n, m) = CHOOSE a \in matched : \A other \in matched : Len(other) <= Len(a)
  BY ONLY DEF MatchSIMDs
<1>1. at = CHOOSE a \in matched : \A other \in matched : Len(other) <= Len(a)
  <2> HIDE DEF matched
  <2> QED  BY <1>0
<1> HIDE DEF Good
<1>2. BoundedSeq(Spot, m) = UNION {[1 .. k -> Spot] : k \in 0 .. m}  BY DEF BoundedSeq, SeqOf
<1>3. \A a \in matched : Good(a) /\ \E k \in 0 .. m : a \in [1 .. k -> Spot]
  <2> HIDE DEF Spot
  <2> QED  BY <1>2
<1>4. ASSUME NEW a \in matched  PROVE Len(a) \in 0 .. m /\ a \in [1 .. Len(a) -> Spot]
  <2> HIDE DEF matched, Spot
  <2>1. PICK k \in 0 .. m : a \in [1 .. k -> Spot]  BY <1>3
  <2>2. Len(a) = k  BY <2>1
  <2> QED  BY <2>1, <2>2
<1>5. matched # {}
  <2> DEFINE e == [i \in 1 .. 0 |-> [simd |-> 1, vgpr |-> 0]]
  <2>1. DOMAIN e = {}  OBVIOUS
  <2>2. e \in [1 .. 0 -> Spot]  BY <2>1
  <2>3. e \in BoundedSeq(Spot, m)
    <3> HIDE DEF e, Spot
    <3> QED  BY <1>2, <2>2
  <2>4. Good(e)
    <3> HIDE DEF Fits, Circle, Left, e
    <3> QED  BY <2>1 DEF Good
  <2> HIDE DEF e, Spot
  <2> QED  BY <2>3, <2>4
<1> HIDE DEF matched
<1>6. \E a \in matched : \A other \in matched : Len(other) <= Len(a)
  <2> DEFINE short == {m - Len(a) : a \in matched}
  <2>1. short \in SUBSET Nat /\ short # {}  BY <1>4, <1>5
  <2> HIDE DEF short
  <2>2. PICK x \in short : \A y \in short : x <= y  BY <2>1, SmallestNat
  <2> USE DEF short
  <2>3. PICK a \in matched : x = m - Len(a)  OBVIOUS
  <2>4. ASSUME NEW other \in matched PROVE Len(other) <= Len(a)
    <3>1. m - Len(a) <= m - Len(other)  BY <2>2, <2>3
    <3>2. Len(a) \in 0 .. m /\ Len(other) \in 0 .. m  BY <1>4
    <3> QED  BY <3>1, <3>2
  <2> QED  BY <2>4
<1>7. at \in matched  BY <1>1, <1>6
<1>8. Len(at) \in 0 .. m /\ at \in [1 .. Len(at) -> Spot]  BY <1>4, <1>7
<1>9. Good(at)  BY <1>3, <1>7
<1>10. ASSUME NEW i \in DOMAIN at
       PROVE  LET s == at[i].simd IN
              /\ s \in SIMD /\ Cardinality(Before(at, i, s)) < r.free[s]
              /\ at[i].vgpr \in Nat /\ Region(at[i].vgpr, n) \cap taken(at, i, s) = {}
  <2>1. PICK p \in SIMD :
            LET s == Circle(at, i)[p] IN
            Fits(at, i, s) /\ at[i] = [simd |-> s, vgpr |-> Min(Left(at, i, s))]
    <3> HIDE DEF Fits, Circle, Left
    <3> QED  BY <1>9 DEF Good
  <2> DEFINE s == Circle(at, i)[p]
  <2>2. Fits(at, i, s) /\ at[i].simd = s /\ at[i].vgpr = Min(Left(at, i, s))
    <3> HIDE DEF Left, Fits, Circle
    <3>1. at[i] = [simd |-> s, vgpr |-> Min(Left(at, i, s))] /\ Fits(at, i, s)  BY <2>1
    <3> HIDE DEF s
    <3> QED  BY <3>1
  <2>3. s \in SIMD
    <3>1. at[i] \in Spot  BY <1>8
    <3> HIDE DEF s, Fits, Left
    <3> QED  BY <2>2, <3>1
  <2> HIDE DEF s, Circle
  <2>4. Left(at, i, s) # {} /\ r.free[s] > Cardinality(Before(at, i, s))  BY <2>2
  <2> HIDE DEF taken, Before
  <2>5. NumVGPR \in Nat  BY DispatcherAssumption
  <2>6. at[i].vgpr \in Nat /\ Region(at[i].vgpr, n) \cap taken(at, i, s) = {}
    BY <2>2, <2>4, <2>5, LowestRegion
  <2>7. IsFiniteSet(Before(at, i, s)) /\ Cardinality(Before(at, i, s)) \in Nat
    <3>1. i - 1 \in Int  BY <1>8
    <3>2. IsFiniteSet(1 .. i - 1)  BY <3>1, FS_Interval
    <3>3. Before(at, i, s) \subseteq 1 .. i - 1  BY DEF Before
    <3> QED  BY <3>2, <3>3, FS_Subset, FS_CardinalityType
  <2>8. r.free[s] \in Nat  BY <2>3
  <2> QED  BY <2>2, <2>3, <2>4, <2>6, <2>7, <2>8
<1>11. ASSUME NEW i \in DOMAIN at, NEW j \in DOMAIN at, i < j, at[i].simd = at[j].simd
       PROVE  Region(at[i].vgpr, n) \cap Region(at[j].vgpr, n) = {}
  <2>1. i \in 1 .. j - 1  BY <1>8, <1>11
  <2>2. Region(at[i].vgpr, n) \subseteq taken(at, j, at[j].simd)  BY <1>11, <2>1
  <2> QED  BY <1>10, <2>2
<1>12. \A i, j \in DOMAIN at : i # j => i < j \/ j < i  BY <1>8
<1>13. ASSUME NEW s \in SIMD
       PROVE  Cardinality(PlacedOn(at, s)) <= r.free[s]
  <2> DEFINE there == PlacedOn(at, s)
  <2> USE DEF PlacedOn
  <2>1. CASE there = {}
    <3> HIDE DEF there
    <3>1. Cardinality(there) = 0  BY <2>1, FS_EmptySet
    <3>2. r.free[s] \in Nat  OBVIOUS
    <3> USE DEF there
    <3> QED  BY <3>1, <3>2
  <2>2. CASE there # {}
    <3> DEFINE back == {Len(at) - i : i \in there}
    <3>1. back \in SUBSET Nat /\ back # {}  BY <1>8, <2>2
    <3> HIDE DEF back
    <3>2. PICK x \in back : \A y \in back : x <= y  BY <3>1, SmallestNat
    <3>3. PICK k \in there : x = Len(at) - k  BY DEF back
    <3>4. ASSUME NEW i \in there, i # k PROVE i \in Before(at, k, s)
      <4>1. Len(at) - k <= Len(at) - i  BY <3>2, <3>3 DEF back
      <4>2. i \in 1 .. Len(at) /\ k \in 1 .. Len(at) /\ Len(at) \in Nat  BY <1>8
      <4>3. i \in 1 .. k - 1  BY <3>4, <4>1, <4>2
      <4> QED  BY <4>3
    <3>5. k \in DOMAIN at /\ at[k].simd = s  OBVIOUS
    <3>6. Before(at, k, s) \subseteq there  BY <1>8, <3>5
    <3>7. there = Before(at, k, s) \cup {k} /\ k \notin Before(at, k, s)
      <4>1. k \notin 1 .. k - 1  BY <1>8, <3>5
      <4> QED  BY <3>4, <3>5, <3>6, <4>1
    <3>8. IsFiniteSet(Before(at, k, s))
      <4>1. IsFiniteSet(1 .. k - 1)
        <5>1. k - 1 \in Int  BY <1>8, <3>5
        <5> QED  BY <5>1, FS_Interval
      <4>2. Before(at, k, s) \subseteq 1 .. k - 1  OBVIOUS
      <4> QED  BY <4>1, <4>2, FS_Subset
    <3> HIDE DEF there, Before
    <3>9. Cardinality(there) = Cardinality(Before(at, k, s)) + 1
      BY <3>7, <3>8, FS_AddElement
    <3>10. Cardinality(Before(at, k, s)) \in Nat  BY <3>8, FS_CardinalityType
    <3>11. Cardinality(Before(at, k, s)) < r.free[s]  BY <1>10, <3>5
    <3> USE DEF there
    <3> QED  BY <3>9, <3>10, <3>11
  <2> QED  BY <2>1, <2>2
<1>14. DOMAIN at = 1 .. Len(at)  BY <1>8
<1>15. \A i, j \in DOMAIN at : (i # j /\ at[i].simd = at[j].simd)
                  => Region(at[i].vgpr, n) \cap Region(at[j].vgpr, n) = {}
  BY <1>11, <1>12
<1>16. \A i \in DOMAIN at :
           /\ at[i].simd \in SIMD /\ at[i].vgpr \in Nat
           /\ Region(at[i].vgpr, n) \cap r.vgpr[at[i].simd] = {}
  BY <1>10
<1>17. Len(at) \in 0 .. m  BY <1>8
<1> QED  BY ONLY <1>13, <1>14, <1>15, <1>16, <1>17, Zenon

\* The places of one more work-group.
SlotsOf(wg) == {wg} \X WavesOf(wg)
PoolOf(wg, place, s) == {h \in SlotsOf(wg) : place[h[2]].simd = s}

LEMMA OneMoreGroup ==
    ASSUME NEW r, NEW q, NEW wg, wg \notin DOMAIN r.held,
           DOMAIN q.held = DOMAIN r.held \cup {wg}
    PROVE  Slots(q) = Slots(r) \cup SlotsOf(wg) /\ Slots(r) \cap SlotsOf(wg) = {}
<1>1. Slots(q) = Slots(r) \cup SlotsOf(wg)  BY DEF Slots, SlotsOf
<1>2. \A h \in Slots(r) : h[1] \in DOMAIN r.held  BY DEF Slots
<1>3. \A h \in SlotsOf(wg) : h[1] = wg  BY DEF SlotsOf
<1> QED  BY <1>1, <1>2, <1>3

LEMMA PoolEntries ==
    ASSUME NEW wg, wg[1].kernel \in DOMAIN Kernel, NEW place, DOMAIN place = WavesOf(wg),
           NEW s \in SIMD
    PROVE  /\ IsFiniteSet(PoolOf(wg, place, s)) /\ Cardinality(PoolOf(wg, place, s)) \in Nat
           /\ Cardinality(PoolOf(wg, place, s)) = Occupied(wg, place).pool[s]
<1> DEFINE there == PoolOf(wg, place, s)
           waves == {i \in DOMAIN place : place[i].simd = s}
           f == [i \in waves |-> <<wg, i>>]
<1>1. Kernel[wg[1].kernel].waves \in Nat  BY KernelAssumption
<1>2. IsFiniteSet(WavesOf(wg))
  <2>1. IsFiniteSet(1 .. Kernel[wg[1].kernel].waves)  BY <1>1, FS_Interval
  <2> QED  BY <2>1 DEF WavesOf
<1>3. IsFiniteSet(waves)
  <2>1. waves \subseteq WavesOf(wg)  OBVIOUS
  <2> HIDE DEF waves
  <2> QED  BY <1>2, <2>1, FS_Subset
<1>4. f \in Injection(waves, there)
  <2>1. f \in [waves -> there]  BY DEF SlotsOf, PoolOf
  <2>2. \A i, j \in waves : f[i] = f[j] => i = j  OBVIOUS
  <2> HIDE DEF f, waves, there
  <2> QED  BY <2>1, <2>2 DEF Injection, IsInjective
<1>5. f \in Surjection(waves, there)
  <2>1. f \in [waves -> there]  BY DEF SlotsOf, PoolOf
  <2>2. ASSUME NEW h \in there PROVE \E i \in waves : f[i] = h
    <3>1. h = <<wg, h[2]>> /\ h[2] \in waves  BY DEF SlotsOf, PoolOf
    <3> QED  BY <3>1
  <2> HIDE DEF f, waves, there
  <2> QED  BY <2>1, <2>2 DEF Surjection
<1>6. Occupied(wg, place).pool[s] = Cardinality(waves)  BY DEF Occupied
<1> HIDE DEF f, waves, there
<1>7. ExistsBijection(waves, there)  BY <1>4, <1>5 DEF ExistsBijection, Bijection
<1>8. IsFiniteSet(there) /\ Cardinality(there) = Cardinality(waves)  BY <1>3, <1>7, FS_Bijection
<1>9. Cardinality(there) \in Nat  BY <1>8, FS_CardinalityType
<1> USE DEF there
<1> QED  BY <1>6, <1>8, <1>9

\* What is occupied by a work-group, wavefront by wavefront.
LEMMA OccupiedBy ==
    ASSUME NEW wg, NEW place, DOMAIN place = WavesOf(wg)
    PROVE  LET k == Kernel[wg[1].kernel] IN
           /\ Occupied(wg, place).sgpr = UNION {Region(place[i].sgpr, k.sgpr) : i \in WavesOf(wg)}
           /\ Occupied(wg, place).lds = UNION {Region(place[i].lds, k.lds) : i \in WavesOf(wg)}
           /\ \A s \in SIMD : Occupied(wg, place).vgpr[s] =
                  UNION {Region(place[i].vgpr, k.vgpr) :
                             i \in {j \in WavesOf(wg) : place[j].simd = s}}
<1> DEFINE k == Kernel[wg[1].kernel]
<1>1. Range(place) = {place[i] : i \in WavesOf(wg)}  BY DEF Range
<1>2. Occupied(wg, place).sgpr = UNION {Region(p.sgpr, k.sgpr) : p \in Range(place)}
  BY DEF Occupied
<1>3. Occupied(wg, place).lds = UNION {Region(p.lds, k.lds) : p \in Range(place)}
  BY DEF Occupied
<1>4. \A s \in SIMD : Occupied(wg, place).vgpr[s] =
          UNION {Region(p.vgpr, k.vgpr) : p \in {q \in Range(place) : q.simd = s}}
  BY DEF Occupied
<1> HIDE DEF k
<1>5. Occupied(wg, place).sgpr = UNION {Region(place[i].sgpr, k.sgpr) : i \in WavesOf(wg)}
  BY <1>1, <1>2
<1>6. Occupied(wg, place).lds = UNION {Region(place[i].lds, k.lds) : i \in WavesOf(wg)}
  BY <1>1, <1>3
<1>7. ASSUME NEW s \in SIMD
      PROVE  Occupied(wg, place).vgpr[s] =
                  UNION {Region(place[i].vgpr, k.vgpr) :
                             i \in {j \in WavesOf(wg) : place[j].simd = s}}
  BY <1>1, <1>4
<1> USE DEF k
<1> QED  BY <1>5, <1>6, <1>7

\* r and q differ by work-group wg, which has its places in q.
OneApart(r, q, wg) ==
    /\ wg \notin DOMAIN r.held /\ DOMAIN q.held = DOMAIN r.held \cup {wg}
    /\ \A v \in DOMAIN r.held : q.held[v] = r.held[v]
    /\ wg[1].kernel \in DOMAIN Kernel /\ DOMAIN q.held[wg] = WavesOf(wg)
    /\ IsFiniteSet(Slots(r))

\* What wg owns in q.
LEMMA OwnersApart ==
    ASSUME NEW r, NEW q, NEW wg, OneApart(r, q, wg),
           NEW place, place = q.held[wg], NEW k, k = Kernel[wg[1].kernel]
    PROVE  /\ Slots(q) = Slots(r) \cup SlotsOf(wg) /\ Slots(r) \cap SlotsOf(wg) = {}
           /\ \A h \in Slots(r) : q.held[h[1]] = r.held[h[1]]
           /\ \A h \in Slots(r) : SgprOf(q)[h] = SgprOf(r)[h]
           /\ \A h \in SlotsOf(wg) :
                  /\ h[1] = wg /\ h[2] \in WavesOf(wg)
                  /\ SgprOf(q)[h] = Region(place[h[2]].sgpr, k.sgpr)
<1>1. Slots(q) = Slots(r) \cup SlotsOf(wg) /\ Slots(r) \cap SlotsOf(wg) = {}
  BY OneMoreGroup DEF OneApart
<1>2. \A h \in Slots(r) : q.held[h[1]] = r.held[h[1]]  BY DEF OneApart, Slots
<1>3. \A h \in SlotsOf(wg) : h[1] = wg /\ h[2] \in WavesOf(wg)  BY DEF SlotsOf
<1>4. \A h \in Slots(r) : SgprOf(q)[h] = SgprOf(r)[h]  BY <1>1, <1>2 DEF SgprOf
<1>5. \A h \in SlotsOf(wg) : SgprOf(q)[h] = Region(place[h[2]].sgpr, k.sgpr)
  BY <1>1, <1>3 DEF SgprOf
<1> QED  BY <1>1, <1>2, <1>3, <1>4, <1>5

\* What wg owns of the pool and the registers of a SIMD unit.
LEMMA PoolApart ==
    ASSUME NEW r, NEW q, NEW wg, OneApart(r, q, wg), NEW s \in SIMD,
           NEW place, place = q.held[wg], NEW k, k = Kernel[wg[1].kernel],
           NEW there, there = PoolOf(wg, place, s)
    PROVE  /\ Here(q, s) = Here(r, s) \cup there /\ Here(r, s) \cap there = {}
           /\ \A h \in Here(r, s) : VgprOf(q, s)[h] = VgprOf(r, s)[h]
           /\ \A h \in there : VgprOf(q, s)[h] = Region(place[h[2]].vgpr, k.vgpr)
           /\ Cardinality(there) = Occupied(wg, place).pool[s]
           /\ Cardinality(Here(q, s)) = Cardinality(Here(r, s)) + Cardinality(there)
           /\ Cardinality(Here(r, s)) \in Nat /\ Cardinality(there) \in Nat
<1>1. /\ Slots(q) = Slots(r) \cup SlotsOf(wg) /\ Slots(r) \cap SlotsOf(wg) = {}
      /\ \A h \in Slots(r) : q.held[h[1]] = r.held[h[1]]
      /\ \A h \in SlotsOf(wg) : h[1] = wg /\ h[2] \in WavesOf(wg)
  BY OwnersApart
<1>2. Here(q, s) = Here(r, s) \cup there /\ Here(r, s) \cap there = {}
  BY <1>1 DEF Here, PoolOf
<1>3. \A h \in Here(r, s) : VgprOf(q, s)[h] = VgprOf(r, s)[h]
  <2>1. Here(r, s) \subseteq Slots(r)  BY DEF Here
  <2> QED  BY <1>1, <1>2, <2>1 DEF VgprOf
<1>4. \A h \in there : VgprOf(q, s)[h] = Region(place[h[2]].vgpr, k.vgpr)
  BY <1>1, <1>2 DEF VgprOf, PoolOf
<1>5. IsFiniteSet(Here(r, s))
  <2>1. IsFiniteSet(Slots(r)) /\ Here(r, s) \subseteq Slots(r)  BY DEF OneApart, Here
  <2> QED  BY <2>1, FS_Subset
<1>6. /\ IsFiniteSet(there) /\ Cardinality(there) \in Nat
      /\ Cardinality(there) = Occupied(wg, place).pool[s]
  <2>1. wg[1].kernel \in DOMAIN Kernel /\ DOMAIN place = WavesOf(wg)  BY DEF OneApart
  <2> QED  BY <2>1, PoolEntries
<1>7. Cardinality(Here(r, s)) \in Nat  BY <1>5, FS_CardinalityType
<1>8. Cardinality(Here(q, s)) = Cardinality(Here(r, s)) + Cardinality(there)
  <2>1. Cardinality(Here(r, s) \cap there) = 0  BY <1>2, FS_EmptySet
  <2>2. Cardinality(Here(q, s)) = Cardinality(Here(r, s)) + Cardinality(there)
            - Cardinality(Here(r, s) \cap there)
    BY <1>2, <1>5, <1>6, FS_Union
  <2> QED  BY <1>6, <1>7, <2>1, <2>2
<1> QED  BY ONLY <1>2, <1>3, <1>4, <1>6, <1>7, <1>8

\* What wg gets is free.
Gains(r, q, wg, place) ==
    LET k == Kernel[wg[1].kernel]
        o == Occupied(wg, place) IN
    /\ \A i \in WavesOf(wg) :
           /\ Region(place[i].sgpr, k.sgpr) \cap r.sgpr = {}
           /\ Region(place[i].vgpr, k.vgpr) \cap r.vgpr[place[i].simd] = {}
    /\ \A i, j \in WavesOf(wg) : i # j =>
           /\ Region(place[i].sgpr, k.sgpr) \cap Region(place[j].sgpr, k.sgpr) = {}
           /\ place[i].simd = place[j].simd =>
                  Region(place[i].vgpr, k.vgpr) \cap Region(place[j].vgpr, k.vgpr) = {}
    /\ o.lds \cap r.lds = {}
    /\ q.sgpr = r.sgpr \cup o.sgpr /\ q.lds = r.lds \cup o.lds
    /\ \A s \in SIMD : /\ q.vgpr[s] = r.vgpr[s] \cup o.vgpr[s]
                       /\ q.free[s] = r.free[s] - o.pool[s] /\ o.pool[s] <= r.free[s]

LEMMA BooksGrow ==
    ASSUME NEW r, NEW q, NEW wg, OneApart(r, q, wg), Consistent(r),
           NEW place, place = q.held[wg], Gains(r, q, wg, place)
    PROVE  Consistent(q)
<1> DEFINE k == Kernel[wg[1].kernel]
           o == Occupied(wg, place)
<1>20. /\ \A i \in WavesOf(wg) :
           /\ Region(place[i].sgpr, k.sgpr) \cap r.sgpr = {}
           /\ Region(place[i].vgpr, k.vgpr) \cap r.vgpr[place[i].simd] = {}
       /\ \A i, j \in WavesOf(wg) : i # j =>
           /\ Region(place[i].sgpr, k.sgpr) \cap Region(place[j].sgpr, k.sgpr) = {}
           /\ place[i].simd = place[j].simd =>
                  Region(place[i].vgpr, k.vgpr) \cap Region(place[j].vgpr, k.vgpr) = {}
       /\ o.lds \cap r.lds = {}
       /\ q.sgpr = r.sgpr \cup o.sgpr /\ q.lds = r.lds \cup o.lds
       /\ \A s \in SIMD : /\ q.vgpr[s] = r.vgpr[s] \cup o.vgpr[s]
                          /\ q.free[s] = r.free[s] - o.pool[s] /\ o.pool[s] <= r.free[s]
  BY DEF Gains
<1>21. k = Kernel[wg[1].kernel] /\ o = Occupied(wg, place)  OBVIOUS
<1> HIDE DEF k, o
<1>1. DOMAIN place = WavesOf(wg)  BY DEF OneApart
<1>2. /\ o.sgpr = UNION {Region(place[i].sgpr, k.sgpr) : i \in WavesOf(wg)}
      /\ \A s \in SIMD : o.vgpr[s] = UNION {Region(place[i].vgpr, k.vgpr) :
                                                i \in {j \in WavesOf(wg) : place[j].simd = s}}
  BY <1>1, <1>21, OccupiedBy
<1>10. /\ Slots(q) = Slots(r) \cup SlotsOf(wg) /\ Slots(r) \cap SlotsOf(wg) = {}
       /\ \A h \in Slots(r) : SgprOf(q)[h] = SgprOf(r)[h]
       /\ \A h \in SlotsOf(wg) : SgprOf(q)[h] = Region(place[h[2]].sgpr, k.sgpr)
  BY <1>21, OwnersApart
<1>11. \A h \in SlotsOf(wg) : h = <<wg, h[2]>> /\ h[2] \in WavesOf(wg)  BY DEF SlotsOf
<1>12. \A i \in WavesOf(wg) : <<wg, i>> \in SlotsOf(wg)  BY DEF SlotsOf
<1>13. ASSUME NEW s \in SIMD, NEW h
       PROVE  h \in PoolOf(wg, place, s) <=> h \in SlotsOf(wg) /\ place[h[2]].simd = s
  BY DEF PoolOf
<1>3. Owned(q.sgpr, SgprOf(q))
  <2> DEFINE more == [h \in SlotsOf(wg) |-> Region(place[h[2]].sgpr, k.sgpr)]
             own == SgprOf(r)
             all == SgprOf(q)
  <2>1. /\ DOMAIN all = DOMAIN own \cup DOMAIN more /\ DOMAIN own \cap DOMAIN more = {}
        /\ \A g \in DOMAIN own : all[g] = own[g]
        /\ \A g \in DOMAIN more : all[g] = more[g]
    BY <1>10 DEF SgprOf
  <2>2. \A g \in DOMAIN more : more[g] \cap r.sgpr = {}  BY <1>11, <1>20
  <2>3. \A g, h \in DOMAIN more : g # h => more[g] \cap more[h] = {}  BY <1>11, <1>20
  <2>4. UNION Range(more) = o.sgpr
    <3>1. \A i \in WavesOf(wg) : <<wg, i>> \in DOMAIN more
                                /\ more[<<wg, i>>] = Region(place[i].sgpr, k.sgpr)
      BY <1>12
    <3>2. \A h \in DOMAIN more : h[2] \in WavesOf(wg)
                                /\ more[h] = Region(place[h[2]].sgpr, k.sgpr)
      BY <1>11
    <3>3. o.sgpr = UNION {Region(place[i].sgpr, k.sgpr) : i \in WavesOf(wg)}  BY <1>2
    <3> HIDE DEF more
    <3>4. \A e : e \in UNION Range(more) => e \in o.sgpr  BY ONLY <3>2, <3>3 DEF Range
    <3>5. \A e : e \in o.sgpr => e \in UNION Range(more)  BY ONLY <3>1, <3>3 DEF Range
    <3> QED  BY ONLY <3>4, <3>5
  <2>5. Owned(r.sgpr, own)  BY DEF Consistent
  <2>7. Adds(r.sgpr, own, more, all)
    <3> HIDE DEF more, own, all
    <3> QED  BY ONLY <2>1, <2>2, <2>3, <2>5 DEF Adds
  <2> HIDE DEF more, own, all
  <2>6. Owned(r.sgpr \cup UNION Range(more), all)  BY ONLY <2>7, MoreOwners
  <2> QED  BY <1>20, <2>4, <2>6 DEF all
<1>4. Owned(q.lds, LdsOf(q))
  <2> DEFINE more == [v \in {wg} |-> o.lds]
             own == LdsOf(r)
             all == LdsOf(q)
  <2>1. /\ DOMAIN all = DOMAIN own \cup DOMAIN more /\ DOMAIN own \cap DOMAIN more = {}
        /\ \A g \in DOMAIN own : all[g] = own[g]
        /\ \A g \in DOMAIN more : all[g] = more[g]
    BY <1>21 DEF OneApart, LdsOf
  <2>2. \A g \in DOMAIN more : more[g] \cap r.lds = {}  BY <1>20
  <2>3. \A g, h \in DOMAIN more : g # h => more[g] \cap more[h] = {}  OBVIOUS
  <2>4. UNION Range(more) = o.lds  BY DEF Range
  <2>5. Owned(r.lds, own)  BY DEF Consistent
  <2>7. Adds(r.lds, own, more, all)
    <3> HIDE DEF more, own, all
    <3> QED  BY ONLY <2>1, <2>2, <2>3, <2>5 DEF Adds
  <2> HIDE DEF more, own, all
  <2>6. Owned(r.lds \cup UNION Range(more), all)  BY ONLY <2>7, MoreOwners
  <2> QED  BY <1>20, <2>4, <2>6 DEF all
<1>5. ASSUME NEW s \in SIMD PROVE Owned(q.vgpr[s], VgprOf(q, s))
  <2> DEFINE there == PoolOf(wg, place, s)
             more == [h \in there |-> Region(place[h[2]].vgpr, k.vgpr)]
             own == VgprOf(r, s)
             all == VgprOf(q, s)
  <2>0. /\ Here(q, s) = Here(r, s) \cup there /\ Here(r, s) \cap there = {}
        /\ \A h \in Here(r, s) : VgprOf(q, s)[h] = VgprOf(r, s)[h]
        /\ \A h \in there : VgprOf(q, s)[h] = Region(place[h[2]].vgpr, k.vgpr)
    <3>1. OneApart(r, q, wg) /\ place = q.held[wg] /\ k = Kernel[wg[1].kernel]  BY <1>21
    <3> QED  BY <3>1, PoolApart
  <2>1. /\ DOMAIN all = DOMAIN own \cup DOMAIN more /\ DOMAIN own \cap DOMAIN more = {}
        /\ \A g \in DOMAIN own : all[g] = own[g]
        /\ \A g \in DOMAIN more : all[g] = more[g]
    BY <2>0 DEF VgprOf
  <2>2. \A g \in DOMAIN more : more[g] \cap r.vgpr[s] = {}  BY <1>11, <1>13, <1>20
  <2>3. ASSUME NEW g \in there, NEW h \in there, g # h
        PROVE  more[g] \cap more[h] = {}
    <3>1. g[2] \in WavesOf(wg) /\ h[2] \in WavesOf(wg) /\ g[2] # h[2]  BY <1>11, <1>13, <2>3
    <3>2. place[g[2]].simd = place[h[2]].simd  BY <1>13
    <3>3. Region(place[g[2]].vgpr, k.vgpr) \cap Region(place[h[2]].vgpr, k.vgpr) = {}
      BY <1>20, <3>1, <3>2
    <3> QED  BY <3>3
  <2>4. UNION Range(more) = o.vgpr[s]
    <3> DEFINE waves == {j \in WavesOf(wg) : place[j].simd = s}
    <3>1. \A i \in waves : <<wg, i>> \in DOMAIN more
                          /\ more[<<wg, i>>] = Region(place[i].vgpr, k.vgpr)
      BY <1>12, <1>13
    <3>2. \A h \in DOMAIN more : h[2] \in waves
                                /\ more[h] = Region(place[h[2]].vgpr, k.vgpr)
      BY <1>11, <1>13
    <3>3. o.vgpr[s] = UNION {Region(place[i].vgpr, k.vgpr) : i \in waves}  BY <1>2
    <3> HIDE DEF more, waves
    <3>4. \A e : e \in UNION Range(more) => e \in o.vgpr[s]  BY ONLY <3>2, <3>3 DEF Range
    <3>5. \A e : e \in o.vgpr[s] => e \in UNION Range(more)  BY ONLY <3>1, <3>3 DEF Range
    <3> QED  BY ONLY <3>4, <3>5
  <2>5. Owned(r.vgpr[s], own)  BY DEF Consistent
  <2>7. Adds(r.vgpr[s], own, more, all)
    <3>1. DOMAIN more = there  OBVIOUS
    <3> HIDE DEF more, own, all, there
    <3> QED  BY ONLY <2>1, <2>2, <2>3, <2>5, <3>1 DEF Adds
  <2> HIDE DEF more, own, all
  <2>6. Owned(r.vgpr[s] \cup UNION Range(more), all)  BY ONLY <2>7, MoreOwners
  <2> QED  BY <1>20, <2>4, <2>6 DEF all
<1>6. ASSUME NEW s \in SIMD
      PROVE  q.free[s] = PoolSize - Cardinality(Here(q, s)) /\ q.free[s] >= 0
  <2> DEFINE n == Cardinality(Here(r, s))
  <2>1. r.free[s] = PoolSize - n  BY DEF Consistent
  <2>2. n \in Nat /\ o.pool[s] \in Nat /\ Cardinality(Here(q, s)) = n + o.pool[s]
    <3> DEFINE there == PoolOf(wg, place, s)
    <3>1. /\ Cardinality(there) = o.pool[s] /\ Cardinality(there) \in Nat /\ n \in Nat
          /\ Cardinality(Here(q, s)) = n + Cardinality(there)
      BY <1>21, PoolApart
    <3> HIDE DEF there, n
    <3> QED  BY <3>1
  <2>3. q.free[s] = r.free[s] - o.pool[s] /\ o.pool[s] <= r.free[s]  BY <1>20
  <2>4. PoolSize \in Nat  BY DispatcherAssumption
  <2> HIDE DEF n
  <2> QED  BY <2>1, <2>2, <2>3, <2>4
<1> QED  BY <1>3, <1>4, <1>5, <1>6 DEF Consistent

LEMMA BooksShrink ==
    ASSUME NEW r, NEW q, NEW wg, OneApart(r, q, wg), Consistent(q),
           NEW place, place = q.held[wg], NEW k, k = Kernel[wg[1].kernel],
           NEW o, o = Occupied(wg, place),
           r.sgpr = q.sgpr \ o.sgpr, r.lds = q.lds \ o.lds,
           \A s \in SIMD : /\ r.vgpr[s] = q.vgpr[s] \ o.vgpr[s]
                           /\ r.free[s] = q.free[s] + o.pool[s]
    PROVE  Consistent(r)
<1>1. DOMAIN place = WavesOf(wg)  BY DEF OneApart
<1>2. /\ o.sgpr = UNION {Region(place[i].sgpr, k.sgpr) : i \in WavesOf(wg)}
      /\ \A s \in SIMD : o.vgpr[s] = UNION {Region(place[i].vgpr, k.vgpr) :
                                                i \in {j \in WavesOf(wg) : place[j].simd = s}}
  BY <1>1, OccupiedBy
<1>10. /\ Slots(q) = Slots(r) \cup SlotsOf(wg) /\ Slots(r) \cap SlotsOf(wg) = {}
       /\ \A h \in Slots(r) : SgprOf(q)[h] = SgprOf(r)[h]
       /\ \A h \in SlotsOf(wg) : SgprOf(q)[h] = Region(place[h[2]].sgpr, k.sgpr)
  BY OwnersApart
<1>11. \A h \in SlotsOf(wg) : h = <<wg, h[2]>> /\ h[2] \in WavesOf(wg)  BY DEF SlotsOf
<1>12. \A i \in WavesOf(wg) : <<wg, i>> \in SlotsOf(wg)  BY DEF SlotsOf
<1>13. ASSUME NEW s \in SIMD, NEW h
       PROVE  h \in PoolOf(wg, place, s) <=> h \in SlotsOf(wg) /\ place[h[2]].simd = s
  BY DEF PoolOf
<1>3. Owned(r.sgpr, SgprOf(r))
  <2>1. DOMAIN SgprOf(q) = Slots(q) /\ DOMAIN SgprOf(r) = Slots(r)  BY DEF SgprOf
  <2>2. \A g \in SlotsOf(wg) : SgprOf(q)[g] \subseteq o.sgpr  BY <1>2, <1>10, <1>11
  <2>3. ASSUME NEW e \in o.sgpr PROVE \E g \in SlotsOf(wg) : e \in SgprOf(q)[g]
    <3>1. PICK i \in WavesOf(wg) : e \in Region(place[i].sgpr, k.sgpr)  BY <1>2
    <3>2. e \in SgprOf(q)[<<wg, i>>]  BY <1>10, <1>12, <3>1
    <3> QED  BY <1>12, <3>2
  <2>4. Owned(q.sgpr, SgprOf(q))  BY DEF Consistent
  <2>5. Leaves(q.sgpr, SgprOf(q), o.sgpr, SgprOf(r))
    BY ONLY <1>10, <2>1, <2>2, <2>3, <2>4 DEF Leaves
  <2> QED  BY <2>5, FewerOwners
<1>4. Owned(r.lds, LdsOf(r))
  <2>1. DOMAIN LdsOf(q) = DOMAIN LdsOf(r) \cup {wg} /\ wg \notin DOMAIN LdsOf(r)
    BY DEF OneApart, LdsOf
  <2>2. \A v \in DOMAIN LdsOf(r) : LdsOf(r)[v] = LdsOf(q)[v]  BY DEF OneApart, LdsOf
  <2>3. LdsOf(q)[wg] = o.lds  BY DEF OneApart, LdsOf
  <2>4. Owned(q.lds, LdsOf(q))  BY DEF Consistent
  <2>5. Leaves(q.lds, LdsOf(q), o.lds, LdsOf(r))
    BY ONLY <2>1, <2>2, <2>3, <2>4 DEF Leaves
  <2> QED  BY <2>5, FewerOwners
<1>5. ASSUME NEW s \in SIMD PROVE Owned(r.vgpr[s], VgprOf(r, s))
  <2> DEFINE there == PoolOf(wg, place, s)
  <2>0. /\ Here(q, s) = Here(r, s) \cup there /\ Here(r, s) \cap there = {}
        /\ \A h \in Here(r, s) : VgprOf(q, s)[h] = VgprOf(r, s)[h]
        /\ \A h \in there : VgprOf(q, s)[h] = Region(place[h[2]].vgpr, k.vgpr)
    BY PoolApart
  <2>1. DOMAIN VgprOf(q, s) = Here(q, s) /\ DOMAIN VgprOf(r, s) = Here(r, s)  BY DEF VgprOf
  <2>2. o.vgpr[s] = UNION {Region(place[i].vgpr, k.vgpr) :
                                i \in {j \in WavesOf(wg) : place[j].simd = s}}
    BY <1>2
  <2>3. ASSUME NEW g \in there PROVE VgprOf(q, s)[g] \subseteq o.vgpr[s]
    <3>1. g[2] \in WavesOf(wg) /\ place[g[2]].simd = s  BY <1>11, <1>13
    <3> QED  BY <2>0, <2>2, <3>1
  <2>4. ASSUME NEW e \in o.vgpr[s] PROVE \E g \in there : e \in VgprOf(q, s)[g]
    <3>1. PICK i \in WavesOf(wg) : place[i].simd = s /\ e \in Region(place[i].vgpr, k.vgpr)
      BY <2>2
    <3>2. <<wg, i>> \in there  BY <1>12, <1>13, <3>1
    <3> QED  BY <2>0, <3>1, <3>2
  <2>5. Owned(q.vgpr[s], VgprOf(q, s))  BY DEF Consistent
  <2> HIDE DEF there
  <2>6. Leaves(q.vgpr[s], VgprOf(q, s), o.vgpr[s], VgprOf(r, s))
    BY ONLY <2>0, <2>1, <2>3, <2>4, <2>5 DEF Leaves
  <2>7. Owned(q.vgpr[s] \ o.vgpr[s], VgprOf(r, s))  BY ONLY <2>6, FewerOwners
  <2> QED  BY <2>7
<1>6. ASSUME NEW s \in SIMD
      PROVE  r.free[s] = PoolSize - Cardinality(Here(r, s)) /\ r.free[s] >= 0
  <2> DEFINE n == Cardinality(Here(r, s))
             m == Cardinality(Here(q, s))
  <2>1. q.free[s] = PoolSize - m /\ q.free[s] >= 0  BY DEF Consistent
  <2>2. n \in Nat /\ o.pool[s] \in Nat /\ m = n + o.pool[s]
    <3> DEFINE there == PoolOf(wg, place, s)
    <3>1. /\ Cardinality(there) = o.pool[s] /\ Cardinality(there) \in Nat /\ n \in Nat
          /\ m = n + Cardinality(there)
      BY PoolApart
    <3> HIDE DEF there, n, m
    <3> QED  BY <3>1
  <2>3. r.free[s] = q.free[s] + o.pool[s]  OBVIOUS
  <2>4. PoolSize \in Nat  BY DispatcherAssumption
  <2> HIDE DEF n, m
  <2>5. m \in Nat  BY ONLY <2>2
  <2>6. q.free[s] \in Nat  BY ONLY <2>1, <2>4, <2>5
  <2>7. r.free[s] = PoolSize - n /\ r.free[s] >= 0
    BY ONLY <2>1, <2>2, <2>3, <2>4, <2>5, <2>6
  <2> QED  BY <2>7 DEF n
<1> QED  BY <1>3, <1>4, <1>5, <1>6 DEF Consistent

\* The next SIMD unit is not part of the books.
LEMMA SameBooks ==
    ASSUME NEW r, NEW q, Consistent(r), q.sgpr = r.sgpr, q.lds = r.lds, q.vgpr = r.vgpr,
           q.free = r.free, q.held = r.held
    PROVE  Consistent(q)
<1>1. Slots(q) = Slots(r) /\ LdsOf(q) = LdsOf(r)  BY DEF Slots, LdsOf
<1>2. SgprOf(q) = SgprOf(r)  BY <1>1 DEF SgprOf
<1>3. \A s : Here(q, s) = Here(r, s)  BY <1>1 DEF Here
<1>4. \A s : VgprOf(q, s) = VgprOf(r, s)  BY <1>3 DEF VgprOf
<1> QED  BY <1>1, <1>2, <1>3, <1>4 DEF Consistent

LEMMA FreeEntries == ASSUME NEW r, Booked(r), NEW s \in SIMD PROVE r.free[s] \in Nat
<1>1. IsFiniteSet(Slots(r)) /\ Here(r, s) \subseteq Slots(r)  BY DEF Booked, Here
<1>2. Cardinality(Here(r, s)) \in Nat  BY <1>1, FS_Subset, FS_CardinalityType
<1>3. r.free[s] = PoolSize - Cardinality(Here(r, s)) /\ r.free[s] >= 0
  BY DEF Booked, Consistent
<1> QED  BY <1>2, <1>3, DispatcherAssumption

\* The books with a work-group that has places.
LEMMA BookedGrow ==
    ASSUME NEW r, Booked(r), NEW q, NEW wg, wg \notin DOMAIN r.held,
           wg[1].kernel \in DOMAIN Kernel, DOMAIN q = ResField, q.nextSIMD \in Nat,
           DOMAIN q.held = DOMAIN r.held \cup {wg}, q.held[wg] \in [WavesOf(wg) -> Place],
           \A v \in DOMAIN r.held : q.held[v] = r.held[v], Consistent(q)
    PROVE  Booked(q)
<1>1. IsFiniteSet(Slots(q))
  <2>1. Kernel[wg[1].kernel].waves \in Nat  BY KernelAssumption
  <2>2. IsFiniteSet(WavesOf(wg)) /\ IsFiniteSet({wg})
    <3>1. IsFiniteSet(1 .. Kernel[wg[1].kernel].waves)  BY ONLY <2>1, FS_Interval
    <3>2. IsFiniteSet({wg})  BY ONLY FS_Singleton
    <3> QED  BY ONLY <3>1, <3>2 DEF WavesOf
  <2>3. IsFiniteSet(SlotsOf(wg))  BY <2>2, FS_Product DEF SlotsOf
  <2>4. Slots(q) = Slots(r) \cup SlotsOf(wg)  BY OneMoreGroup
  <2>5. IsFiniteSet(Slots(r))  BY DEF Booked
  <2> QED  BY ONLY <2>3, <2>4, <2>5, FS_Union
<1>2. \A v \in DOMAIN q.held :
          v[1].kernel \in DOMAIN Kernel /\ q.held[v] \in [WavesOf(v) -> Place]
  BY DEF Booked
<1> QED  BY <1>1, <1>2 DEF Booked

LEMMA ReserveGood ==
    ASSUME NEW r, Booked(r), NEW wg, wg \notin DOMAIN r.held, wg[1].kernel \in DOMAIN Kernel,
           NEW a, a = Reserve(r, wg)
    PROVE  /\ Booked(a.r)
           /\ a.place = <<>> => a.r.held = r.held
           /\ a.place # <<>> => /\ DOMAIN a.r.held = DOMAIN r.held \cup {wg}
                                /\ a.r.held[wg] = a.place
                                /\ \A v \in DOMAIN r.held : a.r.held[v] = r.held[v]
<1> DEFINE k == Kernel[wg[1].kernel]
           sgprs == FirstFit(r.sgpr, NumSGPR, k.sgpr, k.waves)
           ldss == Regions(r.lds, NumLDS, k.lds)
           at == MatchSIMDs(r, k.vgpr, k.waves)
           next == IF Len(at) = 0 THEN r.nextSIMD ELSE (at[Len(at)].simd % NumSIMD) + 1
           offset == CHOOSE o \in sgprs : TRUE
           place == [i \in 1 .. k.waves |-> [simd |-> at[i].simd, vgpr |-> at[i].vgpr,
                                             sgpr |-> offset[i], lds |-> Min(ldss)]]
           o == Occupied(wg, place)
           q == Take(r, wg, place, next)
<1>0. a = Reserve(r, wg)  OBVIOUS
<1>1. k.waves \in Nat \ {0} /\ k.sgpr \in Nat /\ k.vgpr \in Nat /\ k.lds \in Nat
  BY KernelAssumption
<1>2. \A s \in SIMD : r.free[s] \in Nat  BY FreeEntries
<1>3. /\ Len(at) \in 0 .. k.waves /\ DOMAIN at = 1 .. Len(at)
      /\ \A i \in DOMAIN at :
             /\ at[i].simd \in SIMD /\ at[i].vgpr \in Nat
             /\ Region(at[i].vgpr, k.vgpr) \cap r.vgpr[at[i].simd] = {}
      /\ \A i, j \in DOMAIN at : (i # j /\ at[i].simd = at[j].simd)
             => Region(at[i].vgpr, k.vgpr) \cap Region(at[j].vgpr, k.vgpr) = {}
      /\ \A s \in SIMD : Cardinality(PlacedOn(at, s)) <= r.free[s]
  <2>1. at = MatchSIMDs(r, k.vgpr, k.waves) /\ k.vgpr \in Nat /\ k.waves \in Nat  BY <1>1
  <2> HIDE DEF k, at
  <2> QED  BY ONLY <1>2, <2>1, MatchedFree, Zenon
<1>4. a = IF sgprs = {} \/ ldss = {} THEN [r |-> r, place |-> <<>>]
          ELSE IF Len(at) < k.waves THEN [r |-> [r EXCEPT !.nextSIMD = next], place |-> <<>>]
          ELSE [r |-> q, place |-> place]
  BY ONLY Zenon, <1>0 DEF Reserve
<1> HIDE DEF at
<1>5. next \in Nat
  <2>1. CASE Len(at) = 0  BY <2>1 DEF Booked
  <2>2. CASE Len(at) # 0
    <3>1. at[Len(at)].simd \in SIMD  BY <1>3, <2>2
    <3>2. NumSIMD \in Nat \ {0}  BY ComputeUnitAssumption
    <3> QED  BY <2>2, <3>1, <3>2 DEF SIMD
  <2> QED  BY <2>1, <2>2
<1> HIDE DEF next, sgprs, ldss, offset, k
<1>6. CASE sgprs = {} \/ ldss = {}
  <2>1. a = [r |-> r, place |-> <<>>]  BY <1>4, <1>6
  <2> QED  BY <2>1
<1>7. CASE ~ (sgprs = {} \/ ldss = {}) /\ Len(at) < k.waves
  <2>1. a = [r |-> [r EXCEPT !.nextSIMD = next], place |-> <<>>]  BY <1>4, <1>7
  <2> DEFINE p == [r EXCEPT !.nextSIMD = next]
  <2>2. /\ DOMAIN p = ResField /\ p.nextSIMD \in Nat
        /\ p.sgpr = r.sgpr /\ p.lds = r.lds /\ p.vgpr = r.vgpr /\ p.free = r.free
        /\ p.held = r.held
    BY <1>5 DEF Booked, ResField
  <2> HIDE DEF p
  <2>3. Consistent(p)  BY <2>2, SameBooks DEF Booked
  <2>4. Slots(p) = Slots(r)  BY <2>2 DEF Slots
  <2>5. Booked(p)  BY <2>2, <2>3, <2>4 DEF Booked
  <2>6. a.r = p /\ a.place = <<>>  BY <2>1 DEF p
  <2> QED  BY <2>2, <2>5, <2>6
<1>8. CASE ~ (sgprs = {} \/ ldss = {}) /\ ~ (Len(at) < k.waves)
  <2>1. a = [r |-> q, place |-> place]  BY <1>4, <1>8
  <2>2. DOMAIN at = 1 .. k.waves  BY <1>1, <1>3, <1>8
  <2>3. /\ \A i \in 1 .. k.waves : offset[i] \in Nat
                                   /\ Region(offset[i], k.sgpr) \cap r.sgpr = {}
        /\ \A i, j \in 1 .. k.waves :
               i # j => Region(offset[i], k.sgpr) \cap Region(offset[j], k.sgpr) = {}
    <3>1. offset \in sgprs  BY <1>8 DEF offset
    <3>2. NumSGPR \in Nat  BY DispatcherAssumption
    <3> QED  BY <1>1, <3>1, <3>2, FirstFitFree DEF sgprs
  <2>4. Min(ldss) \in Nat /\ Region(Min(ldss), k.lds) \cap r.lds = {}
    <3>1. NumLDS \in Nat  BY DispatcherAssumption
    <3> QED  BY <1>1, <1>8, <3>1, LowestRegion DEF ldss
  <2>5. WavesOf(wg) = 1 .. k.waves  BY DEF WavesOf, k
  <2>6. \A i \in 1 .. k.waves :
            /\ place[i].simd = at[i].simd /\ place[i].vgpr = at[i].vgpr
            /\ place[i].sgpr = offset[i] /\ place[i].lds = Min(ldss)
    OBVIOUS
  <2>7. place \in [WavesOf(wg) -> Place]
    <3>1. \A i \in 1 .. k.waves : place[i] \in Place
      BY <1>3, <2>2, <2>3, <2>4 DEF Place
    <3> QED  BY <2>5, <3>1
  <2>8. place # <<>>
    <3>1. 1 \in DOMAIN place  BY <1>1
    <3> HIDE DEF place
    <3> QED  BY <3>1
  <2>9. DOMAIN place = WavesOf(wg)  BY <2>5
  <2> HIDE DEF place
  <2>10. /\ o.lds = UNION {Region(place[i].lds, k.lds) : i \in WavesOf(wg)}
         /\ \A s \in SIMD : o.pool[s] = Cardinality(PlacedOn(place, s))
    <3>1. o.lds = UNION {Region(place[i].lds, k.lds) : i \in WavesOf(wg)}
      BY <2>9, OccupiedBy DEF k
    <3> QED  BY <3>1 DEF Occupied, PlacedOn
  <2>11. \A s \in SIMD : o.pool[s] <= r.free[s]
    <3>1. ASSUME NEW s \in SIMD
          PROVE  PlacedOn(place, s) = PlacedOn(at, s)
      BY <2>2, <2>5, <2>6, <2>9 DEF PlacedOn
    <3> QED  BY ONLY <1>3, <2>10, <3>1
  <2>12. o.lds \cap r.lds = {}  BY <2>4, <2>5, <2>6, <2>10
  <2> HIDE DEF o
  <2>13. /\ DOMAIN q = ResField /\ q.nextSIMD \in Nat
         /\ q.sgpr = r.sgpr \cup o.sgpr /\ q.lds = r.lds \cup o.lds
         /\ \A s \in SIMD : /\ q.vgpr[s] = r.vgpr[s] \cup o.vgpr[s]
                            /\ q.free[s] = r.free[s] - o.pool[s]
    BY <1>5 DEF Take, ResField, o
  <2>14. /\ DOMAIN q.held = DOMAIN r.held \cup {wg} /\ q.held[wg] = place
         /\ \A v \in DOMAIN r.held : q.held[v] = r.held[v]
    BY DEF Take
  <2> HIDE DEF q
  <2>15. OneApart(r, q, wg)  BY <2>9, <2>14 DEF OneApart, Booked
  <2>16. Consistent(q)
    <3>1. Consistent(r) /\ place = q.held[wg] /\ k = Kernel[wg[1].kernel]
          /\ o = Occupied(wg, place)
      BY <2>14 DEF Booked, k, o
    <3>2. \A i \in WavesOf(wg) : i \in 1 .. k.waves /\ i \in DOMAIN at  BY <2>2, <2>5
    <3>3. ASSUME NEW i \in WavesOf(wg)
          PROVE  /\ Region(place[i].sgpr, k.sgpr) \cap r.sgpr = {}
                 /\ Region(place[i].vgpr, k.vgpr) \cap r.vgpr[place[i].simd] = {}
      BY ONLY <1>3, <2>3, <2>6, <3>2, <3>3
    <3>5. ASSUME NEW i \in WavesOf(wg), NEW j \in WavesOf(wg), i # j
          PROVE  /\ Region(place[i].sgpr, k.sgpr) \cap Region(place[j].sgpr, k.sgpr) = {}
                 /\ place[i].simd = place[j].simd =>
                        Region(place[i].vgpr, k.vgpr) \cap Region(place[j].vgpr, k.vgpr) = {}
      <4>1. Region(place[i].sgpr, k.sgpr) \cap Region(place[j].sgpr, k.sgpr) = {}
        BY ONLY <2>3, <2>6, <3>2, <3>5
      <4>2. place[i].simd = place[j].simd =>
                Region(place[i].vgpr, k.vgpr) \cap Region(place[j].vgpr, k.vgpr) = {}
        BY ONLY <1>3, <2>6, <3>2, <3>5
      <4> QED  BY <4>1, <4>2
    <3>4. Gains(r, q, wg, place)  BY ONLY <2>11, <2>12, <2>13, <3>1, <3>3, <3>5 DEF Gains
    <3> QED  BY ONLY <2>15, <3>1, <3>4, BooksGrow
  <2>17. Booked(q)  BY <2>7, <2>13, <2>14, <2>16, BookedGrow
  <2> QED  BY <2>1, <2>8, <2>14, <2>17
<1> QED  BY <1>6, <1>7, <1>8

LEMMA ReleaseGood ==
    ASSUME NEW q, Booked(q), NEW wg \in DOMAIN q.held, NEW r, r = Release(q, wg)
    PROVE  /\ Booked(r)
           /\ DOMAIN r.held = DOMAIN q.held \ {wg}
           /\ \A v \in DOMAIN r.held : r.held[v] = q.held[v]
<1> DEFINE o == Occupied(wg, q.held[wg])
<1>1. /\ DOMAIN r = ResField /\ r.nextSIMD = q.nextSIMD
      /\ r.sgpr = q.sgpr \ o.sgpr /\ r.lds = q.lds \ o.lds
      /\ \A s \in SIMD : /\ r.vgpr[s] = q.vgpr[s] \ o.vgpr[s]
                         /\ r.free[s] = q.free[s] + o.pool[s]
      /\ r.held = Restrict(q.held, DOMAIN q.held \ {wg})
  <2> HIDE DEF o
  <2>1. r = [sgpr |-> q.sgpr \ o.sgpr, lds |-> q.lds \ o.lds,
             vgpr |-> [s \in SIMD |-> q.vgpr[s] \ o.vgpr[s]],
             free |-> [s \in SIMD |-> q.free[s] + o.pool[s]],
             nextSIMD |-> q.nextSIMD, held |-> Restrict(q.held, DOMAIN q.held \ {wg})]
    BY DEF Release, o
  <2> QED  BY ONLY <2>1 DEF ResField
<1>2. /\ DOMAIN r.held = DOMAIN q.held \ {wg}
      /\ \A v \in DOMAIN r.held : r.held[v] = q.held[v]
  BY <1>1 DEF Restrict
<1>3. IsFiniteSet(Slots(r))
  <2>1. Slots(r) \subseteq Slots(q)  BY <1>2 DEF Slots
  <2>2. IsFiniteSet(Slots(q))  BY DEF Booked
  <2> QED  BY ONLY <2>1, <2>2, FS_Subset
<1>4. OneApart(r, q, wg)
  <2>1. wg[1].kernel \in DOMAIN Kernel /\ DOMAIN q.held[wg] = WavesOf(wg)  BY DEF Booked
  <2> QED  BY <1>2, <1>3, <2>1 DEF OneApart
<1>5. Consistent(q)  BY DEF Booked
<1>6. Consistent(r)
  <2> DEFINE place == q.held[wg]
             k == Kernel[wg[1].kernel]
  <2>1. place = q.held[wg] /\ k = Kernel[wg[1].kernel] /\ o = Occupied(wg, place)  OBVIOUS
  <2> HIDE DEF place, k, o
  <2> QED  BY ONLY <1>1, <1>4, <1>5, <2>1, BooksShrink
<1>7. \A v \in DOMAIN r.held :
          v[1].kernel \in DOMAIN Kernel /\ r.held[v] \in [WavesOf(v) -> Place]
  BY <1>2 DEF Booked
<1>8. r.nextSIMD \in Nat  BY <1>1 DEF Booked
<1> QED  BY ONLY <1>1, <1>2, <1>3, <1>6, <1>7, <1>8 DEF Booked

-------------------------------------------------------------------------------
(* The attempts of a dispatcher *)

LEMMA CyclicOnce ==
    ASSUME NEW n \in Nat \ {0}, NEW first \in Int, NEW i \in 1 .. n, NEW j \in 1 .. n,
           Cyclic(first, n)[i] = Cyclic(first, n)[j]
    PROVE  i = j
<1> DEFINE u == first + i - 2
           v == first + j - 2
           a == u \div n
           b == v \div n
<1>1. u \in Int /\ v \in Int  OBVIOUS
<1>2. u % n = v % n
  <2>1. (u % n) + 1 = (v % n) + 1  BY DEF Cyclic
  <2> HIDE DEF u, v
  <2>2. u % n \in Int /\ v % n \in Int  BY <1>1
  <2> DEFINE c == u % n  d == v % n
  <2>3. c + 1 = d + 1 /\ c \in Int /\ d \in Int  BY <2>1, <2>2
  <2> HIDE DEF c, d
  <2>4. c = d  BY ONLY <2>3
  <2> QED  BY <2>4 DEF c, d
<1> HIDE DEF u, v
<1>3. a \in Int /\ b \in Int  BY <1>1
<1>4. u = n * a + (u % n) /\ v = n * b + (v % n)
  <2>1. \A z \in Int : z = n * (z \div n) + (z % n)  OBVIOUS
  <2> QED  BY ONLY <1>1, <2>1 DEF a, b
<1> HIDE DEF a, b
<1>5. a * n + (j - 1) = b * n + (i - 1)
  <2> DEFINE p == n * a  q == n * b  c == u % n
  <2>1. p \in Int /\ q \in Int /\ c \in Int  BY <1>1, <1>3
  <2>2. a * n = p /\ b * n = q  BY <1>3
  <2>3. u = p + c /\ v = q + c  BY <1>2, <1>4
  <2>4. u - i = v - j  BY DEF u, v
  <2> HIDE DEF p, q, c
  <2>5. p + (j - 1) = q + (i - 1)  BY <2>1, <2>3, <2>4
  <2> QED  BY <2>2, <2>5
<1>6. j - 1 \in 0 .. n - 1 /\ i - 1 \in 0 .. n - 1 /\ n \in Int  OBVIOUS
<1>7. j - 1 = i - 1
  <2> DEFINE c == j - 1  d == i - 1
  <2>1. a * n + c = b * n + d /\ c \in 0 .. n - 1 /\ d \in 0 .. n - 1  BY <1>5, <1>6
  <2> HIDE DEF c, d
  <2>2. c = d  BY ONLY <1>3, <1>6, <2>1, OnePartition
  <2> QED  BY <2>2 DEF c, d
<1> QED  BY <1>7

\* A compute unit is tried once.
Once(g, list) ==
    /\ \A k \in DOMAIN list : list[k].cu \in 1 .. NumCU[g]
    /\ \A k, l \in DOMAIN list : list[k].cu = list[l].cu => k = l

LEMMA CandidatesOnce ==
    ASSUME NEW x, NEW g \in GPU, Sane(x, g), x.launch # NoLaunch
    PROVE  Once(g, Candidates(x))
<1> DEFINE first == IF algorithm = "greedy" THEN 1 ELSE x.nextCU
           n == NumCU[g]
           order == Cyclic(first, n)
<1>1. n \in Nat \ {0} /\ DOMAIN x.part = 1 .. n /\ Len(x.part) = n  BY PartsOf
<1>2. first \in Int  BY DEF Sane
<1> HIDE DEF first, n
<1>3. /\ DOMAIN order = 1 .. n
      /\ \A i \in 1 .. n : order[i] \in 1 .. n
      /\ \A i, j \in 1 .. n : order[i] = order[j] => i = j
  <2>1. \A i, j \in 1 .. n : order[i] = order[j] => i = j
    BY ONLY <1>1, <1>2, CyclicOnce
  <2>2. DOMAIN order = 1 .. n /\ \A i \in 1 .. n : order[i] \in 1 .. n
    BY ONLY <1>1, <1>2, CyclicOrder
  <2> QED  BY <2>1, <2>2
<1>4. Candidates(x) = IF algorithm = "partition" THEN PartitionCandidates(x, order)
                      ELSE [i \in DOMAIN order |->
                                [cu |-> order[i], from |-> 1, wg |-> NextOf(x, 1)]]
  BY <1>1 DEF Candidates, first
<1> HIDE DEF order
<1>5. \A k \in DOMAIN Candidates(x) : k \in 1 .. n /\ Candidates(x)[k].cu = order[k]
  <2>1. CASE algorithm = "partition"
    <3> DEFINE list == PartitionCandidates(x, order)
    <3>1. DOMAIN order = DOMAIN x.part /\ \A i \in DOMAIN order : order[i] \in DOMAIN x.part
      BY ONLY <1>1, <1>3
    <3>2. DOMAIN list \subseteq DOMAIN x.part /\ \A k \in DOMAIN list : list[k].cu = order[k]
      BY <2>1, <3>1, PartitionCandidatesGood
    <3>3. Candidates(x) = list  BY ONLY <1>4, <2>1
    <3> HIDE DEF list
    <3> QED  BY ONLY <1>1, <3>2, <3>3
  <2>2. CASE algorithm # "partition"
    BY <1>3, <1>4, <2>2
  <2> QED  BY <2>1, <2>2
<1> QED  BY <1>3, <1>5 DEF Once, n

\* What is tried is not counted yet.
LEMMA NextUncounted ==
    ASSUME NEW x, NEW g \in GPU, Sane(x, g), x.launch # NoLaunch, NEW k, GoodCandidate(x, k)
    PROVE  k.wg \notin Counted(x)
<1> DEFINE f == k.from
           p == PerPartition(x)
           c == x.part[f].count
<1>1. /\ PerPartition(x) \in Int
      /\ \A j \in DOMAIN x.part : j \in Nat \ {0} /\ x.part[j].count \in Nat
  BY PartsOf
<1>2. x.launch.from \in Int  BY DEF Sane, Known, LaunchReq
<1>3. /\ f \in DOMAIN x.part /\ k.wg = x.launch.from + (f - 1) * p + c
      /\ algorithm = "partition" => c < p
      /\ algorithm # "partition" => f = 1
  BY DEF GoodCandidate, NextOf
<1>4. f \in Int /\ p \in Int /\ c \in Nat  BY <1>1, <1>3
<1> HIDE DEF f, p, c
<1>5. CASE algorithm = "partition"
  <2>1. ASSUME NEW j \in DOMAIN x.part, NEW n \in 0 .. x.part[j].count - 1,
               k.wg = x.launch.from + (j - 1) * p + n
        PROVE  FALSE
    <3>1. j \in Int /\ x.part[j].count \in Nat  BY <1>1
    <3>2. x.part[j].count # 0 => x.part[j].count <= p  BY <1>5 DEF Sane, HoldsNext, p
    <3>3. n \in 0 .. p - 1 /\ c \in 0 .. p - 1  BY <1>3, <1>4, <1>5, <3>1, <3>2
    <3> DEFINE a == f - 1  b == j - 1  w == x.launch.from
    <3>4. a \in Int /\ b \in Int /\ w \in Int  BY <1>2, <1>4, <3>1
    <3>5. w + a * p + c = w + b * p + n  BY <1>3, <2>1
    <3> HIDE DEF a, b, w
    <3>6. a * p + c = b * p + n
      <4> DEFINE u == a * p  v == b * p
      <4>1. u \in Int /\ v \in Int /\ n \in Int  BY <1>4, <3>3, <3>4
      <4>2. w + u + c = w + v + n  BY <3>5
      <4> HIDE DEF u, v
      <4>3. u + c = v + n  BY ONLY <1>4, <3>4, <4>1, <4>2
      <4> QED  BY <4>3 DEF u, v
    <3>7. a = b /\ c = n  BY ONLY <1>4, <3>3, <3>4, <3>6, OnePartition
    <3>8. f = j  BY <1>4, <3>1, <3>7 DEF a, b
    <3> QED  BY <2>1, <3>1, <3>7, <3>8 DEF c
  <2> QED  BY <1>5, <2>1 DEF Counted, p
<1>6. CASE algorithm # "partition"
  <2>1. f = 1 /\ (f - 1) * p = 0  BY <1>3, <1>4, <1>6
  <2>2. k.wg = x.launch.from + c  BY <1>2, <1>3, <1>4, <2>1
  <2> QED  BY <1>2, <1>4, <1>6, <2>1, <2>2 DEF Counted, c
<1> QED  BY <1>5, <1>6

\* The books after the attempts: those of a compute unit are as they were, or as the one
\* attempt there leaves them; the last attempt may have found the places.
Tried(g, x, list, attempt, out) ==
    LET At(n) == <<g, list[n].cu>>
        Found(n) == /\ attempt[n].place # <<>>
                    /\ out.x.curr = <<[wg |-> <<x.launch, list[n].wg>>, cu |-> At(n),
                                       place |-> attempt[n].place]>> IN
    /\ DOMAIN out.reserved = CU
    /\ \A c \in CU :
           \/ /\ out.reserved[c] = reserved[c]
              /\ out.x.curr # <<>> => out.x.curr[1].cu # c
           \/ \E n \in DOMAIN list :
                  /\ c = At(n) /\ out.reserved[c] = attempt[n].r
                  /\ \/ Found(n)
                     \/ /\ attempt[n].place = <<>>
                        /\ out.x.curr # <<>> => out.x.curr[1].cu # c
    /\ out.x.curr # <<>> => out.x.curr[1].cu \in CU

LEMMA OutcomeTried ==
    ASSUME NEW g \in GPU, NEW x, x.curr = <<>>, DOMAIN x = DispField, NEW list, NEW attempt,
           DOMAIN list \subseteq Nat, Once(g, list)
    PROVE  Tried(g, x, list, attempt, Outcome(g, x, list, attempt))
<1> DEFINE At(n) == <<g, list[n].cu>>
           fits == {n \in DOMAIN list : attempt[n].place # <<>>}
           tried == IF fits = {} THEN DOMAIN list ELSE {n \in DOMAIN list : n <= Min(fits)}
           i == Min(fits)
           out == Outcome(g, x, list, attempt)
           now == [wg |-> <<x.launch, list[i].wg>>, cu |-> At(i), place |-> attempt[i].place]
<1>1. out.reserved = [c \in CU |->
          IF \E n \in tried : At(n) = c THEN attempt[CHOOSE n \in tried : At(n) = c].r
                                       ELSE reserved[c]]
  BY DEF Outcome
<1>2. out.x.curr = IF fits = {} THEN <<>> ELSE <<now>>
  <2> DEFINE Held(j) == IF \E n \in tried : list[n].cu = j /\ list[n].from = j
                        THEN NextOf(x, j) ELSE x.part[j].held
             part == [j \in DOMAIN x.part |->
                 IF fits # {} /\ j = list[i].from THEN [count |-> x.part[j].count + 1, held |-> 0]
                 ELSE [count |-> x.part[j].count, held |-> Held(j)]]
             y == IF fits = {} THEN [x EXCEPT !.part = part]
                  ELSE [x EXCEPT !.part = part, !.nextCU = (list[i].cu % Len(x.part)) + 1,
                                 !.curr = <<now>>]
  <2>1. out.x = y  BY DEF Outcome
  <2> HIDE DEF out, part, fits, now
  <2>2. y.curr = IF fits = {} THEN <<>> ELSE <<now>>  BY DEF DispField
  <2> QED  BY <2>1, <2>2
<1> HIDE DEF out
<1>3. \A n \in DOMAIN list : At(n) \in CU  BY DEF Once, CU
<1>4. \A n, m \in DOMAIN list : At(n) = At(m) => n = m  BY DEF Once
<1>5. fits # {} => i \in fits /\ \A n \in fits : i <= n
  <2> SUFFICES ASSUME fits # {} PROVE i \in fits /\ \A n \in fits : i <= n  OBVIOUS
  <2>1. fits \in SUBSET Nat  OBVIOUS
  <2> HIDE DEF fits
  <2>2. PICK n \in fits : \A m \in fits : n <= m  BY <2>1, SmallestNat
  <2> QED  BY <2>2 DEF Min
<1>6. tried \subseteq DOMAIN list /\ (fits # {} => i \in tried)
  <2>1. tried \subseteq DOMAIN list  OBVIOUS
  <2>2. ASSUME fits # {} PROVE i \in tried
    <3>1. i \in DOMAIN list /\ i \in Nat  BY <1>5, <2>2
    <3>2. Min(fits) <= Min(fits)  BY <3>1
    <3>3. tried = {n \in DOMAIN list : n <= Min(fits)}  BY <2>2
    <3> HIDE DEF tried, fits
    <3> QED  BY <3>1, <3>2, <3>3
  <2> QED  BY <2>1, <2>2
<1>7. \A n \in tried : attempt[n].place # <<>> => fits # {} /\ n = i
  <2> SUFFICES ASSUME NEW n \in tried, attempt[n].place # <<>> PROVE fits # {} /\ n = i
    OBVIOUS
  <2>1. n \in fits /\ n \in Nat  BY <1>6
  <2>2. n <= i /\ i <= n /\ i \in Nat
    <3>1. i \in fits /\ i <= n  BY <1>5, <2>1
    <3>2. n <= i  BY <2>1
    <3>3. fits \subseteq Nat  OBVIOUS
    <3> QED  BY ONLY <3>1, <3>2, <3>3
  <2> QED  BY ONLY <2>1, <2>2
<1>8. fits # {} => i \in DOMAIN list /\ attempt[i].place # <<>>  BY <1>5
<1> HIDE DEF i, tried, fits
<1>9. ASSUME NEW c \in CU
      PROVE  \/ /\ out.reserved[c] = reserved[c]
                /\ out.x.curr # <<>> => out.x.curr[1].cu # c
             \/ \E n \in DOMAIN list :
                    /\ c = At(n) /\ out.reserved[c] = attempt[n].r
                    /\ \/ attempt[n].place # <<>>
                          /\ out.x.curr = <<[wg |-> <<x.launch, list[n].wg>>, cu |-> At(n),
                                             place |-> attempt[n].place]>>
                       \/ /\ attempt[n].place = <<>>
                          /\ out.x.curr # <<>> => out.x.curr[1].cu # c
  <2>1. CASE \E n \in tried : At(n) = c
    <3>1. PICK n \in tried : n = CHOOSE m \in tried : At(m) = c  BY <2>1
    <3>2. At(n) = c /\ out.reserved[c] = attempt[n].r  BY <1>1, <2>1, <3>1
    <3>3. n \in DOMAIN list  BY <1>6
    <3>4. CASE attempt[n].place # <<>>
      <4>1. fits # {} /\ n = i  BY <1>7, <3>4
      <4>2. out.x.curr = <<[wg |-> <<x.launch, list[n].wg>>, cu |-> At(n),
                            place |-> attempt[n].place]>>
        BY <1>2, <4>1
      <4> QED  BY <3>2, <3>3, <3>4, <4>2
    <3>5. CASE attempt[n].place = <<>>
      <4>1. out.x.curr # <<>> => out.x.curr[1].cu # c
        <5> SUFFICES ASSUME out.x.curr # <<>>, out.x.curr[1].cu = c PROVE FALSE  OBVIOUS
        <5>1. fits # {} /\ out.x.curr = <<now>>  BY <1>2
        <5>2. At(i) = c  BY <5>1
        <5>3. n = i  BY <1>4, <1>8, <3>2, <3>3, <5>1, <5>2
        <5> QED  BY <1>8, <3>5, <5>1, <5>3
      <4> QED  BY <3>2, <3>3, <3>5, <4>1
    <3> QED  BY <3>4, <3>5
  <2>2. CASE ~ \E n \in tried : At(n) = c
    <3>1. out.reserved[c] = reserved[c]  BY <1>1, <2>2
    <3>2. out.x.curr # <<>> => out.x.curr[1].cu # c
      <4>1. out.x.curr # <<>> => fits # {} /\ out.x.curr[1].cu = At(i)  BY <1>2
      <4> QED  BY <1>6, <2>2, <4>1
    <3> QED  BY <3>1, <3>2
  <2> QED  BY <2>1, <2>2
<1>10. out.x.curr # <<>> => out.x.curr[1].cu \in CU
  <2>1. out.x.curr # <<>> => fits # {} /\ out.x.curr[1].cu = At(i)  BY <1>2
  <2> QED  BY <1>3, <1>8, <2>1
<1>11. DOMAIN out.reserved = CU  BY <1>1
<1> QED  BY <1>9, <1>10, <1>11 DEF Tried, out

\* The books gain at most the work-group that is found places, which had none.
Placing(y) ==
    /\ DOMAIN y.reserved = CU
    /\ \A c \in CU :
           LET old == reserved[c].held
               new == y.reserved[c].held IN
           /\ Booked(y.reserved[c])
           /\ \A wg \in DOMAIN old : wg \in DOMAIN new /\ new[wg] = old[wg]
           /\ \A wg \in DOMAIN new :
                  wg \in DOMAIN old \/ (y.x.curr # <<>> /\ wg = y.x.curr[1].wg)
    /\ y.x.curr # <<>> =>
           LET m == y.x.curr[1] IN
           /\ m.cu \in CU /\ m.wg \in DOMAIN y.reserved[m.cu].held
           /\ m.place = y.reserved[m.cu].held[m.wg]

LEMMA AlgorithmPlaces ==
    ASSUME BooksOK, DispatchersOK, NEW d \in Dispatchers, NEW x, x = disp[d],
           x.launch # NoLaunch, x.curr = <<>>, NEW y, y = AlgorithmNext(d[1], x)
    PROVE  Placing(y)
<1> DEFINE g == d[1]
           list == Candidates(x)
           attempt == Attempts(g, x, list)
           At(n) == <<g, list[n].cu>>
           WG(n) == <<x.launch, list[n].wg>>
<1>1. g \in GPU /\ Sane(x, g)  BY DEF Dispatchers, DispatchersOK
<1>2. Once(g, list) /\ DOMAIN list \subseteq Nat
      /\ \A n \in DOMAIN list : GoodCandidate(x, list[n])
  BY <1>1, CandidatesGood, CandidatesOnce
<1>3. y = Outcome(g, x, list, attempt)  BY DEF AlgorithmNext
<1>4. \A n \in DOMAIN list : At(n) \in CU /\ attempt[n] = Reserve(reserved[At(n)], WG(n))
  BY <1>1, <1>2 DEF Attempts, Once, CU
<1> HIDE DEF list, attempt, g
<1>5. Tried(g, x, list, attempt, y)
  <2>1. DOMAIN x = DispField  BY <1>1 DEF Sane
  <2> QED  BY <1>1, <1>2, <1>3, <2>1, OutcomeTried
<1>6. ASSUME NEW n \in DOMAIN list
      PROVE  WG(n)[1].kernel \in DOMAIN Kernel /\ \A c \in CU : WG(n) \notin DOMAIN reserved[c].held
  <2>1. list[n].wg \notin Counted(x)  BY <1>1, <1>2, NextUncounted
  <2>2. \A c \in CU : \A wg \in DOMAIN reserved[c].held :
            wg[1] = x.launch => wg[2] \in Counted(x)
    BY DEF BooksOK, Begun
  <2>3. WG(n)[1] = x.launch /\ WG(n)[2] = list[n].wg  OBVIOUS
  <2>4. x.launch.kernel \in DOMAIN Kernel  BY <1>1 DEF Sane, Known, LaunchReq
  <2> HIDE DEF WG
  <2> QED  BY <2>1, <2>2, <2>3, <2>4
<1>7. ASSUME NEW n \in DOMAIN list
      PROVE  LET a == attempt[n]
                 old == reserved[At(n)].held IN
             /\ Booked(a.r)
             /\ a.place = <<>> => a.r.held = old
             /\ a.place # <<>> => /\ DOMAIN a.r.held = DOMAIN old \cup {WG(n)}
                                  /\ a.r.held[WG(n)] = a.place
                                  /\ \A v \in DOMAIN old : a.r.held[v] = old[v]
  <2> DEFINE r == reserved[At(n)]
  <2>1. Booked(r)  BY <1>4 DEF BooksOK
  <2>2. WG(n) \notin DOMAIN r.held /\ WG(n)[1].kernel \in DOMAIN Kernel  BY <1>4, <1>6
  <2>3. attempt[n] = Reserve(r, WG(n))  BY <1>4
  <2> HIDE DEF r, WG, At
  <2>4. /\ Booked(attempt[n].r)
        /\ attempt[n].place = <<>> => attempt[n].r.held = r.held
        /\ attempt[n].place # <<>> =>
               /\ DOMAIN attempt[n].r.held = DOMAIN r.held \cup {WG(n)}
               /\ attempt[n].r.held[WG(n)] = attempt[n].place
               /\ \A v \in DOMAIN r.held : attempt[n].r.held[v] = r.held[v]
    BY ONLY <2>1, <2>2, <2>3, ReserveGood
  <2> QED  BY <2>4 DEF r
<1>8. DOMAIN y.reserved = CU  BY <1>5 DEF Tried
<1> DEFINE Good(c) ==
               /\ Booked(y.reserved[c])
               /\ \A wg \in DOMAIN reserved[c].held :
                      /\ wg \in DOMAIN y.reserved[c].held
                      /\ y.reserved[c].held[wg] = reserved[c].held[wg]
               /\ \A wg \in DOMAIN y.reserved[c].held :
                      wg \in DOMAIN reserved[c].held \/ (y.x.curr # <<>> /\ wg = y.x.curr[1].wg)
               /\ (y.x.curr # <<>> /\ y.x.curr[1].cu = c) =>
                      /\ y.x.curr[1].wg \in DOMAIN y.reserved[c].held
                      /\ y.x.curr[1].place = y.reserved[c].held[y.x.curr[1].wg]
<1>9. ASSUME NEW c \in CU PROVE Good(c)
  <2>1. CASE y.reserved[c] = reserved[c] /\ (y.x.curr # <<>> => y.x.curr[1].cu # c)
    BY <2>1 DEF BooksOK
  <2>2. ASSUME NEW n \in DOMAIN list, c = At(n), y.reserved[c] = attempt[n].r,
               attempt[n].place # <<>>,
               y.x.curr = <<[wg |-> WG(n), cu |-> At(n), place |-> attempt[n].place]>>
        PROVE  Good(c)
    <3>1. y.x.curr # <<>> /\ y.x.curr[1].wg = WG(n) /\ y.x.curr[1].place = attempt[n].place
      BY <2>2
    <3> HIDE DEF WG, At
    <3> QED  BY <1>7, <2>2, <3>1
  <2>3. ASSUME NEW n \in DOMAIN list, c = At(n), y.reserved[c] = attempt[n].r,
               attempt[n].place = <<>>, y.x.curr # <<>> => y.x.curr[1].cu # c
        PROVE  Good(c)
    <3> HIDE DEF WG, At
    <3> QED  BY <1>7, <2>3
  <2>4. \/ y.reserved[c] = reserved[c] /\ (y.x.curr # <<>> => y.x.curr[1].cu # c)
        \/ \E n \in DOMAIN list :
               /\ c = At(n) /\ y.reserved[c] = attempt[n].r
               /\ \/ /\ attempt[n].place # <<>>
                     /\ y.x.curr = <<[wg |-> WG(n), cu |-> At(n), place |-> attempt[n].place]>>
                  \/ /\ attempt[n].place = <<>>
                     /\ y.x.curr # <<>> => y.x.curr[1].cu # c
    BY <1>5 DEF Tried
  <2> HIDE DEF Good
  <2> QED  BY <2>1, <2>2, <2>3, <2>4
<1>10. y.x.curr # <<>> => y.x.curr[1].cu \in CU  BY <1>5 DEF Tried
<1>11. ASSUME NEW c \in CU
       PROVE  /\ Booked(y.reserved[c])
              /\ \A wg \in DOMAIN reserved[c].held :
                     /\ wg \in DOMAIN y.reserved[c].held
                     /\ y.reserved[c].held[wg] = reserved[c].held[wg]
              /\ \A wg \in DOMAIN y.reserved[c].held :
                     wg \in DOMAIN reserved[c].held \/ (y.x.curr # <<>> /\ wg = y.x.curr[1].wg)
  BY <1>9
<1>12. ASSUME y.x.curr # <<>>
       PROVE  LET m == y.x.curr[1] IN
              /\ m.cu \in CU /\ m.wg \in DOMAIN y.reserved[m.cu].held
              /\ m.place = y.reserved[m.cu].held[m.wg]
  <2> DEFINE m == y.x.curr[1]
  <2>1. PICK c \in CU : c = m.cu  BY <1>10, <1>12
  <2>2. (y.x.curr # <<>> /\ m.cu = c) =>
            m.wg \in DOMAIN y.reserved[c].held /\ m.place = y.reserved[c].held[m.wg]
    <3> HIDE DEF Good
    <3>1. Good(c)  BY <1>9, <2>1
    <3> USE DEF Good
    <3> QED  BY ONLY <3>1
  <2> HIDE DEF m
  <2>3. m.wg \in DOMAIN y.reserved[m.cu].held /\ m.place = y.reserved[m.cu].held[m.wg]
    BY ONLY <1>12, <2>1, <2>2
  <2> QED  BY ONLY <2>1, <2>3 DEF m
<1> HIDE DEF Good
<1> QED  BY ONLY <1>8, <1>11, <1>12 DEF Placing

-------------------------------------------------------------------------------
(* Wavefronts stay where they are *)

Seat(x, y) == DOMAIN y = DOMAIN x /\ y.cu = x.cu /\ y.simd = x.simd

Seated == \A w \in DOMAIN wave : {"cu", "simd"} \subseteq DOMAIN wave[w]

Stays == DOMAIN wave' \subseteq DOMAIN wave /\ \A w \in DOMAIN wave' : Seat(wave[w], wave'[w])

LEMMA AdvancedSeat ==
    ASSUME NEW x, {"cu", "simd"} \subseteq DOMAIN x
    PROVE  Seat(x, Advanced(x))
<1> DEFINE stale == Min({Line(x.pc + 1) - x.from, Len(x.buf)})
           buf == IF x.buf = <<>> THEN x.buf ELSE SubSeq(x.buf, stale + 1, Len(x.buf))
           from == IF x.buf = <<>> THEN x.from ELSE x.from + stale
           y == [[[[x EXCEPT !.pc = @ + 1] EXCEPT !.state = "Ready"] EXCEPT !.buf = buf]
                     EXCEPT !.from = from]
<1>1. Advanced(x) = [x EXCEPT !.pc = @ + 1, !.state = "Ready",
                              !.buf = IF @ = <<>> THEN @ ELSE SubSeq(@, stale + 1, Len(@)),
                              !.from = IF x.buf = <<>> THEN @ ELSE @ + stale]
  BY DEF Advanced
<1> HIDE DEF stale
<1> QED  BY ONLY <1>1, {"cu", "simd"} \subseteq DOMAIN x DEF Seat

LEMMA AllStay ==
    ASSUME DOMAIN wave' \subseteq DOMAIN wave,
           \A w \in DOMAIN wave' : wave'[w] = wave[w] \/ Seat(wave[w], wave'[w])
    PROVE  Stays
  BY DEF Stays, Seat

LEMMA OneSeat ==
    ASSUME Seated, NEW w, NEW y, w \in DOMAIN wave => Seat(wave[w], y),
           wave' = [wave EXCEPT ![w] = y]
    PROVE  Stays
<1>1. DOMAIN wave' = DOMAIN wave  OBVIOUS
<1>2. \A v \in DOMAIN wave : wave'[v] = wave[v] \/ (v = w /\ wave'[v] = y)  OBVIOUS
<1> QED  BY <1>1, <1>2, AllStay

LEMMA RetireStays ==
    ASSUME Seated, NEW c, NEW u, NEW w, Retire(c, u, w)
    PROVE  Stays
<1> DEFINE x == wave[w]
           inst == Code(w)[x.inst]
<1>1. \/ \E pc \in {x.pc + 1, inst.to} :
             wave' = [wave EXCEPT ![w].pc = pc, ![w].state = "Ready",
                                  ![w].buf = <<>>, ![w].from = Line(pc)]
      \/ wave' = [wave EXCEPT ![w] = [Advanced(x) EXCEPT !.smem = @ + 1]]
      \/ wave' = [wave EXCEPT ![w] = [Advanced(x) EXCEPT !.smem = @ + 1, !.vmem = @ + 1]]
      \/ wave' = [wave EXCEPT ![w] = Advanced(x)]
  BY DEF Retire
<1>2. w \in DOMAIN wave => Seat(x, Advanced(x)) /\ {"cu", "simd"} \subseteq DOMAIN x
  BY AdvancedSeat DEF Seated
<1>3. ASSUME NEW pc, wave' = [wave EXCEPT ![w].pc = pc, ![w].state = "Ready",
                                          ![w].buf = <<>>, ![w].from = Line(pc)]
      PROVE  Stays
  <2> DEFINE y == [x EXCEPT !.pc = pc, !.state = "Ready", !.buf = <<>>, !.from = Line(pc)]
  <2>1. wave' = [wave EXCEPT ![w] = y]  BY <1>3
  <2>2. w \in DOMAIN wave => Seat(x, y)  BY <1>2 DEF Seat
  <2> HIDE DEF y
  <2> QED  BY <2>1, <2>2, OneSeat
<1> DEFINE a == Advanced(x)
           y == [a EXCEPT !.smem = @ + 1]
           z == [a EXCEPT !.smem = @ + 1, !.vmem = @ + 1]
<1>4. w \in DOMAIN wave => Seat(x, a) /\ Seat(x, y) /\ Seat(x, z)
  <2> HIDE DEF a, x
  <2> QED  BY <1>2 DEF Seat, a
<1>5. CASE wave' = [wave EXCEPT ![w] = Advanced(x)]
  <2>1. wave' = [wave EXCEPT ![w] = a]  BY <1>5
  <2> HIDE DEF a
  <2> QED  BY ONLY <1>4, <2>1, Seated, OneSeat DEF x
<1>6. CASE wave' = [wave EXCEPT ![w] = [Advanced(x) EXCEPT !.smem = @ + 1]]
  <2>1. wave' = [wave EXCEPT ![w] = y]  BY <1>6
  <2> HIDE DEF y
  <2> QED  BY ONLY <1>4, <2>1, Seated, OneSeat DEF x
<1>7. CASE wave' = [wave EXCEPT ![w] = [Advanced(x) EXCEPT !.smem = @ + 1, !.vmem = @ + 1]]
  <2>1. wave' = [wave EXCEPT ![w] = z]  BY <1>7
  <2> HIDE DEF z
  <2> QED  BY ONLY <1>4, <2>1, Seated, OneSeat DEF x
<1> QED  BY ONLY <1>1, <1>3, <1>5, <1>6, <1>7, Zenon

LEMMA EvalStays ==
    ASSUME Seated, NEW w \in DOMAIN wave, Eval(w)
    PROVE  Stays
<1> DEFINE x == wave[w]
<1>1. \A v \in DOMAIN wave : {"cu", "simd"} \subseteq DOMAIN wave[v]  BY DEF Seated
<1>2. \A v \in DOMAIN wave : Seat(wave[v], Advanced(wave[v]))  BY <1>1, AdvancedSeat
<1>3. ASSUME NEW s
      PROVE  Seat(x, [x EXCEPT !.state = s])
  BY <1>1 DEF Seat
<1>4. ASSUME EvalSEndPgm(w) PROVE Stays
  <2>1. \/ wave' = Restrict(wave, DOMAIN wave \ Waves(WGOf(w)))
        \/ wave' = [v \in DOMAIN wave |->
                     IF v = w THEN [x EXCEPT !.state = "Completed"]
                     ELSE IF v \in Others(w) /\ wave[v].state # "Completed"
                     THEN Advanced(wave[v]) ELSE wave[v]]
        \/ wave' = [wave EXCEPT ![w].state = "Completed"]
    BY <1>4 DEF EvalSEndPgm
  <2>2. CASE wave' = Restrict(wave, DOMAIN wave \ Waves(WGOf(w)))
    BY <2>2, AllStay DEF Restrict
  <2>3. CASE wave' = [v \in DOMAIN wave |->
                     IF v = w THEN [x EXCEPT !.state = "Completed"]
                     ELSE IF v \in Others(w) /\ wave[v].state # "Completed"
                     THEN Advanced(wave[v]) ELSE wave[v]]
    BY <1>2, <1>3, <2>3, AllStay
  <2>4. CASE wave' = [wave EXCEPT ![w].state = "Completed"]
    BY <1>3, <2>4, OneSeat
  <2> QED  BY <2>1, <2>2, <2>3, <2>4
<1>5. ASSUME EvalSBarrier(w) PROVE Stays
  <2>1. \/ PassBarrier(WGOf(w)) \/ wave' = [wave EXCEPT ![w].state = "AtBarrier"]
    BY <1>5 DEF EvalSBarrier
  <2>2. CASE PassBarrier(WGOf(w))
    <3>1. wave' = [v \in DOMAIN wave |->
              IF v \in Waves(WGOf(w)) /\ wave[v].state # "Completed" THEN Advanced(wave[v])
                                                                    ELSE wave[v]]
      BY <2>2 DEF PassBarrier
    <3> QED  BY <1>2, <3>1, AllStay
  <2>3. CASE wave' = [wave EXCEPT ![w].state = "AtBarrier"]
    BY <1>3, <2>3, OneSeat
  <2> QED  BY <2>1, <2>2, <2>3
<1>6. ASSUME wave' = [wave EXCEPT ![w] = Advanced(x)] PROVE Stays
  BY <1>2, <1>6, OneSeat
<1> QED  BY <1>4, <1>5, <1>6 DEF Eval

LEMMA FlushStays == ASSUME Seated, NEW c \in CU, Flush(c) PROVE Stays
<1> DEFINE Again(x) == [x EXCEPT !.state = "Ready", !.fetching = FALSE]
<1>1. wave' = [w \in DOMAIN wave |->
          IF wave[w].cu = c /\ wave[w].state # "Completed" THEN Again(wave[w]) ELSE wave[w]]
  BY Zenon DEF Flush
<1>2. \A v \in DOMAIN wave : Seat(wave[v], Again(wave[v]))  BY DEF Seat, Seated
<1> HIDE DEF Again
<1>3. DOMAIN wave' = DOMAIN wave  BY ONLY <1>1
<1>4. \A v \in DOMAIN wave' : wave'[v] = wave[v] \/ wave'[v] = Again(wave[v])
  BY ONLY <1>1
<1> QED  BY ONLY <1>2, <1>3, <1>4, AllStay

LEMMA SeatsStay ==
    ASSUME Seated, NEW c \in CU,
           \/ \E w \in On(c) : Fetch(w) \/ Issue(w) \/ Eval(w) \/ \E u \in Unit : Retire(c, u, w)
           \/ FetchReturn(c) \/ ScalarReturn(c) \/ Resume(c) \/ Resend(c) \/ Unpause(c)
           \/ Flush(c) \/ VectorReturn(c)
    PROVE  Stays
<1>1. \A v \in DOMAIN wave : {"cu", "simd"} \subseteq DOMAIN wave[v]  BY DEF Seated
<1>2. ASSUME NEW w \in DOMAIN wave, Fetch(w) \/ Issue(w) PROVE Stays
  <2>1. CASE Fetch(w)
    <3> DEFINE y == [wave[w] EXCEPT !.fetching = TRUE, !.from = BufferStart(wave[w])]
    <3>1. wave' = [wave EXCEPT ![w] = y]  BY Zenon, <2>1 DEF Fetch
    <3>2. Seat(wave[w], y)  BY <1>1 DEF Seat
    <3> HIDE DEF y
    <3> QED  BY <3>1, <3>2, OneSeat
  <2>2. CASE Issue(w)
    <3> DEFINE i == Decoded(wave[w])
               y == [wave[w] EXCEPT !.state = "Running", !.inst = i]
    <3>1. wave' = [wave EXCEPT ![w].state = "Running", ![w].inst = i]  BY Zenon, <2>2 DEF Issue
    <3> HIDE DEF i
    <3>3. wave' = [wave EXCEPT ![w] = y]  BY <3>1
    <3>2. Seat(wave[w], y)  BY <1>1 DEF Seat
    <3> HIDE DEF y
    <3> QED  BY <3>3, <3>2, OneSeat
  <2> QED  BY <1>2, <2>1, <2>2
<1>3. CASE FetchReturn(c)
  <2> DEFINE f == Head(fetches[c])
             x == wave[f.wave]
             buf == IF f.line = x.from + Len(x.buf) THEN Append(x.buf, f.line) ELSE x.buf
             y == [x EXCEPT !.buf = buf, !.fetching = FALSE]
  <2>1. wave' = wave \/ wave' = [wave EXCEPT ![f.wave] = y]
    <3>1. CASE f.wave \notin DOMAIN wave  BY <1>3, <3>1 DEF FetchReturn
    <3>2. CASE f.wave \in DOMAIN wave
      <4>1. wave' = [wave EXCEPT
                ![f.wave].buf = IF f.line = wave[f.wave].from + Len(@) THEN Append(@, f.line)
                                                                     ELSE @,
                ![f.wave].fetching = FALSE]
        BY <1>3, <3>2 DEF FetchReturn
      <4> HIDE DEF f
      <4> QED  BY ONLY <4>1, <3>2 DEF x, buf, y
    <3> QED  BY <3>1, <3>2
  <2> HIDE DEF buf
  <2>2. f.wave \in DOMAIN wave => Seat(x, y)  BY <1>1 DEF Seat
  <2> HIDE DEF y, f
  <2> QED  BY <2>1, <2>2, OneSeat, AllStay
<1>4. CASE ScalarReturn(c)
  <2> DEFINE w == Head(scalars[c]).wave
             y == [wave[w] EXCEPT !.smem = @ - 1]
  <2>1. wave' = wave \/ wave' = [wave EXCEPT ![w] = y]  BY <1>4 DEF ScalarReturn
  <2>2. w \in DOMAIN wave => Seat(wave[w], y)  BY <1>1 DEF Seat
  <2> HIDE DEF y, w
  <2> QED  BY <2>1, <2>2, OneSeat, AllStay
<1>5. CASE VectorReturn(c)
  <2> DEFINE w == Head(vectors[c]).wave
             n == wave[w].smem - 1
             k == wave[w].vmem - 1
             y == [wave[w] EXCEPT !.smem = n, !.vmem = k]
  <2>1. (DOMAIN wave' = DOMAIN wave /\ \A v \in DOMAIN wave : wave'[v] = wave[v])
        \/ wave' = [wave EXCEPT ![w] = y]
    <3>1. CASE ~ Head(vectors[c]).last \/ w \notin DOMAIN wave
      <4>1. \A v \in DOMAIN wave : wave'[v] = wave[v]  BY <1>5, <3>1 DEF VectorReturn
      <4>2. DOMAIN wave' = DOMAIN wave  BY <1>5 DEF VectorReturn
      <4> QED  BY <4>1, <4>2
    <3>2. CASE Head(vectors[c]).last /\ w \in DOMAIN wave
      BY <1>5, <3>2 DEF VectorReturn
    <3> QED  BY <3>1, <3>2
  <2>2. w \in DOMAIN wave => Seat(wave[w], y)  BY <1>1 DEF Seat
  <2> HIDE DEF y, w
  <2> QED  BY <2>1, <2>2, OneSeat, AllStay
<1>6. CASE Resume(c) \/ Resend(c) \/ Unpause(c)
  <2>1. wave' = wave  BY Zenon, <1>6 DEF Resume, Resend, Unpause, waveVars
  <2> QED  BY <2>1, AllStay
<1>7. CASE Flush(c)  BY <1>7, FlushStays
<1>8. On(c) \subseteq DOMAIN wave  BY DEF On
<1> QED  BY <1>2, <1>3, <1>4, <1>5, <1>6, <1>7, <1>8, RetireStays, EvalStays

-------------------------------------------------------------------------------
(* The books while nothing is placed or released *)

\* Every dispatcher goes on with its launch, has none, or takes one that was pending.
Goes ==
    \A d \in Dispatchers :
        \/ disp'[d].launch = NoLaunch \/ disp'[d].launch \in Pending
        \/ disp'[d].launch = disp[d].launch /\ Counted(disp[d]) \subseteq Counted(disp[d])'

LEMMA BegunKept ==
    ASSUME PendingOK, PendingStep, Goes, NEW wg, Begun(wg)
    PROVE  Begun(wg)'
<1>1. Known(wg[1])' /\ wg[1] \notin Pending'  BY StillApart DEF Begun
<1>2. wg[1] # NoLaunch  BY DispatcherAssumption DEF Begun, Known
<1>3. ASSUME NEW d \in Dispatchers, wg[1] = disp'[d].launch
      PROVE  wg[2] \in Counted(disp[d])'
  <2>1. wg[1] \notin Pending  BY DEF Begun
  <2>2. disp'[d].launch = disp[d].launch /\ Counted(disp[d]) \subseteq Counted(disp[d])'
    BY <1>2, <1>3, <2>1 DEF Goes
  <2> QED  BY <1>3, <2>2 DEF Begun
<1> QED  BY <1>1, <1>3 DEF Begun

LEMMA SameGoes == ASSUME UNCHANGED <<disp, algorithm>> PROVE Goes
  BY SameCounted DEF Goes

LEMMA SameBooksOK ==
    ASSUME BooksOK, PendingOK, PendingStep, Goes, UNCHANGED reserved
    PROVE  BooksOK'
<1>1. ASSUME NEW c \in CU, NEW wg \in DOMAIN reserved[c].held PROVE Begun(wg)'
  BY <1>1, BegunKept DEF BooksOK
<1> QED  BY <1>1 DEF BooksOK

LEMMA DoneKept ==
    ASSUME DoneOK, PendingOK, PendingStep, Goes, DOMAIN done' = CU,
           \A c \in CU : /\ done'[c] \in Seq(Range(done'[c]))
                         /\ Range(done'[c]) \subseteq Range(done[c]),
           Out' \subseteq Out,
           \A d \in Dispatchers : disp'[d].curr # <<>> => disp'[d].curr = disp[d].curr
    PROVE  DoneOK'
<1>1. ASSUME NEW c \in CU, NEW wg \in Range(done'[c])
      PROVE  /\ Begun(wg)' /\ wg \notin Out'
             /\ \A d \in Dispatchers : disp'[d].curr # <<>> => disp'[d].curr[1].wg # wg
  <2>1. Begun(wg) /\ wg \notin Out  BY DEF DoneOK
  <2>2. Begun(wg)'  BY <2>1, BegunKept
  <2>3. \A d \in Dispatchers : disp[d].curr # <<>> => disp[d].curr[1].wg # wg
    BY DEF DoneOK
  <2> QED  BY <2>1, <2>2, <2>3
<1> QED  BY <1>1 DEF DoneOK

LEMMA PlacedKept ==
    ASSUME PlacedOK, PendingOK, PendingStep, UNCHANGED <<disp, algorithm, reserved, done>>,
           Out' \subseteq Out,
           \A c \in CU : \A i \in DOMAIN toACE'[c] : Has(c, toACE'[c][i]),
           \A w \in DOMAIN wave' : InPlace(w, wave'[w])
    PROVE  PlacedOK'
<1>1. Goes  BY SameGoes
<1>2. BooksOK'  BY <1>1, SameBooksOK DEF PlacedOK
<1>3. DoneOK'
  <2>1. DoneOK  BY DEF PlacedOK
  <2>2. DOMAIN done' = CU
        /\ \A c \in CU : /\ done'[c] \in Seq(Range(done'[c]))
                         /\ Range(done'[c]) \subseteq Range(done[c])
    BY <2>1 DEF DoneOK
  <2> QED  BY <1>1, <2>1, <2>2, DoneKept
<1>4. \A d \in Dispatchers : SentOK(disp[d])'  BY DEF PlacedOK, SentOK, Has
<1>5. \A c \in CU : \A i \in DOMAIN toACE'[c] : Has(c, toACE[c][i])'  BY DEF Has
<1>6. \A w \in DOMAIN wave' : InPlace(w, wave[w])'  BY DEF InPlace
<1> QED  BY <1>2, <1>3, <1>4, <1>5, <1>6 DEF PlacedOK

LEMMA PlacedSeated == PlacedOK => Seated  BY DEF PlacedOK, InPlace, Seated

LEMMA SeatInPlace ==
    ASSUME NEW w, NEW x, NEW y, InPlace(w, x), Seat(x, y)
    PROVE  InPlace(w, y)
  BY DEF InPlace, Seat

\* Steps that dispatchers, books and messages between them and the compute units have no
\* part in.
LEMMA PlacedElsewhere ==
    ASSUME PlacedOK, PendingOK, PendingStep, Stays,
           UNCHANGED <<disp, algorithm, reserved, done, toACE>>
    PROVE  PlacedOK'
<1>1. Out' \subseteq Out  BY DEF Out, Stays
<1>2. \A w \in DOMAIN wave' : InPlace(w, wave'[w])
  <2>1. ASSUME NEW w \in DOMAIN wave' PROVE InPlace(w, wave'[w])
    <3>1. w \in DOMAIN wave /\ Seat(wave[w], wave'[w])  BY DEF Stays
    <3>2. InPlace(w, wave[w])  BY <3>1 DEF PlacedOK
    <3> QED  BY <3>1, <3>2, SeatInPlace
  <2> QED  BY <2>1
<1>3. \A c \in CU : \A i \in DOMAIN toACE'[c] : Has(c, toACE'[c][i])  BY DEF PlacedOK
<1> QED  BY <1>1, <1>2, <1>3, PlacedKept

LEMMA PlacedMap ==
    ASSUME PlacedOK, FreshInv, PendingStep, NEW c \in CU, MapWG(c),
           UNCHANGED <<disp, algorithm, reserved, done>>
    PROVE  PlacedOK'
<1> DEFINE m == Head(toACE[c])
           First(w) == [cu |-> c, simd |-> m.place[w[3]].simd, pc |-> 1, state |-> "Ready",
                        inst |-> 0, buf |-> <<>>, from |-> 0, fetching |-> FALSE,
                        smem |-> 0, vmem |-> 0]
<1>1. PendingOK /\ OutOK  BY DEF FreshInv
<1>2. /\ toACE[c] # <<>> /\ toACE' = [toACE EXCEPT ![c] = Tail(@)]
      /\ wave' = [w \in Waves(m.wg) \cup DOMAIN wave |->
                      IF w \in Waves(m.wg) THEN First(w) ELSE wave[w]]
  BY DEF MapWG
<1>3. /\ DOMAIN toACE = CU /\ toACE[c] \in Seq(Range(toACE[c]))
      /\ Len(toACE[c]) \in Nat \ {0} /\ DOMAIN toACE[c] = 1 .. Len(toACE[c])
      /\ m = toACE[c][1]
      /\ DOMAIN Tail(toACE[c]) = 1 .. Len(toACE[c]) - 1
      /\ \A i \in 1 .. Len(toACE[c]) - 1 : Tail(toACE[c])[i] = toACE[c][i + 1]
  <2>1. DOMAIN toACE = CU /\ toACE[c] \in Seq(Range(toACE[c]))  BY <1>1 DEF OutOK
  <2> QED  BY <1>2, <2>1, SeqType, TailElements
<1>4. m.wg = <<m.wg[1], m.wg[2]>> /\ 1 \in DOMAIN toACE[c]  BY <1>1, <1>3 DEF OutOK
<1>5. \A w \in Waves(m.wg) : WGOf(w) = m.wg  BY <1>4 DEF Waves, WGOf
<1>6. ASSUME NEW k \in CU, NEW i \in DOMAIN toACE'[k]
      PROVE  \E j \in DOMAIN toACE[k] : toACE'[k][i] = toACE[k][j]
  <2>1. CASE k # c  BY <1>2, <1>3, <2>1
  <2>2. CASE k = c
    <3>1. toACE'[c] = Tail(toACE[c])  BY <1>2, <1>3
    <3>2. i \in 1 .. Len(toACE[c]) - 1 /\ i + 1 \in DOMAIN toACE[c]  BY <1>3, <2>2, <3>1
    <3> QED  BY <1>3, <2>2, <3>1, <3>2
  <2> QED  BY <2>1, <2>2
<1>7. Out' \subseteq Out
  <2>1. ASSUME NEW k \in CU, NEW i \in DOMAIN toACE'[k] PROVE toACE'[k][i].wg \in Out
    BY <1>6, <2>1 DEF Out, Range
  <2>2. m.wg \in Out  BY <1>3, <1>4 DEF Out, Range
  <2> HIDE DEF m, First
  <2>3. DOMAIN wave' = Waves(m.wg) \cup DOMAIN wave  BY <1>2
  <2>4. \A w \in DOMAIN wave' : WGOf(w) \in Out  BY <1>5, <2>2, <2>3 DEF Out
  <2> QED  BY <2>1, <2>4 DEF Out, Range
<1>8. \A k \in CU : \A i \in DOMAIN toACE'[k] : Has(k, toACE'[k][i])
  BY <1>6 DEF PlacedOK
<1>9. ASSUME NEW w \in Waves(m.wg) PROVE InPlace(w, First(w))
  <2>1. {"cu", "simd"} \subseteq DOMAIN First(w) /\ First(w).cu = c
        /\ First(w).simd = m.place[w[3]].simd
    OBVIOUS
  <2>2. Has(c, m)  BY <1>3, <1>4 DEF PlacedOK
  <2>3. WGOf(w) = m.wg  BY <1>5
  <2> HIDE DEF First, m
  <2> QED  BY <2>1, <2>2, <2>3 DEF InPlace, Has
<1>10. \A w \in DOMAIN wave' : InPlace(w, wave'[w])
  <2>1. \A w \in DOMAIN wave : InPlace(w, wave[w])  BY DEF PlacedOK
  <2> HIDE DEF First, m
  <2> QED  BY <1>2, <1>9, <2>1
<1> QED  BY <1>1, <1>7, <1>8, <1>10, PlacedKept

\* The last wavefront of a work-group ends.
LEMMA PlacedEnd ==
    ASSUME PlacedOK, FreshInv, PendingStep, NEW w \in DOMAIN wave, Eval(w), done' # done,
           UNCHANGED <<disp, algorithm, reserved>>
    PROVE  PlacedOK'
<1> DEFINE wg == WGOf(w)
           c == wave[w].cu
<1>1. /\ done' = [done EXCEPT ![c] = Append(@, wg)]
      /\ wave' = Restrict(wave, DOMAIN wave \ Waves(wg))
      /\ UNCHANGED toACE
  <2>1. EvalSEndPgm(w)  BY DEF Eval, EvalSBarrier
  <2> QED  BY <2>1 DEF EvalSEndPgm, Eval
<1>2. /\ DOMAIN wave' = DOMAIN wave \ Waves(wg)
      /\ \A v \in DOMAIN wave' : wave'[v] = wave[v]
  BY <1>1 DEF Restrict
<1>3. PendingOK /\ OutOK  BY DEF FreshInv
<1>4. InPlace(w, wave[w])  BY DEF PlacedOK
<1>5. c \in CU /\ Begun(wg)  BY <1>4 DEF InPlace, PlacedOK, BooksOK
<1>6. Out' \subseteq Out  BY <1>1, <1>2 DEF Out
<1>7. wg \notin Out'
  <2>1. \A v \in DOMAIN wave' : WGOf(v) # wg
    <3>1. \A v \in DOMAIN wave : v \in Waves(WGOf(v))  BY DEF PlacedOK, InPlace
    <3> QED  BY <1>2, <3>1
  <2>2. \A k \in CU : \A i \in DOMAIN toACE[k] : toACE[k][i].wg # wg  BY <1>3 DEF OutOK
  <2>3. toACE' = toACE  BY <1>1
  <2>4. Out' = {WGOf(v) : v \in DOMAIN wave'} \cup
                    UNION {{m.wg : m \in Range(toACE[k])} : k \in CU}
    BY <2>3 DEF Out
  <2> HIDE DEF wg
  <2> QED  BY ONLY <2>1, <2>2, <2>4 DEF Range
<1>8. Goes  BY SameGoes
<1>9. BooksOK'  BY <1>3, <1>8, SameBooksOK DEF PlacedOK
<1>10. DoneOK
  BY DEF PlacedOK
<1>11. /\ DOMAIN done' = CU /\ \A k \in CU : k # c => done'[k] = done[k]
       /\ done'[c] \in Seq(Range(done'[c])) /\ Range(done'[c]) \subseteq Range(done[c]) \cup {wg}
  <2> DEFINE q == done[c]
             S == Range(q) \cup {wg}
             p == Append(q, wg)
  <2>1. DOMAIN done = CU /\ q \in Seq(Range(q))  BY <1>5, <1>10 DEF DoneOK
  <2>2. done'[c] = p /\ DOMAIN done' = CU /\ \A k \in CU : k # c => done'[k] = done[k]
    BY <1>1, <1>5, <2>1
  <2>3. q \in Seq(S)  BY <2>1, Retyped
  <2>4. wg \in S  OBVIOUS
  <2> HIDE DEF S, q, wg
  <2>5. p \in Seq(S)  BY <2>3, <2>4
  <2> HIDE DEF p
  <2>6. Range(p) \subseteq S
    <3>1. DOMAIN p = 1 .. Len(p) /\ \A i \in 1 .. Len(p) : p[i] \in S  BY <2>5
    <3> QED  BY <3>1 DEF Range
  <2>7. p \in Seq(Range(p))  BY <2>5, RangeSeq
  <2> QED  BY <2>2, <2>6, <2>7 DEF S, q
<1>12. ASSUME NEW k \in CU, NEW v \in Range(done'[k])
       PROVE  /\ Begun(v)' /\ v \notin Out'
              /\ \A d \in Dispatchers : disp'[d].curr # <<>> => disp'[d].curr[1].wg # v
  <2>1. CASE v = wg
    <3>1. Begun(wg)'  BY <1>3, <1>5, <1>8, BegunKept
    <3>2. wg \in Out  BY DEF Out
    <3>3. \A d \in Dispatchers : disp[d].curr # <<>> => disp[d].curr[1].wg # wg
      BY <1>3, <3>2 DEF OutOK
    <3> QED  BY <1>7, <2>1, <3>1, <3>3
  <2>2. CASE v # wg
    <3>1. v \in Range(done[k])  BY <1>11, <2>2
    <3>2. Begun(v) /\ v \notin Out
          /\ \A d \in Dispatchers : disp[d].curr # <<>> => disp[d].curr[1].wg # v
      BY <1>10, <3>1 DEF DoneOK
    <3>3. Begun(v)'  BY <1>3, <1>8, <3>2, BegunKept
    <3> QED  BY <1>6, <3>2, <3>3
  <2> QED  BY <2>1, <2>2
<1>13. DoneOK'
  <2>1. \A k \in CU : done'[k] \in Seq(Range(done'[k]))  BY <1>10, <1>11 DEF DoneOK
  <2> QED  BY <1>11, <1>12, <2>1 DEF DoneOK
<1>14. \A d \in Dispatchers : SentOK(disp[d])'  BY DEF PlacedOK, SentOK, Has
<1>15. \A k \in CU : \A i \in DOMAIN toACE'[k] : Has(k, toACE[k][i])'
  BY <1>1 DEF PlacedOK, Has
<1>16. \A v \in DOMAIN wave' : InPlace(v, wave[v])'  BY <1>2 DEF PlacedOK, InPlace
<1> QED  BY <1>9, <1>13, <1>14, <1>15, <1>16 DEF PlacedOK

LEMMA DoneStays ==
    ASSUME NEW c \in CU,
           \/ \E w \in On(c) : Fetch(w) \/ Issue(w) \/ \E u \in Unit : Retire(c, u, w)
           \/ FetchReturn(c) \/ ScalarReturn(c) \/ MapWG(c) \/ Resume(c) \/ Resend(c)
           \/ Unpause(c) \/ Flush(c) \/ VectorReturn(c)
    PROVE  UNCHANGED done
<1>1. ASSUME NEW w, NEW u, Fetch(w) \/ Issue(w) \/ Retire(c, u, w) PROVE UNCHANGED done
  BY Zenon, <1>1 DEF Fetch, Issue, Retire, cuPortVars
<1>2. FetchReturn(c) \/ ScalarReturn(c) \/ VectorReturn(c) \/ MapWG(c) => UNCHANGED done
  BY Zenon DEF FetchReturn, ScalarReturn, VectorReturn, MapWG, cuPortVars
<1>3. Resume(c) \/ Resend(c) \/ Unpause(c) \/ Flush(c) => UNCHANGED done
  BY Zenon DEF Resume, Resend, Unpause, Flush, cuPortVars
<1> QED  BY <1>1, <1>2, <1>3

LEMMA PlacedComputeUnits == ASSUME FreshInv, PlacedOK, CUs PROVE PlacedOK'
<1>1. UNCHANGED <<driverVars, fromDriver, disp, algorithm, reserved>>
  BY DEF CUs, CUStep, FlushCU, Translate, Return, dispatchVars, cpVars
<1>2. PendingOK /\ PendingStep  BY <1>1, OtherVars
<1>3. PICK c \in CU : CUStep(c) \/ FlushCU(c) \/ Translate(c) \/ Return(c)  BY DEF CUs
<1>4. Seated  BY PlacedSeated
<1> DEFINE Quiet(w) == Fetch(w) \/ Issue(w) \/ \E u \in Unit : Retire(c, u, w)
           Other == \/ FetchReturn(c) \/ ScalarReturn(c) \/ Resume(c) \/ Resend(c)
                    \/ Unpause(c) \/ Flush(c) \/ VectorReturn(c)
<1>5. \/ \E w \in On(c) : Quiet(w) \/ Eval(w)
      \/ Other \/ MapWG(c) \/ Translate(c)
  BY <1>3, Zenon DEF CUStep, FlushCU, Return
<1>6. CASE MapWG(c)
  <2>1. UNCHANGED done  BY <1>6, DoneStays
  <2> QED  BY <1>1, <1>2, <1>6, <2>1, PlacedMap
<1>7. ASSUME NEW w \in On(c), Eval(w) PROVE PlacedOK'
  <2>1. w \in DOMAIN wave  BY DEF On
  <2>2. UNCHANGED toACE  BY <1>7 DEF Eval
  <2>3. Stays  BY <1>4, <1>7, <2>1, EvalStays
  <2>4. CASE done' = done  BY <1>1, <1>2, <2>2, <2>3, <2>4, PlacedElsewhere
  <2>5. CASE done' # done  BY <1>1, <1>2, <1>7, <2>1, <2>5, PlacedEnd
  <2> QED  BY <2>4, <2>5
<1>8. CASE (\E w \in On(c) : Quiet(w)) \/ Other
  <2>1. Stays  BY <1>4, <1>8, SeatsStay
  <2>2. UNCHANGED done  BY <1>8, DoneStays
  <2>3. UNCHANGED toACE  BY <1>8, WavesStay
  <2> QED  BY <1>1, <1>2, <2>1, <2>2, <2>3, PlacedElsewhere
<1>9. CASE Translate(c)
  <2>1. UNCHANGED <<wave, done, toACE>>  BY <1>9 DEF Translate, waveVars, cuPortVars
  <2>2. Stays  BY <2>1, AllStay
  <2> QED  BY <1>1, <1>2, <2>1, <2>2, PlacedElsewhere
<1> HIDE DEF Quiet, Other
<1> QED  BY <1>5, <1>6, <1>7, <1>8, <1>9

\* The driver, the MMU, the memory side, and the command processors but for the start of a
\* launch.
LEMMA PlacedOutside ==
    ASSUME FreshInv, PlacedOK, PendingStep,
           UNCHANGED <<disp, algorithm, reserved, done, toACE, wave>>
    PROVE  PlacedOK'
<1>1. PendingOK /\ Stays  BY AllStay DEF FreshInv
<1> QED  BY <1>1, PlacedElsewhere

LEMMA PlacedControl ==
    ASSUME FreshInv, PlacedOK, UNCHANGED driverVars,
           \/ \E g \in GPU : \/ FlushReq(g) \/ MemCopy(g) \/ ShootDown(g) \/ GPURestart(g)
                             \/ HandOn(g) \/ InternalRsp(g) \/ ParseFromCP(g)
                             \/ ParseFromMem(g)
           \/ \E c \in CU : CUFlushRsp(c) \/ CURestartRsp(c)
    PROVE  PlacedOK'
<1>1. UNCHANGED <<queues, toSend, wire, awaiting, moves, nextID>>  BY DEF driverVars
<1>2. ASSUME NEW g \in GPU,
             FlushReq(g) \/ MemCopy(g) \/ ShootDown(g) \/ GPURestart(g) \/ HandOn(g)
      PROVE  PlacedOK'
  <2>1. UNCHANGED <<disp, algorithm, reserved, done, toACE, wave>>
    BY <1>2 DEF FlushReq, MemCopy, ShootDown, GPURestart, HandOn, cuVars, waveVars, cuPortVars,
                dispatchVars
  <2>2. fromDriver[g] # <<>> /\ Retrieve(g)
    BY <1>2 DEF FlushReq, MemCopy, ShootDown, GPURestart, HandOn, IsNext
  <2>3. PendingStep  BY <1>1, <2>2, RetrieveStep DEF FreshInv
  <2> QED  BY <2>1, <2>3, PlacedOutside
<1>3. ASSUME NEW g, InternalRsp(g) \/ ParseFromCP(g) \/ ParseFromMem(g)
      PROVE  UNCHANGED <<fromDriver, disp, algorithm, reserved, done, toACE, wave>>
  BY <1>3 DEF InternalRsp, ParseFromCP, ParseFromMem, cuVars, waveVars, cuPortVars, dispatchVars
<1>4. ASSUME NEW c, CUFlushRsp(c) \/ CURestartRsp(c)
      PROVE  UNCHANGED <<fromDriver, disp, algorithm, reserved, done, toACE, wave>>
  BY <1>4 DEF CUFlushRsp, CURestartRsp, waveVars, dispatchVars
<1>5. ASSUME UNCHANGED <<fromDriver, disp, algorithm, reserved, done, toACE, wave>>
      PROVE  PlacedOK'
  <2>1. PendingStep  BY <1>5, OtherVars
  <2> QED  BY <1>5, <2>1, PlacedOutside
<1> QED  BY <1>2, <1>3, <1>4, <1>5

LEMMA PlacedMemorySide ==
    ASSUME FreshInv, PlacedOK, MemoryStep \/ MMUStep \/ Finished \/ UNCHANGED vars
    PROVE  PlacedOK'
<1> DEFINE Same == UNCHANGED <<driverVars, fromDriver, disp, algorithm, reserved, done, toACE,
                               wave>>
<1>1. UNCHANGED gpuVars => UNCHANGED <<fromDriver, disp, algorithm, reserved, done, toACE, wave>>
  BY DEF gpuVars, cpVars, cuVars, waveVars, cuPortVars, dispatchVars
<1>2. \A g, k, rsp : Answer(g, k, rsp) => Same
  BY DEF Answer, cuVars, waveVars, cuPortVars, dispatchVars
<1>3. ASSUME NEW g \in GPU, Miss(g) \/ OrphanWrite(g) PROVE Same
  BY <1>1, <1>3 DEF Miss, OrphanWrite
<1>4. ASSUME NEW g \in GPU, AddressTranslator(g) \/ TLBStep(g) PROVE Same
  BY <1>2, <1>4 DEF AddressTranslator, TLBStep
<1>5. ASSUME NEW g \in GPU, RDMAStep(g) \/ PMCStep(g) PROVE Same
  BY <1>1, <1>2, <1>5 DEF RDMAStep, PMCStep
<1>6. ASSUME NEW g \in GPU, NEW k \in Cache, CacheStep(g, k) PROVE Same
  BY <1>2, <1>6 DEF CacheStep
<1>7. MMUStep \/ Finished \/ UNCHANGED vars => Same  BY <1>1 DEF MMUStep, Finished, vars
<1>8. Same  BY <1>3, <1>4, <1>5, <1>6, <1>7 DEF MemoryStep
<1>9. PendingStep  BY <1>8, OtherVars
<1> QED  BY <1>8, <1>9, PlacedOutside

LEMMA PlacedDriver == ASSUME FreshInv, PlacedOK, DriverStep PROVE PlacedOK'
<1>1. PendingStep /\ UNCHANGED <<disp, algorithm, toACE, wave>>
  BY DriverStepOK DEF FreshInv
<1>2. UNCHANGED <<reserved, done>>
  BY DEF DriverStep, StartCommand, Send, Deliver, ParseFromMMU, ReturnReq, gpuVars, cuVars,
         cuPortVars, dispatchVars
<1> QED  BY <1>1, <1>2, PlacedOutside

-------------------------------------------------------------------------------
(* The books while dispatchers work *)

\* Dispatcher d ends or takes a launch: it has sent nothing.
LEMMA PlacedNothingSent ==
    ASSUME FreshInv, PlacedOK, PendingStep, Goes, UNCHANGED <<reserved, done, toACE, wave>>,
           NEW d \in Dispatchers, NEW x, disp' = [disp EXCEPT ![d] = x],
           x.curr = <<>>, x.inflight = {}
    PROVE  PlacedOK'
<1>1. PendingOK /\ DOMAIN disp = Dispatchers  BY DEF FreshInv, DispatchersOK
<1>2. disp'[d] = x /\ \A e \in Dispatchers : e # d => disp'[e] = disp[e]  BY <1>1
<1>3. BooksOK'  BY <1>1, SameBooksOK DEF PlacedOK
<1>4. DoneOK'
  <2>1. Out' = Out  BY DEF Out
  <2>2. \A e \in Dispatchers : disp'[e].curr # <<>> => disp'[e].curr = disp[e].curr  BY <1>2
  <2>3. DoneOK  BY DEF PlacedOK
  <2>4. DOMAIN done' = CU
        /\ \A c \in CU : /\ done'[c] \in Seq(Range(done'[c]))
                         /\ Range(done'[c]) \subseteq Range(done[c])
    BY <2>3 DEF DoneOK
  <2> QED  BY <1>1, <2>1, <2>2, <2>3, <2>4, DoneKept
<1>5. \A e \in Dispatchers : SentOK(disp[e])'
  <2>1. \A e \in Dispatchers : SentOK(disp[e])  BY DEF PlacedOK
  <2> QED  BY <1>2, <2>1 DEF SentOK, Has
<1>6. \A c \in CU : \A i \in DOMAIN toACE'[c] : Has(c, toACE[c][i])'  BY DEF PlacedOK, Has
<1>7. \A w \in DOMAIN wave' : InPlace(w, wave[w])'  BY DEF PlacedOK, InPlace
<1> QED  BY <1>3, <1>4, <1>5, <1>6, <1>7 DEF PlacedOK

LEMMA PlacedCompleteKernel ==
    ASSUME FreshInv, PlacedOK, NEW d \in Dispatchers, CompleteKernel(d),
           UNCHANGED <<driverVars, fromDriver>>
    PROVE  PlacedOK'
<1> DEFINE y == [Idle(d[1]) EXCEPT !.nextCU = disp[d].nextCU]
<1>1. disp' = [disp EXCEPT ![d] = y] /\ UNCHANGED <<algorithm, reserved, done, toACE, wave>>
  BY DEF CompleteKernel, cuVars, waveVars, cuPortVars
<1>2. PendingStep /\ DOMAIN disp = Dispatchers  BY OtherVars DEF FreshInv, DispatchersOK
<1>3. y.launch = NoLaunch /\ y.curr = <<>> /\ y.inflight = {}  BY DEF Idle
<1> HIDE DEF y
<1>4. Goes
  <2>1. ASSUME NEW e \in Dispatchers, e # d
        PROVE  disp'[e].launch = disp[e].launch /\ Counted(disp[e]) \subseteq Counted(disp[e])'
    <3>1. disp'[e] = disp[e]  BY <1>1, <1>2, <2>1
    <3> QED  BY <1>1, <3>1, SameCounted
  <2> QED  BY <1>1, <1>2, <1>3, <2>1 DEF Goes
<1> QED  BY <1>1, <1>2, <1>3, <1>4, PlacedNothingSent

LEMMA PlacedLaunch ==
    ASSUME FreshInv, PlacedOK, NEW g \in GPU, LaunchKernel(g), UNCHANGED driverVars
    PROVE  PlacedOK'
<1>0. PICK l : l = Head(fromDriver[g]).launch  OBVIOUS
<1>1. PendingOK /\ DispatchersOK  BY DEF FreshInv
<1>2. /\ UNCHANGED <<queues, toSend, wire, awaiting, moves, nextID>>
      /\ UNCHANGED <<algorithm, reserved, done, toACE, wave>>
  BY DEF driverVars, LaunchKernel, cuVars, waveVars, cuPortVars
<1>3. PICK d \in Dispatchers :
          d[1] = g /\ disp[d].launch = NoLaunch /\ disp' = [disp EXCEPT ![d].launch = l]
  BY <1>0 DEF LaunchKernel, StartDispatching
<1>4. PendingStep /\ l \in Pending \ Pending'
  BY <1>0, <1>1, <1>2, RetrieveStep DEF LaunchKernel, IsNext
<1> DEFINE x == disp[d]
<1>5. Sane(x, g) /\ x = [Idle(g) EXCEPT !.nextCU = x.nextCU]
  BY <1>1, <1>3 DEF DispatchersOK, Sane
<1>6. PICK y : y = [x EXCEPT !.launch = l]  OBVIOUS
<1>7. y.launch = l /\ y.curr = <<>> /\ y.inflight = {}
  <2>1. x.curr = <<>> /\ x.inflight = {}  BY <1>5 DEF Idle
  <2>2. DOMAIN x = DispField  BY <1>5 DEF Sane
  <2> HIDE DEF x
  <2> QED  BY <1>6, <2>1, <2>2 DEF DispField
<1>8. disp' = [disp EXCEPT ![d] = y] /\ DOMAIN disp = Dispatchers
  BY <1>1, <1>3, <1>6 DEF DispatchersOK
<1> HIDE DEF x
<1>9. Goes
  <2>1. ASSUME NEW e \in Dispatchers, e # d
        PROVE  disp'[e].launch = disp[e].launch /\ Counted(disp[e]) \subseteq Counted(disp[e])'
    <3>1. disp'[e] = disp[e]  BY <1>8, <2>1
    <3> QED  BY <1>2, <3>1, SameCounted
  <2> QED  BY <1>4, <1>7, <1>8, <2>1 DEF Goes
<1> QED  BY <1>2, <1>4, <1>7, <1>8, <1>9, PlacedNothingSent

\* A dispatcher frees what it has sent, and nobody else has the work-group.
LEMMA PlacedCompletion ==
    ASSUME FreshInv, PlacedOK, NEW d \in Dispatchers, NEW c \in CU, WGCompletion(d, c),
           UNCHANGED <<driverVars, fromDriver>>
    PROVE  PlacedOK'
<1> DEFINE x == disp[d]
<1>1. PICK l \in x.inflight :
          /\ l.wg = Head(done[c])
          /\ reserved' = [reserved EXCEPT ![l.cu] = Release(@, l.wg)]
          /\ disp' = [disp EXCEPT ![d].inflight = @ \ {l}, ![d].completed = @ + 1]
  BY DEF WGCompletion
<1>2. done[c] # <<>> /\ done' = [done EXCEPT ![c] = Tail(@)]
      /\ UNCHANGED <<algorithm, toACE, wave>>
  BY DEF WGCompletion, waveVars
<1>3. PendingOK /\ PendingStep /\ DispatchersOK  BY OtherVars DEF FreshInv
<1>4. Sane(x, d[1]) /\ DOMAIN disp = Dispatchers  BY <1>3 DEF DispatchersOK
<1>5. PICK y : y = [x EXCEPT !.inflight = @ \ {l}, !.completed = @ + 1]  OBVIOUS
<1>6. disp' = [disp EXCEPT ![d] = y]  BY <1>1, <1>4, <1>5 DEF Sane, DispField
<1>7. /\ DOMAIN y = DispField /\ y.launch = x.launch /\ y.part = x.part /\ y.nextCU = x.nextCU
      /\ y.curr = x.curr /\ y.inflight = x.inflight \ {l}
  BY <1>4, <1>5 DEF Sane, DispField
<1>8. x.launch # NoLaunch
  <2> SUFFICES ASSUME x.launch = NoLaunch PROVE FALSE  OBVIOUS
  <2>1. x = [Idle(d[1]) EXCEPT !.nextCU = x.nextCU]  BY <1>4 DEF Sane
  <2>2. x.inflight = {}  BY <2>1 DEF Idle
  <2> QED  BY <2>2
<1>9. SentOK(x)  BY DEF PlacedOK
<1>10. l.cu \in CU /\ l.wg \in DOMAIN reserved[l.cu].held /\ l.wg[1] = x.launch
  BY <1>9 DEF SentOK
<1>11. disp'[d] = y /\ \A e \in Dispatchers : e # d => disp'[e] = disp[e]  BY <1>4, <1>6
<1>12. \A e \in Dispatchers : e # d => disp[e].launch # x.launch
  BY <1>3, <1>8 DEF DispatchersOK
<1> HIDE DEF x
<1>13. Sane(y, d[1]) /\ Counted(y) = Counted(x)  BY <1>4, <1>7, <1>8, SaneKept
<1>14. Goes
  <2>1. ASSUME NEW e \in Dispatchers, e # d
        PROVE  disp'[e].launch = disp[e].launch /\ Counted(disp[e]) \subseteq Counted(disp[e])'
    BY <1>2, <1>11, <2>1, SameCounted
  <2>2. Counted(disp[d])' = Counted(y)  BY <1>2, <1>11, StillCounted
  <2> QED  BY <1>7, <1>11, <1>13, <2>1, <2>2 DEF Goes, x
<1>15. BooksOK /\ DoneOK  BY DEF PlacedOK
<1> DEFINE q == reserved[l.cu]
           r == Release(q, l.wg)
<1>16. /\ Booked(r) /\ DOMAIN r.held = DOMAIN q.held \ {l.wg}
       /\ \A v \in DOMAIN r.held : r.held[v] = q.held[v]
  <2>1. Booked(q) /\ l.wg \in DOMAIN q.held  BY <1>10, <1>15 DEF BooksOK
  <2> HIDE DEF q
  <2> QED  BY <2>1, ReleaseGood
<1>17. /\ DOMAIN reserved' = CU /\ reserved'[l.cu] = r
       /\ \A k \in CU : k # l.cu => reserved'[k] = reserved[k]
  BY <1>1, <1>10, <1>15 DEF BooksOK
<1> HIDE DEF r
<1>18. ASSUME NEW k \in CU, NEW wg \in DOMAIN reserved[k].held, wg # l.wg
       PROVE  wg \in DOMAIN reserved'[k].held /\ reserved'[k].held[wg] = reserved[k].held[wg]
  BY <1>16, <1>17, <1>18
<1>19. BooksOK'
  <2>1. ASSUME NEW k \in CU
        PROVE  Booked(reserved[k])' /\ \A wg \in DOMAIN reserved'[k].held : Begun(wg)'
    <3>1. Booked(reserved'[k])  BY <1>15, <1>16, <1>17 DEF BooksOK
    <3>2. DOMAIN reserved'[k].held \subseteq DOMAIN reserved[k].held  BY <1>16, <1>17
    <3>3. \A wg \in DOMAIN reserved'[k].held : Begun(wg)'
      BY <1>3, <1>14, <1>15, <3>2, BegunKept DEF BooksOK
    <3>4. Booked(reserved[k])'
      BY Zenon, <3>1 DEF Booked, Consistent, Slots, Here, SgprOf, VgprOf, LdsOf
    <3> QED  BY <3>3, <3>4
  <2> QED  BY <1>17, <2>1 DEF BooksOK
<1>20. l.wg \in Range(done[c]) /\ Range(Tail(done[c])) \subseteq Range(done[c])
       /\ Tail(done[c]) \in Seq(Range(Tail(done[c])))
  <2> DEFINE s == done[c]
  <2>1. s \in Seq(Range(s)) /\ s # <<>> /\ l.wg = Head(s)  BY <1>1, <1>2, <1>15 DEF DoneOK
  <2> HIDE DEF s
  <2>2. /\ Head(s) = s[1] /\ Len(s) \in Nat \ {0} /\ DOMAIN s = 1 .. Len(s)
        /\ Tail(s) \in Seq(Range(s)) /\ DOMAIN Tail(s) = 1 .. Len(s) - 1
        /\ \A i \in 1 .. Len(s) - 1 : Tail(s)[i] = s[i + 1]
    BY <2>1, SeqType, TailElements
  <2>3. s[1] \in Range(s)  BY <2>2 DEF Range
  <2>4. Range(Tail(s)) \subseteq Range(s)  BY <2>2 DEF Range
  <2>5. Tail(s) \in Seq(Range(Tail(s)))  BY <2>2, RangeSeq
  <2> QED  BY <2>1, <2>2, <2>3, <2>4, <2>5 DEF s
<1>21. /\ l.wg \notin Out
       /\ \A e \in Dispatchers : disp[e].curr # <<>> => disp[e].curr[1].wg # l.wg
  BY <1>15, <1>20 DEF DoneOK
<1>22. DoneOK'
  <2>1. Out' = Out  BY <1>2 DEF Out
  <2>2. \A e \in Dispatchers : disp'[e].curr = disp[e].curr  BY <1>7, <1>11 DEF x
  <2>3. DOMAIN done' = CU
        /\ \A k \in CU : /\ done'[k] \in Seq(Range(done'[k]))
                         /\ Range(done'[k]) \subseteq Range(done[k])
    BY <1>2, <1>15, <1>20 DEF DoneOK
  <2> QED  BY <1>3, <1>14, <1>15, <2>1, <2>2, <2>3, DoneKept
<1>23. ASSUME NEW k \in CU, NEW i \in DOMAIN toACE'[k] PROVE Has(k, toACE[k][i])'
  <2>1. Has(k, toACE[k][i])  BY <1>2 DEF PlacedOK
  <2>2. toACE[k][i].wg # l.wg  BY <1>2, <1>21 DEF Out, Range
  <2> QED  BY <1>2, <1>18, <2>1, <2>2 DEF Has
<1>24. ASSUME NEW w \in DOMAIN wave' PROVE InPlace(w, wave[w])'
  <2>1. InPlace(w, wave[w]) /\ WGOf(w) # l.wg  BY <1>2, <1>21 DEF PlacedOK, Out
  <2> QED  BY <1>2, <1>18, <2>1 DEF InPlace
<1>25. ASSUME NEW e \in Dispatchers PROVE SentOK(disp[e])'
  <2>1. SentOK(disp[e])  BY DEF PlacedOK
  <2>2. PICK z : z = disp'[e]  OBVIOUS
  <2>3. /\ z.launch = disp[e].launch /\ z.curr = disp[e].curr
        /\ z.inflight \subseteq disp[e].inflight
        /\ \A k \in z.inflight : k.wg # l.wg
    <3>1. CASE e # d
      <4>1. z = disp[e]  BY <1>11, <2>2, <3>1
      <4>2. \A k \in disp[e].inflight : k.wg[1] = disp[e].launch  BY <2>1 DEF SentOK
      <4> QED  BY <1>10, <1>12, <3>1, <4>1, <4>2
    <3>2. CASE e = d
      <4>1. z = y /\ disp[e] = x  BY <1>11, <2>2, <3>2 DEF x
      <4>2. \A k \in x.inflight : k.wg = l.wg => k = l  BY <1>9 DEF SentOK
      <4> QED  BY <1>7, <4>1, <4>2
    <3> QED  BY <3>1, <3>2
  <2>4. z.curr # <<>> => z.curr[1].wg # l.wg  BY <1>21, <2>3
  <2> QED  BY <1>18, <2>1, <2>2, <2>3, <2>4 DEF SentOK, Has
<1> QED  BY <1>19, <1>22, <1>23, <1>24, <1>25 DEF PlacedOK

\* An algorithm leaves alone what is sent.
LEMMA SameSent ==
    ASSUME NEW x, DOMAIN x = DispField, NEW g, NEW y, y = AlgorithmNext(g, x).x
    PROVE  y.inflight = x.inflight
<1>1. PICK list : list = Candidates(x)  OBVIOUS
<1>2. PICK attempt : attempt = Attempts(g, x, list)  OBVIOUS
<1> DEFINE At(i) == <<g, list[i].cu>>
           fits == {i \in DOMAIN list : attempt[i].place # <<>>}
           tried == IF fits = {} THEN DOMAIN list ELSE {n \in DOMAIN list : n <= Min(fits)}
           i == Min(fits)
           Held(j) == IF \E n \in tried : list[n].cu = j /\ list[n].from = j
                      THEN NextOf(x, j) ELSE x.part[j].held
           part == [j \in DOMAIN x.part |->
               IF fits # {} /\ j = list[i].from THEN [count |-> x.part[j].count + 1, held |-> 0]
               ELSE [count |-> x.part[j].count, held |-> Held(j)]]
           next == (list[i].cu % Len(x.part)) + 1
           curr == <<[wg |-> <<x.launch, list[i].wg>>, cu |-> At(i), place |-> attempt[i].place]>>
<1>3. y = IF fits = {} THEN [x EXCEPT !.part = part]
          ELSE [x EXCEPT !.part = part, !.nextCU = next, !.curr = curr]
  <2>1. y = Outcome(g, x, list, attempt).x  BY <1>1, <1>2 DEF AlgorithmNext
  <2> QED  BY <2>1 DEF Outcome
<1> HIDE DEF fits, part, next, curr
<1> QED  BY <1>3 DEF DispField

\* The dispatcher places a work-group, sends one, or both.
LEMMA PlacedDispatch ==
    ASSUME FreshInv, PlacedOK, NEW d \in Dispatchers, DispatchNextWG(d),
           UNCHANGED <<driverVars, fromDriver>>
    PROVE  PlacedOK'
<1> DEFINE x == disp[d]
           old == [reserved |-> reserved, x |-> x]
           next == IF x.curr # <<>> THEN old ELSE AlgorithmNext(d[1], x)
           y == next.x
           m == y.curr[1]
           sent == [y EXCEPT !.curr = <<>>, !.sent = @ + 1, !.inflight = @ \cup {m}]
<1>1. /\ x.launch # NoLaunch /\ reserved' = next.reserved
      /\ \/ /\ y.curr # <<>>
            /\ toACE' = [toACE EXCEPT ![m.cu] = Append(@, m)]
            /\ disp' = [disp EXCEPT ![d] = sent]
         \/ disp' = [disp EXCEPT ![d] = y] /\ UNCHANGED toACE
      /\ UNCHANGED <<algorithm, wave, done>>
  <2>1. x.launch # NoLaunch /\ UNCHANGED <<algorithm, wave, done>>
    BY DEF DispatchNextWG, waveVars
  <2>2. PICK q \in {next} :
            /\ reserved' = q.reserved
            /\ IF q.x.curr # <<>> /\ Len(toACE[q.x.curr[1].cu]) < PortCap
               THEN /\ toACE' = [toACE EXCEPT ![q.x.curr[1].cu] = Append(@, q.x.curr[1])]
                    /\ disp' = [disp EXCEPT ![d] = [q.x EXCEPT
                           !.curr = <<>>, !.sent = @ + 1,
                           !.inflight = @ \cup {q.x.curr[1]}]]
               ELSE disp' = [disp EXCEPT ![d] = q.x] /\ UNCHANGED toACE
    BY Zenon DEF DispatchNextWG
  <2>3. q = next  OBVIOUS
  <2> HIDE DEF next
  <2> QED  BY <2>1, <2>2, <2>3
<1>2. PendingOK /\ PendingStep /\ DispatchersOK /\ OutOK  BY OtherVars DEF FreshInv
<1>3. d[1] \in GPU /\ DOMAIN disp = Dispatchers  BY <1>2 DEF Dispatchers, DispatchersOK
<1>4. Sane(x, d[1]) /\ SentOK(x)  BY <1>2 DEF DispatchersOK, PlacedOK
<1>5. BooksOK /\ DoneOK  BY DEF PlacedOK
\* What is placed is in the books, and is no work-group that anyone had before.
<1>6. /\ Placing(next)
      /\ Sane(y, d[1]) /\ y.launch = x.launch /\ Counted(x) \subseteq Counted(y)
      /\ y.inflight = x.inflight
  <2>1. CASE x.curr # <<>>
    <3>1. next = old /\ y = x  BY <2>1
    <3>2. old.reserved = reserved /\ old.x = x  OBVIOUS
    <3>3. x.curr[1].cu \in CU /\ Has(x.curr[1].cu, x.curr[1])  BY <1>4, <2>1 DEF SentOK
    <3> HIDE DEF x, old, next
    <3>4. Placing(old)  BY <1>5, <3>2, <3>3 DEF Placing, BooksOK, Has
    <3> QED  BY <1>4, <3>1, <3>4
  <2>2. CASE x.curr = <<>>
    <3>1. next = AlgorithmNext(d[1], x)  BY <2>2
    <3>2. DOMAIN x = DispField  BY <1>4 DEF Sane
    <3>3. x = disp[d]  OBVIOUS
    <3> HIDE DEF x, next
    <3>4. Placing(next)  BY Zenon, <1>1, <1>2, <1>5, <2>2, <3>1, <3>3, AlgorithmPlaces
    <3>5. y.inflight = x.inflight  BY <3>1, <3>2, SameSent
    <3>6. /\ Sane(y, d[1]) /\ y.launch = x.launch /\ Counted(x) \subseteq Counted(y)
      BY Zenon, <1>1, <1>3, <1>4, <2>2, <3>1, AlgorithmGood
    <3> QED  BY <3>4, <3>5, <3>6
  <2> QED  BY <2>1, <2>2
<1>7. ASSUME y.curr # <<>>
      PROVE  /\ \A c \in CU : \A wg \in Range(done[c]) : wg # m.wg
             /\ \A l \in x.inflight : l.wg # m.wg
  <2>1. CASE x.curr # <<>>
    <3>1. m = x.curr[1]  BY <2>1
    <3> HIDE DEF m
    <3> QED  BY <1>4, <1>5, <2>1, <3>1 DEF DoneOK, SentOK
  <2>2. CASE x.curr = <<>>
    <3>1. m.wg[1] = x.launch  BY <1>6, <1>7 DEF Sane
    <3>2. m.wg[2] \notin Counted(x)
      <4>1. next = AlgorithmNext(d[1], x)  BY <2>2
      <4> HIDE DEF x, next
      <4> QED  BY Zenon, <1>1, <1>3, <1>4, <1>7, <2>2, <4>1, AlgorithmGood
    <3> HIDE DEF m
    <3>3. ASSUME NEW wg, Begun(wg) PROVE wg # m.wg
      BY <3>1, <3>2, <3>3 DEF Begun
    <3>4. \A c \in CU : \A wg \in Range(done[c]) : Begun(wg)  BY <1>5 DEF DoneOK
    <3>5. \A l \in x.inflight : Begun(l.wg)  BY <1>4, <1>5 DEF SentOK, BooksOK
    <3> QED  BY <3>3, <3>4, <3>5
  <2> QED  BY <2>1, <2>2
<1>8. y.curr # <<>> => m.wg[1] = x.launch /\ m.wg[2] \in Counted(y)  BY <1>6 DEF Sane
<1>9. /\ DOMAIN reserved' = CU
      /\ \A c \in CU :
             /\ Booked(reserved'[c])
             /\ \A wg \in DOMAIN reserved[c].held :
                    /\ wg \in DOMAIN reserved'[c].held
                    /\ reserved'[c].held[wg] = reserved[c].held[wg]
             /\ \A wg \in DOMAIN reserved'[c].held :
                    wg \in DOMAIN reserved[c].held \/ (y.curr # <<>> /\ wg = m.wg)
      /\ y.curr # <<>> => /\ m.cu \in CU /\ m.wg \in DOMAIN reserved'[m.cu].held
                          /\ m.place = reserved'[m.cu].held[m.wg]
  <2>1. reserved' = next.reserved /\ Placing(next)  BY Zenon, <1>1, <1>6
  <2> HIDE DEF next
  <2> QED  BY <2>1 DEF Placing
<1> DEFINE z == disp'[d]
<1>10. \A e \in Dispatchers : e # d => disp'[e] = disp[e]  BY Zenon, <1>1, <1>3
<1>11. /\ z.launch = x.launch /\ Counted(z) = Counted(y)
       /\ \/ z = y /\ UNCHANGED toACE
          \/ /\ y.curr # <<>> /\ z.curr = <<>> /\ z.inflight = x.inflight \cup {m}
             /\ toACE' = [toACE EXCEPT ![m.cu] = Append(@, m)]
  <2>1. CASE disp' = [disp EXCEPT ![d] = y] /\ UNCHANGED toACE
    <3>1. z = y  BY <1>3, <2>1
    <3> HIDE DEF z, y
    <3> QED  BY <1>6, <2>1, <3>1
  <2>2. CASE /\ y.curr # <<>>
             /\ toACE' = [toACE EXCEPT ![m.cu] = Append(@, m)]
             /\ disp' = [disp EXCEPT ![d] = sent]
    <3>1. z = sent  BY Zenon, <1>3, <2>2
    <3>2. /\ DOMAIN sent = DispField /\ sent.launch = y.launch /\ sent.part = y.part
          /\ sent.nextCU = y.nextCU /\ sent.curr = <<>>
          /\ sent.inflight = y.inflight \cup {m}
      <4>1. DOMAIN y = DispField  BY <1>6 DEF Sane
      <4> HIDE DEF y, m
      <4> QED  BY <4>1 DEF DispField
    <3>3. Counted(sent) = Counted(y)
      <4>1. y.launch # NoLaunch  BY Zenon, <1>1, <1>6
      <4> HIDE DEF x, y, sent
      <4> QED  BY <1>6, <3>2, <4>1, SaneKept
    <3> HIDE DEF z, sent, y, m
    <3> QED  BY <1>6, <2>2, <3>1, <3>2, <3>3
  <2> QED  BY Zenon, <1>1, <2>1, <2>2
<1> HIDE DEF next
<1>12. /\ Counted(disp[d])' = Counted(y) /\ disp'[d].launch = x.launch
  <2>1. PICK u : u = disp'[d]  OBVIOUS
  <2>2. Counted(disp[d])' = Counted(u)  BY <1>1, <2>1, StillCounted
  <2> QED  BY <1>11, <2>1, <2>2
<1>13. Goes
  <2>1. ASSUME NEW e \in Dispatchers, e # d
        PROVE  disp'[e].launch = disp[e].launch /\ Counted(disp[e]) \subseteq Counted(disp[e])'
    BY <1>1, <1>10, <2>1, SameCounted
  <2> QED  BY <1>6, <1>12, <2>1 DEF Goes
<1>14. BooksOK'
  <2>1. ASSUME NEW wg, y.curr # <<>>, wg = m.wg PROVE Begun(wg)'
    <3>1. Known(x.launch) /\ x.launch \notin Pending  BY Zenon, <1>1, <1>4 DEF Sane
    <3>2. wg[1] = x.launch /\ wg[2] \in Counted(y)  BY <1>8, <2>1
    <3>3. \A e \in Dispatchers : e # d => disp[e].launch # x.launch
      BY <1>1, <1>2 DEF DispatchersOK
    <3> HIDE DEF x, y, m, z
    <3>4. Known(wg[1])' /\ wg[1] \notin Pending'  BY <1>2, <3>1, <3>2, StillApart
    <3>5. ASSUME NEW e \in Dispatchers, wg[1] = disp'[e].launch
          PROVE  wg[2] \in Counted(disp[e])'
      <4>1. e = d  BY <1>10, <3>2, <3>3, <3>5
      <4> QED  BY <1>12, <3>2, <4>1
    <3> QED  BY <3>4, <3>5 DEF Begun
  <2>2. ASSUME NEW c \in CU
        PROVE  Booked(reserved[c])' /\ \A wg \in DOMAIN reserved'[c].held : Begun(wg)'
    <3>1. \A wg \in DOMAIN reserved[c].held : Begun(wg)'
      BY <1>2, <1>5, <1>13, BegunKept DEF BooksOK
    <3> HIDE DEF x, y, m, z
    <3>2. ASSUME NEW wg \in DOMAIN reserved'[c].held PROVE Begun(wg)'
      <4>1. wg \in DOMAIN reserved[c].held \/ (y.curr # <<>> /\ wg = m.wg)  BY <1>9
      <4> QED  BY <2>1, <3>1, <4>1
    <3>3. Booked(reserved'[c])  BY <1>9
    <3>4. Booked(reserved[c])'
      BY Zenon, <3>3 DEF Booked, Consistent, Slots, Here, SgprOf, VgprOf, LdsOf
    <3> QED  BY <3>2, <3>4
  <2> QED  BY <1>9, <2>2 DEF BooksOK
<1> HIDE DEF y, m
<1>15. ASSUME NEW c \in CU, NEW i \in DOMAIN toACE'[c]
       PROVE  \/ \E j \in DOMAIN toACE[c] : toACE'[c][i] = toACE[c][j]
              \/ y.curr # <<>> /\ z.curr = <<>> /\ c = m.cu /\ toACE'[c][i] = m
  <2>1. CASE UNCHANGED toACE  BY <2>1
  <2>2. CASE /\ y.curr # <<>> /\ z.curr = <<>>
             /\ toACE' = [toACE EXCEPT ![m.cu] = Append(@, m)]
    <3>1. DOMAIN toACE = CU /\ toACE[c] \in Seq(Range(toACE[c]))  BY <1>2 DEF OutOK
    <3>2. CASE c # m.cu  BY <2>2, <3>1, <3>2
    <3>3. CASE c = m.cu
      <4> DEFINE q == toACE[c]
      <4>1. q \in Seq(Range(q)) /\ toACE'[c] = Append(q, m)  BY <2>2, <3>1, <3>3
      <4> HIDE DEF q, z
      <4>2. /\ DOMAIN q = 1 .. Len(q) /\ Len(q) \in Nat
            /\ DOMAIN Append(q, m) = 1 .. Len(q) + 1
            /\ Append(q, m)[Len(q) + 1] = m
            /\ \A j \in 1 .. Len(q) : Append(q, m)[j] = q[j]
        <5> DEFINE S == Range(q) \cup {m}
        <5>1. q \in Seq(S) /\ m \in S  BY <4>1, Retyped
        <5> HIDE DEF S
        <5> QED  BY ONLY <5>1, AppendElements, SeqType
      <4>3. i \in 1 .. Len(q) \/ i = Len(q) + 1  BY <4>1, <4>2
      <4> QED  BY <2>2, <3>3, <4>1, <4>2, <4>3 DEF q
    <3> QED  BY <3>2, <3>3
  <2> HIDE DEF z
  <2> QED  BY <1>11, <2>1, <2>2
<1>16. Out' \subseteq Out \cup {m.wg} /\ (y.curr = <<>> => Out' \subseteq Out)
  <2>1. ASSUME NEW c \in CU, NEW i \in DOMAIN toACE'[c]
        PROVE  toACE'[c][i].wg \in Out \/ (y.curr # <<>> /\ toACE'[c][i].wg = m.wg)
    BY <1>15, <2>1 DEF Out, Range
  <2>2. wave' = wave  BY <1>1
  <2> QED  BY <2>1, <2>2 DEF Out, Range
<1>17. DoneOK'
  <2>1. ASSUME NEW c \in CU, NEW wg \in Range(done'[c])
        PROVE  /\ Begun(wg)' /\ wg \notin Out'
               /\ \A e \in Dispatchers : disp'[e].curr # <<>> => disp'[e].curr[1].wg # wg
    <3>1. wg \in Range(done[c])  BY <1>1
    <3>2. /\ Begun(wg) /\ wg \notin Out
          /\ \A e \in Dispatchers : disp[e].curr # <<>> => disp[e].curr[1].wg # wg
      BY <1>5, <3>1 DEF DoneOK
    <3>3. Begun(wg)'  BY <1>2, <1>13, <3>2, BegunKept
    <3>4. y.curr # <<>> => wg # m.wg  BY <1>7, <3>1
    <3>5. wg \notin Out'  BY <1>16, <3>2, <3>4
    <3>6. z.curr # <<>> => z.curr[1].wg # wg
      <4>1. z.curr # <<>> => z.curr = y.curr  BY <1>11
      <4> QED  BY <3>4, <4>1 DEF m
    <3> QED  BY <1>10, <3>2, <3>3, <3>5, <3>6
  <2> QED  BY <1>1, <1>5, <2>1 DEF DoneOK
<1>18. ASSUME NEW c \in CU, NEW i \in DOMAIN toACE'[c] PROVE Has(c, toACE[c][i])'
  <2>1. CASE \E j \in DOMAIN toACE[c] : toACE'[c][i] = toACE[c][j]
    <3>1. PICK j \in DOMAIN toACE[c] : toACE'[c][i] = toACE[c][j]  BY <2>1
    <3>2. Has(c, toACE[c][j])  BY DEF PlacedOK
    <3> QED  BY <1>9, <3>1, <3>2 DEF Has
  <2>2. CASE y.curr # <<>> /\ c = m.cu /\ toACE'[c][i] = m
    BY <1>9, <2>2 DEF Has
  <2> QED  BY <1>15, <2>1, <2>2
<1>19. ASSUME NEW w \in DOMAIN wave' PROVE InPlace(w, wave[w])'
  <2>1. InPlace(w, wave[w])  BY <1>1 DEF PlacedOK
  <2> QED  BY <1>1, <1>9, <2>1 DEF InPlace
<1>20. ASSUME NEW e \in Dispatchers PROVE SentOK(disp[e])'
  <2>1. SentOK(disp[e])  BY DEF PlacedOK
  <2>2. CASE e # d
    <3>1. disp'[e] = disp[e]  BY <1>10, <2>2
    <3> QED  BY <1>9, <2>1, <3>1 DEF SentOK, Has
  <2>3. CASE e = d
    <3>1. /\ \A l \in x.inflight :
                 /\ l.cu \in CU /\ l.wg \in DOMAIN reserved'[l.cu].held /\ l.wg[1] = x.launch
                 /\ \A k \in x.inflight : k.wg = l.wg => k = l
      BY <1>4, <1>9 DEF SentOK
    <3>2. y.curr # <<>> => \A l \in x.inflight : l.wg # m.wg  BY <1>7
    <3> HIDE DEF x, z
    <3>3. CASE z = y
      <4>1. z.launch = x.launch /\ z.inflight = x.inflight /\ z.curr = y.curr
            /\ (y.curr # <<>> => m = z.curr[1])
        BY <1>6, <3>3 DEF m
      <4> QED  BY <1>9, <2>3, <3>1, <3>2, <4>1 DEF SentOK, Has, z
    <3>4. CASE y.curr # <<>> /\ z.curr = <<>> /\ z.inflight = x.inflight \cup {m}
      <4>1. m.cu \in CU /\ m.wg \in DOMAIN reserved'[m.cu].held /\ m.wg[1] = x.launch
        BY <1>8, <1>9, <3>4 DEF Has
      <4>2. z.launch = x.launch  BY <1>11
      <4> QED  BY <2>3, <3>1, <3>2, <3>4, <4>1, <4>2 DEF SentOK, z
    <3> QED  BY <1>11, <3>3, <3>4
  <2> QED  BY <2>2, <2>3
<1> QED  BY <1>14, <1>17, <1>18, <1>19, <1>20 DEF PlacedOK

LEMMA PlacedInit == Init => PlacedOK
<1> SUFFICES ASSUME Init PROVE PlacedOK  OBVIOUS
<1>1. /\ disp = [d \in Dispatchers |-> Idle(d[1])] /\ reserved = [c \in CU |-> Unreserved]
      /\ toACE = [c \in CU |-> <<>>] /\ done = [c \in CU |-> <<>>] /\ wave = <<>>
  BY DEF Init, DispatcherInit, ComputeUnitInit
<1> DEFINE r == Unreserved
<1>2. /\ DOMAIN r = ResField /\ r.nextSIMD = 1 /\ DOMAIN r.held = {}
      /\ r.sgpr = {} /\ r.lds = {}
      /\ \A s \in SIMD : r.vgpr[s] = {} /\ r.free[s] = PoolSize
  BY DEF Unreserved, ResField
<1> HIDE DEF r
<1>3. Slots(r) = {} /\ \A s : Here(r, s) = {}  BY <1>2 DEF Slots, Here
<1>4. Consistent(r)
  <2>1. \A own : DOMAIN own = {} => Owned({}, own)  BY DEF Owned, Range
  <2>2. DOMAIN SgprOf(r) = {} /\ DOMAIN LdsOf(r) = {} /\ \A s : DOMAIN VgprOf(r, s) = {}
    BY <1>2, <1>3 DEF SgprOf, LdsOf, VgprOf
  <2>3. \A s \in SIMD : Cardinality(Here(r, s)) = 0  BY <1>3, FS_EmptySet
  <2>4. PoolSize \in Nat  BY DispatcherAssumption
  <2>5. Owned(r.sgpr, SgprOf(r)) /\ Owned(r.lds, LdsOf(r))  BY <1>2, <2>1, <2>2
  <2>6. ASSUME NEW s \in SIMD
        PROVE  /\ Owned(r.vgpr[s], VgprOf(r, s))
               /\ r.free[s] = PoolSize - Cardinality(Here(r, s)) /\ r.free[s] >= 0
    <3>1. Owned(r.vgpr[s], VgprOf(r, s))  BY <1>2, <2>1, <2>2
    <3>2. r.free[s] = PoolSize /\ Cardinality(Here(r, s)) = 0  BY <1>2, <2>3
    <3> QED  BY ONLY <2>4, <3>1, <3>2
  <2> QED  BY <2>5, <2>6 DEF Consistent
<1>5. Booked(r)
  <2>1. IsFiniteSet(Slots(r))  BY <1>3, FS_EmptySet
  <2> QED  BY <1>2, <1>4, <2>1 DEF Booked
<1>6. BooksOK  BY <1>1, <1>2, <1>5 DEF BooksOK, r
<1>7. Out = {} /\ DoneOK
  <2>1. DOMAIN <<>> = {} /\ <<>> \in Seq(Range(<<>>)) /\ Range(<<>>) = {}  BY DEF Range
  <2>2. \A c \in CU : toACE[c] = <<>> /\ done[c] = <<>>  BY <1>1
  <2>3. Out = {}  BY <1>1, <2>1, <2>2 DEF Out
  <2> QED  BY <1>1, <2>1, <2>2, <2>3 DEF DoneOK
<1>8. \A d \in Dispatchers : SentOK(disp[d])
  <2>1. \A d \in Dispatchers : disp[d].curr = <<>> /\ disp[d].inflight = {}
    BY <1>1 DEF Idle
  <2> QED  BY <2>1 DEF SentOK
<1>9. \A c \in CU : DOMAIN toACE[c] = {}  BY <1>1
<1>10. DOMAIN wave = {}  BY <1>1
<1> QED  BY <1>6, <1>7, <1>8, <1>9, <1>10 DEF PlacedOK

LEMMA PlacedStep == FreshInv /\ PlacedOK /\ [Next]_vars => PlacedOK'
<1> SUFFICES ASSUME FreshInv, PlacedOK, [Next]_vars PROVE PlacedOK'  OBVIOUS
<1>1. CASE CUs  BY <1>1, PlacedComputeUnits
<1>2. CASE DispatchStep
  <2>1. UNCHANGED <<driverVars, fromDriver>>  BY <1>2 DEF DispatchStep, cpVars
  <2>2. PICK d \in Dispatchers :
            \/ DispatchNextWG(d) \/ CompleteKernel(d)
            \/ \E c \in CUsOf(d[1]) : WGCompletion(d, c)
    BY <1>2 DEF DispatchStep
  <2>3. ASSUME NEW c \in CUsOf(d[1]), WGCompletion(d, c) PROVE PlacedOK'
    <3>1. c \in CU  BY DEF CUsOf
    <3> QED  BY <2>1, <2>3, <3>1, PlacedCompletion
  <2> QED  BY <2>1, <2>2, <2>3, PlacedDispatch, PlacedCompleteKernel
<1>3. CASE CPStep
  BY <1>3, PlacedControl, PlacedLaunch DEF CPStep
<1>4. CASE DriverStep  BY <1>4, PlacedDriver
<1>5. CASE MemoryStep \/ MMUStep \/ Finished \/ UNCHANGED vars
  BY <1>5, PlacedMemorySide
<1> QED  BY <1>1, <1>2, <1>3, <1>4, <1>5 DEF Next

LEMMA PlacedDisjoint == PlacedOK => ResourcesDisjoint
<1> SUFFICES ASSUME PlacedOK, NEW c \in CU
             PROVE  /\ Consistent(reserved[c])
                    /\ \A w \in On(c) :
                           /\ <<WGOf(w), w[3]>> \in Slots(reserved[c])
                           /\ wave[w].simd = reserved[c].held[WGOf(w)][w[3]].simd
  BY DEF ResourcesDisjoint
<1>1. Consistent(reserved[c])  BY DEF PlacedOK, BooksOK, Booked
<1>2. ASSUME NEW w \in On(c)
      PROVE  /\ <<WGOf(w), w[3]>> \in Slots(reserved[c])
             /\ wave[w].simd = reserved[c].held[WGOf(w)][w[3]].simd
  <2>1. w \in DOMAIN wave /\ wave[w].cu = c  BY DEF On
  <2>2. InPlace(w, wave[w])  BY <2>1 DEF PlacedOK
  <2>3. w[3] \in WavesOf(WGOf(w))
    <3>1. w \in Waves(WGOf(w))  BY <2>2 DEF InPlace
    <3> QED  BY <3>1 DEF Waves, WavesOf
  <2> QED  BY <2>1, <2>2, <2>3 DEF InPlace, Slots
<1> QED  BY <1>1, <1>2

\* No register, LDS byte or pool entry belongs to two wavefronts: the books of every compute
\* unit are right through all placements, also those that fail half way, and all releases,
\* and every wavefront in a pool is where the books have it (curesourceimpl.go, wfdispatcher.go).
THEOREM ResourcesDisjointCorrect == Spec => []ResourcesDisjoint
<1>1. Spec => []FreshInv  BY FreshInit, FreshStep, PTL DEF Spec
<1>2. Spec => []PlacedOK  BY <1>1, PlacedInit, PlacedStep, PTL DEF Spec
<1> QED  BY <1>2, PlacedDisjoint, PTL
===============================================================================
