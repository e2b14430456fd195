------------------------------ MODULE Dispatcher ------------------------------
(***************************************************************************)
(* The dispatchers of the command processors.  A dispatcher takes one      *)
(* launch at a time, finds for each of its work-groups a compute unit with *)
(* room for the wavefronts, the registers and the LDS, sends MapWGReqs and *)
(* frees what was reserved when a work-group is complete.  The dispatchers *)
(* of a GPU share the resource pool.                                       *)
(***************************************************************************)
EXTENDS ComputeUnit

CONSTANTS
    NumDispatchers,         \* per GPU
    Algorithms,             \* \subseteq {"round-robin", "greedy", "partition"}
    NumSGPR, NumVGPR, NumLDS,   \* units of a CU, of a SIMD, of a CU
    PoolSize,               \* wavefronts per SIMD
    NoLaunch

\* A launch: the work-groups of the kernel that pass the filter.
LaunchReq == [id : Nat, kernel : DOMAIN Kernel, from : Nat \ {0}, to : Nat]

ASSUME DispatcherAssumption ==
    /\ {NumDispatchers, NumSGPR, NumVGPR, NumLDS, PoolSize} \subseteq Nat \ {0}
    /\ Algorithms \subseteq {"round-robin", "greedy", "partition"}
    /\ NoLaunch \notin LaunchReq

VARIABLES
    algorithm,      \* of all dispatchers
    disp,           \* the dispatchers
    reserved,       \* the reserved units and pool entries of each CU
    toDriver        \* responses of the command processors under way

dispatchVars == <<algorithm, disp, reserved>>

Dispatchers == GPU \X (1 .. NumDispatchers)
CUsOf(g) == {c \in CU : c[1] = g}

NumWG(launch) == launch.to - launch.from + 1
WavesOf(wg) == 1 .. Kernel[wg[1].kernel].waves

Idle(g) == [launch |-> NoLaunch, sent |-> 0, completed |-> 0, nextCU |-> 1,
            part |-> [i \in 1 .. NumCU[g] |-> [count |-> 0, held |-> 0]],
            curr |-> <<>>, inflight |-> {}]

Unreserved == [sgpr |-> {}, lds |-> {}, vgpr |-> [s \in SIMD |-> {}],
               free |-> [s \in SIMD |-> PoolSize], nextSIMD |-> 1, held |-> <<>>]

DispatcherInit ==
    /\ algorithm \in Algorithms
    /\ disp = [d \in Dispatchers |-> Idle(d[1])]
    /\ reserved = [c \in CU |-> Unreserved]

-------------------------------------------------------------------------------
(* The resources of one compute unit *)

Region(offset, n) == offset .. offset + n - 1
Regions(used, size, n) ==
    IF n = 0 THEN {0} ELSE {o \in 0 .. size - n : Region(o, n) \cap used = {}}
Cyclic(first, n) == [i \in 1 .. n |-> ((first + i - 2) % n) + 1]

\* Mutant: a region is not taken before the next wavefront is placed.
FirstFree(used, size, n, m) ==
    LET free == Regions(used, size, n) IN
    IF free = {} THEN {} ELSE {[i \in 1 .. m |-> Min(free)]}

\* The lowest region for each of m wavefronts in turn: one list of offsets, none if they do
\* not fit.
FirstFit(used, size, n, m) ==
    LET Left(offset, i) ==
            Regions(used \cup UNION {Region(offset[j], n) : j \in 1 .. i - 1}, size, n) IN
    {offset \in [1 .. m -> 0 .. size] : \A i \in 1 .. m :
        Left(offset, i) # {} /\ offset[i] = Min(Left(offset, i))}

\* matchWfWithSIMDs tries the SIMD units in a circle, from where it stopped for the wavefront
\* before: the places of the wavefronts up to the first that finds none.
MatchSIMDs(r, n, m) ==
    LET Before(at, i, s) == {j \in 1 .. i - 1 : at[j].simd = s}
        Left(at, i, s) ==
            Regions(r.vgpr[s] \cup UNION {Region(at[j].vgpr, n) : j \in Before(at, i, s)},
                    NumVGPR, n)
        Fits(at, i, s) == Left(at, i, s) # {} /\ r.free[s] > Cardinality(Before(at, i, s))
        Circle(at, i) ==
            Cyclic(IF i = 1 THEN r.nextSIMD ELSE (at[i - 1].simd % NumSIMD) + 1, NumSIMD)
        matched == {at \in BoundedSeq([simd : SIMD, vgpr : 0 .. NumVGPR], m) :
            \A i \in DOMAIN at : \E p \in SIMD :
                LET s == Circle(at, i)[p] IN
                /\ Fits(at, i, s) /\ at[i] = [simd |-> s, vgpr |-> Min(Left(at, i, s))]
                /\ \A q \in 1 .. p - 1 : ~ Fits(at, i, Circle(at, i)[q])} IN
    CHOOSE at \in matched : \A other \in matched : Len(other) <= Len(at)

\* What the wavefronts of wg occupy at their places.
Occupied(wg, place) ==
    LET k == Kernel[wg[1].kernel] IN
    [sgpr |-> UNION {Region(p.sgpr, k.sgpr) : p \in Range(place)},
     lds  |-> UNION {Region(p.lds, k.lds) : p \in Range(place)},
     vgpr |-> [s \in SIMD |-> UNION {Region(p.vgpr, k.vgpr) :
                                         p \in {q \in Range(place) : q.simd = s}}],
     pool |-> [s \in SIMD |-> Cardinality({i \in DOMAIN place : place[i].simd = s})]]

\* The books of a CU with wg at its places.
Take(r, wg, place, next) ==
    LET o == Occupied(wg, place) IN
    [sgpr |-> r.sgpr \cup o.sgpr, lds |-> r.lds \cup o.lds,
     vgpr |-> [s \in SIMD |-> r.vgpr[s] \cup o.vgpr[s]],
     free |-> [s \in SIMD |-> r.free[s] - o.pool[s]], nextSIMD |-> next,
     held |-> [v \in DOMAIN r.held \cup {wg} |-> IF v = wg THEN place ELSE r.held[v]]]

\* ReserveResourceForWG: the new state of the CU and the places, none if it does not fit.
\* The next SIMD unit is not put back when a wavefront finds no place.
Reserve(r, wg) ==
    LET k == Kernel[wg[1].kernel]
        sgprs == FirstFit(r.sgpr, NumSGPR, k.sgpr, k.waves)
        ldss == Regions(r.lds, NumLDS, k.lds)
        at == MatchSIMDs(r, k.vgpr, k.waves)
        next == IF Len(at) = 0 THEN r.nextSIMD ELSE (at[Len(at)].simd % NumSIMD) + 1
        offset == CHOOSE o \in sgprs : TRUE
        place == [i \in 1 .. k.waves |-> [simd |-> at[i].simd, vgpr |-> at[i].vgpr,
                                          sgpr |-> offset[i], lds |-> Min(ldss)]] IN
    IF sgprs = {} \/ ldss = {} THEN [r |-> r, place |-> <<>>]
    ELSE IF Len(at) < k.waves THEN [r |-> [r EXCEPT !.nextSIMD = next], place |-> <<>>]
    ELSE [r |-> Take(r, wg, place, next), place |-> place]

\* FreeResourcesForWG
Release(r, wg) ==
    LET o == Occupied(wg, r.held[wg]) IN
    [sgpr |-> r.sgpr \ o.sgpr, lds |-> r.lds \ o.lds,
     vgpr |-> [s \in SIMD |-> r.vgpr[s] \ o.vgpr[s]],
     free |-> [s \in SIMD |-> r.free[s] + o.pool[s]],
     nextSIMD |-> r.nextSIMD, held |-> Restrict(r.held, DOMAIN r.held \ {wg})]

-------------------------------------------------------------------------------
(* The dispatching algorithms.  A candidate is a compute unit to try and *)
(* the work-group to try there, with the partition it is from.            *)

PerPartition(x) == (NumWG(x.launch) - 1) \div Len(x.part) + 1

\* The work-groups that the grid builder of partition i has.
PartitionSize(x, i) ==
    Max({0, Min({PerPartition(x), NumWG(x.launch) - (i - 1) * PerPartition(x)})})

\* The next work-group of the grid builder of partition i.
NextOf(x, i) == x.launch.from + (i - 1) * PerPartition(x) + x.part[i].count

\* nextWG: a partition that is exhausted takes a work-group that another one holds, also
\* one that was found not to fit just before.
PartitionCandidates(x, order) ==
    LET Builds(i) == x.part[i].count < PartitionSize(x, i)
        Held(k, j) == IF Builds(j) /\ \E n \in 1 .. k - 1 : order[n] = j THEN NextOf(x, j)
                                                                       ELSE x.part[j].held
        Holding(k) == {j \in DOMAIN x.part : Held(k, j) # 0}
        Takes(k) == x.part[order[k]].count >= PerPartition(x) /\ Holding(k) # {} IN
    [k \in {n \in DOMAIN order : Builds(order[n]) \/ Takes(n)} |->
        LET i == order[k]
            other == Min(Holding(k)) IN
        IF Builds(i) THEN [cu |-> i, from |-> i, wg |-> NextOf(x, i)]
                     ELSE [cu |-> i, from |-> other, wg |-> Held(k, other)]]

\* Mutant: the grid builder does not move on.
FirstAgain(x) ==
    [i \in DOMAIN x.part |-> [cu |-> i, from |-> 1, wg |-> x.launch.from]]

Candidates(x) ==
    LET order == Cyclic(IF algorithm = "greedy" THEN 1 ELSE x.nextCU, Len(x.part)) IN
    IF algorithm = "partition" THEN PartitionCandidates(x, order)
    ELSE [i \in DOMAIN order |->
             [cu |-> order[i], from |-> 1, wg |-> NextOf(x, 1)]]

InAlgorithm(x) == FoldLeft(LAMBDA n, p : n + p.count, 0, x.part)
HasNext(x) == InAlgorithm(x) < NumWG(x.launch)

\* Next: the candidates are tried in turn up to the first that fits.
Attempts(g, x, list) ==
    [i \in DOMAIN list |-> Reserve(reserved[<<g, list[i].cu>>], <<x.launch, list[i].wg>>)]

Outcome(g, x, list, attempt) ==
    LET At(i) == <<g, list[i].cu>>
        fits == {i \in DOMAIN list : attempt[i].place # <<>>}
        tried == IF fits = {} THEN DOMAIN list ELSE {n \in DOMAIN list : n <= Min(fits)}
        i == Min(fits)
        Held(j) == IF \E n \in tried : list[n].cu = j /\ list[n].from = j
                   THEN NextOf(x, j) ELSE x.part[j].held
        part == [j \in DOMAIN x.part |->
            IF fits # {} /\ j = list[i].from THEN [count |-> x.part[j].count + 1, held |-> 0]
            ELSE [count |-> x.part[j].count, held |-> Held(j)]] IN
    [reserved |-> [c \in CU |->
         IF \E n \in tried : At(n) = c THEN attempt[CHOOSE n \in tried : At(n) = c].r
                                      ELSE reserved[c]],
     x |-> IF fits = {} THEN [x EXCEPT !.part = part]
           ELSE [x EXCEPT !.part = part,
                          !.nextCU = (list[i].cu % Len(x.part)) + 1,
                          !.curr = <<[wg |-> <<x.launch, list[i].wg>>, cu |-> At(i),
                                      place |-> attempt[i].place]>>]]

AlgorithmNext(g, x) ==
    LET list == Candidates(x) IN Outcome(g, x, list, Attempts(g, x, list))

-------------------------------------------------------------------------------
(* Tick *)

StartDispatching(d, launch) == disp' = [disp EXCEPT ![d].launch = launch]

\* dispatchNextWG: a request that the port refuses keeps its place.  Attempts that change
\* nothing are left out.
DispatchNextWG(d) ==
    /\ disp[d].launch # NoLaunch
    /\ disp[d].curr # <<>> \/ HasNext(disp[d])
    /\ \E next \in {IF disp[d].curr # <<>> THEN [reserved |-> reserved, x |-> disp[d]]
                                            ELSE AlgorithmNext(d[1], disp[d])} :
           LET curr == next.x.curr IN
           /\ curr # <<>> \/ next # [reserved |-> reserved, x |-> disp[d]]
           /\ reserved' = next.reserved
           /\ IF curr # <<>> /\ Len(toACE[curr[1].cu]) < PortCap
              THEN /\ toACE' = [toACE EXCEPT ![curr[1].cu] = Append(@, curr[1])]
                   /\ disp' = [disp EXCEPT ![d] = [next.x EXCEPT
                          !.curr = <<>>, !.sent = @ + 1, !.inflight = @ \cup {curr[1]}]]
              ELSE /\ disp' = [disp EXCEPT ![d] = next.x]
                   /\ UNCHANGED toACE
    /\ UNCHANGED <<algorithm, toDriver, waveVars, flightVars, unitVars, mode, toCP, done, ack>>

KernelCompleted(x) ==
    x.curr = <<>> /\ ~ HasNext(x) /\ x.completed >= x.sent

CompleteKernel(d) ==
    LET x == disp[d] IN
    /\ x.launch # NoLaunch /\ KernelCompleted(x)
    /\ toDriver' = [toDriver EXCEPT ![d[1]] =
           Append(@, [type |-> "LaunchKernelRsp", id |-> x.launch.id])]
    /\ disp' = [disp EXCEPT ![d] = [Idle(d[1]) EXCEPT !.nextCU = x.nextCU]]
    /\ UNCHANGED <<algorithm, reserved, cuVars>>

\* A completion message is taken by the dispatcher that sent the work-group.
WGCompletion(d, c) ==
    /\ done[c] # <<>>
    /\ \E l \in disp[d].inflight :
           /\ l.wg = Head(done[c])
           /\ reserved' = [reserved EXCEPT ![l.cu] = Release(@, l.wg)]
           /\ disp' = [disp EXCEPT ![d].inflight = @ \ {l}, ![d].completed = @ + 1]
    /\ done' = [done EXCEPT ![c] = Tail(@)]
    /\ UNCHANGED <<algorithm, toDriver, waveVars, flightVars, unitVars, mode, toACE, toCP, ack>>

-------------------------------------------------------------------------------
\* What is used is what the owners have, and no two have the same.
Owned(used, own) ==
    /\ used = UNION Range(own)
    /\ \A g, h \in DOMAIN own : g # h => own[g] \cap own[h] = {}

\* The wavefronts that have places on a compute unit, work-group and number, and what they own.
Slots(r) == UNION {{wg} \X WavesOf(wg) : wg \in DOMAIN r.held}
Here(r, s) == {h \in Slots(r) : r.held[h[1]][h[2]].simd = s}
SgprOf(r) ==
    [h \in Slots(r) |-> Region(r.held[h[1]][h[2]].sgpr, Kernel[h[1][1].kernel].sgpr)]
VgprOf(r, s) ==
    [h \in Here(r, s) |-> Region(r.held[h[1]][h[2]].vgpr, Kernel[h[1][1].kernel].vgpr)]
LdsOf(r) == [wg \in DOMAIN r.held |-> Occupied(wg, r.held[wg]).lds]

Consistent(r) ==
    /\ Owned(r.sgpr, SgprOf(r)) /\ Owned(r.lds, LdsOf(r))
    /\ \A s \in SIMD :
           /\ Owned(r.vgpr[s], VgprOf(r, s))
           /\ r.free[s] = PoolSize - Cardinality(Here(r, s)) /\ r.free[s] >= 0

\* No register, LDS byte or pool entry belongs to two wavefronts, every wavefront in a pool
\* has its own, and what nobody holds is free.
ResourcesDisjoint ==
    \A c \in CU :
        /\ Consistent(reserved[c])
        /\ \A w \in On(c) :
               /\ <<WGOf(w), w[3]>> \in Slots(reserved[c])
               /\ wave[w].simd = reserved[c].held[WGOf(w)][w[3]].simd
===============================================================================
