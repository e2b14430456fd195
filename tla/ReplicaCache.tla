----------------------------- MODULE ReplicaCache -----------------------------
(***************************************************************************)
(* What the RDMA engine of a GPM sees of the GPM's own L2 cache            *)
(* (akita/mem/cache/writeback): clean copies of lines of another GPM,      *)
(* filled by the engine (RemoteDataFill), looked up without a fetch        *)
(* (LookupOnly), given up whenever the set needs the way, and all lost at  *)
(* a flush.  A flush begins a new generation, and a fill of an older one   *)
(* comes too late.                                                         *)
(***************************************************************************)
EXTENDS Integers, Sequences, FiniteSets, Functions, SequencesExt

CONSTANT
    TopCap      \* requests that the link from ToL2 and the top port hold

ASSUME TopAssumption == TopCap \in Nat \ {0}

VARIABLES
    replica,    \* the data of the lines in remoteReplicaBlocks
    generation, \* remoteReplicaGeneration
    top,        \* lookups and fills on their way to the cache
    l2Rsp       \* ... and its responses

cacheVars == <<replica, generation, top, l2Rsp>>

NoData == -1

CacheInit == /\ replica = <<>>
             /\ generation = 0
             /\ top = <<>>
             /\ l2Rsp = <<>>

Answer(i, r) == /\ top' = RemoveAt(top, i)
                /\ l2Rsp' = Append(l2Rsp, r)

\* handleLookupOnlyMiss, and finalizeReadHit.
LookupMiss(i) == [kind |-> "lookup", id |-> top[i].id, gen |-> generation, hit |-> FALSE,
                  data |-> NoData]

LookupHit(i) == [kind |-> "lookup", id |-> top[i].id, gen |-> generation, hit |-> TRUE,
                 data |-> replica[top[i].line]]

\* topParser.Tick: a lookup crosses the pipelines of the cache, during which fills that
\* were sent after it may be done.
Lookup(i) ==
    /\ top[i].kind = "lookup"
    /\ Answer(i, IF top[i].line \in DOMAIN replica THEN LookupHit(i) ELSE LookupMiss(i))
    /\ UNCHANGED <<replica, generation>>

\* Mutant: a fill is welcome whenever it comes.
LateFills(i) == top[i].line \notin DOMAIN replica

\* The checks of installRemoteDataFill.  (That a way is free depends on the other
\* lines of the set.)
FillIsCurrent(i) == /\ top[i].gen = generation
                    /\ top[i].line \notin DOMAIN replica

\* processRemoteFill.  A fill takes a free way, the way of another copy, or none.
Fill(i) ==
    /\ top[i].kind = "fill"
    /\ \A j \in 1 .. i - 1 : top[j].kind # "fill"
    /\ \/ /\ FillIsCurrent(i)
          /\ \E out \in SUBSET DOMAIN replica :
                 /\ Cardinality(out) <= 1
                 /\ replica' = [l \in {top[i].line} \cup (DOMAIN replica \ out) |->
                                   IF l = top[i].line THEN top[i].data ELSE replica[l]]
          /\ Answer(i, [kind |-> "fill", id |-> top[i].id])
       \/ /\ replica' = replica
          /\ Answer(i, [kind |-> "fill", id |-> top[i].id])
    /\ UNCHANGED generation

\* untrackRemoteReplica: a line of this GPM takes the way.
Displace(l) ==
    /\ l \in DOMAIN replica
    /\ replica' = Restrict(replica, DOMAIN replica \ {l})
    /\ UNCHANGED <<generation, top, l2Rsp>>

\* startProcessingFlush and finalizeFlushing, with no lookup in flight.
FlushReplicas == /\ generation' = generation + 1
                 /\ replica' = <<>>
===============================================================================
