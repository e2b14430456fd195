------------------------ MODULE PageMigrationController ------------------------
(***************************************************************************)
(* The page migration controllers of the GPUs.  The controller of the GPU  *)
(* that gets a page pulls it block by block from the controller of its     *)
(* host, which reads the blocks from its memory, and writes what arrives   *)
(* to its own.  The memory controllers of a GPU answer in any order.       *)
(***************************************************************************)
EXTENDS Naturals, Sequences, FiniteSets, Functions

CONSTANT
    Holder,     \* the devices with a controller
    PageBlock   \* the transfers of a page

ASSUME PMCAssumption == IsFiniteSet(PageBlock) /\ PageBlock # {}

VARIABLES
    request,    \* currentMigrationRequest
    unanswered, \* numDataRspPendingForPageMigration
    target,     \* reqIDToWriteAddressMap
    requester,  \* requestingPMCtrlPort
    pulls, reads, data, writes, \* messages under way
    arrived     \* of the page that is moved: the places written, with what

pmcVars == <<request, unanswered, target, requester, pulls, reads, data, writes, arrived>>

PMCInit ==
    /\ request = [d \in Holder |-> <<>>] /\ unanswered = [d \in Holder |-> 0]
    /\ target = [d \in Holder |-> <<>>] /\ requester = [d \in Holder |-> {}]
    /\ pulls = {} /\ reads = {} /\ data = {} /\ writes = {}
    /\ arrived = [d \in Holder |-> {}]

-------------------------------------------------------------------------------
\* processPageMigrationReqFromCtrlPort.  A request is [host, readFrom, writeTo]; a place is
\* a frame and a block, and the number of the block is the ID of its messages.
PullPage(d, m) ==
    /\ request[d] = <<>>
    /\ request' = [request EXCEPT ![d] = <<m>>]
    /\ unanswered' = [unanswered EXCEPT ![d] = Cardinality(PageBlock)]
    /\ target' = [target EXCEPT ![d] = [b \in PageBlock |-> <<m.writeTo, b>>]]
    /\ pulls' = pulls \cup {[id |-> b, by |-> d, at |-> m.host, place |-> <<m.readFrom, b>>] :
                            b \in PageBlock}
    /\ arrived' = [arrived EXCEPT ![d] = {}]
    /\ UNCHANGED <<requester, reads, data, writes>>

\* All answers go to whom the last request came from.
DataPullReq(d) ==
    /\ \E p \in pulls :
           /\ p.at = d
           /\ requester' = [requester EXCEPT ![d] = {p.by}]
           /\ reads' = reads \cup {[id |-> p.id, at |-> d, place |-> p.place]}
           /\ pulls' = pulls \ {p}
    /\ UNCHANGED <<request, unanswered, target, data, writes, arrived>>

DataReady(d) ==
    /\ \E r \in reads, to \in requester[d] :
           /\ r.at = d
           /\ data' = data \cup {[id |-> r.id, at |-> to, from |-> r.place]}
           /\ reads' = reads \ {r}
    /\ UNCHANGED <<request, unanswered, target, requester, pulls, writes, arrived>>

DataPullRsp(d) ==
    /\ \E r \in data :
           /\ r.at = d /\ r.id \in DOMAIN target[d]
           /\ writes' = writes \cup {[at |-> d, place |-> target[d][r.id], from |-> r.from]}
           /\ target' = [target EXCEPT ![d] = Restrict(@, DOMAIN @ \ {r.id})]
           /\ data' = data \ {r}
    /\ UNCHANGED <<request, unanswered, requester, pulls, reads, arrived>>

WriteBlock(d) ==
    \E w \in writes :
        /\ w.at = d
        /\ arrived' = [arrived EXCEPT ![d] = @ \cup {<<w.place, w.from>>}]
        /\ unanswered' = [unanswered EXCEPT ![d] = @ - 1]
        /\ writes' = writes \ {w}

\* processWriteDoneRspFromMemCtrl, for all blocks but the last.
WriteDone(d) ==
    /\ unanswered[d] > 1 /\ WriteBlock(d)
    /\ UNCHANGED <<request, target, requester, pulls, reads, data>>

\* The last block completes the move.
MoveDone(d) ==
    /\ unanswered[d] = 1 /\ WriteBlock(d)
    /\ request' = [request EXCEPT ![d] = <<>>]
    /\ UNCHANGED <<target, requester, pulls, reads, data>>

-------------------------------------------------------------------------------
\* The blocks that have arrived are in their places, and a page is complete when the last
\* of its blocks is there.
ArrivesWhole ==
    \A d \in Holder : request[d] # <<>> =>
        LET m == request[d][1] IN
        /\ arrived[d] \subseteq {<< <<m.writeTo, b>>, <<m.readFrom, b>> >> : b \in PageBlock}
        /\ unanswered[d] = Cardinality(PageBlock) - Cardinality(arrived[d])
===============================================================================
