--------------------------- MODULE PageTranslation ---------------------------
(***************************************************************************)
(* Virtual memory: a TLB per GPU (the levels of the hierarchy act as one), *)
(* the page table, and the MMU with its page walks and its queue of        *)
(* migrations.  A page whose user is not the GPU that holds it migrates    *)
(* once, on demand, with the help of the driver; then it is pinned.        *)
(***************************************************************************)
EXTENDS Naturals, Sequences, SequencesExt, FiniteSets, Functions

CONSTANTS
    Device,                 \* the GPUs
    Page,
    Unified,                \* the pages of unified memory; the others never move
    HomeOf,                 \* the GPU on which a page is allocated
    TLBSize,
    MigrationQueueSize

ASSUME TranslationAssumption ==
    /\ Unified \subseteq Page /\ HomeOf \in [Page -> Device]
    /\ {TLBSize, MigrationQueueSize} \subseteq Nat \ {0}

VARIABLES
    table,          \* the page table: the frame of a page, IsMigrating and IsPinned
    tlb, mshr,      \* of each GPU: the entries, and the pages that are being fetched
    tlbPaused,
    tlbIn,          \* translations that have reached the TLB's bottom port
    walking,        \* walkingTranslations
    migrationQueue, \* requests with the copy of the page that the walk found
    migration,      \* currentOnDemandMigration while isDoingMigration
    accessedBy,     \* PageAccessedByDeviceID
    mmuReq, mmuRsp  \* between the MMU and the driver

tlbVars == <<tlb, mshr, tlbPaused, tlbIn>>
mmuVars == <<walking, migrationQueue, migration, accessedBy>>
translationVars == <<table, tlbVars, mmuVars, mmuReq, mmuRsp>>

\* A frame is the n-th place of a page, on a GPU.
DeviceOf(frame) == frame[1]

TranslationInit ==
    /\ table = [p \in Page |->
           [frame |-> <<HomeOf[p], p, 0>>, migrating |-> FALSE, pinned |-> FALSE]]
    /\ tlb = [g \in Device |-> <<>>] /\ mshr = [g \in Device |-> {}]
    /\ tlbPaused = [g \in Device |-> FALSE] /\ tlbIn = [g \in Device |-> <<>>]
    /\ walking = <<>> /\ migrationQueue = <<>> /\ migration = <<>>
    /\ accessedBy = [p \in Page |-> {}]
    /\ mmuReq = <<>> /\ mmuRsp = <<>>

-------------------------------------------------------------------------------
(* TLB *)

\* handleTranslationMiss: further requests for the page join the MSHR entry.
TLBMiss(g, p) ==
    /\ ~ tlbPaused[g] /\ p \notin DOMAIN tlb[g] /\ p \notin mshr[g]
    /\ mshr' = [mshr EXCEPT ![g] = @ \cup {p}]
    /\ walking' = Append(walking, [device |-> g, page |-> p])
    /\ UNCHANGED <<table, tlb, tlbPaused, tlbIn, migrationQueue, migration, accessedBy,
                   mmuReq, mmuRsp>>

\* parseBottom: a translation for which no entry waits is dropped.
TLBFill(g) ==
    /\ ~ tlbPaused[g] /\ tlbIn[g] # <<>>
    /\ LET rsp == Head(tlbIn[g]) IN
       IF rsp.page \in mshr[g]
       THEN /\ mshr' = [mshr EXCEPT ![g] = @ \ {rsp.page}]
            /\ \E kept \in SUBSET (DOMAIN tlb[g] \ {rsp.page}) :
                   /\ Cardinality(kept) + 1 <= TLBSize
                   /\ \/ kept = DOMAIN tlb[g] \ {rsp.page}
                      \/ Cardinality(kept) + 1 = TLBSize
                   /\ tlb' = [tlb EXCEPT ![g] =
                          (rsp.page :> rsp.frame) @@ Restrict(@, kept)]
       ELSE UNCHANGED <<mshr, tlb>>
    /\ tlbIn' = [tlbIn EXCEPT ![g] = Tail(@)]
    /\ UNCHANGED <<table, tlbPaused, mmuVars, mmuReq, mmuRsp>>

\* Mutant: the entries of the pages stay.
TLBFlushMSHR(g, pages) ==
    /\ mshr' = [mshr EXCEPT ![g] = {}]
    /\ tlbPaused' = [tlbPaused EXCEPT ![g] = TRUE]
    /\ UNCHANGED <<tlb, tlbIn>>

TLBFlush(g, pages) ==
    /\ tlb' = [tlb EXCEPT ![g] = Restrict(@, DOMAIN @ \ pages)]
    /\ mshr' = [mshr EXCEPT ![g] = {}]
    /\ tlbPaused' = [tlbPaused EXCEPT ![g] = TRUE]
    /\ UNCHANGED tlbIn

\* What has arrived at the ports meanwhile is thrown away.
TLBRestart(g) ==
    /\ tlbPaused' = [tlbPaused EXCEPT ![g] = FALSE]
    /\ tlbIn' = [tlbIn EXCEPT ![g] = <<>>]
    /\ UNCHANGED <<tlb, mshr>>

-------------------------------------------------------------------------------
(* MMU *)

Respond(g, p, frame) == tlbIn' = [tlbIn EXCEPT ![g] = Append(@, [page |-> p, frame |-> frame])]

NeedsMigration(r) ==
    DeviceOf(table[r.page].frame) # r.device /\ r.page \in Unified /\ ~ table[r.page].pinned

\* finalizePageWalk, for the walks that have run out of latency.  A walk takes more than a
\* hundred cycles and the driver's response one: no walk that began after the response was
\* sent, on behalf of a GPU that was restarted then, ends before it is processed.
Walk(i) ==
    LET r == walking[i]
        entry == table[r.page] IN
    /\ mmuRsp = <<>>
    /\ walking' = RemoveAt(walking, i)
    /\ IF entry.migrating \/ NeedsMigration(r)
       THEN /\ Len(migrationQueue) < MigrationQueueSize
            /\ migrationQueue' = Append(migrationQueue, [req |-> r, copy |-> entry])
            /\ table' = [table EXCEPT ![r.page].migrating = TRUE]
            /\ UNCHANGED tlbIn
       ELSE /\ Respond(r.device, r.page, entry.frame)
            /\ UNCHANGED <<migrationQueue, table>>
    /\ UNCHANGED <<tlb, mshr, tlbPaused, migration, accessedBy, mmuReq, mmuRsp>>

\* markPageAsNotMigratingIfNotInTheMigrationQueue compares physical addresses.
Queued(frame, queue) == \E i \in DOMAIN queue : queue[i].copy.frame = frame

\* sendMigrationToDriver goes by the copy of the page that is in the queue, and writes it
\* back to the page table.
AnswerQueued ==
    /\ migrationQueue # <<>>
    /\ LET head == Head(migrationQueue)
           r == head.req
           rest == Tail(migrationQueue) IN
       /\ DeviceOf(head.copy.frame) = r.device \/ head.copy.pinned
       /\ Respond(r.device, r.page, head.copy.frame)
       /\ table' = IF Queued(head.copy.frame, rest) THEN table
                   ELSE [table EXCEPT ![r.page] = [head.copy EXCEPT !.migrating = FALSE]]
       /\ migrationQueue' = rest
    /\ UNCHANGED <<tlb, mshr, tlbPaused, walking, migration, accessedBy, mmuReq, mmuRsp>>

RequestMigration ==
    /\ migrationQueue # <<>> /\ migration = <<>>
    /\ LET head == Head(migrationQueue)
           r == head.req
           host == DeviceOf(head.copy.frame) IN
       /\ host # r.device /\ ~ head.copy.pinned
       /\ accessedBy' = [accessedBy EXCEPT ![r.page] = @ \cup {host}]
       /\ mmuReq' = Append(mmuReq, [page |-> r.page, to |-> r.device, host |-> host,
                                    accessing |-> accessedBy'[r.page]])
       /\ table' = [table EXCEPT ![r.page] = [head.copy EXCEPT !.migrating = TRUE]]
       /\ migration' = <<r>>
    /\ migrationQueue' = Tail(migrationQueue)
    /\ UNCHANGED <<tlbVars, walking, mmuRsp>>

\* processMigrationReturn
MigrationReturn ==
    /\ mmuRsp # <<>>
    /\ LET r == migration[1]
           entry == table[r.page] IN
       /\ Respond(r.device, r.page, entry.frame)
       /\ table' = [table EXCEPT ![r.page] =
              [entry EXCEPT !.migrating = @ /\ Queued(entry.frame, migrationQueue),
                            !.pinned = TRUE]]
    /\ migration' = <<>>
    /\ mmuRsp' = Tail(mmuRsp)
    /\ UNCHANGED <<tlb, mshr, tlbPaused, walking, migrationQueue, accessedBy, mmuReq>>

-------------------------------------------------------------------------------
\* No GPU uses a translation that the page table has replaced, unless the page is moving:
\* the TLBs of the GPUs that could hold it have been shot down.
TranslationsCurrent ==
    \A g \in Device : \A p \in DOMAIN tlb[g] :
        table[p].migrating \/ tlb[g][p] = table[p].frame

\* A queued request whose page has arrived on its GPU is answered, not migrated again.
NoNeedlessMigration ==
    [][\A p \in Page :
        (mmuReq' # mmuReq /\ Len(mmuReq') > Len(mmuReq) /\ Last(mmuReq').page = p)
            => DeviceOf(table[p].frame) # Last(mmuReq').to]_translationVars
===============================================================================
