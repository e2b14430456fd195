-------------------------------- MODULE MCL1 --------------------------------
(* Instances of L1System for TLC. *)
EXTENDS L1System

R(op, l, ws, last) == [op |-> op, line |-> l, words |-> ws, last |-> last]

\* Line 1 is read and written, line 2 is remote and read.
Read(l, ws, last)  == R("read", l, ws, last)
Write1(ws, last)   == R("write", 1, ws, last)
All == {1, 2}

\* Two writes and two reads, the writes perhaps in one transaction; or an instruction
\* that reads line 1, line 2 and line 1 again.
First    == {Read(1, All, TRUE), Write1(All, TRUE)}
Requests ==
    {<<a, b, c, Read(1, All, TRUE)>> : a \in First, c \in {Write1({2}, TRUE), Write1(All, TRUE)},
         b \in {Read(2, {1}, TRUE), Write1({1}, TRUE), Write1({1}, FALSE)}}
    \cup {<<a, Read(1, {2}, FALSE), Read(2, {1}, FALSE), Read(1, All, TRUE)>> : a \in First}
Flushes  == [t \in 0 .. MaxReq |-> CASE t = 2 -> {"shootdown"} [] t = 3 -> {"kernel"}
                                     [] OTHER -> {}]

\* The pipeline of the directory moves whenever it can.
Moves == DirAccept \/ DirPipeline
CanMove == ~ isPaused /\ \/ dirBuf # <<>> /\ \E l \in Lane : pipe[l] = 0
                         \/ Len(dirQ) < BufCap /\ \E l \in Lane : pipe[l] # 0

MCNext ==
    /\ Next
    /\ CanMove /\ toCoalesce = <<>> => /\ dirVars' # dirVars /\ topPort' = topPort
                                      /\ currFlush' = currFlush
                                      /\ blocks' = blocks /\ toBottom' = toBottom
MCSpec == Init /\ [][MCNext]_vars /\ WF_vars(Sure /\ MCNext)
===============================================================================
