-------------------------------- MODULE MCGpu --------------------------------
\* Small GPUs and small programs for TLC.
EXTENDS GpuSystem

CONSTANT Scenarios

I(op) == [op |-> op, n |-> 1, to |-> 1, lgkm |-> 0, vm |-> 0, page |-> 0, write |-> FALSE]
Read(p) == [I("vmem") EXCEPT !.page = p]
Write(p) == [Read(p) EXCEPT !.write = TRUE]
Forward(pc) == [I("branch") EXCEPT !.to = pc]
Size(wgs, waves, sgpr, vgpr, lds, code) ==
    [code |-> code, wgs |-> wgs, waves |-> waves, sgpr |-> sgpr, vgpr |-> vgpr, lds |-> lds]

MCNumCU == <<2, 1>>
MCOneCU == <<1, 1>>
\* Page 1 is on GPU 2 and unified, page 2 on GPU 2 and not.
MCHomeOf == [p \in Page |-> 2]
\* For pages that cross, page 2 is on GPU 1.
MCCrossHomes == [p \in Page |-> 3 - p]

MCKernel ==
    [ write |-> Size(1, 1, 1, 1, 0, <<Write(1), I("end")>>),
      both  |-> Size(2, 1, 1, 1, 0, <<Write(1), I("end")>>),
      far   |-> Size(1, 1, 1, 1, 0, <<Read(1), I("end")>>),
      near  |-> Size(1, 1, 1, 1, 0, <<Read(2), I("end")>>),
      reach |-> Size(1, 1, 1, 1, 0, <<Write(2), Read(1), I("end")>>),
      sync  |-> Size(1, 2, 1, 1, 1, <<I("barrier"), I("end")>>),
      jump  |-> Size(1, 1, 1, 1, 1,
                     <<Forward(3), I("smem"), I("end")>>),
      units |-> Size(1, 1, 1, 1, 1, <<Forward(4), I("valu"), I("lds"), I("smem"), I("wait"), I("end")>>),
      trio  |-> Size(3, 1, 2, 1, 1, <<I("end")>>),
      wide  |-> Size(1, 2, 1, 2, 0, <<I("end")>>),
      crowd |-> Size(2, 2, 1, 1, 0, <<I("barrier"), I("valu"), I("end")>>) ]

Launch(g, k) == [type |-> "launch", gpu |-> g, kernel |-> k]
Unify(gs, k) == [type |-> "unified", gpus |-> gs, kernel |-> k]
Copy(type, pages) == [type |-> type, pages |-> pages]
Nothing == [type |-> "noop"]

MCPrograms ==
    UNION {
      [ copies |-> {<< <<Copy("h2d", <<1>>), Launch(2, "units"), Launch(2, "write"), Copy("d2h", <<1>>)>> >>},
        share  |-> {<< <<Launch(2, "write"), Unify(<<2, 1>>, "both")>> >>},
        move   |-> {<< <<Launch(2, "sync")>>, <<Launch(1, "far")>> >>},
        drain  |-> {<< <<Launch(1, "reach")>> >>},
        jump   |-> {<< <<Launch(2, "jump")>>, <<Launch(1, "far")>> >>},
        fit    |-> {<< <<Launch(1, "trio")>>, <<Nothing, Launch(1, "wide")>> >>},
        crowd  |-> {<< <<Launch(1, "crowd")>> >>},
        cross  |-> {<< <<Launch(1, "far")>>, <<Launch(2, "near")>> >>}
      ][s] : s \in Scenarios }

\* The algorithms differ only for a GPU with more than one compute unit that is short of room.
MCInit == Init /\ (algorithm = "round-robin" \/ \E q \in DOMAIN queues : Nothing \in Range(queues[q].cmds))
\* To keep the state space small, in a program of two queues the wavefronts that a migration
\* has stopped and the access that asked for the page go on when the migration has ended.
Stands(c) ==
    /\ shadow'[c] = shadow[c]
    /\ \A w \in On(c) : w \in DOMAIN wave' /\ wave'[w] = wave[w]
MCNext ==
    /\ Next
    /\ Len(queues) = 2 /\ driver.restart + driver.rdmaRestart > 0
           => Stands(<<2, 1>>) /\ UNCHANGED mmuRsp
MCSpec == MCInit /\ [][MCNext]_vars
===============================================================================
