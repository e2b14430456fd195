------------------------------ MODULE WordMemory ------------------------------
(***************************************************************************)
(* What a memory promises to a requester that never has two requests for   *)
(* one word under way, one of them a write: a read returns what was        *)
(* written last, and every request is answered.                            *)
(***************************************************************************)
EXTENDS Naturals

CONSTANTS NumLine, Word, MaxReq

VARIABLES
    value,      \* value[l][x]: the request that wrote word x of line l last, or 0
    request,    \* request[t]: [op, line, words]
    waiting,    \* requests that have no answer yet
    result      \* result[t]: the words that read t returned

vars == <<value, request, waiting, result>>

Init ==
    /\ value = [l \in 1 .. NumLine |-> [x \in Word |-> 0]]
    /\ request = [t \in 1 .. MaxReq |-> [op |-> "none", line |-> 0, words |-> {}]]
    /\ waiting = {} /\ result = [t \in 1 .. MaxReq |-> <<>>]

Issue(t, op, l, words) ==
    /\ request[t].op = "none"
    /\ request' = [request EXCEPT ![t] = [op |-> op, line |-> l, words |-> words]]
    /\ waiting' = waiting \cup {t}
    /\ value' = IF op = "read" THEN value
                ELSE [value EXCEPT ![l] = [x \in Word |-> IF x \in words THEN t ELSE @[x]]]
    /\ UNCHANGED result

Answer(t) ==
    /\ t \in waiting
    /\ waiting' = waiting \ {t}
    /\ result' = [result EXCEPT ![t] = IF request[t].op = "write" THEN <<>>
                      ELSE [x \in request[t].words |-> value[request[t].line][x]]]
    /\ UNCHANGED <<value, request>>

\* The requester gives up the reads that it waits for.
GiveUp ==
    /\ \A t \in waiting : request[t].op = "read"
    /\ waiting' = {}
    /\ UNCHANGED <<value, request, result>>

Next == GiveUp \/ \E t \in 1 .. MaxReq :
    \/ Answer(t)
    \/ \E op \in {"read", "write"}, l \in 1 .. NumLine, words \in SUBSET Word \ {{}} :
           Issue(t, op, l, words)

Spec == Init /\ [][Next]_vars /\ \A t \in 1 .. MaxReq : WF_vars(Answer(t))
===============================================================================
