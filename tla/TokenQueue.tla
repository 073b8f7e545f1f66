----------------------------- MODULE TokenQueue -----------------------------
(***************************************************************************)
(* What the queue service promises: every operation on a procurement queue  *)
(* is one atomic step on a line of tokens.  Nothing here knows of           *)
(* transactions, locks, retries or numbers; QueueService implements it.     *)
(***************************************************************************)
EXTENDS TokenTable

VARIABLES
    open,   \* BOOLEAN: queues.status = OPEN (PAUSED and CLOSED are alike)
    line,   \* the tokens in the order in which they were issued
    clock   \* the tick of the next call

vars == <<open, line, clock>>

Init ==
    /\ open \in BOOLEAN
    /\ line = << >>
    /\ clock = 1

\* Join an open queue, at its end, with no other place in it.
Join(farmer) ==
    /\ open
    /\ \A i \in DOMAIN line : IsActive(line[i]) => line[i].farmer # farmer
    /\ line' = Append(line, NewRow(farmer, Len(line) + 1, Len(line) + 1))
    /\ UNCHANGED <<open, clock>>

\* Call the farmer who has waited longest.
CallNext(i, counter) ==
    /\ IsWaiting(line[i])
    /\ \A j \in 1 .. i - 1 : ~ IsWaiting(line[j])
    /\ line' = [line EXCEPT ![i] = CalledRow(@, counter, clock)]
    /\ clock' = clock + 1
    /\ UNCHANGED open

\* Take a called token in hand, finish it, or withdraw a waiting one.
Move(i, op) ==
    /\ line[i].status = FromStatus(op)
    /\ line' = [line EXCEPT ![i] = MovedRow(@, ToStatus(op))]
    /\ UNCHANGED <<open, clock>>

SetOpen ==
    /\ open' \in BOOLEAN
    /\ UNCHANGED <<line, clock>>

Next ==
    \/ \E f \in Farmers : Join(f)
    \/ \E i \in DOMAIN line, c \in Counters \union {NoCounter} : CallNext(i, c)
    \/ \E i \in DOMAIN line, op \in TokenOps : Move(i, op)
    \/ SetOpen

Spec == Init /\ [][Next]_vars
=============================================================================
