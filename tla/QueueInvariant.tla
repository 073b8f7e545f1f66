--------------------------- MODULE QueueInvariant ---------------------------
(***************************************************************************)
(* Why QueueService is right: an inductive invariant.  A session that holds *)
(* the queue's row is the only one that may issue or call a token, so what  *)
(* it read about the numbers, the open queue and the waiting tokens holds   *)
(* until it commits; a session that holds a token's row is the only one     *)
(* that may change that token.  TLC checks it on small instances, and       *)
(* QueueServiceProofs proves it for all.                                    *)
(***************************************************************************)
EXTENDS QueueService

StepsOf(op) ==
    CASE op = "join" -> {"lockQueue", "checkActive", "number", "insert", "commit"}
      [] op = "call" -> {"lockQueue", "select", "scan", "commit"}
      [] op \in TokenOps -> {"lockToken", "commit"}

HoldsQueue(s) ==
    \/ pc[s] \in {"checkActive", "number", "insert", "select", "scan"}
    \/ pc[s] = "commit" /\ req[s].op \in QueueOps

\* At most one session holds the queue's row, and at most one a token's row.
LocksInv ==
    /\ \A s \in Sessions : HoldsQueue(s) <=> queueLock = s
    /\ \A s, o \in Sessions : s # o /\ rowLock[s] = rowLock[o] => rowLock[s] = 0

\* What the locals of a session are at each step.
LocalsInv(s) ==
    /\ pc[s] \in AttemptSteps => req[s] \in Requests /\ pc[s] \in StepsOf(req[s].op)
    /\ pc[s] \notin {"insert", "commit"} => write[s] = NoWrite
    /\ pc[s] # "commit" => rowLock[s] = 0
    /\ pc[s] # "done" => out[s] = "none"
    /\ pc[s] = "refresh" => commits[s] = 1
    /\ pc[s] \notin {"refresh", "done"} => commits[s] = 0
    /\ pc[s] = "done" =>
        /\ commits[s] \in {0, 1}
        /\ out[s] = "ok" => commits[s] = 1
        /\ out[s] \notin {"ok", "DBAPIError"} => commits[s] = 0
        /\ out[s] # "UniqueViolation"

Joining(s) == pc[s] \in AttemptSteps /\ req[s].op = "join"
Calling(s) == pc[s] \in AttemptSteps /\ req[s].op = "call"
Moving(s)  == pc[s] \in AttemptSteps /\ req[s].op \in TokenOps

\* A join past the lock: the queue is open still, the numbers are the next ones, and
\* at the commit the farmer has no other place.
JoinInv(s) ==
    Joining(s) =>
        /\ pc[s] # "lockQueue" => open
        /\ pc[s] \in {"insert", "commit"} =>
            /\ req[s].farmer \in Farmers
            /\ write[s] = [id |-> 0, row |-> NewRow(req[s].farmer, Len(tokens) + 1, Len(tokens) + 1)]
            /\ rowLock[s] = 0
        /\ pc[s] = "commit" => ~ HasActiveToken(req[s].farmer)

\* A call: no waiting token has been passed over, and the one taken is the first.
CallInv(s) ==
    Calling(s) =>
        /\ pc[s] # "lockQueue" => req[s].counter \in Counters \union {NoCounter}
        /\ pc[s] = "scan" =>
            /\ snap[s] \subseteq DOMAIN tokens
            /\ \A i \in DOMAIN tokens : IsWaiting(tokens[i]) => i \in snap[s]
        /\ pc[s] = "commit" =>
            LET i == rowLock[s]
            IN  /\ i \in DOMAIN tokens
                /\ IsWaiting(tokens[i])
                /\ \A j \in 1 .. i - 1 : ~ IsWaiting(tokens[j])
                /\ write[s] = [id |-> i, row |-> CalledRow(tokens[i], req[s].counter, clock)]

\* A token operation at its commit: the token is as it was when it was locked.
MoveInv(s) ==
    Moving(s) /\ pc[s] = "commit" =>
        LET i == rowLock[s]
        IN  /\ i \in DOMAIN tokens
            /\ tokens[i].status = FromStatus(req[s].op)
            /\ write[s] = [id |-> i, row |-> MovedRow(tokens[i], ToStatus(req[s].op))]

\* The committed table.
TableInv ==
    /\ NumbersDense
    /\ OneActiveTokenPerFarmer
    /\ \A i \in DOMAIN tokens :
        /\ tokens[i].called < clock
        /\ IsWaiting(tokens[i]) => tokens[i].called = 0
    /\ \A i, j \in DOMAIN tokens :
        i < j /\ tokens[j].called # 0 =>
            /\ ~ IsWaiting(tokens[i])
            /\ tokens[i].called < tokens[j].called

\* The inductive invariant: what each session has read under its locks holds until it
\* lets them go, so its write is right when it becomes visible.
Inv ==
    /\ TypeOK
    /\ LocksInv
    /\ TableInv
    /\ \A s \in Sessions : LocalsInv(s) /\ JoinInv(s) /\ CallInv(s) /\ MoveInv(s)
=============================================================================
