---------------------------- MODULE QueueService ----------------------------
(***************************************************************************)
(* QueueService (app/services/queue.py) with its repositories, its retry    *)
(* wrapper and the constraints of its tables, as concurrent requests on one *)
(* queue.  A session serves one request at a time in one READ COMMITTED     *)
(* transaction per attempt: each SQL statement is a step that reads what is *)
(* committed when it runs, row locks are held to the end of the             *)
(* transaction, and other sessions see a write only once it commits.        *)
(***************************************************************************)
EXTENDS TokenTable, FiniteSetsExt

CONSTANTS
    Sessions,       \* request-scoped database sessions
    Officers,       \* users of role OFFICER
    LocalOfficers,  \* ... those whose centre_id is the centre of the queue
    LocalCounters,  \* the counters of that centre
    UnknownCounters, \* ids that are no counter's
    UnknownFarmers, \* ids that are no farmer's
    NoFarmer,       \* a join request without farmer_id
    Unlinked,       \* users of role FARMER with no farmer record
    Free,           \* the holder of a lock nobody holds
    NoRow, NoRequest,
    MaxAttempts,    \* max_attempts of run_with_retry
    MaxTokens,      \* bound: how many tokens are ever issued
    Operations      \* bound: the operations the clients of an instance call

VARIABLES
    open, tokens, clock,  \* committed: queues.status = OPEN, the rows, the clock
    queueLock,            \* the session that holds the queue's row FOR UPDATE
    pc, req, attempt,     \* per session: next step, request, attempt of the retry loop
    rowLock,              \* ... the token row it holds FOR UPDATE, 0 for none
    write,                \* ... its uncommitted row, flushed or about to be
    snap,                 \* ... the rows its ORDER BY ... LIMIT 1 scan has yet to visit
    out,                  \* ... how the request ended: "ok" or the error raised
    commits               \* ... history: transactions committed for the request

db      == <<open, tokens, clock>>
session == <<pc, req, attempt, rowLock, write, snap, out, commits>>
vars    == <<db, queueLock, session>>

-----------------------------------------------------------------------------
(* Requests                                                                *)

Actors == Farmers \union Officers \union Unlinked
FarmerArguments == Farmers \union UnknownFarmers \union {NoFarmer}
CounterArguments == Counters \union UnknownCounters \union {NoCounter}
QueueOps == {"join", "call"}

Requests ==
    [op: QueueOps \union TokenOps, actor: Actors,
     farmer: FarmerArguments,
     token: Nat, counter: CounterArguments]

Request(op, actor) ==
    [op |-> op, actor |-> actor, farmer |-> NoFarmer, token |-> 0, counter |-> NoCounter]

ASSUME SessionsAssumption == Free \notin Sessions
ASSUME UsersAssumption ==
    /\ LocalOfficers \subseteq Officers
    /\ Officers \intersect (Farmers \union Unlinked) = {}
    /\ Farmers \intersect (Unlinked \union UnknownFarmers \union {NoFarmer}) = {}
ASSUME CounterIdsAssumption ==
    /\ LocalCounters \subseteq Counters
    /\ UnknownCounters \intersect (Counters \union {NoCounter}) = {}
ASSUME BoundsAssumption == MaxAttempts \in Nat \ {0} /\ MaxTokens \in Nat
ASSUME NullsAssumption == NoRow \notin Rows /\ NoRequest \notin Requests

\* The uncommitted row: of the token `id`, or of a new one when id is 0.
NoWrite == [id |-> 0, row |-> NoRow]

\* Errors by class; the last four are not AppErrors and end as HTTP 500.
Outcomes ==
    {"none", "ok", "PermissionDenied", "Validation", "NotFound", "Conflict",
     "ServiceUnavailable", "AttributeError", "UniqueViolation", "ForeignKeyViolation",
     "DBAPIError"}

FirstStep(op) == IF op \in QueueOps THEN "lockQueue" ELSE "lockToken"

\* The steps of an attempt, up to its commit; then those of a request.
AttemptSteps ==
    {"lockQueue", "checkActive", "number", "insert", "select", "scan", "lockToken", "commit"}
Steps == AttemptSteps \union {"idle", "refresh", "done"}

JoinsInFlight == {s \in Sessions : pc[s] \in AttemptSteps /\ req[s].op = "join"}

-----------------------------------------------------------------------------
(* Transactions and run_with_retry                                         *)

Goto(s, step) == pc' = [pc EXCEPT ![s] = step]

\* The request is over, and only its answer is left of it.
Answer(s, outcome) ==
    /\ Goto(s, "done")
    /\ out' = [out EXCEPT ![s] = outcome]
    /\ req' = [req EXCEPT ![s] = NoRequest]
    /\ attempt' = [attempt EXCEPT ![s] = 0]

\* Mutant: a transaction whose end leaves the row of the queue locked.
ReleaseRowOnly(s) ==
    /\ queueLock' = queueLock
    /\ rowLock' = [rowLock EXCEPT ![s] = 0]

\* The end of a transaction, either way, gives back every lock it took.
ReleaseLocks(s) ==
    /\ queueLock' = IF queueLock = s THEN Free ELSE queueLock
    /\ rowLock' = [rowLock EXCEPT ![s] = 0]

EndTransaction(s) ==
    /\ ReleaseLocks(s)
    /\ write' = [write EXCEPT ![s] = NoWrite]
    /\ snap' = [snap EXCEPT ![s] = {}]

\* A non-transient error: roll back and raise.
Fail(s, outcome) ==
    /\ EndTransaction(s)
    /\ Answer(s, outcome)
    /\ UNCHANGED <<db, commits>>

\* Mutant: the queue is read without FOR UPDATE.
QueueNotLocked(s) == TRUE

QueueIsFree(s) == queueLock = Free

\* No other session holds the row FOR UPDATE.
RowIsFree(s, i) == \A o \in Sessions \ {s} : rowLock[o] # i

-----------------------------------------------------------------------------
(* A client calls an operation: the checks made before the retry loop      *)

\* resolve_target_farmer_id: the farmer a join is for ...
TargetFarmer(actor, requested) == IF actor \in Farmers THEN actor ELSE requested

\* ... and whether the user may join for that farmer.
MayJoin(actor, requested) ==
    \/ actor \in Farmers /\ requested \in {NoFarmer, actor}
    \/ actor \in Officers /\ requested # NoFarmer

Begin(s, request) ==
    /\ req' = [req EXCEPT ![s] = request]
    /\ attempt' = [attempt EXCEPT ![s] = 1]
    /\ Goto(s, FirstStep(request.op))
    /\ UNCHANGED <<db, queueLock, rowLock, write, snap, out, commits>>

Refuse(s, outcome) ==
    /\ Answer(s, outcome)
    /\ UNCHANGED <<db, queueLock, rowLock, write, snap, commits>>

SubmitJoin(s, actor, requested) ==
    LET request == [Request("join", actor) EXCEPT !.farmer = TargetFarmer(actor, requested)]
    IN  /\ "join" \in Operations
        /\ pc[s] = "idle"
        /\ Len(tokens) + Cardinality(JoinsInFlight) < MaxTokens
        /\ IF MayJoin(actor, requested)
           THEN Begin(s, request)
           ELSE Refuse(s, IF actor \in Officers THEN "Validation" ELSE "PermissionDenied")

SubmitCall(s, actor, counter) ==
    LET request == [Request("call", actor) EXCEPT !.counter = counter]
    IN  /\ "call" \in Operations
        /\ pc[s] = "idle"
        /\ IF actor \in Officers
           THEN Begin(s, request)
           ELSE Refuse(s, "PermissionDenied")

\* Token 0 stands for an id that no row has.
SubmitTokenOp(s, op, actor, token) ==
    LET request == [Request(op, actor) EXCEPT !.token = token]
    IN  /\ op \in Operations
        /\ pc[s] = "idle"
        /\ IF actor \in Officers \/ op = "cancel"
           THEN Begin(s, request)
           ELSE Refuse(s, "PermissionDenied")

Submit(s) ==
    \E actor \in Actors :
        \/ \E f \in FarmerArguments : SubmitJoin(s, actor, f)
        \/ \E c \in CounterArguments : SubmitCall(s, actor, c)
        \/ \E op \in TokenOps, i \in 0 .. Len(tokens) : SubmitTokenOp(s, op, actor, i)

-----------------------------------------------------------------------------
(* join_queue and call_next take the row of the queue first                *)

\* Mutant: the centre of the officer is not looked at.
AnyOfficer(actor) == FALSE

\* _verify_officer_centre, for the officers it is asked about.
OutsideCentre(actor) == actor \in Officers \ LocalOfficers

\* The checks between the lock and the next statement, in the order of the code.
QueueVerdict(r) ==
    IF OutsideCentre(r.actor) THEN "PermissionDenied"
    ELSE IF r.op = "join" THEN IF open THEN "ok" ELSE "Conflict"
    ELSE IF r.counter \in UnknownCounters THEN "NotFound"
    ELSE IF r.counter \in Counters \ LocalCounters THEN "PermissionDenied"
    ELSE "ok"

LockQueue(s) ==
    /\ pc[s] = "lockQueue"
    /\ QueueIsFree(s)
    /\ IF QueueVerdict(req[s]) = "ok"
       THEN /\ queueLock' = s
            /\ Goto(s, IF req[s].op = "join" THEN "checkActive" ELSE "select")
            /\ UNCHANGED <<db, req, attempt, rowLock, write, snap, out, commits>>
       ELSE Fail(s, QueueVerdict(req[s]))

-----------------------------------------------------------------------------
(* join_queue                                                              *)

\* Mutant: the farmer who was called is no longer looked at, nor covered by the index.
HasWaitingToken(farmer) ==
    \E i \in DOMAIN tokens : tokens[i].farmer = farmer /\ IsWaiting(tokens[i])

HasActiveToken(farmer) ==
    \E i \in DOMAIN tokens : tokens[i].farmer = farmer /\ IsActive(tokens[i])

CheckActive(s) ==
    /\ pc[s] = "checkActive"
    /\ IF HasActiveToken(req[s].farmer)
       THEN Fail(s, "Conflict")
       ELSE /\ Goto(s, "number")
            /\ UNCHANGED <<db, queueLock, req, attempt, rowLock, write, snap, out, commits>>

\* Mutant: coalesce(max(n), 1) + 1
NextNumberFromTwo(used) == Max(used \union {1}) + 1

\* coalesce(max(n), 0) + 1
NextNumber(used) == Max(used \union {0}) + 1

\* get_next_sequence_and_position.  The foreign key of queue_entries refuses an
\* unknown farmer at the flush that follows, outside any handler.
TakeNumbers(s) ==
    /\ pc[s] = "number"
    /\ IF req[s].farmer \in Farmers
       THEN /\ write' = [write EXCEPT ![s].row =
                NewRow(req[s].farmer,
                       NextNumber({tokens[i].seq : i \in DOMAIN tokens}),
                       NextNumber({tokens[i].pos : i \in DOMAIN tokens}))]
            /\ Goto(s, "insert")
            /\ UNCHANGED <<db, queueLock, req, attempt, rowLock, snap, out, commits>>
       ELSE Fail(s, "ForeignKeyViolation")

\* A unique index makes an insert wait for the transaction that inserted an equal key.
Clash(r1, r2) == r1.pos = r2.pos \/ r1.seq = r2.seq \/ r1.farmer = r2.farmer
InsertMayProceed(s) ==
    \A o \in Sessions \ {s} :
        pc[o] = "commit" /\ write[o].id = 0 => ~ Clash(write[o].row, write[s].row)

\* create_entry_and_token: uq_queue_entries_queue_position fails outside the handler,
\* uq_tokens_queue_sequence and uq_active_farmer_token inside it.
InsertRows(s) ==
    LET row == write[s].row
    IN  /\ pc[s] = "insert"
        /\ InsertMayProceed(s)
        /\ IF \E i \in DOMAIN tokens : tokens[i].pos = row.pos
           THEN Fail(s, "UniqueViolation")
           ELSE IF HasActiveToken(row.farmer) \/ \E i \in DOMAIN tokens : tokens[i].seq = row.seq
           THEN Fail(s, "Conflict")
           ELSE /\ Goto(s, "commit")
                /\ UNCHANGED <<db, queueLock, req, attempt, rowLock, write, snap, out, commits>>

-----------------------------------------------------------------------------
(* call_next                                                               *)

\* get_next_waiting_token_for_update reads its snapshot ...
SelectWaiting(s) ==
    /\ pc[s] = "select"
    /\ snap' = [snap EXCEPT ![s] = {i \in DOMAIN tokens : IsWaiting(tokens[i])}]
    /\ Goto(s, "scan")
    /\ UNCHANGED <<db, queueLock, req, attempt, rowLock, write, out, commits>>

\* Mutant: ORDER BY sequence_number DESC.
Latest(s) == CHOOSE i \in snap[s] : \A j \in snap[s] : tokens[i].seq >= tokens[j].seq

\* ... and goes through it by sequence_number.
Earliest(s) == CHOOSE i \in snap[s] : \A j \in snap[s] : tokens[i].seq <= tokens[j].seq

\* Mutant: the row is taken as the snapshot showed it.
WaitedInSnapshot(row) == TRUE

\* FOR UPDATE waits for the holder of the row, then tests the row's latest version
\* again: a row that no longer waits is passed over.
StillWaiting(row) == IsWaiting(row)

\* Mutant: LIMIT 1 ends the scan with the row that was passed over.
NoneLeft(s, i) == {}

LeftToVisit(s, i) == snap[s] \ {i}

ScanNext(s) ==
    LET i == Earliest(s)
    IN  /\ pc[s] = "scan"
        /\ snap[s] # {}
        /\ RowIsFree(s, i)
        /\ IF StillWaiting(tokens[i])
           THEN /\ rowLock' = [rowLock EXCEPT ![s] = i]
                /\ write' = [write EXCEPT ![s] =
                       [id |-> i, row |-> CalledRow(tokens[i], req[s].counter, clock)]]
                /\ snap' = [snap EXCEPT ![s] = {}]
                /\ Goto(s, "commit")
                /\ UNCHANGED <<db, queueLock, req, attempt, out, commits>>
           ELSE /\ snap' = [snap EXCEPT ![s] = LeftToVisit(s, i)]
                /\ UNCHANGED <<db, queueLock, pc, req, attempt, rowLock, write, out, commits>>

NothingWaits(s) ==
    /\ pc[s] = "scan"
    /\ snap[s] = {}
    /\ Fail(s, "NotFound")

-----------------------------------------------------------------------------
(* process_token, complete_token and cancel_token                          *)

\* A farmer touches only tokens of their own, an officer only those of the centre.
MayOperate(r, row) ==
    IF r.actor \in Officers THEN ~ OutsideCentre(r.actor) ELSE row.farmer = r.actor

\* The refusal of an illegal status formats `token.status.value`, and the loaded
\* status is a plain str: the column is a String, not an Enum.
IllegalTransition == "AttributeError"

TokenVerdict(r) ==
    IF r.token \notin DOMAIN tokens THEN "NotFound"
    ELSE IF ~ MayOperate(r, tokens[r.token]) THEN "PermissionDenied"
    ELSE IF tokens[r.token].status # FromStatus(r.op) THEN IllegalTransition
    ELSE "ok"

\* SELECT ... FOR UPDATE returns the row's latest version.
LockToken(s) ==
    LET r == req[s]
    IN  /\ pc[s] = "lockToken"
        /\ r.token \in DOMAIN tokens => RowIsFree(s, r.token)
        /\ IF TokenVerdict(r) = "ok"
           THEN /\ rowLock' = [rowLock EXCEPT ![s] = r.token]
                /\ write' = [write EXCEPT ![s] =
                       [id |-> r.token, row |-> MovedRow(tokens[r.token], ToStatus(r.op))]]
                /\ Goto(s, "commit")
                /\ UNCHANGED <<db, queueLock, req, attempt, snap, out, commits>>
           ELSE Fail(s, TokenVerdict(r))

-----------------------------------------------------------------------------
(* The end of a request                                                    *)

Commit(s) ==
    LET w == write[s]
    IN  /\ pc[s] = "commit"
        /\ tokens' = IF w.id = 0 THEN Append(tokens, w.row) ELSE [tokens EXCEPT ![w.id] = w.row]
        /\ clock' = IF req[s].op = "call" THEN clock + 1 ELSE clock
        /\ EndTransaction(s)
        /\ commits' = [commits EXCEPT ![s] = @ + 1]
        /\ Goto(s, "refresh")
        /\ UNCHANGED <<open, req, attempt, out>>

\* refresh() is a transaction of its own, after the commit.
Refresh(s) ==
    /\ pc[s] = "refresh"
    /\ Answer(s, "ok")
    /\ UNCHANGED <<db, queueLock, rowLock, write, snap, commits>>

\* Mutant: the retry loop takes a failed refresh for a failed attempt.
RefreshRetries(s) ==
    /\ pc[s] = "refresh"
    /\ Goto(s, FirstStep(req[s].op))
    /\ UNCHANGED <<db, queueLock, req, attempt, rowLock, write, snap, out, commits>>

\* It may find no connection; so may the client whose COMMIT was not acknowledged.
RefreshFails(s) ==
    /\ pc[s] = "refresh"
    /\ Fail(s, "DBAPIError")

\* Any statement, COMMIT included, may fail for a reason that is not retried.
StatementFails(s) ==
    /\ pc[s] \in AttemptSteps
    /\ Fail(s, "DBAPIError")

\* PostgreSQL reports a deadlock (40P01) to a session that waits for a lock.
WaitsForLock(s) ==
    \/ pc[s] = "lockQueue" /\ ~ QueueIsFree(s)
    \/ pc[s] = "scan" /\ snap[s] # {} /\ ~ RowIsFree(s, Earliest(s))
    \/ pc[s] = "lockToken" /\ req[s].token \in DOMAIN tokens /\ ~ RowIsFree(s, req[s].token)

MayRetry(s) == attempt[s] < MaxAttempts

RetryAttempt(s) ==
    /\ MayRetry(s)
    /\ EndTransaction(s)
    /\ attempt' = [attempt EXCEPT ![s] = @ + 1]
    /\ Goto(s, FirstStep(req[s].op))
    /\ UNCHANGED <<db, req, out, commits>>

DeadlockVictim(s) ==
    /\ WaitsForLock(s)
    /\ \/ RetryAttempt(s)
       \/ attempt[s] = MaxAttempts /\ Fail(s, "ServiceUnavailable")

\* The response is sent and the session serves another request.
Finish(s) ==
    /\ pc[s] = "done"
    /\ Goto(s, "idle")
    /\ out' = [out EXCEPT ![s] = "none"]
    /\ commits' = [commits EXCEPT ![s] = 0]
    /\ UNCHANGED <<db, queueLock, req, attempt, rowLock, write, snap>>

\* Outside src/: an administrator opens or closes the queue with an UPDATE.
SetOpen ==
    /\ queueLock = Free
    /\ open' \in BOOLEAN
    /\ UNCHANGED <<tokens, clock, queueLock, session>>

-----------------------------------------------------------------------------
Init ==
    /\ open \in BOOLEAN
    /\ tokens = << >>
    /\ clock = 1
    /\ queueLock = Free
    /\ pc = [s \in Sessions |-> "idle"]
    /\ req = [s \in Sessions |-> NoRequest]
    /\ attempt = [s \in Sessions |-> 0]
    /\ rowLock = [s \in Sessions |-> 0]
    /\ write = [s \in Sessions |-> NoWrite]
    /\ snap = [s \in Sessions |-> {}]
    /\ out = [s \in Sessions |-> "none"]
    /\ commits = [s \in Sessions |-> 0]

\* What a request does when nothing fails.
Step(s) ==
    \/ LockQueue(s)
    \/ CheckActive(s)
    \/ TakeNumbers(s)
    \/ InsertRows(s)
    \/ SelectWaiting(s)
    \/ ScanNext(s)
    \/ NothingWaits(s)
    \/ LockToken(s)
    \/ Commit(s)
    \/ Refresh(s)

Fault(s) == RefreshFails(s) \/ StatementFails(s) \/ DeadlockVictim(s)

Next == SetOpen \/ \E s \in Sessions : Submit(s) \/ Step(s) \/ Fault(s) \/ Finish(s)

Spec == Init /\ [][Next]_vars

\* The event loop runs every request that can go on, and PostgreSQL serves the
\* waiters of a lock in the order they came, so none is overtaken for ever.
FairSpec == Spec /\ \A s \in Sessions : SF_vars(Step(s))

-----------------------------------------------------------------------------
(* Properties                                                              *)

\* Every variable has its type, and a session's locals fit the step it is at.
TypeOK ==
    /\ open \in BOOLEAN
    /\ tokens \in Seq(Rows)
    /\ clock \in Nat \ {0}
    /\ queueLock \in Sessions \union {Free}
    /\ pc \in [Sessions -> Steps]
    /\ req \in [Sessions -> Requests \union {NoRequest}]
    /\ attempt \in [Sessions -> 0 .. MaxAttempts]
    /\ rowLock \in [Sessions -> Nat]
    /\ write \in [Sessions -> [id: Nat, row: Rows \union {NoRow}]]
    /\ snap \in [Sessions -> SUBSET Nat]
    /\ out \in [Sessions -> Outcomes]
    /\ commits \in [Sessions -> Nat]

\* However joins, retries and failed commits interleave, the tokens of a queue are
\* numbered 1, 2, 3 ... without a gap or a repeat, and a farmer's position is the
\* number on the token (get_next_sequence_and_position under the queue's lock).
NumbersDense ==
    \A i \in DOMAIN tokens : tokens[i].seq = i /\ tokens[i].pos = i

\* A farmer never holds two places in one queue: an officer and the farmer who join
\* at once, or a join that races the farmer's own token through its life, leave at
\* most one token that is not over (join_queue's check with uq_active_farmer_token).
OneActiveTokenPerFarmer ==
    \A i, j \in DOMAIN tokens :
        IsActive(tokens[i]) /\ IsActive(tokens[j]) /\ tokens[i].farmer = tokens[j].farmer => i = j

\* Officers at several counters who call at once call distinct tokens, and called_at
\* orders the called tokens as their numbers do (call_next's "FIFO serialization").
CalledInOrder ==
    \A i, j \in DOMAIN tokens :
        /\ tokens[i].called # 0 /\ tokens[j].called # 0
        /\ tokens[i].seq < tokens[j].seq
        => tokens[i].called < tokens[j].called

\* What the client is told is what was done: "ok" after exactly one commit, a refusal
\* or an exhausted retry (503) after none; a retry never repeats a committed attempt.
\* Only an HTTP 500 leaves the client in doubt (the refresh that follows the commit).
AnswersMatchCommits ==
    \A s \in Sessions :
        /\ commits[s] <= 1
        /\ out[s] = "ok" => commits[s] = 1
        /\ out[s] \notin {"ok", "none", "DBAPIError"} => commits[s] = 0

\* Joins are serialised by the queue's lock, so none ends in the unhandled position
\* collision of create_entry_and_token.
JoinsNeverCollide == \A s \in Sessions : out[s] # "UniqueViolation"

\* Whatever a request changes, its user may change: a farmer's place is taken or given
\* up by that farmer or by an officer of the centre, and only such an officer, for a
\* counter of the centre, calls and serves.  It is so at the commit, steps after the
\* checks (resolve_target_farmer_id, _verify_officer_centre, the ownership checks).
MayCommit(r, row) ==
    IF r.actor \in LocalOfficers
    THEN r.counter \in LocalCounters \union {NoCounter}
    ELSE r.op \in {"join", "cancel"} /\ row.farmer = r.actor
CommitsAreAuthorised ==
    [][\A s \in Sessions : commits'[s] > commits[s] => MayCommit(req[s], write[s].row)]_vars

\* "No waiting tokens found" is never a stale answer: when call_next runs out of the
\* rows of its snapshot, no committed token waits, although cancellations went on.
EmptyAnswerIsTrue ==
    [][\A s \in Sessions :
        pc[s] = "scan" /\ out'[s] = "NotFound" => \A i \in DOMAIN tokens : ~ IsWaiting(tokens[i])]_vars

\* Every operation, however its statements interleave with those of others, takes
\* effect at once, when it commits, as the operation the queue promises; an operation
\* that is refused or fails has no effect.
Line == INSTANCE TokenQueue WITH line <- tokens
ImplementsTokenQueue == Line!Spec

\* Every request is answered: no set of requests waits on each other's locks, and no
\* end of a transaction, however it came about, leaves a lock behind.
EveryRequestIsAnswered == \A s \in Sessions : pc[s] # "idle" ~> pc[s] = "done"

\* tests/test_queue_service.py expects ConflictError of an operation that finds its
\* token in another status than the one it starts from.
IllegalTransitionIsConflict ==
    [][\A s \in Sessions :
        pc[s] = "lockToken" /\ out'[s] # "none" /\ out'[s] \notin {"PermissionDenied", "NotFound",
                                               "ServiceUnavailable", "DBAPIError"}
        => out'[s] = "Conflict"]_vars
=============================================================================
