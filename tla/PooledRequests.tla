--------------------------- MODULE PooledRequests ---------------------------
(* Requests that share the pool of database connections (db/session.py): the *)
(* readiness probe, the registration of a farmer and the read of one         *)
(* (api/v1/ready.py, services/farmer.py).  A session takes a connection when *)
(* it runs a statement, keeps it for its transaction, gives it back at       *)
(* commit, rollback or close, and takes another to refresh what it has       *)
(* committed.  A request that finds all of them taken waits, and may time    *)
(* out.  One step is one statement, checkout, commit or failure.  A farmer's  *)
(* farmer_id and the random id of the row are one identifier here.           *)
EXTENDS Naturals, FiniteSets

CONSTANTS
    Requests,   \* requests in progress at once
    Size,       \* db_pool_size + db_max_overflow
    Ids,        \* farmers' identifiers
    Known,      \* those registered at the start
    Officer,    \* an officer
    Farmers,    \* users with the role of a farmer
    Own,        \* the farmer each of them is, or NoFarmer
    NoRole,     \* a user whose token has no role
    NoFarmer, NoRequest

ASSUME SizeAssumption == Size \in Nat \ {0}
ASSUME RequestsAssumption == IsFiniteSet(Requests)
ASSUME UsersAssumption ==
    /\ Known \subseteq Ids
    /\ Own \in [Farmers -> Known \union {NoFarmer}]
    /\ {Officer, NoRole} \intersect Farmers = {} /\ Officer # NoRole
    /\ NoFarmer \notin Ids

VARIABLES
    farmers,    \* committed rows of the farmers table
    conn,       \* the requests that hold a connection
    pc,         \* per request: the statement it runs next
    req,        \* per request: what was asked
    flushed,    \* per request: its transaction has inserted its row
    out,        \* per request: the answer
    commits     \* history, per request: how often it committed

vars == <<farmers, conn, pc, req, flushed, out, commits>>

Users == Farmers \union {Officer, NoRole}
\* /ready asks neither who the client is nor for a farmer.
AllRequests ==
    [op: {"create", "get"}, actor: Users, id: Ids] \union
    [op: {"ready"}, actor: {NoRole}, id: {NoFarmer}]
Statements == {"probe", "insert", "refresh", "user", "record"}
Steps == Statements \union {"idle", "commit", "close", "answered"}
Outcomes == {"none", "ok", "PermissionDenied", "NotFound", "Conflict", "ServiceUnavailable",
             "DBAPIError", "TimeoutError"}

-----------------------------------------------------------------------------
Goto(r, step) == pc' = [pc EXCEPT ![r] = step]

\* Mutant: the session is not closed when its request fails.
StaysOut(r, answer) == IF answer = "ok" THEN conn \ {r} ELSE conn
\* The session is closed, by rollback and by get_db_session, and its connection returns.
Returned(r, answer) == conn \ {r}

\* The request is answered and its session closed; what was not committed is gone.
End(r, answer) ==
    /\ Goto(r, "answered")
    /\ out' = [out EXCEPT ![r] = answer]
    /\ conn' = Returned(r, answer)
    /\ flushed' = [flushed EXCEPT ![r] = FALSE]

\* Mutant: every error becomes ServiceUnavailableError.
AlwaysUnavailable(r, error) == "ServiceUnavailable"
\* /ready turns every error into ServiceUnavailableError; farmers' routes do not.
Error(r, error) == IF req[r].op = "ready" THEN "ServiceUnavailable" ELSE error

FirstStatement(q) ==
    CASE q.op = "ready" -> "probe"
      [] q.op = "create" -> "insert"
      [] q.op = "get" -> IF q.actor = Officer THEN "record" ELSE "user"

\* require_role for create_farmer, the role checks of get_farmer; /ready asks nobody.
MayAsk(q) ==
    CASE q.op = "ready" -> TRUE
      [] q.op = "create" -> q.actor = Officer
      [] q.op = "get" -> q.actor # NoRole

Submit(r) ==
    /\ pc[r] = "idle"
    /\ \E q \in AllRequests :
        /\ req' = [req EXCEPT ![r] = q]
        /\ IF MayAsk(q)
           THEN Goto(r, FirstStatement(q)) /\ UNCHANGED <<conn, flushed, out>>
           ELSE End(r, "PermissionDenied")
    /\ UNCHANGED <<farmers, commits>>

-----------------------------------------------------------------------------
(* The pool                                                                *)

NeedsConnection(r) == pc[r] \in Statements /\ r \notin conn
ConnectionIsFree == Cardinality(conn) < Size

CheckOut(r) ==
    /\ NeedsConnection(r)
    /\ ConnectionIsFree
    /\ conn' = conn \union {r}
    /\ UNCHANGED <<farmers, pc, req, flushed, out, commits>>

\* db_pool_timeout has passed.  The registration may have been committed by then.
PoolTimeout(r) ==
    /\ NeedsConnection(r)
    /\ End(r, Error(r, "TimeoutError"))
    /\ UNCHANGED <<farmers, req, commits>>

-----------------------------------------------------------------------------
(* The statements                                                          *)

At(r, step) == pc[r] = step /\ r \in conn

\* SELECT 1 of the readiness probe.
Probe(r) ==
    /\ At(r, "probe")
    /\ Goto(r, "close")
    /\ UNCHANGED <<farmers, conn, req, flushed, out, commits>>

\* The flush of create: PostgreSQL waits for a transaction that inserted the same
\* farmer_id, and refuses it when one is committed.
KeyIsFree(r) == \A other \in Requests \ {r} : flushed[other] => req[other].id # req[r].id

InsertFarmer(r) ==
    /\ At(r, "insert")
    /\ KeyIsFree(r)
    /\ IF req[r].id \in farmers
       THEN End(r, "Conflict")
       ELSE /\ flushed' = [flushed EXCEPT ![r] = TRUE]
            /\ Goto(r, "commit")
            /\ UNCHANGED <<conn, out>>
    /\ UNCHANGED <<farmers, req, commits>>

\* Mutant: the key stays locked by the session until it is closed.
KeepsKey(r) == flushed
\* The end of the transaction gives back its locks ...
ReleaseKey(r) == [flushed EXCEPT ![r] = FALSE]
\* ... and its connection.
CommitFarmer(r) ==
    /\ At(r, "commit")
    /\ farmers' = farmers \union {req[r].id}
    /\ flushed' = ReleaseKey(r)
    /\ conn' = conn \ {r}
    /\ commits' = [commits EXCEPT ![r] = @ + 1]
    /\ Goto(r, "refresh")
    /\ UNCHANGED <<req, out>>

RefreshFarmer(r) ==
    /\ At(r, "refresh")
    /\ Goto(r, "close")
    /\ UNCHANGED <<farmers, conn, req, flushed, out, commits>>

\* get_farmer of a farmer's user: it must be that farmer.
ReadUser(r) ==
    /\ At(r, "user")
    /\ IF Own[req[r].actor] = req[r].id
       THEN Goto(r, "record") /\ UNCHANGED <<conn, flushed, out>>
       ELSE End(r, "PermissionDenied")
    /\ UNCHANGED <<farmers, req, commits>>

ReadFarmer(r) ==
    /\ At(r, "record")
    /\ IF req[r].id \in farmers
       THEN Goto(r, "close") /\ UNCHANGED <<conn, flushed, out>>
       ELSE End(r, "NotFound")
    /\ UNCHANGED <<farmers, req, commits>>

Close(r) ==
    /\ At(r, "close")
    /\ End(r, "ok")
    /\ UNCHANGED <<farmers, req, commits>>

\* A statement or the commit fails: the connection is lost, or the server refuses.
StatementFails(r) ==
    /\ pc[r] \in Statements \union {"commit"} /\ r \in conn
    /\ End(r, Error(r, "DBAPIError"))
    /\ UNCHANGED <<farmers, req, commits>>

\* The client has its answer, and another request comes.
Finish(r) ==
    /\ pc[r] = "answered"
    /\ Goto(r, "idle")
    /\ req' = [req EXCEPT ![r] = NoRequest]
    /\ out' = [out EXCEPT ![r] = "none"]
    /\ commits' = [commits EXCEPT ![r] = 0]
    /\ UNCHANGED <<farmers, conn, flushed>>

Init ==
    /\ farmers = Known
    /\ conn = {}
    /\ pc = [r \in Requests |-> "idle"]
    /\ req = [r \in Requests |-> NoRequest]
    /\ flushed = [r \in Requests |-> FALSE]
    /\ out = [r \in Requests |-> "none"]
    /\ commits = [r \in Requests |-> 0]

\* What a request with a connection does next, but for the insert, which may wait.
Proceed(r) ==
    Probe(r) \/ CommitFarmer(r) \/ RefreshFarmer(r) \/ ReadUser(r) \/ ReadFarmer(r) \/ Close(r)

Next ==
    \E r \in Requests :
        \/ Submit(r) \/ CheckOut(r) \/ InsertFarmer(r) \/ Proceed(r)
        \/ PoolTimeout(r) \/ StatementFails(r) \/ Finish(r)

Spec == Init /\ [][Next]_vars

\* The event loop runs every request that can go on, and PostgreSQL lets the waiters for
\* a key go on in the order they came.  Nothing is assumed of timeouts and failures, nor
\* of the order in which the pool serves its waiters.
FairSpec == Spec /\ \A r \in Requests : WF_vars(Proceed(r)) /\ SF_vars(InsertFarmer(r))

-----------------------------------------------------------------------------
(* Properties                                                              *)

\* Every variable has its type.
TypeOK ==
    /\ farmers \subseteq Ids
    /\ conn \subseteq Requests
    /\ pc \in [Requests -> Steps]
    /\ req \in [Requests -> AllRequests \union {NoRequest}]
    /\ flushed \in [Requests -> BOOLEAN]
    /\ out \in [Requests -> Outcomes]
    /\ commits \in [Requests -> Nat]

\* The pool is never overdrawn; a request that waits for a connection, before its first
\* statement or between its commit and its refresh, holds no key that others wait for;
\* and none holds a connection once it is answered.  So whoever holds a connection never
\* waits for one (commit() before refresh() of create_farmer, get_db_session).
NoneHoldsAndWaits ==
    /\ Cardinality(conn) <= Size
    /\ \A r \in Requests :
        /\ flushed[r] => r \in conn /\ pc[r] = "commit"
        /\ pc[r] \in {"idle", "answered"} => r \notin conn

\* What the client is told is true: "ok" of a registration after exactly one commit, a
\* conflict only if the farmer is registered, a refusal or a 503 after no commit.  Only
\* an HTTP 500 (a timeout or a failure between commit and refresh) leaves it open.
AnswersMatchCommits ==
    \A r \in Requests :
        /\ commits[r] <= 1
        /\ out[r] = "ok" => commits[r] = IF req[r].op = "create" THEN 1 ELSE 0
        /\ out[r] \in {"PermissionDenied", "NotFound", "Conflict", "ServiceUnavailable"}
            => commits[r] = 0
        /\ out[r] = "Conflict" => req[r].id \in farmers

\* However many requests wait for the connections and for each other's keys, a connection
\* is free again and again, without help from timeouts.
PoolRecovers == []<>ConnectionIsFree

=============================================================================
