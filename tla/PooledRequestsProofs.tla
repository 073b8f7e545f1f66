------------------------ MODULE PooledRequestsProofs ------------------------
(* Why no request of PooledRequests holds what another waits for, however   *)
(* many requests and connections there are.                                 *)
EXTENDS PooledRequests, FiniteSetTheorems, TLAPS

\* What one request is up to, at each of its statements.
RequestInv(r) ==
    \* Each statement belongs to one operation ...
    /\ pc[r] # "idle" => req[r] \in AllRequests
    /\ pc[r] = "probe" => req[r].op = "ready"
    /\ pc[r] \in {"insert", "commit", "refresh"} => req[r].op = "create"
    /\ pc[r] \in {"user", "record"} => req[r].op = "get"
    \* ... and comes before or after the commit.
    /\ pc[r] \in {"idle", "probe", "insert", "commit", "user", "record"} => commits[r] = 0
    /\ pc[r] \in {"refresh", "close"} => commits[r] = IF req[r].op = "create" THEN 1 ELSE 0
    /\ pc[r] # "answered" => out[r] = "none"
    \* It locks its key only from the insert to the commit, and holds a connection then.
    /\ flushed[r] => r \in conn /\ pc[r] = "commit"
    /\ pc[r] \in {"idle", "answered"} => r \notin conn
    /\ commits[r] <= 1
    /\ out[r] = "ok" => commits[r] = IF req[r].op = "create" THEN 1 ELSE 0
    /\ out[r] \in {"PermissionDenied", "NotFound", "Conflict", "ServiceUnavailable"}
        => commits[r] = 0
    /\ out[r] = "Conflict" => req[r].id \in farmers

Inv == TypeOK /\ Cardinality(conn) <= Size /\ \A r \in Requests : RequestInv(r)

-----------------------------------------------------------------------------
(* Connections                                                             *)

LEMMA ConnectionsAreFinite == ASSUME conn \subseteq Requests PROVE IsFiniteSet(conn)
BY FS_Subset, RequestsAssumption

\* A connection comes back.
LEMMA LessConnections ==
    ASSUME conn \subseteq Requests, Cardinality(conn) <= Size, NEW r
    PROVE  Cardinality(conn \ {r}) <= Size
<1>1. IsFiniteSet(conn) /\ Cardinality(conn) \in Nat
  BY ConnectionsAreFinite, FS_CardinalityType
<1>2. IsFiniteSet(conn \ {r}) /\ Cardinality(conn \ {r}) \in Nat
  BY <1>1, FS_Subset, FS_CardinalityType
<1>3. Cardinality(conn \ {r}) <= Cardinality(conn)
  BY <1>1, FS_Subset
<1> QED BY <1>1, <1>2, <1>3, SizeAssumption

\* A free one is taken.
LEMMA OneMoreConnection ==
    ASSUME conn \subseteq Requests, Cardinality(conn) < Size, NEW r
    PROVE  Cardinality(conn \union {r}) <= Size
<1>1. IsFiniteSet(conn) /\ Cardinality(conn) \in Nat
  BY ConnectionsAreFinite, FS_CardinalityType
<1>2. Cardinality(conn \union {r}) = Cardinality(conn)
      \/ Cardinality(conn \union {r}) = Cardinality(conn) + 1
  BY <1>1, FS_AddElement
<1> QED BY <1>1, <1>2, SizeAssumption

-----------------------------------------------------------------------------
(* Steps                                                                   *)

\* What the other requests keep when r takes a step, and so the invariant.
LEMMA OthersKeep ==
    ASSUME Inv, TypeOK', Cardinality(conn') <= Size, NEW r \in Requests, RequestInv(r)',
           farmers \subseteq farmers', conn' \ {r} = conn \ {r},
           \A s \in Requests \ {r} :
              /\ pc'[s] = pc[s] /\ req'[s] = req[s] /\ flushed'[s] = flushed[s]
              /\ out'[s] = out[s] /\ commits'[s] = commits[s]
    PROVE  Inv'
<1> SUFFICES ASSUME NEW s \in Requests \ {r} PROVE RequestInv(s)'
  BY DEF Inv
<1>1. RequestInv(s)
  BY DEF Inv
<1>2. s \in conn' <=> s \in conn
  OBVIOUS
<1> QED BY <1>1, <1>2 DEF RequestInv

LEMMA EndPreserves ==
    ASSUME Inv, NEW r \in Requests, NEW answer \in Outcomes \ {"none"}, End(r, answer),
           UNCHANGED <<farmers, commits>>,
           req' = req \/ (\E q \in AllRequests : req' = [req EXCEPT ![r] = q]),
           req'[r] \in AllRequests,
           answer = "ok" => commits[r] = IF req'[r].op = "create" THEN 1 ELSE 0,
           answer \in {"PermissionDenied", "NotFound", "Conflict", "ServiceUnavailable"}
              => commits[r] = 0,
           answer = "Conflict" => req'[r].id \in farmers
    PROVE  Inv'
<1>1. /\ pc' = [pc EXCEPT ![r] = "answered"] /\ out' = [out EXCEPT ![r] = answer]
      /\ conn' = conn \ {r} /\ flushed' = [flushed EXCEPT ![r] = FALSE]
  BY DEF End, Goto, Returned
<1>2. TypeOK'
  BY <1>1 DEF Inv, TypeOK, Steps
<1>3. Cardinality(conn') <= Size
  BY <1>1, LessConnections DEF Inv, TypeOK
<1>4. commits[r] \in Nat /\ commits[r] <= 1
  BY DEF Inv, TypeOK, RequestInv
<1>5. /\ pc'[r] = "answered" /\ out'[r] = answer /\ r \notin conn' /\ ~ flushed'[r]
      /\ commits'[r] = commits[r]
  BY <1>1 DEF Inv, TypeOK
<1>6. RequestInv(r)'
  BY <1>4, <1>5 DEF RequestInv
<1>7. \A s \in Requests \ {r} :
        /\ pc'[s] = pc[s] /\ req'[s] = req[s] /\ flushed'[s] = flushed[s]
        /\ out'[s] = out[s] /\ commits'[s] = commits[s]
  BY <1>1 DEF Inv, TypeOK
<1> QED BY <1>1, <1>2, <1>3, <1>6, <1>7, OthersKeep

LEMMA SubmitPreserves == ASSUME Inv, NEW r \in Requests, Submit(r) PROVE Inv'
<1>1. PICK q \in AllRequests :
        /\ req' = [req EXCEPT ![r] = q]
        /\ IF MayAsk(q)
           THEN Goto(r, FirstStatement(q)) /\ UNCHANGED <<conn, flushed, out>>
           ELSE End(r, "PermissionDenied")
  BY DEF Submit
<1>2. pc[r] = "idle" /\ UNCHANGED <<farmers, commits>> /\ commits[r] = 0 /\ req'[r] = q
  BY <1>1 DEF Submit, Inv, RequestInv, TypeOK
<1>3. CASE ~ MayAsk(q)
  <2>1. End(r, "PermissionDenied")
    BY <1>1, <1>3
  <2> QED BY <1>1, <1>2, <2>1, EndPreserves DEF Outcomes
<1>4. CASE MayAsk(q)
  <2>1. pc' = [pc EXCEPT ![r] = FirstStatement(q)] /\ UNCHANGED <<conn, flushed, out>>
    BY <1>1, <1>4 DEF Goto
  <2>2. /\ q.op \in {"ready", "create", "get"}
        /\ FirstStatement(q) \in {"probe", "insert", "record", "user"}
        /\ FirstStatement(q) = "probe" => q.op = "ready"
        /\ FirstStatement(q) = "insert" => q.op = "create"
        /\ FirstStatement(q) \in {"user", "record"} => q.op = "get"
    <3>1. q.op \in {"ready", "create", "get"}
      BY DEF AllRequests
    <3> QED BY <3>1 DEF FirstStatement
  <2>3. TypeOK'
    BY <1>1, <1>2, <2>1, <2>2 DEF Inv, TypeOK, Steps, Statements
  <2>4. RequestInv(r)'
    BY <1>2, <2>1, <2>2 DEF Inv, TypeOK, RequestInv
  <2> QED BY <1>1, <1>2, <2>1, <2>3, <2>4, OthersKeep DEF Inv, TypeOK
<1> QED BY <1>3, <1>4

LEMMA CheckOutPreserves == ASSUME Inv, NEW r \in Requests, CheckOut(r) PROVE Inv'
<1>1. Cardinality(conn') <= Size
  BY OneMoreConnection DEF CheckOut, ConnectionIsFree, Inv, TypeOK
<1>2. TypeOK' /\ RequestInv(r)'
  BY DEF Inv, TypeOK, RequestInv, CheckOut, NeedsConnection, Statements
<1> QED BY <1>1, <1>2, OthersKeep DEF CheckOut

\* A step of r that leaves the connections alone but for r's.
LEMMA InsertPreserves == ASSUME Inv, NEW r \in Requests, InsertFarmer(r) PROVE Inv'
<1>1. pc[r] = "insert" /\ r \in conn /\ UNCHANGED <<farmers, req, commits>>
  BY DEF InsertFarmer, At
<1>2. req[r] \in AllRequests /\ req[r].op = "create" /\ commits[r] = 0 /\ out[r] = "none"
  BY <1>1 DEF Inv, RequestInv
<1>3. CASE req[r].id \in farmers
  BY <1>1, <1>2, <1>3, EndPreserves DEF InsertFarmer, Outcomes
<1>4. CASE req[r].id \notin farmers
  <2>1. flushed' = [flushed EXCEPT ![r] = TRUE] /\ pc' = [pc EXCEPT ![r] = "commit"]
        /\ UNCHANGED <<conn, out>>
    BY <1>4 DEF InsertFarmer, Goto
  <2>2. TypeOK'
    BY <1>1, <2>1 DEF Inv, TypeOK, Steps
  <2>3. RequestInv(r)'
    BY <1>1, <1>2, <2>1 DEF Inv, TypeOK, RequestInv
  <2> QED BY <1>1, <2>1, <2>2, <2>3, OthersKeep DEF Inv, TypeOK
<1> QED BY <1>3, <1>4

LEMMA CommitPreserves == ASSUME Inv, NEW r \in Requests, CommitFarmer(r) PROVE Inv'
<1>1. /\ pc[r] = "commit" /\ farmers' = farmers \union {req[r].id}
      /\ flushed' = [flushed EXCEPT ![r] = FALSE] /\ conn' = conn \ {r}
      /\ commits' = [commits EXCEPT ![r] = @ + 1] /\ pc' = [pc EXCEPT ![r] = "refresh"]
      /\ UNCHANGED <<req, out>>
  BY DEF CommitFarmer, At, Goto, ReleaseKey
<1>2. req[r] \in AllRequests /\ req[r].op = "create" /\ commits[r] = 0 /\ out[r] = "none"
  BY <1>1 DEF Inv, RequestInv
<1>3. req[r].id \in Ids
  BY <1>2 DEF AllRequests
<1>4. TypeOK'
  BY <1>1, <1>3 DEF Inv, TypeOK, Steps, Statements
<1>5. Cardinality(conn') <= Size
  BY <1>1, LessConnections DEF Inv, TypeOK
<1>6. RequestInv(r)'
  BY <1>1, <1>2 DEF Inv, TypeOK, RequestInv
<1> QED BY <1>1, <1>4, <1>5, <1>6, OthersKeep DEF Inv, TypeOK

\* A statement that reads leads to the next one, or to a refusal.
LEMMA ReadPreserves ==
    ASSUME Inv, NEW r \in Requests, NEW step \in {"record", "close"}, Goto(r, step),
           UNCHANGED <<farmers, conn, req, flushed, out, commits>>,
           pc[r] \in {"probe", "refresh", "user", "record"},
           step = "record" => pc[r] = "user"
    PROVE  Inv'
<1>1. pc' = [pc EXCEPT ![r] = step]
  BY DEF Goto
<1>2. TypeOK'
  BY <1>1 DEF Inv, TypeOK, Steps, Statements
<1>3. RequestInv(r)'
  BY <1>1 DEF Inv, TypeOK, RequestInv
<1> QED BY <1>1, <1>2, <1>3, OthersKeep DEF Inv, TypeOK

LEMMA FailurePreserves ==
    ASSUME Inv, NEW r \in Requests, pc[r] \in Statements \union {"commit"},
           NEW error \in {"DBAPIError", "TimeoutError"}, End(r, Error(r, error)),
           UNCHANGED <<farmers, req, commits>>
    PROVE  Inv'
<1>1. req[r] \in AllRequests /\ (req[r].op = "ready" => commits[r] = 0)
  BY DEF Inv, RequestInv, Statements
<1>2. Error(r, error) \in Outcomes \ {"none"}
  BY DEF Error, Outcomes
<1>3. Error(r, error) = "ServiceUnavailable" => commits[r] = 0
  BY <1>1 DEF Error
<1>4. Error(r, error) \notin {"ok", "PermissionDenied", "NotFound", "Conflict"}
  BY DEF Error
<1> QED BY <1>1, <1>2, <1>3, <1>4, EndPreserves

LEMMA ProceedPreserves == ASSUME Inv, NEW r \in Requests, Proceed(r) PROVE Inv'
<1>1. CASE Probe(r)
  BY <1>1, ReadPreserves DEF Probe, At
<1>2. CASE CommitFarmer(r)
  BY <1>2, CommitPreserves
<1>3. CASE RefreshFarmer(r)
  BY <1>3, ReadPreserves DEF RefreshFarmer, At
<1>4. CASE ReadUser(r)
  <2>1. pc[r] = "user" /\ UNCHANGED <<farmers, req, commits>> /\ commits[r] = 0 /\ req[r] \in AllRequests
    BY <1>4 DEF ReadUser, At, Inv, RequestInv
  <2>2. CASE Own[req[r].actor] = req[r].id
    BY <1>4, <2>1, <2>2, ReadPreserves DEF ReadUser
  <2>3. CASE Own[req[r].actor] # req[r].id
    BY <1>4, <2>1, <2>3, EndPreserves DEF ReadUser, Outcomes
  <2> QED BY <2>2, <2>3
<1>5. CASE ReadFarmer(r)
  <2>1. pc[r] = "record" /\ UNCHANGED <<farmers, req, commits>> /\ commits[r] = 0 /\ req[r] \in AllRequests
    BY <1>5 DEF ReadFarmer, At, Inv, RequestInv
  <2>2. CASE req[r].id \in farmers
    BY <1>5, <2>1, <2>2, ReadPreserves DEF ReadFarmer
  <2>3. CASE req[r].id \notin farmers
    BY <1>5, <2>1, <2>3, EndPreserves DEF ReadFarmer, Outcomes
  <2> QED BY <2>2, <2>3
<1>6. CASE Close(r)
  <2>1. pc[r] = "close" /\ UNCHANGED <<farmers, req, commits>> /\ End(r, "ok")
    BY <1>6 DEF Close, At
  <2>2. req[r] \in AllRequests /\ commits[r] = IF req[r].op = "create" THEN 1 ELSE 0
    BY <2>1 DEF Inv, RequestInv
  <2> QED BY <2>1, <2>2, EndPreserves DEF Outcomes
<1> QED BY <1>1, <1>2, <1>3, <1>4, <1>5, <1>6 DEF Proceed

LEMMA FinishPreserves == ASSUME Inv, NEW r \in Requests, Finish(r) PROVE Inv'
<1>1. /\ pc[r] = "answered" /\ pc' = [pc EXCEPT ![r] = "idle"]
      /\ req' = [req EXCEPT ![r] = NoRequest] /\ out' = [out EXCEPT ![r] = "none"]
      /\ commits' = [commits EXCEPT ![r] = 0] /\ UNCHANGED <<farmers, conn, flushed>>
  BY DEF Finish, Goto
<1>2. TypeOK'
  BY <1>1 DEF Inv, TypeOK, Steps, Outcomes
<1>3. RequestInv(r)'
  BY <1>1 DEF Inv, TypeOK, RequestInv
<1> QED BY <1>1, <1>2, <1>3, OthersKeep DEF Inv, TypeOK

LEMMA InitImpliesInv == Init => Inv
<1> SUFFICES ASSUME Init PROVE Inv
  OBVIOUS
<1>1. TypeOK
  BY UsersAssumption DEF Init, TypeOK, Steps, Outcomes
<1>2. Cardinality(conn) <= Size
  BY FS_EmptySet, SizeAssumption DEF Init
<1>3. \A r \in Requests : RequestInv(r)
  BY DEF Init, RequestInv
<1> QED BY <1>1, <1>2, <1>3 DEF Inv

\* The strengthening of the three invariants below holds in every state.
THEOREM Invariance == Spec => []Inv
<1>1. Inv /\ [Next]_vars => Inv'
  <2> SUFFICES ASSUME Inv, [Next]_vars PROVE Inv'
    OBVIOUS
  <2>1. CASE UNCHANGED vars
    BY <2>1 DEF vars, Inv, TypeOK, RequestInv
  <2>2. ASSUME NEW r \in Requests, PoolTimeout(r) PROVE Inv'
    BY <2>2, FailurePreserves DEF PoolTimeout, NeedsConnection
  <2>3. ASSUME NEW r \in Requests, StatementFails(r) PROVE Inv'
    BY <2>3, FailurePreserves DEF StatementFails
  <2> QED BY <2>1, <2>2, <2>3, SubmitPreserves, CheckOutPreserves, InsertPreserves,
             ProceedPreserves, FinishPreserves DEF Next
<1> QED BY InitImpliesInv, <1>1, PTL DEF Spec

\* The session of create_farmer and get_db_session: the pool is never overdrawn, and no
\* request that waits for a connection holds another or locks a key.
THEOREM HoldersDoNotWait == Spec => []NoneHoldsAndWaits
<1>1. Inv => NoneHoldsAndWaits
  BY DEF Inv, RequestInv, NoneHoldsAndWaits
<1> QED BY Invariance, <1>1, PTL

\* The answers of /ready, create_farmer and get_farmer agree with what was committed.
THEOREM AnswersAgree == Spec => []AnswersMatchCommits
<1>1. Inv => AnswersMatchCommits
  BY DEF Inv, RequestInv, AnswersMatchCommits
<1> QED BY Invariance, <1>1, PTL
=============================================================================
