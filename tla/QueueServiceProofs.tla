------------------------- MODULE QueueServiceProofs -------------------------
(***************************************************************************)
(* The safety properties of QueueService, for any number of sessions,       *)
(* farmers, tokens and attempts: Inv is inductive, and the properties that  *)
(* TLC checks on small instances follow from it.                            *)
(***************************************************************************)
EXTENDS QueueInvariant, SequenceTheorems, WellFoundedInduction, TLAPS

\* What a step of session s leaves alone in every other session.
OthersKeep(s) ==
    \A o \in Sessions \ {s} :
        /\ pc'[o] = pc[o] /\ req'[o] = req[o] /\ attempt'[o] = attempt[o]
        /\ rowLock'[o] = rowLock[o] /\ write'[o] = write[o] /\ snap'[o] = snap[o]
        /\ out'[o] = out[o] /\ commits'[o] = commits[o]

SessionInv(s) == LocalsInv(s) /\ JoinInv(s) /\ CallInv(s) /\ MoveInv(s)

-----------------------------------------------------------------------------
(* Steps that commit nothing                                               *)

\* A step of s that commits nothing keeps Inv if it keeps what Inv says of s and of
\* the locks: the other sessions have lost nothing of what they had read.
LEMMA UncommittedStep ==
    ASSUME NEW s \in Sessions, Inv, UNCHANGED db, OthersKeep(s),
           TypeOK', LocksInv', SessionInv(s)'
    PROVE  Inv'
<1>1. TableInv'
  BY DEF Inv, TableInv, NumbersDense, OneActiveTokenPerFarmer, IsActive, IsWaiting, db
<1>2. ASSUME NEW o \in Sessions PROVE SessionInv(o)'
  <2>1. CASE o = s
    BY <2>1
  <2>2. CASE o # s
    <3>1. SessionInv(o)
      BY DEF Inv, SessionInv
    <3> QED
      BY <2>2, <3>1 DEF OthersKeep, db, SessionInv, LocalsInv, JoinInv, CallInv, MoveInv,
         Joining, Calling, Moving, HasActiveToken, IsActive, IsWaiting
  <2> QED BY <2>1, <2>2
<1> QED
  BY <1>1, <1>2 DEF Inv, SessionInv

\* An error rolls back: the request has no effect, and s holds nothing any more.
LEMMA FailStep ==
    ASSUME NEW s \in Sessions, Inv, NEW outcome \in Outcomes \ {"none", "ok", "UniqueViolation"},
           Fail(s, outcome),
           pc[s] \in AttemptSteps \/ (pc[s] = "refresh" /\ outcome = "DBAPIError")
    PROVE  Inv'
<1> USE DEF Fail, EndTransaction, ReleaseLocks, Answer, Goto
<1>1. TypeOK'
  BY BoundsAssumption DEF Inv, TypeOK, db, Steps, NoWrite
<1>2. OthersKeep(s)
  BY DEF Inv, TypeOK, OthersKeep
<1>3. LocksInv'
  BY SessionsAssumption DEF Inv, TypeOK, LocksInv, HoldsQueue
<1>4. SessionInv(s)'
  BY DEF Inv, TypeOK, SessionInv, LocalsInv, JoinInv, CallInv, MoveInv, Joining, Calling,
     Moving, AttemptSteps
<1> QED
  BY <1>1, <1>2, <1>3, <1>4, UncommittedStep

LEMMA SubmitStep == ASSUME NEW s \in Sessions, Inv, Submit(s) PROVE Inv'
<1>1. ASSUME NEW r \in Requests, pc[s] = "idle", Begin(s, r) PROVE Inv'
  <2> USE <1>1 DEF Begin, Goto, FirstStep
  <2>1. TypeOK'
    BY BoundsAssumption DEF Inv, TypeOK, db, Steps, AttemptSteps
  <2>2. OthersKeep(s)
    BY DEF Inv, TypeOK, OthersKeep
  <2>3. LocksInv'
    BY DEF Inv, TypeOK, LocksInv, HoldsQueue
  <2>4. SessionInv(s)'
    BY DEF Inv, TypeOK, SessionInv, LocalsInv, JoinInv, CallInv, MoveInv, Joining, Calling,
       Moving, AttemptSteps, Requests, StepsOf, QueueOps, TokenOps
  <2> QED
    BY <2>1, <2>2, <2>3, <2>4, UncommittedStep
<1>2. ASSUME NEW e \in {"Validation", "PermissionDenied"}, pc[s] = "idle", Refuse(s, e)
      PROVE  Inv'
  <2> USE <1>2 DEF Refuse, Answer, Goto
  <2>1. TypeOK'
    BY BoundsAssumption DEF Inv, TypeOK, db, Steps, Outcomes
  <2>2. OthersKeep(s)
    BY DEF Inv, TypeOK, OthersKeep
  <2>3. LocksInv'
    BY DEF Inv, TypeOK, LocksInv, HoldsQueue
  <2>4. SessionInv(s)'
    BY DEF Inv, TypeOK, SessionInv, LocalsInv, JoinInv, CallInv, MoveInv, Joining, Calling,
       Moving, AttemptSteps
  <2> QED
    BY <2>1, <2>2, <2>3, <2>4, UncommittedStep
<1>3. ASSUME NEW actor \in Actors, NEW f \in FarmerArguments, SubmitJoin(s, actor, f) PROVE Inv'
  <2>1. [Request("join", actor) EXCEPT !.farmer = TargetFarmer(actor, f)] \in Requests
    BY DEF Request, Requests, TargetFarmer, Actors, FarmerArguments, CounterArguments, QueueOps
  <2> QED
    BY <1>1, <1>2, <1>3, <2>1 DEF SubmitJoin
<1>4. ASSUME NEW actor \in Actors, NEW c \in CounterArguments, SubmitCall(s, actor, c) PROVE Inv'
  <2>1. [Request("call", actor) EXCEPT !.counter = c] \in Requests
    BY DEF Request, Requests, FarmerArguments, QueueOps
  <2> QED
    BY <1>1, <1>2, <1>4, <2>1 DEF SubmitCall
<1>5. ASSUME NEW actor \in Actors, NEW op \in TokenOps, NEW i \in 0 .. Len(tokens),
             SubmitTokenOp(s, op, actor, i)
      PROVE  Inv'
  <2>1. i \in Nat
    BY DEF Inv, TypeOK
  <2>2. [Request(op, actor) EXCEPT !.token = i] \in Requests
    BY <2>1 DEF Request, Requests, FarmerArguments, CounterArguments
  <2> QED
    BY <1>1, <1>2, <1>5, <2>2 DEF SubmitTokenOp
<1> QED
  BY <1>3, <1>4, <1>5 DEF Submit

LEMMA LockQueueStep == ASSUME NEW s \in Sessions, Inv, LockQueue(s) PROVE Inv'
<1>1. /\ req[s] \in Requests /\ req[s].op \in QueueOps
      /\ QueueVerdict(req[s]) \in {"ok", "PermissionDenied", "Conflict", "NotFound"}
  BY DEF LockQueue, Inv, LocalsInv, AttemptSteps, StepsOf, QueueOps, TokenOps, Requests,
     QueueVerdict
<1>2. CASE QueueVerdict(req[s]) = "ok"
  <2> USE <1>1, <1>2 DEF LockQueue, Goto, QueueIsFree
  <2>1. TypeOK'
    BY DEF Inv, TypeOK, db, Steps, AttemptSteps
  <2>2. OthersKeep(s)
    BY DEF Inv, TypeOK, OthersKeep
  <2>3. LocksInv'
    BY SessionsAssumption DEF Inv, TypeOK, LocksInv, HoldsQueue
  <2>4. SessionInv(s)'
    BY CounterIdsAssumption DEF Inv, TypeOK, SessionInv, LocalsInv, JoinInv, CallInv, MoveInv,
       Joining, Calling, Moving, AttemptSteps, Requests, StepsOf, QueueOps, TokenOps,
       QueueVerdict, CounterArguments, db
  <2> QED
    BY <2>1, <2>2, <2>3, <2>4, UncommittedStep DEF LockQueue
<1>3. CASE QueueVerdict(req[s]) # "ok"
  BY <1>1, <1>3, FailStep DEF LockQueue, Outcomes, AttemptSteps
<1> QED
  BY <1>2, <1>3

LEMMA CheckActiveStep == ASSUME NEW s \in Sessions, Inv, CheckActive(s) PROVE Inv'
<1>1. CASE HasActiveToken(req[s].farmer)
  BY <1>1, FailStep DEF CheckActive, Outcomes, AttemptSteps
<1>2. CASE ~ HasActiveToken(req[s].farmer)
  <2> USE <1>2 DEF CheckActive, Goto
  <2>1. TypeOK'
    BY DEF Inv, TypeOK, db, Steps, AttemptSteps
  <2>2. OthersKeep(s)
    BY DEF Inv, TypeOK, OthersKeep
  <2>3. LocksInv'
    BY DEF Inv, TypeOK, LocksInv, HoldsQueue
  <2>4. SessionInv(s)'
    BY DEF Inv, TypeOK, SessionInv, LocalsInv, JoinInv, CallInv, MoveInv, Joining, Calling,
       Moving, AttemptSteps, Requests, StepsOf, QueueOps, TokenOps, db
  <2> QED
    BY <2>1, <2>2, <2>3, <2>4, UncommittedStep
<1> QED
  BY <1>1, <1>2

\* The largest of the numbers 1 .. n, or 0, is n: joins are numbered in commit order.
LEMMA NextNumberIsNext ==
    ASSUME NEW n \in Nat, NEW used, used = 1 .. n
    PROVE  NextNumber(used) = n + 1
<1>1. /\ n \in used \union {0}
      /\ \A m \in used \union {0} : m \in Nat /\ n >= m
  OBVIOUS
<1>2. Max(used \union {0}) = n
  <2> DEFINE top == Max(used \union {0})
  <2>1. top \in used \union {0} /\ \A x \in used \union {0} : top >= x
    BY <1>1 DEF Max
  <2> HIDE DEF top
  <2>2. top \in Nat /\ n >= top /\ top >= n
    BY <1>1, <2>1
  <2>3. top = n
    BY <2>2
  <2> QED
    BY <2>3 DEF top
<1> QED
  BY <1>2 DEF NextNumber

LEMMA TakeNumbersStep == ASSUME NEW s \in Sessions, Inv, TakeNumbers(s) PROVE Inv'
<1>1. CASE req[s].farmer \notin Farmers
  BY <1>1, FailStep DEF TakeNumbers, Outcomes, AttemptSteps
<1>2. CASE req[s].farmer \in Farmers
  <2>1. Len(tokens) \in Nat /\ DOMAIN tokens = 1 .. Len(tokens)
    BY DEF Inv, TypeOK
  <2>2. /\ {tokens[i].seq : i \in DOMAIN tokens} = 1 .. Len(tokens)
        /\ {tokens[i].pos : i \in DOMAIN tokens} = 1 .. Len(tokens)
    BY <2>1 DEF Inv, TableInv, NumbersDense
  <2>3. /\ NextNumber({tokens[i].seq : i \in DOMAIN tokens}) = Len(tokens) + 1
        /\ NextNumber({tokens[i].pos : i \in DOMAIN tokens}) = Len(tokens) + 1
    BY <2>1, <2>2, NextNumberIsNext
  <2>4. write' = [write EXCEPT ![s] =
            [id |-> 0, row |-> NewRow(req[s].farmer, Len(tokens) + 1, Len(tokens) + 1)]]
    <3>1. write[s] = NoWrite
      BY DEF TakeNumbers, Inv, LocalsInv
    <3> QED
      BY <1>2, <2>3, <3>1 DEF TakeNumbers, NoWrite, Inv, TypeOK
  <2>5. NewRow(req[s].farmer, Len(tokens) + 1, Len(tokens) + 1) \in Rows
    BY <1>2, <2>1 DEF NewRow, Rows, Statuses
  <2>6. rowLock[s] = 0
    BY DEF TakeNumbers, Inv, LocalsInv
  <2> USE <1>2, <2>4, <2>5, <2>6 DEF TakeNumbers, Goto
  <2>7. TypeOK'
    BY DEF Inv, TypeOK, db, Steps, AttemptSteps
  <2>8. OthersKeep(s)
    BY DEF Inv, TypeOK, OthersKeep
  <2>9. LocksInv'
    BY DEF Inv, TypeOK, LocksInv, HoldsQueue
  <2>10. SessionInv(s)'
    BY DEF Inv, TypeOK, SessionInv, LocalsInv, JoinInv, CallInv, MoveInv, Joining, Calling,
       Moving, AttemptSteps, Requests, StepsOf, QueueOps, TokenOps, db, NoWrite
  <2> QED
    BY <2>7, <2>8, <2>9, <2>10, UncommittedStep
<1> QED
  BY <1>1, <1>2

\* Under the queue's lock no row has the numbers a join took, so no insert collides.
LEMMA InsertFindsNumbersFree ==
    ASSUME NEW s \in Sessions, Inv, pc[s] = "insert"
    PROVE  /\ write[s].row = NewRow(req[s].farmer, Len(tokens) + 1, Len(tokens) + 1)
           /\ req[s].farmer \in Farmers
           /\ \A i \in DOMAIN tokens :
                tokens[i].pos # write[s].row.pos /\ tokens[i].seq # write[s].row.seq
<1>1. Joining(s)
  BY DEF Inv, LocalsInv, Joining, AttemptSteps, StepsOf, Requests, QueueOps, TokenOps
<1>2. Len(tokens) \in Nat /\ DOMAIN tokens = 1 .. Len(tokens)
  BY DEF Inv, TypeOK
<1>3. /\ req[s].farmer \in Farmers
      /\ write[s].row = NewRow(req[s].farmer, Len(tokens) + 1, Len(tokens) + 1)
  <2>1. JoinInv(s)
    BY DEF Inv
  <2> QED
    BY <1>1, <2>1 DEF JoinInv, NewRow
<1>4. write[s].row.pos = Len(tokens) + 1 /\ write[s].row.seq = Len(tokens) + 1
  BY <1>3 DEF NewRow
<1>5. \A i \in DOMAIN tokens : tokens[i].seq = i /\ tokens[i].pos = i
  BY DEF Inv, TableInv, NumbersDense
<1> QED
  BY <1>2, <1>3, <1>4, <1>5

LEMMA InsertRowsStep == ASSUME NEW s \in Sessions, Inv, InsertRows(s) PROVE Inv'
<1>1. /\ pc[s] = "insert"
      /\ req[s].farmer \in Farmers
      /\ write[s].row = NewRow(req[s].farmer, Len(tokens) + 1, Len(tokens) + 1)
      /\ write[s].row.farmer = req[s].farmer
      /\ ~ \E i \in DOMAIN tokens :
            tokens[i].pos = write[s].row.pos \/ tokens[i].seq = write[s].row.seq
  BY InsertFindsNumbersFree DEF InsertRows, NewRow
<1>2. CASE HasActiveToken(req[s].farmer)
  BY <1>1, <1>2, FailStep DEF InsertRows, Outcomes, AttemptSteps
<1>3. CASE ~ HasActiveToken(req[s].farmer)
  <2> USE <1>1, <1>3 DEF InsertRows, Goto
  <2>1. TypeOK'
    BY DEF Inv, TypeOK, db, Steps, AttemptSteps
  <2>2. OthersKeep(s)
    BY DEF Inv, TypeOK, OthersKeep
  <2>3. req[s].op = "join"
    BY DEF Inv, LocalsInv, AttemptSteps, StepsOf, Requests, QueueOps, TokenOps
  <2>4. LocksInv'
    BY <2>3 DEF Inv, TypeOK, LocksInv, HoldsQueue, QueueOps
  <2>5. SessionInv(s)'
    BY <2>3 DEF Inv, TypeOK, SessionInv, LocalsInv, JoinInv, CallInv, MoveInv, Joining, Calling,
       Moving, AttemptSteps, StepsOf, TokenOps, db, HasActiveToken
  <2> QED
    BY <2>1, <2>2, <2>4, <2>5, UncommittedStep
<1> QED
  BY <1>2, <1>3

LEMMA SelectWaitingStep == ASSUME NEW s \in Sessions, Inv, SelectWaiting(s) PROVE Inv'
<1> USE DEF SelectWaiting, Goto
<1>1. DOMAIN tokens \subseteq Nat
  BY DEF Inv, TypeOK
<1>2. TypeOK'
  BY <1>1 DEF Inv, TypeOK, db, Steps, AttemptSteps
<1>3. OthersKeep(s)
  BY DEF Inv, TypeOK, OthersKeep
<1>4. LocksInv'
  BY DEF Inv, TypeOK, LocksInv, HoldsQueue
<1>5. SessionInv(s)'
  BY DEF Inv, TypeOK, SessionInv, LocalsInv, JoinInv, CallInv, MoveInv, Joining, Calling,
     Moving, AttemptSteps, Requests, StepsOf, QueueOps, TokenOps, db
<1> QED
  BY <1>2, <1>3, <1>4, <1>5, UncommittedStep

\* The scan visits the rows of its snapshot by number, which is their place.
LEMMA EarliestIsFirst ==
    ASSUME NEW s \in Sessions, Inv, pc[s] = "scan", snap[s] # {}
    PROVE  /\ Earliest(s) \in snap[s]
           /\ Earliest(s) \in DOMAIN tokens
           /\ \A j \in snap[s] : Earliest(s) <= j
<1>1. Calling(s)
  BY DEF Inv, LocalsInv, Calling, AttemptSteps, StepsOf, Requests, QueueOps, TokenOps
<1>2. snap[s] \subseteq DOMAIN tokens /\ DOMAIN tokens \subseteq Nat
  BY <1>1 DEF Inv, CallInv, TypeOK
<1>3. \A i \in snap[s] : tokens[i].seq = i
  BY <1>2 DEF Inv, TableInv, NumbersDense
<1>4. \E i \in snap[s] : \A j \in snap[s] : i <= j
  <2> DEFINE before == OpToRel(<, Nat)
  <2>1. snap[s] \subseteq Nat
    BY <1>2
  <2>2. IsWellFoundedOn(before, Nat)
    BY NatLessThanWellFounded
  <2>3. \E i \in snap[s] : \A j \in snap[s] : <<j, i>> \notin before
    <3> HIDE DEF before
    <3> QED BY <2>1, <2>2, WFMin
  <2>4. \A i, j \in Nat : j < i => <<j, i>> \in before
    BY DEF OpToRel
  <2> HIDE DEF before
  <2>5. PICK i \in snap[s] : \A j \in snap[s] : <<j, i>> \notin before
    BY <2>3
  <2>6. \A j \in snap[s] : ~ (j < i)
    BY <2>1, <2>4, <2>5
  <2> QED
    BY <2>1, <2>6
<1>5. \E i \in snap[s] : \A j \in snap[s] : tokens[i].seq <= tokens[j].seq
  BY <1>2, <1>3, <1>4
<1>6. /\ Earliest(s) \in snap[s]
      /\ \A j \in snap[s] : tokens[Earliest(s)].seq <= tokens[j].seq
  BY <1>5 DEF Earliest
<1> QED
  BY <1>2, <1>3, <1>6

LEMMA ScanNextStep == ASSUME NEW s \in Sessions, Inv, ScanNext(s) PROVE Inv'
<1> DEFINE i == Earliest(s)
<1>1. pc[s] = "scan" /\ snap[s] # {}
  BY DEF ScanNext
<1>2. i \in snap[s] /\ i \in DOMAIN tokens /\ \A j \in snap[s] : i <= j
  BY <1>1, EarliestIsFirst
<1>3. Calling(s) /\ req[s] \in Requests /\ req[s].op = "call"
  BY <1>1 DEF Inv, LocalsInv, Calling, AttemptSteps, StepsOf, Requests, QueueOps, TokenOps
<1>4. DOMAIN tokens \subseteq Nat \ {0} /\ tokens[i] \in Rows
  BY <1>2 DEF Inv, TypeOK
<1> HIDE DEF i
<1>5. CASE IsWaiting(tokens[i])
  <2>1. /\ UNCHANGED <<db, queueLock, req, attempt, out, commits>>
        /\ rowLock' = [rowLock EXCEPT ![s] = i]
        /\ snap' = [snap EXCEPT ![s] = {}]
        /\ pc' = [pc EXCEPT ![s] = "commit"]
        /\ write' = [write EXCEPT ![s] =
               [id |-> i, row |-> CalledRow(tokens[i], req[s].counter, clock)]]
    BY <1>5 DEF ScanNext, i, StillWaiting, Goto
  <2>2. RowIsFree(s, i)
    BY DEF ScanNext, i
  <2>3. req[s].counter \in Counters \union {NoCounter}
    BY <1>1, <1>3 DEF Inv, CallInv
  <2>4. CalledRow(tokens[i], req[s].counter, clock) \in Rows
    BY <1>4, <2>3 DEF CalledRow, Rows, Statuses, Inv, TypeOK
  <2>5. TypeOK'
    BY <1>2, <1>4, <2>1, <2>4 DEF Inv, TypeOK, db, Steps, AttemptSteps
  <2>6. OthersKeep(s)
    BY <2>1 DEF Inv, TypeOK, OthersKeep
  <2>7. LocksInv'
    BY <1>1, <1>2, <1>3, <1>4, <2>1, <2>2 DEF Inv, TypeOK, LocksInv, HoldsQueue, RowIsFree, QueueOps
  <2>8. \A j \in 1 .. i - 1 : ~ IsWaiting(tokens[j])
    <3> SUFFICES ASSUME NEW j \in 1 .. i - 1, IsWaiting(tokens[j]) PROVE FALSE
      OBVIOUS
    <3>1. DOMAIN tokens = 1 .. Len(tokens) /\ Len(tokens) \in Nat
      BY DEF Inv, TypeOK
    <3>2. j \in DOMAIN tokens /\ ~ (i <= j)
      BY <1>2, <3>1
    <3>3. j \in snap[s]
      BY <1>1, <1>3, <3>2 DEF Inv, CallInv
    <3> QED
      BY <1>2, <3>2, <3>3
  <2>9. LocalsInv(s)'
    BY <1>1, <1>3, <2>1 DEF Inv, TypeOK, LocalsInv, AttemptSteps, StepsOf
  <2>10. CallInv(s)'
    BY <1>2, <1>5, <2>1, <2>3, <2>8 DEF Inv, TypeOK, CallInv, Calling, db
  <2>11. JoinInv(s)' /\ MoveInv(s)'
    BY <1>3, <2>1 DEF JoinInv, MoveInv, Joining, Moving, TokenOps
  <2> QED
    BY <2>1, <2>5, <2>6, <2>7, <2>9, <2>10, <2>11, UncommittedStep DEF SessionInv
<1>6. CASE ~ IsWaiting(tokens[i])
  <2>1. /\ UNCHANGED <<db, queueLock, pc, req, attempt, rowLock, write, out, commits>>
        /\ snap' = [snap EXCEPT ![s] = snap[s] \ {i}]
    BY <1>6 DEF ScanNext, i, StillWaiting, LeftToVisit
  <2>2. TypeOK'
    BY <2>1 DEF Inv, TypeOK, db
  <2>3. OthersKeep(s)
    BY <2>1 DEF Inv, TypeOK, OthersKeep
  <2>4. LocksInv'
    BY <2>1 DEF Inv, LocksInv, HoldsQueue
  <2>5. LocalsInv(s)' /\ JoinInv(s)' /\ MoveInv(s)'
    BY <1>1, <1>3, <2>1 DEF Inv, LocalsInv, JoinInv, MoveInv, Joining, Moving, TokenOps, AttemptSteps
  <2>6. CallInv(s)'
    BY <1>1, <1>3, <1>6, <2>1 DEF Inv, TypeOK, CallInv, Calling, db
  <2> QED
    BY <2>1, <2>2, <2>3, <2>4, <2>5, <2>6, UncommittedStep DEF SessionInv
<1> QED
  BY <1>5, <1>6

LEMMA NothingWaitsStep == ASSUME NEW s \in Sessions, Inv, NothingWaits(s) PROVE Inv'
  BY FailStep DEF NothingWaits, Outcomes, AttemptSteps

LEMMA LockTokenStep == ASSUME NEW s \in Sessions, Inv, LockToken(s) PROVE Inv'
<1> DEFINE r == req[s]
<1>1. pc[s] = "lockToken" /\ r \in Requests /\ r.op \in TokenOps
  BY DEF LockToken, Inv, LocalsInv, AttemptSteps, StepsOf, Requests, QueueOps, TokenOps
<1>2. TokenVerdict(r) \in {"ok", "NotFound", "PermissionDenied", "AttributeError"}
  BY DEF TokenVerdict, IllegalTransition
<1>3. CASE TokenVerdict(r) # "ok"
  BY <1>1, <1>2, <1>3, FailStep DEF LockToken, Outcomes, AttemptSteps
<1>4. CASE TokenVerdict(r) = "ok"
  <2> DEFINE i == r.token
  <2>1. i \in DOMAIN tokens /\ tokens[i].status = FromStatus(r.op) /\ RowIsFree(s, i)
    BY <1>4 DEF TokenVerdict, LockToken, IllegalTransition
  <2>2. /\ UNCHANGED <<db, queueLock, req, attempt, snap, out, commits>>
        /\ rowLock' = [rowLock EXCEPT ![s] = i]
        /\ pc' = [pc EXCEPT ![s] = "commit"]
        /\ write' = [write EXCEPT ![s] =
               [id |-> i, row |-> MovedRow(tokens[i], ToStatus(r.op))]]
    BY <1>4 DEF LockToken, Goto
  <2>3. i \in Nat \ {0} /\ tokens[i] \in Rows
    BY <2>1 DEF Inv, TypeOK
  <2>4. MovedRow(tokens[i], ToStatus(r.op)) \in Rows
    BY <1>1, <2>3 DEF MovedRow, ToStatus, TokenOps, Rows, Statuses
  <2> HIDE DEF i
  <2>5. TypeOK'
    BY <2>2, <2>3, <2>4 DEF Inv, TypeOK, db, Steps, AttemptSteps
  <2>6. OthersKeep(s)
    BY <2>2 DEF Inv, TypeOK, OthersKeep
  <2>7. LocksInv'
    BY <1>1, <2>1, <2>2, <2>3 DEF Inv, TypeOK, LocksInv, HoldsQueue, RowIsFree, QueueOps, TokenOps
  <2>8. LocalsInv(s)'
    BY <1>1, <2>2 DEF Inv, TypeOK, LocalsInv, AttemptSteps, StepsOf, TokenOps
  <2>9. MoveInv(s)'
    BY <1>1, <2>1, <2>2 DEF Inv, TypeOK, MoveInv, db
  <2>10. JoinInv(s)' /\ CallInv(s)'
    BY <1>1, <2>2 DEF JoinInv, CallInv, Joining, Calling, TokenOps
  <2> QED
    BY <2>2, <2>5, <2>6, <2>7, <2>8, <2>9, <2>10, UncommittedStep DEF SessionInv
<1> QED
  BY <1>3, <1>4

LEMMA RefreshStep == ASSUME NEW s \in Sessions, Inv, Refresh(s) PROVE Inv'
<1> USE DEF Refresh, Answer, Goto
<1>1. TypeOK'
  BY BoundsAssumption DEF Inv, TypeOK, db, Steps, Outcomes
<1>2. OthersKeep(s)
  BY DEF Inv, TypeOK, OthersKeep
<1>3. LocksInv'
  BY DEF Inv, TypeOK, LocksInv, HoldsQueue
<1>4. SessionInv(s)'
  BY DEF Inv, TypeOK, SessionInv, LocalsInv, JoinInv, CallInv, MoveInv, Joining, Calling,
     Moving, AttemptSteps
<1> QED
  BY <1>1, <1>2, <1>3, <1>4, UncommittedStep

LEMMA FaultStep == ASSUME NEW s \in Sessions, Inv, Fault(s) PROVE Inv'
<1>1. CASE RefreshFails(s)
  BY <1>1, FailStep DEF RefreshFails, Outcomes
<1>2. CASE StatementFails(s)
  BY <1>2, FailStep DEF StatementFails, Outcomes
<1>3. CASE DeadlockVictim(s)
  <2>1. pc[s] \in {"lockQueue", "scan", "lockToken"}
    BY <1>3 DEF DeadlockVictim, WaitsForLock
  <2>2. CASE Fail(s, "ServiceUnavailable")
    BY <2>1, <2>2, FailStep DEF Outcomes, AttemptSteps
  <2>3. CASE RetryAttempt(s)
    <3> USE <2>1, <2>3 DEF RetryAttempt, MayRetry, EndTransaction, ReleaseLocks, Goto, FirstStep
    <3>1. TypeOK'
      BY BoundsAssumption DEF Inv, TypeOK, db, Steps, AttemptSteps, NoWrite
    <3>2. OthersKeep(s)
      BY DEF Inv, TypeOK, OthersKeep
    <3>3. LocksInv'
      BY SessionsAssumption DEF Inv, TypeOK, LocksInv, HoldsQueue
    <3>4. SessionInv(s)'
      BY DEF Inv, TypeOK, SessionInv, LocalsInv, JoinInv, CallInv, MoveInv, Joining, Calling,
         Moving, AttemptSteps, Requests, StepsOf, QueueOps, TokenOps
    <3> QED
      BY <3>1, <3>2, <3>3, <3>4, UncommittedStep
  <2> QED
    BY <1>3, <2>2, <2>3 DEF DeadlockVictim
<1> QED
  BY <1>1, <1>2, <1>3 DEF Fault

LEMMA FinishStep == ASSUME NEW s \in Sessions, Inv, Finish(s) PROVE Inv'
<1> USE DEF Finish, Goto
<1>1. TypeOK'
  BY DEF Inv, TypeOK, db, Steps, Outcomes
<1>2. OthersKeep(s)
  BY DEF Inv, TypeOK, OthersKeep
<1>3. LocksInv'
  BY DEF Inv, TypeOK, LocksInv, HoldsQueue
<1>4. SessionInv(s)'
  BY DEF Inv, TypeOK, SessionInv, LocalsInv, JoinInv, CallInv, MoveInv, Joining, Calling,
     Moving, AttemptSteps
<1> QED
  BY <1>1, <1>2, <1>3, <1>4, UncommittedStep

\* Nobody opens or closes the queue while a join holds its row.
LEMMA SetOpenStep == ASSUME Inv, SetOpen PROVE Inv'
<1> USE DEF SetOpen, session
<1>1. TypeOK' /\ LocksInv' /\ TableInv'
  BY DEF Inv, TypeOK, LocksInv, HoldsQueue, TableInv, NumbersDense, OneActiveTokenPerFarmer
<1>2. ASSUME NEW s \in Sessions PROVE SessionInv(s)'
  <2>1. pc[s] \in AttemptSteps /\ req[s].op = "join" => pc[s] = "lockQueue"
    BY SessionsAssumption DEF Inv, LocksInv, HoldsQueue, LocalsInv, StepsOf, QueueOps,
       TokenOps, AttemptSteps
  <2>2. LocalsInv(s)' /\ CallInv(s)' /\ MoveInv(s)'
    BY DEF Inv, LocalsInv, CallInv, MoveInv, Calling, Moving
  <2>3. JoinInv(s)'
    BY <2>1 DEF JoinInv, Joining
  <2> QED
    BY <2>2, <2>3 DEF SessionInv
<1> QED
  BY <1>1, <1>2 DEF Inv, SessionInv

-----------------------------------------------------------------------------
(* Commits                                                                 *)

\* What a commit of s does to everything but the table.
LEMMA CommitEndsTransaction ==
    ASSUME NEW s \in Sessions, Inv, Commit(s), tokens' \in Seq(Rows)
    PROVE  /\ TypeOK' /\ OthersKeep(s) /\ LocksInv' /\ SessionInv(s)'
           /\ UNCHANGED <<open, req>>
<1> USE DEF Commit, EndTransaction, ReleaseLocks, Goto
<1>1. TypeOK'
  BY DEF Inv, TypeOK, Steps, NoWrite
<1>2. OthersKeep(s)
  BY DEF Inv, TypeOK, OthersKeep
<1>3. LocksInv'
  BY SessionsAssumption DEF Inv, TypeOK, LocksInv, HoldsQueue
<1>4. commits[s] = 0 /\ out[s] = "none"
  BY DEF Inv, LocalsInv
<1>5. SessionInv(s)'
  BY <1>4 DEF Inv, TypeOK, SessionInv, LocalsInv, JoinInv, CallInv, MoveInv, Joining, Calling,
     Moving, AttemptSteps
<1> QED
  BY <1>1, <1>2, <1>3, <1>5

\* A session at its commit does one of three operations.
LEMMA CommitCases ==
    ASSUME NEW s \in Sessions, Inv, pc[s] = "commit"
    PROVE  Joining(s) \/ Calling(s) \/ Moving(s)
  BY DEF Inv, LocalsInv, Joining, Calling, Moving, AttemptSteps, Requests, QueueOps

\* Only one session is past the lock of the queue.
LEMMA OneHolder ==
    ASSUME NEW s \in Sessions, NEW o \in Sessions \ {s}, Inv, HoldsQueue(s)
    PROVE  ~ HoldsQueue(o)
  BY DEF Inv, LocksInv

LEMMA CommitJoinStep ==
    ASSUME NEW s \in Sessions, Inv, Commit(s), Joining(s) PROVE Inv'
<1> DEFINE n == Len(tokens) + 1
           row == NewRow(req[s].farmer, n, n)
<1>1. /\ pc[s] = "commit" /\ req[s].op = "join" /\ HoldsQueue(s)
      /\ write[s] = [id |-> 0, row |-> row] /\ req[s].farmer \in Farmers
      /\ ~ HasActiveToken(req[s].farmer)
  BY DEF Commit, Inv, JoinInv, Joining, HoldsQueue, QueueOps
<1>2. tokens' = Append(tokens, row) /\ clock' = clock
  BY <1>1 DEF Commit
<1>3. Len(tokens) \in Nat /\ n \in Nat /\ DOMAIN tokens = 1 .. Len(tokens) /\ tokens \in Seq(Rows)
  BY DEF Inv, TypeOK
<1>4. row \in Rows
  BY <1>1, <1>3 DEF NewRow, Rows, Statuses
<1>5. /\ row.seq = n /\ row.pos = n /\ row.farmer = req[s].farmer /\ row.status = "WAITING"
      /\ row.called = 0
  BY DEF NewRow
<1> HIDE DEF row
<1>6. /\ tokens' \in Seq(Rows) /\ Len(tokens') = n /\ DOMAIN tokens' = 1 .. n
      /\ DOMAIN tokens = 1 .. n - 1
      /\ \A i \in 1 .. n - 1 : tokens'[i] = tokens[i]
      /\ tokens'[n] = row
  BY <1>2, <1>3, <1>4
<1> HIDE DEF n
<1>7. /\ TypeOK' /\ OthersKeep(s) /\ LocksInv' /\ SessionInv(s)' /\ UNCHANGED <<open, req>>
  BY <1>6, CommitEndsTransaction
<1>8. TableInv'
  <2>1. NumbersDense'
    BY <1>3, <1>5, <1>6 DEF Inv, TableInv, NumbersDense
  <2>2. OneActiveTokenPerFarmer'
    <3> SUFFICES ASSUME NEW i \in 1 .. n, NEW j \in 1 .. n,
                        IsActive(tokens'[i]), IsActive(tokens'[j]),
                        tokens'[i].farmer = tokens'[j].farmer
                 PROVE  i = j
      BY <1>6 DEF OneActiveTokenPerFarmer
    <3>1. CASE i \in 1 .. n - 1 /\ j \in 1 .. n - 1
      BY <1>6, <3>1 DEF Inv, TableInv, OneActiveTokenPerFarmer
    <3>2. CASE i = n /\ j \in 1 .. n - 1
      BY <1>1, <1>5, <1>6, <3>2 DEF HasActiveToken
    <3>3. CASE j = n /\ i \in 1 .. n - 1
      BY <1>1, <1>5, <1>6, <3>3 DEF HasActiveToken
    <3> QED
      BY <1>3, <3>1, <3>2, <3>3
  <2>3. \A i \in DOMAIN tokens' :
            tokens'[i].called < clock' /\ (IsWaiting(tokens'[i]) => tokens'[i].called = 0)
    BY <1>2, <1>3, <1>5, <1>6 DEF Inv, TypeOK, TableInv
  <2>4. \A i, j \in DOMAIN tokens' :
            i < j /\ tokens'[j].called # 0 =>
                ~ IsWaiting(tokens'[i]) /\ tokens'[i].called < tokens'[j].called
    BY <1>3, <1>5, <1>6 DEF Inv, TableInv
  <2> QED
    BY <2>1, <2>2, <2>3, <2>4 DEF TableInv
<1>9. ASSUME NEW o \in Sessions \ {s} PROVE SessionInv(o)'
  <2>1. SessionInv(o) /\ ~ HoldsQueue(o)
    BY <1>1, OneHolder DEF Inv, SessionInv
  <2>2. LocalsInv(o)'
    BY <1>7, <2>1 DEF OthersKeep, SessionInv, LocalsInv
  <2>3. JoinInv(o)' /\ CallInv(o)'
    BY <1>7, <2>1 DEF OthersKeep, SessionInv, LocalsInv, JoinInv, CallInv, Joining, Calling,
       HoldsQueue, QueueOps, StepsOf, TokenOps
  <2>4. MoveInv(o)'
    BY <1>3, <1>6, <1>7, <2>1 DEF OthersKeep, SessionInv, MoveInv, Moving
  <2> QED
    BY <2>2, <2>3, <2>4 DEF SessionInv
<1> QED
  BY <1>7, <1>8, <1>9 DEF Inv, SessionInv

\* A commit of a called or moved row replaces that row alone.
LEMMA CommitReplaces ==
    ASSUME NEW s \in Sessions, Inv, Commit(s), NEW i \in DOMAIN tokens, NEW row,
           write[s] = [id |-> i, row |-> row]
    PROVE  tokens' = [tokens EXCEPT ![i] = row]
<1>1. i # 0
  BY DEF Inv, TypeOK
<1> QED
  BY <1>1 DEF Commit

LEMMA CommitUpdates ==
    ASSUME NEW s \in Sessions, Inv, Commit(s), NEW i \in DOMAIN tokens, NEW row \in Rows,
           write[s] = [id |-> i, row |-> row]
    PROVE  /\ tokens' \in Seq(Rows) /\ DOMAIN tokens' = DOMAIN tokens
           /\ Len(tokens') = Len(tokens)
           /\ \A j \in DOMAIN tokens : tokens'[j] = IF j = i THEN row ELSE tokens[j]
<1>1. tokens \in Seq(Rows) /\ Len(tokens) \in Nat /\ DOMAIN tokens = 1 .. Len(tokens) /\ i # 0
  BY DEF Inv, TypeOK
<1>2. tokens' = [tokens EXCEPT ![i] = row]
  BY CommitReplaces
<1> QED
  BY <1>1, <1>2, ExceptSeq

\* The other sessions that hold a row hold another one.
LEMMA OtherRowsKept ==
    ASSUME NEW s \in Sessions, NEW o \in Sessions \ {s}, Inv, rowLock[s] \in DOMAIN tokens
    PROVE  rowLock[o] # rowLock[s]
  BY DEF Inv, TypeOK, LocksInv

LEMMA CommitCallStep ==
    ASSUME NEW s \in Sessions, Inv, Commit(s), Calling(s) PROVE Inv'
<1> DEFINE i == rowLock[s]
           row == CalledRow(tokens[i], req[s].counter, clock)
<1>1. /\ pc[s] = "commit" /\ req[s].op = "call" /\ HoldsQueue(s)
      /\ i \in DOMAIN tokens /\ IsWaiting(tokens[i])
      /\ \A j \in 1 .. i - 1 : ~ IsWaiting(tokens[j])
      /\ write[s] = [id |-> i, row |-> row]
      /\ req[s].counter \in Counters \union {NoCounter}
  BY DEF Commit, Inv, CallInv, Calling, HoldsQueue, QueueOps
<1>2. /\ Len(tokens) \in Nat /\ DOMAIN tokens = 1 .. Len(tokens) /\ clock \in Nat \ {0}
      /\ \A j \in DOMAIN tokens : tokens[j] \in Rows
  BY DEF Inv, TypeOK
<1>3. row \in Rows
  BY <1>1, <1>2 DEF CalledRow, Rows, Statuses
<1>4. /\ row.seq = tokens[i].seq /\ row.pos = tokens[i].pos /\ row.farmer = tokens[i].farmer
      /\ row.status = "CALLED" /\ row.called = clock
  BY <1>1, <1>2 DEF CalledRow, Rows
<1>5. clock' = clock + 1
  BY <1>1 DEF Commit
<1>6. OthersKeep(s) /\ \A o \in Sessions \ {s} : rowLock[o] # i
  BY <1>1, OtherRowsKept, CommitEndsTransaction, CommitUpdates, <1>3
<1> HIDE DEF row, i
<1>7. /\ tokens' \in Seq(Rows) /\ DOMAIN tokens' = DOMAIN tokens
      /\ \A j \in DOMAIN tokens : tokens'[j] = IF j = i THEN row ELSE tokens[j]
  BY <1>1, <1>3, CommitUpdates
<1>8. /\ TypeOK' /\ LocksInv' /\ SessionInv(s)' /\ UNCHANGED <<open, req>>
  BY <1>7, CommitEndsTransaction
<1>9. TableInv'
  <2>1. NumbersDense'
    BY <1>4, <1>7 DEF Inv, TableInv, NumbersDense
  <2>2. OneActiveTokenPerFarmer'
    BY <1>1, <1>4, <1>7 DEF Inv, TableInv, OneActiveTokenPerFarmer, IsActive, IsWaiting, ActiveStatuses
  <2>3. \A j \in DOMAIN tokens' :
            tokens'[j].called < clock' /\ (IsWaiting(tokens'[j]) => tokens'[j].called = 0)
    <3> SUFFICES ASSUME NEW j \in DOMAIN tokens
                 PROVE  tokens'[j].called < clock' /\ (IsWaiting(tokens'[j]) => tokens'[j].called = 0)
      BY <1>7
    <3>1. CASE j = i
      BY <1>2, <1>4, <1>5, <1>7, <3>1 DEF IsWaiting
    <3>2. CASE j # i
      <4>1. tokens[j].called < clock /\ tokens[j].called \in Nat
            /\ (IsWaiting(tokens[j]) => tokens[j].called = 0)
        BY <1>2 DEF Inv, TableInv, Rows
      <4> QED
        BY <1>2, <1>5, <1>7, <3>2, <4>1
    <3> QED
      BY <3>1, <3>2
  <2>4. ASSUME NEW j \in DOMAIN tokens', NEW k \in DOMAIN tokens', j < k, tokens'[k].called # 0
        PROVE  ~ IsWaiting(tokens'[j]) /\ tokens'[j].called < tokens'[k].called
    <3>1. \A m \in DOMAIN tokens : tokens[m].called < clock
      BY DEF Inv, TableInv
    <3>2. CASE k = i
      <4>1. ~ IsWaiting(tokens[j]) /\ j # i
        BY <1>1, <1>2, <1>7, <2>4, <3>2
      <4> QED
        BY <1>4, <1>7, <3>1, <3>2, <4>1
    <3>3. CASE k # i
      <4>1. ~ IsWaiting(tokens[j]) /\ tokens[j].called < tokens[k].called
        BY <1>7, <2>4, <3>3 DEF Inv, TableInv
      <4>2. j # i
        BY <1>1, <4>1
      <4> QED
        BY <1>7, <3>3, <4>1, <4>2
    <3> QED
      BY <3>2, <3>3
  <2> QED
    BY <2>1, <2>2, <2>3, <2>4 DEF TableInv
<1>10. ASSUME NEW o \in Sessions \ {s} PROVE SessionInv(o)'
  <2>1. SessionInv(o) /\ ~ HoldsQueue(o)
    BY <1>1, OneHolder DEF Inv, SessionInv
  <2>2. LocalsInv(o)'
    BY <1>6, <2>1 DEF OthersKeep, SessionInv, LocalsInv
  <2>3. JoinInv(o)' /\ CallInv(o)'
    BY <1>6, <1>8, <2>1 DEF OthersKeep, SessionInv, LocalsInv, JoinInv, CallInv, Joining, Calling,
       HoldsQueue, QueueOps, StepsOf, TokenOps
  <2>4. MoveInv(o)'
    BY <1>6, <1>7, <2>1 DEF OthersKeep, SessionInv, MoveInv, Moving
  <2> QED
    BY <2>2, <2>3, <2>4 DEF SessionInv
<1> QED
  BY <1>6, <1>8, <1>9, <1>10 DEF Inv, SessionInv

LEMMA CommitMoveStep ==
    ASSUME NEW s \in Sessions, Inv, Commit(s), Moving(s) PROVE Inv'
<1> DEFINE i == rowLock[s]
           op == req[s].op
           row == MovedRow(tokens[i], ToStatus(op))
<1>1. /\ pc[s] = "commit" /\ op \in TokenOps
      /\ i \in DOMAIN tokens /\ tokens[i].status = FromStatus(op)
      /\ write[s] = [id |-> i, row |-> row]
  BY DEF Commit, Inv, MoveInv, Moving
<1>2. /\ Len(tokens) \in Nat /\ DOMAIN tokens = 1 .. Len(tokens) /\ clock \in Nat \ {0}
      /\ \A j \in DOMAIN tokens : tokens[j] \in Rows
  BY DEF Inv, TypeOK
<1>3. row \in Rows
  BY <1>1, <1>2 DEF MovedRow, Rows, Statuses, ToStatus, TokenOps
<1>4. /\ row.seq = tokens[i].seq /\ row.pos = tokens[i].pos /\ row.farmer = tokens[i].farmer
      /\ row.status = ToStatus(op) /\ row.called = tokens[i].called
      /\ ~ IsWaiting(row)
      /\ IsActive(row) => IsActive(tokens[i])
  BY <1>1, <1>2 DEF MovedRow, Rows, ToStatus, FromStatus, TokenOps, IsWaiting, IsActive, ActiveStatuses
<1>5. clock' = clock
  BY <1>1 DEF Commit, TokenOps
<1>6. OthersKeep(s) /\ \A o \in Sessions \ {s} : rowLock[o] # i
  BY <1>1, OtherRowsKept, CommitEndsTransaction, CommitUpdates, <1>3
<1> HIDE DEF row, i
<1>7. /\ tokens' \in Seq(Rows) /\ DOMAIN tokens' = DOMAIN tokens /\ Len(tokens') = Len(tokens)
      /\ \A j \in DOMAIN tokens : tokens'[j] = IF j = i THEN row ELSE tokens[j]
  BY <1>1, <1>3, CommitUpdates
<1>8. /\ TypeOK' /\ LocksInv' /\ SessionInv(s)' /\ UNCHANGED <<open, req>>
  BY <1>7, CommitEndsTransaction
<1>9. \A j \in DOMAIN tokens :
        /\ tokens'[j].seq = tokens[j].seq /\ tokens'[j].pos = tokens[j].pos
        /\ tokens'[j].farmer = tokens[j].farmer /\ tokens'[j].called = tokens[j].called
        /\ IsWaiting(tokens'[j]) => IsWaiting(tokens[j])
        /\ IsActive(tokens'[j]) => IsActive(tokens[j])
  BY <1>4, <1>7
<1>10. TableInv'
  BY <1>5, <1>7, <1>9 DEF Inv, TableInv, NumbersDense, OneActiveTokenPerFarmer
<1>11. ASSUME NEW o \in Sessions \ {s} PROVE SessionInv(o)'
  <2>1. SessionInv(o)
    BY DEF Inv, SessionInv
  <2>2. LocalsInv(o)'
    BY <1>6, <2>1 DEF OthersKeep, SessionInv, LocalsInv
  <2>3. JoinInv(o)'
    BY <1>6, <1>7, <1>8, <1>9, <2>1 DEF OthersKeep, SessionInv, JoinInv, Joining, HasActiveToken
  <2>4. CallInv(o)'
    <3>1. Calling(o)' => Calling(o)
      BY <1>6 DEF OthersKeep, Calling
    <3>2. CASE Calling(o) /\ pc[o] = "scan"
      BY <1>6, <1>7, <1>9, <2>1, <3>2 DEF OthersKeep, SessionInv, CallInv, Calling
    <3>3. CASE Calling(o) /\ pc[o] = "commit"
      <4>1. /\ rowLock[o] \in DOMAIN tokens /\ rowLock[o] # i
            /\ tokens'[rowLock[o]] = tokens[rowLock[o]]
            /\ \A j \in 1 .. rowLock[o] - 1 : j \in DOMAIN tokens
        BY <1>2, <1>6, <1>7, <2>1, <3>3 DEF SessionInv, CallInv
      <4>2. /\ req'[o] = req[o] /\ pc'[o] = "commit" /\ rowLock'[o] = rowLock[o]
            /\ write'[o] = write[o] /\ snap'[o] = snap[o]
        BY <1>6, <3>3 DEF OthersKeep
      <4>3. /\ req[o].counter \in Counters \union {NoCounter}
            /\ IsWaiting(tokens[rowLock[o]])
            /\ \A j \in 1 .. rowLock[o] - 1 : ~ IsWaiting(tokens[j])
            /\ write[o] = [id |-> rowLock[o],
                           row |-> CalledRow(tokens[rowLock[o]], req[o].counter, clock)]
        BY <2>1, <3>3 DEF SessionInv, CallInv
      <4>4. \A j \in 1 .. rowLock[o] - 1 : ~ IsWaiting(tokens'[j])
        BY <1>9, <4>1, <4>3
      <4> QED
        BY <1>5, <1>7, <4>1, <4>2, <4>3, <4>4 DEF CallInv
    <3>4. CASE Calling(o) /\ pc[o] \notin {"scan", "commit"}
      BY <1>6, <2>1, <3>4 DEF OthersKeep, SessionInv, CallInv, Calling
    <3> QED
      BY <3>1, <3>2, <3>3, <3>4 DEF CallInv
  <2>5. MoveInv(o)'
    BY <1>6, <1>7, <2>1 DEF OthersKeep, SessionInv, MoveInv, Moving
  <2> QED
    BY <2>2, <2>3, <2>4, <2>5 DEF SessionInv
<1> QED
  BY <1>6, <1>8, <1>10, <1>11 DEF Inv, SessionInv

LEMMA CommitStep == ASSUME NEW s \in Sessions, Inv, Commit(s) PROVE Inv'
<1>1. pc[s] = "commit"
  BY DEF Commit
<1> QED
  BY <1>1, CommitCases, CommitJoinStep, CommitCallStep, CommitMoveStep

-----------------------------------------------------------------------------
(* The invariant and what follows from it                                  *)

LEMMA InitEstablishesInv == ASSUME Init PROVE Inv
<1> USE DEF Init
<1>1. TypeOK
  BY BoundsAssumption DEF TypeOK, Steps, NoWrite, Outcomes
<1>2. LocksInv
  BY SessionsAssumption DEF LocksInv, HoldsQueue
<1>3. TableInv
  BY DEF TableInv, NumbersDense, OneActiveTokenPerFarmer
<1>4. \A s \in Sessions : LocalsInv(s) /\ JoinInv(s) /\ CallInv(s) /\ MoveInv(s)
  BY DEF LocalsInv, JoinInv, CallInv, MoveInv, Joining, Calling, Moving, AttemptSteps
<1> QED
  BY <1>1, <1>2, <1>3, <1>4 DEF Inv

LEMMA NextKeepsInv == ASSUME Inv, [Next]_vars PROVE Inv'
<1>1. ASSUME NEW s \in Sessions, Step(s) PROVE Inv'
  BY <1>1, LockQueueStep, CheckActiveStep, TakeNumbersStep, InsertRowsStep, SelectWaitingStep,
     ScanNextStep, NothingWaitsStep, LockTokenStep, CommitStep, RefreshStep DEF Step
<1>2. CASE UNCHANGED vars
  BY <1>2 DEF vars, db, session, Inv, TypeOK, LocksInv, HoldsQueue, TableInv, NumbersDense,
     OneActiveTokenPerFarmer, LocalsInv, JoinInv, CallInv, MoveInv, Joining, Calling, Moving,
     HasActiveToken
<1> QED
  BY <1>1, <1>2, SubmitStep, FaultStep, FinishStep, SetOpenStep DEF Next

\* Inv holds in every reachable state.
THEOREM Invariance == Spec => []Inv
  BY InitEstablishesInv, NextKeepsInv, PTL DEF Spec

\* The variables keep their types for any numbers of sessions, farmers and tokens.
THEOREM TypeCorrect == Spec => []TypeOK
<1>1. Inv => TypeOK
  BY DEF Inv
<1> QED
  BY <1>1, Invariance, PTL

\* Tokens are numbered 1, 2, 3 ... by the queue's lock alone.
THEOREM NumbersAreDense == Spec => []NumbersDense
<1>1. Inv => NumbersDense
  BY DEF Inv, TableInv
<1> QED
  BY <1>1, Invariance, PTL

\* No interleaving gives a farmer two active tokens in a queue.
THEOREM OneActiveToken == Spec => []OneActiveTokenPerFarmer
<1>1. Inv => OneActiveTokenPerFarmer
  BY DEF Inv, TableInv
<1> QED
  BY <1>1, Invariance, PTL

\* called_at orders the called tokens by their numbers.
THEOREM CallsAreInOrder == Spec => []CalledInOrder
<1>1. Inv => CalledInOrder
  BY DEF Inv, TypeOK, TableInv, NumbersDense, CalledInOrder
<1> QED
  BY <1>1, Invariance, PTL

\* "ok" means one commit; every refusal but an HTTP 500 means none.
THEOREM AnswersAreTrue == Spec => []AnswersMatchCommits
<1>1. Inv => AnswersMatchCommits
  BY DEF Inv, LocalsInv, AnswersMatchCommits
<1> QED
  BY <1>1, Invariance, PTL

\* The unhandled collision of two joins on a position cannot happen.
THEOREM NoCollision == Spec => []JoinsNeverCollide
<1>1. Inv => JoinsNeverCollide
  BY DEF Inv, LocalsInv, JoinsNeverCollide
<1> QED
  BY <1>1, Invariance, PTL

\* A step of another session does not answer for s, and of the steps of s at its scan
\* only NothingWaits answers "NotFound".
LEMMA EmptyAnswerStep ==
    ASSUME Inv, Next, NEW s \in Sessions, pc[s] = "scan", out'[s] = "NotFound"
    PROVE  NothingWaits(s)
<1>1. out[s] = "none"
  BY DEF Inv, LocalsInv
<1>2. PICK o \in Sessions : Submit(o) \/ Step(o) \/ Fault(o) \/ Finish(o)
  BY <1>1 DEF Next, SetOpen, session
<1> USE DEF Answer, Fail, Goto
<1>3. o = s
  BY <1>1, <1>2 DEF Inv, TypeOK, Submit, SubmitJoin, SubmitCall, SubmitTokenOp, Begin, Refuse,
     Step, LockQueue, CheckActive, TakeNumbers, InsertRows, SelectWaiting, ScanNext, NothingWaits,
     LockToken, Commit, Refresh, Fault, RefreshFails, StatementFails, DeadlockVictim,
     RetryAttempt, Finish
<1>4. ~ Submit(s) /\ ~ Finish(s)
  BY DEF Submit, SubmitJoin, SubmitCall, SubmitTokenOp, Finish
<1>5. ~ Fault(s)
  BY <1>1 DEF Inv, TypeOK, Fault, RefreshFails, StatementFails, DeadlockVictim, RetryAttempt
<1>6. Step(s)
  BY <1>2, <1>3, <1>4, <1>5
<1> QED
  BY <1>1, <1>6 DEF Step, LockQueue, CheckActive, TakeNumbers, InsertRows, SelectWaiting, ScanNext,
     LockToken, Commit, Refresh

\* call_next answers "No waiting tokens found" only when no committed token waits.
THEOREM EmptyAnswers == Spec => EmptyAnswerIsTrue
<1>1. ASSUME Inv, Next, NEW s \in Sessions, pc[s] = "scan", out'[s] = "NotFound"
      PROVE  \A i \in DOMAIN tokens : ~ IsWaiting(tokens[i])
  <2>1. snap[s] = {}
    BY <1>1, EmptyAnswerStep DEF NothingWaits
  <2>2. Calling(s) /\ CallInv(s)
    BY <1>1 DEF Inv, LocalsInv, Calling, AttemptSteps, StepsOf, Requests, QueueOps, TokenOps
  <2> QED
    BY <1>1, <2>1, <2>2 DEF CallInv
<1>2. Inv /\ [Next]_vars =>
        [\A s \in Sessions :
            pc[s] = "scan" /\ out'[s] = "NotFound" =>
                \A i \in DOMAIN tokens : ~ IsWaiting(tokens[i])]_vars
  BY <1>1
<1> QED
  BY <1>2, Invariance, PTL DEF Spec, EmptyAnswerIsTrue

-----------------------------------------------------------------------------
(* Who may change what                                                     *)

\* What the checks of a request have established at each of its later steps.
AuthInv(s) ==
    pc[s] \in AttemptSteps =>
        /\ req[s].op # "call" => req[s].counter = NoCounter
        /\ req[s].actor \notin Officers =>
            /\ req[s].op \in {"join", "cancel"}
            /\ req[s].op = "join" => req[s].farmer = req[s].actor
        /\ pc[s] \notin {"lockQueue", "lockToken"} =>
            /\ ~ OutsideCentre(req[s].actor)
            /\ req[s].counter \in LocalCounters \union {NoCounter}
        /\ pc[s] = "commit" /\ req[s].actor \notin Officers => write[s].row.farmer = req[s].actor

LEMMA SubmitAuthorised == ASSUME NEW s \in Sessions, Inv, Submit(s) PROVE AuthInv(s)'
<1>1. ASSUME NEW actor \in Actors, NEW f \in FarmerArguments, SubmitJoin(s, actor, f) PROVE AuthInv(s)'
  <2>1. CASE MayJoin(actor, f)
    <3> DEFINE r == [Request("join", actor) EXCEPT !.farmer = TargetFarmer(actor, f)]
    <3>1. /\ r.op = "join" /\ r.actor = actor /\ r.counter = NoCounter
          /\ actor \notin Officers => r.farmer = actor
      BY <2>1 DEF Request, TargetFarmer, MayJoin
    <3>2. Begin(s, r)
      BY <1>1, <2>1 DEF SubmitJoin
    <3> HIDE DEF r
    <3>3. pc'[s] = "lockQueue" /\ req'[s] = r
      BY <3>1, <3>2 DEF Begin, Goto, FirstStep, QueueOps, Inv, TypeOK
    <3> QED
      BY <3>1, <3>3 DEF AuthInv
  <2>2. CASE ~ MayJoin(actor, f)
    BY <1>1, <2>2 DEF SubmitJoin, Refuse, Answer, Goto, Inv, TypeOK, AuthInv, AttemptSteps
  <2> QED
    BY <2>1, <2>2
<1>2. ASSUME NEW actor \in Actors, NEW c \in CounterArguments, SubmitCall(s, actor, c) PROVE AuthInv(s)'
  <2>1. CASE actor \in Officers
    <3> DEFINE r == [Request("call", actor) EXCEPT !.counter = c]
    <3>1. pc'[s] = "lockQueue" /\ req'[s] = r
      BY <1>2, <2>1 DEF SubmitCall, Begin, Goto, FirstStep, QueueOps, Request, Inv, TypeOK
    <3>2. r.op = "call" /\ r.actor = actor
      BY DEF Request
    <3> QED
      BY <2>1, <3>1, <3>2 DEF AuthInv
  <2>2. CASE actor \notin Officers
    BY <1>2, <2>2 DEF SubmitCall, Refuse, Answer, Goto, Inv, TypeOK, AuthInv, AttemptSteps
  <2> QED
    BY <2>1, <2>2
<1>3. ASSUME NEW actor \in Actors, NEW op \in TokenOps, NEW i \in 0 .. Len(tokens),
             SubmitTokenOp(s, op, actor, i)
      PROVE  AuthInv(s)'
  <2>1. CASE actor \in Officers \/ op = "cancel"
    <3> DEFINE r == [Request(op, actor) EXCEPT !.token = i]
    <3>1. pc'[s] = "lockToken" /\ req'[s] = r
      BY <1>3, <2>1 DEF SubmitTokenOp, Begin, Goto, FirstStep, QueueOps, TokenOps, Request, Inv, TypeOK
    <3>2. r.op = op /\ r.actor = actor /\ r.counter = NoCounter
      BY DEF Request
    <3> QED
      BY <2>1, <3>1, <3>2 DEF AuthInv
  <2>2. CASE ~ (actor \in Officers \/ op = "cancel")
    BY <1>3, <2>2 DEF SubmitTokenOp, Refuse, Answer, Goto, Inv, TypeOK, AuthInv, AttemptSteps
  <2> QED
    BY <2>1, <2>2
<1> QED
  BY <1>1, <1>2, <1>3 DEF Submit

\* The checks that are made once the row is locked.
LEMMA LockAuthorised ==
    ASSUME NEW s \in Sessions, Inv, AuthInv(s), LockQueue(s) \/ LockToken(s)
    PROVE  AuthInv(s)'
<1>1. ASSUME NEW e \in Outcomes, Fail(s, e) PROVE AuthInv(s)'
  BY <1>1 DEF Fail, Answer, Goto, Inv, TypeOK, AuthInv, AttemptSteps
<1>2. CASE LockQueue(s)
  <2>1. /\ pc[s] = "lockQueue" /\ req[s] \in Requests /\ req[s].op \in QueueOps
        /\ QueueVerdict(req[s]) \in Outcomes
    BY <1>2 DEF LockQueue, Inv, LocalsInv, AttemptSteps, StepsOf, QueueOps, TokenOps, Requests,
       QueueVerdict, Outcomes
  <2>2. CASE QueueVerdict(req[s]) = "ok"
    <3>1. pc'[s] \in {"checkActive", "select"} /\ req' = req
      BY <1>2, <2>2 DEF LockQueue, Goto, Inv, TypeOK
    <3>2. ~ OutsideCentre(req[s].actor)
      BY <2>2 DEF QueueVerdict
    <3>3. req[s].op = "call" => req[s].counter \in LocalCounters \union {NoCounter}
      BY <2>1, <2>2 DEF QueueVerdict, Requests, CounterArguments
    <3> QED
      BY <2>1, <3>1, <3>2, <3>3 DEF AuthInv, AttemptSteps, OutsideCentre
  <2>3. CASE QueueVerdict(req[s]) # "ok"
    BY <1>1, <1>2, <2>1, <2>3 DEF LockQueue
  <2> QED
    BY <2>2, <2>3
<1>3. CASE LockToken(s)
  <2>1. /\ pc[s] = "lockToken" /\ req[s] \in Requests /\ req[s].op \in TokenOps
        /\ TokenVerdict(req[s]) \in Outcomes
    BY <1>3 DEF LockToken, Inv, LocalsInv, AttemptSteps, StepsOf, QueueOps, TokenOps, Requests,
       TokenVerdict, Outcomes, IllegalTransition
  <2>2. CASE TokenVerdict(req[s]) = "ok"
    <3> DEFINE row == tokens[req[s].token]
    <3>1. /\ pc'[s] = "commit" /\ req' = req
          /\ write'[s].row = MovedRow(row, ToStatus(req[s].op))
      BY <1>3, <2>2 DEF LockToken, Goto, Inv, TypeOK
    <3>2. req[s].token \in DOMAIN tokens /\ MayOperate(req[s], row)
      BY <2>2 DEF TokenVerdict, IllegalTransition
    <3>3. row \in Rows
      BY <3>2 DEF Inv, TypeOK
    <3>4. MovedRow(row, ToStatus(req[s].op)).farmer = row.farmer
      BY <3>3 DEF MovedRow, Rows
    <3>5. /\ ~ OutsideCentre(req[s].actor)
          /\ req[s].actor \notin Officers => row.farmer = req[s].actor
      BY <3>2 DEF MayOperate, OutsideCentre
    <3>6. req[s].counter = NoCounter
      BY <2>1 DEF AuthInv, AttemptSteps, TokenOps
    <3> HIDE DEF row
    <3> QED
      BY <2>1, <3>1, <3>4, <3>5, <3>6 DEF AuthInv, AttemptSteps, OutsideCentre, TokenOps
  <2>3. CASE TokenVerdict(req[s]) # "ok"
    BY <1>1, <1>3, <2>1, <2>3 DEF LockToken
  <2> QED
    BY <2>2, <2>3
<1> QED
  BY <1>2, <1>3

\* The row a join inserts belongs to the farmer of its request.
LEMMA InsertsTheRequestedFarmer ==
    ASSUME NEW s \in Sessions, Inv, InsertRows(s)
    PROVE  pc[s] = "insert" /\ write[s].row.farmer = req[s].farmer
<1>1. pc[s] = "insert"
  BY DEF InsertRows
<1>2. write[s].row = NewRow(req[s].farmer, Len(tokens) + 1, Len(tokens) + 1)
  BY <1>1, InsertFindsNumbersFree
<1> QED
  BY <1>1, <1>2 DEF NewRow

LEMMA LaterStepsAuthorised ==
    ASSUME NEW s \in Sessions, Inv, AuthInv(s), Step(s) \/ Fault(s) \/ Finish(s)
    PROVE  AuthInv(s)'
<1> USE DEF Goto, Inv, TypeOK, AuthInv
<1>1. ASSUME NEW e, Fail(s, e) PROVE AuthInv(s)'
  BY <1>1 DEF Fail, Answer, AttemptSteps
<1>2. CASE CheckActive(s) \/ SelectWaiting(s) \/ NothingWaits(s)
  BY <1>1, <1>2 DEF CheckActive, SelectWaiting, NothingWaits, AttemptSteps
<1>3. CASE TakeNumbers(s)
  BY <1>1, <1>3 DEF TakeNumbers, AttemptSteps
<1>4. CASE InsertRows(s)
  <2>1. pc[s] = "insert" /\ write[s].row.farmer = req[s].farmer
    BY <1>4, InsertsTheRequestedFarmer
  <2>2. req[s].op = "join"
    BY <2>1 DEF LocalsInv, AttemptSteps, StepsOf, Requests, QueueOps, TokenOps
  <2> QED
    BY <1>1, <1>4, <2>1, <2>2 DEF InsertRows, AttemptSteps
<1>5. CASE ScanNext(s)
  <2>1. req[s].op = "call" /\ pc[s] = "scan"
    BY <1>5 DEF ScanNext, LocalsInv, AttemptSteps, StepsOf, Requests, QueueOps, TokenOps
  <2>2. req' = req /\ pc'[s] \in {"scan", "commit"}
    BY <1>5, <2>1 DEF ScanNext
  <2> QED
    BY <2>1, <2>2 DEF AttemptSteps
<1>6. CASE Commit(s) \/ Refresh(s) \/ Finish(s) \/ RefreshFails(s) \/ StatementFails(s)
  BY <1>1, <1>6 DEF Commit, Refresh, Answer, Finish, RefreshFails, StatementFails, AttemptSteps
<1>7. CASE DeadlockVictim(s)
  <2>1. pc[s] \in AttemptSteps
    BY <1>7 DEF DeadlockVictim, WaitsForLock, AttemptSteps
  <2>2. CASE RetryAttempt(s)
    BY <2>1, <2>2 DEF RetryAttempt, FirstStep, AttemptSteps
  <2> QED
    BY <1>1, <1>7, <2>2 DEF DeadlockVictim
<1> HIDE DEF Goto, Inv, TypeOK, AuthInv
<1> QED
  BY <1>2, <1>3, <1>4, <1>5, <1>6, <1>7, LockAuthorised DEF Step, Fault

\* A step of one session leaves the requests of the others as they are.
LEMMA OthersAreLeftAlone ==
    ASSUME Inv, NEW s \in Sessions, Submit(s) \/ Step(s) \/ Fault(s) \/ Finish(s),
           NEW o \in Sessions \ {s}
    PROVE  pc'[o] = pc[o] /\ req'[o] = req[o] /\ write'[o] = write[o] /\ commits'[o] = commits[o]
<1> USE DEF Goto, Fail, Answer, EndTransaction, Inv, TypeOK
<1>1. CASE Submit(s) \/ Finish(s)
  BY <1>1 DEF Submit, SubmitJoin, SubmitCall, SubmitTokenOp, Begin, Refuse, Finish
<1>2. CASE Fault(s)
  BY <1>2 DEF Fault, RefreshFails, StatementFails, DeadlockVictim, RetryAttempt
<1>3. CASE LockQueue(s) \/ CheckActive(s) \/ TakeNumbers(s) \/ InsertRows(s)
  BY <1>3 DEF LockQueue, CheckActive, TakeNumbers, InsertRows
<1>4. CASE SelectWaiting(s) \/ ScanNext(s) \/ NothingWaits(s) \/ LockToken(s)
  BY <1>4 DEF SelectWaiting, ScanNext, NothingWaits, LockToken
<1>5. CASE Commit(s) \/ Refresh(s)
  BY <1>5 DEF Commit, Refresh
<1> QED
  BY <1>1, <1>2, <1>3, <1>4, <1>5 DEF Step

\* Only a commit of s moves its count up.
LEMMA CountedCommit ==
    ASSUME Inv, Next, NEW s \in Sessions, commits'[s] > commits[s]
    PROVE  Commit(s)
<1>1. commits \in [Sessions -> Nat]
  BY DEF Inv, TypeOK
<1>2. PICK o \in Sessions : Submit(o) \/ Step(o) \/ Fault(o) \/ Finish(o)
  BY <1>1 DEF Next, SetOpen, session
<1>3. o = s
  BY <1>1, <1>2, OthersAreLeftAlone
<1>4. ~ Submit(s) /\ ~ Fault(s) /\ ~ Finish(s)
  BY <1>1 DEF Submit, SubmitJoin, SubmitCall, SubmitTokenOp, Begin, Refuse, Fault, RefreshFails,
     StatementFails, DeadlockVictim, RetryAttempt, Fail, Finish
<1>5. Step(s)
  BY <1>2, <1>3, <1>4
<1> QED
  BY <1>1, <1>5 DEF Step, LockQueue, CheckActive, TakeNumbers, InsertRows, SelectWaiting, ScanNext,
     NothingWaits, LockToken, Refresh, Fail

\* Whatever is committed, the request's user may change.
THEOREM AuthorisedCommits == Spec => CommitsAreAuthorised
<1> DEFINE Auth == \A s \in Sessions : AuthInv(s)
<1>1. Init => Auth
  BY DEF Init, AuthInv, AttemptSteps
<1>2. Inv /\ Auth /\ [Next]_vars => Auth'
  <2> SUFFICES ASSUME Inv, Auth, [Next]_vars, NEW o \in Sessions PROVE AuthInv(o)'
    OBVIOUS
  <2>1. CASE SetOpen \/ UNCHANGED vars
    BY <2>1 DEF SetOpen, vars, session, AuthInv
  <2>2. ASSUME NEW s \in Sessions, Submit(s) \/ Step(s) \/ Fault(s) \/ Finish(s), s # o
        PROVE  AuthInv(o)'
    <3>1. pc'[o] = pc[o] /\ req'[o] = req[o] /\ write'[o] = write[o]
      BY <2>2, OthersAreLeftAlone
    <3> QED
      BY <3>1 DEF AuthInv
  <2>3. CASE Submit(o) \/ Step(o) \/ Fault(o) \/ Finish(o)
    BY <2>3, SubmitAuthorised, LaterStepsAuthorised
  <2> QED
    BY <2>1, <2>2, <2>3 DEF Next
<1>3. ASSUME Inv, Auth, Next, NEW s \in Sessions, commits'[s] > commits[s]
      PROVE  MayCommit(req[s], write[s].row)
  <2>1. pc[s] = "commit"
    BY <1>3, CountedCommit DEF Commit
  <2>2. req[s].actor \in Officers => req[s].actor \in LocalOfficers
    BY <1>3, <2>1 DEF AuthInv, AttemptSteps, OutsideCentre
  <2> QED
    BY <1>3, <2>1, <2>2, UsersAssumption DEF AuthInv, AttemptSteps, MayCommit
<1>4. Inv /\ Auth /\ [Next]_vars =>
        [\A s \in Sessions : commits'[s] > commits[s] => MayCommit(req[s], write[s].row)]_vars
  BY <1>3
<1> QED
  BY <1>1, <1>2, <1>4, Invariance, PTL DEF Spec, CommitsAreAuthorised

-----------------------------------------------------------------------------
(* QueueService implements TokenQueue                                      *)

\* Only a commit and SetOpen change what is committed.
LEMMA OnlyCommitsChange ==
    ASSUME NEW s \in Sessions, Submit(s) \/ Step(s) \/ Fault(s) \/ Finish(s), ~ Commit(s)
    PROVE  UNCHANGED db
  BY DEF Submit, SubmitJoin, SubmitCall, SubmitTokenOp, Begin, Refuse, Fail, Step, LockQueue,
     CheckActive, TakeNumbers, InsertRows, SelectWaiting, ScanNext, NothingWaits, LockToken,
     Refresh, Fault, RefreshFails, StatementFails, DeadlockVictim, RetryAttempt, Finish

\* Each commit is one step of the line of tokens.
LEMMA CommitIsOneStep == ASSUME NEW s \in Sessions, Inv, Commit(s) PROVE Line!Next
<1>1. /\ pc[s] = "commit" /\ open' = open
      /\ Len(tokens) \in Nat /\ DOMAIN tokens = 1 .. Len(tokens)
  BY DEF Commit, Inv, TypeOK
<1>2. JoinInv(s) /\ CallInv(s) /\ MoveInv(s)
  BY DEF Inv
<1>3. CASE Joining(s)
  <2> DEFINE f == req[s].farmer
  <2>1. /\ open /\ f \in Farmers /\ ~ HasActiveToken(f) /\ req[s].op = "join"
        /\ write[s] = [id |-> 0, row |-> NewRow(f, Len(tokens) + 1, Len(tokens) + 1)]
    BY <1>1, <1>2, <1>3 DEF JoinInv, Joining
  <2>2. /\ tokens' = Append(tokens, NewRow(f, Len(tokens) + 1, Len(tokens) + 1))
        /\ clock' = clock
    BY <2>1 DEF Commit
  <2>3. Line!Join(f)
    BY <1>1, <2>1, <2>2 DEF Line!Join, HasActiveToken, IsActive, ActiveStatuses, Line!IsActive,
       Line!ActiveStatuses, NewRow, Line!NewRow
  <2> QED
    BY <2>1, <2>3 DEF Line!Next
<1>4. CASE Calling(s)
  <2> DEFINE i == rowLock[s]
  <2>1. i \in DOMAIN tokens /\ req[s].counter \in Counters \union {NoCounter}
    BY <1>1, <1>2, <1>4 DEF CallInv
  <2>2. /\ IsWaiting(tokens[i]) /\ \A j \in 1 .. i - 1 : ~ IsWaiting(tokens[j])
        /\ write[s] = [id |-> i, row |-> CalledRow(tokens[i], req[s].counter, clock)]
        /\ req[s].op = "call"
    BY <1>1, <1>2, <1>4 DEF CallInv, Calling
  <2>3. tokens' = [tokens EXCEPT ![i] = CalledRow(tokens[i], req[s].counter, clock)]
    BY <2>1, <2>2, CommitReplaces
  <2>4. clock' = clock + 1
    BY <2>2 DEF Commit
  <2>5. Line!CallNext(i, req[s].counter)
    BY <1>1, <2>1, <2>2, <2>3, <2>4 DEF Line!CallNext, IsWaiting, Line!IsWaiting, CalledRow,
       Line!CalledRow
  <2> QED
    BY <2>1, <2>5 DEF Line!Next
<1>5. CASE Moving(s)
  <2> DEFINE i == rowLock[s]
  <2>1. i \in DOMAIN tokens /\ req[s].op \in TokenOps
    BY <1>1, <1>2, <1>5 DEF MoveInv, Moving
  <2>2. /\ tokens[i].status = FromStatus(req[s].op)
        /\ write[s] = [id |-> i, row |-> MovedRow(tokens[i], ToStatus(req[s].op))]
    BY <1>1, <1>2, <1>5 DEF MoveInv
  <2>3. tokens' = [tokens EXCEPT ![i] = MovedRow(tokens[i], ToStatus(req[s].op))]
    BY <2>1, <2>2, CommitReplaces
  <2>4. clock' = clock
    BY <2>1 DEF Commit, TokenOps
  <2>5. Line!Move(i, req[s].op)
    BY <1>1, <2>1, <2>2, <2>3, <2>4 DEF Line!Move, TokenOps, FromStatus, Line!FromStatus, ToStatus,
       Line!ToStatus, MovedRow, Line!MovedRow
  <2> QED
    BY <2>1, <2>5 DEF Line!Next, TokenOps, Line!TokenOps
<1> QED
  BY <1>1, <1>3, <1>4, <1>5, CommitCases

\* Every request takes effect at once, at its commit, as the queue promises, or not at all.
THEOREM Refinement == Spec => ImplementsTokenQueue
<1>1. Init => Line!Init
  BY DEF Init, Line!Init
<1>2. Inv /\ [Next]_vars => [Line!Next]_(Line!vars)
  <2> SUFFICES ASSUME Inv, [Next]_vars PROVE Line!Next \/ UNCHANGED Line!vars
    OBVIOUS
  <2>1. CASE SetOpen
    BY <2>1 DEF SetOpen, Line!Next, Line!SetOpen
  <2>2. ASSUME NEW s \in Sessions, Submit(s) \/ Step(s) \/ Fault(s) \/ Finish(s)
        PROVE  Line!Next \/ UNCHANGED Line!vars
    BY <2>2, CommitIsOneStep, OnlyCommitsChange DEF db, Line!vars
  <2>3. CASE UNCHANGED vars
    BY <2>3 DEF vars, db, Line!vars
  <2> QED
    BY <2>1, <2>2, <2>3 DEF Next
<1> QED
  BY <1>1, <1>2, Invariance, PTL DEF Spec, ImplementsTokenQueue, Line!Spec
=============================================================================
