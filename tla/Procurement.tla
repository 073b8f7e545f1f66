---------------------------- MODULE Procurement -----------------------------
(***************************************************************************)
(* ProcurementService.create_procurement_intent (app/services/procurement.py)*)
(* as concurrent requests for one centre and crop.  A request is one READ   *)
(* COMMITTED transaction that locks nothing: what it checks may change      *)
(* before it inserts, and the unique index is all that two requests share.  *)
(***************************************************************************)
EXTENDS IntentTable, FiniteSetsExt

CONSTANTS
    Sessions,       \* request-scoped database sessions
    Officers,       \* users of role OFFICER
    LocalOfficers,  \* ... those whose centre_id is Centre
    Strangers,      \* authenticated subjects with no row in table users
    Centre, Crop,   \* the centre and crop of this instance
    Holdings,       \* land holdings ...
    Owner,          \* ... and the farmer of each
    UnknownIds,     \* ids of no record
    NoFarmer,       \* a request without farmer_id
    NoRow, NoRequest,
    MaxIntents,     \* bound: how many intents are ever created
    Mutable         \* bound: the records whose `active` flag changes

VARIABLES
    intents,  \* committed rows, in commit order
    active,   \* the records whose `active` flag is set
    pc, req,  \* per session: next step, request
    seen,     \* ... the records it loaded and found active
    write,    \* ... its uncommitted row
    out,      \* ... how the request ended
    commits,  \* ... history: transactions committed for the request
    lived,    \* ... history: the records active at some moment of the request
    saw,      \* ... history: how many intents there were when it looked for open ones
    checked   \* history: `saw` of the request that created each intent

db      == <<intents, active>>
session == <<pc, req, seen, write, out, commits>>
history == <<lived, saw, checked>>
vars    == <<db, session, history>>

Records == Farmers \union Holdings \union {Centre, Crop}
HoldingsOf(farmer) == {h \in Holdings : Owner[h] = farmer}

Requests ==
    [actor: Farmers \union Officers \union Strangers,
     farmer: Farmers \union UnknownIds \union {NoFarmer},
     centre: {Centre} \union UnknownIds,
     crop: {Crop} \union UnknownIds,
     holding: Holdings \union UnknownIds,
     date: Dates, quantity: Quantities]

ASSUME RecordsAssumption ==
    /\ Owner \in [Holdings -> Farmers]
    /\ LocalOfficers \subseteq Officers
    /\ Strangers \intersect (Farmers \union Officers) = {}
    /\ Farmers \intersect Officers = {}
    /\ (UnknownIds \union {NoFarmer}) \intersect Records = {}
    /\ NoFarmer \notin UnknownIds
    /\ Mutable \subseteq Records
ASSUME NullsAssumption == NoRow \notin Intents /\ NoRequest \notin Requests
ASSUME BoundAssumption == MaxIntents \in Nat

Outcomes ==
    {"none", "ok", "PermissionDenied", "Validation", "NotFound", "Conflict", "DBAPIError"}

AttemptSteps == {"farmer", "centre", "crop", "holdings", "intents", "insert", "commit"}
Steps == AttemptSteps \union {"idle", "refresh", "done"}

InFlight == {s \in Sessions : pc[s] \in AttemptSteps}

-----------------------------------------------------------------------------
Goto(s, step) == pc' = [pc EXCEPT ![s] = step]

\* The transaction is over, and only the answer is left of the request.
Answer(s, outcome) ==
    /\ Goto(s, "done")
    /\ out' = [out EXCEPT ![s] = outcome]
    /\ req' = [req EXCEPT ![s] = NoRequest]
    /\ seen' = [seen EXCEPT ![s] = {}]
    /\ write' = [write EXCEPT ![s] = NoRow]
    /\ lived' = [lived EXCEPT ![s] = {}]
    /\ saw' = [saw EXCEPT ![s] = 0]

Fail(s, outcome) ==
    /\ Answer(s, outcome)
    /\ UNCHANGED <<db, commits, checked>>

-----------------------------------------------------------------------------
(* The request: its user, and whom it is for                               *)

\* Mutant: the centre of the officer is not compared with that of the request.
OfficerOfAnyCentre(r) == r.centre = Centre

OfficerOfCentre(r) == r.actor \in LocalOfficers /\ r.centre = Centre

UserVerdict(r) ==
    IF r.actor \in Strangers THEN "NotFound"
    ELSE IF r.actor \in Farmers
         THEN IF r.farmer \in {NoFarmer, r.actor} THEN "ok" ELSE "PermissionDenied"
    ELSE IF r.farmer = NoFarmer THEN "Validation"
    ELSE IF OfficerOfCentre(r) THEN "ok" ELSE "PermissionDenied"

\* Mutant: the farmer_id of the client is used as it was sent.
AsSent(r) == r

\* A farmer's request is for that farmer, whatever farmer_id it leaves out.
Effective(r) == IF r.actor \in Farmers THEN [r EXCEPT !.farmer = r.actor] ELSE r

Submit(s, r) ==
    /\ pc[s] = "idle"
    /\ IF UserVerdict(r) = "ok"
       THEN /\ Len(intents) + Cardinality(InFlight) < MaxIntents
            /\ req' = [req EXCEPT ![s] = Effective(r)]
            /\ lived' = [lived EXCEPT ![s] = active]
            /\ Goto(s, "farmer")
            /\ UNCHANGED <<db, seen, write, out, commits, saw, checked>>
       ELSE Fail(s, UserVerdict(r))

-----------------------------------------------------------------------------
(* The records, one statement each                                         *)

Wanted(r) == [farmer |-> r.farmer, centre |-> r.centre, crop |-> r.crop]
After == [farmer |-> "centre", centre |-> "crop", crop |-> "holdings"]

LoadRecord(s) ==
    LET id == Wanted(req[s])[pc[s]]
    IN  /\ pc[s] \in DOMAIN After
        /\ IF id \in Records
           THEN /\ seen' = [seen EXCEPT ![s] = @ \union ({id} \intersect active)]
                /\ Goto(s, After[pc[s]])
                /\ UNCHANGED <<db, req, write, out, commits, history>>
           ELSE Fail(s, "NotFound")

LoadHoldings(s) ==
    LET held == HoldingsOf(req[s].farmer)
    IN  /\ pc[s] = "holdings"
        /\ IF req[s].holding \in held
           THEN /\ seen' = [seen EXCEPT ![s] = @ \union (held \intersect active)]
                /\ Goto(s, "intents")
                /\ UNCHANGED <<db, req, write, out, commits, history>>
           ELSE Fail(s, "Validation")

-----------------------------------------------------------------------------
(* The rules                                                               *)

\* Mutant: an approved intent is no longer seen as a request under way.
PendingOnly == {"PENDING"}

\* The list of get_active_intents_for_farmer.
ActiveIntentStatuses == {"PENDING", "APPROVED"}

ActiveIntentsOf(farmer) ==
    {i \in DOMAIN intents : intents[i].farmer = farmer /\ intents[i].status \in ActiveIntentStatuses}

\* Mutant: any holding will do, active or not.
AnyHolding(r, known) == HoldingsOf(r.farmer) # {}

\* RULE-004 asks for some active holding, not for the one the request names.
HasActiveHolding(r, known) == HoldingsOf(r.farmer) \intersect known # {}

\* The rules that fail on the records found active and the open intents.
FailingRules(r, known, open) ==
    {rule \in 1 .. 5 :
        \/ rule = 1 /\ r.farmer \notin known
        \/ rule = 2 /\ r.centre \notin known
        \/ rule = 3 /\ r.crop \notin known
        \/ rule = 4 /\ ~ HasActiveHolding(r, known)
        \/ rule = 5 /\ open # {}}

\* The engine stops at the first failure; only RULE-005 is a conflict.
RulesVerdict(r, known, open) ==
    LET failing == FailingRules(r, known, open)
    IN  IF failing = {} THEN "ok"
        ELSE IF failing = {5} THEN "Conflict"
        ELSE "Validation"

ReadIntents(s) ==
    LET verdict == RulesVerdict(req[s], seen[s], ActiveIntentsOf(req[s].farmer))
    IN  /\ pc[s] = "intents"
        /\ IF verdict = "ok"
           THEN /\ saw' = [saw EXCEPT ![s] = Len(intents)]
                /\ Goto(s, "insert")
                /\ UNCHANGED <<db, req, seen, write, out, commits, lived, checked>>
           ELSE Fail(s, verdict)

-----------------------------------------------------------------------------
(* Insert and commit                                                       *)

\* Mutant: the index covers the approved intents only.
TakenWhenApproved(intent) == intent.status = "APPROVED"

\* The predicate of uq_active_intent_slot.
TakesSlot(intent) == IsOpen(intent)

SlotTaken(farmer, date) ==
    \E i \in DOMAIN intents :
        TakesSlot(intents[i]) /\ intents[i].farmer = farmer /\ intents[i].date = date

\* The index makes an insert wait for the transaction that inserted an equal key.
InsertMayProceed(s) ==
    \A o \in Sessions \ {s} :
        pc[o] = "commit" =>
            <<write[o].farmer, write[o].date>> # <<req[s].farmer, req[s].date>>

InsertIntent(s) ==
    LET r == req[s]
    IN  /\ pc[s] = "insert"
        /\ InsertMayProceed(s)
        /\ IF SlotTaken(r.farmer, r.date)
           THEN Fail(s, "Conflict")
           ELSE /\ \E created \in Stamps :
                    write' = [write EXCEPT ![s] = NewIntent(r.farmer, r.date, r.quantity, created)]
                /\ Goto(s, "commit")
                /\ UNCHANGED <<db, req, seen, out, commits, history>>

\* Mutant: the flushed row is answered and never committed.
FlushedOnly(s) ==
    /\ pc[s] = "commit"
    /\ Goto(s, "refresh")
    /\ UNCHANGED <<db, req, seen, write, out, commits, history>>

Commit(s) ==
    /\ pc[s] = "commit"
    /\ intents' = Append(intents, write[s])
    /\ checked' = Append(checked, saw[s])
    /\ write' = [write EXCEPT ![s] = NoRow]
    /\ commits' = [commits EXCEPT ![s] = @ + 1]
    /\ Goto(s, "refresh")
    /\ UNCHANGED <<active, req, seen, out, lived, saw>>

Refresh(s) ==
    /\ pc[s] = "refresh"
    /\ Answer(s, "ok")
    /\ UNCHANGED <<db, commits, checked>>

\* Any statement may fail: the refresh after the commit, too.  Nothing is retried.
StatementFails(s) ==
    /\ pc[s] \in AttemptSteps \union {"refresh"}
    /\ Fail(s, "DBAPIError")

Finish(s) ==
    /\ pc[s] = "done"
    /\ Goto(s, "idle")
    /\ out' = [out EXCEPT ![s] = "none"]
    /\ commits' = [commits EXCEPT ![s] = 0]
    /\ UNCHANGED <<db, req, seen, write, history>>

-----------------------------------------------------------------------------
(* Outside src/: records are switched on and off, intents are decided.      *)

SetActive(record) ==
    /\ active' = IF record \in active THEN active \ {record} ELSE active \union {record}
    /\ lived' = [s \in Sessions |-> IF s \in InFlight THEN lived[s] \union active' ELSE lived[s]]
    /\ UNCHANGED <<intents, session, saw, checked>>

Decide(i, status) ==
    /\ status \in Decisions(intents[i].status)
    /\ intents' = [intents EXCEPT ![i].status = status]
    /\ UNCHANGED <<active, session, history>>

-----------------------------------------------------------------------------
Init ==
    /\ intents = << >>
    /\ active = Records
    /\ pc = [s \in Sessions |-> "idle"]
    /\ req = [s \in Sessions |-> NoRequest]
    /\ seen = [s \in Sessions |-> {}]
    /\ write = [s \in Sessions |-> NoRow]
    /\ out = [s \in Sessions |-> "none"]
    /\ commits = [s \in Sessions |-> 0]
    /\ lived = [s \in Sessions |-> {}]
    /\ saw = [s \in Sessions |-> 0]
    /\ checked = << >>

Step(s) ==
    \/ LoadRecord(s)
    \/ LoadHoldings(s)
    \/ ReadIntents(s)
    \/ InsertIntent(s)
    \/ Commit(s)
    \/ Refresh(s)

Next ==
    \/ \E s \in Sessions :
        \/ \E r \in Requests : Submit(s, r)
        \/ Step(s)
        \/ StatementFails(s)
        \/ Finish(s)
    \/ \E record \in Mutable : SetActive(record)
    \/ \E i \in DOMAIN intents, status \in IntentStatuses : Decide(i, status)

Spec == Init /\ [][Next]_vars

-----------------------------------------------------------------------------
(* Properties                                                              *)

\* Every variable has its type; a request under way is for some farmer_id, and there is
\* one check per intent.
TypeOK ==
    /\ intents \in Seq(Intents)
    /\ active \subseteq Records
    /\ pc \in [Sessions -> Steps]
    /\ req \in [Sessions -> Requests \union {NoRequest}]
    /\ seen \in [Sessions -> SUBSET Records]
    /\ write \in [Sessions -> Intents \union {NoRow}]
    /\ out \in [Sessions -> Outcomes]
    /\ commits \in [Sessions -> Nat]
    /\ lived \in [Sessions -> SUBSET Records]
    /\ saw \in [Sessions -> Nat]
    /\ checked \in Seq(Nat)
    /\ Len(checked) = Len(intents)
    /\ \A s \in InFlight : req[s] # NoRequest /\ req[s].farmer # NoFarmer

\* RULE-005 is checked without a lock, yet a farmer has two open requests for a crop at
\* a centre only if the requests overlapped: the later one looked for open intents
\* before the earlier one committed (create_procurement_intent, steps 4 to 7).
DuplicatesOnlyFromOverlap ==
    \A i, j \in DOMAIN intents :
        /\ i < j
        /\ IsOpen(intents[i]) /\ IsOpen(intents[j])
        /\ intents[i].farmer = intents[j].farmer
        => checked[j] < i

\* The client is told what was done: "ok" after one commit and a refusal after none, so
\* only HTTP 500 may stand for an intent that exists.
AnswersMatchCommits ==
    \A s \in Sessions :
        /\ commits[s] <= 1
        /\ out[s] = "ok" => commits[s] = 1
        /\ out[s] \notin {"ok", "none", "DBAPIError"} => commits[s] = 0

\* An intent is created for the farmer who asks, or by an officer of the centre; what
\* farmer_id the client sent is never trusted (the ownership checks of the service).
CommitsAreAuthorised ==
    [][\A s \in Sessions :
        commits'[s] > commits[s] =>
            req[s].actor = write[s].farmer \/ req[s].actor \in LocalOfficers]_vars

\* No intent rests on a record that was inactive all along: when it is committed, its
\* farmer, the centre, the crop and some holding of the farmer have each been active at
\* some moment since the request began, although their flags may have changed since.
EligibleWhenChecked ==
    [][\A s \in Sessions :
        commits'[s] > commits[s] =>
            /\ {write[s].farmer, Centre, Crop} \subseteq lived[s]
            /\ HoldingsOf(write[s].farmer) \intersect lived[s] # {}]_vars

\* Requests for the same slot, however they race, book it once: the service is the
\* intent book that allocation relies on (uq_active_intent_slot).
ThisBook == INSTANCE IntentBook
ImplementsIntentBook == ThisBook!Spec

\* RULE-005 (app/rules/builtin.py): a farmer has at most one active request for a crop
\* at a centre, whatever the ready date.
OneActiveRequest ==
    \A i, j \in DOMAIN intents :
        IsOpen(intents[i]) /\ IsOpen(intents[j]) /\ intents[i].farmer = intents[j].farmer => i = j
=============================================================================
