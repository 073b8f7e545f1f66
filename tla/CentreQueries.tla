--------------------------- MODULE CentreQueries ----------------------------
(***************************************************************************)
(* Three answers put together from statements that lock nothing:            *)
(* PriorityCentreService.select_priority_centre, the capacity that          *)
(* CapacityService.get_centre_capacity shows, and the verdict of            *)
(* EligibilityService.evaluate_eligibility.  One step is one statement of   *)
(* one request, or one committed change of what it reads: allocations take  *)
(* from the capacity, administrators do what they want.  Requests write     *)
(* nothing, so one at a time shows all there is.                            *)
(***************************************************************************)
EXTENDS CapacityEngine, Sequences

CONSTANTS
    Centres, Farmers, Crops, Holdings,
    Owner,          \* the farmer of each holding
    UnknownIds,     \* ids that name no row
    NoCrop,         \* EligibilityService may be asked without a crop
    Unlinked,       \* a farmer's user that has no farmer record
    Officers,       \* officers' users
    CentreOf,       \* the centre of each officer, or NoCentre
    NoRole,         \* a user whose token has no role
    NoUser,         \* an officer whose token names no user of the table
    Totals,         \* the totals that capacity records may have, in units
    Quantities,     \* the quantities that may be asked for
    NoCentre, NoRecord, NoRequest, NoAnswer,
    MaxPreferences, \* bound: how many centres a farmer prefers
    MaxChanges      \* bound: how many changes are ever committed

Rows == Centres \union Farmers \union Crops \union Holdings

\* chk_capacity_non_negative and chk_capacity_not_exceeded.
CapacityRecords ==
    {r \in [total: Totals, allocated: UNION {0 .. t : t \in Totals}, active: BOOLEAN] :
        r.allocated <= r.total}

ASSUME QuantitiesAssumption ==
    Totals \subseteq Nat /\ Quantities \subseteq Nat \ {0} /\ MaxPreferences \in Nat
ASSUME NullsAssumption ==
    /\ NoRecord \notin CapacityRecords
    /\ UnknownIds \intersect Rows = {}
    /\ NoCentre \notin Centres /\ NoCrop \notin Rows

VARIABLES
    active,    \* the rows of master data that are active
    record,    \* per centre: its capacity record for the crop and date asked for
    changes,   \* how many changes were committed
    pc,        \* the statement the request runs next
    req,       \* the request
    turn,      \* ... the priority of the preference it evaluates
    failing,   \* ... whether a rule fails on what it has loaded
    out,       \* ... its answer
    right,     \* history: the answers that were right at some moment since it began
    improved   \* history: something became active, or larger, since it began

data    == <<active, record, changes>>
request == <<pc, req, turn, failing, out>>
history == <<right, improved>>
vars    == <<data, request, history>>

-----------------------------------------------------------------------------
(* Requests                                                                *)

\* Distinct centres with the priorities 1 .. n, in the order in which they were sent.
Preferences ==
    {prefs \in UNION {[1 .. n -> [centre: Centres \union UnknownIds, priority: 1 .. n]] :
                        n \in 1 .. MaxPreferences} :
        /\ \A i, j \in DOMAIN prefs :
            i # j => /\ prefs[i].centre # prefs[j].centre
                     /\ prefs[i].priority # prefs[j].priority
        /\ {prefs[i].priority : i \in DOMAIN prefs} = DOMAIN prefs}

Users == Farmers \union Officers \union {Unlinked, NoUser, NoRole}

Selections ==
    [op: {"select"}, user: Users, prefs: Preferences, quantity: Quantities]
Views ==
    [op: {"view"}, user: Users, centre: Centres \union UnknownIds, crop: Crops \union UnknownIds]
Evaluations ==
    [op: {"evaluate"}, farmer: Farmers \union UnknownIds, centre: Centres \union UnknownIds,
     crop: Crops \union UnknownIds \union {NoCrop}]

FirstStatement == [select |-> "user", view |-> "viewCentre", evaluate |-> "farmer"]

\* Mutant: the preferences are evaluated in the order in which they were sent.
AsSent(prefs, k) == prefs[k].centre

\* sorted_prefs: the preference with priority k.
SortedPreference(prefs, k) == prefs[CHOOSE i \in DOMAIN prefs : prefs[i].priority = k].centre

Preferred == SortedPreference(req.prefs, turn)

-----------------------------------------------------------------------------
(* What is right at one moment                                             *)

\* What the centre offers a farmer of the crop on the date.
Offer(r) == IF r = NoRecord \/ ~ r.active THEN 0 ELSE AvailableCapacity(r)

Suitable(c, quantity) == c \in active /\ Offer(record[c]) >= quantity

\* The first preference that suits is selected, none if none does.
IsRightSelection(q, answer) ==
    \/ \E i \in DOMAIN q.prefs :
        /\ answer = q.prefs[i].centre
        /\ answer \in Centres /\ Suitable(answer, q.quantity)
        /\ \A j \in DOMAIN q.prefs :
            /\ q.prefs[j].priority < q.prefs[i].priority
            /\ q.prefs[j].centre \in Centres
            => ~ Suitable(q.prefs[j].centre, q.quantity)
    \/ /\ answer = "none"
       /\ \A j \in DOMAIN q.prefs :
            q.prefs[j].centre \in Centres => ~ Suitable(q.prefs[j].centre, q.quantity)

ActiveHoldings(f) == {h \in Holdings : Owner[h] = f /\ h \in active}

IsEligible(q) == {q.farmer, q.centre, q.crop} \subseteq active /\ ActiveHoldings(q.farmer) # {}

RightAnswers(q) ==
    CASE q.op = "select"   -> {a \in Centres \union {"none"} : IsRightSelection(q, a)}
      [] q.op = "evaluate" -> {IF IsEligible(q) THEN "ELIGIBLE" ELSE "REJECTED"}
      [] q.op = "view"     -> {}

-----------------------------------------------------------------------------
(* The life of a request                                                   *)

Submit ==
    /\ pc = "idle"
    /\ req' \in Selections \union Views \union Evaluations
    /\ pc' = FirstStatement[req'.op]
    /\ turn' = 1
    /\ right' = RightAnswers(req')
    /\ UNCHANGED <<data, failing, out, improved>>

Goto(step) == pc' = step /\ UNCHANGED <<data, req, turn, failing, out, history>>

Answer(answer) ==
    /\ pc' = "answered"
    /\ out' = answer
    /\ UNCHANGED <<data, req, turn, failing, history>>

\* The client has its answer, and another request comes.
Finish ==
    /\ pc = "answered"
    /\ pc' = "idle"
    /\ req' = NoRequest
    /\ turn' = 1
    /\ failing' = FALSE
    /\ out' = NoAnswer
    /\ right' = {}
    /\ improved' = FALSE
    /\ UNCHANGED data

-----------------------------------------------------------------------------
(* select_priority_centre                                                  *)

\* The route lets farmers in only, so the service's branch for officers is never taken.
SelectReadUser ==
    /\ pc = "user"
    /\ IF req.user \in Farmers THEN Goto("centre") ELSE Answer("PermissionDenied")

\* The preference cannot be met: the next one is tried, if there is one.
TryNext ==
    IF turn < Len(req.prefs)
    THEN /\ pc' = "centre"
         /\ turn' = turn + 1
         /\ UNCHANGED <<data, req, failing, out, history>>
    ELSE Answer("none")

SelectReadCentre ==
    /\ pc = "centre"
    /\ IF Preferred \in active THEN Goto("record") ELSE TryNext

\* Mutant: the status of the capacity is not looked at.
AnyStatus(r, quantity) == r # NoRecord /\ AvailableCapacity(r) >= quantity

\* Checks 2 to 4.
HasCapacity(r, quantity) ==
    /\ r # NoRecord
    /\ CapacityStatus(r) # "INACTIVE"
    /\ AvailableCapacity(r) >= quantity

SelectReadRecord ==
    /\ pc = "record"
    /\ IF HasCapacity(record[Preferred], req.quantity) THEN Answer(Preferred) ELSE TryNext

-----------------------------------------------------------------------------
(* get_centre_capacity                                                     *)

ViewReadCentre ==
    /\ pc = "viewCentre"
    /\ IF req.user = NoRole THEN Answer("PermissionDenied")
       ELSE IF req.centre \notin active THEN Answer("NotFound")
       ELSE IF req.user \in Farmers \union {Unlinked} THEN Goto("viewCrop")
       ELSE Goto("viewUser")

ViewReadUser ==
    /\ pc = "viewUser"
    /\ IF req.user = NoUser THEN Answer("NotFound")
       ELSE IF CentreOf[req.user] # req.centre THEN Answer("PermissionDenied")
       ELSE Goto("viewCrop")

ViewReadCrop ==
    /\ pc = "viewCrop"
    /\ IF req.crop \in active THEN Goto("viewRecord") ELSE Answer("NotFound")

ViewReadRecord ==
    /\ pc = "viewRecord"
    /\ Answer(IF record[req.centre] = NoRecord THEN "NotFound"
              ELSE CapacityStatus(record[req.centre]))

-----------------------------------------------------------------------------
(* evaluate_eligibility                                                    *)

\* The row must exist; whether it is active is judged by its rule at the end.
Load(step, row, next) ==
    /\ pc = step
    /\ IF row \in UnknownIds
       THEN Answer("NotFound")
       ELSE /\ pc' = next
            /\ failing' = (failing \/ row \notin active)
            /\ UNCHANGED <<data, req, turn, out, history>>

LoadFarmer == Load("farmer", req.farmer, "evalCentre")
LoadCentre == Load("evalCentre", req.centre, "crop")
\* Without a crop, RULE-003 misses its context and fails.
LoadCrop == Load("crop", req.crop, "holdings")

\* Mutant: RULE-004 counts the holdings, active or not.
AnyHolding == \A h \in Holdings : Owner[h] # req.farmer
NoHolding == ActiveHoldings(req.farmer) = {}

\* The rules 1 to 4; RULE-005 is deferred and left out.
EvaluateRules ==
    /\ pc = "holdings"
    /\ Answer(IF failing \/ NoHolding THEN "REJECTED" ELSE "ELIGIBLE")

-----------------------------------------------------------------------------
(* What goes on meanwhile                                                  *)

InProgress == pc \notin {"idle", "answered"}

\* A change is committed, for the better or not.
Change(better) ==
    /\ changes < MaxChanges
    /\ changes' = changes + 1
    /\ UNCHANGED request
    /\ right' = IF InProgress THEN right \union RightAnswers(req)' ELSE right
    /\ improved' = (improved \/ (InProgress /\ better))

\* AllocationService takes from an active record what is left of it, or some of that.
Allocate(c) ==
    /\ record[c] # NoRecord /\ record[c].active
    /\ \E quantity \in 1 .. AvailableCapacity(record[c]) :
        record' = [record EXCEPT ![c].allocated = @ + quantity]
    /\ UNCHANGED active
    /\ Change(FALSE)

SetActive(row) ==
    /\ active' = IF row \in active THEN active \ {row} ELSE active \union {row}
    /\ UNCHANGED record
    /\ Change(row \notin active)

\* An administrator writes a capacity record, the quantity that is allocated excepted.
SetRecord(c) ==
    \E r \in CapacityRecords :
        /\ r # record[c]
        /\ r.allocated = IF record[c] = NoRecord THEN 0 ELSE record[c].allocated
        /\ record' = [record EXCEPT ![c] = r]
        /\ UNCHANGED active
        /\ Change(Offer(r) > Offer(record[c]))

-----------------------------------------------------------------------------
Init ==
    /\ active = Rows
    /\ record \in [Centres -> {r \in CapacityRecords : r.allocated = 0 /\ r.active} \union {NoRecord}]
    /\ changes = 0
    /\ pc = "idle"
    /\ req = NoRequest
    /\ turn = 1
    /\ failing = FALSE
    /\ out = NoAnswer
    /\ right = {}
    /\ improved = FALSE

Select == SelectReadUser \/ SelectReadCentre \/ SelectReadRecord
View == ViewReadCentre \/ ViewReadUser \/ ViewReadCrop \/ ViewReadRecord
Evaluate == LoadFarmer \/ LoadCentre \/ LoadCrop \/ EvaluateRules

Next ==
    \/ Submit \/ Select \/ View \/ Evaluate \/ Finish
    \/ \E c \in Centres : Allocate(c) \/ SetRecord(c)
    \/ \E row \in Rows : SetActive(row)

Spec == Init /\ [][Next]_vars

-----------------------------------------------------------------------------
(* Properties                                                              *)

\* Unless something got better meanwhile, which no code of the service does, the centre
\* a farmer is told is the one that was right at some moment since he asked: the first
\* in his order that had room for him, and "none" if none had, although each preference
\* is looked at with two statements, after capacity of those before it was taken.
SelectionWasRight ==
    pc = "answered" /\ req.op = "select" /\ out # "PermissionDenied" /\ ~ improved =>
        out \in right

\* Likewise a farmer is found eligible only if all that the four rules ask for held at one
\* moment since the evaluation began, and rejected only if at one moment it did not.
EligibilityWasRight ==
    pc = "answered" /\ req.op = "evaluate" /\ out # "NotFound" /\ ~ improved =>
        out \in right
=============================================================================
