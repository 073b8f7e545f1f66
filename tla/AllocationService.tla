------------------------- MODULE AllocationService --------------------------
(***************************************************************************)
(* AllocationService.run_allocation (app/services/allocation.py) for one    *)
(* centre, crop and date, as concurrent calls while intents are booked and  *)
(* decided (IntentBook) and an administrator changes the capacity.  A call  *)
(* is one READ COMMITTED transaction: it locks the capacity record, and     *)
(* reads the approved intents without a lock.                               *)
(***************************************************************************)
EXTENDS AllocationEngine

CONSTANTS
    Sessions,    \* database sessions
    Free,        \* the holder of the lock that nobody holds
    NoRecord, NoPlan,
    MaxIntents,  \* bound: how many intents are ever booked
    MaxTotal     \* bound: the largest total_capacity_kg, in units

VARIABLES
    intents,     \* committed rows of procurement_intents
    record,      \* the capacity record of the cycle
    runs,        \* committed rows of allocation_runs for the cycle
    decisions,   \* committed rows of allocation_decisions for the cycle
    recordLock,  \* the session that holds the capacity record FOR UPDATE
    pc,          \* per session: next step
    loaded,      \* ... the capacity record as it read it
    plan,        \* ... the plan it computed
    out,         \* ... how the call ended
    commits,     \* ... history: transactions committed for the call
    seeded,      \* history: allocated_quantity_kg before any run
    approved     \* history: the intents that were ever approved

db      == <<intents, record, runs, decisions>>
session == <<pc, loaded, plan, out, commits>>
history == <<seeded, approved>>
vars    == <<db, recordLock, session, history>>

\* chk_capacity_non_negative and chk_capacity_not_exceeded.
CapacityRecords ==
    {r \in [total: 0 .. MaxTotal, allocated: 0 .. MaxTotal, active: BOOLEAN] :
        r.allocated <= r.total}

ASSUME LocksAssumption == Free \notin Sessions
ASSUME BoundsAssumption == MaxIntents \in Nat /\ MaxTotal \in Nat
ASSUME NoRecordAssumption == NoRecord \notin CapacityRecords

\* "Exceeded" is the ConflictError of the capacity check, "Check" the violation of
\* chk_capacity_not_exceeded.
Outcomes ==
    {"none", "ok", "NotFound", "Conflict", "Exceeded", "Check", "DBAPIError"}

Locked == {"read", "insertRun", "save", "commit"}
AttemptSteps == {"lock"} \union Locked
Steps == AttemptSteps \union {"idle", "return", "done"}

-----------------------------------------------------------------------------
Goto(s, step) == pc' = [pc EXCEPT ![s] = step]

\* Mutant: the transaction ends and the record stays locked.
RecordStaysLocked(s) ==
    /\ recordLock' = recordLock
    /\ loaded' = [loaded EXCEPT ![s] = NoRecord]

EndTransaction(s) ==
    /\ recordLock' = IF recordLock = s THEN Free ELSE recordLock
    /\ loaded' = [loaded EXCEPT ![s] = NoRecord]

Fail(s, outcome) ==
    /\ EndTransaction(s)
    /\ Goto(s, "done")
    /\ out' = [out EXCEPT ![s] = outcome]
    /\ plan' = [plan EXCEPT ![s] = NoPlan]
    /\ UNCHANGED <<db, commits, history>>

\* Mutant: get_capacity_record without for_update.
RecordNotLocked(s) == TRUE

RecordIsFree(s) == recordLock = Free

\* Mutant: uq_allocation_cycle is missing.
NoSuchConstraint == FALSE

\* uq_allocation_cycle refuses a second run.
CycleHasRun == runs > 0

-----------------------------------------------------------------------------
(* The steps of run_allocation                                              *)

CheckExistingRun(s) ==
    /\ pc[s] = "idle"
    /\ IF runs > 0
       THEN Fail(s, "Conflict")
       ELSE /\ Goto(s, "lock")
            /\ UNCHANGED <<db, recordLock, loaded, plan, out, commits, history>>

LockRecord(s) ==
    /\ pc[s] = "lock"
    /\ RecordIsFree(s)
    /\ IF record = NoRecord
       THEN Fail(s, "NotFound")
       ELSE /\ recordLock' = s
            /\ loaded' = [loaded EXCEPT ![s] = record]
            /\ Goto(s, "read")
            /\ UNCHANGED <<db, plan, out, commits, history>>

\* An inactive record has capacity for nobody.
CapacityToAllocate(r) ==
    IF CapacityStatus(r) = "INACTIVE" THEN 0 ELSE AvailableCapacity(r)

\* Mutant: the query forgets the status.
AnyStatus == IntentStatuses

\* The status that get_approved_intents_for_cycle asks for.
CandidateStatuses == {"APPROVED"}

\* The approved intents by created_at, those that tie in any order.
CandidateLists ==
    LET wanted == {i \in DOMAIN intents :
                    intents[i].date = Cycle /\ intents[i].status \in CandidateStatuses}
        places == 1 .. Cardinality(wanted)
        orders == {ids \in [places -> wanted] :
                    \A j, k \in places :
                        j < k => /\ ids[j] # ids[k]
                                 /\ intents[ids[j]].created <= intents[ids[k]].created}
    IN  {[k \in places |-> Candidate(ids[k], intents[ids[k]])] : ids \in orders}

ReadCandidates(s) ==
    /\ pc[s] = "read"
    /\ \E cands \in CandidateLists :
        plan' = [plan EXCEPT ![s] = Allocate(CapacityToAllocate(loaded[s]), cands)]
    /\ Goto(s, "insertRun")
    /\ UNCHANGED <<db, recordLock, loaded, out, commits, history>>

\* Another uncommitted run makes the insert wait for its transaction.
InsertRun(s) ==
    /\ pc[s] = "insertRun"
    /\ \A o \in Sessions \ {s} : pc[o] \notin {"save", "commit"}
    /\ IF CycleHasRun
       THEN Fail(s, "Conflict")
       ELSE /\ Goto(s, "save")
            /\ UNCHANGED <<db, recordLock, loaded, plan, out, commits, history>>

\* Mutant: allocated_quantity_kg is overwritten, not added to.
OnlyNewlyAllocated(s) == AllocatedIn(plan[s].decisions)

AllocatedAfter(s) == loaded[s].allocated + AllocatedIn(plan[s].decisions)

\* The decisions are flushed, then the record, which is checked twice: in the code
\* against the total that was loaded, and by the table against the one it has now.
SaveRecord(s) ==
    /\ pc[s] = "save"
    /\ IF AllocatedAfter(s) > loaded[s].total THEN Fail(s, "Exceeded")
       ELSE IF AllocatedAfter(s) > record.total THEN Fail(s, "Check")
       ELSE /\ loaded' = [loaded EXCEPT ![s].allocated = AllocatedAfter(s)]
            /\ Goto(s, "commit")
            /\ UNCHANGED <<db, recordLock, plan, out, commits, history>>

\* Mutant: the flushed rows are answered and never committed.
FlushedOnly(s) ==
    /\ pc[s] = "commit"
    /\ EndTransaction(s)
    /\ Goto(s, "return")
    /\ UNCHANGED <<db, plan, out, commits, history>>

Commit(s) ==
    /\ pc[s] = "commit"
    /\ runs' = runs + 1
    /\ decisions' = decisions \o plan[s].decisions
    /\ record' = [record EXCEPT !.allocated = loaded[s].allocated]
    /\ EndTransaction(s)
    /\ commits' = [commits EXCEPT ![s] = @ + 1]
    /\ Goto(s, "return")
    /\ UNCHANGED <<intents, plan, out, history>>

ReturnPlan(s) ==
    /\ pc[s] = "return"
    /\ Goto(s, "done")
    /\ out' = [out EXCEPT ![s] = "ok"]
    /\ plan' = [plan EXCEPT ![s] = NoPlan]
    /\ UNCHANGED <<db, recordLock, loaded, commits, history>>

\* Any statement may fail, and so may the acknowledgement of the commit.
StatementFails(s) ==
    /\ pc[s] \in AttemptSteps \union {"return"}
    /\ Fail(s, "DBAPIError")

Finish(s) ==
    /\ pc[s] = "done"
    /\ Goto(s, "idle")
    /\ out' = [out EXCEPT ![s] = "none"]
    /\ commits' = [commits EXCEPT ![s] = 0]
    /\ UNCHANGED <<db, recordLock, loaded, plan, history>>

-----------------------------------------------------------------------------
(* What goes on meanwhile: intents, and an administrator's UPDATE            *)

ThisBook == INSTANCE IntentBook

BookOrDecide ==
    /\ ThisBook!Next
    /\ Len(intents') <= MaxIntents
    /\ approved' = approved \union {i \in DOMAIN intents' : intents'[i].status = "APPROVED"}
    /\ UNCHANGED <<record, runs, decisions, recordLock, session, seeded>>

SetCapacity ==
    /\ record # NoRecord
    /\ \A s \in Sessions : RecordIsFree(s)
    /\ record' \in {r \in CapacityRecords : r.allocated = record.allocated}
    /\ UNCHANGED <<intents, runs, decisions, recordLock, session, history>>

-----------------------------------------------------------------------------
Init ==
    /\ ThisBook!Init
    /\ record \in CapacityRecords \union {NoRecord}
    /\ runs = 0
    /\ decisions = << >>
    /\ recordLock = Free
    /\ pc = [s \in Sessions |-> "idle"]
    /\ loaded = [s \in Sessions |-> NoRecord]
    /\ plan = [s \in Sessions |-> NoPlan]
    /\ out = [s \in Sessions |-> "none"]
    /\ commits = [s \in Sessions |-> 0]
    /\ seeded = IF record = NoRecord THEN 0 ELSE record.allocated
    /\ approved = {}

Step(s) ==
    \/ LockRecord(s)
    \/ ReadCandidates(s)
    \/ InsertRun(s)
    \/ SaveRecord(s)
    \/ Commit(s)
    \/ ReturnPlan(s)

Next ==
    \/ \E s \in Sessions : CheckExistingRun(s) \/ Step(s) \/ StatementFails(s) \/ Finish(s)
    \/ BookOrDecide
    \/ SetCapacity

Spec == Init /\ [][Next]_vars

-----------------------------------------------------------------------------
(* Properties                                                              *)

\* Every variable has its type, and a session past the lock holds it.
TypeOK ==
    /\ intents \in Seq(Intents)
    /\ record \in CapacityRecords \union {NoRecord}
    /\ runs \in Nat
    /\ recordLock \in Sessions \union {Free}
    /\ pc \in [Sessions -> Steps]
    /\ loaded \in [Sessions -> CapacityRecords \union {NoRecord}]
    /\ out \in [Sessions -> Outcomes]
    /\ commits \in [Sessions -> Nat]
    /\ seeded \in Nat
    /\ approved \subseteq DOMAIN intents
    /\ \A s \in Sessions : pc[s] \in Locked <=> recordLock = s

\* allocated_quantity_kg of the capacity record is what the selected decisions add up
\* to, whatever calls raced or failed between the decisions and the record.
AllocatedIsBooked ==
    record # NoRecord => record.allocated = seeded + AllocatedIn(decisions)

\* The plan never asks for more than there is, at the moment it is booked: neither the
\* ConflictError "Allocated quantity exceeds total centre capacity" nor the CHECK of
\* the table ever fires, although totals are lowered while calls are under way.
CapacitySuffices == \A s \in Sessions : out[s] \notin {"Exceeded", "Check"}

\* A cycle is allocated once: calls that race past the check for an existing run leave
\* one run, and in it one decision per intent and per farmer.
OneDecisionPerFarmer ==
    /\ runs <= 1
    /\ \A j, k \in DOMAIN decisions :
        decisions[j].farmer = decisions[k].farmer \/ decisions[j].intent = decisions[k].intent => j = k

\* Only intents of the cycle that were approved are decided on; they may have been
\* cancelled since, for they are read without a lock.
DecidedWereApproved ==
    \A k \in DOMAIN decisions :
        /\ decisions[k].intent \in approved
        /\ intents[decisions[k].intent].date = Cycle

\* The plan that is committed was made for the capacity there is at the commit, not for
\* what there was when the record was read.
PlanIsCurrent ==
    [][\A s \in Sessions :
        commits'[s] > commits[s] => plan[s].available = CapacityToAllocate(record)]_vars

\* The caller is told what was done: a plan after one commit, a refusal after none.
AnswersMatchCommits ==
    \A s \in Sessions :
        /\ commits[s] <= 1
        /\ out[s] = "ok" => commits[s] = 1
        /\ out[s] \notin {"ok", "none", "DBAPIError"} => commits[s] = 0
=============================================================================
