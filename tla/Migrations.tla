----------------------------- MODULE Migrations -----------------------------
(* The Alembic migrations of src/migrations: several operators migrate one   *)
(* database up and down, while the application books and cancels intents.    *)
(* env.py runs all the scripts of a run in one transaction, and PostgreSQL's *)
(* DDL is transactional: a run publishes its schema and its revision when it *)
(* commits, or nothing.  One step is one statement of a script; index        *)
(* statements belong to the statement on their table.                        *)
EXTENDS Integers, Sequences, FiniteSets, SequencesExt, TLC, ModelSchema

CONSTANTS
    Migrators,  \* processes that run alembic upgrade or alembic downgrade
    Goals,      \* the revisions they migrate to
    MaxRows,    \* bound: intents booked for the slot
    NoRun,
    Gone        \* what a dropped object becomes in a draft

ASSUME RevisionsAssumption == Goals \subseteq 0 .. 7 /\ MaxRows \in Nat
ASSUME NoRunAssumption == NoRun \notin [from: Int, to: Int, rev: Int, done: Int]

VARIABLES
    catalog,    \* committed: the tables and enum types, by name
    versions,   \* committed: the rows of alembic_version
    slotRows,   \* committed: the intents of one farmer, centre, crop and date, in any status
    run,        \* per migrator: where its run stands, or NoRun
    draft,      \* per migrator: what its transaction made of the objects it changed
    held,       \* per migrator: the names of the objects its transaction has locked
    out         \* per migrator: how its last run ended

vars == <<catalog, versions, slotRows, run, draft, held, out>>

-----------------------------------------------------------------------------
(* The statements of the scripts                                            *)

Create(name, table) == [op |-> "create", on |-> name, as |-> table]
CreateType(name, values) == [op |-> "createType", on |-> name, as |-> values]
Drop(name) == [op |-> "drop", on |-> name, as |-> Gone]
DropType(name) == [op |-> "dropType", on |-> name, as |-> Gone]
Alter(change, name, what) == [op |-> change, on |-> name, as |-> what]

CreateUserRole == CreateType("user_role", {"FARMER", "OFFICER"})

CreateCrops ==
    Create("crops", Stamped({"code", "name", "unit", "active"}, {}, {"active"}, {}, {{"code"}}, {}))

CreateCentres ==
    Create("procurement_centres",
        Stamped({"name", "district", "active"}, {"block", "state", "latitude", "longitude"},
                {"active"}, {}, {}, {}))

CreateFarmers ==
    Create("farmers",
        Stamped({"farmer_id", "name", "active"}, {"phone", "village", "block", "district", "state"},
                {"active"}, {}, {{"farmer_id"}}, {}))

CreateUsers ==
    Create("users",
        [Stamped({"password_hash", "role", "active"}, {"username", "centre_id", "farmer_id", "phone"},
                 {"active"},
                 {<<"role", "user_role", "TYPE">>, <<"centre_id", "procurement_centres", "RESTRICT">>,
                  <<"farmer_id", "farmers", "RESTRICT">>},
                 {{"username"}, {"farmer_id"}, {"phone"}}, {{"centre_id"}})
         EXCEPT !.checks = {"ck_users_role_consistency"}])

CreateHoldings ==
    Create("farmer_land_holdings",
        Stamped({"farmer_id", "survey_number", "area_acres", "active"},
                {"village", "block", "district", "state"}, {"active"},
                {<<"farmer_id", "farmers", "RESTRICT">>}, {}, {{"farmer_id"}}))

CreateCounters ==
    Create("counters",
        Stamped({"centre_id", "name", "active"}, {}, {"active"},
                {<<"centre_id", "procurement_centres", "RESTRICT">>}, {}, {{"centre_id"}}))

CreateQueues ==
    Create("queues",
        Stamped({"centre_id", "date", "status"}, {"crop_id"}, {"status"},
                {<<"centre_id", "procurement_centres", "RESTRICT">>, <<"crop_id", "crops", "RESTRICT">>},
                {{"centre_id", "date", "crop_id"}}, {{"centre_id"}, {"crop_id"}}))

CreateQueueEntries ==
    Create("queue_entries",
        Stamped({"queue_id", "farmer_id", "position", "status"}, {}, {"status"},
                {<<"queue_id", "queues", "CASCADE">>, <<"farmer_id", "farmers", "RESTRICT">>},
                {{"queue_id", "position"}}, {{"queue_id"}, {"farmer_id"}}))

CreateTokens ==
    Create("tokens",
        [Stamped({"token_number", "sequence_number", "queue_id", "queue_entry_id", "farmer_id", "status"},
                 {"counter_id", "called_at", "processing_started_at", "completed_at", "cancelled_at"},
                 {"status"},
                 {<<"queue_id", "queues", "CASCADE">>, <<"queue_entry_id", "queue_entries", "CASCADE">>,
                  <<"farmer_id", "farmers", "RESTRICT">>, <<"counter_id", "counters", "RESTRICT">>},
                 {{"queue_entry_id"}, {"queue_id", "sequence_number"}, {"queue_id", "token_number"}},
                 {{"queue_id"}, {"farmer_id"}, {"counter_id"}})
         EXCEPT !.partial = {[key |-> {"farmer_id", "queue_id"},
                              where |-> <<"IN", {"CHECK_IN", "TOKEN", "WAITING", "CALLED", "PROCESSING"}>>]}])

CreateIntentStatus ==
    CreateType("intent_status_enum", {"PENDING", "APPROVED", "REJECTED", "CANCELLED", "COMPLETED"})
CreateTokenStatus ==
    CreateType("token_status_enum", {"WAITING", "CALLED", "PROCESSING", "COMPLETED", "CANCELLED"})

Slot == {"farmer_id", "centre_id", "crop_id", "ready_date"}

CreateIntents ==
    Create("procurement_intents",
        [Stamped(Slot \union {"land_holding_id", "expected_quantity_kg", "status", "created_by"},
                 {"cancellation_reason"}, {"id"},
                 {<<"farmer_id", "farmers", "RESTRICT">>, <<"centre_id", "procurement_centres", "RESTRICT">>,
                  <<"crop_id", "crops", "RESTRICT">>, <<"created_by", "users", "RESTRICT">>,
                  <<"land_holding_id", "farmer_land_holdings", "RESTRICT">>,
                  <<"status", "intent_status_enum", "TYPE">>},
                 {Slot}, {{"farmer_id"}, {"centre_id"}, {"crop_id"}})
         EXCEPT !.partial = {[key |-> Slot, where |-> <<"NOT IN", {"CANCELLED", "REJECTED", "COMPLETED"}>>]}])

CreateProcurementTokens ==
    Create("procurement_tokens",
        Stamped({"intent_id", "centre_id", "token_number", "scheduled_at", "status"},
                {"cancellation_reason"}, {"id"},
                {<<"intent_id", "procurement_intents", "RESTRICT">>,
                 <<"centre_id", "procurement_centres", "RESTRICT">>,
                 <<"status", "token_status_enum", "TYPE">>},
                {{"centre_id", "scheduled_at", "token_number"}}, {{"intent_id"}, {"centre_id"}}))

CreateRecords ==
    Create("procurement_records",
        Stamped({"intent_id", "token_id", "counter_id", "actual_quantity_kg", "price_per_kg"},
                {"total_amount"}, {"id"},
                {<<"intent_id", "procurement_intents", "RESTRICT">>,
                 <<"token_id", "procurement_tokens", "RESTRICT">>, <<"counter_id", "counters", "RESTRICT">>},
                {{"token_id"}}, {{"intent_id"}, {"counter_id"}}))

CreateHistory ==
    Create("procurement_status_history",
        [Table({"intent_id", "token_id", "from_status", "to_status", "changed_by", "changed_at", "remarks"},
               {"token_id", "remarks"}, {"id", "changed_at"},
               {<<"intent_id", "procurement_intents", "RESTRICT">>,
                <<"token_id", "procurement_tokens", "RESTRICT">>, <<"changed_by", "users", "RESTRICT">>},
               {}, {{"intent_id"}})
         EXCEPT !.checks = {"chk_status_history_condition"}])

CreateCapacity ==
    Create("capacity_records",
        [Stamped({"centre_id", "crop_id", "date", "total_capacity_kg", "allocated_quantity_kg",
                  "procured_quantity_kg", "active"}, {},
                 {"id", "allocated_quantity_kg", "procured_quantity_kg", "active"},
                 {<<"centre_id", "procurement_centres", "RESTRICT">>, <<"crop_id", "crops", "RESTRICT">>},
                 {{"centre_id", "crop_id", "date"}}, {{"centre_id"}, {"crop_id"}, {"date"}})
         EXCEPT !.checks = {"chk_capacity_non_negative", "chk_capacity_not_exceeded"}])

CreateRuns ==
    Create("allocation_runs",
        Table({"centre_id", "crop_id", "allocation_date", "created_at"}, {}, {"id", "created_at"},
              {<<"centre_id", "procurement_centres", "CASCADE">>, <<"crop_id", "crops", "CASCADE">>},
              {{"centre_id", "crop_id", "allocation_date"}},
              {{"centre_id"}, {"crop_id"}, {"allocation_date"}}))

CreateDecisions ==
    Create("allocation_decisions",
        Table({"allocation_run_id", "intent_id", "farmer_id", "requested_quantity_kg",
               "allocated_quantity_kg", "remaining_capacity_kg", "selected", "rank", "ordering_reason",
               "tie_break_digest", "created_at"}, {"tie_break_digest"}, {"id", "created_at"},
              {<<"allocation_run_id", "allocation_runs", "CASCADE">>,
               <<"intent_id", "procurement_intents", "CASCADE">>, <<"farmer_id", "farmers", "CASCADE">>},
              {{"allocation_run_id", "intent_id"}},
              {{"allocation_run_id"}, {"intent_id"}, {"farmer_id"}}))

-----------------------------------------------------------------------------
(* The scripts                                                             *)

upgrade_0001 == <<CreateUserRole, CreateCrops, CreateCentres, CreateFarmers, CreateUsers,
                  CreateHoldings, CreateCounters>>

\* Mutant: tables are dropped in the order in which they were created.
parents_first_0001 == <<Drop("crops"), Drop("procurement_centres"), Drop("farmers"), Drop("users"),
                        Drop("farmer_land_holdings"), Drop("counters"), DropType("user_role")>>
downgrade_0001 == <<Drop("counters"), Drop("farmer_land_holdings"), Drop("users"), Drop("farmers"),
                    Drop("procurement_centres"), Drop("crops"), DropType("user_role")>>

upgrade_0002 == <<CreateQueues, CreateQueueEntries, CreateTokens>>
downgrade_0002 == <<Drop("tokens"), Drop("queue_entries"), Drop("queues")>>

upgrade_0003 == <<Alter("dropColumn", "queue_entries", "status")>>
downgrade_0003 == <<Alter("addColumn", "queue_entries", "status"),
                    Alter("dropDefault", "queue_entries", "status")>>

upgrade_0004 == <<CreateIntentStatus, CreateTokenStatus, CreateIntents, CreateProcurementTokens,
                  CreateRecords, CreateHistory>>
downgrade_0004 == <<Drop("procurement_status_history"), Drop("procurement_records"),
                    Drop("procurement_tokens"), Drop("procurement_intents"),
                    DropType("token_status_enum"), DropType("intent_status_enum")>>

upgrade_0005 == <<CreateCapacity>>
downgrade_0005 == <<Drop("capacity_records")>>

\* Mutant: a script that does nothing.
pass_0006 == << >>
upgrade_0006 == <<Alter("dropUnique", "procurement_intents", Slot)>>
downgrade_0006 == <<Alter("addUnique", "procurement_intents", Slot)>>

upgrade_0007 == <<CreateRuns, CreateDecisions>>
downgrade_0007 == <<Drop("allocation_decisions"), Drop("allocation_runs")>>

\* Script r leads from revision r-1 to r, and back.
upgrade == <<upgrade_0001, upgrade_0002, upgrade_0003, upgrade_0004, upgrade_0005, upgrade_0006,
             upgrade_0007>>
downgrade == <<downgrade_0001, downgrade_0002, downgrade_0003, downgrade_0004, downgrade_0005,
               downgrade_0006, downgrade_0007>>

Script(r) ==    \* the script that a run executes next
    IF r.to > r.rev THEN upgrade[r.rev + 1] ELSE downgrade[r.rev]

EnumTypes == {"user_role", "intent_status_enum", "token_status_enum"}

\* The objects of one schema, over those of another.
Above(f, g) == [name \in DOMAIN f \union DOMAIN g |-> IF name \in DOMAIN f THEN f[name] ELSE g[name]]
With(f, name, object) == Above([n \in {name} |-> object], f)

\* What a transaction sees: what is committed, but for what it changed itself.
View(m) ==
    LET seen == Above(draft[m], catalog)
    IN  [name \in {n \in DOMAIN seen : seen[n] # Gone} |-> seen[name]]

\* The object a statement is about, after it (checkfirst: a type that exists is left).
NewObject(view, s) ==
    LET table == view[s.on]
    IN  CASE s.op = "create" -> s.as
          [] s.op = "createType" -> IF s.on \in DOMAIN view THEN table ELSE s.as
          [] s.op \in {"drop", "dropType"} -> Gone
          [] s.op = "dropColumn" ->
                [table EXCEPT !.columns = @ \ {s.as}, !.defaults = @ \ {s.as}]
          [] s.op = "addColumn" ->
                [table EXCEPT !.columns = @ \union {s.as}, !.defaults = @ \union {s.as}]
          [] s.op = "dropDefault" -> [table EXCEPT !.defaults = @ \ {s.as}]
          [] s.op = "dropUnique" -> [table EXCEPT !.unique = @ \ {s.as}]
          [] s.op = "addUnique" -> [table EXCEPT !.unique = @ \union {s.as}]

ReferredTo(view, name) ==
    \E other \in DOMAIN view \ (EnumTypes \union {name}) : name \in Parents(view[other])

\* PostgreSQL refuses to create what exists, to change what does not, to refer to what
\* does not, to drop what is referred to, and a unique constraint that rows violate.
Verdict(view, s) ==
    LET possible ==
            CASE s.op = "create" -> s.on \notin DOMAIN view /\ Parents(s.as) \subseteq DOMAIN view
              [] s.op = "createType" -> TRUE
              [] s.op = "drop" -> s.on \in DOMAIN view /\ ~ ReferredTo(view, s.on)
              [] s.op = "dropType" -> ~ ReferredTo(view, s.on)
              [] s.op = "addColumn" -> s.on \in DOMAIN view /\ s.as \notin view[s.on].columns
              [] s.op \in {"dropColumn", "dropDefault"} ->
                    s.on \in DOMAIN view /\ s.as \in view[s.on].columns
              [] s.op = "dropUnique" -> s.on \in DOMAIN view /\ s.as \in view[s.on].unique
              [] s.op = "addUnique" -> s.on \in DOMAIN view /\ s.as \notin view[s.on].unique
    IN  IF ~ possible THEN "ProgrammingError"
        ELSE IF s.op = "addUnique" /\ slotRows > 1 THEN "UniqueViolation"
        ELSE "ok"

\* A statement locks its object and, to make or drop a foreign key, the tables it
\* refers to, so that no other transaction can change them.
Locks(view, s) ==
    LET refs == CASE s.op = "create" -> s.as.refs
                  [] s.op = "drop" /\ s.on \in DOMAIN view -> view[s.on].refs
                  [] OTHER -> {}
    IN  {s.on} \union {ref[2] : ref \in {x \in refs : x[3] # "TYPE"}}

HeldByOthers(m) == UNION {held[other] : other \in Migrators \ {m}}

-----------------------------------------------------------------------------
(* A run                                                                   *)

HeadOf(v) == IF v = 0 THEN {} ELSE {v}

\* The run ends; its transaction has published its draft, or never will.
End(m, answer) ==
    /\ run' = [run EXCEPT ![m] = NoRun]
    /\ draft' = [draft EXCEPT ![m] = <<>>]
    /\ held' = [held EXCEPT ![m] = {}]
    /\ out' = [out EXCEPT ![m] = answer]

\* begin_transaction, and run_migrations reads the revision from alembic_version.
Start(m) ==
    /\ run[m] = NoRun
    /\ \E from \in 0 .. 7 : \E to \in Goals \ {from} :
        /\ versions = HeadOf(from)
        /\ run' = [run EXCEPT ![m] = [from |-> from, to |-> to, rev |-> from, done |-> 0]]
    /\ out' = [out EXCEPT ![m] = "none"]
    /\ UNCHANGED <<catalog, versions, slotRows, draft, held>>

Execute(m) ==
    /\ run[m] # NoRun
    /\ run[m].rev # run[m].to
    /\ run[m].done < Len(Script(run[m]))
    /\ LET s == Script(run[m])[run[m].done + 1]
           view == View(m)
       IN  /\ Locks(view, s) \intersect HeldByOthers(m) = {}
           /\ IF Verdict(view, s) = "ok"
              THEN /\ draft' = [draft EXCEPT ![m] = With(@, s.on, NewObject(view, s))]
                   /\ held' = [held EXCEPT ![m] = @ \union Locks(view, s)]
                   /\ run' = [run EXCEPT ![m].done = @ + 1]
                   /\ UNCHANGED out
              ELSE End(m, Verdict(view, s))
    /\ UNCHANGED <<catalog, versions, slotRows>>

\* After each script Alembic writes the revision and insists that its UPDATE or DELETE
\* met the row it read.  The transaction keeps the lock on the row.
RevisionIsTaken(m) == "alembic_version" \in HeldByOthers(m)
RowIsThere(m) ==
    \/ run[m].rev # run[m].from   \* it is the run's own
    \/ IF run[m].from = 0 THEN 1 \notin versions ELSE run[m].from \in versions

WriteVersion(m) ==
    /\ run[m] # NoRun
    /\ run[m].rev # run[m].to
    /\ run[m].done = Len(Script(run[m]))
    /\ ~ RevisionIsTaken(m)
    /\ IF RowIsThere(m)
       THEN /\ run' = [run EXCEPT ![m].rev = IF @ < run[m].to THEN @ + 1 ELSE @ - 1, ![m].done = 0]
            /\ held' = [held EXCEPT ![m] = @ \union {"alembic_version"}]
            /\ UNCHANGED <<draft, out>>
       ELSE End(m, "CommandError")
    /\ UNCHANGED <<catalog, versions, slotRows>>

\* The whole run is one transaction (do_run_migrations).
\* Mutant: a transaction for each script.
AfterEachScript(m) == run[m].rev # run[m].from /\ run[m].done = 0
MayCommit(m) == run[m].rev = run[m].to

Commit(m) ==
    /\ run[m] # NoRun
    /\ MayCommit(m)
    /\ catalog' = View(m)
    /\ versions' = (versions \ HeadOf(run[m].from)) \union HeadOf(run[m].rev)
    /\ slotRows' = IF "procurement_intents" \in DOMAIN catalog' THEN slotRows ELSE 0
    /\ End(m, "ok")

\* The process is killed, the connection lost, or PostgreSQL makes the transaction the
\* victim of a deadlock: it is rolled back.
Fail(m) ==
    /\ run[m] # NoRun
    /\ End(m, "Lost")
    /\ UNCHANGED <<catalog, versions, slotRows>>

\* The application books the slot again after the intent for it was cancelled.
Book ==
    /\ "procurement_intents" \in DOMAIN catalog
    /\ \A m \in Migrators : "procurement_intents" \notin held[m]
    /\ slotRows < MaxRows
    /\ slotRows > 0 => Slot \notin catalog["procurement_intents"].unique
    /\ slotRows' = slotRows + 1
    /\ UNCHANGED <<catalog, versions, run, draft, held, out>>

Init ==
    /\ catalog = <<>>
    /\ versions = {}
    /\ slotRows = 0
    /\ run = [m \in Migrators |-> NoRun]
    /\ draft = [m \in Migrators |-> <<>>]
    /\ held = [m \in Migrators |-> {}]
    /\ out = [m \in Migrators |-> "none"]

Next ==
    \/ Book
    \/ \E m \in Migrators : Start(m) \/ Execute(m) \/ WriteVersion(m) \/ Commit(m) \/ Fail(m)

Spec == Init /\ [][Next]_vars

-----------------------------------------------------------------------------
(* Properties                                                              *)

Names == DOMAIN Declared
Runs == {r \in [from: 0 .. 7, to: Goals, rev: 0 .. 7, done: Nat] : r.done <= 7}

\* Every variable has its type, and a transaction has locked what it changed.
TypeOK ==
    /\ DOMAIN catalog \subseteq Names
    /\ versions \subseteq 1 .. 7
    /\ slotRows \in 0 .. MaxRows
    /\ \A m \in Migrators :
        /\ run[m] = NoRun \/ run[m] \in Runs
        /\ DOMAIN draft[m] \subseteq held[m]
        /\ held[m] \subseteq Names \union {"alembic_version"}
        /\ out[m] \in {"none", "ok", "ProgrammingError", "UniqueViolation", "CommandError", "Lost"}

\* What the upgrades make of an empty database; each has one statement for an object.
Upgraded(cat, script) ==
    LET StatementOn(name) == CHOOSE s \in Range(script) : s.on = name
    IN  Above([name \in {s.on : s \in Range(script)} |-> NewObject(cat, StatementOn(name))], cat)
SchemaAt[r \in 0 .. 7] == IF r = 0 THEN <<>> ELSE Upgraded(SchemaAt[r - 1], upgrade[r])

\* The downgrade of 0003 makes the column anew without the default it had.
WithoutDefault ==
    [SchemaAt[2] EXCEPT !["queue_entries"].defaults = @ \ {"status"}]

\* Gone is none of the objects that the scripts make.
ASSUME GoneAssumption ==
    /\ \A r \in 1 .. 7 : \A i \in DOMAIN upgrade[r] : upgrade[r][i].as # Gone
    /\ \A r \in 1 .. 7 : \A name \in DOMAIN SchemaAt[r] : SchemaAt[r][name] # Gone
    /\ WithoutDefault["queue_entries"] # Gone

\* However runs up and down fail, race or repeat, the database is at one revision, and
\* its schema is the one that the upgrades give at that revision (but for the default of
\* queue_entries.status, which the downgrade of 0003 does not restore): downgrades undo
\* exactly what upgrades did, and no run leaves a script half done.
SchemaFollowsRevision ==
    \E r \in 0 .. 7 :
        /\ versions = HeadOf(r)
        /\ catalog = SchemaAt[r] \/ (r = 2 /\ catalog = WithoutDefault)

\* A database at the head has exactly the tables, columns, defaults, references and
\* constraints that the ORM declares (README.md, "alembic check"), however it came there.
HeadMatchesModels == versions = {7} => catalog = Declared

\* The revision changes only by a run that succeeds, from the revision it read at its
\* start to the one it was asked for, all scripts at once: two runs that overlap cannot
\* both succeed, and one that fails leaves the database at a revision someone asked for.
RunsAreSerial ==
    [][versions' # versions =>
        \E m \in Migrators :
            /\ run[m] # NoRun
            /\ out'[m] = "ok"
            /\ versions = HeadOf(run[m].from)
            /\ versions' = HeadOf(run[m].to)]_vars

\* The scripts fit the schema they meet: a statement fails for an object that is missing,
\* present or referred to only if another run has committed since the run began.
ScriptsFitTheSchema ==
    [][\A m \in Migrators :
        run[m] # NoRun /\ run'[m] = NoRun /\ out'[m] = "ProgrammingError"
            => versions # HeadOf(run[m].from)]_vars

=============================================================================
