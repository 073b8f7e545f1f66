# eFarmer: TLA+ models and proofs

eFarmer is a FastAPI / SQLAlchemy service on PostgreSQL (`src/app`). Farmers ask
procurement centres for a delivery slot (*intents*), a centre's capacity is allocated to
approved intents, and on the day farmers stand in a queue of *tokens* that officers call.
Every request is a coroutine with a database session of its own; requests share nothing
but the database, so everything that can go wrong between two of them goes wrong between
two SQL statements. That is the level of these models: **one action per statement, lock
wait, commit or failure**, at isolation READ COMMITTED.

## 1. The system

| Part | State | Operations | Interacts with |
|---|---|---|---|
| `services/queue.py` with `repositories/queue.py`, `repositories/token.py` | `queues`, `queue_entries`, `tokens` | join_queue, call_next, process/complete/cancel_token, get_queue_status, get_token | row locks on the queue and on tokens; unique indexes; `core/retry.py` |
| `core/retry.py` | attempt counter | run_with_retry: roll back and run again after a deadlock | every queue operation that writes |
| `services/procurement.py` | `procurement_intents` | create_procurement_intent, get_procurement_by_id | rules; no lock, only the partial unique index `uq_active_intent_slot` |
| `rules/` | none | RuleEngine.evaluate, RULE-001 to RULE-005 | called by procurement and eligibility |
| `services/eligibility.py` | none | evaluate_eligibility | rules, without the deferred one; unlocked reads |
| `capacity/engine.py`, `services/capacity.py` | `capacity_records` | calculate, get_centre_capacity | allocation, priority centre |
| `allocation/engine.py` | none | allocate (pure) | called by the allocation service |
| `services/allocation.py` | `allocation_runs`, `allocation_decisions`, `capacity_records.allocated_quantity_kg` | run_allocation, two reads | lock on the capacity record; unlocked read of the intents |
| `services/priority_centre.py` | none | select_priority_centre: the first preferred centre with capacity | unlocked reads, two per preference |
| `services/farmer.py` | `farmers` | create_farmer, get_farmer | unique index on `farmer_id`; the pool |
| `services/centre.py`, crops, holdings | master data, written by no code | reads | |
| `core/security.py`, `core/rbac.py`, `dependencies/` | none | who is the user, which role | guards of every route |
| `db/session.py`, `core/config.py` | engine, pool of connections | one session per request; rollback and close at its end | everything; `/ready` probes it |
| `migrations/` (Alembic) | the schema, `alembic_version` | seven scripts, up and down, in one transaction per run | the ORM models must declare what they make |

What is hard here, and what makes each part right:

* **Queue.** max+1 numbering, check-then-insert of the active token, a `SELECT ... LIMIT 1
  FOR UPDATE` that waits on rows which change meanwhile, a commit that is followed by a
  refresh which may fail, retries of whole attempts. Right means: each operation is one
  atomic step on a line of tokens, nobody has two places, calls come in order, and
  answers are true.
* **Procurement.** Five reads and an insert without a lock. Right means: a slot is booked once,
  an intent never rests on records that were all along inactive, and the duplicate check
  holds except against requests that overlap.
* **Allocation.** An unlocked pre-check, a locked capacity record, unlocked intents, and two
  checks on the sum. Right means: one run per cycle, record = sum of the decisions, never
  beyond the capacity, a plan that depends on the candidates and not on their order.
* **Queries.** The poll of a queue, the selection of a centre and the check of eligibility
  are each put together from several statements, and each statement sees a later state.
  Right means: the parts of an answer fit together, or the whole was right at some moment.
* **Connections.** A commit returns the connection and the refresh after it asks for another.
  Right means: whoever holds a connection never waits for one, and answers are true
  even when the pool times out between a commit and its refresh.
* **Migrations.** Two deployments may migrate at once, a run may die anywhere, and data may
  stand in the way of a downgrade. Right means: the schema is always that of the
  revision, and at the head it is the one that the ORM declares.

The full list, each at its line, is `hazards` in `PROJECT.json`.

## 2. The modules

| Module | Models | Role |
|---|---|---|
| `TokenTable` | rows and statuses of one queue's tokens | vocabulary |
| `TokenQueue` | what the queue promises: atomic Join, CallNext, Move | abstract specification |
| `QueueService` | the five queue operations with locks, retries and faults | detailed; implements `TokenQueue` |
| `QueueInvariant` | `Inv`, the inductive invariant | checked by TLC, used by the proofs |
| `QueueServiceProofs` | theorems | TLAPS |
| `QueueStatus` | get_queue_status over `TokenQueue!Next` | composition |
| `QueueStatusProofs` | its inductive invariant and theorems | TLAPS |
| `IntentTable`, `IntentBook` | rows of the intents of a centre and crop; slots booked once | vocabulary, abstract specification |
| `Procurement` | create_procurement_intent, and the five rules | detailed; implements `IntentBook` |
| `ProcurementInvariant`, `ProcurementProofs` | its inductive invariant `Inv`; theorems | TLC and TLAPS; TLAPS |
| `RuleEngine` | the engine's loop | component |
| `RuleEngineProofs` | its inductive invariant and theorems | TLAPS |
| `CapacityEngine` | CapacityEngine.calculate: status and available capacity | pure operators |
| `AllocationEngine` | AllocationEngine.allocate | pure operators |
| `AllocationPlanning` | one plan, on every small input | checks the operators |
| `AllocationService` | run_allocation, over `IntentBook!Next` and `AllocationEngine` | composition |
| `AllocationProofs` | what a plan is, the inductive invariants of both, theorems | TLAPS |
| `CentreQueries` | select_priority_centre, get_centre_capacity and evaluate_eligibility over data that changes | composition, with `CapacityEngine` |
| `CentreQueriesProofs` | its inductive invariant and theorems | TLAPS |
| `PooledRequests` | create_farmer, get_farmer and `/ready` on a bounded pool of connections | component, with fairness |
| `PooledRequestsProofs` | its inductive invariant and theorems | TLAPS |
| `SchemaTable`, `ModelSchema` | what a table is; the tables that `app/models` declare | vocabulary; reference |
| `Migrations` | the scripts of `migrations/versions` and runs of them under `env.py` | component, compared with `ModelSchema` |
| `MigrationsProofs` | the inductive invariants behind `RunsAreSerial` and `SchemaFollowsRevision` | TLAPS |
| `MC...` | constants and symmetry of the instances | for TLC |

**How state corresponds to the code.** A table is the sequence of its committed rows; the
place of a row stands for its random primary key. `pc[s]` is the statement a session runs next,
`req[s]` its arguments, `write[s]` what it has flushed and not committed, `queueLock`,
`rowLock` and `recordLock` are the row locks of the running transactions, `out[s]` is the
answer or the error raised. `commits[s]`, `lived`, `saw`, `checked`, `seeded`,
`approved`, `right` and `improved` are history: no guard reads them. In `PooledRequests`,
`conn` is the set of requests that hold a connection and `flushed[r]` says that r's insert
locks its key. In `Migrations`, `catalog` is the committed schema, `draft[m]` what the
transaction of run m has made of it, and `held[m]` the objects it has locked.

**One process at a time, or several.** The three queries of `CentreQueries` write and lock
nothing, so requests cannot disturb each other, and one that is interrupted by every committed
change shows all there is. Everywhere else several sessions, requests or runs interleave.

**How the database is modelled.**
A plain SELECT reads what is committed when it runs. `FOR UPDATE` waits for the holder of
the row and then sees its latest version. `ORDER BY ... LIMIT 1 FOR UPDATE` visits the
rows of its snapshot in order, waits for each, tests its latest version again and passes
over one that no longer matches (`SelectWaiting`, `ScanNext`). An insert waits for a
transaction that inserted an equal unique key, then fails if that one committed. A
transaction that ends, either way, gives back its locks. Any statement may fail
(`StatementFails`), and one that waits may be chosen as the victim of a deadlock
(`DeadlockVictim`): PostgreSQL does so only when there is a cycle, the model whenever a
session waits, so that the retry path is met. Foreign keys are modelled where the code reaches them
unchecked (an unknown farmer that an officer joins). DDL is transactional: a run sees
its own changes of the catalog, others see them when it commits. A DDL statement locks its table
and those its foreign keys refer to until the transaction ends.

**External.** No code in `src/` opens or closes queues, decides on intents, switches master
records on and off, or changes capacities, but the code reads all of them. `SetOpen`,
`Decide`, `SetActive`, `SetCapacity` and `SetRecord` let an administrator do so by one UPDATE
at any moment that the row locks allow. Decisions on intents are not taken back
(`IntentTable!Decisions`); otherwise the database, not the code, would have to keep
two intents of one slot apart. Alembic itself (the order of scripts, the update of
`alembic_version` that must meet one row) and PostgreSQL's verdicts on DDL are external too.

**Abstractions.** One queue, one centre and crop, one cycle: different ones share no row,
lock or constraint. Quantities are small integers (the code uses Decimal; only sums and comparisons
are made). `token_number` is `sequence_number` printed. SHA-256 digests are distinct
naturals (`DigestAssumption`: no collisions). Users are members of sets by role and
centre: the table's CHECK `ck_users_role_consistency` makes officers have a centre and
farmers a farmer record; `Unlinked` users are the rest the service guards against.
In `PooledRequests` a farmer's `farmer_id` and the random id of the row are one identifier. A
table is its columns, nullability, defaults, references, unique and partial indexes and named
checks; column types other than enums are left out. Errors are their classes. Names keep those of the source where there are any. In each module
the definitions marked `Mutant:` are no part of the model: they are faulty variants
with which the properties are tested.

## 3. The runs

| Run | Instance | Checks |
|---|---|---|
| `queue_service` | 2 sessions, 2 farmers, 1 officer, 3 tokens, 2 attempts, all operations | `Inv`, `NumbersDense`, `OneActiveTokenPerFarmer`, `CalledInOrder`, `AnswersMatchCommits`, `JoinsNeverCollide`, `EmptyAnswerIsTrue`, `ImplementsTokenQueue` |
| `queue_requests` | 2 sessions, 2 farmers, an unlinked user, local and foreign officers and counters, unknown ids of each kind, 1 token, fair | `EveryRequestIsAnswered`, `CommitsAreAuthorised`; every refusal fires |
| `queue_illegal_transition` | 1 session | violation of `IllegalTransitionIsConflict` |
| `queue_status` | 2 farmers, 2 tokens, polls without end | `PartsFitTogether`, `PollsMoveForward` |
| `procurement` | 2 sessions, 2 farmers, a holding that is switched off and on, local and foreign officers, a stranger, 2 dates, 2 intents, decisions | `Inv`, `DuplicatesOnlyFromOverlap`, `AnswersMatchCommits`, `CommitsAreAuthorised`, `EligibleWhenChecked`, `ImplementsIntentBook` |
| `procurement_duplicates` | 2 sessions, 1 farmer, 2 dates, 2 intents | violation of `OneActiveRequest` |
| `rule_engine` | 4 rules, one deferred, every verdict (a failing result without a failure too), selection and mode | `EligibleIffNoFailure`, `FailuresAreInOrder` |
| `allocation_planning` | up to 3 candidates of 3 quantities, 2 times, eligible or not; capacities -1, 2, 4 | `CapacityIsAccountedFor`, `NoEnvy`, `NothingServableIsLeft`, `OrderOfInputIsIrrelevant` |
| `allocation_service` | 2 sessions, 2 intents, totals 0 to 2 | `TypeOK`, `AllocatedIsBooked`, `CapacitySuffices`, `OneDecisionPerFarmer`, `DecidedWereApproved`, `AnswersMatchCommits`, `PlanIsCurrent` |
| `centre_queries` | 2 centres, up to 2 preferences, totals 0 and 2, up to 3 changes while a request runs | `SelectionWasRight`, `EligibilityWasRight` |
| `pooled_requests` | 3 requests on 2 connections, 2 identifiers, one registered; fair | `NoneHoldsAndWaits`, `AnswersMatchCommits`, `PoolRecovers` |
| `migrations` | 2 migrators, every revision as a start and as a goal, a slot booked up to twice | `SchemaFollowsRevision`, `HeadMatchesModels`, `RunsAreSerial`, `ScriptsFitTheSchema` |

**Bounds, and why they are enough.** `MaxTokens = 3` with two farmers makes a farmer
join, leave and join again while the other is called; with two sessions every pair of
operations meets at every statement, and a scan that waits for one cancellation meets
another behind it. A third session adds no property that fails, which is proved (section 4).
`MaxAttempts = 2` has one retry, which is where state could survive an attempt; the code's
3 adds a second of the same kind, and the proofs hold for any number. `Operations` restricts what
clients of an instance ask for, never what an operation does. `queue_requests` trades
tokens for kinds of users and ids: who may do what depends on one token, and so does
whether a request is answered. For intents, the conflict of
two requests concerns one farmer, and two dates tell a slot from a farmer; one record that
changes its flag tells a stale check, and the proof covers all of them. A plan of
three candidates has one that is served, one passed over
and one after it. Two intents and a total of at most 2 let an allocation fill, half fill
or miss the capacity. `MaxChanges = 3` lets a preference be passed over, the next one be
filled, and something improve, between the statements of one request. Three requests for two
connections have one that waits for a connection while another waits for a key; a lock cycle
between them would need no more. `MaxRows = 2` is what a unique constraint can notice, and
`Goals` are all the revisions there are. Sessions, farmers and dates are symmetric where
nothing orders them.

**Deadlock** is checked in every run but two, in which the program ends: a plan and an
evaluation are one call.

**Fairness.** `queue_requests` assumes `SF_vars(Step(s))` for each session: the
event loop runs every coroutine that is ready, and PostgreSQL serves the waiters of a lock in
the order of their arrival, so a session whose lock is free again and again gets it.
`pooled_requests` assumes `WF_vars(Proceed(r))` of what a request with a connection does next,
for the same reason, and `SF_vars(InsertFarmer(r))` of the insert that waits for a key. Nothing is
assumed of clients, of failures and timeouts, of the administrator, or of the order in which
the pool serves its waiters: that a connection becomes free again and again
(`PoolRecovers`) follows from what its holders do.

**What the violations show.**

* `queue_illegal_transition`: complete_token of a token that is not being processed (and likewise
  process and cancel) is meant to end in a ConflictError, but formats
  `token.status.value` (`services/queue.py:285`, `:324`, `:367`). `tokens.status` is a
  String column, so a loaded status is a plain `str`: AttributeError, HTTP 500. The unit
  tests expect ConflictError (`tests/test_queue_service.py:451`) and get it, on
  tokens built in memory with an enum. The row is unlocked and nothing is committed
  in either case, so all other properties hold with the defect.
* `procurement_duplicates`: RULE-005 refuses a farmer who "already has an active request
  for this crop at this centre" (`rules/builtin.py:85`), but two overlapping requests
  for different ready dates both pass it; the index that catches the rest includes the date
  (migration 0006 removed the one that did not). `DuplicatesOnlyFromOverlap` says what does hold: overlapping requests
  are the only way.

**What else the models show of this code**, without any text that says otherwise:

* The downgrade of 0006 adds the constraint `uq_intent_slot` again. When a slot has been booked
  again after a cancellation, the constraint is refused, and the run fails whole
  (`SchemaFollowsRevision` holds, `ScriptsFitTheSchema` is about other failures).
* The downgrade of 0003 adds `queue_entries.status` for existing rows with a default and drops
  the default afterwards; revision 0002 had one. `SchemaFollowsRevision` allows for it by name
  (`WithoutDefault`).
* `RuleResult` allows a result that is not passed, not deferred and has no failure
  (`rules/schemas.py:28`). The engine records no failure for it, yet stops at it in FIRST_FAILURE
  (`rules/engine.py:71-75`): such a rule refuses nobody, and hides the rules after it. Neither the
  helpers of `BaseRule` nor the five rules make one, but the registry is a parameter, so
  `EligibleIffNoFailure` says what the engine answers with such rules and what without them.
* A farmer who is told of an HTTP 500 at registration may be registered: the refresh
  after the commit can time out (`AnswersMatchCommits` of `PooledRequests` says this is the
  only such answer).
* If an administrator frees capacity while a selection runs, its answer may have been right
  at no moment. Nothing in `src/` does so, hence `improved` in `SelectionWasRight` and
  `EligibilityWasRight`.

## 4. What is proved

For every value of the constants: any number of sessions, farmers, officers, counters, tokens, attempts,
dates, intents, candidates, rules, centres, preferences, requests, connections, operators. The only
assumptions are the named ones on constants (identifiers of
different kinds differ, nulls are no values and a dropped table no table, quantities and totals are natural numbers, digests differ,
requests are finitely many and the pool has room for one connection).

| Module | Theorem | States |
|---|---|---|
| `QueueServiceProofs` | `Invariance` | `Spec => []Inv` |
| | `TypeCorrect`, `NumbersAreDense`, `OneActiveToken`, `CallsAreInOrder`, `AnswersAreTrue`, `NoCollision` | the type invariant and the invariants of `queue_service` |
| | `EmptyAnswers` | `Spec => EmptyAnswerIsTrue` |
| | `AuthorisedCommits` | `Spec => CommitsAreAuthorised` |
| | `Refinement` | `Spec => ImplementsTokenQueue` |
| `ProcurementProofs` | `Invariance`, `TypeCorrect` | `Spec => []Inv`, `Spec => []TypeOK` |
| | `DuplicatesOverlapped`, `AnswersAreTrue` | `DuplicatesOnlyFromOverlap`, `AnswersMatchCommits` |
| | `OwnersOnly`, `EligibleOnce` | `CommitsAreAuthorised`, `EligibleWhenChecked` |
| | `Refinement` | `Spec => ImplementsIntentBook` |
| `RuleEngineProofs` | `Invariance` | its inductive invariant |
| | `EligibleMeansNoFailure`, `FailuresInOrder` | `EligibleIffNoFailure`, `FailuresAreInOrder` |
| `QueueStatusProofs` | `Invariance` | its inductive invariant |
| | `AnswersFitTogether`, `AnswersMoveForward` | `PartsFitTogether`, `PollsMoveForward` |
| `AllocationProofs`, one plan | `PlanningInvariance` (a lemma) | the plan is the one of its candidates |
| | `CapacityAccounted`, `NothingServable`, `NobodyEnvies` | `CapacityIsAccountedFor`, `NothingServableIsLeft`, `NoEnvy` |
| | `InputOrderIrrelevant` | `OrderOfInputIsIrrelevant` |
| `AllocationProofs`, the service | `Invariance` | its inductive invariant, `Inv` and `LedgerInv` |
| | `TypeCorrect`, `AllocatedBooked`, `CapacityAlwaysSuffices` | `TypeOK`, `AllocatedIsBooked`, `CapacitySuffices` |
| | `PlanStaysCurrent` | `Spec => PlanIsCurrent` |
| | `OneDecision`, `ApprovedOnly`, `AnswersAgree` | `OneDecisionPerFarmer`, `DecidedWereApproved`, `AnswersMatchCommits` |
| `CentreQueriesProofs` | `Invariance` | its inductive invariant |
| | `SelectionsWereRight`, `EligibilitiesWereRight` | `SelectionWasRight`, `EligibilityWasRight` |
| `PooledRequestsProofs` | `Invariance` | its inductive invariant |
| | `HoldersDoNotWait`, `AnswersAgree` | `NoneHoldsAndWaits`, `AnswersMatchCommits` |
| `MigrationsProofs` | `Invariance` | its inductive invariant |
| | `SerialRuns` | `Spec => RunsAreSerial` |
| | `SchemaInvariance` | its extension by the schema, `FullInv` |
| | `SchemaMatchesRevision`, `HeadIsTheModels` | `SchemaFollowsRevision`, `HeadMatchesModels` |
| | `ScriptsFit` | `Spec => ScriptsFitTheSchema` |

**The queue.** None of the invariants is inductive: a join in flight
carries numbers it read three statements ago. `Inv` (module `QueueInvariant`) adds what
makes them stay right. `LocksInv`: a session between its lock and its commit, and no
other, holds the queue's row. `JoinInv`: then the queue is still open, the numbers it
holds are still the next ones, and at the commit its farmer still has no active
token, for only the holder of the queue's row appends or calls. `CallInv`: every waiting token
is still in the snapshot of a scan, since tokens never begin to wait but by a join, and joins wait
for the lock; so the first of them that still waits is the first that waits at all. `MoveInv`:
a locked token row is as it was when it was locked. `TableInv`: called tokens form a prefix of those
not withdrawn, in order of `called`. Each action is shown to preserve each part; other sessions' parts are
preserved because the write goes to a row they do not hold. With `Inv`, each Commit
is `Join`, `CallNext` or `Move` of `TokenQueue`, `SetOpen` is `SetOpen`, and every
other step stutters. Authorisation needs one more invariant, `AuthInv`: what the checks at
submission and under the lock establish still holds of the request at its commit.

**Procurement.** There is no lock, so hardly anything a request has read is still true when it
commits. What is: a slot that was free when the row was inserted is free at the commit, because an
insert of the same slot waits for it; an intent that is over stays over, so the intents which were
open when the request looked include any that has been open ever since; and a record it found
active has been active at some moment of its life (`seen` is within `lived`). That is all
`Inv` says beyond the types and the counts of commits, and it is enough: each Commit is
`Book` of `IntentBook`, and of two open intents of a farmer the later can only have
missed the earlier by looking before it was committed.

**Rules.** What the engine should do is stated without its loop: `Reached` is the set of rules it is to
evaluate, all that are selected or those up to the first that fails. `Inv` says that the loop
is either `Going`, with exactly the selected rules after those it has evaluated still to come and
nothing that would have stopped it, or `Over`, with exactly `Reached` evaluated; and that the
failures are those of the evaluated rules which carry one. A rule that is evaluated next is the lowest left, so
it is above all before it (`FirstRuleIsFirst`, `Appended`). That a failing rule is
missed in neither mode then needs that the first failing rule is always reached, and that its result carries a failure.

**The poll.** The four statements see four states of the queue, but each reads something that never
falls: the length of the line (it is what the counts add up to, and what the last number is), and the
tokens that are over. So what was read is a lower bound of what the line is now (`CountedOf`), the last
number, which is read last, bounds the parts read before it, and the next poll starts
above the answer of this one. That the counts of all statuses add up to the length is
counting disjoint sets; that the number shown as called was issued needs only that the clock
of the calls has a latest tick.

**One plan.** The engine is two loops: a sort and a pass with a running remainder. The model
writes them as a choice by rank (`Ranked`) and a recursive function (`Remaining`), the service's
sum as another (`Taken`). tlapm cannot unfold a recursive function whose
existence it has not seen, and cannot instantiate the library's theorem about them, so
`RecursionExists` shows that a function defined step by step on `0 .. n` exists, by induction over
the bound (`InductionUpTo`, from the well-foundedness of `<`), and `RemainingSteps` and `TakenSteps`
unfold the two. From there: the order of the candidates is total, so no two are preceded by the same
number of others; their ranks are therefore different numbers from 1 to n, hence all of
them, and the ranking is a permutation (`RankingPermutes`): a plan decides once on each
candidate and on nobody else. What is left plus what was taken is the capacity after every step
(`LedgerBalances`); what is left only shrinks (`LeftShrinks`), so whoever does not fit at his turn does not
fit into what is left at the end, and whoever fits when his turn comes late fitted earlier. When two
candidates change places in the query's answer, who is ahead of whom is renamed and nothing else
(`AheadInBothOrders`), so by induction the remainder at each rank is the same, and with it each decision.

**Allocation.** `PlanFitsTheCapacity` takes two facts of a plan to the service: its decisions are the
candidates', and they add up to no more than it was made for. Two candidates of one farmer would be two
open intents of one slot, which the intent book rules out. `RunInv` carries this to the table:
while a session is between its insert and its commit no run is committed, because it holds the
capacity record and the constraint let it pass, so the decisions it adds are the only ones. `LedgerInv`
is about the record: it is 0 to total; while no run is committed it holds what it was
created with; and a session that has planned has its plan made for what the record has, since
it has held the record ever since and `SetCapacity` waits for the lock. Hence the two checks of run_allocation never
fire, and what is booked is what was decided.

**Queries.** What a request has read is stale when it answers; the argument is that staleness has a
direction. As long as nothing improves, a preference that did not suit never will (an
offer only shrinks, a flag only falls: `ChangesWorsen`), so when a centre is found active all
preferences before it are still unsuitable, and if it has room at that moment, it is the
right answer at that moment, which the history variable notes. `SelectInv` carries this to the
read of the record: if there is room then, there was room before, and the centre was right when it
was found active. `EvaluateInv` does the same for the rows of an eligibility
check: what the loads found active was so together when the farmer was loaded, if the
rest still is when it is read. Both verdicts hence were right at the moment of the
first read, or, for refusals, at the last.

**The pool.** `Inv` ties each statement to its operation, to the number of commits before it, and
to the lock and connection it may hold: a key is locked only between the insert and the commit, when
the request has its connection already. The size of the pool is kept because the only step that
takes a connection finds fewer than `Size` taken.

**Migrations.** A run commits only if it has written the revision, and from the first write on
`WrittenInv` holds: it has locked the row of `alembic_version`, and the revision is
still the one it began with, for any other run would have had to write it as well. At the
first write this is what Alembic checks (the row it updates must be there), except for a run from an
empty database, which inserts a row and finds no other one only if that is revision 1. What protects
that run is the table `crops`, which the first script creates and the last downgrade drops:
`HeadInv` says it is there exactly when there is a revision, `CropsInv` that a run which made or dropped it has it
locked. That no other statement of the scripts is about it is read off the scripts (`Statements`).

**The schema.** `SchemaFollowsRevision` speaks of committed catalogs; a run works on a draft,
statement by statement, and what a statement makes depends on what it finds. So the
invariant is stated object by object. `Due(name, r)` is what an object may be at revision r: nothing before
the script that creates it (`Born`), then what that script made and the alterations up to r left of
it (two objects for `queue_entries` at revision 2, with the default of `status` and without). `Fits`
says of each statement of a script which one it is; hence what it makes (`NewObject`) is due at
the end of the script. `ScriptsReach` says that a script touches every object of which something else
is due at its end than at its start. `DraftInv` follows: in a
transaction each object the script has touched is as due at the end of the script and every
other as at its start. When the scripts are through this is `SchemaInv`, the catalog of one revision, and `RunsAreSerial`'s
`WrittenInv` says that the catalog below the draft is still the one the run began with. `SchemaAt`, which
the property is stated with, is shown to be the same family (`SchemasAreStandard`), and its last
member what the ORM models declare, object by object (`HeadIsTheModels`).

`ScriptsFitTheSchema` needs the order within a script as well. `Place` numbers the objects so that whatever an object refers
to comes before it (`ParentsFirst`); upgrades create in ascending and downgrades drop in
descending order (`UpgradesAscend`, `DowngradesDescend`), so a reference always points at
something created already, and nothing that is dropped is still referred to (`OrderOfScript`). A statement
that PostgreSQL refuses as a programming error therefore met what another run has
committed since (`ScriptFitsView`).

TLC checks `Inv` of the two services, on reachable states, in `queue_service` and `procurement`. The
invariants of the other proofs were checked on the instances of section 3 before they were proved.

**Model-checked only.** `EveryRequestIsAnswered` and `PoolRecovers`: liveness is out of the
prover's reach. Every other property of a passing run is a theorem.

## 5. Not modelled

* The reads of one row with an ownership check (get_token, get_procurement_by_id,
  get_intent_allocation, get_centre_allocations, get_centre) and the pages of list_centres: one
  statement or two that write nothing and put nothing together.
* Other rules than the five: `Procurement` and `CentreQueries` evaluate those of
  `get_default_registry`, whose failing results all carry a failure. `RuleEngine` has any rules.
* Changes of users, of their centres, and of the centre of a queue: no code in `src/` makes them, so
  `CommitsAreAuthorised` says who is let through, not what happens to one whose rights change
  meanwhile.
* Relations between the statements of get_centre_capacity: it is modelled as a reader in
  `CentreQueries`, but each part of its answer comes from one statement, so no property is stated of it.
* JWT decoding, logging, response formatting, the liveness probe, CORS: pure library calls. Other
  configuration than the size of the pool: constants.
* `scripts/`: writes documentation from the OpenAPI schema.
* Migrations: the offline mode (it prints SQL), column types other than enums, and names of indexes.
* The pool's recycling and pre-ping of connections and its disposal at shutdown.
* CapacityOutput.utilisation: a ratio that decides nothing. The reasons in the answer of
  select_priority_centre: wording.
* Waiting times (retry delays, pool and lock timeouts): a step may always come later.

## 6. The plan

Done: the queue, its poll, procurement, rules, allocation, the queries on centres, the
pool with the registration of farmers, the migrations; proofs for all of them.

Left: what liveness there is stays with TLC. The helpers that the proofs of several modules state in their
own words (sums over finite sets, counts that only grow) could be shared by a module of
their own.
