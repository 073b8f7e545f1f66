----------------------------- MODULE TokenTable -----------------------------
(***************************************************************************)
(* The rows of the tables `tokens` and `queue_entries` of ONE queue, with   *)
(* the vocabulary that the queue modules share (app/models/token.py,        *)
(* app/models/queue_entry.py).  Queues never share a row, a number or a     *)
(* constraint, so one queue stands for all of them.                         *)
(*                                                                         *)
(* A table is the sequence of its committed rows in commit order: the place *)
(* of a row stands for its random primary key.  An entry and its token are  *)
(* inserted by one transaction and never deleted, so a row here is both.    *)
(***************************************************************************)
EXTENDS Integers, Sequences

CONSTANTS
    Farmers,    \* the primary keys of table farmers
    Counters,   \* the primary keys of table counters
    NoCounter   \* the null of tokens.counter_id

ASSUME CountersAssumption == NoCounter \notin Counters

\* The values of TokenStatus.  The service never assigns the first two.
Statuses ==
    {"CHECK_IN", "TOKEN", "WAITING", "CALLED", "PROCESSING", "COMPLETED", "CANCELLED"}

\* The statuses under which a farmer holds a place in the queue: the list of
\* get_active_token_for_farmer, and the predicate of uq_active_farmer_token.
ActiveStatuses == {"CHECK_IN", "TOKEN", "WAITING", "CALLED", "PROCESSING"}

\* `called` is called_at in ticks of a clock that moves on with every committed
\* call, 0 for null.  token_number is `seq` printed as T-%03d: one to one.
Rows ==
    [seq: Nat, pos: Nat, farmer: Farmers, status: Statuses,
     counter: Counters \union {NoCounter}, called: Nat]

NewRow(farmer, seq, pos) ==
    [seq |-> seq, pos |-> pos, farmer |-> farmer, status |-> "WAITING",
     counter |-> NoCounter, called |-> 0]

CalledRow(row, counter, now) ==
    [row EXCEPT !.status = "CALLED", !.counter = counter, !.called = now]

MovedRow(row, status) == [row EXCEPT !.status = status]

IsWaiting(row) == row.status = "WAITING"
IsActive(row) == row.status \in ActiveStatuses

\* The status a token operation demands, and the one it leaves behind.
TokenOps == {"process", "complete", "cancel"}
FromStatus(op) ==
    CASE op = "process"  -> "CALLED"
      [] op = "complete" -> "PROCESSING"
      [] op = "cancel"   -> "WAITING"
ToStatus(op) ==
    CASE op = "process"  -> "PROCESSING"
      [] op = "complete" -> "COMPLETED"
      [] op = "cancel"   -> "CANCELLED"
=============================================================================
