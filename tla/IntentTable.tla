---------------------------- MODULE IntentTable -----------------------------
(***************************************************************************)
(* The rows of table `procurement_intents` for ONE centre and crop          *)
(* (app/models/procurement.py), shared by the modules that write and read   *)
(* them.  Intents of other centres or crops never meet these: the active    *)
(* intents of a farmer, the slots and the allocation cycles all fix both.   *)
(***************************************************************************)
EXTENDS Integers, Sequences

CONSTANTS
    Farmers,    \* the primary keys of table farmers
    Dates,      \* ready dates
    Quantities, \* expected_quantity_kg, in units
    Stamps      \* created_at

\* expected_quantity_kg is validated with gt=0.
ASSUME QuantitiesAssumption == Quantities \subseteq Nat \ {0}
ASSUME StampsAssumption == Stamps \subseteq Nat

IntentStatuses == {"PENDING", "APPROVED", "REJECTED", "CANCELLED", "COMPLETED"}

\* The statuses outside the predicate of uq_active_intent_slot.
OverStatuses == {"CANCELLED", "REJECTED", "COMPLETED"}

Intents ==
    [farmer: Farmers, date: Dates, quantity: Quantities, created: Stamps,
     status: IntentStatuses]

\* created_at is the time the transaction began: rows may tie on it, and commit
\* in another order.
NewIntent(farmer, date, quantity, created) ==
    [farmer |-> farmer, date |-> date, quantity |-> quantity, created |-> created,
     status |-> "PENDING"]

IsOpen(intent) == intent.status \notin OverStatuses

\* Outside src/: officers decide on intents, and no decision is taken back.
Decisions(status) ==
    CASE status = "PENDING"  -> {"APPROVED", "REJECTED", "CANCELLED"}
      [] status = "APPROVED" -> {"CANCELLED", "COMPLETED"}
      [] OTHER               -> {}
=============================================================================
