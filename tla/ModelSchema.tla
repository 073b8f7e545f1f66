---------------------------- MODULE ModelSchema -----------------------------
(* The schema that the ORM classes of app/models declare (Base.metadata).    *)
EXTENDS SchemaTable

Crop == Stamped({"code", "name", "unit", "active"}, {}, {"active"}, {}, {{"code"}}, {})

ProcurementCentre ==
    Stamped({"name", "district", "active"}, {"block", "state", "latitude", "longitude"}, {"active"},
            {}, {}, {})

Farmer ==
    Stamped({"farmer_id", "name", "active"}, {"phone", "village", "block", "district", "state"},
            {"active"}, {}, {{"farmer_id"}}, {})

User ==
    [Stamped({"password_hash", "role", "active"}, {"username", "centre_id", "farmer_id", "phone"},
             {"active"},
             {<<"centre_id", "procurement_centres", "RESTRICT">>, <<"farmer_id", "farmers", "RESTRICT">>,
              <<"role", "user_role", "TYPE">>},
             {{"username"}, {"farmer_id"}, {"phone"}}, {{"centre_id"}})
     EXCEPT !.checks = {"ck_users_role_consistency"}]

FarmerLandHolding ==
    Stamped({"farmer_id", "survey_number", "area_acres", "active"},
            {"village", "block", "district", "state"}, {"active"},
            {<<"farmer_id", "farmers", "RESTRICT">>}, {}, {{"farmer_id"}})

Counter ==
    Stamped({"centre_id", "name", "active"}, {}, {"active"},
            {<<"centre_id", "procurement_centres", "RESTRICT">>}, {}, {{"centre_id"}})

Queue ==
    Stamped({"centre_id", "date", "status"}, {"crop_id"}, {"status"},
            {<<"centre_id", "procurement_centres", "RESTRICT">>, <<"crop_id", "crops", "RESTRICT">>},
            {{"centre_id", "date", "crop_id"}}, {{"centre_id"}, {"crop_id"}})

QueueEntry ==
    Stamped({"queue_id", "farmer_id", "position"}, {}, {},
            {<<"queue_id", "queues", "CASCADE">>, <<"farmer_id", "farmers", "RESTRICT">>},
            {{"queue_id", "position"}}, {{"queue_id"}, {"farmer_id"}})

Token ==
    [Stamped({"token_number", "sequence_number", "queue_id", "queue_entry_id", "farmer_id", "status"},
             {"counter_id", "called_at", "processing_started_at", "completed_at", "cancelled_at"},
             {"status"},
             {<<"queue_id", "queues", "CASCADE">>, <<"queue_entry_id", "queue_entries", "CASCADE">>,
              <<"farmer_id", "farmers", "RESTRICT">>, <<"counter_id", "counters", "RESTRICT">>},
             {{"queue_entry_id"}, {"queue_id", "sequence_number"}, {"queue_id", "token_number"}},
             {{"queue_id"}, {"farmer_id"}, {"counter_id"}})
     EXCEPT !.partial = {[key |-> {"farmer_id", "queue_id"},
                          where |-> <<"IN", {"CHECK_IN", "TOKEN", "WAITING", "CALLED", "PROCESSING"}>>]}]

ProcurementIntent ==
    [Stamped({"farmer_id", "centre_id", "crop_id", "land_holding_id", "expected_quantity_kg",
              "ready_date", "status", "created_by"}, {"cancellation_reason"}, {"id"},
             {<<"farmer_id", "farmers", "RESTRICT">>, <<"centre_id", "procurement_centres", "RESTRICT">>,
              <<"crop_id", "crops", "RESTRICT">>, <<"created_by", "users", "RESTRICT">>,
              <<"land_holding_id", "farmer_land_holdings", "RESTRICT">>,
              <<"status", "intent_status_enum", "TYPE">>},
             {}, {{"farmer_id"}, {"centre_id"}, {"crop_id"}})
     EXCEPT !.partial = {[key |-> {"farmer_id", "centre_id", "crop_id", "ready_date"},
                          where |-> <<"NOT IN", {"CANCELLED", "REJECTED", "COMPLETED"}>>]}]

ProcurementToken ==
    Stamped({"intent_id", "centre_id", "token_number", "scheduled_at", "status"},
            {"cancellation_reason"}, {"id"},
            {<<"intent_id", "procurement_intents", "RESTRICT">>,
             <<"centre_id", "procurement_centres", "RESTRICT">>, <<"status", "token_status_enum", "TYPE">>},
            {{"centre_id", "scheduled_at", "token_number"}}, {{"intent_id"}, {"centre_id"}})

ProcurementRecord ==
    Stamped({"intent_id", "token_id", "counter_id", "actual_quantity_kg", "price_per_kg"},
            {"total_amount"}, {"id"},
            {<<"intent_id", "procurement_intents", "RESTRICT">>,
             <<"token_id", "procurement_tokens", "RESTRICT">>, <<"counter_id", "counters", "RESTRICT">>},
            {{"token_id"}}, {{"intent_id"}, {"counter_id"}})

ProcurementStatusHistory ==
    [Table({"intent_id", "from_status", "to_status", "changed_by", "changed_at", "token_id", "remarks"},
           {"token_id", "remarks"}, {"id", "changed_at"},
           {<<"intent_id", "procurement_intents", "RESTRICT">>,
            <<"token_id", "procurement_tokens", "RESTRICT">>, <<"changed_by", "users", "RESTRICT">>},
           {}, {{"intent_id"}})
     EXCEPT !.checks = {"chk_status_history_condition"}]

CapacityRecord ==
    [Stamped({"centre_id", "crop_id", "date", "total_capacity_kg", "allocated_quantity_kg",
              "procured_quantity_kg", "active"}, {},
             {"id", "allocated_quantity_kg", "procured_quantity_kg", "active"},
             {<<"centre_id", "procurement_centres", "RESTRICT">>, <<"crop_id", "crops", "RESTRICT">>},
             {{"centre_id", "crop_id", "date"}}, {{"centre_id"}, {"crop_id"}, {"date"}})
     EXCEPT !.checks = {"chk_capacity_non_negative", "chk_capacity_not_exceeded"}]

AllocationRun ==
    Table({"centre_id", "crop_id", "allocation_date", "created_at"}, {}, {"id", "created_at"},
          {<<"centre_id", "procurement_centres", "CASCADE">>, <<"crop_id", "crops", "CASCADE">>},
          {{"centre_id", "crop_id", "allocation_date"}},
          {{"centre_id"}, {"crop_id"}, {"allocation_date"}})

AllocationDecision ==
    Table({"allocation_run_id", "intent_id", "farmer_id", "requested_quantity_kg",
           "allocated_quantity_kg", "remaining_capacity_kg", "selected", "rank", "ordering_reason",
           "tie_break_digest", "created_at"}, {"tie_break_digest"}, {"id", "created_at"},
          {<<"allocation_run_id", "allocation_runs", "CASCADE">>,
           <<"intent_id", "procurement_intents", "CASCADE">>, <<"farmer_id", "farmers", "CASCADE">>},
          {{"allocation_run_id", "intent_id"}},
          {{"allocation_run_id"}, {"intent_id"}, {"farmer_id"}})

Role                  == {"FARMER", "OFFICER"}
IntentStatus          == {"PENDING", "APPROVED", "REJECTED", "CANCELLED", "COMPLETED"}
ProcurementTokenStatus == {"WAITING", "CALLED", "PROCESSING", "COMPLETED", "CANCELLED"}

\* Base.metadata: every table and every native enum type, by name.
Declared ==
    [crops |-> Crop, procurement_centres |-> ProcurementCentre, farmers |-> Farmer, users |-> User,
     farmer_land_holdings |-> FarmerLandHolding, counters |-> Counter, queues |-> Queue,
     queue_entries |-> QueueEntry, tokens |-> Token, procurement_intents |-> ProcurementIntent,
     procurement_tokens |-> ProcurementToken, procurement_records |-> ProcurementRecord,
     procurement_status_history |-> ProcurementStatusHistory, capacity_records |-> CapacityRecord,
     allocation_runs |-> AllocationRun, allocation_decisions |-> AllocationDecision,
     user_role |-> Role, intent_status_enum |-> IntentStatus,
     token_status_enum |-> ProcurementTokenStatus]

=============================================================================
