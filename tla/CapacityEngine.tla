--------------------------- MODULE CapacityEngine ---------------------------
(* CapacityEngine.calculate (app/capacity/engine.py), in the two results that *)
(* the services decide on.                                                  *)
EXTENDS Integers

CapacityStatus(record) ==
    IF ~ record.active THEN "INACTIVE"
    ELSE IF record.total <= record.allocated THEN "FULL"
    ELSE IF record.allocated = 0 THEN "AVAILABLE"
    ELSE "PARTIAL"

AvailableCapacity(record) ==
    IF record.total <= record.allocated THEN 0 ELSE record.total - record.allocated
=============================================================================
