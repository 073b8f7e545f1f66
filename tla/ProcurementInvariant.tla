------------------------ MODULE ProcurementInvariant ------------------------
(***************************************************************************)
(* Why Procurement is right: an inductive invariant.  Nothing is locked, so *)
(* it rests on what never comes back: a slot that was free stays free for   *)
(* the one who inserted it, and an intent that is over stays over.          *)
(***************************************************************************)
EXTENDS Procurement

\* What the locals of a session are at each step.
LocalsInv(s) ==
    /\ pc[s] # "commit" => write[s] = NoRow
    /\ pc[s] \in {"idle", "done"} => seen[s] = {}
    /\ pc[s] # "done" => out[s] = "none"
    /\ pc[s] = "refresh" => commits[s] = 1
    /\ pc[s] \notin {"refresh", "done"} => commits[s] = 0
    /\ pc[s] = "done" =>
        /\ commits[s] \in {0, 1}
        /\ out[s] = "ok" => commits[s] = 1
        /\ out[s] \notin {"ok", "DBAPIError"} => commits[s] = 0

\* A request under way passed the ownership check, for the farmer it names.
OwnerInv(s) ==
    s \in InFlight => req[s].actor = req[s].farmer \/ req[s].actor \in LocalOfficers

\* What a session loaded and found active was active at some moment since the request
\* began; past the rules, that is enough of it.
EligibleInv(s) ==
    /\ s \in InFlight => active \subseteq lived[s] /\ seen[s] \subseteq lived[s]
    /\ pc[s] \in {"insert", "commit"} =>
        /\ {req[s].farmer, Centre, Crop} \subseteq lived[s]
        /\ req[s].farmer \in Farmers
        /\ HoldingsOf(req[s].farmer) \intersect lived[s] # {}

\* The intents that a session saw when it looked are over for its farmer, and stay so.
SawInv(s) ==
    pc[s] \in {"insert", "commit"} =>
        /\ saw[s] <= Len(intents)
        /\ \A i \in 1 .. saw[s] : intents[i].farmer = req[s].farmer => ~ IsOpen(intents[i])

\* An inserted row is pending, and its slot is taken by nobody else.
RowInv(s) ==
    pc[s] = "commit" =>
        /\ write[s] \in Intents
        /\ write[s].status = "PENDING"
        /\ write[s].farmer = req[s].farmer
        /\ ~ SlotTaken(write[s].farmer, write[s].date)
        /\ \A o \in Sessions \ {s} :
            pc[o] = "commit" =>
                <<write[o].farmer, write[o].date>> # <<write[s].farmer, write[s].date>>

\* The inductive invariant.
Inv ==
    /\ TypeOK
    /\ DuplicatesOnlyFromOverlap
    /\ \A s \in Sessions : LocalsInv(s) /\ OwnerInv(s) /\ EligibleInv(s) /\ SawInv(s) /\ RowInv(s)
=============================================================================
