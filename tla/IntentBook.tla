----------------------------- MODULE IntentBook -----------------------------
(***************************************************************************)
(* What the procurement service promises to those who read the intents of   *)
(* a centre and crop: they are booked one at a time, each in a slot (farmer *)
(* and ready date) that no open intent of that farmer holds.  Procurement   *)
(* implements it, and it is all that AllocationService knows of intents.    *)
(***************************************************************************)
EXTENDS IntentTable

VARIABLE intents

Init == intents = << >>

Book(intent) ==
    /\ intent.status = "PENDING"
    /\ \A i \in DOMAIN intents :
        IsOpen(intents[i]) => <<intents[i].farmer, intents[i].date>> # <<intent.farmer, intent.date>>
    /\ intents' = Append(intents, intent)

Decide(i, status) ==
    /\ status \in Decisions(intents[i].status)
    /\ intents' = [intents EXCEPT ![i].status = status]

Next ==
    \/ \E intent \in Intents : Book(intent)
    \/ \E i \in DOMAIN intents, status \in IntentStatuses : Decide(i, status)

Spec == Init /\ [][Next]_intents
=============================================================================
