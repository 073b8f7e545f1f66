------------------------- MODULE AllocationPlanning -------------------------
(***************************************************************************)
(* One call of AllocationEngine.allocate on any capacity and any candidates, *)
(* eligible or not, in any order: what a plan promises to the farmers.      *)
(* The candidates of one cycle are of distinct farmers, for the slot of a   *)
(* farmer and a date is booked once (IntentBook).                           *)
(***************************************************************************)
EXTENDS AllocationEngine

CONSTANTS
    Capacities,     \* bound: the capacities tried, negative ones included
    MaxCandidates,  \* bound: how many candidates
    Tried,          \* bound: the intents tried
    NotYet          \* there is no plan yet

ASSUME TriedAssumption == Tried \subseteq Intents
ASSUME CallBoundsAssumption == Capacities \subseteq Int /\ MaxCandidates \in Nat

VARIABLES capacity, candidates, result
call == <<capacity, candidates, result>>

DistinctFarmers(cands) ==
    \A i, j \in DOMAIN cands : cands[i].intent.farmer = cands[j].intent.farmer => i = j

Called ==
    /\ capacity \in Capacities
    /\ \E n \in 0 .. MaxCandidates : \E intents \in [1 .. n -> Tried] :
        candidates = [i \in 1 .. n |-> Candidate(i, intents[i])]
    /\ DistinctFarmers(candidates)
    /\ result = NotYet

AllocateCapacity ==
    /\ result = NotYet
    /\ result' = Allocate(capacity, candidates)
    /\ UNCHANGED <<capacity, candidates>>

Planning == Called /\ [][AllocateCapacity]_call

-----------------------------------------------------------------------------
Planned == result # NotYet
Decided == IF Planned THEN DOMAIN result.decisions ELSE {}

\* Every unit of the capacity is accounted for at every rank: what earlier decisions
\* took and what remains add up to what was available, which is never overdrawn, and
\* every candidate has exactly one decision.
CapacityIsAccountedFor ==
    Planned =>
        /\ \A k \in Decided :
            /\ result.decisions[k].remaining >= 0
            /\ result.decisions[k].remaining + Taken(result.decisions)[k] = result.available
        /\ result.remaining + AllocatedIn(result.decisions) = result.available
        /\ {result.decisions[k].intent : k \in Decided} = DOMAIN candidates
        /\ Len(result.decisions) = Len(candidates)

\* Nobody who waited longer and asked for no more is passed over: if a later request is
\* served, so is every earlier one of at most its quantity (WAITING_AGE order).
NoEnvy ==
    Planned =>
        \A i, j \in DOMAIN candidates :
            LET a == candidates[i].intent
                b == candidates[j].intent
                Served(id) == \E k \in Decided : result.decisions[k].intent = id /\ result.decisions[k].selected
            IN  /\ IsEligible(candidates[i])
                /\ a.created < b.created /\ a.quantity <= b.quantity
                /\ Served(j)
                => Served(i)

\* No request is refused that would fit in what the plan leaves unused.
NothingServableIsLeft ==
    Planned =>
        \A k \in Decided :
            result.decisions[k].reason = "CAPACITY_EXCEEDED" => result.decisions[k].requested > result.remaining

\* The plan is a function of the set of candidates: however the query returns those that
\* tie on created_at, the digest of the farmer gives the same decision to each of them.
\* Two of them change places here, and they start in every order.
OrderOfInputIsIrrelevant ==
    Planned =>
        \A i, j \in DOMAIN candidates :
            i < j =>
                LET swapped == [candidates EXCEPT ![i] = candidates[j], ![j] = candidates[i]]
                    again   == Allocate(capacity, swapped).decisions
                IN  \A k \in Decided :
                        result.decisions[k].reason # "NOT_SELECTED" => again[k] = result.decisions[k]
=============================================================================
