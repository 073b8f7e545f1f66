-------------------------- MODULE AllocationEngine --------------------------
(***************************************************************************)
(* AllocationEngine.allocate (app/allocation/engine.py): first come, first  *)
(* served, over the approved intents of one cycle (centre, crop and date).  *)
(* A candidate is an intent with its id.                                    *)
(***************************************************************************)
EXTENDS IntentTable, CapacityEngine, FiniteSetsExt

CONSTANTS
    Cycle,   \* the date of the cycle
    Digest   \* sha256 of centre, date and farmer: hexadecimals order as numbers do

ASSUME CycleAssumption == Cycle \in Dates

\* SHA-256 is taken to have no collisions.
ASSUME DigestAssumption ==
    /\ Digest \in [Farmers -> Nat]
    /\ \A f, g \in Farmers : Digest[f] = Digest[g] => f = g

Candidate(id, intent) == [id |-> id, intent |-> intent]

-----------------------------------------------------------------------------
(* The allocation engine                                                   *)

IsEligible(c) == c.intent.date = Cycle /\ c.intent.status = "APPROVED"

\* Mutant: candidates that tie on created_at keep the order of the query.
PrecedesByAge(cands, i, j) ==
    LET a == cands[i].intent
        b == cands[j].intent
    IN  \/ a.created < b.created
        \/ a.created = b.created /\ i < j

\* Mutant: the digest is compared before the waiting age.
PrecedesByDigest(cands, i, j) ==
    Digest[cands[i].intent.farmer] < Digest[cands[j].intent.farmer]

\* The sort is stable, so the place in the input is the last key.
Precedes(cands, i, j) ==
    LET a == cands[i].intent
        b == cands[j].intent
    IN  \/ a.created < b.created
        \/ a.created = b.created /\ Digest[a.farmer] < Digest[b.farmer]
        \/ a.created = b.created /\ Digest[a.farmer] = Digest[b.farmer] /\ i < j

Eligible(cands) == {i \in DOMAIN cands : IsEligible(cands[i])}

\* Those that come before the i-th: the eligible are sorted, the others follow as they came.
Ahead(cands, i) ==
    LET eligible == Eligible(cands)
    IN  IF i \in eligible
        THEN {j \in eligible : Precedes(cands, j, i)}
        ELSE eligible \union {j \in DOMAIN cands \ eligible : j < i}

Ranked(cands) ==
    [k \in DOMAIN cands |->
        cands[CHOOSE i \in DOMAIN cands : Cardinality(Ahead(cands, i)) = k - 1]]

\* Mutant: a candidate is compared with the whole capacity, not with what is left.
FitsTheCapacity(available, left, quantity) == quantity <= available

\* Mutant: the last unit of the capacity is never given away.
FitsWithRoomToSpare(available, left, quantity) == quantity < left

\* A request is served whole or not at all, and the next one is tried either way.
Fits(available, left, quantity) == quantity <= left

\* What is left of the capacity after the first k of the ranked candidates.
Remaining(available, ranked) ==
    LET left[k \in 0 .. Len(ranked)] ==
            IF k = 0 THEN available
            ELSE IF /\ IsEligible(ranked[k])
                    /\ Fits(available, left[k - 1], ranked[k].intent.quantity)
                 THEN left[k - 1] - ranked[k].intent.quantity
                 ELSE left[k - 1]
    IN  left

OrderingReason(tied, eligible, selected) ==
    CASE ~ eligible              -> "NOT_SELECTED"
      [] eligible /\ ~ selected  -> "CAPACITY_EXCEEDED"
      [] selected /\ tied        -> "SHA256_TIE_BREAK"
      [] selected /\ ~ tied      -> "WAITING_AGE"

\* One decision per candidate; the place of a decision is its rank.
Allocate(capacity, cands) ==
    LET available == Max({0, capacity})
        ranked    == Ranked(cands)
        left      == Remaining(available, ranked)
        Selected(k) ==
            /\ IsEligible(ranked[k])
            /\ Fits(available, left[k - 1], ranked[k].intent.quantity)
        Tied(k)   == \E j \in DOMAIN ranked \ {k} :
                        IsEligible(ranked[j]) /\ ranked[j].intent.created = ranked[k].intent.created
        Decision(k) ==
            [intent    |-> ranked[k].id,
             farmer    |-> ranked[k].intent.farmer,
             requested |-> ranked[k].intent.quantity,
             allocated |-> IF Selected(k) THEN ranked[k].intent.quantity ELSE 0,
             remaining |-> left[k],
             selected  |-> Selected(k),
             reason    |-> OrderingReason(Tied(k), IsEligible(ranked[k]), Selected(k))]
    IN  [available |-> available,
         remaining |-> left[Len(ranked)],
         decisions |-> [k \in DOMAIN ranked |-> Decision(k)]]

\* What the selected decisions among the first k take from the capacity.
Taken(decisions) ==
    LET sum[k \in 0 .. Len(decisions)] ==
            IF k = 0 THEN 0
            ELSE IF decisions[k].selected THEN sum[k - 1] + decisions[k].allocated
                 ELSE sum[k - 1]
    IN  sum

AllocatedIn(decisions) == Taken(decisions)[Len(decisions)]
=============================================================================
