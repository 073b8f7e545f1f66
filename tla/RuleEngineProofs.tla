-------------------------- MODULE RuleEngineProofs --------------------------
(***************************************************************************)
(* The properties of RuleEngine, for any registry of rules, any verdicts    *)
(* and any selection of the rules.                                          *)
(***************************************************************************)
EXTENDS RuleEngine, SequenceTheorems, WellFoundedInduction, TLAPS

\* Either the loop goes on, with the rules after those it has evaluated, none of which made it
\* stop; or it is over, and what it has evaluated is what it was to reach.
Going ==
    /\ pending = SelectedRules \ Elements(results)
    /\ mode = "FIRST_FAILURE" => \A r \in Elements(results) : ~ Fails(r)
Over == pending = {} /\ Elements(results) = Reached

Inv ==
    /\ verdict \in [Rules -> Verdicts]
    /\ results \in Seq(SelectedRules) /\ failures \in Seq(SelectedRules)
    /\ Ascending(results) /\ Ascending(failures)
    /\ Elements(failures) = {r \in Elements(results) : HasFailure(r)}
    /\ error \in BOOLEAN
    /\ error <=> \E r \in Elements(results) : verdict[r] = "raises"
    /\ \A q \in Elements(results), r \in pending : q < r
    /\ Going \/ Over
    /\ status # "none" => pending = {} /\ status = OverallStatus

\* The first of a set of rules is in it, and no other precedes it.
LEMMA FirstRuleIsFirst ==
    ASSUME NEW rules \in SUBSET Nat, rules # {}
    PROVE  FirstRule(rules) \in rules /\ \A r \in rules : FirstRule(rules) <= r
<1>1. \E i \in rules : \A j \in rules : i <= j
  <2> DEFINE before == OpToRel(<, Nat)
  <2>1. IsWellFoundedOn(before, Nat)
    BY NatLessThanWellFounded
  <2>2. \A i, j \in Nat : j < i => <<j, i>> \in before
    BY DEF OpToRel
  <2> HIDE DEF before
  <2>3. PICK i \in rules : \A j \in rules : <<j, i>> \notin before
    BY <2>1, WFMin
  <2>4. \A j \in rules : ~ (j < i)
    BY <2>2, <2>3
  <2> QED
    BY <2>4
<1> QED
  BY <1>1 DEF FirstRule, Min

\* A list stays ascending if what is appended is above all that is there.
LEMMA Appended ==
    ASSUME NEW S \in SUBSET Nat, NEW s \in Seq(S), NEW e \in S
    PROVE  /\ Append(s, e) \in Seq(S)
           /\ Elements(Append(s, e)) = Elements(s) \union {e}
           /\ Ascending(s) /\ (\A q \in Elements(s) : q < e) => Ascending(Append(s, e))
<1> DEFINE n == Len(s)
           t == Append(s, e)
<1>1. /\ n \in Nat /\ DOMAIN s = 1 .. n /\ t \in Seq(S) /\ DOMAIN t = 1 .. n + 1
      /\ t[n + 1] = e /\ \A i \in 1 .. n : t[i] = s[i]
  OBVIOUS
<1> HIDE DEF n, t
<1>2. \A i : i \in DOMAIN t <=> i \in DOMAIN s \/ i = n + 1
  BY <1>1
<1>3. Elements(t) = Elements(s) \union {e}
  BY <1>1, <1>2 DEF Elements
<1>4. ASSUME Ascending(s), \A q \in Elements(s) : q < e, NEW i \in DOMAIN t, NEW j \in DOMAIN t, i < j
      PROVE  t[i] < t[j]
  <2>1. i \in DOMAIN s
    BY <1>1, <1>4
  <2>2. CASE j = n + 1
    BY <1>1, <1>4, <2>1, <2>2 DEF Elements
  <2>3. CASE j \in DOMAIN s
    BY <1>1, <1>4, <2>1, <2>3 DEF Ascending
  <2> QED BY <1>2, <1>4, <2>2, <2>3
<1> QED BY <1>1, <1>3, <1>4 DEF t, Ascending

LEMMA EvaluateRuleStep == ASSUME Inv, EvaluateRule PROVE Inv'
<1> DEFINE first == FirstRule(pending)
<1>1. /\ status = "none" /\ pending # {}
      /\ results' = Append(results, first)
      /\ failures' = IF Fails(first) /\ HasFailure(first) THEN Append(failures, first) ELSE failures
      /\ error' = (error \/ verdict[first] = "raises")
      /\ pending' = IF Fails(first) /\ mode = "FIRST_FAILURE" THEN {} ELSE pending \ {first}
      /\ UNCHANGED <<mode, asked, includeDeferred, verdict, status>>
  BY DEF EvaluateRule, arguments
<1>2. /\ SelectedRules' = SelectedRules /\ Reached' = Reached /\ SelectedRules \in SUBSET Nat
      /\ \A r : (Fails(r)' <=> Fails(r)) /\ (HasFailure(r)' <=> HasFailure(r))
  BY <1>1, RulesAssumption DEF SelectedRules, Reached, Fails, HasFailure
<1>3. /\ pending = SelectedRules \ Elements(results)
      /\ mode = "FIRST_FAILURE" => \A r \in Elements(results) : ~ Fails(r)
  BY <1>1 DEF Inv, Going, Over
<1>4. first \in pending /\ first \in SelectedRules /\ \A r \in pending : first <= r
  BY <1>1, <1>2, <1>3, FirstRuleIsFirst
<1> HIDE DEF first
<1>5. \A q \in Elements(results) : q < first
  BY <1>4 DEF Inv
<1>6. /\ results' \in Seq(SelectedRules) /\ Ascending(results')
      /\ Elements(results') = Elements(results) \union {first}
  BY <1>1, <1>2, <1>4, <1>5, Appended DEF Inv
<1>7. HasFailure(first) => Fails(first)
  BY DEF HasFailure, Fails
<1>8. /\ failures' \in Seq(SelectedRules) /\ Ascending(failures')
      /\ Elements(failures') = {r \in Elements(results') : HasFailure(r)}
  <2>1. CASE HasFailure(first)
    <3>1. failures' = Append(failures, first)
      BY <1>1, <1>7, <2>1
    <3>2. \A q \in Elements(failures) : q < first
      BY <1>5 DEF Inv
    <3>3. /\ failures' \in Seq(SelectedRules) /\ Ascending(failures')
          /\ Elements(failures') = Elements(failures) \union {first}
      BY <1>2, <1>4, <3>1, <3>2, Appended DEF Inv
    <3> QED BY <1>6, <2>1, <3>3 DEF Inv
  <2>2. CASE ~ HasFailure(first)
    <3>1. failures' = failures
      BY <1>1, <2>2
    <3> QED BY <1>6, <2>2, <3>1 DEF Inv
  <2> QED BY <2>1, <2>2
<1>9. error' \in BOOLEAN /\ (error' <=> \E r \in Elements(results') : verdict'[r] = "raises")
  <2>1. verdict' = verdict
    BY <1>1
  <2>2. error \in BOOLEAN /\ (error <=> \E r \in Elements(results) : verdict[r] = "raises")
    BY DEF Inv
  <2> QED BY <1>1, <1>6, <2>1, <2>2
<1>10. \A q \in Elements(results'), r \in pending' : q < r
  <2> SUFFICES ASSUME NEW q \in Elements(results'), NEW r \in pending' PROVE q < r
    OBVIOUS
  <2>1. r \in pending /\ r # first /\ r \in Nat /\ first \in Nat /\ first <= r
    BY <1>1, <1>2, <1>3, <1>4
  <2> QED BY <1>6, <2>1 DEF Inv
<1>11. (Going \/ Over)'
  <2>1. CASE Fails(first) /\ mode = "FIRST_FAILURE"
    <3>1. pending' = {}
      BY <1>1, <2>1
    <3>2. ASSUME NEW r \in SelectedRules PROVE r \in Reached <=> r \in Elements(results')
      <4>1. CASE r \in Elements(results')
        <5>1. r <= first
          <6>1. r \in Nat /\ first \in Nat
            BY <1>2, <1>4
          <6> QED BY <1>5, <1>6, <4>1, <6>1
        <5>2. ASSUME NEW q \in SelectedRules, Fails(q) PROVE r <= q
          <6>1. first <= q
            BY <1>3, <1>4, <2>1, <5>2
          <6>2. r \in Nat /\ first \in Nat /\ q \in Nat
            BY <1>2, <1>4
          <6> QED BY <5>1, <6>1, <6>2
        <5> QED BY <4>1, <5>2 DEF Reached
      <4>2. CASE r \notin Elements(results')
        <5>1. r \in pending /\ r # first
          BY <1>3, <1>6, <4>2
        <5>2. first <= r /\ r \in Nat /\ first \in Nat
          BY <1>2, <1>4, <5>1
        <5>3. ~ (r <= first)
          BY <5>1, <5>2
        <5> QED BY <1>4, <2>1, <4>2, <5>3 DEF Reached
      <4> QED BY <4>1, <4>2
    <3>3. Elements(results') \subseteq SelectedRules /\ Reached \subseteq SelectedRules
      BY <1>6 DEF Elements, Reached
    <3> QED BY <1>2, <3>1, <3>2, <3>3 DEF Over, Elements
  <2>2. CASE ~ (Fails(first) /\ mode = "FIRST_FAILURE")
    <3>1. pending' = SelectedRules \ Elements(results')
      BY <1>1, <1>3, <1>6, <2>2
    <3>2. mode = "FIRST_FAILURE" => \A r \in Elements(results') : ~ Fails(r)
      BY <1>3, <1>6, <2>2
    <3> QED BY <1>1, <1>2, <3>1, <3>2 DEF Going, Elements
  <2> QED BY <2>1, <2>2
<1>12. verdict' \in [Rules -> Verdicts] /\ status' = "none"
  BY <1>1 DEF Inv
<1> QED
  BY <1>2, <1>6, <1>8, <1>9, <1>10, <1>11, <1>12 DEF Inv, Elements, Ascending

LEMMA SummariseStep == ASSUME Inv, Summarise PROVE Inv'
<1>1. /\ pending = {} /\ status' = OverallStatus
      /\ UNCHANGED <<mode, asked, includeDeferred, verdict, pending, results, failures, error>>
  BY DEF Summarise, arguments
<1>2. SelectedRules' = SelectedRules /\ Reached' = Reached /\ OverallStatus' = OverallStatus
  BY <1>1 DEF SelectedRules, Reached, Fails, OverallStatus
<1> QED
  BY <1>1, <1>2 DEF Inv, Going, Over, Elements, Ascending, HasFailure, Fails

\* Inv holds in every reachable state.
THEOREM Invariance == Spec => []Inv
<1>1. Init => Inv
  <2> SUFFICES ASSUME Init PROVE Inv
    OBVIOUS
  <2>1. /\ results = << >> /\ failures = << >> /\ DOMAIN << >> = {}
        /\ << >> \in Seq(SelectedRules)
    BY DEF Init
  <2>2. Elements(results) = {} /\ Elements(failures) = {} /\ Ascending(results) /\ Ascending(failures)
    BY <2>1 DEF Elements, Ascending
  <2>3. Going
    BY <2>2 DEF Init, Going
  <2> QED
    BY <2>1, <2>2, <2>3 DEF Init, Inv
<1>2. Inv /\ [Next]_vars => Inv'
  <2>1. CASE UNCHANGED vars
    <3>1. UNCHANGED <<mode, asked, includeDeferred, verdict, pending, results, failures, error, status>>
      BY <2>1 DEF vars, arguments
    <3>2. SelectedRules' = SelectedRules /\ Reached' = Reached /\ OverallStatus' = OverallStatus
      BY <3>1 DEF SelectedRules, Reached, Fails, OverallStatus
    <3> QED
      BY <3>1, <3>2 DEF Inv, Going, Over, Elements, Ascending, HasFailure, Fails
  <2> QED
    BY <2>1, EvaluateRuleStep, SummariseStep DEF Next
<1> QED
  BY <1>1, <1>2, PTL DEF Spec

\* When the summary is made, every rule that was to be reached has been evaluated.
LEMMA AllReached == ASSUME Inv, status # "none" PROVE Elements(results) = Reached
<1>1. CASE Over
  BY <1>1 DEF Over
<1>2. CASE Going
  <2>1. Elements(results) \subseteq SelectedRules
    BY DEF Inv, Elements
  <2>2. Elements(results) = SelectedRules
    BY <1>2, <2>1 DEF Inv, Going
  <2>3. Reached = SelectedRules
    BY <1>2, <2>2 DEF Going, Reached
  <2> QED BY <2>2, <2>3
<1> QED BY <1>1, <1>2 DEF Inv

\* An error means that a rule raised, and eligible that no rule that was reached recorded a
\* failure; without failing results that carry none, that no selected rule fails.
THEOREM EligibleMeansNoFailure == Spec => []EligibleIffNoFailure
<1>1. Inv => EligibleIffNoFailure
  <2> SUFFICES ASSUME Inv, status # "none" PROVE EligibleIffNoFailure
    BY DEF EligibleIffNoFailure
  <2>1. Elements(results) = Reached
    BY AllReached
  <2>2. failures = << >> <=> \A r \in Reached : ~ HasFailure(r)
    <3>1. Elements(failures) = {r \in Reached : HasFailure(r)}
      BY <2>1 DEF Inv
    <3>2. failures = << >> <=> Elements(failures) = {}
      <4>1. failures = << >> => Elements(failures) = {}
        BY DEF Elements
      <4>2. failures # << >> => failures[1] \in Elements(failures)
        BY DEF Inv, Elements
      <4> QED BY <4>1, <4>2
    <3> QED BY <3>1, <3>2
  <2>3. error <=> \E r \in Reached : verdict[r] = "raises"
    BY <2>1 DEF Inv
  <2>4. /\ status = "ERROR" <=> error
        /\ status = "ELIGIBLE" <=> ~ error /\ failures = << >>
    BY DEF Inv, OverallStatus
  <2>5. status = "ELIGIBLE" <=> \A r \in Reached : ~ HasFailure(r)
    BY <2>2, <2>3, <2>4 DEF HasFailure
  <2>6. ASSUME \A r \in SelectedRules : verdict[r] # "unexplained"
        PROVE  (\A r \in Reached : ~ HasFailure(r)) <=>
                    \A r \in SelectedRules : verdict[r] \in {"pass", "deferred"}
    <3>1. \A r \in SelectedRules : verdict[r] \in {"pass", "fail", "deferred", "raises"}
      BY <2>6 DEF Inv, SelectedRules, Verdicts
    <3>2. ASSUME NEW r \in SelectedRules, Fails(r) PROVE \E q \in Reached : Fails(q)
      <4> DEFINE failing == {q \in SelectedRules : Fails(q)}
                 low == FirstRule(failing)
      <4>1. failing \in SUBSET Nat /\ failing # {}
        BY <3>2, RulesAssumption DEF SelectedRules
      <4>2. low \in failing /\ \A q \in failing : low <= q
        BY <4>1, FirstRuleIsFirst
      <4> QED BY <4>2 DEF Reached
    <3>3. Reached \subseteq SelectedRules
      BY DEF Reached
    <3>4. ASSUME \A r \in Reached : ~ HasFailure(r), NEW r \in SelectedRules
          PROVE  verdict[r] \in {"pass", "deferred"}
      <4>1. \A q \in Reached : ~ Fails(q)
        BY <3>1, <3>3, <3>4 DEF Fails, HasFailure
      <4>2. ~ Fails(r)
        BY <3>2, <4>1
      <4> QED BY <3>1, <4>2 DEF Fails
    <3>5. ASSUME \A r \in SelectedRules : verdict[r] \in {"pass", "deferred"}, NEW r \in Reached
          PROVE  ~ HasFailure(r)
      BY <3>3, <3>5 DEF HasFailure
    <3> QED BY <3>4, <3>5
  <2> QED BY <2>3, <2>4, <2>5, <2>6 DEF EligibleIffNoFailure
<1> QED
  BY <1>1, Invariance, PTL

\* The summary lists the rules that were reached and the failures recorded, in order.
THEOREM FailuresInOrder == Spec => []FailuresAreInOrder
<1>1. Inv => FailuresAreInOrder
  BY AllReached DEF Inv, FailuresAreInOrder
<1> QED
  BY <1>1, Invariance, PTL
=============================================================================
