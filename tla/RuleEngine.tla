----------------------------- MODULE RuleEngine -----------------------------
(***************************************************************************)
(* RuleEngine.evaluate (app/rules/engine.py) on the rules of a registry     *)
(* (app/rules/registry.py), as the loop it is.  What a rule finds in the    *)
(* context of the request is its verdict; rules are pure.                   *)
(***************************************************************************)
EXTENDS Integers, Sequences, FiniteSetsExt

CONSTANTS
    Rules,          \* the rule ids of the registry, in the order of the strings
    DeferredRules   \* the rules with is_deferred

ASSUME RulesAssumption == Rules \subseteq Nat /\ DeferredRules \subseteq Rules

Modes == {"FIRST_FAILURE", "ALL_FAILURES"}

\* The three results that the helpers of BaseRule make, the fourth that RuleResult allows (neither
\* passed nor deferred, and without a failure), and an exception.
Verdicts == {"pass", "fail", "deferred", "unexplained", "raises"}

VARIABLES
    mode, asked, includeDeferred,  \* the arguments; asked = rule_ids
    verdict,   \* what each rule returns, or raises, on the context
    pending,   \* the rules still to evaluate
    results,   \* the rules evaluated, in order
    failures,  \* ... those whose failures were recorded, in order
    error,     \* evaluation_error
    status     \* of the summary, "none" before it

arguments == <<mode, asked, includeDeferred, verdict>>
vars == <<arguments, pending, results, failures, error, status>>

\* get_rules
SelectedRules ==
    {r \in Rules : r \in asked /\ (r \in DeferredRules => includeDeferred)}

\* A rule that raises fails; a deferred result does not.
Fails(r) == verdict[r] \in {"fail", "unexplained", "raises"}

\* Only a failing result that carries a failure is recorded.
HasFailure(r) == verdict[r] \in {"fail", "raises"}

\* Mutant: the registry returns the rules in the reverse order.
LatestRule(rules) == Max(rules)

FirstRule(rules) == Min(rules)

Init ==
    /\ mode \in Modes
    /\ asked \in SUBSET Rules
    /\ includeDeferred \in BOOLEAN
    /\ verdict \in [Rules -> Verdicts]
    /\ pending = SelectedRules
    /\ results = << >>
    /\ failures = << >>
    /\ error = FALSE
    /\ status = "none"

EvaluateRule ==
    LET r == FirstRule(pending)
    IN  /\ status = "none"
        /\ pending # {}
        /\ results' = Append(results, r)
        /\ failures' = IF Fails(r) /\ HasFailure(r) THEN Append(failures, r) ELSE failures
        /\ error' = (error \/ verdict[r] = "raises")
        /\ pending' = IF Fails(r) /\ mode = "FIRST_FAILURE" THEN {} ELSE pending \ {r}
        /\ UNCHANGED <<arguments, status>>

\* Mutant: the rule evaluated last decides.
LastVerdict ==
    IF error THEN "ERROR"
    ELSE IF results # << >> /\ Fails(results[Len(results)]) THEN "REJECTED"
    ELSE "ELIGIBLE"

OverallStatus ==
    IF error THEN "ERROR"
    ELSE IF failures # << >> THEN "REJECTED"
    ELSE "ELIGIBLE"

Summarise ==
    /\ status = "none"
    /\ pending = {}
    /\ status' = OverallStatus
    /\ UNCHANGED <<arguments, pending, results, failures, error>>

Next == EvaluateRule \/ Summarise

Spec == Init /\ [][Next]_vars

-----------------------------------------------------------------------------
(* Properties                                                              *)

Elements(s) == {s[i] : i \in DOMAIN s}
Ascending(s) == \A i, j \in DOMAIN s : i < j => s[i] < s[j]

\* The rules that the engine is to evaluate: all that were selected or, if it stops at the
\* first failing one, those up to it.
Reached ==
    {r \in SelectedRules :
        mode = "FIRST_FAILURE" => \A q \in SelectedRules : Fails(q) => r <= q}

\* A request is an error if and only if a rule that was reached raised, and eligible if and only
\* if none that was reached recorded a failure.  A failing result without a failure is not
\* counted (engine.py appends only what is there) and in FIRST_FAILURE hides the rules after it;
\* if no rule returns one, as none of builtin.py does, a request is eligible exactly if no
\* selected rule fails, in either mode.
EligibleIffNoFailure ==
    status # "none" =>
        /\ status = "ERROR" <=> \E r \in Reached : verdict[r] = "raises"
        /\ status = "ELIGIBLE" <=> \A r \in Reached : ~ HasFailure(r)
        /\ (\A r \in SelectedRules : verdict[r] # "unexplained") =>
                (status = "ELIGIBLE" <=> \A r \in SelectedRules : verdict[r] \in {"pass", "deferred"})

\* The summary lists every rule that was reached, and every failure that was recorded on the
\* way, each once and in the order of the rule ids: the first failure, which is the reason a
\* client is given, is that of the lowest rule that recorded one.
FailuresAreInOrder ==
    status # "none" =>
        /\ Elements(results) = Reached /\ Ascending(results)
        /\ Elements(failures) = {r \in Reached : HasFailure(r)} /\ Ascending(failures)
=============================================================================
