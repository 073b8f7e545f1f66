------------------------- MODULE ProcurementProofs --------------------------
(***************************************************************************)
(* The safety properties of Procurement, for any number of sessions,        *)
(* farmers, holdings, dates and intents: Inv is inductive, and the          *)
(* properties that TLC checks on small instances follow from it.            *)
(***************************************************************************)
EXTENDS ProcurementInvariant, SequenceTheorems, TLAPS

\* What a step of session s leaves alone in every other session.
OthersKeep(s) ==
    \A o \in Sessions \ {s} :
        /\ pc'[o] = pc[o] /\ req'[o] = req[o] /\ seen'[o] = seen[o] /\ write'[o] = write[o]
        /\ out'[o] = out[o] /\ commits'[o] = commits[o]
        /\ lived'[o] = lived[o] /\ saw'[o] = saw[o]

SessionInv(s) == LocalsInv(s) /\ OwnerInv(s) /\ EligibleInv(s) /\ SawInv(s) /\ RowInv(s)

-----------------------------------------------------------------------------
(* Steps that commit nothing                                               *)

\* A step of s that commits nothing keeps Inv if it keeps what Inv says of s.
LEMMA UncommittedStep ==
    ASSUME NEW s \in Sessions, Inv, UNCHANGED <<db, checked>>, OthersKeep(s),
           TypeOK', SessionInv(s)'
    PROVE  Inv'
<1>1. DuplicatesOnlyFromOverlap'
  BY DEF Inv, DuplicatesOnlyFromOverlap, IsOpen, db
<1>2. ASSUME NEW o \in Sessions PROVE SessionInv(o)'
  <2>1. CASE o = s
    BY <2>1
  <2>2. CASE o # s
    <3>1. SessionInv(o)
      BY DEF Inv, SessionInv
    <3>2. LocalsInv(o)' /\ OwnerInv(o)' /\ EligibleInv(o)' /\ SawInv(o)'
      BY <2>2, <3>1 DEF OthersKeep, db, SessionInv, LocalsInv, OwnerInv, EligibleInv, SawInv, InFlight
    <3>3. RowInv(o)'
      <4> SUFFICES ASSUME pc'[o] = "commit" PROVE RowInv(o)'
        BY DEF RowInv
      <4>1. pc[o] = "commit" /\ write'[o] = write[o] /\ req'[o] = req[o]
        BY <2>2 DEF OthersKeep
      <4>2. ~ SlotTaken(write[o].farmer, write[o].date)'
        BY <3>1, <4>1 DEF SessionInv, RowInv, SlotTaken, TakesSlot, IsOpen, db
      <4>3. ASSUME NEW p \in Sessions \ {o}, pc'[p] = "commit"
            PROVE  <<write'[p].farmer, write'[p].date>> # <<write'[o].farmer, write'[o].date>>
        <5>1. CASE p = s
          BY <2>2, <4>3, <5>1 DEF SessionInv, RowInv
        <5>2. CASE p # s
          BY <3>1, <4>1, <4>3, <5>2 DEF OthersKeep, SessionInv, RowInv
        <5> QED
          BY <5>1, <5>2
      <4> QED
        BY <3>1, <4>1, <4>2, <4>3 DEF SessionInv, RowInv, SlotTaken, TakesSlot, IsOpen
    <3> QED
      BY <3>2, <3>3 DEF SessionInv
  <2> QED
    BY <2>1, <2>2
<1> QED
  BY <1>1, <1>2 DEF Inv, SessionInv

\* An error leaves nothing of the request but its answer.
LEMMA FailStep ==
    ASSUME NEW s \in Sessions, Inv, NEW outcome \in Outcomes \ {"none", "ok"}, Fail(s, outcome),
           pc[s] \in AttemptSteps \union {"idle"} \/ (pc[s] = "refresh" /\ outcome = "DBAPIError")
    PROVE  Inv'
<1> USE DEF Fail, Answer, Goto
<1>1. TypeOK'
  BY DEF Inv, TypeOK, db, Steps, InFlight, AttemptSteps
<1>2. OthersKeep(s)
  BY DEF Inv, TypeOK, OthersKeep
<1>3. SessionInv(s)'
  BY DEF Inv, TypeOK, SessionInv, LocalsInv, OwnerInv, EligibleInv, SawInv, RowInv, InFlight,
     AttemptSteps
<1> QED
  BY <1>1, <1>2, <1>3, UncommittedStep

LEMMA SubmitStep == ASSUME NEW s \in Sessions, NEW r \in Requests, Inv, Submit(s, r) PROVE Inv'
<1>1. CASE UserVerdict(r) # "ok"
  <2>1. UserVerdict(r) \in Outcomes \ {"none", "ok"}
    BY <1>1 DEF UserVerdict, Outcomes
  <2> QED
    BY <1>1, <2>1, FailStep DEF Submit
<1>2. CASE UserVerdict(r) = "ok"
  <2>1. Effective(r) \in Requests
    BY DEF Effective, Requests
  <2>2. Effective(r).farmer # NoFarmer
    BY <1>2, RecordsAssumption DEF Effective, UserVerdict, Requests, Records
  <2>3. Effective(r).actor = Effective(r).farmer \/ Effective(r).actor \in LocalOfficers
    BY <1>2 DEF Effective, UserVerdict, Requests, OfficerOfCentre
  <2> USE <1>2, <2>1, <2>2, <2>3 DEF Submit, Goto
  <2> HIDE DEF Effective
  <2>4. TypeOK'
    <3>1. pc' = [pc EXCEPT ![s] = "farmer"] /\ req' = [req EXCEPT ![s] = Effective(r)]
      BY DEF Submit
    <3>2. Effective(r) # NoRequest
      BY NullsAssumption
    <3>3. \A o \in InFlight' : req'[o] # NoRequest /\ req'[o].farmer # NoFarmer
      BY <3>1, <3>2 DEF Inv, TypeOK, InFlight
    <3> QED
      BY <3>1, <3>3 DEF Inv, TypeOK, db, Steps, AttemptSteps
  <2>5. OthersKeep(s)
    BY DEF Inv, TypeOK, OthersKeep
  <2>6. seen[s] = {}
    BY DEF Inv, LocalsInv
  <2>7. SessionInv(s)'
    BY <2>6 DEF Inv, TypeOK, SessionInv, LocalsInv, OwnerInv, EligibleInv, SawInv, RowInv, InFlight,
       AttemptSteps, db
  <2> QED
    BY <2>4, <2>5, <2>7, UncommittedStep
<1> QED
  BY <1>1, <1>2

LEMMA LoadRecordStep == ASSUME NEW s \in Sessions, Inv, LoadRecord(s) PROVE Inv'
<1> DEFINE id == Wanted(req[s])[pc[s]]
<1>1. pc[s] \in {"farmer", "centre", "crop"}
  BY DEF LoadRecord, After
<1>2. CASE id \notin Records
  BY <1>1, <1>2, FailStep DEF LoadRecord, Outcomes, AttemptSteps
<1>3. CASE id \in Records
  <2>1. After[pc[s]] \in {"centre", "crop", "holdings"}
    BY <1>1 DEF After
  <2>2. /\ seen' = [seen EXCEPT ![s] = @ \union ({id} \intersect active)]
        /\ pc' = [pc EXCEPT ![s] = After[pc[s]]]
        /\ UNCHANGED <<db, req, write, out, commits, history>>
    BY <1>3 DEF LoadRecord, Goto
  <2> HIDE DEF id
  <2>3. TypeOK'
    BY <1>1, <2>1, <2>2 DEF Inv, TypeOK, db, history, Steps, AttemptSteps, InFlight
  <2>4. OthersKeep(s)
    BY <2>2 DEF Inv, TypeOK, OthersKeep, history
  <2>5. SessionInv(s)'
    BY <1>1, <2>1, <2>2 DEF Inv, TypeOK, SessionInv, LocalsInv, OwnerInv, EligibleInv, SawInv,
       RowInv, InFlight, AttemptSteps, db, history
  <2> QED
    BY <2>2, <2>3, <2>4, <2>5, UncommittedStep DEF history
<1> QED
  BY <1>2, <1>3

LEMMA LoadHoldingsStep == ASSUME NEW s \in Sessions, Inv, LoadHoldings(s) PROVE Inv'
<1>1. pc[s] = "holdings"
  BY DEF LoadHoldings
<1>2. CASE req[s].holding \notin HoldingsOf(req[s].farmer)
  BY <1>1, <1>2, FailStep DEF LoadHoldings, Outcomes, AttemptSteps
<1>3. CASE req[s].holding \in HoldingsOf(req[s].farmer)
  <2> DEFINE held == HoldingsOf(req[s].farmer)
  <2>1. /\ seen' = [seen EXCEPT ![s] = @ \union (held \intersect active)]
        /\ pc' = [pc EXCEPT ![s] = "intents"]
        /\ UNCHANGED <<db, req, write, out, commits, history>>
    BY <1>3 DEF LoadHoldings, Goto
  <2> HIDE DEF held
  <2>2. TypeOK'
    BY <1>1, <2>1 DEF Inv, TypeOK, db, history, Steps, AttemptSteps, InFlight
  <2>3. OthersKeep(s)
    BY <2>1 DEF Inv, TypeOK, OthersKeep, history
  <2>4. SessionInv(s)'
    BY <1>1, <2>1 DEF Inv, TypeOK, SessionInv, LocalsInv, OwnerInv, EligibleInv, SawInv,
       RowInv, InFlight, AttemptSteps, db, history
  <2> QED
    BY <2>1, <2>2, <2>3, <2>4, UncommittedStep DEF history
<1> QED
  BY <1>2, <1>3

\* A request that no rule refuses is for a farmer, the centre and the crop of the instance,
\* all found active, with an active holding, and without an open intent.
LEMMA RulesPass ==
    ASSUME NEW s \in Sessions, TypeOK, s \in InFlight,
           RulesVerdict(req[s], seen[s], ActiveIntentsOf(req[s].farmer)) = "ok"
    PROVE  /\ req[s].farmer \in Farmers
           /\ {req[s].farmer, Centre, Crop} \subseteq seen[s]
           /\ HoldingsOf(req[s].farmer) \intersect seen[s] # {}
           /\ \A i \in DOMAIN intents :
                intents[i].farmer = req[s].farmer => ~ IsOpen(intents[i])
<1> DEFINE r == req[s]
<1>1. FailingRules(r, seen[s], ActiveIntentsOf(r.farmer)) = {}
  BY DEF RulesVerdict
<1>2. /\ 1 \notin FailingRules(r, seen[s], ActiveIntentsOf(r.farmer))
      /\ 2 \notin FailingRules(r, seen[s], ActiveIntentsOf(r.farmer))
      /\ 3 \notin FailingRules(r, seen[s], ActiveIntentsOf(r.farmer))
      /\ 4 \notin FailingRules(r, seen[s], ActiveIntentsOf(r.farmer))
      /\ 5 \notin FailingRules(r, seen[s], ActiveIntentsOf(r.farmer))
  BY <1>1
<1>3. r.farmer \in seen[s]
  BY <1>2 DEF FailingRules
<1>4. r.centre \in seen[s]
  BY <1>2 DEF FailingRules
<1>5. r.crop \in seen[s]
  BY <1>2 DEF FailingRules
<1>6. HoldingsOf(r.farmer) \intersect seen[s] # {}
  BY <1>2 DEF FailingRules, HasActiveHolding
<1>7. ActiveIntentsOf(r.farmer) = {}
  BY <1>2 DEF FailingRules
<1>8. r \in Requests /\ seen[s] \subseteq Records
  BY DEF TypeOK
<1>9. r.farmer \in Farmers /\ r.centre = Centre /\ r.crop = Crop
  BY <1>3, <1>4, <1>5, <1>8, RecordsAssumption DEF Requests
<1>10. \A i \in DOMAIN intents : intents[i] \in Intents
  BY DEF TypeOK
<1>11. \A i \in DOMAIN intents : intents[i].farmer = r.farmer => ~ IsOpen(intents[i])
  BY <1>7, <1>10 DEF ActiveIntentsOf, ActiveIntentStatuses, IsOpen, OverStatuses, Intents,
     IntentStatuses
<1> QED
  BY <1>3, <1>4, <1>5, <1>6, <1>9, <1>11

LEMMA ReadIntentsStep == ASSUME NEW s \in Sessions, Inv, ReadIntents(s) PROVE Inv'
<1> DEFINE verdict == RulesVerdict(req[s], seen[s], ActiveIntentsOf(req[s].farmer))
<1>1. pc[s] = "intents" /\ s \in InFlight
  BY DEF ReadIntents, InFlight, AttemptSteps
<1>2. CASE verdict # "ok"
  <2>1. verdict \in {"Conflict", "Validation"}
    BY <1>2 DEF RulesVerdict
  <2> QED
    BY <1>1, <1>2, <2>1, FailStep DEF ReadIntents, Outcomes, AttemptSteps
<1>3. CASE verdict = "ok"
  <2>1. /\ saw' = [saw EXCEPT ![s] = Len(intents)]
        /\ pc' = [pc EXCEPT ![s] = "insert"]
        /\ UNCHANGED <<db, req, seen, write, out, commits, lived, checked>>
    BY <1>3 DEF ReadIntents, Goto
  <2>2. /\ req[s].farmer \in Farmers
        /\ {req[s].farmer, Centre, Crop} \subseteq seen[s]
        /\ HoldingsOf(req[s].farmer) \intersect seen[s] # {}
        /\ \A i \in DOMAIN intents : intents[i].farmer = req[s].farmer => ~ IsOpen(intents[i])
    BY <1>1, <1>3, RulesPass DEF Inv
  <2>3. Len(intents) \in Nat /\ DOMAIN intents = 1 .. Len(intents)
    BY DEF Inv, TypeOK
  <2>4. TypeOK'
    BY <1>1, <2>1, <2>3 DEF Inv, TypeOK, db, Steps, AttemptSteps, InFlight
  <2>5. OthersKeep(s)
    BY <2>1 DEF Inv, TypeOK, OthersKeep
  <2>6. LocalsInv(s)' /\ OwnerInv(s)' /\ RowInv(s)'
    BY <1>1, <2>1 DEF Inv, TypeOK, LocalsInv, OwnerInv, RowInv, InFlight, AttemptSteps
  <2>7. EligibleInv(s)'
    BY <1>1, <2>1, <2>2 DEF Inv, TypeOK, EligibleInv, InFlight, AttemptSteps, db
  <2>8. SawInv(s)'
    <3>1. saw'[s] = Len(intents) /\ intents' = intents /\ req' = req
      BY <2>1 DEF Inv, TypeOK, db
    <3> QED
      BY <2>2, <2>3, <3>1 DEF SawInv, IsOpen
  <2> QED
    BY <2>1, <2>4, <2>5, <2>6, <2>7, <2>8, UncommittedStep DEF SessionInv
<1> QED
  BY <1>2, <1>3

LEMMA InsertIntentStep == ASSUME NEW s \in Sessions, Inv, InsertIntent(s) PROVE Inv'
<1>1. pc[s] = "insert" /\ InsertMayProceed(s)
  BY DEF InsertIntent
<1>2. CASE SlotTaken(req[s].farmer, req[s].date)
  BY <1>1, <1>2, FailStep DEF InsertIntent, Outcomes, AttemptSteps
<1>3. CASE ~ SlotTaken(req[s].farmer, req[s].date)
  <2>1. PICK created \in Stamps :
            write' = [write EXCEPT ![s] =
                NewIntent(req[s].farmer, req[s].date, req[s].quantity, created)]
    BY <1>3 DEF InsertIntent
  <2>2. /\ pc' = [pc EXCEPT ![s] = "commit"]
        /\ UNCHANGED <<db, req, seen, out, commits, history>>
    BY <1>3 DEF InsertIntent, Goto
  <2>3. req[s] \in Requests /\ req[s].farmer \in Farmers
    BY <1>1 DEF Inv, TypeOK, EligibleInv, InFlight, AttemptSteps
  <2> DEFINE row == NewIntent(req[s].farmer, req[s].date, req[s].quantity, created)
  <2>4. /\ row \in Intents /\ row.status = "PENDING"
        /\ row.farmer = req[s].farmer /\ row.date = req[s].date
    BY <2>3 DEF NewIntent, Intents, IntentStatuses, Requests
  <2>5. write' = [write EXCEPT ![s] = row]
    BY <2>1
  <2> HIDE DEF row
  <2>6. TypeOK'
    BY <1>1, <2>2, <2>4, <2>5 DEF Inv, TypeOK, db, history, Steps, AttemptSteps, InFlight
  <2>7. OthersKeep(s)
    BY <2>2, <2>5 DEF Inv, TypeOK, OthersKeep, history
  <2>8. LocalsInv(s)' /\ OwnerInv(s)' /\ EligibleInv(s)' /\ SawInv(s)'
    BY <1>1, <2>2 DEF Inv, TypeOK, LocalsInv, OwnerInv, EligibleInv, SawInv, InFlight,
       AttemptSteps, db, history, IsOpen
  <2>9. RowInv(s)'
    <3>1. write'[s] = row /\ req'[s] = req[s] /\ intents' = intents
      BY <2>2, <2>5 DEF Inv, TypeOK, db
    <3>2. ~ SlotTaken(row.farmer, row.date)
      BY <1>3, <2>4
    <3>3. ASSUME NEW o \in Sessions \ {s}, pc'[o] = "commit"
          PROVE  <<write'[o].farmer, write'[o].date>> # <<row.farmer, row.date>>
      <4>1. pc[o] = "commit" /\ write'[o] = write[o]
        BY <2>7, <3>3 DEF OthersKeep
      <4> QED
        BY <1>1, <2>4, <4>1 DEF InsertMayProceed
    <3> QED
      BY <2>4, <3>1, <3>2, <3>3 DEF RowInv, SlotTaken, TakesSlot, IsOpen
  <2> QED
    BY <2>2, <2>6, <2>7, <2>8, <2>9, UncommittedStep DEF SessionInv, history
<1> QED
  BY <1>2, <1>3

LEMMA RefreshStep == ASSUME NEW s \in Sessions, Inv, Refresh(s) PROVE Inv'
<1> USE DEF Refresh, Answer, Goto
<1>1. TypeOK'
  BY DEF Inv, TypeOK, db, Steps, InFlight, AttemptSteps, Outcomes
<1>2. OthersKeep(s)
  BY DEF Inv, TypeOK, OthersKeep
<1>3. SessionInv(s)'
  BY DEF Inv, TypeOK, SessionInv, LocalsInv, OwnerInv, EligibleInv, SawInv, RowInv, InFlight,
     AttemptSteps
<1> QED
  BY <1>1, <1>2, <1>3, UncommittedStep

LEMMA StatementFailsStep == ASSUME NEW s \in Sessions, Inv, StatementFails(s) PROVE Inv'
  BY FailStep DEF StatementFails, Outcomes

LEMMA FinishStep == ASSUME NEW s \in Sessions, Inv, Finish(s) PROVE Inv'
<1> USE DEF Finish, Goto
<1>1. TypeOK'
  BY DEF Inv, TypeOK, db, history, Steps, InFlight, AttemptSteps, Outcomes
<1>2. OthersKeep(s)
  BY DEF Inv, TypeOK, OthersKeep, history
<1>3. SessionInv(s)'
  BY DEF Inv, TypeOK, SessionInv, LocalsInv, OwnerInv, EligibleInv, SawInv, RowInv, InFlight,
     AttemptSteps
<1> QED
  BY <1>1, <1>2, <1>3, UncommittedStep DEF history

-----------------------------------------------------------------------------
(* Steps that change what is committed                                     *)

LEMMA CommitStep == ASSUME NEW s \in Sessions, Inv, Commit(s) PROVE Inv'
<1> DEFINE n == Len(intents)
<1>1. /\ pc[s] = "commit"
      /\ intents' = Append(intents, write[s])
      /\ checked' = Append(checked, saw[s])
      /\ write' = [write EXCEPT ![s] = NoRow]
      /\ commits' = [commits EXCEPT ![s] = @ + 1]
      /\ pc' = [pc EXCEPT ![s] = "refresh"]
      /\ UNCHANGED <<active, req, seen, out, lived, saw>>
  BY DEF Commit, Goto
<1>2. /\ n \in Nat /\ DOMAIN intents = 1 .. n
      /\ Len(checked) = n /\ DOMAIN checked = 1 .. n
      /\ intents \in Seq(Intents) /\ checked \in Seq(Nat)
  BY DEF Inv, TypeOK
<1>3. LocalsInv(s) /\ SawInv(s) /\ RowInv(s) /\ write[s] \in Intents /\ saw[s] \in Nat
  BY <1>1 DEF Inv, RowInv, TypeOK
<1>4. /\ Len(intents') = n + 1 /\ DOMAIN intents' = 1 .. n + 1
      /\ \A i \in 1 .. n : intents'[i] = intents[i]
      /\ intents'[n + 1] = write[s]
  BY <1>1, <1>2, <1>3
<1>5. /\ Len(checked') = n + 1
      /\ \A i \in 1 .. n : checked'[i] = checked[i]
      /\ checked'[n + 1] = saw[s]
  BY <1>1, <1>2, <1>3
<1>6. intents' \in Seq(Intents) /\ checked' \in Seq(Nat)
  BY <1>1, <1>2, <1>3
<1> HIDE DEF n
<1>7. TypeOK'
  <2>1. \A o \in InFlight' : o \in InFlight
    BY <1>1 DEF Inv, TypeOK, InFlight, AttemptSteps
  <2> QED
    BY <1>1, <1>4, <1>5, <1>6, <2>1 DEF Inv, TypeOK, Steps, AttemptSteps
<1>8. DuplicatesOnlyFromOverlap'
  <2> SUFFICES ASSUME NEW i \in 1 .. n + 1, NEW j \in 1 .. n + 1, i < j,
                      IsOpen(intents'[i]), IsOpen(intents'[j]),
                      intents'[i].farmer = intents'[j].farmer
               PROVE  checked'[j] < i
    BY <1>4 DEF DuplicatesOnlyFromOverlap, IsOpen
  <2>1. CASE j = n + 1
    <3>1. i \in 1 .. n /\ IsOpen(intents[i]) /\ intents[i].farmer = req[s].farmer
      BY <1>1, <1>2, <1>3, <1>4, <2>1 DEF RowInv, n
    <3>2. i \notin 1 .. saw[s]
      BY <1>1, <1>3, <3>1 DEF SawInv
    <3> QED
      BY <1>2, <1>3, <1>5, <2>1, <3>1, <3>2 DEF n
  <2>2. CASE j # n + 1
    <3>1. i \in 1 .. n /\ j \in 1 .. n
      BY <1>2, <2>2 DEF n
    <3> QED
      BY <1>2, <1>4, <1>5, <3>1 DEF Inv, DuplicatesOnlyFromOverlap, n
  <2> QED
    BY <2>1, <2>2
<1>9. ASSUME NEW o \in Sessions PROVE SessionInv(o)'
  <2>1. LocalsInv(o) /\ OwnerInv(o) /\ EligibleInv(o) /\ SawInv(o) /\ RowInv(o)
    BY DEF Inv
  <2>2. LocalsInv(o)' /\ OwnerInv(o)' /\ EligibleInv(o)'
    BY <1>1, <2>1 DEF Inv, TypeOK, LocalsInv, OwnerInv, EligibleInv, InFlight, AttemptSteps
  <2>3. SawInv(o)'
    <3> SUFFICES ASSUME o # s, pc[o] \in {"insert", "commit"} PROVE SawInv(o)'
      BY <1>1 DEF SawInv, Inv, TypeOK
    <3>1. /\ saw'[o] = saw[o] /\ saw[o] \in Nat /\ saw[o] <= n /\ req'[o] = req[o]
          /\ \A i \in 1 .. saw[o] : intents[i].farmer = req[o].farmer => ~ IsOpen(intents[i])
      BY <1>1, <2>1 DEF SawInv, Inv, TypeOK, n
    <3>2. \A i \in 1 .. saw[o] : intents'[i] = intents[i]
      BY <1>2, <1>4, <3>1 DEF n
    <3>3. saw'[o] <= Len(intents')
      BY <1>2, <1>4, <3>1 DEF n
    <3> QED
      BY <3>1, <3>2, <3>3 DEF SawInv, IsOpen
  <2>4. RowInv(o)'
    <3> SUFFICES ASSUME o # s, pc[o] = "commit" PROVE RowInv(o)'
      BY <1>1 DEF RowInv, Inv, TypeOK
    <3>1. write'[o] = write[o] /\ req'[o] = req[o]
      BY <1>1 DEF Inv, TypeOK
    <3>2. ~ \E i \in 1 .. n + 1 :
                /\ IsOpen(intents'[i]) /\ intents'[i].farmer = write[o].farmer
                /\ intents'[i].date = write[o].date
      <4>1. \A i \in 1 .. n :
                ~ (/\ IsOpen(intents[i]) /\ intents[i].farmer = write[o].farmer
                   /\ intents[i].date = write[o].date)
        BY <1>2, <2>1 DEF RowInv, SlotTaken, TakesSlot
      <4>2. <<write[s].farmer, write[s].date>> # <<write[o].farmer, write[o].date>>
        BY <1>1, <1>3 DEF RowInv
      <4>3. \A i \in 1 .. n + 1 : i \in 1 .. n \/ i = n + 1
        BY <1>2 DEF n
      <4> QED
        BY <1>4, <4>1, <4>2, <4>3
    <3>3. ~ SlotTaken(write[o].farmer, write[o].date)'
      BY <1>4, <3>1, <3>2 DEF SlotTaken, TakesSlot, IsOpen
    <3>4. \A p \in Sessions \ {o} : pc'[p] = "commit" => pc[p] = "commit" /\ write'[p] = write[p]
      BY <1>1 DEF Inv, TypeOK
    <3> QED
      BY <2>1, <3>1, <3>3, <3>4 DEF RowInv, SlotTaken, TakesSlot, IsOpen
  <2> QED
    BY <2>2, <2>3, <2>4 DEF SessionInv
<1> QED
  BY <1>7, <1>8, <1>9 DEF Inv, SessionInv

LEMMA SetActiveStep == ASSUME NEW record \in Mutable, Inv, SetActive(record) PROVE Inv'
<1> USE DEF SetActive, session
<1>1. active' \subseteq Records
  BY RecordsAssumption DEF Inv, TypeOK
<1>2. TypeOK'
  <2>1. lived' \in [Sessions -> SUBSET Records]
    BY <1>1 DEF Inv, TypeOK
  <2> QED
    BY <1>1, <2>1 DEF Inv, TypeOK, InFlight
<1>3. \A s \in Sessions : lived[s] \subseteq lived'[s] /\ (s \in InFlight => active' \subseteq lived'[s])
  BY DEF Inv, TypeOK
<1>4. ASSUME NEW s \in Sessions PROVE SessionInv(s)'
  <2>1. LocalsInv(s)' /\ OwnerInv(s)' /\ SawInv(s)' /\ RowInv(s)'
    BY DEF Inv, LocalsInv, OwnerInv, SawInv, RowInv, InFlight, SlotTaken, TakesSlot, IsOpen
  <2>2. EligibleInv(s)'
    BY <1>3 DEF Inv, EligibleInv, InFlight
  <2> QED
    BY <2>1, <2>2 DEF SessionInv
<1> QED
  BY <1>2, <1>4 DEF Inv, SessionInv, DuplicatesOnlyFromOverlap, IsOpen

\* A decision closes an intent or leaves it open: none is opened again.
LEMMA DecideStep ==
    ASSUME NEW k \in DOMAIN intents, NEW status \in IntentStatuses, Inv, Decide(k, status)
    PROVE  Inv'
<1>1. /\ intents' = [intents EXCEPT ![k].status = status]
      /\ status \in Decisions(intents[k].status)
      /\ UNCHANGED <<active, session, history>>
  BY DEF Decide
<1>2. intents \in Seq(Intents) /\ DOMAIN intents = 1 .. Len(intents) /\ Len(intents) \in Nat
  BY DEF Inv, TypeOK
<1>3. intents[k] \in Intents
  BY <1>2
<1>4. [intents[k] EXCEPT !.status = status] \in Intents
  BY <1>3 DEF Intents
<1>5. /\ intents' \in Seq(Intents)
      /\ Len(intents') = Len(intents) /\ DOMAIN intents' = DOMAIN intents
  BY <1>1, <1>2, <1>4, ExceptSeq
<1>6. IsOpen([intents[k] EXCEPT !.status = status]) => IsOpen(intents[k])
  BY <1>1, <1>3 DEF Decisions, IsOpen, OverStatuses, Intents, IntentStatuses
<1>7. \A i \in DOMAIN intents :
        /\ intents'[i].farmer = intents[i].farmer
        /\ intents'[i].date = intents[i].date
        /\ IsOpen(intents'[i]) => IsOpen(intents[i])
  BY <1>1, <1>2, <1>3, <1>6 DEF Intents
<1>8. TypeOK'
  BY <1>1, <1>5 DEF Inv, TypeOK, session, history, InFlight
<1>9. DuplicatesOnlyFromOverlap'
  BY <1>1, <1>5, <1>7 DEF Inv, DuplicatesOnlyFromOverlap, history, IsOpen
<1>10. ASSUME NEW s \in Sessions PROVE SessionInv(s)'
  <2>1. LocalsInv(s) /\ OwnerInv(s) /\ EligibleInv(s) /\ SawInv(s) /\ RowInv(s)
    BY DEF Inv
  <2>2. LocalsInv(s)' /\ OwnerInv(s)' /\ EligibleInv(s)'
    BY <1>1, <2>1 DEF session, history, LocalsInv, OwnerInv, EligibleInv, InFlight
  <2>3. SawInv(s)'
    <3> SUFFICES ASSUME pc[s] \in {"insert", "commit"} PROVE SawInv(s)'
      BY <1>1 DEF session, SawInv
    <3>1. saw' = saw /\ req' = req /\ saw[s] \in Nat /\ saw[s] <= Len(intents)
      BY <1>1, <2>1 DEF session, history, SawInv, Inv, TypeOK
    <3>2. \A i \in 1 .. saw[s] : i \in DOMAIN intents
      BY <1>2, <3>1
    <3> QED
      BY <1>5, <1>7, <2>1, <3>1, <3>2 DEF SawInv, IsOpen
  <2>4. RowInv(s)'
    <3>1. pc' = pc /\ write' = write /\ req' = req
      BY <1>1 DEF session
    <3>2. \A f, d : ~ SlotTaken(f, d) => ~ SlotTaken(f, d)'
      BY <1>5, <1>7 DEF SlotTaken, TakesSlot, IsOpen
    <3> QED
      BY <2>1, <3>1, <3>2 DEF RowInv, SlotTaken, TakesSlot, IsOpen
  <2> QED
    BY <2>2, <2>3, <2>4 DEF SessionInv
<1> QED
  BY <1>8, <1>9, <1>10 DEF Inv, SessionInv

-----------------------------------------------------------------------------
(* The invariant and what follows from it                                  *)

LEMMA InitEstablishesInv == ASSUME Init PROVE Inv
<1> USE DEF Init
<1>1. TypeOK
  BY DEF TypeOK, Steps, Outcomes, InFlight, AttemptSteps
<1>2. DuplicatesOnlyFromOverlap
  BY DEF DuplicatesOnlyFromOverlap
<1>3. \A s \in Sessions : LocalsInv(s) /\ OwnerInv(s) /\ EligibleInv(s) /\ SawInv(s) /\ RowInv(s)
  BY DEF LocalsInv, OwnerInv, EligibleInv, SawInv, RowInv, InFlight, AttemptSteps
<1> QED
  BY <1>1, <1>2, <1>3 DEF Inv

LEMMA NextKeepsInv == ASSUME Inv, [Next]_vars PROVE Inv'
<1>1. ASSUME NEW s \in Sessions, Step(s) PROVE Inv'
  BY <1>1, LoadRecordStep, LoadHoldingsStep, ReadIntentsStep, InsertIntentStep, CommitStep,
     RefreshStep DEF Step
<1>2. CASE UNCHANGED vars
  BY <1>2 DEF vars, db, session, history, Inv, TypeOK, InFlight, DuplicatesOnlyFromOverlap,
     LocalsInv, OwnerInv, EligibleInv, SawInv, RowInv, SlotTaken, TakesSlot, IsOpen
<1> QED
  BY <1>1, <1>2, SubmitStep, StatementFailsStep, FinishStep, SetActiveStep, DecideStep DEF Next

\* Inv holds in every reachable state.
THEOREM Invariance == Spec => []Inv
  BY InitEstablishesInv, NextKeepsInv, PTL DEF Spec

\* The variables keep their types, and every request under way is for some farmer_id.
THEOREM TypeCorrect == Spec => []TypeOK
<1>1. Inv => TypeOK
  BY DEF Inv
<1> QED
  BY <1>1, Invariance, PTL

\* RULE-005 can be evaded by overlapping requests only, however many there are.
THEOREM DuplicatesOverlapped == Spec => []DuplicatesOnlyFromOverlap
<1>1. Inv => DuplicatesOnlyFromOverlap
  BY DEF Inv
<1> QED
  BY <1>1, Invariance, PTL

\* "ok" means one commit; every refusal but an HTTP 500 means none.
THEOREM AnswersAreTrue == Spec => []AnswersMatchCommits
<1>1. Inv => AnswersMatchCommits
  BY DEF Inv, LocalsInv, AnswersMatchCommits
<1> QED
  BY <1>1, Invariance, PTL

\* Only a commit of s moves its count up.
LEMMA CountedCommit ==
    ASSUME Inv, Next, NEW s \in Sessions, commits'[s] > commits[s]
    PROVE  Commit(s)
<1>1. commits \in [Sessions -> Nat]
  BY DEF Inv, TypeOK
<1>2. ~ \E record \in Mutable : SetActive(record)
  BY <1>1 DEF SetActive, session
<1>3. ~ \E i \in DOMAIN intents, status \in IntentStatuses : Decide(i, status)
  BY <1>1 DEF Decide, session
<1>4. PICK o \in Sessions :
        (\E r \in Requests : Submit(o, r)) \/ Step(o) \/ StatementFails(o) \/ Finish(o)
  BY <1>2, <1>3 DEF Next
<1>5. CASE \E r \in Requests : Submit(o, r)
  BY <1>1, <1>5 DEF Submit, Fail
<1>6. CASE StatementFails(o)
  BY <1>1, <1>6 DEF StatementFails, Fail
<1>7. CASE Finish(o)
  BY <1>1, <1>7 DEF Finish
<1>8. CASE Step(o)
  <2>1. ~ (LoadRecord(o) \/ LoadHoldings(o) \/ ReadIntents(o) \/ InsertIntent(o) \/ Refresh(o))
    BY <1>1 DEF LoadRecord, LoadHoldings, ReadIntents, InsertIntent, Refresh, Fail
  <2>2. Commit(o)
    BY <1>8, <2>1 DEF Step
  <2>3. o = s
    BY <1>1, <2>2 DEF Commit
  <2> QED
    BY <2>2, <2>3
<1> QED
  BY <1>4, <1>5, <1>6, <1>7, <1>8

\* An intent is created by its farmer or by an officer of the centre.
THEOREM OwnersOnly == Spec => CommitsAreAuthorised
<1>1. ASSUME Inv, Next, NEW s \in Sessions, commits'[s] > commits[s]
      PROVE  req[s].actor = write[s].farmer \/ req[s].actor \in LocalOfficers
  <2>1. pc[s] = "commit"
    BY <1>1, CountedCommit DEF Commit
  <2> QED
    BY <1>1, <2>1 DEF Inv, OwnerInv, RowInv, InFlight, AttemptSteps
<1>2. Inv /\ [Next]_vars =>
        [\A s \in Sessions :
            commits'[s] > commits[s] =>
                req[s].actor = write[s].farmer \/ req[s].actor \in LocalOfficers]_vars
  BY <1>1
<1> QED
  BY <1>2, Invariance, PTL DEF Spec, CommitsAreAuthorised

\* An intent rests on records that were active at some moment since its request began.
THEOREM EligibleOnce == Spec => EligibleWhenChecked
<1>1. ASSUME Inv, Next, NEW s \in Sessions, commits'[s] > commits[s]
      PROVE  /\ {write[s].farmer, Centre, Crop} \subseteq lived[s]
             /\ HoldingsOf(write[s].farmer) \intersect lived[s] # {}
  <2>1. pc[s] = "commit"
    BY <1>1, CountedCommit DEF Commit
  <2> QED
    BY <1>1, <2>1 DEF Inv, EligibleInv, RowInv
<1>2. Inv /\ [Next]_vars =>
        [\A s \in Sessions :
            commits'[s] > commits[s] =>
                /\ {write[s].farmer, Centre, Crop} \subseteq lived[s]
                /\ HoldingsOf(write[s].farmer) \intersect lived[s] # {}]_vars
  BY <1>1
<1> QED
  BY <1>2, Invariance, PTL DEF Spec, EligibleWhenChecked

-----------------------------------------------------------------------------
(* Procurement implements IntentBook                                       *)

\* Only a commit and a decision change the committed intents.
LEMMA OnlyCommitsChange ==
    ASSUME NEW s \in Sessions,
           (\E r \in Requests : Submit(s, r)) \/ Step(s) \/ StatementFails(s) \/ Finish(s),
           ~ Commit(s)
    PROVE  UNCHANGED intents
  BY DEF Submit, Step, LoadRecord, LoadHoldings, ReadIntents, InsertIntent, Refresh,
     StatementFails, Finish, Fail, db

\* A slot is booked once, and each request books it at once or not at all.
THEOREM Refinement == Spec => ImplementsIntentBook
<1>1. Init => ThisBook!Init
  BY DEF Init, ThisBook!Init
<1>2. Inv /\ [Next]_vars => [ThisBook!Next]_intents
  <2> SUFFICES ASSUME Inv, [Next]_vars PROVE ThisBook!Next \/ UNCHANGED intents
    OBVIOUS
  <2>1. ASSUME NEW s \in Sessions, Commit(s) PROVE ThisBook!Next
    <3>1. pc[s] = "commit" /\ RowInv(s)
      BY <2>1 DEF Commit, Inv
    <3>2. /\ write[s] \in Intents /\ write[s].status = "PENDING"
          /\ ~ SlotTaken(write[s].farmer, write[s].date)
      BY <3>1 DEF RowInv
    <3>3. ThisBook!Book(write[s])
      BY <2>1, <3>2 DEF Commit, ThisBook!Book, SlotTaken, TakesSlot, IsOpen, ThisBook!IsOpen,
         OverStatuses, ThisBook!OverStatuses
    <3> QED
      BY <3>2, <3>3 DEF ThisBook!Next, Intents, ThisBook!Intents, IntentStatuses,
         ThisBook!IntentStatuses
  <2>2. ASSUME NEW i \in DOMAIN intents, NEW status \in IntentStatuses, Decide(i, status)
        PROVE  ThisBook!Next
    <3>1. ThisBook!Decide(i, status)
      BY <2>2 DEF Decide, ThisBook!Decide, Decisions, ThisBook!Decisions
    <3> QED
      BY <3>1 DEF ThisBook!Next, IntentStatuses, ThisBook!IntentStatuses
  <2>3. ASSUME NEW record \in Mutable, SetActive(record) PROVE UNCHANGED intents
    BY <2>3 DEF SetActive
  <2>4. CASE UNCHANGED vars
    BY <2>4 DEF vars, db
  <2> QED
    BY <2>1, <2>2, <2>3, <2>4, OnlyCommitsChange DEF Next
<1> QED
  BY <1>1, <1>2, Invariance, PTL DEF Spec, ImplementsIntentBook, ThisBook!Spec
=============================================================================
