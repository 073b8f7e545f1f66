------------------------ MODULE CentreQueriesProofs -------------------------
(* Why the answers of CentreQueries are right at some moment, whatever      *)
(* changes for the worse between their statements.                          *)
EXTENDS CentreQueries, SequenceTheorems, TLAPS

SelectSteps == {"user", "centre", "record"}
EvaluateSteps == {"farmer", "evalCentre", "crop", "holdings"}

\* The types that the argument needs.
DataInv ==
    /\ active \subseteq Rows
    /\ record \in [Centres -> CapacityRecords \union {NoRecord}]

RequestInv ==
    /\ pc \in SelectSteps => req \in Selections /\ turn \in 1 .. Len(req.prefs)
    /\ pc \in EvaluateSteps => req \in Evaluations
    /\ pc \in {"viewCentre", "viewUser", "viewCrop", "viewRecord"} => req \in Views
    /\ pc \in {"idle", "farmer"} => failing = FALSE
    /\ pc = "answered" => req \in Selections \union Views \union Evaluations

\* What is right now has been noted.
NotedInv == pc \in SelectSteps \union EvaluateSteps => RightAnswers(req) \subseteq right

PassedOver(q, j) ==
    q.prefs[j].centre \in Centres => ~ Suitable(q.prefs[j].centre, q.quantity)

\* The preferences tried before do not suit, and if the one whose centre was found active
\* still has room, it was right to select it when the centre was read.
SelectInv ==
    pc \in SelectSteps /\ ~ improved =>
        /\ \A j \in DOMAIN req.prefs : req.prefs[j].priority < turn => PassedOver(req, j)
        /\ pc = "record" =>
            /\ Preferred \in Centres
            /\ Offer(record[Preferred]) >= req.quantity => Preferred \in right

\* What was found inactive still is; what was found active was so when all that remains
\* to be loaded was, if it is now.
EvaluateInv ==
    pc \in EvaluateSteps /\ ~ improved =>
        /\ failing => ~ IsEligible(req)
        /\ ~ failing /\ ActiveHoldings(req.farmer) # {} =>
            /\ pc = "evalCentre" /\ {req.centre, req.crop} \subseteq active => "ELIGIBLE" \in right
            /\ pc = "crop" /\ req.crop \in active => "ELIGIBLE" \in right
            /\ pc = "holdings" => "ELIGIBLE" \in right

Inv == DataInv /\ RequestInv /\ NotedInv /\ SelectInv /\ EvaluateInv
       /\ SelectionWasRight /\ EligibilityWasRight

-----------------------------------------------------------------------------
(* Capacity                                                                *)

LEMMA RecordType ==
    ASSUME NEW r \in CapacityRecords
    PROVE  /\ r.total \in Nat /\ r.total \in Totals
           /\ r.allocated \in Nat /\ r.allocated <= r.total
           /\ r.active \in BOOLEAN
<1>1. /\ r \in [total: Totals, allocated: UNION {0 .. t : t \in Totals}, active: BOOLEAN]
      /\ r.allocated <= r.total
  BY DEF CapacityRecords
<1>2. r.total \in Totals /\ r.active \in BOOLEAN /\ r.allocated \in UNION {0 .. t : t \in Totals}
  BY <1>1
<1>3. PICK t \in Totals : r.allocated \in 0 .. t
  BY <1>2
<1>4. t \in Nat /\ r.total \in Nat
  BY <1>2, QuantitiesAssumption
<1>5. r.allocated \in Nat
  BY <1>3, <1>4
<1> QED BY <1>1, <1>2, <1>4, <1>5

LEMMA OfferType == ASSUME NEW r \in CapacityRecords \union {NoRecord} PROVE Offer(r) \in Nat
<1> USE QuantitiesAssumption, NullsAssumption
<1>1. CASE r = NoRecord
  BY <1>1 DEF Offer
<1>2. CASE r \in CapacityRecords
  BY <1>2, RecordType DEF Offer, AvailableCapacity
<1> QED BY <1>1, <1>2

\* Checks 2 to 4 pass if and only if the offer suffices.
LEMMA CapacityIsOffer ==
    ASSUME NEW r \in CapacityRecords \union {NoRecord}, NEW q \in Quantities
    PROVE  HasCapacity(r, q) <=> Offer(r) >= q
<1> USE QuantitiesAssumption, NullsAssumption
<1>1. CASE r = NoRecord
  BY <1>1 DEF Offer, HasCapacity
<1>2. CASE r \in CapacityRecords
  BY <1>2, RecordType DEF Offer, HasCapacity, CapacityStatus, AvailableCapacity
<1> QED BY <1>1, <1>2

LEMMA LessAfterAllocation ==
    ASSUME NEW r \in CapacityRecords, r.active, NEW q \in 1 .. AvailableCapacity(r)
    PROVE  LET s == [r EXCEPT !.allocated = @ + q]
           IN  s \in CapacityRecords /\ Offer(s) <= Offer(r)
<1> USE QuantitiesAssumption, NullsAssumption
<1> DEFINE s == [r EXCEPT !.allocated = @ + q]
<1>1. /\ r.total \in Nat /\ r.total \in Totals /\ r.allocated \in Nat /\ r.allocated <= r.total
      /\ r.active \in BOOLEAN
  BY RecordType
<1>2. q \in Nat /\ r.allocated + q <= r.total
  BY <1>1 DEF AvailableCapacity
<1>3. s.total = r.total /\ s.allocated = r.allocated + q /\ s.active = r.active
  BY DEF CapacityRecords
<1>4. s.allocated \in UNION {0 .. t : t \in Totals}
  <2>1. s.allocated \in 0 .. r.total
    BY <1>1, <1>2, <1>3
  <2> QED BY <2>1, <1>1
<1>5. s \in CapacityRecords
  BY <1>1, <1>2, <1>3, <1>4 DEF CapacityRecords
<1>6. Offer(s) <= Offer(r)
  BY <1>1, <1>2, <1>3, <1>5 DEF Offer, AvailableCapacity
<1> QED BY <1>5, <1>6

-----------------------------------------------------------------------------
(* Changes                                                                 *)

Changes == (\E c \in Centres : Allocate(c) \/ SetRecord(c)) \/ (\E row \in Rows : SetActive(row))

Worsened ==
    /\ active' \subseteq active
    /\ \A c \in Centres : Offer(record[c])' <= Offer(record[c])

LEMMA ChangesKeepTypes == ASSUME DataInv, Changes PROVE DataInv'
<1>1. ASSUME NEW c \in Centres, Allocate(c) PROVE DataInv'
  <2>1. PICK q \in 1 .. AvailableCapacity(record[c]) :
          record' = [record EXCEPT ![c].allocated = @ + q]
    BY <1>1 DEF Allocate
  <2>2. record[c] \in CapacityRecords /\ record[c].active
    BY <1>1 DEF Allocate, DataInv
  <2>3. [record[c] EXCEPT !.allocated = @ + q] \in CapacityRecords
    BY <2>1, <2>2, LessAfterAllocation
  <2> QED BY <1>1, <2>1, <2>3 DEF Allocate, DataInv
<1>2. ASSUME NEW c \in Centres, SetRecord(c) PROVE DataInv'
  BY <1>2 DEF SetRecord, DataInv
<1>3. ASSUME NEW row \in Rows, SetActive(row) PROVE DataInv'
  BY <1>3 DEF SetActive, DataInv
<1> QED BY <1>1, <1>2, <1>3 DEF Changes

LEMMA ChangesNote ==
    ASSUME Changes, InProgress
    PROVE  /\ UNCHANGED request
           /\ right' = right \union RightAnswers(req)'
           /\ ~ improved' => ~ improved
<1>1. ASSUME NEW c \in Centres, Allocate(c) PROVE \E b \in BOOLEAN : Change(b)
  BY <1>1 DEF Allocate
<1>2. ASSUME NEW c \in Centres, SetRecord(c) PROVE \E b : Change(b)
  BY <1>2 DEF SetRecord
<1>3. ASSUME NEW row \in Rows, SetActive(row) PROVE \E b : Change(b)
  BY <1>3 DEF SetActive
<1>4. PICK b : Change(b)
  BY <1>1, <1>2, <1>3 DEF Changes
<1> QED BY <1>4 DEF Change

\* A change for the better is noted; the others leave every offer and flag as good or worse.
LEMMA ChangesWorsen == ASSUME DataInv, Changes, InProgress, ~ improved' PROVE Worsened
<1>1. ASSUME NEW c \in Centres, Allocate(c) PROVE Worsened
  <2>1. PICK q \in 1 .. AvailableCapacity(record[c]) :
          record' = [record EXCEPT ![c].allocated = @ + q]
    BY <1>1 DEF Allocate
  <2>2. record[c] \in CapacityRecords /\ record[c].active
    BY <1>1 DEF Allocate, DataInv
  <2>3. Offer([record[c] EXCEPT !.allocated = @ + q]) <= Offer(record[c])
    BY <2>1, <2>2, LessAfterAllocation
  <2>4. ASSUME NEW d \in Centres PROVE Offer(record[d])' <= Offer(record[d])
    <3>1. CASE d = c
      <4>1. record'[d] = [record[c] EXCEPT !.allocated = @ + q]
        BY <2>1, <3>1 DEF DataInv
      <4>2. Offer(record[d])' = Offer(record'[d])
        BY DEF Offer, AvailableCapacity
      <4> QED BY <2>3, <3>1, <4>1, <4>2
    <3>2. CASE d # c
      <4>1. record'[d] = record[d]
        BY <2>1, <3>2 DEF DataInv
      <4>2. Offer(record[d])' = Offer(record[d])
        BY <4>1 DEF Offer, AvailableCapacity
      <4>3. Offer(record[d]) \in Nat
        BY OfferType DEF DataInv
      <4> QED BY <4>2, <4>3
    <3> QED BY <3>1, <3>2
  <2> QED BY <1>1, <2>4 DEF Worsened, Allocate
<1>2. ASSUME NEW c \in Centres, SetRecord(c) PROVE Worsened
  <2>1. PICK r \in CapacityRecords :
          record' = [record EXCEPT ![c] = r] /\ Change(Offer(r) > Offer(record[c])) /\ active' = active
    BY <1>2 DEF SetRecord
  <2>2. Offer(r) \in Nat /\ \A d \in Centres : Offer(record[d]) \in Nat
    BY OfferType DEF DataInv
  <2>3. ~ (Offer(r) > Offer(record[c]))
    BY <2>1 DEF Change
  <2>4. ASSUME NEW d \in Centres PROVE Offer(record[d])' <= Offer(record[d])
    <3>1. record'[d] = IF d = c THEN r ELSE record[d]
      BY <2>1 DEF DataInv
    <3>2. Offer(record[d])' = Offer(IF d = c THEN r ELSE record[d])
      BY <3>1 DEF Offer, AvailableCapacity
    <3>3. CASE d = c
      BY <2>2, <2>3, <3>2, <3>3
    <3>4. CASE d # c
      BY <2>2, <3>2, <3>4
    <3> QED BY <3>3, <3>4
  <2> QED BY <2>1, <2>4 DEF Worsened
<1>3. ASSUME NEW row \in Rows, SetActive(row) PROVE Worsened
  <2>1. row \in active
    BY <1>3 DEF SetActive, Change
  <2>2. record' = record /\ active' = active \ {row}
    BY <1>3, <2>1 DEF SetActive
  <2>3. ASSUME NEW d \in Centres PROVE Offer(record[d])' <= Offer(record[d])
    <3>1. Offer(record[d])' = Offer(record[d])
      BY <2>2 DEF Offer, AvailableCapacity
    <3>2. Offer(record[d]) \in Nat
      BY OfferType DEF DataInv
    <3> QED BY <3>1, <3>2
  <2> QED BY <2>2, <2>3 DEF Worsened
<1> QED BY <1>1, <1>2, <1>3 DEF Changes

LEMMA PreferencesType ==
    ASSUME NEW q \in Selections
    PROVE  /\ Len(q.prefs) \in Nat /\ DOMAIN q.prefs = 1 .. Len(q.prefs)
           /\ 1 \in DOMAIN q.prefs
           /\ \A j \in DOMAIN q.prefs :
                /\ q.prefs[j].centre \in Centres \union UnknownIds
                /\ q.prefs[j].priority \in DOMAIN q.prefs
                /\ q.prefs[j].priority \in Nat /\ q.prefs[j].priority >= 1
           /\ \A k \in DOMAIN q.prefs : \E i \in DOMAIN q.prefs : q.prefs[i].priority = k
           /\ \A i, j \in DOMAIN q.prefs : q.prefs[i].priority = q.prefs[j].priority => i = j
           /\ q.quantity \in Quantities /\ q.op = "select"
<1>1. q.prefs \in Preferences /\ q.quantity \in Quantities /\ q.op = "select"
  BY DEF Selections
<1>2. PICK n \in 1 .. MaxPreferences :
        q.prefs \in [1 .. n -> [centre: Centres \union UnknownIds, priority: 1 .. n]]
  BY <1>1 DEF Preferences
<1>3. n \in Nat /\ n >= 1
  BY <1>2, QuantitiesAssumption
<1>4. Len(q.prefs) = n /\ DOMAIN q.prefs = 1 .. n
  <2>1. q.prefs \in Seq([centre: Centres \union UnknownIds, priority: 1 .. n])
    BY <1>2, <1>3, SeqDef
  <2>2. DOMAIN q.prefs = 1 .. Len(q.prefs) /\ Len(q.prefs) \in Nat
    BY <2>1, LenProperties
  <2> QED BY <1>2, <1>3, <2>2
<1>5. \A j \in DOMAIN q.prefs :
        q.prefs[j].centre \in Centres \union UnknownIds /\ q.prefs[j].priority \in DOMAIN q.prefs
  BY <1>2, <1>4
<1>6. {q.prefs[i].priority : i \in DOMAIN q.prefs} = DOMAIN q.prefs
  BY <1>1 DEF Preferences
<1>7. \A i, j \in DOMAIN q.prefs : q.prefs[i].priority = q.prefs[j].priority => i = j
  BY <1>1 DEF Preferences
<1>8. \A k \in DOMAIN q.prefs : k \in Nat /\ k >= 1
  BY <1>3, <1>4
<1>9. \A j \in DOMAIN q.prefs : q.prefs[j].priority \in Nat /\ q.prefs[j].priority >= 1
  BY <1>5, <1>8
<1>10. \A k \in DOMAIN q.prefs : \E i \in DOMAIN q.prefs : q.prefs[i].priority = k
  BY <1>6
<1>11. Len(q.prefs) \in Nat /\ DOMAIN q.prefs = 1 .. Len(q.prefs) /\ 1 \in DOMAIN q.prefs
  BY <1>3, <1>4
<1>12. \A j \in DOMAIN q.prefs :
         /\ q.prefs[j].centre \in Centres \union UnknownIds
         /\ q.prefs[j].priority \in DOMAIN q.prefs
         /\ q.prefs[j].priority \in Nat /\ q.prefs[j].priority >= 1
  BY <1>5, <1>9
<1> QED BY <1>1, <1>7, <1>10, <1>11, <1>12

\* The preference whose turn it is.
LEMMA PreferredType ==
    ASSUME RequestInv, pc \in SelectSteps
    PROVE  \E i \in DOMAIN req.prefs :
              /\ req.prefs[i].priority = turn /\ Preferred = req.prefs[i].centre
              /\ \A j \in DOMAIN req.prefs : req.prefs[j].priority = turn => j = i
<1>1. req \in Selections /\ turn \in DOMAIN req.prefs
  BY PreferencesType DEF RequestInv
<1>2. \E i \in DOMAIN req.prefs : req.prefs[i].priority = turn
  BY <1>1, PreferencesType
<1>3. PICK i \in DOMAIN req.prefs :
        i = CHOOSE k \in DOMAIN req.prefs : req.prefs[k].priority = turn
  BY <1>2
<1>4. req.prefs[i].priority = turn
  BY <1>2, <1>3
<1>5. Preferred = req.prefs[i].centre
  BY <1>3 DEF Preferred, SortedPreference
<1> QED BY <1>1, <1>4, <1>5, PreferencesType

LEMMA SuitableWorsens ==
    ASSUME DataInv, DataInv', Worsened, NEW c \in Centres, NEW q \in Quantities, Suitable(c, q)'
    PROVE  Suitable(c, q)
<1>1. Offer(record[c]) \in Nat /\ Offer(record[c])' \in Nat /\ q \in Nat
  <2>1. Offer(record'[c]) \in Nat
    BY OfferType DEF DataInv
  <2>2. Offer(record[c])' = Offer(record'[c])
    BY DEF Offer, AvailableCapacity
  <2> QED BY <2>1, <2>2, OfferType, QuantitiesAssumption DEF DataInv
<1>2. c \in active' /\ Offer(record[c])' >= q
  BY DEF Suitable
<1> QED BY <1>1, <1>2 DEF Worsened, Suitable

LEMMA ChangesPreserve == ASSUME Inv, Changes PROVE Inv'
<1>1. DataInv'
  BY ChangesKeepTypes DEF Inv
<1>2. CASE ~ InProgress
  <2>1. UNCHANGED <<pc, req, turn, failing, out, right>> /\ (~ improved' => ~ improved)
    <3>1. ASSUME NEW c \in Centres, Allocate(c) PROVE \E b : Change(b)
      BY <3>1 DEF Allocate
    <3>2. ASSUME NEW c \in Centres, SetRecord(c) PROVE \E b : Change(b)
      BY <3>2 DEF SetRecord
    <3>3. ASSUME NEW row \in Rows, SetActive(row) PROVE \E b : Change(b)
      BY <3>3 DEF SetActive
    <3>4. PICK b : Change(b)
      BY <3>1, <3>2, <3>3 DEF Changes
    <3> QED BY <1>2, <3>4 DEF Change, request
  <2>2. pc \in {"idle", "answered"}
    BY <1>2 DEF InProgress
  <2>3. RequestInv' /\ NotedInv' /\ SelectInv' /\ EvaluateInv'
    BY <2>1, <2>2 DEF Inv, RequestInv, NotedInv, SelectInv, EvaluateInv, SelectSteps, EvaluateSteps
  <2>4. SelectionWasRight' /\ EligibilityWasRight'
    BY <2>1 DEF Inv, SelectionWasRight, EligibilityWasRight
  <2> QED BY <1>1, <2>3, <2>4 DEF Inv
<1>3. CASE InProgress
  <2>1. /\ UNCHANGED <<pc, req, turn, failing, out>>
        /\ right' = right \union RightAnswers(req)'
        /\ ~ improved' => ~ improved
    BY <1>3, ChangesNote DEF request
  <2>2. ~ improved' => Worsened
    BY <1>3, ChangesWorsen DEF Inv
  <2>3. RequestInv'
    BY <2>1 DEF Inv, RequestInv, SelectSteps, EvaluateSteps
  <2>4. NotedInv'
    BY <2>1 DEF NotedInv
  <2>5. SelectInv'
    <3> SUFFICES ASSUME pc' \in SelectSteps, ~ improved'
                 PROVE  /\ \A j \in DOMAIN req.prefs : req.prefs[j].priority < turn => PassedOver(req, j)'
                        /\ pc = "record" =>
                            /\ Preferred \in Centres
                            /\ Offer(record[Preferred])' >= req.quantity => Preferred \in right'
      BY <2>1 DEF SelectInv, Preferred
    <3>1. /\ req \in Selections /\ req.quantity \in Quantities /\ pc \in SelectSteps
          /\ Worsened /\ SelectInv /\ ~ improved
      BY <2>1, <2>2, PreferencesType DEF Inv, RequestInv
    <3>2. ASSUME NEW j \in DOMAIN req.prefs, req.prefs[j].priority < turn
          PROVE  PassedOver(req, j)'
      <4>1. PassedOver(req, j)
        BY <3>1, <3>2 DEF SelectInv
      <4> DEFINE c == req.prefs[j].centre
                 q == req.quantity
      <4>2. ASSUME c \in Centres PROVE ~ Suitable(c, q)'
        BY <1>1, <3>1, <4>1, <4>2, <2>1, SuitableWorsens DEF Inv, PassedOver
      <4> QED BY <2>1, <4>2 DEF PassedOver
    <3>3. ASSUME pc = "record"
          PROVE  /\ Preferred \in Centres
                 /\ Offer(record[Preferred])' >= req.quantity => Preferred \in right'
      <4>1. Preferred \in Centres /\ (Offer(record[Preferred]) >= req.quantity => Preferred \in right)
        BY <3>1, <3>3 DEF SelectInv
      <4>2. Offer(record[Preferred]) \in Nat /\ req.quantity \in Nat
        BY <3>1, <4>1, OfferType, QuantitiesAssumption DEF Inv, DataInv
      <4>3. PICK c \in Centres : c = Preferred
        BY <4>1
      <4>4. Preferred' = c /\ Offer(record[Preferred])' = Offer(record[c])'
        BY <2>1, <4>3 DEF Preferred
      <4>5. Offer(record[c])' <= Offer(record[c])
        BY <3>1 DEF Worsened
      <4>6. Offer(record[c])' \in Nat
        <5>1. Offer(record'[c]) \in Nat
          BY <1>1, OfferType DEF DataInv
        <5> QED BY <5>1 DEF Offer, AvailableCapacity
      <4>7. Offer(record[c])' >= req.quantity => c \in right'
        BY <2>1, <4>1, <4>2, <4>3, <4>5, <4>6
      <4> QED BY <4>1, <4>3, <4>4, <4>7
    <3> QED BY <3>2, <3>3
  <2>6. EvaluateInv'
    <3> SUFFICES ASSUME pc' \in EvaluateSteps, ~ improved' PROVE EvaluateInv'
      BY DEF EvaluateInv
    <3>1. active' \subseteq active /\ ~ improved /\ EvaluateInv /\ pc \in EvaluateSteps
      BY <2>1, <2>2 DEF Inv, Worsened
    <3>2. IsEligible(req)' => IsEligible(req)
      BY <2>1, <3>1 DEF IsEligible, ActiveHoldings
    <3>3. ActiveHoldings(req.farmer)' # {} => ActiveHoldings(req.farmer) # {}
      BY <2>1, <3>1 DEF ActiveHoldings
    <3> QED BY <2>1, <3>1, <3>2, <3>3 DEF EvaluateInv
  <2>7. SelectionWasRight' /\ EligibilityWasRight'
    BY <1>3, <2>1 DEF InProgress, SelectionWasRight, EligibilityWasRight
  <2> QED BY <1>1, <2>3, <2>4, <2>5, <2>6, <2>7 DEF Inv
<1> QED BY <1>2, <1>3

-----------------------------------------------------------------------------
(* The statements of a request                                             *)

LEMMA SelectionsDiffer ==
    /\ \A q \in Selections : q.op = "select"
    /\ \A q \in Views : q.op = "view"
    /\ \A q \in Evaluations : q.op = "evaluate"
BY DEF Selections, Views, Evaluations

LEMMA SubmitPreserves == ASSUME Inv, Submit PROVE Inv'
<1>1. /\ UNCHANGED <<active, record, failing, out, improved>> /\ failing = FALSE
      /\ turn' = 1 /\ right' = RightAnswers(req') /\ pc' = FirstStatement[req'.op]
      /\ req' \in Selections \union Views \union Evaluations
  BY DEF Submit, data, Inv, RequestInv
<1>2. DataInv'
  BY <1>1 DEF Inv, DataInv
<1>3. /\ req' \in Selections => pc' = "user" /\ req'.op = "select"
      /\ req' \in Views => pc' = "viewCentre" /\ req'.op = "view"
      /\ req' \in Evaluations => pc' = "farmer" /\ req'.op = "evaluate"
  BY <1>1, SelectionsDiffer DEF FirstStatement
<1>4. RequestInv'
  <2>1. req' \in Selections => 1 \in 1 .. Len(req'.prefs)
    BY PreferencesType
  <2> QED BY <1>1, <1>3, <2>1 DEF RequestInv, SelectSteps, EvaluateSteps
<1>5. NotedInv'
  <2>1. RightAnswers(req)' = RightAnswers(req')
    BY <1>1 DEF RightAnswers, IsRightSelection, IsEligible, ActiveHoldings, Suitable, Offer, AvailableCapacity
  <2> QED BY <1>1, <2>1 DEF NotedInv
<1>6. SelectInv'
  <2> SUFFICES ASSUME req' \in Selections
               PROVE  \A j \in DOMAIN req'.prefs : ~ (req'.prefs[j].priority < 1)
    BY <1>1, <1>3 DEF SelectInv, SelectSteps
  <2>1. \A j \in DOMAIN req'.prefs : req'.prefs[j].priority \in Nat /\ req'.prefs[j].priority >= 1
    BY PreferencesType
  <2> QED BY <2>1
<1>7. EvaluateInv'
  BY <1>1, <1>3 DEF EvaluateInv, EvaluateSteps
<1>8. SelectionWasRight' /\ EligibilityWasRight'
  BY <1>1, <1>3 DEF SelectionWasRight, EligibilityWasRight
<1> QED BY <1>2, <1>4, <1>5, <1>6, <1>7, <1>8 DEF Inv

\* What a step keeps that changes neither the data nor the request.
LEMMA StepKeeps ==
    ASSUME Inv, UNCHANGED <<data, req, history>>, pc \in SelectSteps \union EvaluateSteps
    PROVE  DataInv' /\ NotedInv'
<1>1. DataInv'
  BY DEF Inv, DataInv, data
<1>2. RightAnswers(req)' = RightAnswers(req)
  BY DEF data, RightAnswers, IsRightSelection, IsEligible, ActiveHoldings, Suitable, Offer, AvailableCapacity
<1> QED BY <1>1, <1>2 DEF Inv, NotedInv, history

\* The next preference is tried rightly if the one before does not suit.
LEMMA TryNextPreserves ==
    ASSUME Inv, TryNext, pc \in {"centre", "record"},
           ~ improved => (Preferred \in Centres => ~ Suitable(Preferred, req.quantity))
    PROVE  Inv'
<1>1. /\ req \in Selections /\ turn \in DOMAIN req.prefs /\ DOMAIN req.prefs = 1 .. Len(req.prefs)
      /\ Len(req.prefs) \in Nat /\ req.op = "select" /\ pc \in SelectSteps
  BY PreferencesType DEF Inv, RequestInv, SelectSteps
<1>2. UNCHANGED <<data, req, history>> /\ failing' = failing
  BY DEF TryNext, Answer
<1>3. DataInv' /\ NotedInv'
  BY <1>1, <1>2, StepKeeps
<1>4. PICK i \in DOMAIN req.prefs :
        /\ req.prefs[i].priority = turn /\ Preferred = req.prefs[i].centre
        /\ \A j \in DOMAIN req.prefs : req.prefs[j].priority = turn => j = i
  BY <1>1, PreferredType DEF Inv
<1>5. ASSUME ~ improved, NEW j \in DOMAIN req.prefs, req.prefs[j].priority < turn + 1
      PROVE  PassedOver(req, j)
  <2>1. req.prefs[j].priority \in Nat
    BY <1>1, PreferencesType
  <2>4. turn \in Nat
    BY <1>1
  <2>2. CASE req.prefs[j].priority < turn
    BY <1>1, <1>5, <2>2 DEF Inv, SelectInv
  <2>3. CASE req.prefs[j].priority = turn
    BY <1>4, <1>5, <2>3 DEF PassedOver
  <2> QED BY <1>5, <2>1, <2>2, <2>3, <2>4
<1>6. CASE turn < Len(req.prefs)
  <2>1. pc' = "centre" /\ turn' = turn + 1 /\ turn' \in 1 .. Len(req.prefs)
    BY <1>1, <1>6 DEF TryNext
  <2>2. RequestInv'
    BY <1>1, <1>2, <2>1 DEF RequestInv, SelectSteps, EvaluateSteps
  <2>3. SelectInv'
    <3> SUFFICES ASSUME ~ improved', NEW j \in DOMAIN req.prefs, req.prefs[j].priority < turn + 1
                 PROVE  PassedOver(req, j)'
      BY <1>2, <2>1 DEF SelectInv
    <3>1. PassedOver(req, j)
      BY <1>2, <1>5 DEF history
    <3> QED BY <1>2, <3>1 DEF PassedOver, Suitable, Offer, AvailableCapacity, data
  <2>4. EvaluateInv' /\ SelectionWasRight' /\ EligibilityWasRight'
    BY <2>1 DEF EvaluateInv, EvaluateSteps, SelectionWasRight, EligibilityWasRight
  <2> QED BY <1>3, <2>2, <2>3, <2>4 DEF Inv
<1>7. CASE ~ turn < Len(req.prefs)
  <2>1. pc' = "answered" /\ out' = "none"
    BY <1>7 DEF TryNext, Answer
  <2>2. RequestInv'
    BY <1>1, <1>2, <2>1 DEF RequestInv, SelectSteps, EvaluateSteps
  <2>3. ~ improved => "none" \in right
    <3> SUFFICES ASSUME ~ improved PROVE "none" \in RightAnswers(req)
      BY <1>1 DEF Inv, NotedInv
    <3>1. \A j \in DOMAIN req.prefs : PassedOver(req, j)
      <4> SUFFICES ASSUME NEW j \in DOMAIN req.prefs PROVE req.prefs[j].priority < turn + 1
        BY <1>5
      <4>1. req.prefs[j].priority \in 1 .. Len(req.prefs)
        BY <1>1, PreferencesType
      <4> QED BY <1>1, <1>7, <4>1
    <3>2. IsRightSelection(req, "none")
      BY <3>1 DEF IsRightSelection, PassedOver
    <3> QED BY <1>1, <3>2 DEF RightAnswers
  <2>4. SelectionWasRight'
    BY <1>2, <2>1, <2>3 DEF SelectionWasRight, history
  <2>5. SelectInv' /\ EvaluateInv' /\ EligibilityWasRight'
    BY <1>1, <1>2, <2>1
      DEF SelectInv, SelectSteps, EvaluateInv, EvaluateSteps, EligibilityWasRight
  <2> QED BY <1>3, <2>2, <2>4, <2>5 DEF Inv
<1> QED BY <1>6, <1>7

\* An answer other than a selection or a verdict says nothing of the data.
LEMMA RefusalPreserves ==
    ASSUME Inv, NEW a, Answer(a), pc \in SelectSteps \union EvaluateSteps,
           pc \in SelectSteps => a = "PermissionDenied",
           pc \in EvaluateSteps => a = "NotFound"
    PROVE  Inv'
<1>1. UNCHANGED <<data, req, history, failing>> /\ pc' = "answered" /\ out' = a
  BY DEF Answer
<1>2. DataInv' /\ NotedInv'
  BY <1>1, StepKeeps
<1>3. RequestInv' /\ SelectInv' /\ EvaluateInv'
  BY <1>1 DEF Inv, RequestInv, SelectInv, EvaluateInv, SelectSteps, EvaluateSteps
<1>4. SelectionWasRight' /\ EligibilityWasRight'
  <2>1. pc \in SelectSteps => req.op = "select"
    BY SelectionsDiffer DEF Inv, RequestInv
  <2>2. pc \in EvaluateSteps => req.op = "evaluate"
    BY SelectionsDiffer DEF Inv, RequestInv
  <2> QED BY <1>1, <2>1, <2>2 DEF SelectionWasRight, EligibilityWasRight
<1> QED BY <1>2, <1>3, <1>4 DEF Inv

LEMMA GotoKeeps ==
    ASSUME NEW step, Goto(step)
    PROVE  pc' = step /\ UNCHANGED <<data, req, turn, failing, out, history>>
BY DEF Goto

LEMMA SelectReadUserPreserves == ASSUME Inv, SelectReadUser PROVE Inv'
<1>1. pc = "user" /\ pc \in SelectSteps
  BY DEF SelectReadUser, SelectSteps
<1>2. CASE Answer("PermissionDenied")
  BY <1>1, <1>2, RefusalPreserves DEF SelectSteps, EvaluateSteps
<1>3. CASE Goto("centre")
  <2>1. pc' = "centre" /\ UNCHANGED <<data, req, turn, failing, out, history>>
    BY <1>3, GotoKeeps
  <2>2. DataInv' /\ NotedInv'
    BY <1>1, <2>1, StepKeeps
  <2>3. RequestInv' /\ EvaluateInv' /\ SelectionWasRight' /\ EligibilityWasRight'
    BY <1>1, <2>1 DEF Inv, RequestInv, EvaluateInv, SelectSteps, EvaluateSteps,
                      SelectionWasRight, EligibilityWasRight
  <2>4. SelectInv'
    <3> SUFFICES ASSUME ~ improved, NEW j \in DOMAIN req.prefs, req.prefs[j].priority < turn
                 PROVE  PassedOver(req, j)'
      BY <2>1 DEF SelectInv, history
    <3>1. PassedOver(req, j)
      BY <1>1 DEF Inv, SelectInv
    <3> QED BY <2>1, <3>1 DEF PassedOver, Suitable, Offer, AvailableCapacity, data
  <2> QED BY <2>2, <2>3, <2>4 DEF Inv
<1> QED BY <1>2, <1>3 DEF SelectReadUser

LEMMA SelectReadCentrePreserves == ASSUME Inv, SelectReadCentre PROVE Inv'
<1>1. pc = "centre" /\ pc \in SelectSteps
  BY DEF SelectReadCentre, SelectSteps
<1>2. /\ req \in Selections /\ req.op = "select" /\ req.quantity \in Quantities
      /\ \A j \in DOMAIN req.prefs : req.prefs[j].priority \in Nat
  BY <1>1, PreferencesType DEF Inv, RequestInv
<1>3. PICK i \in DOMAIN req.prefs :
        /\ req.prefs[i].priority = turn /\ Preferred = req.prefs[i].centre
        /\ \A j \in DOMAIN req.prefs : req.prefs[j].priority = turn => j = i
  BY <1>1, PreferredType DEF Inv
<1>4. CASE Preferred \notin active
  <2>1. TryNext
    BY <1>4 DEF SelectReadCentre
  <2> QED BY <1>1, <1>4, <2>1, TryNextPreserves DEF Suitable
<1>5. CASE Preferred \in active
  <2>1. pc' = "record" /\ UNCHANGED <<data, req, turn, failing, out, history>>
    BY <1>5, GotoKeeps DEF SelectReadCentre
  <2>2. DataInv' /\ NotedInv'
    BY <1>1, <2>1, StepKeeps
  <2>3. RequestInv' /\ EvaluateInv' /\ SelectionWasRight' /\ EligibilityWasRight'
    BY <1>1, <2>1 DEF Inv, RequestInv, EvaluateInv, SelectSteps, EvaluateSteps,
                      SelectionWasRight, EligibilityWasRight
  <2>4. Preferred \in Centres
    <3>1. Preferred \in Centres \union UnknownIds
      BY <1>2, <1>3, PreferencesType
    <3>2. Preferred \in Rows
      BY <1>5 DEF Inv, DataInv
    <3> QED BY <3>1, <3>2, NullsAssumption
  <2>5. ASSUME ~ improved, NEW j \in DOMAIN req.prefs, req.prefs[j].priority < turn
        PROVE  PassedOver(req, j)
    BY <1>1, <2>5 DEF Inv, SelectInv
  <2>6. ASSUME ~ improved, Offer(record[Preferred]) >= req.quantity PROVE Preferred \in right
    <3>1. Suitable(Preferred, req.quantity)
      BY <1>5, <2>6 DEF Suitable
    <3>2. \A j \in DOMAIN req.prefs : req.prefs[j].priority < req.prefs[i].priority => PassedOver(req, j)
      BY <1>3, <2>5, <2>6
    <3>3. IsRightSelection(req, Preferred)
      BY <1>3, <2>4, <3>1, <3>2 DEF IsRightSelection, PassedOver
    <3>4. Preferred \in RightAnswers(req)
      BY <1>2, <2>4, <3>3 DEF RightAnswers
    <3> QED BY <1>1, <3>4 DEF Inv, NotedInv
  <2>7. SelectInv'
    <3>1. ASSUME ~ improved, NEW j \in DOMAIN req.prefs, req.prefs[j].priority < turn
          PROVE  PassedOver(req, j)'
      <4>1. PassedOver(req, j)
        BY <2>5, <3>1
      <4> QED BY <2>1, <4>1 DEF PassedOver, Suitable, Offer, AvailableCapacity, data
    <3>2. Preferred' = Preferred /\ Offer(record[Preferred])' = Offer(record[Preferred])
      BY <2>1 DEF data, Preferred, Offer, AvailableCapacity
    <3> QED BY <2>1, <2>4, <2>6, <3>1, <3>2 DEF SelectInv, history
  <2> QED BY <2>2, <2>3, <2>7 DEF Inv
<1> QED BY <1>4, <1>5

LEMMA SelectReadRecordPreserves == ASSUME Inv, SelectReadRecord PROVE Inv'
<1>1. pc = "record" /\ pc \in SelectSteps
  BY DEF SelectReadRecord, SelectSteps
<1>2. req \in Selections /\ req.op = "select" /\ req.quantity \in Quantities
  BY <1>1, PreferencesType DEF Inv, RequestInv
<1>3. ASSUME ~ improved PROVE Preferred \in Centres /\ (Offer(record[Preferred]) >= req.quantity => Preferred \in right)
  BY <1>1, <1>3 DEF Inv, SelectInv
<1>4. ASSUME Preferred \in Centres
      PROVE  HasCapacity(record[Preferred], req.quantity) <=> Offer(record[Preferred]) >= req.quantity
  BY <1>2, <1>4, CapacityIsOffer DEF Inv, DataInv
<1>5. CASE HasCapacity(record[Preferred], req.quantity)
  <2>1. UNCHANGED <<data, req, turn, failing, history>> /\ pc' = "answered" /\ out' = Preferred
    BY <1>5 DEF SelectReadRecord, Answer
  <2>2. DataInv' /\ NotedInv'
    BY <1>1, <2>1, StepKeeps
  <2>3. RequestInv' /\ SelectInv' /\ EvaluateInv' /\ EligibilityWasRight'
    BY <1>2, <2>1 DEF RequestInv, SelectInv, EvaluateInv, SelectSteps, EvaluateSteps,
                      EligibilityWasRight
  <2>4. ~ improved => Preferred \in right
    BY <1>3, <1>4, <1>5
  <2>5. SelectionWasRight'
    BY <2>1, <2>4 DEF SelectionWasRight, history
  <2> QED BY <2>2, <2>3, <2>5 DEF Inv
<1>6. CASE ~ HasCapacity(record[Preferred], req.quantity)
  <2>1. TryNext
    BY <1>6 DEF SelectReadRecord
  <2>2. ~ improved => (Preferred \in Centres => ~ Suitable(Preferred, req.quantity))
    BY <1>4, <1>6 DEF Suitable
  <2> QED BY <1>1, <2>1, <2>2, TryNextPreserves
<1> QED BY <1>5, <1>6

LEMMA SelectPreserves == ASSUME Inv, Select PROVE Inv'
BY SelectReadUserPreserves, SelectReadCentrePreserves, SelectReadRecordPreserves DEF Select

LEMMA ViewPreserves == ASSUME Inv, View PROVE Inv'
<1> DEFINE ViewSteps == {"viewCentre", "viewUser", "viewCrop", "viewRecord"}
<1>1. /\ pc \in ViewSteps /\ pc' \in ViewSteps \union {"answered"}
      /\ UNCHANGED <<data, req, turn, failing, history>>
  <2>1. CASE ViewReadCentre
    BY <2>1 DEF ViewReadCentre, Goto, Answer
  <2>2. CASE ViewReadUser
    BY <2>2 DEF ViewReadUser, Goto, Answer
  <2>3. CASE ViewReadCrop
    BY <2>3 DEF ViewReadCrop, Goto, Answer
  <2>4. CASE ViewReadRecord
    BY <2>4 DEF ViewReadRecord, Goto, Answer
  <2> QED BY <2>1, <2>2, <2>3, <2>4 DEF View
<1>2. req \in Views /\ req.op = "view"
  BY <1>1, SelectionsDiffer DEF Inv, RequestInv
<1>3. DataInv'
  BY <1>1 DEF Inv, DataInv, data
<1>4. RequestInv' /\ NotedInv' /\ SelectInv' /\ EvaluateInv'
  BY <1>1, <1>2 DEF RequestInv, NotedInv, SelectInv, EvaluateInv, SelectSteps, EvaluateSteps
<1>5. SelectionWasRight' /\ EligibilityWasRight'
  BY <1>1, <1>2 DEF SelectionWasRight, EligibilityWasRight
<1> QED BY <1>3, <1>4, <1>5 DEF Inv

\* A row is loaded: if it is inactive, so it stays until something improves.
LEMMA LoadPreserves ==
    ASSUME Inv, NEW step, NEW row, NEW next, Load(step, row, next), req \in Evaluations,
           \/ step = "farmer" /\ row = req.farmer /\ next = "evalCentre"
           \/ step = "evalCentre" /\ row = req.centre /\ next = "crop"
           \/ step = "crop" /\ row = req.crop /\ next = "holdings"
    PROVE  Inv'
<1>1. pc = step /\ pc \in EvaluateSteps
  BY DEF Load, EvaluateSteps
<1>2. CASE row \in UnknownIds
  <2>1. Answer("NotFound")
    BY <1>2 DEF Load
  <2> QED BY <1>1, <2>1, RefusalPreserves DEF SelectSteps, EvaluateSteps
<1>3. CASE row \notin UnknownIds
  <2>1. pc' = next /\ UNCHANGED <<data, req, turn, out, history>>
    BY <1>3 DEF Load
  <2>2. failing' <=> (failing \/ row \notin active)
    BY <1>3 DEF Load
  <2>3. DataInv' /\ NotedInv'
    BY <1>1, <2>1, StepKeeps
  <2>4. RequestInv' /\ SelectInv' /\ SelectionWasRight' /\ EligibilityWasRight'
    BY <1>1, <2>1 DEF RequestInv, SelectInv, SelectSteps, EvaluateSteps,
                      SelectionWasRight, EligibilityWasRight
  <2>5. EvaluateInv'
    <3> SUFFICES ASSUME ~ improved
                 PROVE  /\ failing' => ~ IsEligible(req)
                        /\ ~ failing' /\ ActiveHoldings(req.farmer) # {} =>
                            /\ next = "evalCentre" /\ {req.centre, req.crop} \subseteq active => "ELIGIBLE" \in right
                            /\ next = "crop" /\ req.crop \in active => "ELIGIBLE" \in right
                            /\ next = "holdings" => "ELIGIBLE" \in right
      BY <2>1 DEF EvaluateInv, IsEligible, ActiveHoldings, data, history
    <3>1. /\ failing => ~ IsEligible(req)
          /\ ~ failing /\ ActiveHoldings(req.farmer) # {} =>
              /\ pc = "evalCentre" /\ {req.centre, req.crop} \subseteq active => "ELIGIBLE" \in right
              /\ pc = "crop" /\ req.crop \in active => "ELIGIBLE" \in right
      BY <1>1 DEF Inv, EvaluateInv
    <3>2. failing' => ~ IsEligible(req)
      BY <2>2, <3>1 DEF IsEligible
    <3>3. ASSUME ~ failing', ActiveHoldings(req.farmer) # {}
          PROVE  /\ next = "evalCentre" /\ {req.centre, req.crop} \subseteq active => "ELIGIBLE" \in right
                 /\ next = "crop" /\ req.crop \in active => "ELIGIBLE" \in right
                 /\ next = "holdings" => "ELIGIBLE" \in right
      <4>1. ~ failing /\ row \in active
        BY <2>2, <3>3
      <4>2. ASSUME step = "farmer", {req.centre, req.crop} \subseteq active
            PROVE  "ELIGIBLE" \in right
        <5>1. IsEligible(req)
          BY <3>3, <4>1, <4>2 DEF IsEligible
        <5>2. RightAnswers(req) = {"ELIGIBLE"}
          BY <5>1, SelectionsDiffer DEF RightAnswers
        <5> QED BY <1>1, <5>2 DEF Inv, NotedInv
      <4> QED BY <1>1, <3>1, <3>3, <4>1, <4>2
    <3> QED BY <3>2, <3>3
  <2> QED BY <2>3, <2>4, <2>5 DEF Inv
<1> QED BY <1>2, <1>3

LEMMA EvaluateRulesPreserves == ASSUME Inv, EvaluateRules PROVE Inv'
<1>1. /\ pc = "holdings" /\ pc \in EvaluateSteps
      /\ pc' = "answered" /\ UNCHANGED <<data, req, turn, failing, history>>
      /\ out' = IF failing \/ NoHolding THEN "REJECTED" ELSE "ELIGIBLE"
  BY DEF EvaluateRules, Answer, EvaluateSteps
<1>2. req \in Evaluations /\ req.op = "evaluate"
  BY <1>1, SelectionsDiffer DEF Inv, RequestInv
<1>3. DataInv' /\ NotedInv'
  BY <1>1, StepKeeps
<1>4. RequestInv' /\ SelectInv' /\ EvaluateInv' /\ SelectionWasRight'
  BY <1>1, <1>2 DEF RequestInv, SelectInv, EvaluateInv, SelectSteps, EvaluateSteps, SelectionWasRight
<1>5. EligibilityWasRight'
  <2> SUFFICES ASSUME ~ improved PROVE out' \in right
    BY <1>1 DEF EligibilityWasRight, history
  <2>1. CASE failing \/ NoHolding
    <3>1. ~ IsEligible(req)
      BY <1>1, <2>1 DEF Inv, EvaluateInv, IsEligible, NoHolding
    <3>2. RightAnswers(req) = {"REJECTED"}
      BY <1>2, <3>1 DEF RightAnswers
    <3> QED BY <1>1, <2>1, <3>2 DEF Inv, NotedInv
  <2>2. CASE ~ (failing \/ NoHolding)
    BY <1>1, <2>2 DEF Inv, EvaluateInv, NoHolding
  <2> QED BY <2>1, <2>2
<1> QED BY <1>3, <1>4, <1>5 DEF Inv

LEMMA EvaluatePreserves == ASSUME Inv, Evaluate PROVE Inv'
<1>1. ASSUME pc \in EvaluateSteps PROVE req \in Evaluations
  BY <1>1 DEF Inv, RequestInv
<1>2. CASE LoadFarmer
  <2>1. pc \in EvaluateSteps /\ Load("farmer", req.farmer, "evalCentre")
    BY <1>2 DEF LoadFarmer, Load, EvaluateSteps
  <2> QED BY <1>1, <2>1, LoadPreserves
<1>3. CASE LoadCentre
  <2>1. pc \in EvaluateSteps /\ Load("evalCentre", req.centre, "crop")
    BY <1>3 DEF LoadCentre, Load, EvaluateSteps
  <2> QED BY <1>1, <2>1, LoadPreserves
<1>4. CASE LoadCrop
  <2>1. pc \in EvaluateSteps /\ Load("crop", req.crop, "holdings")
    BY <1>4 DEF LoadCrop, Load, EvaluateSteps
  <2> QED BY <1>1, <2>1, LoadPreserves
<1> QED BY <1>2, <1>3, <1>4, EvaluateRulesPreserves DEF Evaluate

LEMMA FinishPreserves == ASSUME Inv, Finish PROVE Inv'
<1>1. pc' = "idle" /\ failing' = FALSE /\ UNCHANGED data
  BY DEF Finish
<1> QED BY <1>1 DEF Inv, DataInv, data, RequestInv, NotedInv, SelectInv, EvaluateInv, SelectSteps,
                    EvaluateSteps, SelectionWasRight, EligibilityWasRight

LEMMA InitImpliesInv == Init => Inv
<1> SUFFICES ASSUME Init PROVE Inv
  OBVIOUS
<1>1. pc = "idle" /\ failing = FALSE /\ active = Rows /\ record \in [Centres -> CapacityRecords \union {NoRecord}]
  BY DEF Init
<1> QED BY <1>1 DEF Inv, DataInv, RequestInv, NotedInv, SelectInv, EvaluateInv, SelectSteps,
                    EvaluateSteps, SelectionWasRight, EligibilityWasRight

LEMMA StutteringPreserves == ASSUME Inv, UNCHANGED vars PROVE Inv'
<1>1. UNCHANGED <<active, record, pc, req, turn, failing, out, right, improved>>
  BY DEF vars, data, request, history
<1>2. DataInv' /\ RequestInv'
  BY <1>1 DEF Inv, DataInv, RequestInv
<1>3. NotedInv'
  <2>1. RightAnswers(req)' = RightAnswers(req)
    BY <1>1 DEF RightAnswers, IsRightSelection, IsEligible, ActiveHoldings, Suitable, Offer, AvailableCapacity
  <2> QED BY <1>1, <2>1 DEF Inv, NotedInv
<1>4. SelectInv'
  <2> SUFFICES ASSUME pc \in SelectSteps, ~ improved
               PROVE  /\ \A j \in DOMAIN req.prefs : req.prefs[j].priority < turn => PassedOver(req, j)'
                      /\ pc = "record" =>
                          /\ Preferred' \in Centres
                          /\ Offer(record[Preferred])' >= req.quantity => Preferred' \in right
    BY <1>1 DEF SelectInv
  <2>1. ASSUME NEW j \in DOMAIN req.prefs, req.prefs[j].priority < turn
        PROVE  PassedOver(req, j)'
    <3>1. PassedOver(req, j)
      BY <2>1 DEF Inv, SelectInv
    <3> QED BY <1>1, <3>1 DEF PassedOver, Suitable, Offer, AvailableCapacity
  <2>2. Preferred' = Preferred /\ Offer(record[Preferred])' = Offer(record[Preferred])
    BY <1>1 DEF Preferred, Offer, AvailableCapacity
  <2>3. pc = "record" =>
          Preferred \in Centres /\ (Offer(record[Preferred]) >= req.quantity => Preferred \in right)
    BY DEF Inv, SelectInv
  <2> QED BY <2>1, <2>2, <2>3
<1>5. EvaluateInv' /\ SelectionWasRight' /\ EligibilityWasRight'
  BY <1>1 DEF Inv, EvaluateInv, IsEligible, ActiveHoldings, SelectionWasRight, EligibilityWasRight
<1> QED BY <1>2, <1>3, <1>4, <1>5 DEF Inv

\* The strengthening of the two properties below holds in every state.
THEOREM Invariance == Spec => []Inv
<1>1. Inv /\ [Next]_vars => Inv'
  <2> SUFFICES ASSUME Inv, [Next]_vars PROVE Inv'
    OBVIOUS
  <2>1. CASE Changes
    BY <2>1, ChangesPreserve
  <2>2. CASE UNCHANGED vars
    BY <2>2, StutteringPreserves
  <2> QED BY <2>1, <2>2, SubmitPreserves, SelectPreserves, ViewPreserves, EvaluatePreserves,
             FinishPreserves DEF Next, Changes
<1> QED BY InitImpliesInv, <1>1, PTL DEF Spec

\* select_priority_centre: unless something got better meanwhile, the centre selected was
\* the first in the farmer's order that suited at some moment since he asked, and none
\* was selected only if at some moment none suited.
THEOREM SelectionsWereRight == Spec => []SelectionWasRight
<1>1. Inv => SelectionWasRight
  BY DEF Inv
<1> QED BY Invariance, <1>1, PTL

\* evaluate_eligibility: unless something got better meanwhile, the verdict was that of
\* the four rules on the rows as they all were at one moment since the evaluation began.
THEOREM EligibilitiesWereRight == Spec => []EligibilityWasRight
<1>1. Inv => EligibilityWasRight
  BY DEF Inv
<1> QED BY Invariance, <1>1, PTL
=============================================================================
