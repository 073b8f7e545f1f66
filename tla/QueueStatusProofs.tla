-------------------------- MODULE QueueStatusProofs --------------------------
(***************************************************************************)
(* What a status poll promises, for any number of farmers, counters and     *)
(* tokens: each statement reads something of the line that only grows, and  *)
(* an answer is therefore bounded by the line as it is now.                 *)
(***************************************************************************)
EXTENDS QueueStatus, FiniteSetTheorems, SequenceTheorems, WellFoundedInduction, TLAPS

Steps == {"start", "open", "counts", "called", "issued", "answer"}

\* Tokens are numbered as they come, and none was called in the future.
LineInv ==
    /\ open \in BOOLEAN
    /\ line \in Seq(Rows)
    /\ clock \in Nat \ {0}
    /\ \A i \in DOMAIN line : line[i].seq = i /\ line[i].called < clock

\* What was counted once, the line has not lost since.
CountedOf(counts) ==
    /\ Total(counts) <= Len(line)
    /\ Over(counts) <= Over(Counts)

Answers == [open: BOOLEAN, counts: [Statuses -> Nat], called: Nat, issued: Nat]

\* An answer fits together and does not exceed the line.
AnswerInv ==
    Answered =>
        /\ answer \in Answers
        /\ CountedOf(answer.counts)
        /\ Total(answer.counts) <= answer.issued
        /\ answer.called <= answer.issued
        /\ answer.issued <= Len(line)

\* What the poll under way has read does not exceed the line, and is no less than
\* the answer before.
CountsInv ==
    pc \in {"called", "issued", "answer"} =>
        /\ CountedOf(seen.counts)
        /\ Answered => /\ Total(answer.counts) <= Total(seen.counts)
                       /\ Over(answer.counts) <= Over(seen.counts)
CalledInv == pc \in {"issued", "answer"} => seen.called <= Len(line)
IssuedInv ==
    pc = "answer" =>
        /\ seen.issued <= Len(line)
        /\ Total(seen.counts) <= seen.issued
        /\ seen.called <= seen.issued
        /\ Answered => answer.issued <= seen.issued

PollInv ==
    /\ pc \in Steps
    /\ seen \in Answers
    /\ CountsInv
    /\ CalledInv
    /\ IssuedInv

Inv == LineInv /\ AnswerInv /\ PollInv

-----------------------------------------------------------------------------
(* What the statements return                                              *)

LEMMA TokensAreFinite ==
    ASSUME LineInv, NEW A
    PROVE  IsFiniteSet(TokensIn(A)) /\ Cardinality(TokensIn(A)) \in Nat
<1>1. DOMAIN line = 1 .. Len(line) /\ Len(line) \in Nat
  BY LenProperties DEF LineInv
<1>2. IsFiniteSet(DOMAIN line)
  BY <1>1, FS_Interval
<1>3. TokensIn(A) \in SUBSET (DOMAIN line)
  BY DEF TokensIn
<1>4. IsFiniteSet(TokensIn(A))
  BY <1>2, <1>3, FS_Subset
<1> QED
  BY <1>4, FS_CardinalityType

\* Tokens of different statuses are different tokens.
LEMMA CountedApart ==
    ASSUME LineInv, NEW A, NEW B, A \cap B = {}
    PROVE  Cardinality(TokensIn(A \cup B)) = Cardinality(TokensIn(A)) + Cardinality(TokensIn(B))
<1>1. /\ IsFiniteSet(TokensIn(A)) /\ IsFiniteSet(TokensIn(B))
      /\ Cardinality(TokensIn(A)) \in Nat /\ Cardinality(TokensIn(B)) \in Nat
  BY TokensAreFinite
<1>2. TokensIn(A \cup B) = TokensIn(A) \cup TokensIn(B)
  BY DEF TokensIn
<1>3. TokensIn(A) \cap TokensIn(B) = {}
  BY DEF TokensIn
<1>4. Cardinality(TokensIn(A) \cap TokensIn(B)) = 0
  BY <1>3, FS_EmptySet
<1>5. Cardinality(TokensIn(A) \cup TokensIn(B))
        = Cardinality(TokensIn(A)) + Cardinality(TokensIn(B)) - Cardinality(TokensIn(A) \cap TokensIn(B))
  BY <1>1, FS_Union
<1> QED
  <2> DEFINE a == Cardinality(TokensIn(A))
             b == Cardinality(TokensIn(B))
             c == Cardinality(TokensIn(A) \cap TokensIn(B))
             n == Cardinality(TokensIn(A) \cup TokensIn(B))
  <2>1. a \in Nat /\ b \in Nat /\ c = 0 /\ n = a + b - c
    BY <1>1, <1>4, <1>5
  <2>2. SUFFICES n = a + b
    BY <1>2
  <2> HIDE DEF a, b, c, n
  <2> QED BY <2>1

LEMMA CountsAreNumbers == LineInv => Counts \in [Statuses -> Nat]
BY TokensAreFinite DEF Counts

\* The GROUP BY counts every token once.
LEMMA EveryTokenIsCounted == ASSUME LineInv PROVE Total(Counts) = Len(line)
<1> DEFINE n(A) == Cardinality(TokensIn(A))
           s2 == {"CHECK_IN"} \cup {"TOKEN"}
           s3 == s2 \cup {"WAITING"}
           s4 == s3 \cup {"CALLED"}
           s5 == s4 \cup {"PROCESSING"}
           s6 == s5 \cup {"COMPLETED"}
           s7 == s6 \cup {"CANCELLED"}
<1>1. n(s2) = n({"CHECK_IN"}) + n({"TOKEN"})
  BY CountedApart
<1>2. n(s3) = n(s2) + n({"WAITING"})
  BY CountedApart
<1>3. n(s4) = n(s3) + n({"CALLED"})
  BY CountedApart
<1>4. n(s5) = n(s4) + n({"PROCESSING"})
  BY CountedApart
<1>5. n(s6) = n(s5) + n({"COMPLETED"})
  BY CountedApart
<1>6. n(s7) = n(s6) + n({"CANCELLED"})
  BY CountedApart
<1>7. s7 = Statuses
  BY DEF Statuses
<1>8. DOMAIN line = 1 .. Len(line) /\ Len(line) \in Nat
  BY LenProperties DEF LineInv
<1>9. TokensIn(s7) = 1 .. Len(line)
  <2>1. \A i \in DOMAIN line : line[i] \in Rows
    BY <1>8, ElementOfSeq DEF LineInv
  <2> QED BY <2>1, <1>7, <1>8 DEF TokensIn, Rows
<1>10. n(s7) = Len(line)
  <2>1. \A k \in Nat : Cardinality(1 .. k) = k
    BY FS_Interval
  <2>2. Cardinality(1 .. Len(line)) = Len(line)
    BY <1>8, <2>1
  <2> QED BY <2>2, <1>9
<1>11. \A status \in Statuses : Counts[status] = n({status})
  BY DEF Counts
<1>12. \A A : n(A) \in Nat
  BY TokensAreFinite
<1> HIDE DEF n, s2, s3, s4, s5, s6, s7
<1>13. /\ Counts["CHECK_IN"] = n({"CHECK_IN"}) /\ Counts["TOKEN"] = n({"TOKEN"})
       /\ Counts["WAITING"] = n({"WAITING"}) /\ Counts["CALLED"] = n({"CALLED"})
       /\ Counts["PROCESSING"] = n({"PROCESSING"}) /\ Counts["COMPLETED"] = n({"COMPLETED"})
       /\ Counts["CANCELLED"] = n({"CANCELLED"})
  BY <1>11 DEF Statuses
<1> QED
  BY <1>1, <1>2, <1>3, <1>4, <1>5, <1>6, <1>10, <1>12, <1>13 DEF Total

LEMMA LastIssuedIsLast == ASSUME LineInv PROVE LastIssued = Len(line)
<1>1. DOMAIN line = 1 .. Len(line) /\ Len(line) \in Nat
  BY LenProperties DEF LineInv
<1>2. {line[i].seq : i \in DOMAIN line} \union {0} = 0 .. Len(line)
  BY <1>1 DEF LineInv
<1> QED
  BY <1>1, <1>2 DEF LastIssued, Max

\* Of the tokens shown one was called last, and its number has been issued.
LEMMA CalledIsIssued == ASSUME LineInv PROVE CurrentCalled \in 0 .. Len(line)
<1> DEFINE shown == TokensIn({"CALLED", "PROCESSING"})
           last == CHOOSE i \in shown : \A j \in shown : line[j].called <= line[i].called
           ages == {clock - line[i].called : i \in shown}
<1>1. DOMAIN line = 1 .. Len(line) /\ Len(line) \in Nat
  BY LenProperties DEF LineInv
<1>2. shown \subseteq DOMAIN line
  BY DEF TokensIn
<1>3. \A i \in shown : line[i].called \in Nat /\ line[i].seq = i /\ line[i].called < clock
  <2>1. \A i \in DOMAIN line : line[i] \in Rows
    BY <1>1, ElementOfSeq DEF LineInv
  <2> QED BY <2>1, <1>2 DEF LineInv, Rows
<1>4. CASE shown = {}
  BY <1>1, <1>4 DEF CurrentCalled
<1>5. CASE shown # {}
  <2> DEFINE before == OpToRel(<, Nat)
  <2>1. ages \subseteq Nat /\ ages # {}
    BY <1>3, <1>5 DEF LineInv
  <2>2. IsWellFoundedOn(before, Nat)
    BY NatLessThanWellFounded
  <2>3. \A i, j \in Nat : j < i => <<j, i>> \in before
    BY DEF OpToRel
  <2>4. PICK a \in ages : \A b \in ages : <<b, a>> \notin before
    <3> HIDE DEF before, ages
    <3> QED BY <2>1, <2>2, WFMin
  <2> HIDE DEF before
  <2>5. \A b \in ages : ~ (b < a)
    BY <2>1, <2>3, <2>4
  <2>6. PICK i \in shown : a = clock - line[i].called
    BY <2>4
  <2>7. \A j \in shown : line[j].called <= line[i].called
    <3> SUFFICES ASSUME NEW j \in shown PROVE line[j].called <= line[i].called
      OBVIOUS
    <3>1. ~ (clock - line[j].called < clock - line[i].called)
      BY <2>5, <2>6
    <3> QED BY <3>1, <1>3 DEF LineInv
  <2>8. last \in shown
    BY <2>7
  <2>9. CurrentCalled = line[last].seq
    BY <1>5 DEF CurrentCalled
  <2> HIDE DEF last, shown
  <2> QED BY <1>1, <1>2, <1>3, <2>8, <2>9
<1> QED BY <1>4, <1>5

-----------------------------------------------------------------------------
(* What the queue does under the poll                                      *)

\* The line grows only, and a token that is over stays so.
LineKeeps ==
    /\ DOMAIN line \subseteq DOMAIN line'
    /\ Len(line) <= Len(line')
    /\ \A i \in DOMAIN line : line[i].status \in {"COMPLETED", "CANCELLED"} => line'[i].status = line[i].status

LEMMA QueueSteps == ASSUME LineInv, UseQueue PROVE LineInv' /\ LineKeeps
<1>1. DOMAIN line = 1 .. Len(line) /\ Len(line) \in Nat
  BY LenProperties DEF LineInv
<1>2. \A i \in DOMAIN line : line[i] \in Rows
  BY <1>1, ElementOfSeq DEF LineInv
<1>3. ASSUME NEW f \in Farmers, Queue!Join(f) PROVE LineInv' /\ LineKeeps
  <2> DEFINE row == NewRow(f, Len(line) + 1, Len(line) + 1)
  <2>1. row \in Rows /\ row.seq = Len(line) + 1 /\ row.called = 0
    BY <1>1 DEF NewRow, Rows, Statuses
  <2>2. line' = Append(line, row) /\ open' = open /\ clock' = clock
    BY <1>3 DEF Queue!Join, Queue!NewRow, NewRow
  <2> HIDE DEF row
  <2>3. /\ line' \in Seq(Rows) /\ Len(line') = Len(line) + 1
        /\ \A i \in 1 .. Len(line) : line'[i] = line[i]
        /\ line'[Len(line) + 1] = row
    BY <2>1, <2>2, AppendProperties DEF LineInv
  <2>4. DOMAIN line' = 1 .. Len(line) + 1
    BY <2>3, LenProperties
  <2>5. 0 < clock
    BY <1>3 DEF LineInv
  <2> QED BY <1>1, <1>2, <2>1, <2>2, <2>3, <2>4, <2>5 DEF LineInv, LineKeeps
<1>4. ASSUME NEW i \in DOMAIN line, NEW row \in Rows, line' = [line EXCEPT ![i] = row],
             row.seq = i, row.called < clock', clock' \in Nat, clock <= clock', open' = open,
             line[i].status \notin {"COMPLETED", "CANCELLED"}
      PROVE  LineInv' /\ LineKeeps
  <2>1. /\ line' \in Seq(Rows) /\ Len(line') = Len(line)
        /\ \A j \in 1 .. Len(line) : line'[j] = IF j = i THEN row ELSE line[j]
    BY <1>1, <1>4, ExceptSeq DEF LineInv
  <2>2. DOMAIN line' = DOMAIN line
    BY <1>4
  <2> QED BY <1>1, <1>2, <1>4, <2>1, <2>2 DEF LineInv, LineKeeps, Rows
<1>5. ASSUME NEW i \in DOMAIN line, NEW c \in Counters \union {NoCounter}, Queue!CallNext(i, c)
      PROVE  LineInv' /\ LineKeeps
  <2>1. /\ CalledRow(line[i], c, clock) \in Rows
        /\ CalledRow(line[i], c, clock).seq = i
        /\ CalledRow(line[i], c, clock).called = clock
    BY <1>2 DEF CalledRow, Rows, Statuses, LineInv
  <2>2. /\ line' = [line EXCEPT ![i] = CalledRow(line[i], c, clock)]
        /\ clock' = clock + 1 /\ open' = open /\ line[i].status = "WAITING"
    BY <1>5 DEF Queue!CallNext, Queue!IsWaiting, Queue!CalledRow, CalledRow
  <2>3. clock \in Nat /\ clock < clock' /\ clock' \in Nat /\ clock <= clock'
    BY <2>2 DEF LineInv
  <2> QED BY <2>1, <2>2, <2>3, <1>4
<1>6. ASSUME NEW i \in DOMAIN line, NEW op \in TokenOps, Queue!Move(i, op) PROVE LineInv' /\ LineKeeps
  <2>1. ToStatus(op) \in Statuses /\ FromStatus(op) \notin {"COMPLETED", "CANCELLED"}
    BY DEF TokenOps, ToStatus, FromStatus, Statuses
  <2>2. /\ MovedRow(line[i], ToStatus(op)) \in Rows
        /\ MovedRow(line[i], ToStatus(op)).seq = i
        /\ MovedRow(line[i], ToStatus(op)).called = line[i].called
    BY <1>2, <2>1 DEF MovedRow, Rows, LineInv
  <2>3. /\ line' = [line EXCEPT ![i] = MovedRow(line[i], ToStatus(op))]
        /\ clock' = clock /\ open' = open /\ line[i].status = FromStatus(op)
    BY <1>6 DEF Queue!Move, Queue!FromStatus, Queue!ToStatus, Queue!MovedRow,
       FromStatus, ToStatus, MovedRow
  <2>4. clock' \in Nat /\ line[i].called < clock' /\ clock <= clock'
    BY <2>3 DEF LineInv
  <2> QED BY <2>1, <2>2, <2>3, <2>4, <1>4
<1>7. CASE Queue!SetOpen
  BY <1>1, <1>7 DEF Queue!SetOpen, LineInv, LineKeeps
<1> QED
  BY <1>3, <1>5, <1>6, <1>7 DEF UseQueue, Queue!Next, Queue!TokenOps, TokenOps

LEMMA OverNeverFalls ==
    ASSUME LineInv, LineInv', LineKeeps PROVE Over(Counts) <= Over(Counts')
<1>1. \A status \in {"COMPLETED", "CANCELLED"} : Counts[status] <= Counts'[status]
  <2> SUFFICES ASSUME NEW status \in {"COMPLETED", "CANCELLED"}
               PROVE  Counts[status] <= Counts'[status]
    OBVIOUS
  <2>1. TokensIn({status}) \in SUBSET TokensIn({status})'
    BY DEF TokensIn, LineKeeps
  <2>2. IsFiniteSet(TokensIn({status})')
    <3>1. DOMAIN line' = 1 .. Len(line') /\ Len(line') \in Nat
      BY LenProperties DEF LineInv
    <3>2. IsFiniteSet(DOMAIN line')
      BY <3>1, FS_Interval
    <3>3. TokensIn({status})' \in SUBSET (DOMAIN line')
      BY DEF TokensIn
    <3> QED BY <3>2, <3>3, FS_Subset
  <2>3. Cardinality(TokensIn({status})) <= Cardinality(TokensIn({status})')
    BY <2>1, <2>2, FS_Subset
  <2> QED BY <2>3 DEF Counts, Statuses
<1>2. Counts \in [Statuses -> Nat] /\ Counts' \in [Statuses -> Nat]
  <2>1. (LineInv => Counts \in [Statuses -> Nat])'
    BY CountsAreNumbers, PTL
  <2> QED BY <2>1, CountsAreNumbers
<1>3. \A n, m \in [Statuses -> Nat] :
        n["COMPLETED"] <= m["COMPLETED"] /\ n["CANCELLED"] <= m["CANCELLED"] => Over(n) <= Over(m)
  BY DEF Over, Statuses
<1>4. Over(Counts)' = Over(Counts')
  BY DEF Over
<1> QED BY <1>1, <1>2, <1>3

\* What did not exceed the line before a step does not exceed it afterwards.
LEMMA CountedStays ==
    ASSUME LineInv, LineInv', LineKeeps, NEW counts \in [Statuses -> Nat], CountedOf(counts)
    PROVE  Total(counts) <= Len(line') /\ Over(counts) <= Over(Counts')
<1>1. Over(Counts) <= Over(Counts') /\ Len(line) <= Len(line')
  BY OverNeverFalls DEF LineKeeps
<1>2. Counts \in [Statuses -> Nat] /\ Counts' \in [Statuses -> Nat]
  <2>1. (LineInv => Counts \in [Statuses -> Nat])'
    BY CountsAreNumbers, PTL
  <2> QED BY <2>1, CountsAreNumbers
<1>3. \A n \in [Statuses -> Nat] : Over(n) \in Nat /\ Total(n) \in Nat
  BY DEF Over, Total, Statuses
<1>4. Len(line) \in Nat /\ Len(line') \in Nat
  BY LenProperties DEF LineInv
<1>5. /\ Over(counts) \in Nat /\ Total(counts) \in Nat
      /\ Over(Counts) \in Nat /\ Over(Counts') \in Nat
  BY <1>2, <1>3
<1>6. Total(counts) <= Len(line) /\ Over(counts) <= Over(Counts)
  BY DEF CountedOf
<1> QED BY <1>1, <1>4, <1>5, <1>6

-----------------------------------------------------------------------------
(* The invariant                                                           *)

LEMMA InitEstablishesInv == ASSUME Init PROVE Inv
<1>1. LineInv
  BY DEF Init, Queue!Init, LineInv
<1>2. ~ Answered
  BY DEF Init, Answered
<1>3. seen \in Answers /\ pc = "start"
  BY DEF Init, Nothing, Answers
<1> QED
  BY <1>1, <1>2, <1>3 DEF Inv, AnswerInv, PollInv, CountsInv, CalledInv, IssuedInv, Steps

\* Where the queue rests, so does what can be counted.
LEMMA QueueRests == ASSUME LineInv, UNCHANGED queue PROVE LineInv' /\ Counts' = Counts
BY DEF LineInv, queue, Counts, TokensIn

LEMMA TotalsAreNumbers ==
    ASSUME NEW counts \in [Statuses -> Nat] PROVE Total(counts) \in Nat /\ Over(counts) \in Nat
BY DEF Total, Over, Statuses

LEMMA StartPollKeepsInv == ASSUME Inv, StartPoll PROVE Inv'
<1>1. /\ UNCHANGED queue /\ seen' = seen /\ answer' = answer /\ pc' = "open"
  BY DEF StartPoll, After
<1>2. LineInv' /\ Counts' = Counts
  BY <1>1, QueueRests DEF Inv
<1> QED
  BY <1>1, <1>2 DEF Inv, AnswerInv, Answered, CountedOf, PollInv, CountsInv, CalledInv, IssuedInv,
     Steps, queue, Over, Total

LEMMA ReadNextKeepsInv == ASSUME Inv, ReadNext PROVE Inv'
<1>1. UNCHANGED queue /\ answer' = answer
  BY DEF ReadNext
<1>2. LineInv' /\ Counts' = Counts /\ line' = line
  BY <1>1, QueueRests DEF Inv, queue
<1>3. AnswerInv'
  BY <1>1, <1>2 DEF Inv, AnswerInv, Answered, CountedOf, Over, Total
<1>4. /\ Counts \in [Statuses -> Nat] /\ Total(Counts) = Len(line)
      /\ LastIssued = Len(line) /\ CurrentCalled \in 0 .. Len(line) /\ Len(line) \in Nat
  BY CountsAreNumbers, EveryTokenIsCounted, LastIssuedIsLast, CalledIsIssued, LenProperties
     DEF Inv, LineInv
<1>5. pc \in {"open", "counts", "called", "issued"}
  BY DEF ReadNext, Statement
<1>6. seen \in Answers
  BY DEF Inv, PollInv
<1>7. Answered => /\ answer.counts \in [Statuses -> Nat] /\ answer.issued \in Nat
                  /\ Total(answer.counts) \in Nat /\ Over(answer.counts) \in Nat
                  /\ CountedOf(answer.counts) /\ answer.issued <= Len(line)
  BY TotalsAreNumbers DEF Inv, AnswerInv, Answers
<1>8. Over(Counts) \in Nat
  BY <1>4, TotalsAreNumbers
<1>9. Answered' = Answered
  BY <1>1 DEF Answered
<1>10. CASE pc = "open"
  <2>1. pc' = "counts" /\ seen' = [seen EXCEPT !.open = open]
    BY <1>10 DEF ReadNext, After, Statement
  <2>2. seen' \in Answers
    BY <2>1, <1>6 DEF Answers, Inv, LineInv
  <2> QED
    BY <1>2, <1>3, <2>1, <2>2 DEF Inv, PollInv, CountsInv, CalledInv, IssuedInv, Steps
<1>11. CASE pc = "counts"
  <2>1. pc' = "called" /\ seen' = [seen EXCEPT !.counts = Counts]
    BY <1>11 DEF ReadNext, After, Statement
  <2>2. seen' \in Answers /\ seen'.counts = Counts
    BY <2>1, <1>4, <1>6 DEF Answers
  <2>3. CountsInv'
    <3>1. CountedOf(seen.counts)'
      BY <1>2, <1>4, <1>8, <2>2 DEF CountedOf
    <3>2. Answered' => /\ Total(answer.counts)' <= Total(seen.counts)'
                       /\ Over(answer.counts)' <= Over(seen.counts)'
      BY <1>1, <1>4, <1>7, <1>9, <2>2 DEF CountedOf
    <3> QED BY <3>1, <3>2 DEF CountsInv
  <2> QED
    BY <1>2, <1>3, <2>1, <2>2, <2>3 DEF Inv, PollInv, CalledInv, IssuedInv, Steps
<1>12. CASE pc = "called"
  <2>1. pc' = "issued" /\ seen' = [seen EXCEPT !.called = CurrentCalled]
    BY <1>12 DEF ReadNext, After, Statement
  <2>2. /\ seen' \in Answers /\ seen'.called = CurrentCalled /\ seen'.counts = seen.counts
    <3>1. CurrentCalled \in Nat
      BY <1>4
    <3> QED BY <2>1, <3>1, <1>6 DEF Answers
  <2>3. CountsInv'
    BY <1>1, <1>2, <1>9, <1>12, <2>2 DEF Inv, PollInv, CountsInv, CountedOf, Total, Over
  <2>4. CalledInv'
    BY <1>2, <1>4, <2>2 DEF CalledInv
  <2> QED
    BY <1>2, <1>3, <2>1, <2>2, <2>3, <2>4 DEF Inv, PollInv, IssuedInv, Steps
<1>13. CASE pc = "issued"
  <2>1. pc' = "answer" /\ seen' = [seen EXCEPT !.issued = LastIssued]
    BY <1>13 DEF ReadNext, After, Statement
  <2>2. /\ seen' \in Answers /\ seen'.called = seen.called /\ seen'.counts = seen.counts
        /\ seen'.issued = Len(line)
    BY <2>1, <1>4, <1>6 DEF Answers
  <2>3. CountsInv'
    BY <1>1, <1>2, <1>9, <1>13, <2>2 DEF Inv, PollInv, CountsInv, CountedOf, Total, Over
  <2>4. CalledInv'
    BY <1>2, <1>13, <2>2 DEF Inv, PollInv, CalledInv
  <2>5. IssuedInv'
    <3>1. Total(seen.counts) <= Len(line) /\ seen.called <= Len(line)
      BY <1>13 DEF Inv, PollInv, CountsInv, CountedOf, CalledInv
    <3>2. Total(seen.counts)' = Total(seen.counts)
      BY <2>2 DEF Total
    <3> QED BY <1>1, <1>2, <1>4, <1>7, <1>9, <2>2, <3>1, <3>2 DEF IssuedInv
  <2> QED
    BY <1>2, <1>3, <2>1, <2>2, <2>3, <2>4, <2>5 DEF Inv, PollInv, Steps
<1> QED
  BY <1>5, <1>10, <1>11, <1>12, <1>13

LEMMA AnswerPollKeepsInv == ASSUME Inv, AnswerPoll PROVE Inv'
<1>1. UNCHANGED queue /\ answer' = seen /\ seen' = Nothing /\ pc = "answer" /\ pc' = "start"
  BY DEF AnswerPoll
<1>2. LineInv' /\ Counts' = Counts /\ line' = line
  BY <1>1, QueueRests DEF Inv, queue
<1>3. seen' \in Answers
  BY <1>1 DEF Nothing, Answers
<1>4. AnswerInv'
  BY <1>1, <1>2 DEF Inv, PollInv, CountsInv, IssuedInv, AnswerInv, CountedOf, Total, Over
<1> QED
  BY <1>1, <1>2, <1>3, <1>4 DEF Inv, PollInv, CountsInv, CalledInv, IssuedInv, Steps

LEMMA UseQueueKeepsInv == ASSUME Inv, UseQueue PROVE Inv'
<1>1. LineInv' /\ LineKeeps
  BY QueueSteps DEF Inv
<1>2. pc' = pc /\ seen' = seen /\ answer' = answer
  BY DEF UseQueue, poll
<1>3. ASSUME NEW counts \in [Statuses -> Nat], CountedOf(counts)
      PROVE  Total(counts) <= Len(line') /\ Over(counts) <= Over(Counts')
  BY <1>1, <1>3, CountedStays DEF Inv
<1>4. Len(line) \in Nat /\ Len(line') \in Nat /\ Len(line) <= Len(line')
  BY <1>1, LenProperties DEF Inv, LineInv, LineKeeps
<1>5. AnswerInv'
  <2> SUFFICES ASSUME Answered' PROVE AnswerInv'
    BY DEF AnswerInv
  <2>1. /\ answer \in Answers /\ CountedOf(answer.counts) /\ answer.issued <= Len(line)
        /\ Total(answer.counts) <= answer.issued /\ answer.called <= answer.issued
    BY <1>2 DEF Inv, AnswerInv, Answered
  <2>2. answer.counts \in [Statuses -> Nat] /\ answer.issued \in Nat
    BY <2>1 DEF Answers
  <2>3. Total(answer.counts) <= Len(line') /\ Over(answer.counts) <= Over(Counts')
    BY <1>3, <2>1, <2>2
  <2> QED BY <1>2, <1>4, <2>1, <2>2, <2>3 DEF AnswerInv, CountedOf, Total, Over
<1>6. seen \in Answers /\ seen.counts \in [Statuses -> Nat] /\ seen.called \in Nat /\ seen.issued \in Nat
  BY DEF Inv, PollInv, Answers
<1>7. CountsInv'
  <2> SUFFICES ASSUME pc' \in {"called", "issued", "answer"} PROVE CountsInv'
    BY DEF CountsInv
  <2>1. CountedOf(seen.counts)
    BY <1>2 DEF Inv, PollInv, CountsInv
  <2>2. Total(seen.counts) <= Len(line') /\ Over(seen.counts) <= Over(Counts')
    BY <1>3, <1>6, <2>1
  <2> QED BY <1>2, <2>2 DEF Inv, PollInv, CountsInv, CountedOf, Answered, Total, Over
<1>8. CalledInv' /\ IssuedInv'
  BY <1>2, <1>4, <1>6 DEF Inv, PollInv, CalledInv, IssuedInv, Answered, Total
<1> QED
  BY <1>1, <1>2, <1>5, <1>6, <1>7, <1>8 DEF Inv, PollInv

LEMMA NextKeepsInv == ASSUME Inv, [Next]_vars PROVE Inv'
<1>1. CASE UNCHANGED vars
  <2>1. UNCHANGED queue /\ pc' = pc /\ seen' = seen /\ answer' = answer
    BY <1>1 DEF vars, poll
  <2>2. LineInv' /\ Counts' = Counts /\ line' = line
    BY <2>1, QueueRests DEF Inv, queue
  <2> QED
    BY <2>1, <2>2 DEF Inv, AnswerInv, Answered, CountedOf, PollInv, CountsInv, CalledInv,
       IssuedInv, Over, Total
<1> QED
  BY <1>1, StartPollKeepsInv, ReadNextKeepsInv, AnswerPollKeepsInv, UseQueueKeepsInv DEF Next

THEOREM Invariance == Spec => []Inv
BY InitEstablishesInv, NextKeepsInv, PTL DEF Spec

-----------------------------------------------------------------------------
(* What a farmer sees                                                      *)

\* The counts, the number called and the number issued of one answer fit together, although
\* tokens were issued and called between the statements that read them.
THEOREM AnswersFitTogether == Spec => []PartsFitTogether
<1>1. Inv => PartsFitTogether
  BY DEF Inv, AnswerInv, PartsFitTogether
<1> QED BY <1>1, Invariance, PTL

\* The next answer is never behind the one before.
THEOREM AnswersMoveForward == Spec => PollsMoveForward
<1>1. ASSUME Inv, [Next]_vars, Answered, answer' # answer
      PROVE  /\ answer'.issued >= answer.issued
             /\ Total(answer'.counts) >= Total(answer.counts)
             /\ Over(answer'.counts) >= Over(answer.counts)
  <2>1. pc = "answer" /\ answer' = seen
    BY <1>1 DEF Next, StartPoll, ReadNext, AnswerPoll, UseQueue, poll, vars
  <2>2. seen \in Answers /\ answer \in Answers
    BY <1>1 DEF Inv, AnswerInv, PollInv
  <2>3. /\ answer.issued <= seen.issued
        /\ Total(answer.counts) <= Total(seen.counts)
        /\ Over(answer.counts) <= Over(seen.counts)
    BY <1>1, <2>1 DEF Inv, PollInv, CountsInv, IssuedInv
  <2>4. /\ seen.issued \in Nat /\ answer.issued \in Nat
        /\ Total(answer.counts) \in Nat /\ Total(seen.counts) \in Nat
        /\ Over(answer.counts) \in Nat /\ Over(seen.counts) \in Nat
    BY <2>2, TotalsAreNumbers DEF Answers
  <2> QED BY <2>1, <2>3, <2>4
<1>2. Inv /\ [Next]_vars =>
        [Answered /\ answer' # answer =>
            /\ answer'.issued >= answer.issued
            /\ Total(answer'.counts) >= Total(answer.counts)
            /\ Over(answer'.counts) >= Over(answer.counts)]_vars
  BY <1>1
<1> QED
  BY <1>2, Invariance, PTL DEF Spec, PollsMoveForward
=============================================================================
