---------------------------- MODULE QueueStatus -----------------------------
(***************************************************************************)
(* QueueService.get_queue_status (app/services/queue.py) polled while the   *)
(* queue is in use.  Its answer is put together from four statements, each  *)
(* of which sees what is committed when it runs.  The queue is the abstract *)
(* TokenQueue, which QueueService implements.                               *)
(***************************************************************************)
EXTENDS TokenTable, FiniteSetsExt

CONSTANTS
    NoAnswer,
    MaxTokens   \* bound: how many tokens are ever issued

VARIABLES
    open, line, clock,  \* the queue
    pc,      \* the next statement of the poll under way
    seen,    \* what its statements have returned
    answer   \* the answer of the poll before it

queue  == <<open, line, clock>>
poll   == <<pc, seen, answer>>
vars   == <<queue, poll>>

Queue == INSTANCE TokenQueue

-----------------------------------------------------------------------------
(* The four statements                                                      *)

TokensIn(statuses) == {i \in DOMAIN line : line[i].status \in statuses}

\* Mutant: only the tokens that are not over are counted.
CountsOfActive ==
    [status \in Statuses |-> IF status \in ActiveStatuses THEN Cardinality(TokensIn({status})) ELSE 0]

\* get_queue_counts: one GROUP BY.
Counts == [status \in Statuses |-> Cardinality(TokensIn({status}))]

\* The token shown as called: of those called or in hand, the one called last; 0 for none.
CurrentCalled ==
    LET shown == TokensIn({"CALLED", "PROCESSING"})
    IN  IF shown = {} THEN 0
        ELSE line[CHOOSE i \in shown : \A j \in shown : line[j].called <= line[i].called].seq

LastIssued == Max({line[i].seq : i \in DOMAIN line} \union {0})

Statement ==
    [open |-> open, counts |-> Counts, called |-> CurrentCalled, issued |-> LastIssued]

\* Mutant: the numbers are read before the counts.
NumbersFirst ==
    [start |-> "open", open |-> "issued", issued |-> "called", called |-> "counts", counts |-> "answer"]

\* The order of the statements.
After ==
    [start |-> "open", open |-> "counts", counts |-> "called", called |-> "issued", issued |-> "answer"]

Nothing == [open |-> FALSE, counts |-> [status \in Statuses |-> 0], called |-> 0, issued |-> 0]

StartPoll ==
    /\ pc = "start"
    /\ pc' = After["start"]
    /\ UNCHANGED <<queue, seen, answer>>

ReadNext ==
    /\ pc \in DOMAIN Statement
    /\ seen' = [seen EXCEPT ![pc] = Statement[pc]]
    /\ pc' = After[pc]
    /\ UNCHANGED <<queue, answer>>

AnswerPoll ==
    /\ pc = "answer"
    /\ answer' = seen
    /\ seen' = Nothing
    /\ pc' = "start"
    /\ UNCHANGED queue

UseQueue ==
    /\ Queue!Next
    /\ Len(line') <= MaxTokens
    /\ UNCHANGED poll

Init ==
    /\ Queue!Init
    /\ pc = "start"
    /\ seen = Nothing
    /\ answer = NoAnswer

Next == StartPoll \/ ReadNext \/ AnswerPoll \/ UseQueue

Spec == Init /\ [][Next]_vars

-----------------------------------------------------------------------------
(* Properties                                                              *)

Answered == answer # NoAnswer

\* The tokens counted, of every status, and those of them that are over.
Total(counts) ==
    counts["CHECK_IN"] + counts["TOKEN"] + counts["WAITING"] + counts["CALLED"]
      + counts["PROCESSING"] + counts["COMPLETED"] + counts["CANCELLED"]
Over(counts) == counts["COMPLETED"] + counts["CANCELLED"]

\* The parts of an answer fit together, although four statements saw four states of the
\* queue: neither more tokens than were issued are counted nor one beyond them is shown
\* as called, because the last number is read after both.
PartsFitTogether ==
    Answered =>
        /\ Total(answer.counts) <= answer.issued
        /\ answer.called <= answer.issued

\* From one poll to the next the farmer sees the queue move forward only: neither the
\* last number nor the tokens issued, called or not, nor those that are over decrease.
PollsMoveForward ==
    [][Answered /\ answer' # answer =>
        /\ answer'.issued >= answer.issued
        /\ Total(answer'.counts) >= Total(answer.counts)
        /\ Over(answer'.counts) >= Over(answer.counts)]_vars
=============================================================================
