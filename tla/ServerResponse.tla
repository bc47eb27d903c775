---------------------------- MODULE ServerResponse ----------------------------
(***************************************************************************)
(* server_response and server_response_reader                              *)
(* (tools/server/server-queue.cpp): the queue of results between the main  *)
(* loop, which sends them, and the readers of the HTTP threads, each of    *)
(* which waits for the results of its own tasks.  Every action is one      *)
(* critical section of mutex_results, or one step of a thread outside it.  *)
(*                                                                         *)
(* Of the main loop there is what a task may meet: it is taken from the    *)
(* queue, launched into a slot or deferred, sends results, and ends with a *)
(* final one, with an error, or with a cancel and no result.  When and why *)
(* it does so is in ServerQueue and ServerSlots, which also has the        *)
(* families: here every task goes its way alone.                           *)
(***************************************************************************)
EXTENDS Naturals, FiniteSets, SequencesExt

CONSTANTS
    Readers,    \* the response readers, one for each HTTP request
    Tasks,      \* identifiers of tasks
    TasksOf,    \* the tasks of every reader: id_tasks after post_tasks
    Streaming,  \* the readers that are driven chunk by chunk (stream = true)
    MaxNumber,  \* bound: results are numbered up to here, then repeat it
    MaxResults  \* bound: the main loop does not send while that many are unread

ASSUME TasksAssumption ==
    /\ TasksOf \in [Readers -> SUBSET Tasks]
    /\ \A r \in Readers : IsFiniteSet(TasksOf[r]) /\ TasksOf[r] # {}
    /\ \A r, s \in Readers : r # s => TasksOf[r] \cap TasksOf[s] = {}
    /\ Streaming \subseteq Readers
ASSUME BoundsAssumption == MaxNumber \in Nat \ {0} /\ MaxResults \in Nat \ {0}

VARIABLES
    waiting_task_ids, \* server_response::waiting_task_ids
    queue_results,    \* server_response::queue_results
    cond,             \* readers blocked in condition_results
    received_count,   \* server_response_reader::received_count
    cancelled,        \* server_response_reader::cancelled
    reader,           \* program point of every reader
    to_clear,         \* ids stop() has still to remove, for every reader
    outcome,          \* what the reader reported: none, error or terminated
    closed,           \* has the client of the reader closed its connection ?
    live,             \* tasks in the queues, in the main loop's hand or in a slot
    hand,             \* the task the main loop has popped and not yet processed
    slots,            \* tasks that have a slot
    cancels,          \* tasks a cancel task is posted for
    late,             \* history: tasks deferred although their cancel was posted
    sent,             \* number of the last result sent, for every task
    got               \* number of the last result read, for every task

sharedVars == <<waiting_task_ids, queue_results, cond>>
readerVars == <<received_count, cancelled, reader, to_clear, outcome, closed>>
loopVars   == <<hand, slots, late>>
mainVars   == <<live, loopVars, cancels, sent>>
vars == <<sharedVars, readerVars, mainVars, got>>

-----------------------------------------------------------------------------
(* Results *)

Kinds == {"partial", "final", "error"}
Results == [id : Tasks, kind : Kinds, n : 0 .. MaxNumber]

\* The results of a task are numbered.
Successor(n) == IF n < MaxNumber THEN n + 1 ELSE MaxNumber

ResultsOf(ids) == {i \in DOMAIN queue_results : queue_results[i].id \in ids}
FirstOf(ids)   == CHOOSE i \in ResultsOf(ids) : \A j \in ResultsOf(ids) : i <= j

\* Mutant of HasNext: one result too many.
HasOneMore(r) == ~cancelled[r] /\ received_count[r] <= Cardinality(TasksOf[r])

HasNext(r) == ~cancelled[r] /\ received_count[r] < Cardinality(TasksOf[r])

-----------------------------------------------------------------------------
(* Readers *)

\* Mutant of ToWaitFor: post_tasks registers one of its tasks, as post_task does.
OneTask(r) == {CHOOSE t \in TasksOf[r] : TRUE}

ToWaitFor(r) == TasksOf[r]

\* post_task and post_tasks: wait for the results, then post the tasks.
AddWaiting(r) ==
    /\ reader[r] = "new"
    /\ reader' = [reader EXCEPT ![r] = "post"]
    /\ waiting_task_ids' = waiting_task_ids \cup ToWaitFor(r)
    /\ UNCHANGED <<queue_results, cond, received_count, cancelled, to_clear, outcome, closed, mainVars, got>>

PostTasks(r) ==
    /\ reader[r] = "post"
    /\ reader' = [reader EXCEPT ![r] = "next"]
    /\ live' = live \cup TasksOf[r]
    /\ UNCHANGED <<sharedVars, received_count, cancelled, to_clear, outcome, closed, loopVars, cancels, sent, got>>

\* recv_with_timeout finds a result of the reader's tasks, and next() counts it.
Receive(r) ==
    /\ reader[r] = "next"
    /\ HasNext(r)
    /\ ResultsOf(TasksOf[r]) # {}
    /\ LET i   == FirstOf(TasksOf[r])
           res == queue_results[i]
       IN  /\ queue_results' = RemoveAt(queue_results, i)
           /\ got' = [got EXCEPT ![res.id] = res.n]
           /\ IF res.kind = "error"
              THEN /\ reader' = [reader EXCEPT ![r] = "stop"]
                   /\ outcome' = [outcome EXCEPT ![r] = "error"]
                   /\ UNCHANGED received_count
              ELSE /\ reader' = [reader EXCEPT ![r] = IF r \in Streaming THEN "chunk" ELSE "next"]
                   /\ received_count' = [received_count EXCEPT ![r] =
                                            IF res.kind = "final" THEN @ + 1 ELSE @]
                   /\ UNCHANGED outcome
    /\ UNCHANGED <<waiting_task_ids, cond, cancelled, to_clear, closed, mainVars>>

\* It finds none and waits for polling_interval_seconds.
Block(r) ==
    /\ reader[r] = "next"
    /\ HasNext(r)
    /\ ResultsOf(TasksOf[r]) = {}
    /\ cond' = cond \cup {r}
    /\ reader' = [reader EXCEPT ![r] = "blocked"]
    /\ UNCHANGED <<waiting_task_ids, queue_results, received_count, cancelled, to_clear, outcome, closed, mainVars, got>>

\* A notification, of whichever result, starts the search and the wait anew.
Woken(r) ==
    /\ reader[r] = "blocked"
    /\ r \notin cond
    /\ reader' = [reader EXCEPT ![r] = "next"]
    /\ UNCHANGED <<sharedVars, received_count, cancelled, to_clear, outcome, closed, mainVars, got>>

\* The wait lasted polling_interval_seconds, whether or not a notification came in
\* the end: next() asks should_stop and does not look for a result.
Timeout(r) ==
    /\ reader[r] = "blocked"
    /\ cond' = cond \ {r}
    /\ IF closed[r]
       THEN /\ reader' = [reader EXCEPT ![r] = "stop"]
            /\ outcome' = [outcome EXCEPT ![r] = "terminated"]
       ELSE reader' = [reader EXCEPT ![r] = "next"] /\ UNCHANGED outcome
    /\ UNCHANGED <<waiting_task_ids, queue_results, received_count, cancelled, to_clear, closed, mainVars, got>>

\* A stream asks should_stop before each chunk after the first.
NextChunk(r) ==
    /\ reader[r] = "chunk"
    /\ IF closed[r]
       THEN /\ reader' = [reader EXCEPT ![r] = "stop"]
            /\ outcome' = [outcome EXCEPT ![r] = "terminated"]
       ELSE reader' = [reader EXCEPT ![r] = "next"] /\ UNCHANGED outcome
    /\ UNCHANGED <<sharedVars, received_count, cancelled, to_clear, closed, mainVars, got>>

\* All results have arrived: the response is complete and the reader destroyed.
Complete(r) ==
    /\ reader[r] = "next"
    /\ ~HasNext(r)
    /\ reader' = [reader EXCEPT ![r] = "stop"]
    /\ UNCHANGED <<sharedVars, received_count, cancelled, to_clear, outcome, closed, mainVars, got>>

\* stop(): remove_waiting_task_ids, which leaves results in the queue; then, if
\* tasks are unfinished, remove_waiting_task_id for each; then post the cancels.
StopWaiting(r) ==
    /\ reader[r] = "stop"
    /\ waiting_task_ids' = waiting_task_ids \ TasksOf[r]
    /\ IF HasNext(r)
       THEN /\ cancelled' = [cancelled EXCEPT ![r] = TRUE]
            /\ to_clear' = [to_clear EXCEPT ![r] = TasksOf[r]]
            /\ reader' = [reader EXCEPT ![r] = "clear"]
       ELSE /\ reader' = [reader EXCEPT ![r] = "done"]
            /\ UNCHANGED <<cancelled, to_clear>>
    /\ UNCHANGED <<queue_results, cond, received_count, outcome, closed, mainVars, got>>

\* Mutant of Cleared: remove_waiting_task_id forgets the pending results.
KeepResults(t) == queue_results

\* The results that are not of the task t, in their order.
Without(results, t) ==
    LET kept[i \in 0 .. Len(results)] ==
            IF i = 0 THEN <<>>
            ELSE IF results[i].id = t THEN kept[i - 1]
            ELSE Append(kept[i - 1], results[i])
    IN  kept[Len(results)]

Cleared(t) == Without(queue_results, t)

ClearTask(r, t) ==
    /\ reader[r] = "clear"
    /\ t \in to_clear[r]
    /\ queue_results' = Cleared(t)
    /\ waiting_task_ids' = waiting_task_ids \ {t}
    /\ to_clear' = [to_clear EXCEPT ![r] = @ \ {t}]
    /\ UNCHANGED <<cond, received_count, cancelled, reader, outcome, closed, mainVars, got>>

\* Mutant of ToCancel: only the tasks that sent no result yet are cancelled.
OnlySilentTasks(r) == {t \in TasksOf[r] : sent[t] = 0}

ToCancel(r) == TasksOf[r]

\* post() of cancel tasks takes their targets out of the two queues.
PostCancels(r) ==
    /\ reader[r] = "clear"
    /\ to_clear[r] = {}
    /\ cancels' = cancels \cup ToCancel(r)
    /\ live' = {t \in live : t \in ToCancel(r) => t \in hand \cup slots}
    /\ reader' = [reader EXCEPT ![r] = "done"]
    /\ UNCHANGED <<sharedVars, received_count, cancelled, to_clear, outcome, closed, loopVars, sent, got>>

-----------------------------------------------------------------------------
(* The main loop and the clients *)

\* start_loop pops a task.
TakeTask(t) ==
    /\ hand = {}
    /\ t \in live \ slots
    /\ hand' = {t}
    /\ UNCHANGED <<sharedVars, readerVars, live, slots, late, cancels, sent, got>>

\* process_single_task defers it: it is in a queue again, which a cancel that was
\* posted in the meantime has already been through.
Defer(t) ==
    /\ t \in hand
    /\ hand' = hand \ {t}
    /\ late' = IF t \in cancels THEN late \cup {t} ELSE late
    /\ UNCHANGED <<sharedVars, readerVars, live, slots, cancels, sent, got>>

Launch(t) ==
    /\ t \in hand
    /\ hand' = hand \ {t}
    /\ slots' = slots \cup {t}
    /\ UNCHANGED <<sharedVars, readerVars, live, late, cancels, sent, got>>

\* A task in a slot may send anything, but only a stream gets partial results.  Without
\* a slot a task ends at once: its launch fails, or it needs none.
MaySend(t, kind) ==
    /\ t \in slots \/ (t \in hand /\ kind # "partial")
    /\ kind = "partial" => \E r \in Streaming : t \in TasksOf[r]

\* server_response::send: a result nobody waits for is dropped.
Send(t, kind) ==
    /\ t \in live
    /\ MaySend(t, kind)
    /\ Len(queue_results) < MaxResults
    /\ LET n == Successor(sent[t])
       IN  /\ sent' = [sent EXCEPT ![t] = n]
           /\ IF t \in waiting_task_ids
              THEN /\ queue_results' = Append(queue_results, [id |-> t, kind |-> kind, n |-> n])
                   /\ cond' = {}
              ELSE UNCHANGED <<queue_results, cond>>
    /\ IF kind = "partial" THEN UNCHANGED <<live, hand, slots>>
       ELSE live' = live \ {t} /\ hand' = hand \ {t} /\ slots' = slots \ {t}
    /\ UNCHANGED <<waiting_task_ids, readerVars, late, cancels, got>>

\* The tasks that end when the cancel of t is processed: t, if it has a slot now.
Released(t) == slots \cap {t}

\* The main loop processes a cancel, with no other task in its hand.
ProcessCancel(t) ==
    /\ t \in cancels
    /\ hand = {}
    /\ cancels' = cancels \ {t}
    /\ slots' = slots \ Released(t)
    /\ live' = live \ Released(t)
    /\ UNCHANGED <<sharedVars, readerVars, hand, late, sent, got>>

Close(r) ==
    /\ ~closed[r]
    /\ reader[r] # "done"
    /\ closed' = [closed EXCEPT ![r] = TRUE]
    /\ UNCHANGED <<sharedVars, received_count, cancelled, reader, to_clear, outcome, mainVars, got>>

-----------------------------------------------------------------------------
Init ==
    /\ waiting_task_ids = {}
    /\ queue_results = <<>>
    /\ cond = {}
    /\ received_count = [r \in Readers |-> 0]
    /\ cancelled = [r \in Readers |-> FALSE]
    /\ reader = [r \in Readers |-> "new"]
    /\ to_clear = [r \in Readers |-> {}]
    /\ outcome = [r \in Readers |-> "none"]
    /\ closed = [r \in Readers |-> FALSE]
    /\ live = {} /\ hand = {} /\ slots = {} /\ late = {}
    /\ cancels = {}
    /\ sent = [t \in Tasks |-> 0]
    /\ got = [t \in Tasks |-> 0]

ReaderStep(r) ==
    \/ AddWaiting(r) \/ PostTasks(r)
    \/ Receive(r) \/ Block(r) \/ Woken(r) \/ Timeout(r) \/ NextChunk(r)
    \/ Complete(r) \/ StopWaiting(r) \/ PostCancels(r)
    \/ \E t \in TasksOf[r] : ClearTask(r, t)

Next ==
    \/ \E r \in Readers : ReaderStep(r) \/ Close(r)
    \/ \E t \in Tasks :
          \/ TakeTask(t) \/ Defer(t) \/ Launch(t) \/ ProcessCancel(t)
          \/ \E kind \in Kinds : Send(t, kind)

Spec == Init /\ [][Next]_vars

\* Every thread is scheduled, and a task that the main loop or a slot has again and
\* again ends: one that is deferred gets its slot in the end (what the slots have to
\* provide for that is the subject of ServerSlots), and a generation is bounded, so
\* that no task sends partial results for ever.
Fairness ==
    /\ \A r \in Readers : WF_vars(ReaderStep(r))
    /\ WF_vars(\E t \in Tasks : TakeTask(t))
    /\ SF_vars(\E t \in Tasks : Send(t, "final") \/ Send(t, "error"))

FairSpec == Spec /\ Fairness

-----------------------------------------------------------------------------
(* Properties *)

ReaderStates == {"new", "post", "next", "blocked", "chunk", "stop", "clear", "done"}

\* The types of the variables.
TypeOK ==
    /\ waiting_task_ids \subseteq Tasks
    /\ queue_results \in Seq(Results)
    /\ cond \subseteq Readers
    /\ received_count \in [Readers -> Nat]
    /\ cancelled \in [Readers -> BOOLEAN]
    /\ reader \in [Readers -> ReaderStates]
    /\ to_clear \in [Readers -> SUBSET Tasks]
    /\ outcome \in [Readers -> {"none", "error", "terminated"}]
    /\ closed \in [Readers -> BOOLEAN]
    /\ live \subseteq Tasks /\ hand \subseteq Tasks /\ slots \subseteq Tasks
    /\ late \subseteq Tasks
    /\ cancels \subseteq Tasks
    /\ sent \in [Tasks -> 0 .. MaxNumber]
    /\ got \in [Tasks -> 0 .. MaxNumber]

\* The results of the task in the queue lead, one after another, from the last
\* one read to the last one sent.
InOrder(t) ==
    LET pending == ResultsOf({t})
        First(i) == \A j \in pending : i <= j
        Latest(i) == \A j \in pending : j <= i
        Follows(j, i) == i < j /\ \A k \in pending : k <= i \/ j <= k
    IN  /\ pending = {} => got[t] = sent[t]
        /\ \A i \in pending :
              /\ First(i) => queue_results[i].n = Successor(got[t])
              /\ Latest(i) => queue_results[i].n = sent[t]
              /\ \A j \in pending :
                    Follows(j, i) => queue_results[j].n = Successor(queue_results[i].n)

\* While its reader waits, no result of a task is lost, repeated or overtaken
\* (send, recv_with_timeout): the ones in the queue follow the last one read and
\* lead to the last one sent.
ResultsInOrder ==
    \A r \in Readers : reader[r] \in {"post", "next", "blocked", "chunk"} =>
        \A t \in TasksOf[r] : InOrder(t)

\* A reader that is done leaves nothing behind in server_response, neither an id
\* nor a result: what send() adds between the two locks of stop() is removed.
NothingLeftBehind ==
    \A r \in Readers : reader[r] = "done" =>
        ResultsOf(TasksOf[r]) = {} /\ waiting_task_ids \cap TasksOf[r] = {}

\* For a reader that is done a task only goes on if its cancel finds it: it is in the
\* main loop's hand or in a slot, and the cancel is still to come.  The exception is a
\* task that was in the hand when its cancel was posted and was deferred after that
\* (late): the cancel passes it by.  The tasks of a reader that reported a complete
\* response have all ended.
NothingRunsForNobody ==
    \A r \in Readers : reader[r] = "done" =>
        /\ (live \cap TasksOf[r]) \ late \subseteq (hand \cup slots) \cap cancels
        /\ outcome[r] = "none" => live \cap TasksOf[r] = {} /\ ~cancelled[r]

\* A request that was posted is answered, or given up by its client.
EveryReaderEnds == \A r \in Readers : reader[r] = "post" ~> reader[r] = "done"
=============================================================================
