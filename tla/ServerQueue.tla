----------------------------- MODULE ServerQueue -----------------------------
(***************************************************************************)
(* server_queue (tools/server/server-queue.cpp): the queue HTTP threads    *)
(* post tasks to, the loop that processes them on the main thread, and the *)
(* sleeping protocol that unloads the model when no task came for          *)
(* idle_sleep_ms.  Every action is one critical section of mutex_tasks, or *)
(* one step of a thread outside of it.                                     *)
(*                                                                         *)
(* condition_tasks is modelled by the set cond of the threads blocked in   *)
(* it.  notify_one takes any one of them out, notify_all all of them; a    *)
(* thread that was taken out reacquires the mutex in an action of its own, *)
(* in which it evaluates its predicate and returns or blocks again.        *)
(*                                                                         *)
(* Time is abstracted: idle says that now - time_last_task has reached     *)
(* idle_sleep_ms.  The slots behind the callbacks are reduced to the set   *)
(* of the tasks they run, and to what this says of a task's fate: it gets  *)
(* a slot, is deferred until a slot is released, or fails.  ServerSlots    *)
(* models them.                                                            *)
(***************************************************************************)
EXTENDS TaskQueue, FiniteSets

CONSTANTS
    Workers,      \* the HTTP worker threads, each with one request to serve
    NSlots,       \* the number of slots, params.n_parallel
    SleepEnabled  \* is sleep_idle_seconds >= 0 ?

ASSUME SlotsAssumption == NSlots \in Nat \ {0}
ASSUME SleepAssumption == SleepEnabled \in BOOLEAN

\* The main thread, as a member of cond.
Main == "main"

\* No worker has the name of the main thread or of a task that is no request.
ASSUME WorkersAssumption == {Main, "fresh", "none"} \cap Workers = {}

VARIABLES
    running,              \* server_queue::running
    sleeping,             \* server_queue::sleeping
    req_stop_sleeping,    \* server_queue::req_stop_sleeping
    idle,                 \* now - time_last_task >= idle_sleep_ms
    queue_tasks,          \* server_queue::queue_tasks
    queue_tasks_deferred, \* server_queue::queue_tasks_deferred
    cond,                 \* threads blocked in condition_tasks
    loop,                 \* program point of start_loop
    task,                 \* the task start_loop has popped, between pop and callback
    active,               \* requests whose task runs in a slot
    processed,            \* requests whose task is finished
    failed,               \* those of them that are answered with an error
    late,                 \* history: requests deferred although they were cancelled
    loaded,               \* is the model in memory (server_context_impl::model) ?
    request,              \* program point of every HTTP worker
    terminated            \* has terminate() been called ?

sleepVars == <<running, sleeping, req_stop_sleeping>>
queueVars == <<sleepVars, idle, queue_tasks, queue_tasks_deferred>>
slotVars  == <<active, processed, failed, late, loaded>>
vars == <<queueVars, cond, loop, task, slotVars, request, terminated>>

-----------------------------------------------------------------------------
(* Tasks *)

\* A request's task is named by its worker; no task names a cancel or a
\* next_response task, which share the identifier "fresh".
RequestTask(w) == [type |-> "request", id |-> w]
CancelTask(w)  == [type |-> "cancel", id |-> "fresh", target |-> w]
NextResponse   == [type |-> "next_response", id |-> "fresh"]
NoTask         == [type |-> "none", id |-> "none"]

Requests == {RequestTask(w) : w \in Workers}
Tasks    == Requests \cup {CancelTask(w) : w \in Workers} \cup {NextResponse}

InQueue(t)  == In(queue_tasks, t)
Deferred(t) == In(queue_tasks_deferred, t)

-----------------------------------------------------------------------------
(* condition_tasks *)

\* notify_one, after which the threads of blocking are blocked as well: a
\* caller that goes on to wait holds the mutex in between.
NotifyOne(blocking) ==
    IF cond = {} THEN cond' = blocking
    ELSE \E t \in cond : cond' = (cond \ {t}) \cup blocking

NotifyNobody == UNCHANGED cond \* a mutant of NotifyAll

NotifyAll == cond' = {}

\* The thread has been notified and finds its predicate false: it blocks again.
BlockAgain(t) == cond' = cond \cup {t}

-----------------------------------------------------------------------------
(* HTTP workers *)

\* create_response: the constructor of server_res_generator calls
\* wait_until_no_sleep, unless sleeping is disabled.  The first worker to find
\* the server asleep asks it to wake up.
CreateResponse(w) ==
    /\ request[w] = "new"
    /\ IF SleepEnabled /\ sleeping
       THEN /\ IF req_stop_sleeping
               THEN /\ UNCHANGED req_stop_sleeping
                    /\ cond' = cond \cup {w}
               ELSE /\ req_stop_sleeping' = TRUE
                    /\ NotifyOne({w})
            /\ request' = [request EXCEPT ![w] = "blocked"]
       ELSE /\ request' = [request EXCEPT ![w] = "prepare"]
            /\ UNCHANGED <<req_stop_sleeping, cond>>
    /\ UNCHANGED <<running, sleeping, idle, queue_tasks, queue_tasks_deferred, loop, task, slotVars, terminated>>

\* condition_tasks.wait(lock, !sleeping) after a notification.
WokenFromNoSleep(w) ==
    /\ request[w] = "blocked"
    /\ w \notin cond
    /\ IF sleeping
       THEN BlockAgain(w) /\ UNCHANGED request
       ELSE /\ request' = [request EXCEPT ![w] = "prepare"]
            /\ UNCHANGED cond
    /\ UNCHANGED <<queueVars, loop, task, slotVars, terminated>>

\* post of the request's task, once the prompt is parsed and tokenized with the
\* model's vocabulary.
Post(w) ==
    /\ request[w] = "prepare"
    /\ queue_tasks' = Push(queue_tasks, RequestTask(w), FALSE)
    /\ idle' = FALSE
    /\ NotifyOne({})
    /\ request' = [request EXCEPT ![w] = "posted"]
    /\ UNCHANGED <<sleepVars, queue_tasks_deferred, loop, task, slotVars, terminated>>

\* The response reader has the final result.
Receive(w) ==
    /\ request[w] = "posted"
    /\ w \in processed \ failed
    /\ request' = [request EXCEPT ![w] = "served"]
    /\ UNCHANGED <<queueVars, cond, loop, task, slotVars, terminated>>

\* The connection is closed: server_response_reader::stop posts a cancel task in
\* front, and post() removes the target from the deque that still holds it.
Cancel(w) ==
    /\ request[w] = "posted"
    /\ queue_tasks' = Push(Without(queue_tasks, w), CancelTask(w), TRUE)
    /\ queue_tasks_deferred' = Without(queue_tasks_deferred, w)
    /\ idle' = FALSE
    /\ NotifyOne({})
    /\ request' = [request EXCEPT ![w] = "cancelled"]
    /\ UNCHANGED <<sleepVars, loop, task, slotVars, terminated>>

\* An error makes the response reader stop as well.
ReceiveError(w) == w \in failed /\ Cancel(w)

-----------------------------------------------------------------------------
(* The main thread: start_loop *)

StartLoop ==
    /\ loop = "boot"
    /\ running' = TRUE
    /\ idle' = FALSE
    /\ loop' = "drain"
    /\ UNCHANGED <<sleeping, req_stop_sleeping, queue_tasks, queue_tasks_deferred, cond, task, slotVars, request, terminated>>

\* The first inner loop: return, pop the next task, or go on to the slots.
Return ==
    /\ loop = "drain"
    /\ ~running
    /\ loop' = "returned"
    /\ UNCHANGED <<queueVars, cond, task, slotVars, request, terminated>>

ReadFront == task' = Head(queue_tasks) /\ UNCHANGED queue_tasks \* a mutant of PopFront

PopFront == task' = Head(queue_tasks) /\ queue_tasks' = Tail(queue_tasks)

PopTask ==
    /\ loop = "drain"
    /\ running
    /\ queue_tasks # <<>>
    /\ PopFront
    /\ loop' = "process"
    /\ UNCHANGED <<sleepVars, idle, queue_tasks_deferred, cond, slotVars, request, terminated>>

AllTasksProcessed ==
    /\ loop = "drain"
    /\ running
    /\ queue_tasks = <<>>
    /\ loop' = "update"
    /\ UNCHANGED <<queueVars, cond, task, slotVars, request, terminated>>


\* pop_deferred_task, called when a slot is released: the task that asked for this
\* slot or the first one, which is here any one, is next.
PopDeferred ==
    /\ idle' = FALSE
    /\ NotifyOne({})
    /\ IF queue_tasks_deferred = <<>>
       THEN UNCHANGED <<queue_tasks, queue_tasks_deferred>>
       ELSE \E i \in DOMAIN queue_tasks_deferred :
               /\ queue_tasks' = Push(queue_tasks, queue_tasks_deferred[i], TRUE)
               /\ queue_tasks_deferred' = DropAt(queue_tasks_deferred, i)

\* callback_new_task: process_single_task, with the task popped.
Process(t) ==
    /\ loop = "process"
    /\ task = t
    /\ task' = NoTask
    /\ loop' = "drain"
    /\ UNCHANGED <<sleepVars, loaded, request, terminated>>

\* The slot it asks for is taken, or there are too few for its family, or none.
Defer(w) ==
    /\ Process(RequestTask(w))
    /\ active # {}
    /\ queue_tasks_deferred' = Push(queue_tasks_deferred, task, FALSE)
    /\ late' = IF request[w] = "cancelled" THEN late \cup {w} ELSE late
    /\ idle' = FALSE
    /\ NotifyOne({})
    /\ UNCHANGED <<queue_tasks, active, processed, failed>>

Launch(w) ==
    /\ Process(RequestTask(w))
    /\ Cardinality(active) < NSlots
    /\ active' = active \cup {w}
    /\ UNCHANGED <<idle, queue_tasks, queue_tasks_deferred, cond, processed, failed, late>>

\* launch_slot_with_task sends an error, and the task is dropped.
FailLaunch(w) ==
    /\ Process(RequestTask(w))
    /\ Cardinality(active) < NSlots
    /\ processed' = processed \cup {w}
    /\ failed' = failed \cup {w}
    /\ UNCHANGED <<idle, queue_tasks, queue_tasks_deferred, cond, active, late>>

\* A cancel releases the slot that has its target now, if there is one.
ProcessCancel(w) ==
    /\ Process(CancelTask(w))
    /\ active' = active \ {w}
    /\ IF w \in active THEN PopDeferred
       ELSE UNCHANGED <<idle, queue_tasks, queue_tasks_deferred, cond>>
    /\ UNCHANGED <<processed, failed, late>>

ProcessNextResponse ==
    /\ Process(NextResponse)
    /\ UNCHANGED <<idle, queue_tasks, queue_tasks_deferred, cond, active, processed, failed, late>>

ProcessTask ==
    \/ \E w \in Workers : Defer(w) \/ Launch(w) \/ FailLaunch(w) \/ ProcessCancel(w)
    \/ ProcessNextResponse

PostNothing == UNCHANGED <<queue_tasks, cond>> \* a mutant of PostNextResponse

PostNextResponse ==
    /\ queue_tasks' = Push(queue_tasks, NextResponse, FALSE)
    /\ NotifyOne({})

\* callback_update_slots: while a slot is active it posts a NEXT_RESPONSE task, so
\* that the loop comes back, and then decodes.
UpdateSlots ==
    /\ loop = "update"
    /\ idle' = FALSE
    /\ IF active = {}
       THEN loop' = "wait" /\ UNCHANGED <<queue_tasks, cond>>
       ELSE loop' = "decode" /\ PostNextResponse
    /\ UNCHANGED <<sleepVars, queue_tasks_deferred, task, slotVars, request, terminated>>

\* An active slot finishes, with a result or an error, and is released.
Finish(w) ==
    /\ loop = "decode"
    /\ w \in active
    /\ active' = active \ {w}
    /\ processed' = processed \cup {w}
    /\ failed' \in {failed, failed \cup {w}}
    /\ PopDeferred
    /\ UNCHANGED <<sleepVars, loop, task, late, loaded, request, terminated>>

\* update_slots returns, and start_loop sets time_last_task.
EndUpdate ==
    /\ loop = "decode"
    /\ loop' = "wait"
    /\ idle' = FALSE
    /\ UNCHANGED <<sleepVars, queue_tasks, queue_tasks_deferred, cond, task, slotVars, request, terminated>>

\* The second inner loop: tasks or termination first, then sleep, then wait.
StopWaiting ==
    /\ loop = "wait"
    /\ ~running \/ queue_tasks # <<>>
    /\ loop' = "drain"
    /\ UNCHANGED <<queueVars, cond, task, slotVars, request, terminated>>

\* Enter sleep: callback_sleeping_state(true) frees the model under the mutex.
EnterSleep ==
    /\ loop = "wait"
    /\ running
    /\ queue_tasks = <<>>
    /\ SleepEnabled /\ idle
    /\ sleeping' = TRUE
    /\ loaded' = FALSE
    /\ req_stop_sleeping' = FALSE
    /\ cond' = cond \cup {Main}
    /\ loop' = "asleep"
    /\ UNCHANGED <<running, idle, queue_tasks, queue_tasks_deferred, task, active, processed, failed, late, request, terminated>>

TimedWait ==
    /\ loop = "wait"
    /\ running
    /\ queue_tasks = <<>>
    /\ ~(SleepEnabled /\ idle)
    /\ cond' = cond \cup {Main}
    /\ loop' = "timed_wait"
    /\ UNCHANGED <<queueVars, task, slotVars, request, terminated>>

\* condition_tasks.wait_for after a notification.
WokenFromTimedWait ==
    /\ loop = "timed_wait"
    /\ Main \notin cond
    /\ IF queue_tasks # <<>> \/ ~running
       THEN loop' = "drain" /\ UNCHANGED cond
       ELSE BlockAgain(Main) /\ UNCHANGED loop
    /\ UNCHANGED <<queueVars, task, slotVars, request, terminated>>

\* condition_tasks.wait_for after max_wait_time, one second.
WaitTimeout ==
    /\ loop = "timed_wait"
    /\ cond' = cond \ {Main}
    /\ loop' = "wait"
    /\ UNCHANGED <<queueVars, task, slotVars, request, terminated>>

\* The wait of the sleeping state after a notification: terminate, wake up and
\* reload the model, or sleep on.
WokenFromSleep ==
    /\ loop = "asleep"
    /\ Main \notin cond
    /\ IF ~running
       THEN /\ loop' = "drain"
            /\ UNCHANGED <<sleeping, loaded, req_stop_sleeping, idle, cond>>
       ELSE IF req_stop_sleeping
       THEN /\ req_stop_sleeping' = FALSE
            /\ loaded' = TRUE
            /\ sleeping' = FALSE
            /\ idle' = FALSE
            /\ NotifyAll
            /\ loop' = "drain"
       ELSE /\ BlockAgain(Main)
            /\ UNCHANGED <<sleeping, loaded, req_stop_sleeping, idle, loop>>
    /\ UNCHANGED <<running, queue_tasks, queue_tasks_deferred, task, active, processed, failed, late, request, terminated>>

-----------------------------------------------------------------------------
(* Environment *)

\* server_queue::terminate, from the signal handler or a stop command.
Terminate ==
    /\ ~terminated
    /\ terminated' = TRUE
    /\ running' = FALSE
    /\ NotifyAll
    /\ UNCHANGED <<sleeping, req_stop_sleeping, idle, queue_tasks, queue_tasks_deferred, loop, task, slotVars, request>>

\* A thread may return from a wait without having been notified.
SpuriousWakeup ==
    /\ \E t \in cond : cond' = cond \ {t}
    /\ UNCHANGED <<queueVars, loop, task, slotVars, request, terminated>>

\* No task was posted for idle_sleep_ms.  Only should_sleep looks at the clock, when the
\* loop has no task, and what time it is earlier makes no difference.
TimePasses ==
    /\ SleepEnabled
    /\ loop = "wait"
    /\ ~idle
    /\ idle' = TRUE
    /\ UNCHANGED <<sleepVars, queue_tasks, queue_tasks_deferred, cond, loop, task, slotVars, request, terminated>>

-----------------------------------------------------------------------------
Init ==
    /\ running = FALSE
    /\ sleeping = FALSE
    /\ req_stop_sleeping = FALSE
    /\ idle = FALSE
    /\ queue_tasks = <<>>
    /\ queue_tasks_deferred = <<>>
    /\ cond = {}
    /\ loop = "boot"
    /\ task = NoTask
    /\ active = {}
    /\ processed = {}
    /\ failed = {}
    /\ late = {}
    /\ loaded = TRUE
    /\ request = [w \in Workers |-> "new"]
    /\ terminated = FALSE

LoopStep ==
    \/ StartLoop \/ Return \/ PopTask \/ AllTasksProcessed \/ ProcessTask
    \/ UpdateSlots \/ (\E w \in Workers : Finish(w)) \/ EndUpdate \/ StopWaiting \/ EnterSleep \/ TimedWait
    \/ WokenFromTimedWait \/ WaitTimeout \/ WokenFromSleep

\* The steps a worker takes by itself; a client may close its connection or not.
WorkerStep(w) ==
    \/ CreateResponse(w) \/ WokenFromNoSleep(w) \/ Post(w)
    \/ Receive(w) \/ ReceiveError(w)

Next ==
    \/ LoopStep
    \/ \E w \in Workers : WorkerStep(w) \/ Cancel(w)
    \/ Terminate
    \/ SpuriousWakeup
    \/ TimePasses

Spec == Init /\ [][Next]_vars

\* Threads are scheduled: a thread with an enabled step takes it eventually.  Slots
\* that are decoded again and again finish in the end, one after the other.
Fairness ==
    /\ WF_vars(LoopStep)
    /\ SF_vars(\E w \in Workers : Finish(w))
    /\ \A w \in Workers : WF_vars(WorkerStep(w))

FairSpec == Spec /\ Fairness
-----------------------------------------------------------------------------
(* Properties *)

RequestStates == {"new", "blocked", "prepare", "posted", "cancelled", "served"}
LoopStates ==
    {"boot", "drain", "process", "update", "decode", "wait", "timed_wait", "asleep",
     "returned"}

\* The types of the variables.
TypeOK ==
    /\ running \in BOOLEAN /\ sleeping \in BOOLEAN /\ req_stop_sleeping \in BOOLEAN
    /\ idle \in BOOLEAN /\ loaded \in BOOLEAN /\ terminated \in BOOLEAN
    /\ queue_tasks \in Seq(Tasks) /\ queue_tasks_deferred \in Seq(Requests)
    /\ cond \subseteq Workers \cup {Main}
    /\ loop \in LoopStates
    /\ task \in Tasks \cup {NoTask}
    /\ active \subseteq Workers
    /\ processed \subseteq Workers /\ failed \subseteq Workers /\ late \subseteq Workers
    /\ request \in [Workers -> RequestStates]

\* Where the task of worker w is.
InHand(t) == task = t
Places(w) ==
    {p \in {"queue", "deferred", "hand", "slot", "done"} :
        \/ p = "queue"    /\ InQueue(RequestTask(w))
        \/ p = "deferred" /\ Deferred(RequestTask(w))
        \/ p = "hand"     /\ InHand(RequestTask(w))
        \/ p = "slot"     /\ w \in active
        \/ p = "done"     /\ w \in processed}

\* A task is moved from the queue to the main loop, to the deferred tasks and back, to
\* a slot and to the results, never copied and, while its worker waits, never lost
\* (std::move in post, start_loop, defer and pop_deferred_task): it is in one of
\* these places, once.
ExactlyOnePlace ==
    \A w \in Workers :
        /\ \A p, q \in Places(w) : p = q
        /\ request[w] \in {"new", "blocked", "prepare"} => Places(w) = {}
        /\ request[w] \in {"posted", "served"} => Places(w) # {}
        /\ OccursOnce(queue_tasks, w) /\ OccursOnce(queue_tasks_deferred, w)

\* A cancel overtakes the task it is for (post with front, cleanup_pending_task):
\* once a request is cancelled its task is in neither deque, and if the main loop
\* or a slot has it, then the cancel task is still to come.  The one way for a task to
\* slip past its cancel is to be in the main loop's hand when the cancel is posted and
\* to be deferred after that (late): then the cancel finds it nowhere.
CancelNotOutrun ==
    \A w \in Workers : request[w] = "cancelled" /\ w \notin late =>
        /\ ~InQueue(RequestTask(w)) /\ ~Deferred(RequestTask(w))
        /\ InHand(RequestTask(w)) => InQueue(CancelTask(w))
        /\ w \in active => InQueue(CancelTask(w)) \/ InHand(CancelTask(w))

\* The model is only unloaded when no slot runs a request, and no task is
\* processed and no slot updated before it is loaded again: what start_loop sees
\* is the NEXT_RESPONSE that update_slots leaves in the queue.
ModelLoadedWhenUsed == ~loaded => active = {} /\ loop \notin {"process", "update", "decode"}

\* Whoever waits for the end of the sleep is blocked while the server sleeps, or
\* has been notified: no worker is in condition_tasks when the server is awake.
NobodyWaitsWhenAwake == ~sleeping => cond \subseteq {Main}

\* terminate() ends a loop that has started, whichever wait it is in, the sleep
\* included.
TerminateStopsLoop == (~running /\ loop # "boot") ~> (loop = "returned")

\* The loop waits for tasks while w is deferred, and no slot is left whose release
\* would pop it: the pop it was due went to a task that failed or was cancelled.
LeftDeferred(w) ==
    /\ Deferred(RequestTask(w)) /\ active = {} /\ queue_tasks = <<>>
    /\ loop \in {"wait", "timed_wait"}
    /\ \E v \in Workers \ {w} : v \in failed \/ request[v] = "cancelled"


\* Stated by tools/server/README.md:1726, "Any new incoming task will automatically
\* trigger the model to reload": a task posted to a sleeping server wakes it up.
TaskWakesServer ==
    \A w \in Workers : request[w] = "posted" ~> (request[w] # "posted" \/ terminated)
=============================================================================
