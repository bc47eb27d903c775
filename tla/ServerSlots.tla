----------------------------- MODULE ServerSlots -----------------------------
(***************************************************************************)
(* The slots of server_context (tools/server/server-context.cpp) with the  *)
(* two task queues they are fed from: launching, deferring and cancelling  *)
(* tasks, requests of a parent task and the children that share its prompt *)
(* (n_cmpl > 1), and update_slots, which fills a batch and decodes it in   *)
(* one or more views.                                                      *)
(*                                                                         *)
(* The main loop is the one of ServerQueue without sleep and termination.  *)
(* A request is the thread that posted a task, with its server_response of *)
(* ServerResponse reduced to the answer every task has had.  Of a prompt   *)
(* only its fate is modelled, of a generation only when it ends.           *)
(***************************************************************************)
EXTENDS TaskQueue, FiniteSetsExt, SequencesExt

CONSTANTS
    NSlots,     \* the number of slots, n_parallel
    Tasks,      \* identifiers of tasks
    ChildrenOf, \* the child tasks of every task, in order (empty for most)
    Kind,       \* type and lora of every task: what can_batch_with compares
    Fates,      \* what may come of its prompt: ok, invalid, empty or too_long
    IdSlot,     \* the slot it asks for (task.id_slot), 0 for any
    Overlong,   \* tasks that outgrow the context of a slot, ctx_shift being set
    Impatient,  \* requests whose client may close its connection
    MaxViews    \* bound: views of one batch that decode only a part of it

Slots == 1 .. NSlots
IsChild(t)  == \E p \in Tasks : t \in ToSet(ChildrenOf[p])
Requests    == {t \in Tasks : ~IsChild(t)}
Family(t)   == {t} \cup ToSet(ChildrenOf[t])
IsParent(t) == ChildrenOf[t] # <<>>

Kinds == {"completion", "infill", "embedding", "slot_action"}

ASSUME SlotsAssumption ==
    /\ NSlots \in Nat \ {0} /\ MaxViews \in Nat
    /\ ChildrenOf \in [Tasks -> Seq(Tasks)]
    /\ Kind \in [Tasks -> Kinds]
    /\ Fates \in [Tasks -> SUBSET {"ok", "invalid", "empty", "too_long"}]
    /\ IdSlot \in [Tasks -> 0 .. NSlots]
    /\ Overlong \subseteq Tasks /\ Impatient \subseteq Tasks
    \* get_new_id draws every identifier once
    /\ {"none", "fresh"} \cap Tasks = {}
    /\ \A t, u \in Tasks :
          \A i \in DOMAIN ChildrenOf[t], j \in DOMAIN ChildrenOf[u] :
             ChildrenOf[t][i] = ChildrenOf[u][j] => t = u /\ i = j
    \* params_from_json_cmpl refuses n_cmpl > n_parallel, add_child copies the task
    /\ \A t \in Tasks :
          /\ Len(ChildrenOf[t]) < NSlots
          /\ \A c \in ToSet(ChildrenOf[t]) :
                /\ ChildrenOf[c] = <<>> /\ c # t
                /\ Kind[c] = Kind[t] /\ IdSlot[c] = 0
          /\ Kind[t] = "slot_action" => IdSlot[t] # 0 /\ ChildrenOf[t] = <<>>

VARIABLES
    queue_tasks,          \* server_queue::queue_tasks
    queue_tasks_deferred, \* server_queue::queue_tasks_deferred
    loop,                 \* program point of the main loop
    hand,                 \* the task the main loop has popped
    state,                \* server_slot::state
    slot_task,            \* server_slot::task, for every slot
    has_prompt,           \* slots whose whole prompt is in the KV cache
    batch,                \* slots with an output (i_batch) in the rest of the batch
    views,                \* partial views of this batch
    n_empty_consecutive,  \* server_context_impl::n_empty_consecutive
    aborted,              \* was GGML_ABORT reached ?
    answer,               \* what each task was answered: none, final, error or twice
    request,              \* program point of the request of every top-level task
    fate                  \* of the prompt of every top-level task

queueVars == <<queue_tasks, queue_tasks_deferred>>
slotVars  == <<state, slot_task, has_prompt>>
batchVars == <<batch, views, n_empty_consecutive, aborted>>
vars == <<queueVars, loop, hand, slotVars, batchVars, answer, request, fate>>

-----------------------------------------------------------------------------
(* Tasks and answers *)

RunTask(t)    == [type |-> "run", id |-> t]
CancelTask(t) == [type |-> "cancel", id |-> "fresh", target |-> t]
NextResponse  == [type |-> "next_response", id |-> "fresh"]
NoTask        == "none"

\* send_final_response, send_error, send_embedding: one more answer for each of ts.
Answered(ans, ts, what) ==
    [t \in Tasks |-> IF t \notin ts THEN ans[t] ELSE IF ans[t] = "none" THEN what ELSE "twice"]

-----------------------------------------------------------------------------
(* Slots *)

IsProcessing(s) == state[s] # "IDLE"
Free        == {s \in Slots : ~IsProcessing(s)}
In_(states) == {s \in Slots : state[s] \in states}
TasksIn(ss) == {slot_task[s] : s \in ss}
SlotsOf(ts) == {s \in Slots : slot_task[s] \in ts}

InSlotOrder(ss) ==
    [i \in 1 .. Cardinality(ss) |->
        CHOOSE s \in ss : Cardinality({r \in ss : r < s}) = i - 1]

\* task.id_slot of a deferred task; a slot action has its own field for the slot.
Asks(task, s) == Kind[task.id] # "slot_action" /\ IdSlot[task.id] = s

\* The deferred task that pop_deferred_task(s) moves.
ForSlot(d, s) ==
    LET asking == {i \in DOMAIN d : Asks(d[i], s)}
    IN  IF asking = {} THEN 1 ELSE Min(asking)

\* Mutant of PopDeferred: the task is not erased from the deferred ones.
PopCopy(q, s) ==
    IF q.deferred = <<>> THEN q
    ELSE [q EXCEPT !.tasks = Push(@, q.deferred[ForSlot(q.deferred, s)], TRUE)]

\* pop_deferred_task(s) on the pair of queues q.
PopDeferred(q, s) ==
    IF q.deferred = <<>> THEN q
    ELSE LET i == ForSlot(q.deferred, s)
         IN  [tasks    |-> Push(q.tasks, q.deferred[i], TRUE),
              deferred |-> DropAt(q.deferred, i)]

\* Mutant of Popped: release() forgets callback_on_release.
PoppedNone(q, order) == q

\* callback_on_release of each of the slots of a sequence.
Popped(q, order) ==
    LET after[k \in 0 .. Len(order)] ==
            IF k = 0 THEN q ELSE PopDeferred(after[k - 1], order[k])
    IN  after[Len(order)]

\* server_slot::release of each of the slots of a sequence, and pop_deferred_task
\* on the queues, tasks being queue_tasks before; st is the state of other slots.
Release(order, st, prompts, tasks) ==
    LET q == Popped([tasks |-> tasks, deferred |-> queue_tasks_deferred], order)
        released == ToSet(order)
    IN  /\ state' = [s \in Slots |-> IF s \in released THEN "IDLE" ELSE st[s]]
        /\ slot_task' = [s \in Slots |-> IF s \in released THEN NoTask ELSE slot_task[s]]
        /\ has_prompt' = prompts \ released
        /\ queue_tasks' = q.tasks
        /\ queue_tasks_deferred' = q.deferred

-----------------------------------------------------------------------------
(* Requests *)

\* post_task and post_tasks.
Post(t) ==
    /\ request[t] = "new"
    /\ request' = [request EXCEPT ![t] = "waiting"]
    /\ queue_tasks' = Push(queue_tasks, RunTask(t), FALSE)
    /\ UNCHANGED <<queue_tasks_deferred, loop, hand, slotVars, batchVars, answer>>

\* All results of the family are there.
Complete(t) ==
    /\ request[t] = "waiting"
    /\ \A u \in Family(t) : answer[u] = "final"
    /\ request' = [request EXCEPT ![t] = "served"]
    /\ UNCHANGED <<queueVars, loop, hand, slotVars, batchVars, answer>>

\* Mutant of ToCancel: id_tasks lacks the children.
ParentOnly(t) == {t}

ToCancel(t) == Family(t)

\* server_response_reader::stop: cancel tasks for the family, in front and in any
\* order, each of which takes its target out of both queues.
PostCancels(t) ==
    \E order \in SetToSeqs(ToCancel(t)) :
        LET cancels == [i \in DOMAIN order |-> CancelTask(order[i])]
        IN  /\ queue_tasks' = cancels \o Without(queue_tasks, t)
            /\ queue_tasks_deferred' = Without(queue_tasks_deferred, t)

\* An error for one of the tasks stops the reader.
Fail(t) ==
    /\ request[t] = "waiting"
    /\ \E u \in Family(t) : answer[u] = "error"
    /\ PostCancels(t)
    /\ request' = [request EXCEPT ![t] = "failed"]
    /\ UNCHANGED <<loop, hand, slotVars, batchVars, answer>>

\* The client closes its connection.
Leave(t) ==
    /\ t \in Impatient
    /\ request[t] = "waiting"
    /\ \A u \in Family(t) : answer[u] # "error"
    /\ PostCancels(t)
    /\ request' = [request EXCEPT ![t] = "left"]
    /\ UNCHANGED <<loop, hand, slotVars, batchVars, answer>>

-----------------------------------------------------------------------------
(* The main loop: tasks *)

PopTask ==
    /\ loop = "drain"
    /\ IF queue_tasks = <<>>
       THEN loop' = "update" /\ UNCHANGED <<queue_tasks, hand>>
       ELSE /\ hand' = <<Head(queue_tasks)>>
            /\ queue_tasks' = Tail(queue_tasks)
            /\ loop' = "process"
    /\ UNCHANGED <<queue_tasks_deferred, slotVars, batchVars, answer, request>>

\* Mutant of Deferred: a task that finds no slot is dropped.
DropInstead(d, task) == d

Deferred(d, task) == Push(d, task, FALSE)

Defer(task) ==
    /\ queue_tasks_deferred' = Deferred(queue_tasks_deferred, task)
    /\ UNCHANGED <<queue_tasks, slotVars, n_empty_consecutive, answer>>

\* A task that is answered without a slot, or whose launch fails, is dropped.
Answer(ts, what) ==
    /\ answer' = Answered(answer, ts, what)
    /\ UNCHANGED <<queueVars, slotVars, n_empty_consecutive>>

\* launch_slot_with_task: the task t in slot s and its children in others.
Launch(t, s, others) ==
    LET TaskOf(r) == IF r = s THEN t
                     ELSE ChildrenOf[t][CHOOSE i \in DOMAIN others : others[i] = r]
        launched == {s} \cup ToSet(others)
    IN  /\ slot_task' = [r \in Slots |-> IF r \in launched THEN TaskOf(r) ELSE slot_task[r]]
        /\ state' = [r \in Slots |-> IF r = s THEN "STARTED"
                                     ELSE IF r \in launched THEN "WAIT_OTHER" ELSE state[r]]
        /\ has_prompt' = has_prompt \ launched
        /\ n_empty_consecutive' = 0
        /\ UNCHANGED <<queueVars, answer>>

\* The first error of launch_slots_with_parent_task is the first child's.
FirstLaunched(t) == IF IsParent(t) THEN Head(ChildrenOf[t]) ELSE t

\* get_free_slots(n, s); n slots at least one, or none.
FreeSlots(n, s) ==
    LET free == InSlotOrder(Free \ {s})
    IN  SubSeq(free, 1, IF n < Len(free) THEN n ELSE Len(free))

\* process_single_task for the types that run in a slot, once s is chosen.
RunInSlot(t, s) ==
    LET others == FreeSlots(Len(ChildrenOf[t]), s)
    IN  IF IsProcessing(s) \/ Len(others) < Len(ChildrenOf[t]) THEN Defer(RunTask(t))
        ELSE IF fate[t] = "invalid" THEN Answer({FirstLaunched(t)}, "error")
        ELSE Launch(t, s, others)

\* A slot action is answered at once, with its result or an error.  Tasks of
\* tools/cli, whose prompts are tokenized here, are left out.
ProcessRun(t) ==
    IF Kind[t] = "slot_action"
    THEN IF IsProcessing(IdSlot[t]) THEN Defer(RunTask(t))
         ELSE \E what \in {"final", "error"} : Answer({t}, what)
    ELSE IF IdSlot[t] # 0 THEN RunInSlot(t, IdSlot[t])
    ELSE IF Free = {} THEN Defer(RunTask(t))
    ELSE \E s \in Free : RunInSlot(t, s) \* get_available_slot

ProcessCancel(t) ==
    /\ Release(InSlotOrder(SlotsOf({t})), state, has_prompt, queue_tasks)
    /\ UNCHANGED <<n_empty_consecutive, answer>>

ProcessTask ==
    /\ loop = "process"
    /\ LET task == hand[1]
       IN  \/ task.type = "run" /\ ProcessRun(task.id)
           \/ task.type = "cancel" /\ ProcessCancel(task.target)
           \/ task.type = "next_response" /\ UNCHANGED <<queueVars, slotVars, n_empty_consecutive, answer>>
    /\ loop' = "drain"
    /\ hand' = <<>>
    /\ UNCHANGED <<batch, views, aborted, request>>

Wait ==
    /\ loop = "wait"
    /\ queue_tasks # <<>>
    /\ loop' = "drain"
    /\ UNCHANGED <<queueVars, hand, slotVars, batchVars, answer, request>>

-----------------------------------------------------------------------------
(* The main loop: update_slots *)

AllIdle ==
    /\ loop = "update"
    /\ Free = Slots
    /\ loop' = "wait"
    /\ UNCHANGED <<queueVars, hand, slotVars, batchVars, answer, request>>

CanBatchWith(s, r) == Kind[slot_task[s]] = Kind[slot_task[r]]

Prompting  == In_({"STARTED", "PROCESSING_PROMPT"})
Generating == In_({"GENERATING"})
\* Slots whose prompt update_slots refuses, or answers at once, when it starts it.
Unfit == {s \in In_({"STARTED"}) : fate[slot_task[s]] \in {"empty", "too_long"}}

\* Context shift is not for slots that share a prompt: they end with an error.
MayOutgrow == {s \in Generating : slot_task[s] \in Overlong
                                  /\ (IsParent(slot_task[s]) \/ IsChild(slot_task[s]))}

\* slot_batched when slots gen contribute a sampled token, 0 for none.
Batched(gen) ==
    LET first == IF gen # {} THEN gen ELSE Prompting \ Unfit
    IN  IF first = {} THEN 0 ELSE Min(first)

\* The slots that can share the batch.  While it has no slot_batched yet, that is
\* all; then slots like it.
Compatible(gen) ==
    LET b == Batched(gen)
    IN  {s \in Prompting \cup gen : b = 0 \/ (gen = {} /\ s < b) \/ CanBatchWith(b, s)}

\* The slots after which batch.n_tokens may reach n_batch, NSlots for none.
CutPoints(gen) == {NSlots} \cup (IF Batched(gen) = 0 THEN {} ELSE Compatible(gen) \ Unfit)

\* Mutant of Refused: a slot that outgrows its context gets an error and stays.
KeepOutgrown(outgrown, unfit) == InSlotOrder(unfit)

\* The slots released while the batch is filled, in order.
Refused(outgrown, unfit) == InSlotOrder(outgrown) \o InSlotOrder(unfit)

KillSwitch(n) == n > 3

PrepareBatch(outgrown, cut, done) ==
    LET gen     == Generating \ outgrown
        reached == {s \in Prompting \cap Compatible(gen) : s <= cut}
        unfit   == reached \cap Unfit
        \* their tokens are added to the batch, unless one that is not done cannot be
        \* split and has to wait for a batch with room for all of it
        fed     == reached \ unfit
        n_empty == IF gen \cup fed = {} THEN n_empty_consecutive + 1 ELSE 0
        Ended(what) == TasksIn({s \in unfit : fate[slot_task[s]] = what})
        errors  == TasksIn(outgrown) \cup Ended("too_long")
    IN  /\ cut \in CutPoints(gen)
        /\ done \subseteq fed
        /\ answer' = Answered(Answered(answer, errors, "error"), Ended("empty"), "final")
        /\ Release(Refused(outgrown, unfit),
                   [s \in Slots |-> IF s \in done THEN "DONE_PROMPT"
                                    ELSE IF s \in fed THEN "PROCESSING_PROMPT" ELSE state[s]],
                   has_prompt,
                   Push(queue_tasks, NextResponse, FALSE))
        /\ batch' = InSlotOrder(gen \cap Compatible(gen)) \o InSlotOrder(done)
        /\ views' = 0
        /\ n_empty_consecutive' = n_empty
        /\ aborted' = KillSwitch(n_empty)
        /\ loop' = IF gen \cup fed = {} THEN "drain" ELSE "decode"

UpdateSlots ==
    /\ loop = "update"
    /\ Free # Slots
    /\ \E outgrown \in SUBSET MayOutgrow, cut \in Slots, done \in SUBSET Prompting :
           PrepareBatch(outgrown, cut, done)
    /\ UNCHANGED <<hand, request>>

\* Mutant of Activated: the parent may still be in the middle of its prompt.
ActivatedEarly ==
    {s \in In_({"WAIT_OTHER"}) :
        \E p \in In_({"PROCESSING_PROMPT", "DONE_PROMPT"}) :
            slot_task[s] \in ToSet(ChildrenOf[slot_task[p]])}

\* The slots that wait for a parent in DONE_PROMPT, whether or not its last token
\* has been decoded.
Activated == {s \in In_({"WAIT_OTHER"}) :
                 \E p \in In_({"DONE_PROMPT"}) : slot_task[s] \in ToSet(ChildrenOf[slot_task[p]])}

\* Slots of the view: those whose i_batch is in it, children with that of their
\* parent.
Sampled(view) ==
    view \cup {s \in Activated \cup In_({"DONE_PROMPT"}) :
                  \E p \in view : slot_task[s] \in ToSet(ChildrenOf[slot_task[p]])}

\* One view of the batch, with the outputs of its first k slots, is decoded; of the
\* slots that sampled a token, those of ended stop.
DecodeView(k, ended) ==
    LET view    == ToSet(SubSeq(batch, 1, k))
        sampled == Sampled(view)
        \* a child that was activated by an earlier view lacks what came after it
        prompts == has_prompt \cup view \cup (sampled \cap Activated)
        embedded == {s \in sampled : Kind[slot_task[s]] = "embedding"}
    IN  /\ embedded \subseteq ended /\ ended \subseteq sampled
        /\ answer' = Answered(answer, TasksIn(ended), "final")
        /\ Release(InSlotOrder(ended),
                   [s \in Slots |-> IF s \in sampled THEN "GENERATING"
                                    ELSE IF s \in Activated THEN "DONE_PROMPT" ELSE state[s]],
                   prompts, queue_tasks)
        /\ batch' = SubSeq(batch, k + 1, Len(batch))

Decode ==
    /\ loop = "decode"
    /\ \E ended \in SUBSET Slots : DecodeView(Len(batch), ended)
    /\ loop' = "drain"
    /\ UNCHANGED <<views, n_empty_consecutive, aborted, hand, request>>

\* No room for the whole batch in the KV cache: n_batch is halved and a part decoded.
DecodePart ==
    /\ loop = "decode"
    /\ views < MaxViews
    /\ \E k \in 0 .. Len(batch), ended \in SUBSET Slots : DecodeView(k, ended)
    /\ views' = views + 1
    /\ UNCHANGED <<loop, n_empty_consecutive, aborted, hand, request>>

\* llama_decode fails: every slot that processes gets an error.
DecodeFails ==
    /\ loop = "decode"
    /\ answer' = Answered(answer, TasksIn(Slots \ Free), "error")
    /\ Release(InSlotOrder(Slots \ Free), state, has_prompt, queue_tasks)
    /\ batch' = <<>>
    /\ loop' = "drain"
    /\ UNCHANGED <<views, n_empty_consecutive, aborted, hand, request>>

-----------------------------------------------------------------------------
Init ==
    /\ queue_tasks = <<>>
    /\ queue_tasks_deferred = <<>>
    /\ loop = "wait"
    /\ hand = <<>>
    /\ state = [s \in Slots |-> "IDLE"]
    /\ slot_task = [s \in Slots |-> NoTask]
    /\ has_prompt = {}
    /\ batch = <<>>
    /\ views = 0
    /\ n_empty_consecutive = 0
    /\ aborted = FALSE
    /\ answer = [t \in Tasks |-> "none"]
    /\ request = [t \in Requests |-> "new"]
    /\ fate \in {f \in [Requests -> UNION {Fates[t] : t \in Requests}] :
                    \A t \in Requests : f[t] \in Fates[t]}

MainLoop ==
    \/ PopTask \/ ProcessTask \/ Wait
    \/ AllIdle \/ UpdateSlots \/ Decode \/ DecodePart \/ DecodeFails

RequestStep(t) == Complete(t) \/ Fail(t)

\* A step of a server that has not aborted; nothing changes what a prompt is.
Live(A) == ~aborted /\ A /\ UNCHANGED fate

Next ==
    \/ Live(MainLoop)
    \/ \E t \in Requests : Live(Post(t) \/ RequestStep(t) \/ Leave(t))

Spec == Init /\ [][Next]_vars

\* The main thread and the threads of the requests are scheduled.  A prompt has
\* finitely many tokens, n_batch of which are decoded at a time, and a generation
\* ends (n_predict, the end of the text, or the size of the context), so a slot that
\* is given the chance again and again gets to the end of either.
Fairness ==
    /\ WF_vars(Live(MainLoop))
    /\ \A t \in Requests : WF_vars(Live(RequestStep(t)))
    /\ \A s \in Slots :
          /\ SF_vars(Live(UpdateSlots /\ state'[s] = "DONE_PROMPT"))
          /\ SF_vars(Live(Decode /\ IsProcessing(s) /\ state'[s] = "IDLE"))

FairSpec == Spec /\ Fairness

-----------------------------------------------------------------------------
(* Properties *)

States == {"IDLE", "WAIT_OTHER", "STARTED", "PROCESSING_PROMPT", "DONE_PROMPT", "GENERATING"}
QueuedTasks ==
    {RunTask(t) : t \in Requests} \cup {CancelTask(t) : t \in Tasks} \cup {NextResponse}

\* The types of the variables: no task has two answers, and n_empty_consecutive stays
\* below the limit unless the kill switch has ended the server.
TypeOK ==
    /\ queue_tasks \in Seq(QueuedTasks)
    /\ queue_tasks_deferred \in Seq({RunTask(t) : t \in Requests})
    /\ loop \in {"wait", "drain", "process", "update", "decode"}
    /\ hand \in {<<>>} \cup {<<task>> : task \in QueuedTasks}
    /\ state \in [Slots -> States]
    /\ slot_task \in [Slots -> Tasks \cup {NoTask}]
    /\ has_prompt \subseteq Slots
    /\ batch \in Seq(Slots)
    /\ views \in 0 .. MaxViews
    /\ aborted \in BOOLEAN
    /\ n_empty_consecutive \in 0 .. (IF aborted THEN 4 ELSE 3)
    /\ answer \in [Tasks -> {"none", "final", "error"}]
    /\ request \in [Requests -> {"new", "waiting", "served", "failed", "left"}]
    /\ \A t \in Requests : fate[t] \in Fates[t]

\* The task is in a queue or in the hands of the main loop.
Carried(t) ==
    \/ In(queue_tasks, RunTask(t))
    \/ In(queue_tasks_deferred, RunTask(t))
    \/ hand = <<RunTask(t)>>

Occurrences(t) ==
    Cardinality({i \in DOMAIN queue_tasks : queue_tasks[i] = RunTask(t)})
    + Cardinality({i \in DOMAIN queue_tasks_deferred : queue_tasks_deferred[i] = RunTask(t)})
    + (IF hand = <<RunTask(t)>> THEN 1 ELSE 0)
    + Cardinality(SlotsOf({t}))

\* A task is never in two places: on its way between the deques, in the hands of the
\* main loop or in a slot it is moved, and a family does not run while its parent
\* task is still queued.
OnePlace ==
    \A t \in Requests :
        /\ Occurrences(t) <= 1
        /\ \A c \in ToSet(ChildrenOf[t]) :
              Occurrences(c) <= 1 /\ (SlotsOf({c}) # {} => Occurrences(t) = Cardinality(SlotsOf({t})))

\* A task that has been answered is in no slot and in no queue: send_final_response
\* and send_error come with release, and a task that fails to launch is dropped.
GoneWhenAnswered ==
    \A t \in Tasks : answer[t] # "none" => Occurrences(t) = 0

\* A request never waits for a task that is nowhere: each task of its family has been
\* answered, runs, or is carried by the parent task in a queue; or the request has
\* an error to read.
NobodyForgotten ==
    \A t \in Requests : request[t] = "waiting" =>
        \/ \E u \in Family(t) : answer[u] = "error"
        \/ \A u \in Family(t) : answer[u] # "none" \/ SlotsOf({u}) # {} \/ Carried(t)

\* A child only waits for a parent that is going to wake it, or that is about to
\* be cancelled together with it.
ParentOf(c) == CHOOSE p \in Tasks : c \in ToSet(ChildrenOf[p])

NoOrphans ==
    \A s \in In_({"WAIT_OTHER"}) :
        LET p == ParentOf(slot_task[s])
        IN  \/ \E r \in In_({"STARTED", "PROCESSING_PROMPT", "DONE_PROMPT"}) : slot_task[r] = p
            \/ request[p] = "waiting" /\ \E u \in Family(p) : answer[u] = "error"
            \/ hand = <<CancelTask(slot_task[s])>>
            \/ In(queue_tasks, CancelTask(slot_task[s]))

\* Stated at server-queue.h:40, "Add a new task, but defer until one slot is
\* available": when the main loop is about to wait for new tasks, and all slots are
\* free, no task is deferred.
DeferredServed == loop = "wait" => queue_tasks_deferred = <<>>

\* Every request that is not given up is answered in the end.
EveryRequestEnds == \A t \in Requests : request[t] = "waiting" ~> request[t] # "waiting"

\* Stated at server-context.cpp:2843, "when the main prompt is processed, activate all
\* child tasks too": a slot generates from its whole prompt, a child from that of its
\* parent.  (Not so for a child when a batch is decoded in parts.)
WholePrompt == \A s \in Generating : s \in has_prompt
=============================================================================
