------------------------------- MODULE Router -------------------------------
(***************************************************************************)
(* server_models (tools/server/server-models.cpp): the router that runs    *)
(* each model in a child process, loads it for the first request that      *)
(* names it, and unloads the least recently used one at models_max.        *)
(*                                                                         *)
(* For every instance there are a child process, a monitor thread that     *)
(* reads the child's output, and a stopping thread that waits on cv_stop.  *)
(* The HTTP threads and these share mapping and stopping_models under one  *)
(* mutex; every action is one critical section of it, or one step of a     *)
(* thread outside of it.                                                   *)
(*                                                                         *)
(* A wait on cv, which every change of a status notifies, is an action     *)
(* that is enabled while its predicate holds.  cv_stop is not notified     *)
(* when a child exits, so the threads blocked in it are explicit: they are *)
(* at "wait" and notify_all takes them to "woken".                         *)
(*                                                                         *)
(* The previous instance of a model has no state of its own: a load is     *)
(* possible only when its process and threads are gone (OldInstanceGone).  *)
(***************************************************************************)
EXTENDS Naturals, FiniteSets, Sequences

CONSTANTS
    Models,     \* the names in mapping
    Handlers,   \* the HTTP threads
    models_max, \* --models-max, 0 for no limit
    Lingers,    \* is there time between a child's last output and its end ?
    PipeSize,   \* bound on the messages a child has sent and nobody has read
    NoModel     \* no name

ASSUME ModelsAssumption == IsFiniteSet(Models) /\ NoModel \notin Models
ASSUME LimitAssumption  == models_max \in Nat
ASSUME LingerAssumption == Lingers \in BOOLEAN
ASSUME PipeAssumption   == PipeSize \in Nat \ {0}

VARIABLES
    status,          \* meta.status of every model
    exit_code,       \* is meta.exit_code other than 0 ?
    last_used,       \* meta.last_used, as a rank: greater is later
    stopping_models, \* server_models::stopping_models
    process,         \* the child process of the model's last instance
    failed,          \* has it ended, and with a code other than 0 ?
    pipe,            \* messages in the child's stdout, oldest first
    told,            \* has the child been sent the exit command ?
    monitor,         \* program point of the thread instance_t::th
    stopper,         \* program point of its stopping_thread
    pc,              \* program point of every HTTP thread
    op,              \* what the HTTP thread loads the model for
    target,          \* the model of its request
    victim,          \* the model unload_lru has chosen
    main,            \* program point of the main thread
    killed           \* has the router killed its own process group ?

metaVars  == <<status, exit_code, last_used>>
childVars == <<process, failed, pipe, told>>
threadVars == <<monitor, stopper>>
handlerVars == <<pc, op, target, victim>>
vars == <<metaVars, stopping_models, childVars, threadVars, handlerVars,
          main, killed>>

Statuses == {"UNLOADED", "LOADING", "LOADED", "SLEEPING"}

\* "exiting" has closed its stdout and cannot be waited for yet; "zombie" can;
\* "reaped" has been, so that subprocess_s::child is 0.
Alive     == {"loading", "ready", "sleeping"}
Processes == Alive \cup {"none", "exiting", "zombie", "reaped"}
Monitors  == {"none", "log", "erase", "join", "reap", "update", "done"}
Stoppers  == {"none", "woken", "wait", "check", "loop", "done"}
Points    == {"idle", "lru", "evict", "evicting", "load", "await", "final",
              "proxy", "touch", "unload"}
MainPoints == {"startup", "refused", "serve", "drain", "join", "exited"}

-----------------------------------------------------------------------------
(* server_model_meta *)

IsRunning(m) == status[m] \in {"LOADED", "LOADING", "SLEEPING"}
IsFailed(m)  == status[m] = "UNLOADED" /\ exit_code[m]
Active       == {m \in Models : IsRunning(m)}

\* last_used = ggml_time_ms() for the models of S: the latest from now on.
UseNow(S) ==
    last_used' = [m \in Models |->
        IF m \in S THEN Cardinality(Models)
        ELSE IF last_used[m] > 0 /\ \E s \in S : last_used[m] >= last_used[s]
             THEN last_used[m] - 1 ELSE last_used[m]]

\* The running models no running model was used before.
LeastRecent == {m \in Active : \A n \in Active : last_used[m] <= last_used[n]}

\* update_status: sets the status and the exit code of the model.
UpdateStatus(m, s, code) ==
    /\ status' = [status EXCEPT ![m] = s]
    /\ exit_code' = [exit_code EXCEPT ![m] = code]

-----------------------------------------------------------------------------
(* The child process, and what subprocess.h does with it *)

\* The process ends: it closes its stdout, and can be waited for then or later.
Exit(m, fail) ==
    /\ process' = [process EXCEPT ![m] = IF Lingers THEN "exiting" ELSE "zombie"]
    /\ failed' = [failed EXCEPT ![m] = fail]

\* subprocess_terminate sends SIGKILL to subprocess_s::child, which is 0, the
\* router's own process group, for a process that has been waited for.
Terminate(m) ==
    \/ /\ process[m] \in Alive
       /\ Exit(m, TRUE)
       /\ UNCHANGED killed
    \/ /\ process[m] \in {"exiting", "zombie"}
       /\ UNCHANGED <<process, failed, killed>>
    \/ /\ process[m] \in {"none", "reaped"}
       /\ killed' = TRUE
       /\ UNCHANGED <<process, failed>>

\* subprocess_alive waits, without blocking, for a process that has ended.
SeenAlive(m) == process[m] \in Alive \cup {"exiting"}
PollAlive(m) ==
    process' = [process EXCEPT ![m] = IF @ = "zombie" THEN "reaped" ELSE @]

NotifyNobody == UNCHANGED stopper \* a mutant of NotifyStop

NotifyStop ==
    stopper' = [m \in Models |->
                   IF stopper[m] = "wait" THEN "woken" ELSE stopper[m]]

\* setup_child_server and notify_router_sleeping_state: the child reports that
\* it is ready, or that its model is unloaded or loaded again.
Report(m, before, after, message) ==
    /\ process[m] = before
    /\ Len(pipe[m]) < PipeSize
    /\ process' = [process EXCEPT ![m] = after]
    /\ pipe' = [pipe EXCEPT ![m] = Append(@, message)]
    /\ UNCHANGED <<metaVars, stopping_models, failed, told, threadVars,
                   handlerVars, main, killed>>

ChildReady(m) == Report(m, "loading", "ready", "LOADED")
ChildSleep(m) == Report(m, "ready", "sleeping", "SLEEPING")
ChildWake(m)  == Report(m, "sleeping", "ready", "LOADED")

\* The child crashes, or cannot load its model.
ChildCrash(m) ==
    /\ process[m] \in Alive
    /\ Exit(m, TRUE)
    /\ UNCHANGED <<metaVars, stopping_models, pipe, told, threadVars,
                   handlerVars, main, killed>>

\* The thread that reads stdin, which runs once the child is ready, gets the
\* exit command and ends the child's main loop.
ChildExit(m) ==
    /\ process[m] \in {"ready", "sleeping"}
    /\ told[m]
    /\ Exit(m, FALSE)
    /\ UNCHANGED <<metaVars, stopping_models, pipe, told, threadVars,
                   handlerVars, main, killed>>

\* The operating system is done with the process: waitpid finds it.
ChildGone(m) ==
    /\ process[m] = "exiting"
    /\ process' = [process EXCEPT ![m] = "zombie"]
    /\ UNCHANGED <<metaVars, stopping_models, failed, pipe, told, threadVars,
                   handlerVars, main, killed>>

-----------------------------------------------------------------------------
(* The stopping thread of an instance *)

IsStopping(m) == m \in stopping_models

\* cv_stop.wait(lk, should_wake): the predicate polls the process only when
\* the model is not stopping.
StopperWait(m) ==
    /\ stopper[m] = "woken"
    /\ IF IsStopping(m) THEN UNCHANGED process ELSE PollAlive(m)
    /\ stopper' = [stopper EXCEPT
                      ![m] = IF IsStopping(m) \/ ~SeenAlive(m) THEN "check"
                             ELSE "wait"]
    /\ UNCHANGED <<metaVars, stopping_models, failed, pipe, told, monitor,
                   handlerVars, main, killed>>

\* Outside of the mutex: a process that has ended needs no exit command.
StopperCheck(m) ==
    /\ stopper[m] = "check"
    /\ PollAlive(m)
    /\ told' = [told EXCEPT ![m] = @ \/ SeenAlive(m)]
    /\ stopper' = [stopper EXCEPT ![m] = IF SeenAlive(m) THEN "loop" ELSE "done"]
    /\ UNCHANGED <<metaVars, stopping_models, failed, pipe, monitor,
                   handlerVars, main, killed>>

\* The loop finds that the monitor has seen the child end.
StopperReturn(m) ==
    /\ stopper[m] = "loop"
    /\ ~IsStopping(m)
    /\ stopper' = [stopper EXCEPT ![m] = "done"]
    /\ UNCHANGED <<metaVars, stopping_models, childVars, monitor, handlerVars,
                   main, killed>>

\* A mutant of StopperForce: the thread gives up.
StopperGivesUp(m) ==
    /\ stopper[m] = "loop"
    /\ IsStopping(m)
    /\ stopper' = [stopper EXCEPT ![m] = "done"]
    /\ UNCHANGED <<metaVars, stopping_models, childVars, monitor, handlerVars,
                   main, killed>>

\* stop_timeout seconds have passed.
StopperForce(m) ==
    /\ stopper[m] = "loop"
    /\ IsStopping(m)
    /\ Terminate(m)
    /\ stopper' = [stopper EXCEPT ![m] = "done"]
    /\ UNCHANGED <<metaVars, stopping_models, pipe, told, monitor, handlerVars,
                   main>>

-----------------------------------------------------------------------------
(* The monitor thread of an instance, with its log_thread *)

\* log_thread reads a message of the child and updates the status.
MonitorRead(m) ==
    /\ monitor[m] = "log"
    /\ pipe[m] # <<>>
    /\ UpdateStatus(m, Head(pipe[m]), FALSE)
    /\ pipe' = [pipe EXCEPT ![m] = Tail(@)]
    /\ UNCHANGED <<last_used, stopping_models, process, failed, told,
                   threadVars, handlerVars, main, killed>>

\* log_thread reads the end of the child's stdout, and is joined.
MonitorEof(m) ==
    /\ monitor[m] = "log"
    /\ pipe[m] = <<>>
    /\ process[m] \notin Alive
    /\ monitor' = [monitor EXCEPT ![m] = "erase"]
    /\ UNCHANGED <<metaVars, stopping_models, childVars, stopper, handlerVars,
                   main, killed>>

MonitorErase(m) ==
    /\ monitor[m] = "erase"
    /\ stopping_models' = stopping_models \ {m}
    /\ NotifyStop
    /\ monitor' = [monitor EXCEPT ![m] = "join"]
    /\ UNCHANGED <<metaVars, childVars, handlerVars, main, killed>>

\* A mutant of MonitorJoin.
MonitorDetaches(m) ==
    /\ monitor[m] = "join"
    /\ monitor' = [monitor EXCEPT ![m] = "reap"]
    /\ UNCHANGED <<metaVars, stopping_models, childVars, stopper, handlerVars,
                   main, killed>>

MonitorJoin(m) ==
    /\ monitor[m] = "join"
    /\ stopper[m] = "done"
    /\ monitor' = [monitor EXCEPT ![m] = "reap"]
    /\ UNCHANGED <<metaVars, stopping_models, childVars, stopper, handlerVars,
                   main, killed>>

\* subprocess_join waits for the process, and gives its exit code;
\* subprocess_destroy drops the files.
MonitorReap(m) ==
    /\ monitor[m] = "reap"
    /\ process[m] \in {"zombie", "reaped"}
    /\ process' = [process EXCEPT ![m] = "reaped"]
    /\ told' = [told EXCEPT ![m] = FALSE]
    /\ monitor' = [monitor EXCEPT ![m] = "update"]
    /\ UNCHANGED <<metaVars, stopping_models, failed, pipe, stopper,
                   handlerVars, main, killed>>

MonitorUpdate(m) ==
    /\ monitor[m] = "update"
    /\ UpdateStatus(m, "UNLOADED", failed[m])
    /\ failed' = [failed EXCEPT ![m] = FALSE]
    /\ monitor' = [monitor EXCEPT ![m] = "done"]
    /\ UNCHANGED <<last_used, stopping_models, process, pipe, told, stopper,
                   handlerVars, main, killed>>

-----------------------------------------------------------------------------
(* load and unload *)

\* subprocess_create_ex, and the threads that belong to the process.
Spawn(S) ==
    /\ process' = [m \in Models |-> IF m \in S THEN "loading" ELSE process[m]]
    /\ UNCHANGED <<failed, pipe, told>>
    /\ monitor' = [m \in Models |-> IF m \in S THEN "log" ELSE monitor[m]]
    /\ stopper' = [m \in Models |-> IF m \in S THEN "woken" ELSE stopper[m]]
    /\ status'  = [m \in Models |-> IF m \in S THEN "LOADING" ELSE status[m]]
    /\ UseNow(S)
    /\ UNCHANGED exit_code

\* unload: the threads of the instance do the rest.
Unload(m) ==
    /\ UNCHANGED status
    /\ \/ /\ IsRunning(m)
          /\ stopping_models' = stopping_models \cup {m}
          /\ IF status[m] = "LOADING" THEN Terminate(m)
             ELSE UNCHANGED <<process, failed, killed>>
          /\ NotifyStop
       \/ /\ ~IsRunning(m)
          /\ UNCHANGED <<stopping_models, process, failed, killed, stopper>>

\* A mutant of HasRoom.
HasRoomOffByOne == models_max = 0 \/ Cardinality(Active) <= models_max

HasRoom == models_max = 0 \/ Cardinality(Active) < models_max

Goto(h, from, to) ==
    /\ pc[h] = from
    /\ pc' = [pc EXCEPT ![h] = to]

\* The request is answered, or refused.
Finish(h, from) ==
    /\ Goto(h, from, "idle")
    /\ op' = [op EXCEPT ![h] = "none"]
    /\ target' = [target EXCEPT ![h] = NoModel]

-----------------------------------------------------------------------------
(* The HTTP threads *)

\* The first point of a request for model m: read its meta and decide.
Begin(h, m, what, to) ==
    /\ main = "serve"
    /\ Goto(h, "idle", to)
    /\ op' = [op EXCEPT ![h] = what]
    /\ target' = [target EXCEPT ![h] = m]
    /\ UNCHANGED <<victim, metaVars, stopping_models, childVars, threadVars,
                   main, killed>>

\* proxy_get, proxy_post: ensure_model_ready with autoload, else the model
\* has to be running.
BeginRequest(h, m) ==
    \/ status[m] \in {"LOADED", "SLEEPING"} /\ Begin(h, m, "request", "proxy")
    \/ status[m] = "UNLOADED" /\ Begin(h, m, "request", "lru")
    \/ status[m] = "LOADING"
         /\ (Begin(h, m, "request", "await") \/ Begin(h, m, "request", "proxy"))

\* post_router_models_load and post_router_models_unload.
BeginLoad(h, m)   == ~IsRunning(m) /\ Begin(h, m, "load", "lru")
BeginUnload(h, m) == IsRunning(m) /\ Begin(h, m, "unload", "unload")

HandlerUnload(h) ==
    /\ Finish(h, "unload")
    /\ Unload(target[h])
    /\ UNCHANGED <<victim, exit_code, last_used, pipe, told, monitor, main>>

\* unload_lru: choose under the mutex, unload after it.  No model is chosen
\* when all were used within the current millisecond.
LruRoom(h) ==
    /\ Goto(h, "lru", "load")
    /\ UNCHANGED <<op, target, victim, metaVars, stopping_models, childVars,
                   threadVars, main, killed>>

LruChoose(h) ==
    /\ ~HasRoom
    /\ Goto(h, "lru", "evict")
    /\ \E m \in LeastRecent : victim' = [victim EXCEPT ![h] = m]
    /\ UNCHANGED <<op, target, metaVars, stopping_models, childVars,
                   threadVars, main, killed>>

LruUnload(h) ==
    /\ Goto(h, "evict", "evicting")
    /\ Unload(victim[h])
    /\ UNCHANGED <<op, target, victim, exit_code, last_used, pipe, told,
                   monitor, main>>

LruWait(h) ==
    /\ Goto(h, "evicting", "load")
    /\ status[victim[h]] = "UNLOADED"
    /\ victim' = [victim EXCEPT ![h] = NoModel]
    /\ UNCHANGED <<op, target, metaVars, stopping_models, childVars,
                   threadVars, main, killed>>

\* What the thread does when load has returned.
AfterLoad(h) ==
    IF op[h] = "request"
    THEN Goto(h, "load", "await") /\ UNCHANGED <<op, target>>
    ELSE Finish(h, "load")

\* load, under the mutex: somebody else has loaded the model ...
LoadNothing(h) ==
    /\ AfterLoad(h)
    /\ IsRunning(target[h])
    /\ UNCHANGED <<victim, metaVars, stopping_models, childVars, threadVars,
                   main, killed>>

\* ... the limit is reached again, or there is no port or no process ...
LoadThrows(h) ==
    /\ Finish(h, "load")
    /\ ~IsRunning(target[h])
    /\ UNCHANGED <<victim, metaVars, stopping_models, childVars, threadVars,
                   main, killed>>

\* ... or the new instance replaces the old one, whose thread is joined.
LoadSpawns(h) ==
    /\ AfterLoad(h)
    /\ ~IsRunning(target[h])
    /\ HasRoom
    /\ monitor[target[h]] \in {"none", "done"}
    /\ Spawn({target[h]})
    /\ UNCHANGED <<victim, stopping_models, main, killed>>

\* wait_until_loading_finished.
AwaitLoading(h) ==
    /\ Goto(h, "await", "final")
    /\ status[target[h]] # "LOADING"
    /\ UNCHANGED <<op, target, victim, metaVars, stopping_models, childVars,
                   threadVars, main, killed>>

\* ensure_model_ready looks at the meta once more, and throws or returns.
FinalCheck(h) ==
    /\ \/ Finish(h, "final") /\ IsFailed(target[h])
       \/ /\ Goto(h, "final", "proxy")
          /\ ~IsFailed(target[h])
          /\ UNCHANGED <<op, target>>
    /\ UNCHANGED <<victim, metaVars, stopping_models, childVars, threadVars,
                   main, killed>>

\* proxy_request throws unless the model runs; a GET leaves last_used alone.
Proxy(h) ==
    /\ \/ Finish(h, "proxy")
       \/ /\ Goto(h, "proxy", "touch")
          /\ IsRunning(target[h])
          /\ UNCHANGED <<op, target>>
    /\ UNCHANGED <<victim, metaVars, stopping_models, childVars, threadVars,
                   main, killed>>

Touch(h) ==
    /\ Finish(h, "touch")
    /\ UseNow({target[h]})
    /\ UNCHANGED <<victim, status, exit_code, stopping_models, childVars,
                   threadVars, main, killed>>

-----------------------------------------------------------------------------
(* The main thread *)

\* load_models refuses more models with load-on-startup than models_max, and loads
\* them otherwise.  A load may throw for want of a port or a process.  When the first
\* does, the router gives up as well; when a later one does, it dies with the thread
\* of an instance still joinable, which is not modelled.
Startup ==
    /\ main = "startup"
    /\ \E S \in SUBSET Models :
         \/ /\ Cardinality(S) > models_max \/ S # {}
            /\ main' = "refused"
            /\ UNCHANGED <<metaVars, childVars, threadVars>>
         \/ /\ ~(Cardinality(S) > models_max)
            /\ main' = "serve"
            /\ Spawn(S)
    /\ UNCHANGED <<stopping_models, handlerVars, killed>>

\* A signal stops the HTTP server: no request begins.
StopServing ==
    /\ main = "serve"
    /\ main' = "drain"
    /\ UNCHANGED <<metaVars, stopping_models, childVars, threadVars,
                   handlerVars, killed>>

NotDrained == TRUE \* a mutant of Drained

\* The thread of the HTTP server ends when its workers have.
Drained == \A h \in Handlers : pc[h] = "idle"

\* unload_all: stop what runs, then join every thread.
UnloadAll ==
    /\ main = "drain"
    /\ Drained
    /\ main' = "join"
    /\ stopping_models' = stopping_models \cup Active
    /\ IF Active = {} THEN UNCHANGED stopper ELSE NotifyStop
    /\ UNCHANGED <<metaVars, childVars, monitor, handlerVars, killed>>

JoinAll ==
    /\ main = "join"
    /\ \A m \in Models : monitor[m] \in {"none", "done"}
    /\ main' = "exited"
    /\ UNCHANGED <<metaVars, stopping_models, childVars, threadVars,
                   handlerVars, killed>>

-----------------------------------------------------------------------------
Init ==
    /\ status = [m \in Models |-> "UNLOADED"]
    /\ exit_code = [m \in Models |-> FALSE]
    /\ last_used = [m \in Models |-> 0]
    /\ stopping_models = {}
    /\ process = [m \in Models |-> "none"]
    /\ failed = [m \in Models |-> FALSE]
    /\ pipe = [m \in Models |-> <<>>]
    /\ told = [m \in Models |-> FALSE]
    /\ monitor = [m \in Models |-> "none"]
    /\ stopper = [m \in Models |-> "none"]
    /\ pc = [h \in Handlers |-> "idle"]
    /\ op = [h \in Handlers |-> "none"]
    /\ target = [h \in Handlers |-> NoModel]
    /\ victim = [h \in Handlers |-> NoModel]
    /\ main = "startup"
    /\ killed = FALSE

\* SIGKILL to the process group ends the router and its children.
Child(m)   == ~killed /\ (\/ ChildReady(m) \/ ChildSleep(m) \/ ChildWake(m)
                          \/ ChildCrash(m) \/ ChildExit(m) \/ ChildGone(m))
Stopper(m) == ~killed /\ (\/ StopperWait(m) \/ StopperCheck(m)
                          \/ StopperReturn(m) \/ StopperForce(m))
Monitor(m) == ~killed /\ (\/ MonitorRead(m) \/ MonitorEof(m) \/ MonitorErase(m)
                          \/ MonitorJoin(m) \/ MonitorReap(m)
                          \/ MonitorUpdate(m))
Request(h) == ~killed /\ \E m \in Models :
                            \/ BeginRequest(h, m)
                            \/ BeginLoad(h, m)
                            \/ BeginUnload(h, m)
Handler(h) == ~killed /\ (\/ HandlerUnload(h) \/ LruRoom(h) \/ LruChoose(h)
                          \/ LruUnload(h) \/ LruWait(h) \/ LoadNothing(h)
                          \/ LoadThrows(h) \/ LoadSpawns(h) \/ AwaitLoading(h)
                          \/ FinalCheck(h) \/ Proxy(h) \/ Touch(h))
Main       == ~killed /\ (Startup \/ StopServing \/ UnloadAll \/ JoinAll)

Next ==
    \/ \E m \in Models : Child(m) \/ Stopper(m) \/ Monitor(m)
    \/ \E h \in Handlers : Request(h) \/ Handler(h)
    \/ Main

Spec == Init /\ [][Next]_vars

\* The router's threads run, a process that has closed its files goes away,
\* and a second of waiting passes.  Nothing is assumed of a child: it may be
\* loading, or ignore the exit command, for ever; nor of requests and signals.
Fairness ==
    /\ \A m \in Models :
         /\ WF_vars(~killed /\ ChildGone(m))
         /\ WF_vars(Stopper(m))
         /\ WF_vars(Monitor(m))
    /\ \A h \in Handlers : WF_vars(Handler(h))
    /\ WF_vars(~killed /\ (UnloadAll \/ JoinAll))

FairSpec == Spec /\ Fairness

-----------------------------------------------------------------------------
(* Properties *)

TypeOK ==
    /\ status \in [Models -> Statuses]
    /\ exit_code \in [Models -> BOOLEAN]
    /\ last_used \in [Models -> Nat]
    /\ stopping_models \subseteq Models
    /\ process \in [Models -> Processes]
    /\ failed \in [Models -> BOOLEAN]
    /\ pipe \in [Models -> Seq({"LOADED", "SLEEPING"})]
    /\ told \in [Models -> BOOLEAN]
    /\ monitor \in [Models -> Monitors]
    /\ stopper \in [Models -> Stoppers]
    /\ pc \in [Handlers -> Points]
    /\ op \in [Handlers -> {"none", "request", "load", "unload"}]
    /\ target \in [Handlers -> Models \cup {NoModel}]
    /\ victim \in [Handlers -> Models \cup {NoModel}]
    /\ main \in MainPoints
    /\ killed \in BOOLEAN

\* When a model is UNLOADED its process has been waited for and both its
\* threads are past their last use of the mutex: load, which holds the mutex,
\* neither finds the old process alive nor waits in join for a thread that
\* waits for the mutex.
OldInstanceGone ==
    \A m \in Models : status[m] = "UNLOADED" =>
        /\ process[m] \in {"none", "reaped"}
        /\ monitor[m] \in {"none", "done"}
        /\ stopper[m] \in {"none", "done"}

\* However many requests load models at once, the processes that exist, those
\* on their way out included, are never more than models_max.
LimitHolds ==
    models_max > 0 =>
        Cardinality({m \in Models : process[m] \notin {"none", "reaped"}})
            <= models_max

\* When the router has exited it has left no child behind.
NoOrphans ==
    main = "exited" => \A m \in Models : process[m] \in {"none", "reaped"}

\* A model somebody unloads is unloaded, whatever its child does: a child that
\* ignores the exit command, or is still loading, is killed.
UnloadEnds ==
    \A m \in Models : IsStopping(m) ~> (status[m] = "UNLOADED" \/ killed)

\* Once the requests have drained, the router exits.
ExitEnds == main = "join" ~> (main = "exited" \/ killed)

\* The stopping thread monitors "stopping signal OR child crash": the monitor
\* of a child that has ended does not wait for it for ever.
CrashIsNoticed ==
    \A m \in Models : monitor[m] = "join" ~> (monitor[m] = "done" \/ killed)
=============================================================================
