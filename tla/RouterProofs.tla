---------------------------- MODULE RouterProofs ----------------------------
(***************************************************************************)
(* Theorems about Router, for every finite set of models, every set of     *)
(* HTTP threads and every limit.  They follow from one inductive           *)
(* invariant, IInv: what the program points of the two threads of an       *)
(* instance say about its status and its process (Instance), that a        *)
(* request names a model (Aims), that the models which run are within the  *)
(* limit (WithinLimit), and what has ended when the main thread is where   *)
(* it is (MainInv).                                                        *)
(***************************************************************************)
EXTENDS Router, FiniteSetTheorems, TLAPS

\* A model is UNLOADED before its first monitor begins and when its last one
\* has ended, and its process lives only while the monitor reads its output.
Instance(m) ==
    /\ status[m] = "UNLOADED" <=> monitor[m] \in {"none", "done"}
    /\ monitor[m] = "none" <=> process[m] = "none"
    /\ monitor[m] = "none" <=> stopper[m] = "none"
    /\ process[m] \in Alive => monitor[m] = "log"
    /\ monitor[m] \in {"reap", "update", "done"} => stopper[m] = "done"
    /\ monitor[m] \in {"update", "done"} => process[m] = "reaped"

Instances == \A m \in Models : Instance(m)

\* A request in service names a model, and so does the choice of unload_lru.
Aims ==
    \A h \in Handlers :
        /\ pc[h] # "idle" => target[h] \in Models
        /\ pc[h] \in {"evict", "evicting"} => victim[h] \in Models

\* No more models run than the limit allows.
WithinLimit == models_max > 0 => Cardinality(Active) <= models_max

\* Nothing runs before the start, nobody serves a request then nor once
\* unload_all has begun, and every monitor has ended when it returns.
MainInv ==
    /\ main = "startup" => \A m \in Models : monitor[m] = "none"
    /\ main \in {"startup", "join", "exited"} =>
          \A h \in Handlers : pc[h] = "idle"
    /\ main = "exited" => \A m \in Models : monitor[m] \in {"none", "done"}

IInv ==
    /\ TypeOK
    /\ Instances
    /\ Aims
    /\ WithinLimit
    /\ MainInv

\* The actions of the HTTP threads that leave the instances alone.
Aside(h) ==
    \/ \E m \in Models : \/ BeginRequest(h, m)
                         \/ BeginLoad(h, m)
                         \/ BeginUnload(h, m)
    \/ LruRoom(h) \/ LruChoose(h) \/ LruWait(h) \/ LoadNothing(h)
    \/ LoadThrows(h) \/ AwaitLoading(h) \/ FinalCheck(h) \/ Proxy(h) \/ Touch(h)

-----------------------------------------------------------------------------
(* Steps *)

\* A step is one of a child, a stopping thread or a monitor, an unload or a
\* load of an HTTP thread, another action of one, or one of the main thread.
LEMMA Steps ==
    ASSUME Next
    PROVE  \/ \E m \in Models : Child(m) \/ Stopper(m) \/ Monitor(m)
           \/ \E h \in Handlers : \/ HandlerUnload(h)
                                  \/ LruUnload(h)
                                  \/ LoadSpawns(h)
                                  \/ Aside(h)
           \/ Main
  BY DEF Next, Request, Handler, Aside

\* What the other actions of an HTTP thread leave alone.
LEMMA AsideFrame ==
    ASSUME NEW h \in Handlers, Aside(h)
    PROVE  UNCHANGED <<status, exit_code, stopping_models, childVars,
                       threadVars, main, killed>>
  BY DEF Aside, BeginRequest, BeginLoad, BeginUnload, Begin, LruRoom, LruChoose,
         LruWait, LoadNothing, LoadThrows, AwaitLoading, FinalCheck, Proxy,
         Touch, metaVars, childVars, threadVars

\* A rank stays a rank.
LEMMA UseNowType ==
    ASSUME NEW S, last_used \in [Models -> Nat], UseNow(S)
    PROVE  last_used' \in [Models -> Nat]
<1>1. Cardinality(Models) \in Nat
  BY ModelsAssumption, FS_CardinalityType
<1>2. ASSUME NEW m \in Models
      PROVE  last_used'[m] \in Nat
  <2>1. last_used[m] \in Nat
    OBVIOUS
  <2> QED  BY <1>1, <2>1 DEF UseNow
<1> QED  BY <1>2 DEF UseNow

-----------------------------------------------------------------------------
(* The types *)

\* A step of a child, or of the threads of an instance, keeps the types.
LEMMA InstanceTypes ==
    ASSUME TypeOK, NEW m \in Models, Child(m) \/ Stopper(m) \/ Monitor(m)
    PROVE  TypeOK'
<1> USE DEF TypeOK, metaVars, childVars, threadVars, handlerVars
<1>1. CASE Child(m)
  <2>1. CASE ChildReady(m) \/ ChildSleep(m) \/ ChildWake(m)
    <3>1. \A message \in {"LOADED", "SLEEPING"} :
              Append(pipe[m], message) \in Seq({"LOADED", "SLEEPING"})
      <4>1. pipe[m] \in Seq({"LOADED", "SLEEPING"})
        OBVIOUS
      <4> QED  BY <4>1
    <3>2. ASSUME NEW before, NEW after \in {"ready", "sleeping"},
                 NEW message \in {"LOADED", "SLEEPING"},
                 Report(m, before, after, message)
          PROVE  TypeOK'
      BY <3>1, <3>2 DEF Report, Processes, Alive
    <3> QED  BY <2>1, <3>2 DEF ChildReady, ChildSleep, ChildWake
  <2>2. CASE ChildCrash(m) \/ ChildExit(m) \/ ChildGone(m)
    BY <2>2 DEF ChildCrash, ChildExit, ChildGone, Exit, Processes, Alive
  <2> QED  BY <1>1, <2>1, <2>2 DEF Child
<1>2. CASE Stopper(m)
  <2>1. CASE StopperWait(m) \/ StopperCheck(m)
    BY <2>1 DEF StopperWait, StopperCheck, PollAlive, SeenAlive, Processes, Stoppers
  <2>2. CASE StopperReturn(m)
    BY <2>2 DEF StopperReturn, Stoppers
  <2>3. CASE StopperForce(m)
    BY <2>3 DEF StopperForce, Terminate, Exit, Processes, Stoppers
  <2> QED  BY <1>2, <2>1, <2>2, <2>3 DEF Stopper
<1>3. CASE Monitor(m)
  <2>1. CASE MonitorRead(m)
    <3>1. /\ Head(pipe[m]) \in {"LOADED", "SLEEPING"}
          /\ Tail(pipe[m]) \in Seq({"LOADED", "SLEEPING"})
      <4>1. pipe[m] \in Seq({"LOADED", "SLEEPING"}) /\ pipe[m] # <<>>
        BY <2>1 DEF MonitorRead
      <4> QED  BY <4>1
    <3> QED  BY <2>1, <3>1 DEF MonitorRead, UpdateStatus, Statuses
  <2>2. CASE MonitorEof(m) \/ MonitorErase(m) \/ MonitorJoin(m)
    BY <2>2 DEF MonitorEof, MonitorErase, MonitorJoin, NotifyStop, Monitors, Stoppers
  <2>3. CASE MonitorReap(m)
    BY <2>3 DEF MonitorReap, Processes, Monitors
  <2>4. CASE MonitorUpdate(m)
    BY <2>4 DEF MonitorUpdate, UpdateStatus, Monitors, Statuses
  <2> QED  BY <1>3, <2>1, <2>2, <2>3, <2>4 DEF Monitor
<1> QED  BY <1>1, <1>2, <1>3

\* A load keeps the types.
LEMMA SpawnTypes ==
    ASSUME TypeOK, NEW S, Spawn(S)
    PROVE  /\ status' \in [Models -> Statuses]
           /\ exit_code' \in [Models -> BOOLEAN]
           /\ last_used' \in [Models -> Nat]
           /\ process' \in [Models -> Processes]
           /\ failed' \in [Models -> BOOLEAN]
           /\ pipe' \in [Models -> Seq({"LOADED", "SLEEPING"})]
           /\ told' \in [Models -> BOOLEAN]
           /\ monitor' \in [Models -> Monitors]
           /\ stopper' \in [Models -> Stoppers]
<1>1. last_used' \in [Models -> Nat]
  BY UseNowType DEF Spawn, TypeOK
<1> QED  BY <1>1 DEF Spawn, TypeOK, Statuses, Processes, Alive, Monitors, Stoppers

\* An unload keeps the types.
LEMMA UnloadTypes ==
    ASSUME TypeOK, NEW m \in Models, Unload(m)
    PROVE  /\ status' \in [Models -> Statuses]
           /\ stopping_models' \subseteq Models
           /\ process' \in [Models -> Processes]
           /\ failed' \in [Models -> BOOLEAN]
           /\ stopper' \in [Models -> Stoppers]
           /\ killed' \in BOOLEAN
  BY DEF Unload, TypeOK, Terminate, Exit, NotifyStop, Processes, Stoppers

\* An action of an HTTP thread keeps the types.
LEMMA HandlerTypes ==
    ASSUME TypeOK, Aims, NEW h \in Handlers,
           HandlerUnload(h) \/ LruUnload(h) \/ LoadSpawns(h) \/ Aside(h)
    PROVE  TypeOK'
<1>1. CASE HandlerUnload(h)
  <2>1. target[h] \in Models
    BY <1>1 DEF HandlerUnload, Finish, Goto, Aims
  <2> QED  BY <1>1, <2>1, UnloadTypes DEF HandlerUnload, Finish, Goto, TypeOK, Points
<1>2. CASE LruUnload(h)
  <2>1. victim[h] \in Models
    BY <1>2 DEF LruUnload, Goto, Aims
  <2> QED  BY <1>2, <2>1, UnloadTypes DEF LruUnload, Goto, TypeOK, Points
<1>3. CASE LoadSpawns(h)
  <2>1. Spawn({target[h]})
    BY <1>3 DEF LoadSpawns
  <2> QED
    BY <1>3, <2>1, SpawnTypes
    DEF LoadSpawns, AfterLoad, Finish, Goto, TypeOK, Points
<1>4. CASE Aside(h)
  <2>1. UNCHANGED <<status, exit_code, stopping_models, childVars, threadVars,
                    main, killed>>
    BY <1>4, AsideFrame
  <2>2. last_used' \in [Models -> Nat]
    <3>1. CASE Touch(h)
      BY <3>1, UseNowType DEF Touch, TypeOK
    <3>2. CASE ~Touch(h)
      BY <1>4, <3>2
      DEF Aside, BeginRequest, BeginLoad, BeginUnload, Begin, LruRoom, LruChoose,
          LruWait, LoadNothing, LoadThrows, AwaitLoading, FinalCheck, Proxy,
          metaVars, TypeOK
    <3> QED  BY <3>1, <3>2
  <2>3. /\ pc' \in [Handlers -> Points]
        /\ op' \in [Handlers -> {"none", "request", "load", "unload"}]
        /\ target' \in [Handlers -> Models \cup {NoModel}]
        /\ victim' \in [Handlers -> Models \cup {NoModel}]
    <3> USE DEF TypeOK, Goto, Finish, Points
    <3>1. CASE \E m \in Models : \/ BeginRequest(h, m)
                                 \/ BeginLoad(h, m)
                                 \/ BeginUnload(h, m)
      <4>1. PICK m \in Models, what \in {"request", "load", "unload"},
                 to \in {"proxy", "lru", "await", "unload"} : Begin(h, m, what, to)
        BY <3>1, Zenon DEF BeginRequest, BeginLoad, BeginUnload
      <4>2. to \in Points
        OBVIOUS
      <4>3. /\ pc' = [pc EXCEPT ![h] = to] /\ op' = [op EXCEPT ![h] = what]
            /\ target' = [target EXCEPT ![h] = m] /\ victim' = victim
        BY <4>1 DEF Begin
      <4> QED  BY <4>2, <4>3
    <3>2. CASE LruRoom(h) \/ LruChoose(h) \/ LruWait(h)
      BY <3>2 DEF LruRoom, LruChoose, LruWait, LeastRecent, Active
    <3>3. CASE LoadNothing(h) \/ LoadThrows(h)
      BY <3>3 DEF LoadNothing, LoadThrows, AfterLoad
    <3>4. CASE AwaitLoading(h) \/ FinalCheck(h) \/ Proxy(h) \/ Touch(h)
      BY <3>4 DEF AwaitLoading, FinalCheck, Proxy, Touch
    <3> QED  BY <1>4, <3>1, <3>2, <3>3, <3>4 DEF Aside
  <2> QED  BY <2>1, <2>2, <2>3 DEF TypeOK, childVars, threadVars
<1> QED  BY <1>1, <1>2, <1>3, <1>4

\* An action of the main thread keeps the types.
LEMMA MainTypes ==
    ASSUME TypeOK, Main
    PROVE  TypeOK'
<1> USE DEF metaVars, childVars, threadVars, handlerVars, MainPoints
<1>1. CASE Startup
  <2>1. PICK S \in SUBSET Models :
            \/ main' = "refused" /\ UNCHANGED <<metaVars, childVars, threadVars>>
            \/ main' = "serve" /\ Spawn(S)
    BY <1>1 DEF Startup
  <2>2. CASE main' = "serve" /\ Spawn(S)
    BY <1>1, <2>2, SpawnTypes DEF Startup, TypeOK
  <2> QED  BY <1>1, <2>1, <2>2 DEF Startup, TypeOK
<1>2. CASE StopServing \/ JoinAll
  BY <1>2 DEF StopServing, JoinAll, TypeOK
<1>3. CASE UnloadAll
  BY <1>3 DEF UnloadAll, NotifyStop, Active, Stoppers, TypeOK
<1> QED  BY <1>1, <1>2, <1>3 DEF Main

\* Every step keeps the types.
LEMMA TypeStep ==
    ASSUME TypeOK, Aims, Next
    PROVE  TypeOK'
  BY Steps, InstanceTypes, HandlerTypes, MainTypes

-----------------------------------------------------------------------------
(* The instances *)

\* A step of a child, or of the threads of an instance, leaves the other
\* instances alone and keeps its own in order.
LEMMA InstanceStep ==
    ASSUME TypeOK, Instances, NEW m \in Models,
           Child(m) \/ Stopper(m) \/ Monitor(m)
    PROVE  Instances'
<1> USE DEF TypeOK, metaVars, childVars, threadVars, handlerVars, Alive
<1> SUFFICES ASSUME NEW n \in Models
             PROVE  Instance(n)'
  BY DEF Instances
<1> Instance(n) /\ Instance(m)
  BY DEF Instances
<1> USE DEF Instance
<1>1. CASE Child(m)
  <2>1. CASE ChildReady(m) \/ ChildSleep(m) \/ ChildWake(m)
    BY <2>1 DEF ChildReady, ChildSleep, ChildWake, Report
  <2>2. CASE ChildCrash(m) \/ ChildExit(m) \/ ChildGone(m)
    BY <2>2 DEF ChildCrash, ChildExit, ChildGone, Exit
  <2> QED  BY <1>1, <2>1, <2>2 DEF Child
<1>2. CASE Stopper(m)
  <2>1. CASE StopperWait(m) \/ StopperCheck(m)
    BY <2>1 DEF StopperWait, StopperCheck, PollAlive, SeenAlive
  <2>2. CASE StopperReturn(m)
    BY <2>2 DEF StopperReturn
  <2>3. CASE StopperForce(m)
    BY <2>3 DEF StopperForce, Terminate, Exit
  <2> QED  BY <1>2, <2>1, <2>2, <2>3 DEF Stopper
<1>3. CASE Monitor(m)
  <2>1. CASE MonitorRead(m)
    <3>1. Head(pipe[m]) \in {"LOADED", "SLEEPING"}
      <4>1. pipe[m] \in Seq({"LOADED", "SLEEPING"}) /\ pipe[m] # <<>>
        BY <2>1 DEF MonitorRead
      <4> QED  BY <4>1
    <3> QED  BY <2>1, <3>1 DEF MonitorRead, UpdateStatus
  <2>2. CASE MonitorEof(m) \/ MonitorErase(m) \/ MonitorJoin(m)
    BY <2>2 DEF MonitorEof, MonitorErase, MonitorJoin, NotifyStop
  <2>3. CASE MonitorReap(m) \/ MonitorUpdate(m)
    BY <2>3 DEF MonitorReap, MonitorUpdate, UpdateStatus
  <2> QED  BY <1>3, <2>1, <2>2, <2>3 DEF Monitor
<1> QED  BY <1>1, <1>2, <1>3

\* Instances that are loaded when no other instance of the model is there.
LEMMA SpawnInstances ==
    ASSUME TypeOK, Instances, NEW S, Spawn(S)
    PROVE  Instances'
  BY DEF TypeOK, Instances, Instance, Spawn, Alive

\* An unload.
LEMMA UnloadInstances ==
    ASSUME TypeOK, Instances, NEW m \in Models, Unload(m), UNCHANGED monitor
    PROVE  Instances'
<1> SUFFICES ASSUME NEW n \in Models
             PROVE  Instance(n)'
  BY DEF Instances
<1>1. Instance(n) /\ Instance(m)
  BY DEF Instances
<1>2. CASE ~IsRunning(m)
  BY <1>1, <1>2 DEF Unload, Instance
<1>3. CASE IsRunning(m)
  <2>1. stopper'[n] = "none" <=> stopper[n] = "none"
    BY <1>3 DEF Unload, NotifyStop, TypeOK
  <2>2. stopper[n] = "done" => stopper'[n] = "done"
    BY <1>3 DEF Unload, NotifyStop, TypeOK
  <2>3. /\ process'[n] = "none" <=> process[n] = "none"
        /\ process'[n] \in Alive => process[n] \in Alive
        /\ process[n] = "reaped" => process'[n] = "reaped"
    BY <1>3 DEF Unload, Terminate, Exit, TypeOK, Alive
  <2> QED  BY <1>1, <1>3, <2>1, <2>2, <2>3 DEF Unload, Instance
<1> QED  BY <1>2, <1>3

\* An action of an HTTP thread.
LEMMA HandlerInstances ==
    ASSUME TypeOK, Instances, Aims, NEW h \in Handlers,
           HandlerUnload(h) \/ LruUnload(h) \/ LoadSpawns(h) \/ Aside(h)
    PROVE  Instances'
<1>1. CASE HandlerUnload(h)
  <2>1. target[h] \in Models
    BY <1>1 DEF HandlerUnload, Finish, Goto, Aims
  <2> QED  BY <1>1, <2>1, UnloadInstances DEF HandlerUnload
<1>2. CASE LruUnload(h)
  <2>1. victim[h] \in Models
    BY <1>2 DEF LruUnload, Goto, Aims
  <2> QED  BY <1>2, <2>1, UnloadInstances DEF LruUnload
<1>3. CASE LoadSpawns(h)
  BY <1>3, SpawnInstances DEF LoadSpawns
<1>4. CASE Aside(h)
  BY <1>4, AsideFrame DEF Instances, Instance, childVars, threadVars
<1> QED  BY <1>1, <1>2, <1>3, <1>4

\* An action of the main thread.
LEMMA MainInstances ==
    ASSUME TypeOK, Instances, Main
    PROVE  Instances'
<1> USE DEF metaVars, childVars, threadVars
<1>1. CASE Startup
  <2>1. CASE UNCHANGED <<metaVars, childVars, threadVars>>
    BY <2>1 DEF Instances, Instance
  <2> QED  BY <1>1, <2>1, SpawnInstances DEF Startup
<1>2. CASE StopServing \/ JoinAll
  BY <1>2 DEF StopServing, JoinAll, Instances, Instance
<1>3. CASE UnloadAll
  BY <1>3 DEF UnloadAll, NotifyStop, TypeOK, Instances, Instance
<1> QED  BY <1>1, <1>2, <1>3 DEF Main

-----------------------------------------------------------------------------
(* The requests *)

\* A request keeps its model until it ends, and a choice of unload_lru until
\* the model is unloaded.
LEMMA AimsStep ==
    ASSUME TypeOK, Aims, Next
    PROVE  Aims'
<1> USE DEF TypeOK, metaVars, childVars, threadVars, handlerVars
<1>1. CASE \E m \in Models : Child(m) \/ Stopper(m) \/ Monitor(m)
  <2>1. UNCHANGED handlerVars
    BY <1>1
    DEF Child, ChildReady, ChildSleep, ChildWake, Report, ChildCrash, ChildExit,
        ChildGone, Stopper, StopperWait, StopperCheck, StopperReturn,
        StopperForce, Monitor, MonitorRead, MonitorEof, MonitorErase,
        MonitorJoin, MonitorReap, MonitorUpdate
  <2> QED  BY <2>1 DEF Aims
<1>2. ASSUME NEW h \in Handlers,
             HandlerUnload(h) \/ LruUnload(h) \/ LoadSpawns(h) \/ Aside(h)
      PROVE  Aims'
  <2> SUFFICES ASSUME NEW i \in Handlers
               PROVE  /\ pc'[i] # "idle" => target'[i] \in Models
                      /\ pc'[i] \in {"evict", "evicting"} => victim'[i] \in Models
    BY DEF Aims
  <2>0. /\ pc[i] # "idle" => target[i] \in Models
        /\ pc[i] \in {"evict", "evicting"} => victim[i] \in Models
    BY DEF Aims
  <2> USE DEF Goto, Finish
  <2>1. CASE HandlerUnload(h) \/ LruUnload(h)
    BY <2>0, <2>1 DEF HandlerUnload, LruUnload
  <2>2. CASE LoadSpawns(h)
    BY <2>0, <2>2 DEF LoadSpawns, AfterLoad
  <2>3. CASE \E m \in Models : \/ BeginRequest(h, m)
                               \/ BeginLoad(h, m)
                               \/ BeginUnload(h, m)
    BY <2>0, <2>3 DEF BeginRequest, BeginLoad, BeginUnload, Begin
  <2>4. CASE LruRoom(h) \/ LruChoose(h) \/ LruWait(h)
    BY <2>0, <2>4 DEF LruRoom, LruChoose, LruWait, LeastRecent, Active
  <2>5. CASE LoadNothing(h) \/ LoadThrows(h)
    BY <2>0, <2>5 DEF LoadNothing, LoadThrows, AfterLoad
  <2>6. CASE AwaitLoading(h) \/ FinalCheck(h) \/ Proxy(h) \/ Touch(h)
    BY <2>0, <2>6 DEF AwaitLoading, FinalCheck, Proxy, Touch
  <2> QED  BY <1>2, <2>1, <2>2, <2>3, <2>4, <2>5, <2>6 DEF Aside
<1>3. CASE Main
  <2>1. UNCHANGED handlerVars
    BY <1>3 DEF Main, Startup, StopServing, UnloadAll, JoinAll
  <2> QED  BY <2>1 DEF Aims
<1> QED  BY <1>1, <1>2, <1>3, Steps

-----------------------------------------------------------------------------
(* The limit *)

\* The models that run are finitely many.
LEMMA ActiveFinite == IsFiniteSet(Active) /\ Cardinality(Active) \in Nat
<1>1. Active \subseteq Models
  BY DEF Active
<1> QED  BY <1>1, ModelsAssumption, FS_Subset, FS_CardinalityType

\* While no more models run than before, the limit holds.
LEMMA FewerRun ==
    ASSUME WithinLimit, Active' \subseteq Active
    PROVE  WithinLimit'
<1>1. /\ Cardinality(Active') \in Nat
      /\ Cardinality(Active') <= Cardinality(Active)
  BY ActiveFinite, FS_Subset, FS_CardinalityType
<1>2. Cardinality(Active) \in Nat
  BY ActiveFinite
<1>3. Cardinality(Active)' = Cardinality(Active')
  OBVIOUS
<1> QED  BY <1>1, <1>2, <1>3, LimitAssumption DEF WithinLimit

\* A step of a child, or of the threads of an instance, starts no model: the
\* monitor that reads a message of the child finds the model running.
LEMMA InstanceStartsNone ==
    ASSUME TypeOK, Instances, NEW m \in Models,
           Child(m) \/ Stopper(m) \/ Monitor(m)
    PROVE  Active' \subseteq Active
<1> USE DEF TypeOK, metaVars, childVars, threadVars, handlerVars, Active, IsRunning
<1>1. CASE Child(m) \/ Stopper(m)
  BY <1>1
  DEF Child, ChildReady, ChildSleep, ChildWake, Report, ChildCrash, ChildExit,
      ChildGone, Stopper, StopperWait, StopperCheck, StopperReturn, StopperForce
<1>2. CASE MonitorRead(m)
  <2>1. status[m] # "UNLOADED"
    BY <1>2 DEF MonitorRead, Instances, Instance
  <2> QED  BY <1>2, <2>1 DEF MonitorRead, UpdateStatus, Statuses
<1>3. CASE MonitorEof(m) \/ MonitorErase(m) \/ MonitorJoin(m) \/ MonitorReap(m)
  BY <1>3 DEF MonitorEof, MonitorErase, MonitorJoin, MonitorReap
<1>4. CASE MonitorUpdate(m)
  BY <1>4 DEF MonitorUpdate, UpdateStatus
<1> QED  BY <1>1, <1>2, <1>3, <1>4 DEF Monitor

\* A load starts the models it is for.
LEMMA SpawnStarts ==
    ASSUME TypeOK, NEW S \in SUBSET Models, Spawn(S)
    PROVE  Active' = Active \cup S
  BY DEF TypeOK, Spawn, Active, IsRunning

\* load has room for one more model when it starts it, and the start refuses
\* more models than the limit.
LEMMA LimitStep ==
    ASSUME TypeOK, Instances, Aims, WithinLimit, MainInv, Next
    PROVE  WithinLimit'
<1> USE DEF metaVars
<1>1. CASE \E m \in Models : Child(m) \/ Stopper(m) \/ Monitor(m)
  BY <1>1, InstanceStartsNone, FewerRun
<1>2. ASSUME NEW h \in Handlers, LoadSpawns(h)
      PROVE  WithinLimit'
  <2>1. target[h] \in Models /\ HasRoom
    BY <1>2 DEF LoadSpawns, AfterLoad, Finish, Goto, Aims
  <2>2. Active' = Active \cup {target[h]}
    BY <1>2, <2>1, SpawnStarts DEF LoadSpawns
  <2>3. Cardinality(Active') <= Cardinality(Active) + 1
    BY <2>2, ActiveFinite, FS_AddElement
  <2>4. Cardinality(Active') \in Nat
    BY <2>2, ActiveFinite, FS_AddElement, FS_CardinalityType
  <2>5. Cardinality(Active)' = Cardinality(Active')
    OBVIOUS
  <2>6. models_max = 0 \/ Cardinality(Active) < models_max
    BY <2>1 DEF HasRoom
  <2>7. Cardinality(Active) \in Nat
    BY ActiveFinite
  <2> QED  BY <2>3, <2>4, <2>5, <2>6, <2>7, LimitAssumption DEF WithinLimit
<1>3. ASSUME NEW h \in Handlers, HandlerUnload(h) \/ LruUnload(h) \/ Aside(h)
      PROVE  WithinLimit'
  <2>1. UNCHANGED status
    BY <1>3, AsideFrame DEF HandlerUnload, LruUnload, Unload
  <2> QED  BY <2>1, FewerRun DEF Active, IsRunning
<1>4. CASE Startup
  <2>1. PICK S \in SUBSET Models :
            \/ UNCHANGED status
            \/ ~(Cardinality(S) > models_max) /\ Spawn(S)
    BY <1>4 DEF Startup
  <2>2. CASE UNCHANGED status
    BY <2>2, FewerRun DEF Active, IsRunning
  <2>3. CASE ~(Cardinality(S) > models_max) /\ Spawn(S)
    <3>1. Active = {}
      BY <1>4 DEF Startup, MainInv, Instances, Instance, Active, IsRunning
    <3>2. Active' = S
      BY <2>3, <3>1, SpawnStarts
    <3>3. Cardinality(S) \in Nat
      BY ModelsAssumption, FS_Subset, FS_CardinalityType
    <3>4. Cardinality(Active)' = Cardinality(S)
      BY <3>2
    <3> QED  BY <2>3, <3>3, <3>4, LimitAssumption DEF WithinLimit
  <2> QED  BY <2>1, <2>2, <2>3
<1>5. CASE StopServing \/ UnloadAll \/ JoinAll
  BY <1>5, FewerRun DEF StopServing, UnloadAll, JoinAll, Active, IsRunning
<1> QED  BY <1>1, <1>2, <1>3, <1>4, <1>5, Steps DEF Main

-----------------------------------------------------------------------------
(* The main thread *)

\* A monitor that has not begun does not begin, and one that has ended stays
\* so, unless the model is loaded.
LEMMA MonitorsStay ==
    ASSUME TypeOK, NEW m \in Models, Child(m) \/ Stopper(m) \/ Monitor(m),
           NEW n \in Models
    PROVE  /\ monitor[n] = "none" => monitor'[n] = "none"
           /\ monitor[n] = "done" => monitor'[n] = "done"
  BY DEF TypeOK, metaVars, childVars, threadVars, handlerVars,
      Child, ChildReady, ChildSleep, ChildWake, Report, ChildCrash, ChildExit,
      ChildGone, Stopper, StopperWait, StopperCheck, StopperReturn, StopperForce,
      Monitor, MonitorRead, MonitorEof, MonitorErase, MonitorJoin, MonitorReap,
      MonitorUpdate

\* The threads of the instances leave the main thread and the requests alone.
LEMMA InstanceFrame ==
    ASSUME NEW m \in Models, Child(m) \/ Stopper(m) \/ Monitor(m)
    PROVE  UNCHANGED <<main, pc>>
  BY DEF metaVars, childVars, threadVars, handlerVars,
      Child, ChildReady, ChildSleep, ChildWake, Report, ChildCrash, ChildExit,
      ChildGone, Stopper, StopperWait, StopperCheck, StopperReturn, StopperForce,
      Monitor, MonitorRead, MonitorEof, MonitorErase, MonitorJoin, MonitorReap,
      MonitorUpdate

\* A request begins while the main thread serves, and goes on from a point
\* that is not idle.
LEMMA HandlerBusy ==
    ASSUME NEW h \in Handlers,
           HandlerUnload(h) \/ LruUnload(h) \/ LoadSpawns(h) \/ Aside(h)
    PROVE  main = "serve" \/ pc[h] # "idle"
<1> USE DEF Goto, Finish
<1>1. CASE \E m \in Models : \/ BeginRequest(h, m)
                             \/ BeginLoad(h, m)
                             \/ BeginUnload(h, m)
  BY <1>1 DEF BeginRequest, BeginLoad, BeginUnload, Begin
<1>2. CASE HandlerUnload(h) \/ LruUnload(h) \/ LoadSpawns(h)
  BY <1>2 DEF HandlerUnload, LruUnload, LoadSpawns, AfterLoad
<1>3. CASE \/ LruRoom(h) \/ LruChoose(h) \/ LruWait(h) \/ LoadNothing(h)
           \/ LoadThrows(h) \/ AwaitLoading(h) \/ FinalCheck(h) \/ Proxy(h)
           \/ Touch(h)
  BY <1>3 DEF LruRoom, LruChoose, LruWait, LoadNothing, LoadThrows, AfterLoad,
              AwaitLoading, FinalCheck, Proxy, Touch
<1> QED  BY <1>1, <1>2, <1>3 DEF Aside

\* Requests begin after the start, and none is left when unload_all begins.
LEMMA MainStep ==
    ASSUME TypeOK, MainInv, Next
    PROVE  MainInv'
<1>1. CASE \E m \in Models : Child(m) \/ Stopper(m) \/ Monitor(m)
  BY <1>1, InstanceFrame, MonitorsStay DEF MainInv
<1>2. ASSUME NEW h \in Handlers,
             HandlerUnload(h) \/ LruUnload(h) \/ LoadSpawns(h) \/ Aside(h)
      PROVE  MainInv'
  <2>1. main \notin {"startup", "join", "exited"}
    BY <1>2, HandlerBusy DEF MainInv
  <2>2. UNCHANGED main
    BY <1>2, AsideFrame DEF HandlerUnload, LruUnload, LoadSpawns
  <2> QED  BY <2>1, <2>2 DEF MainInv
<1>3. CASE Main
  BY <1>3 DEF Main, Startup, StopServing, UnloadAll, JoinAll, Drained, MainInv,
              metaVars, childVars, threadVars, handlerVars
<1> QED  BY <1>1, <1>2, <1>3, Steps

-----------------------------------------------------------------------------
(* The theorems *)

\* IInv is an invariant.
THEOREM Invariance == Spec => []IInv
<1>1. Init => IInv
  <2> SUFFICES ASSUME Init
               PROVE  IInv
    OBVIOUS
  <2>1. TypeOK
    <3>1. <<>> \in Seq({"LOADED", "SLEEPING"})
      OBVIOUS
    <3> QED
      BY <3>1 DEF Init, TypeOK, Statuses, Processes, Monitors, Stoppers, Points,
                  MainPoints
  <2>2. Instances
    BY DEF Init, Instances, Instance, Alive
  <2>3. Aims
    BY DEF Init, Aims
  <2>4. WithinLimit
    <3>1. Active = {}
      BY DEF Init, Active, IsRunning
    <3> QED  BY <3>1, FS_EmptySet, LimitAssumption DEF WithinLimit
  <2>5. MainInv
    BY DEF Init, MainInv
  <2> QED  BY <2>1, <2>2, <2>3, <2>4, <2>5 DEF IInv
<1>2. IInv /\ [Next]_vars => IInv'
  <2> SUFFICES ASSUME IInv, [Next]_vars
               PROVE  IInv'
    OBVIOUS
  <2>0. TypeOK /\ Instances /\ Aims /\ WithinLimit /\ MainInv
    BY DEF IInv
  <2>1. CASE Next
    <3>1. TypeOK'
      BY <2>0, <2>1, TypeStep
    <3>2. Instances'
      BY <2>0, <2>1, Steps, InstanceStep, HandlerInstances, MainInstances
    <3>3. Aims'
      BY <2>0, <2>1, AimsStep
    <3>4. WithinLimit'
      BY <2>0, <2>1, LimitStep
    <3>5. MainInv'
      BY <2>0, <2>1, MainStep
    <3> QED  BY <3>1, <3>2, <3>3, <3>4, <3>5 DEF IInv
  <2>2. CASE UNCHANGED vars
    <3> USE <2>2 DEF vars, metaVars, childVars, threadVars, handlerVars
    <3>1. TypeOK'
      BY <2>0 DEF TypeOK
    <3>2. Instances' /\ Aims' /\ MainInv'
      BY <2>0 DEF Instances, Instance, Aims, MainInv
    <3>3. WithinLimit'
      BY <2>0 DEF WithinLimit, Active, IsRunning
    <3> QED  BY <3>1, <3>2, <3>3 DEF IInv
  <2> QED  BY <2>1, <2>2
<1> QED  BY <1>1, <1>2, PTL DEF Spec

\* The variables have their types in every reachable state.
THEOREM TypeCorrect == Spec => []TypeOK
<1>1. IInv => TypeOK
  BY DEF IInv
<1> QED  BY <1>1, Invariance, PTL

\* When update_status has set a model to UNLOADED, its process has been waited
\* for and both threads of the instance are past the mutex, so that load, which
\* replaces the instance with the mutex locked, waits for none of them.
THEOREM InstanceReplacedWhenGone == Spec => []OldInstanceGone
<1>1. IInv => OldInstanceGone
  BY DEF IInv, Instances, Instance, OldInstanceGone
<1> QED  BY <1>1, Invariance, PTL

\* The processes that exist are of models that run.
LEMMA ProcessesRun ==
    ASSUME TypeOK, Instances
    PROVE  {m \in Models : process[m] \notin {"none", "reaped"}} \subseteq Active
<1> SUFFICES ASSUME NEW m \in Models, process[m] \notin {"none", "reaped"}
             PROVE  m \in Active
  OBVIOUS
<1>1. status[m] # "UNLOADED"
  BY DEF Instances, Instance
<1>2. status[m] \in Statuses
  BY DEF TypeOK
<1> QED  BY <1>1, <1>2 DEF Active, IsRunning, Statuses

\* unload_lru makes room outside of the mutex, and load looks again inside of
\* it: requests for several models never have more processes than models_max.
THEOREM LimitOfProcesses == Spec => []LimitHolds
<1>1. IInv => LimitHolds
  <2> SUFFICES ASSUME IInv, models_max > 0
               PROVE  Cardinality({m \in Models :
                                      process[m] \notin {"none", "reaped"}})
                          <= models_max
    BY DEF LimitHolds
  <2> DEFINE P == {m \in Models : process[m] \notin {"none", "reaped"}}
  <2>1. P \subseteq Active
    BY ProcessesRun DEF IInv
  <2> HIDE DEF P
  <2>2. Cardinality(P) <= Cardinality(Active) /\ Cardinality(P) \in Nat
    BY <2>1, ActiveFinite, FS_Subset, FS_CardinalityType
  <2>3. Cardinality(Active) <= models_max /\ Cardinality(Active) \in Nat
    BY ActiveFinite DEF IInv, WithinLimit
  <2>4. Cardinality(P) <= models_max
    BY <2>2, <2>3, LimitAssumption
  <2> QED  BY <2>4 DEF P
<1> QED  BY <1>1, Invariance, PTL

\* unload_all joins the monitor of every instance, and a monitor ends only when
\* it has waited for its process: the router leaves no child behind.
THEOREM NoChildLeftBehind == Spec => []NoOrphans
<1>1. IInv => NoOrphans
  BY DEF IInv, MainInv, Instances, Instance, NoOrphans
<1> QED  BY <1>1, Invariance, PTL
=============================================================================
