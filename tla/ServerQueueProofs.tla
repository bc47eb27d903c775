-------------------------- MODULE ServerQueueProofs --------------------------
(***************************************************************************)
(* Theorems about ServerQueue, for every set of workers, any number of     *)
(* slots and with sleeping enabled or not.  They follow from one inductive *)
(* invariant, IInv, which                                                  *)
(* adds to the properties what makes them inductive: which task the main   *)
(* loop holds at which program point, that a cancel task only exists for a *)
(* cancelled request, and that the loop never waits with a slot active and *)
(* an empty queue.                                                         *)
(***************************************************************************)
EXTENDS ServerQueue, Integers, TLAPS

-----------------------------------------------------------------------------
(* What the operators of TaskQueue do to the elements of a deque *)

\* A push adds the task and nothing else, at either end.
LEMMA PushProperties ==
    ASSUME NEW T, NEW q \in Seq(T), NEW t \in T, NEW front
    PROVE  /\ Push(q, t, front) \in Seq(T)
           /\ Push(q, t, front) # <<>>
           /\ \A u : In(Push(q, t, front), u) <=> u = t \/ In(q, u)
<1>1. CASE front
  <2> DEFINE r == <<t>> \o q
  <2>1. Push(q, t, front) = r BY <1>1 DEF Push
  <2>2. r \in Seq(T) /\ Len(r) = Len(q) + 1 /\ r[1] = t OBVIOUS
  <2>3. \A i \in 1 .. Len(q) : r[i + 1] = q[i] OBVIOUS
  <2>4. ASSUME NEW u PROVE In(r, u) <=> u = t \/ In(q, u)
    <3>1. ASSUME In(r, u) PROVE u = t \/ In(q, u)
      <4>1. PICK i \in DOMAIN r : r[i] = u BY <3>1 DEF In
      <4>2. i = 1 \/ i - 1 \in 1 .. Len(q) BY <2>2
      <4>3. CASE i = 1 BY <4>1, <4>3, <2>2
      <4>4. CASE i - 1 \in 1 .. Len(q)
        <5>1. r[(i - 1) + 1] = q[i - 1] BY <4>4, <2>3
        <5>2. i \in Int BY <2>2
        <5> QED BY <5>1, <5>2, <4>1, <4>4 DEF In
      <4> QED BY <4>2, <4>3, <4>4
    <3>2. ASSUME u = t PROVE In(r, u) BY <3>2, <2>2 DEF In
    <3>3. ASSUME In(q, u) PROVE In(r, u)
      <4>1. PICK i \in 1 .. Len(q) : q[i] = u BY <3>3 DEF In
      <4>2. i + 1 \in DOMAIN r /\ r[i + 1] = u BY <4>1, <2>2, <2>3
      <4> QED BY <4>2 DEF In
    <3> QED BY <3>1, <3>2, <3>3
  <2>5. r # <<>> BY <2>2
  <2> QED BY <2>1, <2>2, <2>4, <2>5
<1>2. CASE ~front
  <2> DEFINE r == Append(q, t)
  <2>1. Push(q, t, front) = r BY <1>2 DEF Push
  <2>2. r \in Seq(T) /\ Len(r) = Len(q) + 1 /\ r[Len(q) + 1] = t OBVIOUS
  <2>3. \A i \in 1 .. Len(q) : r[i] = q[i] OBVIOUS
  <2>4. DOMAIN r = 1 .. Len(q) + 1 /\ DOMAIN q = 1 .. Len(q) /\ Len(q) \in Nat BY <2>2
  <2>5. ASSUME NEW u PROVE In(r, u) <=> u = t \/ In(q, u)
    <3> HIDE DEF r
    <3> QED BY <2>2, <2>3, <2>4 DEF In
  <2>6. r # <<>> BY <2>2
  <2> QED BY <2>1, <2>2, <2>5, <2>6
<1> QED BY <1>1, <1>2

\* Dropping position i shortens the deque and keeps what is elsewhere.
LEMMA DropAtProperties ==
    ASSUME NEW T, NEW q \in Seq(T), NEW i \in DOMAIN q
    PROVE  /\ DropAt(q, i) \in Seq(T)
           /\ \A u : In(DropAt(q, i), u) <=> \E j \in DOMAIN q : j # i /\ q[j] = u
<1> DEFINE r == DropAt(q, i)
<1>1. Len(q) \in Nat /\ Len(q) > 0 /\ DOMAIN q = 1 .. Len(q) /\ i \in 1 .. Len(q)
  OBVIOUS
<1>2. DOMAIN r = 1 .. Len(q) - 1
      /\ \A j \in 1 .. Len(q) - 1 : r[j] = IF j < i THEN q[j] ELSE q[j + 1]
  BY DEF DropAt
<1>3. r \in Seq(T)
  <2>1. \A j \in 1 .. Len(q) - 1 : r[j] \in T BY <1>1, <1>2
  <2>2. r \in [1 .. Len(q) - 1 -> T] BY <2>1 DEF DropAt
  <2> QED BY <2>2, <1>1
<1>4. ASSUME NEW u PROVE In(r, u) <=> \E j \in DOMAIN q : j # i /\ q[j] = u
  <2>1. ASSUME In(r, u) PROVE \E j \in DOMAIN q : j # i /\ q[j] = u
    <3>1. PICK k \in 1 .. Len(q) - 1 : r[k] = u BY <2>1, <1>2 DEF In
    <3>2. CASE k < i BY <3>1, <3>2, <1>1, <1>2
    <3>3. CASE ~(k < i)
      <4>1. q[k + 1] = u /\ k + 1 \in DOMAIN q /\ k + 1 # i BY <3>1, <3>3, <1>1, <1>2
      <4> QED BY <4>1
    <3> QED BY <3>2, <3>3
  <2>2. ASSUME NEW j \in DOMAIN q, j # i, q[j] = u PROVE In(r, u)
    <3>1. CASE j < i
      <4>1. j \in 1 .. Len(q) - 1 /\ r[j] = u BY <2>2, <3>1, <1>1, <1>2
      <4> QED BY <4>1, <1>2 DEF In
    <3>2. CASE j > i
      <4>1. j - 1 \in 1 .. Len(q) - 1 /\ ~(j - 1 < i) /\ (j - 1) + 1 = j
        BY <3>2, <1>1
      <4>2. r[j - 1] = u BY <4>1, <2>2, <1>2
      <4> QED BY <4>1, <4>2, <1>2 DEF In
    <3> QED BY <2>2, <3>1, <3>2, <1>1
  <2> QED BY <2>1, <2>2
<1> QED BY <1>3, <1>4

\* An identifier that occurs at most once still does after a push of another task,
\* of a task that is not in the deque yet.
LEMMA PushOnce ==
    ASSUME NEW T, NEW q \in Seq(T), NEW t \in T, NEW front,
           NEW id, OccursOnce(q, id), t.id = id => ~Holds(q, id)
    PROVE  OccursOnce(Push(q, t, front), id)
<1>1. CASE front
  <2> DEFINE r == <<t>> \o q
  <2>1. Push(q, t, front) = r BY <1>1 DEF Push
  <2>2. Len(r) = Len(q) + 1 /\ r[1] = t /\ DOMAIN r = 1 .. Len(q) + 1 OBVIOUS
  <2>3. \A i \in 2 .. Len(q) + 1 : i - 1 \in DOMAIN q /\ r[i] = q[i - 1] OBVIOUS
  <2>4. \A i \in DOMAIN r : i = 1 \/ i \in 2 .. Len(q) + 1 BY <2>2
  <2>5. SUFFICES ASSUME NEW i \in DOMAIN r, NEW j \in DOMAIN r, r[i].id = id, r[j].id = id
                 PROVE  i = j
    BY <2>1 DEF OccursOnce
  <2>6. CASE i = 1 /\ j = 1 BY <2>6
  <2>7. CASE i = 1 /\ j \in 2 .. Len(q) + 1
    BY <2>2, <2>3, <2>5, <2>7 DEF Holds
  <2>8. CASE j = 1 /\ i \in 2 .. Len(q) + 1
    BY <2>2, <2>3, <2>5, <2>8 DEF Holds
  <2>9. CASE i \in 2 .. Len(q) + 1 /\ j \in 2 .. Len(q) + 1
    <3>1. i - 1 = j - 1 BY <2>3, <2>5, <2>9 DEF OccursOnce
    <3> QED BY <3>1, <2>9
  <2> QED BY <2>4, <2>6, <2>7, <2>8, <2>9
<1>2. CASE ~front
  <2> DEFINE r == Append(q, t)
  <2>1. Push(q, t, front) = r BY <1>2 DEF Push
  <2>2. DOMAIN r = 1 .. Len(q) + 1 /\ DOMAIN q = 1 .. Len(q) /\ Len(q) \in Nat
    OBVIOUS
  <2>3. r[Len(q) + 1] = t /\ \A i \in 1 .. Len(q) : r[i] = q[i] OBVIOUS
  <2> HIDE DEF r
  <2> QED BY <2>1, <2>2, <2>3 DEF OccursOnce, Holds
<1> QED BY <1>1, <1>2

\* And after a drop.
LEMMA DropAtOnce ==
    ASSUME NEW T, NEW q \in Seq(T), NEW i \in DOMAIN q, NEW id, OccursOnce(q, id)
    PROVE  OccursOnce(DropAt(q, i), id)
<1> DEFINE r == DropAt(q, i)
           At(j) == IF j < i THEN j ELSE j + 1
<1>1. Len(q) \in Nat /\ DOMAIN q = 1 .. Len(q) /\ i \in 1 .. Len(q) OBVIOUS
<1>2. DOMAIN r = 1 .. Len(q) - 1 BY DEF DropAt
<1>3. \A j \in DOMAIN r : At(j) \in DOMAIN q /\ r[j] = q[At(j)] BY <1>1, <1>2 DEF DropAt
<1>4. \A j, k \in DOMAIN r : At(j) = At(k) => j = k BY <1>1, <1>2
<1> HIDE DEF r, At
<1>5. OccursOnce(r, id) BY <1>3, <1>4 DEF OccursOnce
<1> QED BY <1>5 DEF r

\* Without drops the task with the identifier id, if there is one, and no other.
LEMMA WithoutProperties ==
    ASSUME NEW T, NEW q \in Seq(T), NEW id, OccursOnce(q, id)
    PROVE  /\ Without(q, id) \in Seq(T)
           /\ \A u : In(Without(q, id), u) <=> In(q, u) /\ u.id # id
           /\ \A x : OccursOnce(q, x) => OccursOnce(Without(q, id), x)
<1>1. CASE Holds(q, id)
  <2> DEFINE i == CHOOSE i \in DOMAIN q : q[i].id = id
  <2>1. i \in DOMAIN q /\ q[i].id = id BY <1>1 DEF Holds
  <2> HIDE DEF i
  <2>2. \A j \in DOMAIN q : j # i <=> q[j].id # id BY <2>1 DEF OccursOnce
  <2>3. Without(q, id) = DropAt(q, i) BY <1>1 DEF Without, i
  <2>4. \A u : In(DropAt(q, i), u) <=> \E j \in DOMAIN q : j # i /\ q[j] = u
    BY <2>1, DropAtProperties
  <2>5. DropAt(q, i) \in Seq(T) BY <2>1, DropAtProperties
  <2>6. \A x : OccursOnce(q, x) => OccursOnce(DropAt(q, i), x) BY <2>1, DropAtOnce
  <2>7. \A u : In(DropAt(q, i), u) <=> In(q, u) /\ u.id # id
    BY <2>2, <2>4 DEF In
  <2> QED BY <2>3, <2>5, <2>6, <2>7
<1>2. CASE ~Holds(q, id)
  <2>1. Without(q, id) = q BY <1>2 DEF Without
  <2>2. \A u : In(q, u) => u.id # id BY <1>2 DEF In, Holds
  <2> QED BY <2>1, <2>2
<1> QED BY <1>1, <1>2

\* The front and the rest of a deque that is not empty.
LEMMA PopProperties ==
    ASSUME NEW T, NEW q \in Seq(T), q # <<>>
    PROVE  /\ Head(q) \in T
           /\ Tail(q) \in Seq(T)
           /\ \A u : In(q, u) <=> u = Head(q) \/ In(Tail(q), u)
           /\ \A x : OccursOnce(q, x) => OccursOnce(Tail(q), x)
           /\ \A x : OccursOnce(q, x) /\ Head(q).id = x => ~Holds(Tail(q), x)
<1> DEFINE r == Tail(q)
<1>1. Len(q) \in Nat /\ Len(q) > 0 /\ DOMAIN q = 1 .. Len(q) OBVIOUS
<1>2. Head(q) = q[1] /\ Head(q) \in T /\ r \in Seq(T) BY <1>1
<1>3. DOMAIN r = 1 .. Len(q) - 1 /\ \A i \in 1 .. Len(q) - 1 : r[i] = q[i + 1] BY <1>1
<1> HIDE DEF r
<1>4. \A i \in DOMAIN r : i + 1 \in DOMAIN q /\ i + 1 # 1 /\ r[i] = q[i + 1] BY <1>1, <1>3
<1>5. \A i \in DOMAIN q : i # 1 => i - 1 \in DOMAIN r /\ r[i - 1] = q[i]
  <2> SUFFICES ASSUME NEW i \in DOMAIN q, i # 1 PROVE i - 1 \in DOMAIN r /\ r[i - 1] = q[i]
    OBVIOUS
  <2>1. i - 1 \in 1 .. Len(q) - 1 /\ (i - 1) + 1 = i BY <1>1
  <2> QED BY <2>1, <1>3
<1>6. 1 \in DOMAIN q BY <1>1
<1>7. \A u : In(q, u) <=> u = Head(q) \/ In(r, u) BY <1>2, <1>4, <1>5, <1>6 DEF In
<1>8. \A i, j \in DOMAIN r : i + 1 = j + 1 => i = j BY <1>1, <1>3
<1>9. \A x : OccursOnce(q, x) => OccursOnce(r, x)
  <2> SUFFICES ASSUME NEW x, OccursOnce(q, x),
                      NEW i \in DOMAIN r, NEW j \in DOMAIN r, r[i].id = x, r[j].id = x
               PROVE  i = j
    BY DEF OccursOnce
  <2>1. i + 1 = j + 1 BY <1>4 DEF OccursOnce
  <2> QED BY <2>1, <1>8
<1>10. \A x : OccursOnce(q, x) /\ Head(q).id = x => ~Holds(r, x)
  <2> SUFFICES ASSUME NEW x, OccursOnce(q, x), Head(q).id = x, NEW i \in DOMAIN r, r[i].id = x
               PROVE  FALSE
    BY DEF Holds
  <2>1. i + 1 \in DOMAIN q /\ i + 1 # 1 /\ q[i + 1].id = x /\ q[1].id = x BY <1>2, <1>4
  <2> QED BY <2>1, <1>6 DEF OccursOnce
<1> QED BY <1>2, <1>7, <1>9, <1>10 DEF r

-----------------------------------------------------------------------------
(* The inductive invariant *)

\* The main loop has a task in hand from the pop to the callback.
HandInv == (task # NoTask) <=> (loop = "process")

\* A cancel task is for a request that was cancelled.
CancelInv ==
    \A w \in Workers :
        InQueue(CancelTask(w)) \/ InHand(CancelTask(w)) => request[w] = "cancelled"

\* Where the model is not loaded, and what keeps it loaded.
LoadInv ==
    /\ ~loaded => /\ active = {}
                  /\ loop \in {"asleep", "drain", "returned"}
                  /\ loop = "drain" => ~running
    /\ \/ loop = "decode"
       \/ loop \in {"wait", "timed_wait"} /\ active # {}
       => queue_tasks # <<>>

\* Is the task of w anywhere ?
Somewhere(w) ==
    \/ InQueue(RequestTask(w)) \/ Deferred(RequestTask(w)) \/ InHand(RequestTask(w))
    \/ w \in active \/ w \in processed

\* The task of w is in one place at most.
Apart(w) ==
    /\ InQueue(RequestTask(w)) =>
          /\ ~Deferred(RequestTask(w)) /\ ~InHand(RequestTask(w))
          /\ w \notin active /\ w \notin processed
    /\ Deferred(RequestTask(w)) =>
          ~InHand(RequestTask(w)) /\ w \notin active /\ w \notin processed
    /\ InHand(RequestTask(w)) => w \notin active /\ w \notin processed
    /\ w \in active => w \notin processed

\* ExactlyOnePlace with the places spelled out.
PlaceInv ==
    \A w \in Workers :
        /\ OccursOnce(queue_tasks, w) /\ OccursOnce(queue_tasks_deferred, w)
        /\ Apart(w)
        /\ request[w] \in {"new", "blocked", "prepare"} => ~Somewhere(w)
        /\ request[w] \in {"posted", "served"} => Somewhere(w)

IInv ==
    /\ TypeOK
    /\ HandInv
    /\ CancelInv
    /\ LoadInv
    /\ PlaceInv
    /\ CancelNotOutrun
    /\ NobodyWaitsWhenAwake

-----------------------------------------------------------------------------
(* Tasks *)

\* Tasks of different kinds or for different workers are different tasks.
LEMMA TaskFacts ==
    /\ \A w \in Workers : /\ RequestTask(w) \in Requests
                          /\ RequestTask(w) \in Tasks /\ CancelTask(w) \in Tasks
                          /\ RequestTask(w).id = w /\ RequestTask(w).type = "request"
                          /\ CancelTask(w).type = "cancel" /\ CancelTask(w).target = w
                          /\ CancelTask(w).id \notin Workers
    /\ NextResponse \in Tasks /\ NextResponse.id \notin Workers
    /\ NextResponse.type = "next_response"
    /\ NoTask \notin Tasks
    /\ Main \notin Workers
    /\ Requests \subseteq Tasks
    /\ \A t \in Requests : \E w \in Workers : t = RequestTask(w)
    /\ \A t \in Tasks : \/ \E w \in Workers : t = RequestTask(w) \/ t = CancelTask(w)
                        \/ t = NextResponse
<1>1. \A w \in Workers : /\ RequestTask(w).id = w /\ RequestTask(w).type = "request"
                          /\ CancelTask(w).type = "cancel" /\ CancelTask(w).target = w
                          /\ CancelTask(w).id = "fresh"
  BY DEF RequestTask, CancelTask
<1>2. NextResponse.type = "next_response" /\ NextResponse.id = "fresh" /\ NoTask.type = "none"
  BY DEF NextResponse, NoTask
<1>3. "fresh" \notin Workers /\ Main \notin Workers BY WorkersAssumption
<1>4. \A t \in Requests : \E w \in Workers : t = RequestTask(w) BY DEF Requests
<1>5. \A t \in Tasks : \/ \E w \in Workers : t = RequestTask(w) \/ t = CancelTask(w)
                       \/ t = NextResponse
  BY <1>4 DEF Tasks
<1>6. NoTask \notin Tasks BY <1>1, <1>2, <1>5
<1>7. /\ NextResponse \in Tasks /\ Requests \subseteq Tasks
      /\ \A w \in Workers : RequestTask(w) \in Requests /\ CancelTask(w) \in Tasks
  BY DEF Tasks, Requests
<1> QED BY <1>1, <1>2, <1>3, <1>4, <1>5, <1>6, <1>7

\* And are told apart.
LEMMA Different ==
    \A v, w \in Workers :
        /\ RequestTask(v) = RequestTask(w) <=> v = w
        /\ CancelTask(v) = CancelTask(w) <=> v = w
        /\ RequestTask(v) # CancelTask(w) /\ CancelTask(w) # RequestTask(v)
        /\ NextResponse # RequestTask(v) /\ NextResponse # CancelTask(v)
        /\ NoTask # RequestTask(v) /\ NoTask # CancelTask(v)
BY TaskFacts

\* The identifier of a worker is that of its request's task only.
LEMMA RequestIds ==
    ASSUME NEW q \in Seq(Tasks), NEW w \in Workers
    PROVE  Holds(q, w) <=> In(q, RequestTask(w))
<1>1. \A t \in Tasks : t.id = w <=> t = RequestTask(w) BY TaskFacts
<1>2. \A i \in DOMAIN q : q[i] \in Tasks OBVIOUS
<1> QED BY <1>1, <1>2 DEF Holds, In

\* The deferred tasks are tasks.
LEMMA DeferredTasks ==
    ASSUME IInv
    PROVE  /\ queue_tasks \in Seq(Tasks)
           /\ queue_tasks_deferred \in Seq(Requests)
           /\ queue_tasks_deferred \in Seq(Tasks)
<1>1. Requests \subseteq Tasks BY TaskFacts
<1> QED BY <1>1 DEF IInv, TypeOK

-----------------------------------------------------------------------------
(* The steps *)

\* It holds at first.
LEMMA InitIInv == Init => IInv
<1> SUFFICES ASSUME Init PROVE IInv OBVIOUS
<1>1. /\ queue_tasks = <<>> /\ queue_tasks \in Seq(Tasks)
      /\ queue_tasks_deferred = <<>> /\ queue_tasks_deferred \in Seq(Requests)
  BY DEF Init
<1>2. \A u : ~In(queue_tasks, u) /\ ~In(queue_tasks_deferred, u) BY <1>1 DEF In
<1>3. \A x : OccursOnce(queue_tasks, x) /\ OccursOnce(queue_tasks_deferred, x)
  BY <1>1 DEF OccursOnce
<1>4. TypeOK BY <1>1 DEF Init, TypeOK, LoopStates, RequestStates
<1>5. \A t \in Tasks : task # t BY TaskFacts DEF Init
<1> QED
  BY <1>2, <1>3, <1>4, <1>5, TaskFacts
  DEF Init, IInv, HandInv, CancelInv, LoadInv, PlaceInv, Apart, Somewhere, CancelNotOutrun,
      NobodyWaitsWhenAwake, InQueue, Deferred, InHand

\* The steps that do not touch the deques, the hand, the slots or the requests.
LEMMA QuietStep ==
    ASSUME IInv, UNCHANGED <<queue_tasks, queue_tasks_deferred, task, active, processed,
                             late, request>>
    PROVE  CancelInv' /\ PlaceInv' /\ CancelNotOutrun'
BY DEF IInv, CancelInv, PlaceInv, Apart, Somewhere, CancelNotOutrun, InQueue, Deferred, InHand

\* The steps of a worker that leave everything but its own program point.
LEMMA RequestStep ==
    ASSUME IInv, UNCHANGED <<queue_tasks, queue_tasks_deferred, task, active, processed, late>>,
           \A v \in Workers :
              \/ request'[v] = request[v]
              \/ /\ request[v] \in {"new", "blocked", "prepare"}
                 /\ request'[v] \in {"new", "blocked", "prepare"}
              \/ request[v] = "posted" /\ request'[v] = "served"
    PROVE  CancelInv' /\ PlaceInv' /\ CancelNotOutrun'
<1>1. \A w \in Workers : /\ Somewhere(w)' <=> Somewhere(w)
                         /\ Apart(w)' <=> Apart(w)
  BY DEF Apart, Somewhere, InQueue, Deferred, InHand
<1>2. PlaceInv' BY <1>1 DEF IInv, PlaceInv
<1>3. CancelInv' /\ CancelNotOutrun'
  BY DEF IInv, CancelInv, CancelNotOutrun, InQueue, Deferred, InHand
<1> QED BY <1>2, <1>3

\* CreateResponse
LEMMA CreateResponseStep ==
    ASSUME IInv, NEW w \in Workers, CreateResponse(w) PROVE IInv'
<1>1. TypeOK' BY DEF IInv, TypeOK, CreateResponse, NotifyOne, slotVars, RequestStates
<1>2. NobodyWaitsWhenAwake'
  BY DEF IInv, NobodyWaitsWhenAwake, CreateResponse, NotifyOne
<1>3. HandInv' /\ LoadInv' BY DEF IInv, HandInv, LoadInv, CreateResponse, slotVars
<1>4. \A v \in Workers : request'[v] = request[v] \/ (request[v] = "new" /\ request'[v] \in {"blocked", "prepare"})
  BY DEF IInv, TypeOK, CreateResponse
<1>5. CancelInv' /\ PlaceInv' /\ CancelNotOutrun'
  BY <1>4, RequestStep DEF CreateResponse, slotVars
<1> QED BY <1>1, <1>2, <1>3, <1>5 DEF IInv

\* WokenFromNoSleep
LEMMA WokenFromNoSleepStep ==
    ASSUME IInv, NEW w \in Workers, WokenFromNoSleep(w) PROVE IInv'
<1>1. TypeOK'
  BY DEF IInv, TypeOK, WokenFromNoSleep, BlockAgain, queueVars, sleepVars, slotVars, RequestStates
<1>2. NobodyWaitsWhenAwake'
  BY DEF IInv, NobodyWaitsWhenAwake, WokenFromNoSleep, BlockAgain, queueVars, sleepVars
<1>3. HandInv' /\ LoadInv'
  BY DEF IInv, HandInv, LoadInv, WokenFromNoSleep, slotVars, queueVars, sleepVars
<1>4. \A v \in Workers : request'[v] = request[v] \/ (request[v] = "blocked" /\ request'[v] = "prepare")
  BY DEF IInv, TypeOK, WokenFromNoSleep
<1>5. CancelInv' /\ PlaceInv' /\ CancelNotOutrun'
  BY <1>4, RequestStep DEF WokenFromNoSleep, slotVars, queueVars
<1> QED BY <1>1, <1>2, <1>3, <1>5 DEF IInv

\* Post
LEMMA PostStep ==
    ASSUME IInv, NEW w \in Workers, Post(w) PROVE IInv'
<1> DEFINE q == queue_tasks
           r == Push(queue_tasks, RequestTask(w), FALSE)
<1>1. q \in Seq(Tasks) /\ queue_tasks' = r BY DEF IInv, TypeOK, Post
<1>2. r \in Seq(Tasks) /\ r # <<>> /\ \A u : In(r, u) <=> u = RequestTask(w) \/ In(q, u)
  <2>1. RequestTask(w) \in Tasks BY TaskFacts
  <2> QED BY <1>1, <2>1, PushProperties, Zenon
<1>3. /\ ~In(q, RequestTask(w)) /\ ~Deferred(RequestTask(w)) /\ task # RequestTask(w)
      /\ w \notin active /\ w \notin processed
  BY DEF IInv, PlaceInv, Somewhere, InQueue, InHand, Post
<1>4. ASSUME NEW v \in Workers PROVE OccursOnce(r, v)
  <2>1. OccursOnce(q, v) BY DEF IInv, PlaceInv
  <2>2. RequestTask(w).id = v => ~Holds(q, v) BY <1>1, <1>3, TaskFacts, RequestIds
  <2> QED BY <1>1, <2>1, <2>2, TaskFacts, PushOnce
<1> HIDE DEF r
<1>5. TypeOK'
  BY <1>1, <1>2 DEF IInv, TypeOK, Post, NotifyOne, sleepVars, slotVars, RequestStates
<1>6. HandInv' /\ LoadInv' /\ NobodyWaitsWhenAwake'
  BY <1>1, <1>2
  DEF IInv, HandInv, LoadInv, NobodyWaitsWhenAwake, Post, NotifyOne, sleepVars, slotVars
<1>7. /\ request[w] = "prepare" /\ request'[w] = "posted"
      /\ \A v \in Workers : v # w => request'[v] = request[v]
  BY DEF IInv, TypeOK, Post
<1>8. UNCHANGED <<task, active, processed, late, queue_tasks_deferred>> BY DEF Post, slotVars
<1>9. CancelInv' /\ CancelNotOutrun'
  BY <1>1, <1>2, <1>7, <1>8, Different
  DEF IInv, CancelInv, CancelNotOutrun, InQueue, Deferred, InHand
<1>10. PlaceInv'
  <2> SUFFICES ASSUME NEW v \in Workers PROVE PlaceInv!(v)' BY DEF PlaceInv
  <2>1. In(r, RequestTask(v)) <=> v = w \/ In(q, RequestTask(v)) BY <1>2, Different
  <2> QED BY <1>1, <1>3, <1>4, <1>7, <1>8, <2>1
          DEF IInv, PlaceInv, Apart, Somewhere, InQueue, Deferred, InHand
<1> QED BY <1>5, <1>6, <1>9, <1>10 DEF IInv

\* Receive
LEMMA ReceiveStep ==
    ASSUME IInv, NEW w \in Workers, Receive(w) PROVE IInv'
<1>1. TypeOK' BY DEF IInv, TypeOK, Receive, queueVars, sleepVars, slotVars, RequestStates
<1>2. HandInv' /\ LoadInv' /\ NobodyWaitsWhenAwake'
  BY DEF IInv, HandInv, LoadInv, NobodyWaitsWhenAwake, Receive, queueVars, sleepVars, slotVars
<1>3. \A v \in Workers : request'[v] = request[v] \/ (request[v] = "posted" /\ request'[v] = "served")
  BY DEF IInv, TypeOK, Receive
<1>4. CancelInv' /\ PlaceInv' /\ CancelNotOutrun'
  BY <1>3, RequestStep DEF Receive, slotVars, queueVars
<1> QED BY <1>1, <1>2, <1>4 DEF IInv

\* Cancel takes the task out of the two deques, so that only the main loop or a slot
\* can still have it, and puts the cancel in front.
LEMMA CancelStep ==
    ASSUME IInv, NEW w \in Workers, Cancel(w) PROVE IInv'
<1> DEFINE q == queue_tasks
           d == queue_tasks_deferred
           p == Without(queue_tasks, w)
           r == Push(p, CancelTask(w), TRUE)
           e == Without(queue_tasks_deferred, w)
<1>1. /\ q \in Seq(Tasks) /\ queue_tasks' = r /\ OccursOnce(q, w)
      /\ d \in Seq(Requests) /\ queue_tasks_deferred' = e /\ OccursOnce(d, w)
  BY DEF IInv, TypeOK, PlaceInv, Cancel
<1>2. /\ p \in Seq(Tasks)
      /\ \A u : In(p, u) <=> In(q, u) /\ u.id # w
      /\ \A x : OccursOnce(q, x) => OccursOnce(p, x)
  BY <1>1, WithoutProperties
<1>3. /\ e \in Seq(Requests)
      /\ \A u : In(e, u) <=> In(d, u) /\ u.id # w
      /\ \A x : OccursOnce(d, x) => OccursOnce(e, x)
  BY <1>1, WithoutProperties
<1> HIDE DEF p, e
<1>4. r \in Seq(Tasks) /\ r # <<>> /\ \A u : In(r, u) <=> u = CancelTask(w) \/ In(p, u)
  <2>1. CancelTask(w) \in Tasks BY TaskFacts
  <2> QED BY <1>2, <2>1, PushProperties, Zenon
<1>5. ASSUME NEW v \in Workers PROVE OccursOnce(r, v) /\ OccursOnce(e, v)
  <2>1. OccursOnce(p, v) /\ OccursOnce(e, v) BY <1>2, <1>3 DEF IInv, PlaceInv
  <2>2. CancelTask(w).id # v BY TaskFacts
  <2> QED BY <1>2, <2>1, <2>2, TaskFacts, PushOnce
<1> HIDE DEF r
<1>6. TypeOK'
  BY <1>1, <1>3, <1>4 DEF IInv, TypeOK, Cancel, NotifyOne, sleepVars, slotVars, RequestStates
<1>7. HandInv' /\ LoadInv' /\ NobodyWaitsWhenAwake'
  BY <1>1, <1>4
  DEF IInv, HandInv, LoadInv, NobodyWaitsWhenAwake, Cancel, NotifyOne, sleepVars, slotVars
<1>8. /\ request[w] = "posted" /\ request'[w] = "cancelled"
      /\ \A v \in Workers : v # w => request'[v] = request[v]
  BY DEF IInv, TypeOK, Cancel
<1>9. UNCHANGED <<task, active, processed, late>> BY DEF Cancel, slotVars
<1>10. ASSUME NEW v \in Workers
       PROVE  /\ In(r, RequestTask(v)) <=> v # w /\ In(q, RequestTask(v))
              /\ In(e, RequestTask(v)) <=> v # w /\ In(d, RequestTask(v))
              /\ In(r, CancelTask(v)) <=> v = w \/ In(q, CancelTask(v))
  BY <1>2, <1>3, <1>4, TaskFacts
<1>11. CancelInv' /\ CancelNotOutrun'
  BY <1>1, <1>8, <1>9, <1>10
  DEF IInv, CancelInv, CancelNotOutrun, InQueue, Deferred, InHand
<1>12. PlaceInv'
  <2> SUFFICES ASSUME NEW v \in Workers PROVE PlaceInv!(v)' BY DEF PlaceInv
  <2> QED BY <1>1, <1>5, <1>8, <1>9, <1>10
          DEF IInv, PlaceInv, Apart, Somewhere, InQueue, Deferred, InHand
<1> QED BY <1>6, <1>7, <1>11, <1>12 DEF IInv

\* The steps of the main loop and the environment that leave the deques, the task
\* in hand, the slots and the requests alone.
LEMMA QuietSteps ==
    ASSUME IInv,
           \/ StartLoop \/ Return \/ AllTasksProcessed \/ EndUpdate \/ StopWaiting \/ EnterSleep
           \/ TimedWait \/ WokenFromTimedWait \/ WaitTimeout \/ WokenFromSleep
           \/ Terminate \/ SpuriousWakeup \/ TimePasses
    PROVE  IInv'
<1> USE DEF IInv, TypeOK, LoopStates, HandInv, LoadInv, NobodyWaitsWhenAwake,
            queueVars, sleepVars, slotVars
<1>1. CASE StartLoop BY <1>1, QuietStep DEF StartLoop
<1>2. CASE Return BY <1>2, QuietStep DEF Return
<1>3. CASE AllTasksProcessed BY <1>3, QuietStep DEF AllTasksProcessed
<1>4. CASE StopWaiting BY <1>4, QuietStep DEF StopWaiting
<1>5. CASE EnterSleep BY <1>5, QuietStep DEF EnterSleep
<1>6. CASE TimedWait BY <1>6, QuietStep DEF TimedWait
<1>7. CASE WokenFromTimedWait BY <1>7, QuietStep DEF WokenFromTimedWait, BlockAgain
<1>8. CASE WaitTimeout BY <1>8, QuietStep DEF WaitTimeout
<1>9. CASE WokenFromSleep BY <1>9, QuietStep DEF WokenFromSleep, BlockAgain, NotifyAll
<1>10. CASE Terminate BY <1>10, QuietStep DEF Terminate, NotifyAll
<1>11. CASE SpuriousWakeup BY <1>11, QuietStep DEF SpuriousWakeup
<1>12. CASE TimePasses BY <1>12, QuietStep DEF TimePasses
<1>13. CASE EndUpdate BY <1>13, QuietStep DEF EndUpdate
<1> QED
  BY <1>1, <1>2, <1>3, <1>4, <1>5, <1>6, <1>7, <1>8, <1>9, <1>10, <1>11, <1>12, <1>13

\* PopTask
LEMMA PopTaskStep == ASSUME IInv, PopTask PROVE IInv'
<1> DEFINE q == queue_tasks
           r == Tail(queue_tasks)
           t == Head(queue_tasks)
<1>1. /\ q \in Seq(Tasks) /\ q # <<>> /\ queue_tasks' = r /\ task' = t
      /\ UNCHANGED <<queue_tasks_deferred, active, processed, late, request>>
  BY DEF IInv, TypeOK, PopTask, PopFront, slotVars
<1>2. /\ t \in Tasks /\ r \in Seq(Tasks)
      /\ \A u : In(q, u) <=> u = t \/ In(r, u)
      /\ \A x : OccursOnce(q, x) => OccursOnce(r, x)
      /\ \A x : OccursOnce(q, x) /\ t.id = x => ~Holds(r, x)
  BY <1>1, PopProperties
<1> HIDE DEF q, r, t
<1>3. \A u \in Tasks : task # u BY TaskFacts DEF IInv, HandInv, TypeOK, PopTask
<1>4. TypeOK' /\ HandInv' /\ LoadInv' /\ NobodyWaitsWhenAwake'
  BY <1>1, <1>2, TaskFacts
  DEF IInv, TypeOK, HandInv, LoadInv, NobodyWaitsWhenAwake, PopTask, sleepVars, slotVars,
      LoopStates
<1>5. CancelInv' BY <1>1, <1>2, TaskFacts DEF IInv, CancelInv, InQueue, InHand, q
<1>6. CancelNotOutrun'
  <2> SUFFICES ASSUME NEW w \in Workers, request[w] = "cancelled", w \notin late
               PROVE  /\ ~In(r, RequestTask(w)) /\ ~Deferred(RequestTask(w))
                      /\ t = RequestTask(w) => In(r, CancelTask(w))
                      /\ w \in active => In(r, CancelTask(w)) \/ t = CancelTask(w)
    BY <1>1 DEF CancelNotOutrun, InQueue, Deferred, InHand
  <2>1. /\ ~In(q, RequestTask(w)) /\ ~Deferred(RequestTask(w))
        /\ w \in active => In(q, CancelTask(w)) \/ task = CancelTask(w)
    BY DEF IInv, CancelNotOutrun, InQueue, InHand, q
  <2> QED BY <1>2, <1>3, <2>1, TaskFacts
<1>7. PlaceInv'
  <2> SUFFICES ASSUME NEW w \in Workers PROVE PlaceInv!(w)' BY DEF PlaceInv
  <2>1. OccursOnce(q, w) /\ OccursOnce(r, w) BY <1>2 DEF IInv, PlaceInv, q
  <2>2. t = RequestTask(w) => ~In(r, RequestTask(w))
    BY <1>2, <2>1, TaskFacts, RequestIds
  <2>3. task # RequestTask(w) BY <1>3, TaskFacts
  <2>4. In(q, RequestTask(w)) <=> t = RequestTask(w) \/ In(r, RequestTask(w)) BY <1>2
  <2> QED BY <1>1, <2>1, <2>2, <2>3, <2>4
          DEF IInv, PlaceInv, Apart, Somewhere, InQueue, Deferred, InHand, q
<1> QED BY <1>4, <1>5, <1>6, <1>7 DEF IInv

\* PopDeferred moves a deferred task to the front of the queue, if there is one.
LEMMA PopDeferredMoves ==
    ASSUME IInv, PopDeferred
    PROVE  /\ queue_tasks' \in Seq(Tasks) /\ queue_tasks_deferred' \in Seq(Requests)
           /\ queue_tasks # <<>> => queue_tasks' # <<>>
           /\ \A v \in Workers :
                 OccursOnce(queue_tasks, v)' /\ OccursOnce(queue_tasks_deferred, v)'
           /\ \A v \in Workers : InQueue(CancelTask(v))' <=> InQueue(CancelTask(v))
           /\ \A v \in Workers :
                 InQueue(RequestTask(v))' \/ Deferred(RequestTask(v))' <=>
                    InQueue(RequestTask(v)) \/ Deferred(RequestTask(v))
           /\ \A v \in Workers : ~(InQueue(RequestTask(v))' /\ Deferred(RequestTask(v))')
           /\ cond' \subseteq cond
<1> DEFINE q == queue_tasks
           d == queue_tasks_deferred
<1>1. /\ q \in Seq(Tasks) /\ d \in Seq(Requests) /\ d \in Seq(Tasks)
      /\ \A v \in Workers : OccursOnce(q, v) /\ OccursOnce(d, v)
  BY DeferredTasks DEF IInv, PlaceInv
<1>2. cond' \subseteq cond BY DEF PopDeferred, NotifyOne
<1>3. CASE d = <<>>
  <2>1. UNCHANGED <<queue_tasks, queue_tasks_deferred>> BY <1>3 DEF PopDeferred
  <2>2. \A u : (InQueue(u)' <=> InQueue(u)) /\ (Deferred(u)' <=> Deferred(u))
    BY <2>1 DEF InQueue, Deferred
  <2>3. \A v \in Workers : ~(InQueue(RequestTask(v)) /\ Deferred(RequestTask(v)))
    BY DEF IInv, PlaceInv, Apart
  <2> QED BY <1>1, <1>2, <2>1, <2>2, <2>3
<1>4. CASE d # <<>>
  <2>1. PICK i \in DOMAIN d : queue_tasks' = Push(q, d[i], TRUE)
                              /\ queue_tasks_deferred' = DropAt(d, i)
    BY <1>4 DEF PopDeferred
  <2>2. d[i] \in Requests BY <1>1
  <2>3. PICK p \in Workers : d[i] = RequestTask(p) BY <2>2, TaskFacts
  <2>4. RequestTask(p) \in Tasks /\ RequestTask(p).id = p BY TaskFacts
  <2>5. /\ queue_tasks' \in Seq(Tasks) /\ queue_tasks' # <<>>
        /\ \A u : In(queue_tasks', u) <=> u = RequestTask(p) \/ In(q, u)
    BY <1>1, <2>1, <2>3, <2>4, PushProperties
  <2>6. /\ queue_tasks_deferred' \in Seq(Requests)
        /\ \A u : In(queue_tasks_deferred', u) <=> \E j \in DOMAIN d : j # i /\ d[j] = u
    BY <1>1, <2>1, DropAtProperties
  <2>7. In(d, RequestTask(p)) BY <2>3 DEF In
  <2>8. ~In(q, RequestTask(p)) BY <2>7 DEF IInv, PlaceInv, Apart, InQueue, Deferred
  <2>9. \A j \in DOMAIN d : j # i => d[j] # RequestTask(p)
    BY <1>1, <2>3, <2>4 DEF OccursOnce
  <2>10. \A u : u # RequestTask(p) => (In(queue_tasks_deferred', u) <=> In(d, u))
    BY <2>3, <2>6 DEF In
  <2>11. ~In(queue_tasks_deferred', RequestTask(p)) BY <2>6, <2>9
  <2>12. ASSUME NEW v \in Workers
         PROVE  OccursOnce(queue_tasks', v) /\ OccursOnce(queue_tasks_deferred', v)
    <3>1. OccursOnce(queue_tasks_deferred', v) BY <1>1, <2>1, DropAtOnce
    <3>2. RequestTask(p).id = v => ~Holds(q, v) BY <1>1, <2>4, <2>8, RequestIds
    <3>3. OccursOnce(queue_tasks', v) BY <1>1, <2>1, <2>3, <2>4, <3>2, PushOnce
    <3> QED BY <3>1, <3>3
  <2>13. \A v \in Workers : In(queue_tasks', CancelTask(v)) <=> In(q, CancelTask(v))
    BY <2>5, Different
  <2>14. \A v \in Workers : v # p =>
            /\ In(queue_tasks', RequestTask(v)) <=> In(q, RequestTask(v))
            /\ In(queue_tasks_deferred', RequestTask(v)) <=> In(d, RequestTask(v))
    BY <2>5, <2>10, Different
  <2>15. In(queue_tasks', RequestTask(p)) BY <2>5
  <2>16. ASSUME NEW v \in Workers
         PROVE  /\ InQueue(RequestTask(v))' \/ Deferred(RequestTask(v))' <=>
                      InQueue(RequestTask(v)) \/ Deferred(RequestTask(v))
                /\ ~(InQueue(RequestTask(v))' /\ Deferred(RequestTask(v))')
    <3>1. CASE v = p BY <2>7, <2>11, <2>15, <3>1 DEF InQueue, Deferred
    <3>2. CASE v # p BY <2>14, <3>2 DEF IInv, PlaceInv, Apart, InQueue, Deferred
    <3> QED BY <3>1, <3>2
  <2> QED BY <1>2, <2>5, <2>6, <2>12, <2>13, <2>16 DEF InQueue
<1> QED BY <1>3, <1>4

\* What every callback does: the task leaves the hand of the main loop.
LEMMA ProcessFacts ==
    ASSUME IInv, NEW t \in Tasks, Process(t)
    PROVE  /\ InHand(t) /\ \A u \in Tasks : InHand(u) => u = t
           /\ \A u \in Tasks : ~InHand(u)'
           /\ HandInv' /\ LoadInv' /\ task' = NoTask /\ loop' = "drain"
           /\ UNCHANGED <<running, sleeping, req_stop_sleeping, loaded, request, terminated>>
<1>1. /\ task = t /\ task' = NoTask /\ loop = "process" /\ loop' = "drain"
      /\ UNCHANGED <<running, sleeping, req_stop_sleeping, loaded, request, terminated>>
  BY DEF Process, sleepVars
<1>2. \A u \in Tasks : task' # u BY <1>1, TaskFacts
<1>3. loaded BY <1>1 DEF IInv, LoadInv, TypeOK
<1>4. HandInv' /\ LoadInv' BY <1>1, <1>3 DEF HandInv, LoadInv
<1> QED BY <1>1, <1>2, <1>4 DEF InHand

\* Defer: the task goes from the hand to the deferred ones, and if its cancel was
\* posted, it is late.
LEMMA DeferStep == ASSUME IInv, NEW w \in Workers, Defer(w) PROVE IInv'
<1> DEFINE d == queue_tasks_deferred
           e == Push(queue_tasks_deferred, RequestTask(w), FALSE)
<1>1. RequestTask(w) \in Tasks /\ RequestTask(w) \in Requests BY TaskFacts
<1>2. /\ queue_tasks_deferred' = e /\ cond' \subseteq cond /\ idle' = FALSE
      /\ late' = IF request[w] = "cancelled" THEN late \cup {w} ELSE late
      /\ UNCHANGED <<queue_tasks, active, processed, failed>>
      /\ Process(RequestTask(w))
  BY DEF Defer, Process, NotifyOne
<1>3. /\ InHand(RequestTask(w)) /\ \A u \in Tasks : InHand(u) => u = RequestTask(w)
      /\ \A u \in Tasks : ~InHand(u)'
      /\ HandInv' /\ LoadInv' /\ task' = NoTask /\ loop' = "drain"
      /\ UNCHANGED <<running, sleeping, req_stop_sleeping, loaded, request, terminated>>
  BY <1>1, <1>2, ProcessFacts
<1>4. d \in Seq(Requests) /\ d \in Seq(Tasks) BY DeferredTasks
<1>5. e \in Seq(Requests) /\ \A u : In(e, u) <=> u = RequestTask(w) \/ In(d, u)
  BY <1>1, <1>4, PushProperties, Zenon
<1>6. ASSUME NEW v \in Workers PROVE OccursOnce(e, v)
  <2>1. OccursOnce(d, v) BY DEF IInv, PlaceInv
  <2>2. ~In(d, RequestTask(w)) BY <1>3 DEF IInv, PlaceInv, Apart, Deferred
  <2>3. RequestTask(w).id = v => ~Holds(d, v) BY <1>4, <2>2, TaskFacts, RequestIds
  <2> QED BY <1>1, <1>4, <2>1, <2>3, PushOnce
<1> HIDE DEF e
<1>7. TypeOK' BY <1>2, <1>3, <1>5 DEF IInv, TypeOK, LoopStates
<1>8. NobodyWaitsWhenAwake' BY <1>2, <1>3 DEF IInv, NobodyWaitsWhenAwake
<1>9. CancelInv' BY <1>2, <1>3, TaskFacts DEF IInv, CancelInv, InQueue
<1>10. \A v \in Workers : In(e, RequestTask(v)) <=> v = w \/ In(d, RequestTask(v))
  BY <1>5, Different
<1>11. CancelNotOutrun'
  <2> SUFFICES ASSUME NEW v \in Workers, request[v] = "cancelled", v \notin late'
               PROVE  /\ ~InQueue(RequestTask(v)) /\ ~In(e, RequestTask(v))
                      /\ v \in active => InQueue(CancelTask(v))
    BY <1>2, <1>3, TaskFacts DEF CancelNotOutrun, InQueue, Deferred
  <2>1. v # w /\ v \notin late BY <1>2
  <2>2. ~InHand(CancelTask(v)) BY <1>3, Different, TaskFacts
  <2> QED BY <1>10, <2>1, <2>2 DEF IInv, CancelNotOutrun, Deferred
<1>12. PlaceInv'
  <2> SUFFICES ASSUME NEW v \in Workers PROVE PlaceInv!(v)' BY DEF PlaceInv
  <2>1. InHand(RequestTask(v)) <=> v = w BY <1>3, Different, TaskFacts
  <2>2. ~InHand(RequestTask(v))' BY <1>3, TaskFacts
  <2> QED BY <1>2, <1>3, <1>6, <1>10, <2>1, <2>2
          DEF IInv, PlaceInv, Apart, Somewhere, InQueue, Deferred
<1> QED BY <1>3, <1>7, <1>8, <1>9, <1>11, <1>12 DEF IInv

\* Launch and FailLaunch: the task goes from the hand to a slot, or it ends.
LEMMA LaunchStep == ASSUME IInv, NEW w \in Workers, Launch(w) \/ FailLaunch(w) PROVE IInv'
<1>1. RequestTask(w) \in Tasks BY TaskFacts
<1>2. /\ \/ active' = active \cup {w} /\ processed' = processed /\ failed' = failed
         \/ active' = active /\ processed' = processed \cup {w} /\ failed' = failed \cup {w}
      /\ UNCHANGED <<idle, queue_tasks, queue_tasks_deferred, cond, late>>
      /\ Process(RequestTask(w))
  BY DEF Launch, FailLaunch
<1>3. /\ InHand(RequestTask(w)) /\ \A u \in Tasks : InHand(u) => u = RequestTask(w)
      /\ \A u \in Tasks : ~InHand(u)'
      /\ HandInv' /\ LoadInv' /\ task' = NoTask /\ loop' = "drain"
      /\ UNCHANGED <<running, sleeping, req_stop_sleeping, loaded, request, terminated>>
  BY <1>1, <1>2, ProcessFacts
<1>4. TypeOK' BY <1>2, <1>3 DEF IInv, TypeOK, LoopStates
<1>5. NobodyWaitsWhenAwake' BY <1>2, <1>3 DEF IInv, NobodyWaitsWhenAwake
<1>6. CancelInv' BY <1>2, <1>3, TaskFacts DEF IInv, CancelInv, InQueue
<1>7. ASSUME NEW v \in Workers
      PROVE  /\ InHand(RequestTask(v)) <=> v = w
             /\ ~InHand(CancelTask(v))
             /\ ~InHand(RequestTask(v))' /\ ~InHand(CancelTask(v))'
  BY <1>3, Different, TaskFacts
<1>8. CancelNotOutrun'
  BY <1>2, <1>3, <1>7 DEF IInv, CancelNotOutrun, InQueue, Deferred
<1>9. PlaceInv'
  <2> SUFFICES ASSUME NEW v \in Workers PROVE PlaceInv!(v)' BY DEF PlaceInv
  <2> QED BY <1>2, <1>3, <1>7
          DEF IInv, PlaceInv, Apart, Somewhere, InQueue, Deferred
<1> QED BY <1>3, <1>4, <1>5, <1>6, <1>8, <1>9 DEF IInv

\* A cancel takes the task out of its slot, and a deferred task may be popped.
LEMMA ProcessCancelStep == ASSUME IInv, NEW w \in Workers, ProcessCancel(w) PROVE IInv'
<1>1. CancelTask(w) \in Tasks BY TaskFacts
<1>2. /\ active' = active \ {w} /\ Process(CancelTask(w))
      /\ w \in active => PopDeferred
      /\ w \notin active => UNCHANGED <<idle, queue_tasks, queue_tasks_deferred, cond>>
      /\ UNCHANGED <<processed, failed, late>>
  BY DEF ProcessCancel
<1>3. /\ InHand(CancelTask(w)) /\ \A u \in Tasks : InHand(u) => u = CancelTask(w)
      /\ \A u \in Tasks : ~InHand(u)'
      /\ HandInv' /\ LoadInv' /\ task' = NoTask /\ loop' = "drain"
      /\ UNCHANGED <<running, sleeping, req_stop_sleeping, loaded, request, terminated>>
  BY <1>1, <1>2, ProcessFacts
<1>4. /\ queue_tasks' \in Seq(Tasks) /\ queue_tasks_deferred' \in Seq(Requests)
      /\ \A v \in Workers :
            OccursOnce(queue_tasks, v)' /\ OccursOnce(queue_tasks_deferred, v)'
      /\ \A v \in Workers : InQueue(CancelTask(v))' <=> InQueue(CancelTask(v))
      /\ \A v \in Workers :
            /\ InQueue(RequestTask(v))' \/ Deferred(RequestTask(v))' <=>
                  InQueue(RequestTask(v)) \/ Deferred(RequestTask(v))
            /\ ~(InQueue(RequestTask(v))' /\ Deferred(RequestTask(v))')
      /\ cond' \subseteq cond /\ idle' \in BOOLEAN
  <2>1. CASE w \in active
    <3>1. idle' = FALSE BY <1>2, <2>1 DEF PopDeferred
    <3> QED BY <1>2, <2>1, <3>1, PopDeferredMoves
  <2>2. CASE w \notin active
    <3>1. UNCHANGED <<idle, queue_tasks, queue_tasks_deferred, cond>> BY <1>2, <2>2
    <3>2. \A u : (InQueue(u)' <=> InQueue(u)) /\ (Deferred(u)' <=> Deferred(u))
      BY <3>1 DEF InQueue, Deferred
    <3> QED BY <3>1, <3>2 DEF IInv, TypeOK, PlaceInv, Apart
  <2> QED BY <2>1, <2>2
<1>5. TypeOK' BY <1>2, <1>3, <1>4 DEF IInv, TypeOK, LoopStates
<1>6. NobodyWaitsWhenAwake' BY <1>3, <1>4 DEF IInv, NobodyWaitsWhenAwake
<1>7. ASSUME NEW v \in Workers
      PROVE  /\ ~InHand(RequestTask(v)) /\ (InHand(CancelTask(v)) <=> v = w)
             /\ ~InHand(RequestTask(v))' /\ ~InHand(CancelTask(v))'
  BY <1>3, Different, TaskFacts
<1>8. CancelInv' BY <1>3, <1>4, <1>7 DEF IInv, CancelInv
<1>9. CancelNotOutrun' BY <1>2, <1>3, <1>4, <1>7 DEF IInv, CancelNotOutrun
<1>10. request[w] = "cancelled" BY <1>3 DEF IInv, CancelInv
<1>11. PlaceInv'
  <2> SUFFICES ASSUME NEW v \in Workers PROVE PlaceInv!(v)' BY DEF PlaceInv
  <2> QED BY <1>2, <1>3, <1>4, <1>7, <1>10 DEF IInv, PlaceInv, Apart, Somewhere
<1> QED BY <1>3, <1>5, <1>6, <1>8, <1>9, <1>11 DEF IInv

\* A NEXT_RESPONSE task does nothing.
LEMMA ProcessNextResponseStep == ASSUME IInv, ProcessNextResponse PROVE IInv'
<1>1. NextResponse \in Tasks BY TaskFacts
<1>2. /\ Process(NextResponse)
      /\ UNCHANGED <<idle, queue_tasks, queue_tasks_deferred, cond, active, processed, failed, late>>
  BY DEF ProcessNextResponse
<1>3. /\ \A u \in Tasks : InHand(u) => u = NextResponse
      /\ \A u \in Tasks : ~InHand(u)'
      /\ HandInv' /\ LoadInv' /\ task' = NoTask /\ loop' = "drain"
      /\ UNCHANGED <<running, sleeping, req_stop_sleeping, loaded, request, terminated>>
  BY <1>1, <1>2, ProcessFacts
<1>4. TypeOK' BY <1>2, <1>3 DEF IInv, TypeOK, LoopStates
<1>5. NobodyWaitsWhenAwake' BY <1>2, <1>3 DEF IInv, NobodyWaitsWhenAwake
<1>6. ASSUME NEW v \in Workers
      PROVE  /\ ~InHand(RequestTask(v)) /\ ~InHand(CancelTask(v))
             /\ ~InHand(RequestTask(v))' /\ ~InHand(CancelTask(v))'
  BY <1>3, Different, TaskFacts
<1>7. CancelInv' /\ CancelNotOutrun'
  BY <1>2, <1>3, <1>6 DEF IInv, CancelInv, CancelNotOutrun, InQueue, Deferred
<1>8. PlaceInv'
  <2> SUFFICES ASSUME NEW v \in Workers PROVE PlaceInv!(v)' BY DEF PlaceInv
  <2> QED BY <1>2, <1>3, <1>6 DEF IInv, PlaceInv, Apart, Somewhere, InQueue, Deferred
<1> QED BY <1>3, <1>4, <1>5, <1>7, <1>8 DEF IInv

\* UpdateSlots: with a slot active, a NEXT_RESPONSE task is put into the queue.
LEMMA UpdateSlotsStep == ASSUME IInv, UpdateSlots PROVE IInv'
<1> DEFINE r == Push(queue_tasks, NextResponse, FALSE)
<1>1. /\ loop = "update" /\ idle' = FALSE
      /\ UNCHANGED <<running, sleeping, req_stop_sleeping, queue_tasks_deferred, task, active,
                     processed, failed, late, loaded, request, terminated>>
  BY DEF UpdateSlots, sleepVars, slotVars
<1>2. loaded BY <1>1 DEF IInv, LoadInv, TypeOK
<1>3. CASE active = {}
  <2>1. UNCHANGED <<queue_tasks, cond>> /\ loop' = "wait" BY <1>3 DEF UpdateSlots
  <2>2. TypeOK' BY <1>1, <2>1 DEF IInv, TypeOK, LoopStates
  <2>3. HandInv' /\ LoadInv' /\ NobodyWaitsWhenAwake'
    BY <1>1, <1>2, <1>3, <2>1 DEF IInv, HandInv, LoadInv, NobodyWaitsWhenAwake
  <2> QED BY <1>1, <2>1, <2>2, <2>3, QuietStep DEF IInv
<1>4. CASE active # {}
  <2>1. queue_tasks' = r /\ cond' \subseteq cond /\ loop' = "decode"
    BY <1>4 DEF UpdateSlots, PostNextResponse, NotifyOne
  <2>2. r \in Seq(Tasks) /\ r # <<>> /\ \A u : In(r, u) <=> u = NextResponse \/ In(queue_tasks, u)
    <3>1. queue_tasks \in Seq(Tasks) /\ NextResponse \in Tasks BY TaskFacts DEF IInv, TypeOK
    <3> QED BY <3>1, PushProperties, Zenon
  <2>3. ASSUME NEW v \in Workers PROVE OccursOnce(r, v)
    <3>1. OccursOnce(queue_tasks, v) /\ queue_tasks \in Seq(Tasks)
      BY DEF IInv, PlaceInv, TypeOK
    <3>2. NextResponse.id # v BY TaskFacts
    <3> QED BY <3>1, <3>2, TaskFacts, PushOnce
  <2> HIDE DEF r
  <2>4. TypeOK' BY <1>1, <2>1, <2>2 DEF IInv, TypeOK, LoopStates
  <2>5. HandInv' /\ LoadInv' /\ NobodyWaitsWhenAwake'
    BY <1>1, <1>2, <2>1, <2>2 DEF IInv, HandInv, LoadInv, NobodyWaitsWhenAwake
  <2>6. \A v \in Workers : /\ In(r, RequestTask(v)) <=> In(queue_tasks, RequestTask(v))
                           /\ In(r, CancelTask(v)) <=> In(queue_tasks, CancelTask(v))
    BY <2>2, Different
  <2>7. CancelInv' /\ CancelNotOutrun'
    BY <1>1, <2>1, <2>6 DEF IInv, CancelInv, CancelNotOutrun, InQueue, Deferred, InHand
  <2>8. PlaceInv'
    <3> SUFFICES ASSUME NEW v \in Workers PROVE PlaceInv!(v)' BY DEF PlaceInv
    <3> QED BY <1>1, <2>1, <2>3, <2>6
            DEF IInv, PlaceInv, Apart, Somewhere, InQueue, Deferred, InHand
  <2> QED BY <2>4, <2>5, <2>7, <2>8 DEF IInv
<1> QED BY <1>3, <1>4

\* Finish: the task goes from its slot to the results, and a deferred one may be popped.
LEMMA FinishStep == ASSUME IInv, NEW w \in Workers, Finish(w) PROVE IInv'
<1>1. /\ loop = "decode" /\ w \in active /\ active' = active \ {w}
      /\ processed' = processed \cup {w} /\ failed' \subseteq failed \cup {w}
      /\ PopDeferred /\ idle' = FALSE
      /\ UNCHANGED <<running, sleeping, req_stop_sleeping, loop, task, late, loaded, request,
                     terminated>>
  BY DEF Finish, PopDeferred, sleepVars
<1>2. loaded /\ queue_tasks # <<>> BY <1>1 DEF IInv, LoadInv, TypeOK
<1>3. /\ queue_tasks' \in Seq(Tasks) /\ queue_tasks_deferred' \in Seq(Requests)
      /\ queue_tasks' # <<>>
      /\ \A v \in Workers :
            OccursOnce(queue_tasks, v)' /\ OccursOnce(queue_tasks_deferred, v)'
      /\ \A v \in Workers : InQueue(CancelTask(v))' <=> InQueue(CancelTask(v))
      /\ \A v \in Workers :
            /\ InQueue(RequestTask(v))' \/ Deferred(RequestTask(v))' <=>
                  InQueue(RequestTask(v)) \/ Deferred(RequestTask(v))
            /\ ~(InQueue(RequestTask(v))' /\ Deferred(RequestTask(v))')
      /\ cond' \subseteq cond
  BY <1>1, <1>2, PopDeferredMoves
<1>4. \A u : InHand(u)' <=> InHand(u) BY <1>1 DEF InHand
<1>5. TypeOK' BY <1>1, <1>3 DEF IInv, TypeOK
<1>6. HandInv' /\ LoadInv' /\ NobodyWaitsWhenAwake'
  BY <1>1, <1>2, <1>3 DEF IInv, HandInv, LoadInv, NobodyWaitsWhenAwake
<1>7. CancelInv' /\ CancelNotOutrun'
  BY <1>1, <1>3, <1>4 DEF IInv, CancelInv, CancelNotOutrun
<1>8. PlaceInv'
  <2> SUFFICES ASSUME NEW v \in Workers PROVE PlaceInv!(v)' BY DEF PlaceInv
  <2> QED BY <1>1, <1>3, <1>4 DEF IInv, PlaceInv, Apart, Somewhere
<1> QED BY <1>5, <1>6, <1>7, <1>8 DEF IInv

\* Every step keeps the invariant.
LEMMA IInvInductive == IInv /\ [Next]_vars => IInv'
<1> SUFFICES ASSUME IInv, [Next]_vars PROVE IInv' OBVIOUS
<1>1. CASE LoopStep
  <2>1. ASSUME ProcessTask PROVE IInv'
    BY <2>1, DeferStep, LaunchStep, ProcessCancelStep, ProcessNextResponseStep DEF ProcessTask
  <2>2. ASSUME NEW w \in Workers, Finish(w) PROVE IInv'
    BY <2>2, FinishStep
  <2> QED BY <1>1, <2>1, <2>2, QuietSteps, PopTaskStep, UpdateSlotsStep DEF LoopStep
<1>2. CASE \E w \in Workers : WorkerStep(w) \/ Cancel(w)
  BY <1>2, CreateResponseStep, WokenFromNoSleepStep, PostStep, ReceiveStep, CancelStep
  DEF WorkerStep, ReceiveError
<1>3. CASE Terminate \/ SpuriousWakeup \/ TimePasses BY <1>3, QuietSteps
<1>4. CASE UNCHANGED vars
  <2>1. CancelInv' /\ PlaceInv' /\ CancelNotOutrun'
    BY <1>4, QuietStep DEF vars, queueVars, sleepVars, slotVars
  <2> QED
    BY <1>4, <2>1
    DEF vars, queueVars, sleepVars, slotVars, IInv, TypeOK, HandInv, LoadInv,
        NobodyWaitsWhenAwake
<1> QED BY <1>1, <1>2, <1>3, <1>4 DEF Next

\* IInv holds in every reachable state of the queue.
THEOREM Invariance == Spec => []IInv
BY InitIInv, IInvInductive, PTL DEF Spec

-----------------------------------------------------------------------------
(* What it implies *)

\* The variables have their types (server_queue and start_loop).
THEOREM TypeCorrect == Spec => []TypeOK
<1>1. IInv => TypeOK BY DEF IInv
<1> QED BY <1>1, Invariance, PTL

\* A cancelled task does not outrun its cancel (server_response_reader::stop,
\* server_queue::post and cleanup_pending_task), unless it was deferred after its cancel
\* was posted.
THEOREM CancelsOvertake == Spec => []CancelNotOutrun
<1>1. IInv => CancelNotOutrun BY DEF IInv
<1> QED BY <1>1, Invariance, PTL

\* Posted tasks are neither lost nor duplicated between the queue, the main loop, the
\* deferred tasks, the slots and the results (post, start_loop, defer, pop_deferred_task).
THEOREM NoTaskLostOrCopied == Spec => []ExactlyOnePlace
<1>1. IInv => ExactlyOnePlace
  <2> SUFFICES ASSUME IInv, NEW w \in Workers PROVE ExactlyOnePlace!(w)
    BY DEF ExactlyOnePlace
  <2>1. /\ Apart(w) /\ OccursOnce(queue_tasks, w) /\ OccursOnce(queue_tasks_deferred, w)
        /\ request[w] \in {"new", "blocked", "prepare"} => ~Somewhere(w)
        /\ request[w] \in {"posted", "served"} => Somewhere(w)
    BY DEF IInv, PlaceInv
  <2>2. Places(w) = {} <=> ~Somewhere(w) BY DEF Places, Somewhere
  <2>3. \A p, q \in Places(w) : p = q BY <2>1 DEF Places, Apart
  <2> QED BY <2>1, <2>2, <2>3
<1> QED BY <1>1, Invariance, PTL

\* The model is loaded whenever the main loop processes a task or updates a slot,
\* and as long as a slot is active (start_loop, handle_sleeping_state, update_slots).
THEOREM ModelLoaded == Spec => []ModelLoadedWhenUsed
<1>1. IInv => ModelLoadedWhenUsed BY DEF IInv, LoadInv, ModelLoadedWhenUsed
<1> QED BY <1>1, Invariance, PTL

\* No worker is in condition_tasks when the server is awake (wait_until_no_sleep
\* and the notify_all of start_loop).
THEOREM NobodyLeftWaiting == Spec => []NobodyWaitsWhenAwake
<1>1. IInv => NobodyWaitsWhenAwake BY DEF IInv
<1> QED BY <1>1, Invariance, PTL
=============================================================================
