----------------------------- MODULE LogBuffer -----------------------------
(***************************************************************************)
(* The log (common/log.cpp): any thread adds messages to a ring buffer     *)
(* that grows, a worker thread takes them out and prints them, and one     *)
(* thread, the controller, pauses, resumes, flushes and frees the log and  *)
(* changes its file and colors, which common/log.h calls "not              *)
(* thread-safe".                                                           *)
(*                                                                         *)
(* An action is a critical section of the mutex, or a step between two.    *)
(* add is one critical section, so its caller's identity does not matter.  *)
(***************************************************************************)
EXTENDS Integers, Sequences, FiniteSets

CONSTANTS
    Capacity,    \* entries of a new log, 256 in the code
    MaxMessages, \* bound on the messages that are added
    Flags,       \* settings that an entry keeps: prefix, timestamps
    Files,       \* files the log can be written to
    NoFile       \* nullptr

ASSUME CapacityAssumption == Capacity \in Nat \ {0}
ASSUME MessagesAssumption == MaxMessages \in Nat
ASSUME FilesAssumption    == NoFile \notin Files

VARIABLES
    entries, \* common_log::entries
    head,    \* common_log::head
    tail,    \* common_log::tail
    running, \* common_log::running
    flags,   \* common_log::prefix and timestamps: those that are set
    file,    \* common_log::file
    colors,  \* g_col is filled
    cur,     \* common_log::cur, the entry the worker has taken
    worker,  \* program point of common_log::thrd
    op,      \* the operation of the controller
    pc,      \* its program point
    count,   \* the messages that threads have tried to add
    console  \* history: entries printed to stdout and stderr

ringVars    == <<entries, head, tail>>
workerVars  == <<cur, worker>>
controlVars == <<op, pc>>
vars == <<ringVars, running, flags, file, colors, workerVars, controlVars,
          count, console>>

Operations == {"none", "pause", "flush", "set_file", "set_colors", "free"}
WorkerPoints == {"none", "check", "asleep", "print", "write", "exited"}

Ids == 0 .. MaxMessages
Entries == [id : Ids, flags : SUBSET Flags, is_end : BOOLEAN]
Blank == [id |-> 0, flags |-> {}, is_end |-> FALSE]
NewRing(n) == [i \in 0 .. n - 1 |-> Blank]

Size == Cardinality(DOMAIN entries)

After(i) == (i + 1) % Size

-----------------------------------------------------------------------------
(* common_log::add *)

\* A mutant of Notify.
NotifyNot == worker' = worker

\* cv.notify_one: the worker is the only one that waits.
Notify == worker' = IF worker = "asleep" THEN "check" ELSE worker

\* A mutant of FillEntry: the mark of an earlier pause stays.
FillKeepsEnd(i, id) == [entries EXCEPT ![i].id = id, ![i].flags = flags]

\* The entry becomes the message id, whatever it was before.
FillEntry(i, id) ==
    [entries EXCEPT ![i] = [id |-> id, flags |-> flags, is_end |-> FALSE]]

\* A mutant of Expanded: the order of the entries in the ring is not undone.
ExpandedInPlace(ring) ==
    [i \in 0 .. 2 * Size - 1 |-> IF i < Size THEN ring[i] ELSE Blank]

\* Twice the entries, the oldest one first.
Expanded(ring) ==
    [i \in 0 .. 2 * Size - 1 |->
        IF i < Size THEN ring[(head + i) % Size] ELSE Blank]

AddDiscarded ==
    /\ count < MaxMessages
    /\ ~running
    /\ count' = count + 1
    /\ UNCHANGED <<ringVars, running, flags, file, colors, workerVars,
                   controlVars, console>>

AddEntry ==
    /\ count < MaxMessages
    /\ running
    /\ count' = count + 1
    /\ LET filled == FillEntry(tail, count + 1)
       IN  IF After(tail) = head
           THEN entries' = Expanded(filled) /\ head' = 0 /\ tail' = Size
           ELSE entries' = filled /\ tail' = After(tail) /\ UNCHANGED head
    /\ Notify
    /\ UNCHANGED <<running, flags, file, colors, cur, controlVars, console>>

\* set_prefix and set_timestamps, which any thread may call.
SetFlag ==
    /\ \E f \in Flags : flags' \in {flags \cup {f}, flags \ {f}}
    /\ UNCHANGED <<ringVars, running, file, colors, workerVars, controlVars,
                   count, console>>

-----------------------------------------------------------------------------
(* The worker *)

WorkerGoto(from, to) == worker = from /\ worker' = to

\* cv.wait with its predicate
WorkerSleep ==
    /\ WorkerGoto("check", "asleep")
    /\ head = tail
    /\ UNCHANGED <<ringVars, running, flags, file, colors, cur, controlVars,
                   count, console>>

\* It takes the oldest entry, and ends if that is the mark of a pause.
WorkerTake ==
    /\ WorkerGoto("check", IF entries[head].is_end THEN "exited" ELSE "print")
    /\ head # tail
    /\ cur' = entries[head]
    /\ head' = After(head)
    /\ UNCHANGED <<entries, tail, running, flags, file, colors, controlVars,
                   count, console>>

WorkerPrint ==
    /\ WorkerGoto("print", IF file = NoFile THEN "check" ELSE "write")
    /\ console' = Append(console, [id |-> cur.id, flags |-> cur.flags])
    /\ UNCHANGED <<ringVars, running, flags, file, colors, cur, controlVars,
                   count>>

\* fprintf to the file
WorkerWrite ==
    /\ WorkerGoto("write", "check")
    /\ UNCHANGED <<ringVars, running, flags, file, colors, cur, controlVars,
                   count, console>>

Worker == WorkerSleep \/ WorkerTake \/ WorkerPrint \/ WorkerWrite

-----------------------------------------------------------------------------
(* The controller *)

\* Every operation but resume begins with pause, which ends at once when the
\* log is paused already.
PausedBefore ==
    /\ pc = "idle"
    /\ ~running
    /\ op' \in Operations \ {"none"}
    /\ pc' = "paused"
    /\ UNCHANGED <<ringVars, running, flags, file, colors, workerVars, count,
                   console>>

\* The entry that signals the worker to stop.
PushEnd ==
    /\ entries' = [entries EXCEPT ![tail].is_end = TRUE]
    /\ tail' = After(tail)

Pause ==
    /\ pc = "idle"
    /\ running
    /\ op' \in Operations \ {"none"}
    /\ pc' = "joining"
    /\ running' = FALSE
    /\ PushEnd
    /\ Notify
    /\ UNCHANGED <<head, flags, file, colors, cur, count, console>>

\* A mutant of Join.
JoinNot ==
    /\ pc = "joining"
    /\ pc' = "paused"
    /\ UNCHANGED <<ringVars, running, flags, file, colors, workerVars, op,
                   count, console>>

Join ==
    /\ pc = "joining"
    /\ worker = "exited"
    /\ pc' = "paused"
    /\ worker' = "none"
    /\ UNCHANGED <<ringVars, running, flags, file, colors, cur, op, count,
                   console>>

EndPause ==
    /\ pc = "paused"
    /\ op = "pause"
    /\ pc' = "idle"
    /\ op' = "none"
    /\ UNCHANGED <<ringVars, running, flags, file, colors, workerVars, count,
                   console>>

Flush ==
    /\ pc = "paused"
    /\ op = "flush"
    /\ pc' = "resuming"
    /\ UNCHANGED <<ringVars, running, flags, file, colors, workerVars, op,
                   count, console>>

\* fclose and fopen
SetFile ==
    /\ pc = "paused"
    /\ op = "set_file"
    /\ pc' = "resuming"
    /\ file' \in Files \cup {NoFile}
    /\ UNCHANGED <<ringVars, running, flags, colors, workerVars, op, count,
                   console>>

SetColors ==
    /\ pc = "paused"
    /\ op = "set_colors"
    /\ pc' = "resuming"
    /\ colors' \in BOOLEAN
    /\ UNCHANGED <<ringVars, running, flags, file, workerVars, op, count,
                   console>>

\* Nobody may use the log that is freed.
Free ==
    /\ pc = "paused"
    /\ op = "free"
    /\ pc' = "freed"
    /\ count' = MaxMessages
    /\ UNCHANGED <<ringVars, running, flags, file, colors, workerVars, op,
                   console>>

\* std::thread: a new worker
Start ==
    /\ running' = TRUE
    /\ worker' = "check"

ResumeAfter ==
    /\ pc = "resuming"
    /\ pc' = "idle"
    /\ op' = "none"
    /\ Start
    /\ UNCHANGED <<ringVars, flags, file, colors, cur, count, console>>

Resume ==
    /\ pc = "idle"
    /\ ~running
    /\ Start
    /\ UNCHANGED <<ringVars, flags, file, colors, cur, controlVars, count,
                   console>>

Control == Join \/ EndPause \/ Flush \/ SetFile \/ SetColors \/ Free
               \/ ResumeAfter
Operate == PausedBefore \/ Pause \/ Resume

-----------------------------------------------------------------------------
Init ==
    /\ entries = NewRing(Capacity)
    /\ head = 0
    /\ tail = 0
    /\ running = TRUE
    /\ flags = {}
    /\ file = NoFile
    /\ colors = FALSE
    /\ cur = Blank
    /\ worker = "check"
    /\ op = "none"
    /\ pc = "idle"
    /\ count = 0
    /\ console = <<>>

Next == AddDiscarded \/ AddEntry \/ SetFlag \/ Worker \/ Operate \/ Control

Spec == Init /\ [][Next]_vars

\* The worker runs, and the controller completes what it has begun.
Fairness ==
    /\ WF_vars(Worker)
    /\ WF_vars(Control)

FairSpec == Spec /\ Fairness

-----------------------------------------------------------------------------
(* Properties *)

ControllerPoints == {"idle", "joining", "paused", "resuming", "freed"}

TypeOK ==
    /\ entries \in [DOMAIN entries -> Entries]
    /\ head \in DOMAIN entries
    /\ tail \in DOMAIN entries
    /\ running \in BOOLEAN
    /\ flags \subseteq Flags
    /\ file \in Files \cup {NoFile}
    /\ colors \in BOOLEAN
    /\ cur \in Entries
    /\ worker \in WorkerPoints
    /\ op \in Operations
    /\ pc \in ControllerPoints
    /\ count \in Ids

\* The mark of a pause is in the ring, as the last entry: the worker has not
\* come to it.
Marked == pc = "joining" /\ worker # "exited"

\* The mark took the last free entry: the ring is full and looks empty.
Full == Marked /\ head = tail

\* The entries that are in the ring, the oldest one first.
Length == IF Full THEN Size ELSE (tail - head) % Size
At(i)  == entries[(head + i - 1) % Size]

\* The messages that are in the hands of the worker or in the ring.
Message(e) == [id |-> e.id, flags |-> e.flags]
Taken   == IF worker = "print" THEN <<Message(cur)>> ELSE <<>>
Waiting == IF Marked THEN Length - 1 ELSE Length
Pending == Taken \o [i \in 1 .. Waiting |-> Message(At(i))]

\* Messages are printed in the order in which they were added, none is lost
\* or printed twice when the ring wraps, grows or meets the mark of an earlier
\* pause, and a paused log goes on only when all of them are printed.
Stream == INSTANCE LogStream WITH
              Messages <- [id : Ids, flags : SUBSET Flags],
              open <- running,
              pending <- Pending,
              shown <- console
ImplementsStream == Stream!Spec

\* The worker uses the file and the colors without the mutex: they change only
\* when there is no worker, and what was added before the change is printed.
SettingsAlone ==
    [][file' # file \/ colors' # colors => worker = "none" /\ Pending = <<>>]_vars

\* A message that is accepted is printed, unless a pause has filled the ring.
AddedIsPrinted ==
    \A id \in 1 .. MaxMessages :
        (\E i \in DOMAIN Pending : Pending[i].id = id)
            ~> (Full \/ \E i \in DOMAIN console : console[i].id = id)

\* A pause ends once it has left an entry of the ring free.
PauseWithRoomEnds == (pc = "joining" /\ ~Full) ~> pc # "joining"
=============================================================================
