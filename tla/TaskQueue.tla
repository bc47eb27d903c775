------------------------------ MODULE TaskQueue ------------------------------
(***************************************************************************)
(* The two containers of server_queue, a deque of tasks to process and a   *)
(* deque of tasks that wait for a slot, as pure operators on sequences.    *)
(* A task is a record with at least the fields id, the task's identifier,  *)
(* and type, one of TaskTypes; a "cancel" task names another one in the    *)
(* field target.                                                           *)
(***************************************************************************)
EXTENDS Naturals, Sequences

\* Does the deque hold the task u?
In(q, u) == \E i \in DOMAIN q : q[i] = u

\* Does the deque hold a task with this identifier?
Holds(q, id) == \E i \in DOMAIN q : q[i].id = id

\* queue_tasks.push_back / push_front of one task.
Push(q, task, front) == IF front THEN <<task>> \o q ELSE Append(q, task)

(***************************************************************************)
(* Drop the element at position i.                                         *)
(***************************************************************************)
DropAt(q, i) == [j \in 1 .. Len(q) - 1 |-> IF j < i THEN q[j] ELSE q[j + 1]]

WithoutErase(q, id) == q \* a mutant of Without

(***************************************************************************)
(* erase(remove_if(id = id_target)).  An identifier is drawn once from the *)
(* counter of server_queue and its task is moved, never copied, so a deque *)
(* holds it at most once (OccursOnce below) and dropping that occurrence   *)
(* drops all of them.                                                      *)
(***************************************************************************)
Without(q, id) ==
    IF Holds(q, id)
    THEN DropAt(q, CHOOSE i \in DOMAIN q : q[i].id = id)
    ELSE q

\* The identifier id occurs at most once in the deque.
OccursOnce(q, id) == \A i, j \in DOMAIN q : q[i].id = id /\ q[j].id = id => i = j
=============================================================================
