----------------------------- MODULE LogStream -----------------------------
(***************************************************************************)
(* What common/log.h promises of a log: messages are shown one by one in   *)
(* the order in which they were added, those that are added while the log  *)
(* is paused are discarded, and a log that was paused accepts messages     *)
(* again only when all those before the pause have been shown.             *)
(***************************************************************************)
EXTENDS Sequences

CONSTANT Messages \* what may be added

VARIABLES
    open,    \* messages are accepted
    pending, \* those accepted and not yet shown
    shown    \* those shown

vars == <<open, pending, shown>>

Init ==
    /\ open = TRUE
    /\ pending = <<>>
    /\ shown = <<>>

Add(m) ==
    /\ open
    /\ pending' = Append(pending, m)
    /\ UNCHANGED <<open, shown>>

Show ==
    /\ pending # <<>>
    /\ shown' = Append(shown, Head(pending))
    /\ pending' = Tail(pending)
    /\ UNCHANGED open

Pause ==
    /\ open
    /\ open' = FALSE
    /\ UNCHANGED <<pending, shown>>

Resume ==
    /\ ~open
    /\ pending = <<>>
    /\ open' = TRUE
    /\ UNCHANGED <<pending, shown>>

Next == (\E m \in Messages : Add(m)) \/ Show \/ Pause \/ Resume

Spec == Init /\ [][Next]_vars
=============================================================================
