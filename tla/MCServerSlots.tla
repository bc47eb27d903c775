---------------------------- MODULE MCServerSlots ----------------------------
(***************************************************************************)
(* ServerSlots for TLC: the request par is a completion with n_cmpl = 2,   *)
(* of which chi is the child, the others are single tasks.  Each cfg picks *)
(* the tasks and what may come of their prompts.                           *)
(***************************************************************************)
EXTENDS ServerSlots

CONSTANTS par, chi, t1, t2

MCChildren == [t \in Tasks |-> IF t = par THEN <<chi>> ELSE <<>>]

MCSameKind == [t \in Tasks |-> "completion"]
MCAllKinds == [t \in Tasks |-> IF t = t1 THEN "embedding"
                               ELSE IF t = t2 THEN "slot_action" ELSE "completion"]

MCSeated  == [t \in Tasks |-> IF t = t1 THEN {"ok", "empty", "too_long"} ELSE {"ok"}]
MCAnyFate == [t \in Tasks |-> IF t = t2 THEN {"ok"}
                              ELSE IF t = par THEN {"ok", "invalid", "too_long"}
                              ELSE {"ok", "invalid", "empty", "too_long"}]

MCAnySlot == [t \in Tasks |-> 0]
MCSlotTwo == [t \in Tasks |-> IF t \in {t1, t2} THEN 2 ELSE 0]
=============================================================================
