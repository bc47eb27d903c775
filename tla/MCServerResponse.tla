--------------------------- MODULE MCServerResponse ---------------------------
(***************************************************************************)
(* ServerResponse for TLC: a request with two tasks that is answered at    *)
(* once, and a stream with one task.                                       *)
(***************************************************************************)
EXTENDS ServerResponse

CONSTANTS r1, r2, t1, t2, t3

MCTasksOf == (r1 :> {t1, t2}) @@ (r2 :> {t3})
=============================================================================
