---------------------------- MODULE MCThreadPool ----------------------------
(***************************************************************************)
(* ThreadPool for TLC.                                                     *)
(***************************************************************************)
EXTENDS ThreadPool

\* Nodes before and after a matrix multiplication, and one to skip.
MCGraphs == {<<"plain", "empty", "mul_mat">>, <<"mul_mat", "plain">>}
=============================================================================
