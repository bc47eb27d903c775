------------------------------ MODULE MCRouter ------------------------------
(***************************************************************************)
(* Router for TLC.                                                         *)
(***************************************************************************)
EXTENDS Router, TLC

\* The models and the HTTP threads are interchangeable.
Symmetry == Permutations(Models) \cup Permutations(Handlers)

\* last_used is read for the models that run, is only compared, and is set
\* anew by load: states that differ in it otherwise behave alike.
View == <<status, exit_code, [m \in Active |->
             Cardinality({n \in Active : last_used[n] < last_used[m]})],
          stopping_models, childVars, threadVars, handlerVars, main, killed>>
=============================================================================
