--------------------------- MODULE MCRunLifecycle ---------------------------
(***************************************************************************)
(* Instances of RunLifecycle for TLC: two attempts at one job.             *)
(***************************************************************************)
EXTENDS RunLifecycle, TLC

CONSTANTS r1, r2

\* The operator numbers the retry, as next_attempt prescribes.
Numbered == r1 :> 1 @@ r2 :> 2

\* The operator leaves --attempt at its default for both.
Unnumbered == r1 :> 1 @@ r2 :> 1

Once == [r \in Runs |-> 1]

\* One of the attempts is executed again under its own agent_run_id.
Repeated == r1 :> 2 @@ r2 :> 1
=============================================================================
