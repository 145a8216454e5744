----------------------------- MODULE RunStates -----------------------------
(***************************************************************************)
(* The life of the physical attempts at one logical job, as the state      *)
(* diagram of a run promises it and as AgentRun validates its records:     *)
(* each attempt moves forward only, fails only before its output has       *)
(* arrived, and becomes canonical only once validated; the job has one     *)
(* canonical artifact, and the attempt that holds it is the one that       *)
(* completes.                                                              *)
(***************************************************************************)

CONSTANTS
  Runs,     \* agent_run_ids of the job
  NoRun     \* no attempt is canonical

VARIABLES
  stage,    \* stage[r] : how far attempt r has come
  winner    \* the attempt whose artifact is canonical, or NoRun

rvars == <<stage, winner>>

Move(r, from, to) ==
  /\ stage[r] \in from
  /\ stage' = [stage EXCEPT ![r] = to]

RInit ==
  /\ stage = [r \in Runs |-> "allocated"]
  /\ winner = NoRun

Start(r) == Move(r, {"allocated"}, "running") /\ UNCHANGED winner

Fail(r) == Move(r, {"running"}, "failed") /\ UNCHANGED winner

Receive(r) == Move(r, {"running"}, "output_received") /\ UNCHANGED winner

Reject(r) == Move(r, {"output_received"}, "invalid") /\ UNCHANGED winner

Validate(r) == Move(r, {"output_received"}, "validated") /\ UNCHANGED winner

Promote(r) ==
  /\ winner = NoRun
  /\ Move(r, {"validated"}, "canonicalized")
  /\ winner' = r

Complete(r) ==
  /\ winner = r
  /\ Move(r, {"canonicalized"}, "completed")
  /\ UNCHANGED winner

RNext ==
  \E r \in Runs :
    \/ Start(r) \/ Fail(r) \/ Receive(r) \/ Reject(r)
    \/ Validate(r) \/ Promote(r) \/ Complete(r)

RSpec == RInit /\ [][RNext]_rvars
=============================================================================
