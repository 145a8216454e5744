---------------------------- MODULE RunLifecycle ----------------------------
(***************************************************************************)
(* RunExecutor.execute of dispatch/run.py and the Reconciler of            *)
(* storage/reconcile.py: how one physical worker invocation is recorded    *)
(* in a bundle of immutable files, an append-only trace and an optional    *)
(* SQLite row, and how the three are compared and repaired after a kill.   *)
(*                                                                         *)
(* Runs are the attempts at one logical job; they have bundles of their    *)
(* own and share one canonical path.  Every store access is one step, so   *)
(* a process can be killed, and another one can act, between any two.      *)
(* ArtifactStore shows that a file write is one atomic write-once step,    *)
(* and its flock and fsync make a trace append one.                        *)
(***************************************************************************)
EXTENDS Naturals, FiniteSets

CONSTANTS
  Runs,      \* agent_run_ids
  Attempt,   \* Attempt[r] : RunContext.attempt_no, given by the operator
  Outputs,   \* raw outputs a worker may return
  Valid,     \* the outputs that pass the validator
  None,      \* a file that does not exist
  Indexed,   \* whether a SQLiteIndex was passed in
  MaxExec,   \* bound: MaxExec[r] is how often agent_run_id r is executed
  MaxKills   \* bound: how many processes are killed

ASSUME OutputAssumption == Valid \subseteq Outputs
ASSUME NoneAssumption ==
  None \notin Runs \union Outputs \union {"passed", "failed", "running", "output_received",
                                        "completed", "invalid", "interrupted"}
ASSUME BoundAssumption ==
  MaxExec \in [Runs -> Nat] /\ MaxKills \in Nat /\ Attempt \in [Runs -> Nat]

VARIABLES
  pc,          \* pc[r] : the next step of the process executing r
  out,         \* out[r] : the response that process holds
  ending,      \* ending[r] : the terminal status it has arrived at
  execs,       \* execs[r] : how many executions of r have begun
  kills,       \* how many processes have been killed
  raw,         \* raw[r] : raw-output.txt, or None
  parsed,      \* parsed[r] : parsed.json, or None
  validation,  \* validation[r] : validation.json passed or failed, or None
  outcome,     \* outcome[r] : the status in outcome.json, or None
  canonical,   \* the run whose parsed bytes are at the canonical path, or None
  trace,       \* trace[r] : the event types of r in trace.jsonl
  row,         \* row[r] : the status of r in agent_runs, or None
  rpc,         \* the reconciler's next step
  seen,        \* the trace as inspect read it, for the runs not yet classified
  seenRow,     \* the rows as inspect read them, for the runs not yet classified
  todo,        \* runs the current pass has not handled yet
  report       \* report[r] : the actions the last inspection asks for

bundle == <<raw, parsed, validation, outcome>>
durable == <<raw, parsed, validation, outcome, canonical, trace, row>>
executor == <<pc, out, ending, execs>>
reconciler == <<rpc, seen, seenRow, todo, report>>
vars == <<pc, out, ending, execs, kills, raw, parsed, validation, outcome, canonical,
          trace, row, rpc, seen, seenRow, todo, report>>

Endings == {"completed", "invalid", "failed"}

EventTypes == {"started", "output_received", "completed", "invalid", "failed", "reconciled"}

TerminalEvents == {"invalid", "completed", "failed", "reconciled"}

CompletionEvents == {"completed", "reconciled"}

Open == {"running", "output_received"}

Statuses == Open \union Endings \union {"interrupted"}

\* _STATUS_EVENT_TYPES: the events that support a projected status.
Supports ==
  [s \in Statuses |->
     CASE s = "running" -> {"started"}
       [] s = "completed" -> CompletionEvents
       [] s = "interrupted" -> {"started"}
       [] OTHER -> {s}]

ExecSteps == {"index_running", "start", "dispatch", "save_raw", "trace_received",
              "index_received", "validate", "save_parsed", "save_validation", "promote",
              "save_outcome", "trace_ending", "index_ending"}

\* A process that is not executing: never launched, returned, ended by an
\* exception that execute does not catch, or killed.
Halted == {"idle", "done", "raised", "killed"}

RecSteps == {"idle", "rows", "bundles", "mark", "append"}

Actions == {"mark_interrupted", "append_reconciled", "reindex", "integrity_error"}

TypeOK ==
  /\ pc \in [Runs -> ExecSteps \union Halted]
  /\ out \in [Runs -> Outputs \union {None}]
  /\ ending \in [Runs -> Endings \union {None}]
  /\ execs \in [Runs -> Nat]
  /\ kills \in Nat
  /\ raw \in [Runs -> Outputs \union {None}]
  /\ parsed \in [Runs -> Outputs \union {None}]
  /\ validation \in [Runs -> {"passed", "failed", None}]
  /\ outcome \in [Runs -> Endings \union {None}]
  /\ canonical \in Runs \union {None}
  /\ trace \in [Runs -> SUBSET EventTypes]
  /\ row \in [Runs -> Statuses \union {None}]
  /\ rpc \in RecSteps
  /\ seen \in [Runs -> SUBSET EventTypes]
  /\ seenRow \in [Runs -> Statuses \union {None}]
  /\ todo \subseteq Runs
  /\ report \in [Runs -> SUBSET Actions]

Init ==
  /\ pc = [r \in Runs |-> "idle"]
  /\ out = [r \in Runs |-> None]
  /\ ending = [r \in Runs |-> None]
  /\ execs = [r \in Runs |-> 0]
  /\ kills = 0
  /\ raw = [r \in Runs |-> None]
  /\ parsed = [r \in Runs |-> None]
  /\ validation = [r \in Runs |-> None]
  /\ outcome = [r \in Runs |-> None]
  /\ canonical = None
  /\ trace = [r \in Runs |-> {}]
  /\ row = [r \in Runs |-> None]
  /\ rpc = "idle"
  /\ seen = [r \in Runs |-> {}]
  /\ seenRow = [r \in Runs |-> None]
  /\ todo = {}
  /\ report = [r \in Runs |-> {}]

-----------------------------------------------------------------------------
(***************************************************************************)
(* The stores an execution writes to                                       *)
(***************************************************************************)

Goto(r, step) == pc' = [pc EXCEPT ![r] = step]

\* ArtifactStore.write_bytes of value v: create the file, or find it identical,
\* or raise ArtifactCollisionError.  `Timed' tells a file that holds timings of
\* this execution: a rewrite is identical only if the clocks agree.
Save(file, r, v, timed, next) ==
  \/ /\ file[r] = None
     /\ file' = [file EXCEPT ![r] = v]
     /\ Goto(r, next)
  \/ /\ file[r] = v
     /\ UNCHANGED file
     /\ Goto(r, next)
  \/ /\ file[r] # None
     /\ file[r] # v \/ timed
     /\ UNCHANGED file
     /\ Goto(r, "raised")

\* TraceAppender.append under flock.
Append(r, type, next) ==
  /\ trace' = [trace EXCEPT ![r] = @ \union {type}]
  /\ Goto(r, next)

\* SQLiteIndex.upsert_agent_run.  An insert obeys the unique index on the attempt
\* number.  A stored terminal status refuses any other: a later execution asks
\* for "running" first, so it never meets its own status here.  The row an
\* earlier execution left refuses "running" when started_at differs.
Upsert(r, status, next) ==
  \/ /\ ~Indexed
     /\ UNCHANGED row
     /\ Goto(r, next)
  \/ /\ Indexed
     /\ row[r] = None
     /\ \A q \in Runs : row[q] # None => Attempt[q] # Attempt[r]
     /\ row' = [row EXCEPT ![r] = status]
     /\ Goto(r, next)
  \/ /\ Indexed
     /\ row[r] \in Open
     /\ row' = [row EXCEPT ![r] = status]
     /\ Goto(r, next)
  \/ /\ Indexed
     /\ \/ row[r] = None /\ \E q \in Runs : row[q] # None /\ Attempt[q] = Attempt[r]
        \/ row[r] \in Open /\ status = "running"
        \/ row[r] \in Statuses \ Open
     /\ UNCHANGED row
     /\ Goto(r, "raised")

-----------------------------------------------------------------------------
(***************************************************************************)
(* RunExecutor.execute, one action per store access                        *)
(***************************************************************************)

\* Everything up to input.json, whose bytes are the same in every execution.
Launch(r) ==
  /\ pc[r] \in Halted
  /\ execs[r] < MaxExec[r]
  /\ execs' = [execs EXCEPT ![r] = @ + 1]
  /\ out' = [out EXCEPT ![r] = None]
  /\ ending' = [ending EXCEPT ![r] = None]
  /\ Goto(r, "index_running")
  /\ UNCHANGED <<kills, durable, reconciler>>

IndexRunning(r) ==
  /\ pc[r] = "index_running"
  /\ Upsert(r, "running", "start")
  /\ UNCHANGED <<out, ending, execs, kills, bundle, canonical, trace, reconciler>>

AppendStarted(r) ==
  /\ pc[r] = "start"
  /\ Append(r, "started", "dispatch")
  /\ UNCHANGED <<out, ending, execs, kills, bundle, canonical, row, reconciler>>

\* The worker returns bytes, or the dispatcher raises.
Dispatch(r) ==
  /\ pc[r] = "dispatch"
  /\ \/ /\ \E o \in Outputs : out' = [out EXCEPT ![r] = o]
        /\ Goto(r, "save_raw")
        /\ UNCHANGED ending
     \/ /\ ending' = [ending EXCEPT ![r] = "failed"]
        /\ Goto(r, "save_outcome")
        /\ UNCHANGED out
  /\ UNCHANGED <<execs, kills, durable, reconciler>>

SaveRaw(r) ==
  /\ pc[r] = "save_raw"
  /\ Save(raw, r, out[r], FALSE, "trace_received")
  /\ UNCHANGED <<out, ending, execs, kills, parsed, validation, outcome, canonical, trace,
                 row, reconciler>>

AppendReceived(r) ==
  /\ pc[r] = "trace_received"
  /\ Append(r, "output_received", "index_received")
  /\ UNCHANGED <<out, ending, execs, kills, bundle, canonical, row, reconciler>>

IndexReceived(r) ==
  /\ pc[r] = "index_received"
  /\ Upsert(r, "output_received", "validate")
  /\ UNCHANGED <<out, ending, execs, kills, bundle, canonical, trace, reconciler>>

\* Mutant: the outcome carries a status that OutcomeRecord does not have.
ValidateNames(r) ==
  /\ pc[r] = "validate"
  /\ IF out[r] \in Valid
     THEN ending' = [ending EXCEPT ![r] = "validated"] /\ Goto(r, "save_parsed")
     ELSE ending' = [ending EXCEPT ![r] = "invalid"] /\ Goto(r, "save_validation")
  /\ UNCHANGED <<out, execs, kills, durable, reconciler>>

\* Mutant: the verdict of the validator is ignored.
ValidateAccepts(r) ==
  /\ pc[r] = "validate"
  /\ ending' = [ending EXCEPT ![r] = "completed"]
  /\ Goto(r, "save_parsed")
  /\ UNCHANGED <<out, execs, kills, durable, reconciler>>

\* The validator judges the bytes against frozen inputs: its verdict depends on
\* the bytes alone.
Validate(r) ==
  /\ pc[r] = "validate"
  /\ IF out[r] \in Valid
     THEN ending' = [ending EXCEPT ![r] = "completed"] /\ Goto(r, "save_parsed")
     ELSE ending' = [ending EXCEPT ![r] = "invalid"] /\ Goto(r, "save_validation")
  /\ UNCHANGED <<out, execs, kills, durable, reconciler>>

SaveParsed(r) ==
  /\ pc[r] = "save_parsed"
  /\ Save(parsed, r, out[r], FALSE, "save_validation")
  /\ UNCHANGED <<out, ending, execs, kills, raw, validation, outcome, canonical, trace, row,
                 reconciler>>

SaveValidation(r) ==
  /\ pc[r] = "save_validation"
  /\ IF ending[r] = "completed"
     THEN Save(validation, r, "passed", TRUE, "promote")
     ELSE Save(validation, r, "failed", TRUE, "save_outcome")
  /\ UNCHANGED <<out, ending, execs, kills, raw, parsed, outcome, canonical, trace, row,
                 reconciler>>

\* Mutant: promotion replaces the canonical artifact of another attempt.
PromoteReplaces(r) ==
  /\ pc[r] = "promote"
  /\ canonical' = r
  /\ Goto(r, "save_outcome")
  /\ UNCHANGED <<out, ending, execs, kills, bundle, trace, row, reconciler>>

\* Mutant: the outcome is written before the artifact is promoted.
PromoteLate(r) ==
  /\ pc[r] = "promote"
  /\ Goto(r, "save_outcome")
  /\ UNCHANGED <<canonical, out, ending, execs, kills, bundle, trace, row, reconciler>>

\* promote_parsed: the parsed bytes name their run, so the canonical path holds
\* them already, is free, or holds another attempt's and raises.
Promote(r) ==
  /\ pc[r] = "promote"
  /\ IF canonical \in {None, r}
     THEN canonical' = r /\ Goto(r, "save_outcome")
     ELSE UNCHANGED canonical /\ Goto(r, "raised")
  /\ UNCHANGED <<out, ending, execs, kills, bundle, trace, row, reconciler>>

\* Mutant: the terminal event is appended before outcome.json is written.
SaveOutcomeLate(r) ==
  /\ pc[r] = "save_outcome"
  /\ trace' = [trace EXCEPT ![r] = @ \union {ending[r]}]
  /\ Save(outcome, r, ending[r], TRUE, "index_ending")
  /\ UNCHANGED <<out, ending, execs, kills, raw, parsed, validation, canonical, row,
                 reconciler>>

\* Mutant: the row is updated before the terminal event is in the trace.
SaveOutcomeIndexes(r) ==
  /\ pc[r] = "save_outcome"
  /\ Save(outcome, r, ending[r], TRUE, "trace_ending")
  /\ row' = IF row[r] \in Open THEN [row EXCEPT ![r] = ending[r]] ELSE row
  /\ UNCHANGED <<out, ending, execs, kills, raw, parsed, validation, canonical, trace,
                 reconciler>>

SaveOutcome(r) ==
  /\ pc[r] = "save_outcome"
  /\ Save(outcome, r, ending[r], TRUE, "trace_ending")
  /\ UNCHANGED <<out, ending, execs, kills, raw, parsed, validation, canonical, trace, row,
                 reconciler>>

AppendEnding(r) ==
  /\ pc[r] = "trace_ending"
  /\ Append(r, ending[r], "index_ending")
  /\ UNCHANGED <<out, ending, execs, kills, bundle, canonical, row, reconciler>>

IndexEnding(r) ==
  /\ pc[r] = "index_ending"
  /\ Upsert(r, ending[r], "done")
  /\ UNCHANGED <<out, ending, execs, kills, bundle, canonical, trace, reconciler>>

Kill(r) ==
  /\ pc[r] \in ExecSteps
  /\ kills < MaxKills
  /\ kills' = kills + 1
  /\ Goto(r, "killed")
  /\ UNCHANGED <<out, ending, execs, durable, reconciler>>

Step(r) ==
  \/ IndexRunning(r) \/ AppendStarted(r) \/ Dispatch(r) \/ SaveRaw(r) \/ AppendReceived(r)
  \/ IndexReceived(r) \/ Validate(r) \/ SaveParsed(r) \/ SaveValidation(r) \/ Promote(r)
  \/ SaveOutcome(r) \/ AppendEnding(r) \/ IndexEnding(r)

-----------------------------------------------------------------------------
(***************************************************************************)
(* Reconciler.inspect: the trace first, then the rows, then the bundles    *)
(***************************************************************************)

\* What inspect asks for, given the events and the row it has read.

Interrupted(r, events) ==
  "started" \in events /\ events \cap TerminalEvents = {} /\ outcome[r] = None

\* _verified_canonical: a completed outcome whose canonical file has its hash.
Verified(r) == outcome[r] = "completed" /\ canonical = r

\* Mutant: only a run that died before its output arrived is repaired.
UnrecordedEarly(r, events) == Verified(r) /\ events \subseteq {"started"}

Unrecorded(r, events) == Verified(r) /\ events \cap TerminalEvents = {}

Unprojected(r, events, status) ==
  events \cap TerminalEvents # {} /\ outcome[r] # None /\ status = None

Corrupt(r, events, status) ==
  \/ events \cap TerminalEvents # {} /\ outcome[r] = None
  \/ /\ Verified(r)
     /\ events \cap TerminalEvents # {}
     /\ events \cap CompletionEvents = {}
  \/ /\ status # None
     /\ events \cap Supports[status] = {} \/ (status = "completed" /\ canonical = None)

Asked(r, events, status) ==
  {a \in Actions :
     CASE a = "mark_interrupted" -> Interrupted(r, events)
       [] a = "append_reconciled" -> Unrecorded(r, events)
       [] a = "reindex" -> Unprojected(r, events, status)
       [] a = "integrity_error" -> Corrupt(r, events, status)}

ReadTrace ==
  /\ rpc = "idle"
  /\ rpc' = "rows"
  /\ seen' = trace
  /\ UNCHANGED <<executor, kills, durable, seenRow, todo, report>>

\* The rows, and the run directories, which Launch creates.
ReadRows ==
  /\ rpc = "rows"
  /\ rpc' = "bundles"
  /\ seenRow' = row
  /\ todo' = {r \in Runs : execs[r] > 0}
  /\ report' = [r \in Runs |-> {}]
  /\ UNCHANGED <<executor, kills, durable, seen>>

Classify(r) ==
  /\ rpc = "bundles"
  /\ r \in todo
  /\ todo' = todo \ {r}
  /\ report' = [report EXCEPT ![r] = Asked(r, seen[r], seenRow[r])]
  /\ seen' = [seen EXCEPT ![r] = {}]
  /\ seenRow' = [seenRow EXCEPT ![r] = None]
  /\ UNCHANGED <<executor, kills, durable, rpc>>

EndReconcile ==
  /\ rpc' = "idle"
  /\ seen' = [r \in Runs |-> {}]
  /\ seenRow' = [r \in Runs |-> None]
  /\ todo' = {}
  /\ report' = [r \in Runs |-> {}]

\* Without --repair the report is printed, and that is all.
ReportOnly ==
  /\ rpc = "bundles"
  /\ todo = {}
  /\ EndReconcile
  /\ UNCHANGED <<executor, kills, durable>>

\* With --repair: apply_safe_repairs, which marks rows only if there is an index.
Repair ==
  /\ rpc = "bundles"
  /\ todo = {}
  /\ rpc' = "mark"
  /\ todo' = {r \in Runs : Indexed /\ "mark_interrupted" \in report[r]}
  /\ UNCHANGED <<executor, kills, durable, seen, seenRow, report>>

\* Mutant: the WHERE clause on the open statuses is missing.
MarkAnyRow(r) ==
  /\ rpc = "mark"
  /\ r \in todo
  /\ todo' = todo \ {r}
  /\ row' = IF row[r] # None THEN [row EXCEPT ![r] = "interrupted"] ELSE row
  /\ UNCHANGED <<executor, kills, bundle, canonical, trace, rpc, seen, seenRow, report>>

\* Mutant: the WHERE clause knows the status `running' only.
MarkRunning(r) ==
  /\ rpc = "mark"
  /\ r \in todo
  /\ todo' = todo \ {r}
  /\ row' = IF row[r] = "running" THEN [row EXCEPT ![r] = "interrupted"] ELSE row
  /\ UNCHANGED <<executor, kills, bundle, canonical, trace, rpc, seen, seenRow, report>>

\* SQLiteIndex.mark_interrupted: one UPDATE, which spares terminal rows.
MarkInterrupted(r) ==
  /\ rpc = "mark"
  /\ r \in todo
  /\ todo' = todo \ {r}
  /\ row' = IF row[r] \in Open THEN [row EXCEPT ![r] = "interrupted"] ELSE row
  /\ UNCHANGED <<executor, kills, bundle, canonical, trace, rpc, seen, seenRow, report>>

\* The trace is read again: a run without any event is passed over.
Reload ==
  /\ rpc = "mark"
  /\ todo = {}
  /\ rpc' = "append"
  /\ todo' = {r \in Runs : "append_reconciled" \in report[r] /\ trace[r] # {}}
  /\ UNCHANGED <<executor, kills, durable, seen, seenRow, report>>

AppendReconciled(r) ==
  /\ rpc = "append"
  /\ r \in todo
  /\ todo' = todo \ {r}
  /\ trace' = [trace EXCEPT ![r] = @ \union {"reconciled"}]
  /\ UNCHANGED <<executor, kills, bundle, canonical, row, rpc, seen, seenRow, report>>

EndRepair ==
  /\ rpc = "append"
  /\ todo = {}
  /\ EndReconcile
  /\ UNCHANGED <<executor, kills, durable>>

KillReconciler ==
  /\ rpc # "idle"
  /\ kills < MaxKills
  /\ kills' = kills + 1
  /\ EndReconcile
  /\ UNCHANGED <<executor, durable>>

Reconcile ==
  \/ ReadTrace \/ ReadRows \/ ReportOnly \/ Repair \/ Reload \/ EndRepair
  \/ \E r \in Runs : Classify(r) \/ MarkInterrupted(r) \/ AppendReconciled(r)

Next ==
  \/ \E r \in Runs : Launch(r) \/ Step(r) \/ Kill(r)
  \/ Reconcile
  \/ KillReconciler

Spec == Init /\ [][Next]_vars

\* The process of an execution keeps running unless it is killed and its worker
\* answers or raises; the operator keeps reconciling, now and then with --repair.
Fairness ==
  /\ \A r \in Runs : WF_vars(Step(r))
  /\ WF_vars(Reconcile)
  /\ SF_vars(Repair)

FairSpec == Spec /\ Fairness

-----------------------------------------------------------------------------
(***************************************************************************)
(* Properties                                                              *)
(***************************************************************************)

\* The canonical artifact is the parsed form of an output that its own run saved
\* and that passed validation: no failed or invalid response is ever promoted.
PromotedIsValidated ==
  canonical # None =>
    /\ raw[canonical] \in Valid
    /\ parsed[canonical] = raw[canonical]
    /\ validation[canonical] = "passed"

\* A completed outcome is that of the one run that holds the canonical path:
\* two attempts at a job never both complete, whatever order they run in.
CompletedIsCanonical == \A r \in Runs : outcome[r] = "completed" => canonical = r

\* A terminal event, whoever appended it and however stale its view was, says
\* what outcome.json says.
TraceAgreesWithOutcome ==
  \A r \in Runs :
    /\ trace[r] \cap CompletionEvents # {} => outcome[r] = "completed" /\ canonical = r
    /\ \A e \in {"invalid", "failed"} : e \in trace[r] => outcome[r] = e

\* A terminal row projects an outcome that the trace has recorded.
RowAgreesWithTrace ==
  \A r \in Runs : row[r] \in Endings => row[r] \in trace[r] /\ outcome[r] = row[r]

\* No execution and no repair changes a terminal row.
TerminalRowsStay ==
  [][\A r \in Runs : row[r] \in Statuses \ Open => row'[r] = row[r]]_vars

\* A run that has started gets a verdict or is marked interrupted (with an index).
EveryRunSettles ==
  \A r \in Runs : "started" \in trace[r] ~> (outcome[r] # None \/ row[r] = "interrupted")

\* A completed outcome is recorded in the trace, by its own process or, if that
\* was killed in between, by a repair.
CompletionIsRecorded ==
  \A r \in Runs : outcome[r] = "completed" ~> trace[r] \cap CompletionEvents # {}

\* What the specification of crash recovery says of a promoted run whose process
\* has ended: it is never taken for an interrupted one.
PromotedIsNotInterrupted ==
  \A r \in Runs :
    pc[r] \in Halted /\ "mark_interrupted" \in report[r]
      => ~(canonical = r /\ validation[r] = "passed")

Quiet == \A r \in Runs : pc[r] \in Halted

\* What it says of a completion that the index lacks: with no execution running,
\* either an inspection asks for something or the row is completed.
CompletionIsProjected ==
  Quiet => \A r \in Runs :
    trace[r] \cap CompletionEvents # {} /\ Asked(r, trace[r], row[r]) = {} => row[r] = "completed"

-----------------------------------------------------------------------------
(***************************************************************************)
(* An execution whose agent_run_id is used once follows the diagram of run *)
(* states; the stage of a run is read off the files that it has written.   *)
(***************************************************************************)

stageBar ==
  [r \in Runs |->
     CASE outcome[r] # None -> outcome[r]
       [] outcome[r] = None /\ canonical = r -> "canonicalized"
       [] outcome[r] = None /\ canonical # r /\ validation[r] = "passed" -> "validated"
       [] outcome[r] = None /\ canonical # r /\ validation[r] # "passed" /\ raw[r] # None ->
            "output_received"
       [] OTHER -> IF "started" \in trace[r] THEN "running" ELSE "allocated"]

Diagram == INSTANCE RunStates WITH NoRun <- None, stage <- stageBar, winner <- canonical

\* Every execution, kills and repairs included, moves along the diagram.
FollowsRunStates == Diagram!RSpec
=============================================================================
