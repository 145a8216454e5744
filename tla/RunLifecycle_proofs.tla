------------------------ MODULE RunLifecycle_proofs ------------------------
(***************************************************************************)
(* The guarantees of RunLifecycle, proved for any number of attempts, any  *)
(* outputs, any numbering and any bounds.                                  *)
(***************************************************************************)
EXTENDS RunLifecycle, TLAPS

\* What each step of an execution relies on: the bytes it holds and has saved.
HoldsOutput ==
  \A r \in Runs :
    /\ pc[r] \in {"save_raw", "trace_received", "index_received", "validate", "save_parsed",
                  "save_validation", "promote"} => out[r] \in Outputs
    /\ pc[r] \in {"trace_received", "index_received", "validate", "save_parsed",
                  "save_validation", "promote"} => raw[r] = out[r]

\* The verdict it has reached, and the files that support the verdict.
HoldsVerdict ==
  \A r \in Runs :
    /\ pc[r] \in {"save_parsed", "promote"} => ending[r] = "completed"
    /\ pc[r] = "save_validation" => ending[r] \in {"completed", "invalid"}
    /\ pc[r] \in {"save_outcome", "trace_ending", "index_ending"} => ending[r] \in Endings
    /\ pc[r] \in {"save_parsed", "save_validation", "promote"} /\ ending[r] = "completed"
         => raw[r] \in Valid
    /\ pc[r] \in {"save_validation", "promote"} /\ ending[r] = "completed"
         => parsed[r] = raw[r]
    /\ pc[r] = "promote" => validation[r] = "passed"

\* What it has made durable once it has come to its end.
HoldsEnding ==
  \A r \in Runs :
    /\ pc[r] \in {"save_outcome", "trace_ending", "index_ending"} /\ ending[r] = "completed"
         => canonical = r
    /\ pc[r] \in {"trace_ending", "index_ending"} => outcome[r] = ending[r]
    /\ pc[r] = "index_ending" => ending[r] \in trace[r]

\* A repair is only ever asked for, and carried out, on a verified completion.
RepairSound ==
  \A r \in Runs :
    /\ "append_reconciled" \in report[r] => Verified(r)
    /\ rpc = "append" /\ r \in todo => "append_reconciled" \in report[r]

IInv ==
  /\ TypeOK
  /\ HoldsOutput
  /\ HoldsVerdict
  /\ HoldsEnding
  /\ RepairSound
  /\ PromotedIsValidated
  /\ CompletedIsCanonical
  /\ TraceAgreesWithOutcome
  /\ RowAgreesWithTrace

-----------------------------------------------------------------------------
LEMMA TypeKeeps == TypeOK /\ HoldsVerdict /\ [Next]_vars => TypeOK'
<1> USE OutputAssumption, BoundAssumption
    DEF TypeOK, ExecSteps, Halted, RecSteps, Endings, Open, Statuses, EventTypes,
        TerminalEvents, CompletionEvents, Actions, bundle, durable, executor, reconciler
<1> SUFFICES ASSUME TypeOK, HoldsVerdict, [Next]_vars PROVE TypeOK'
  OBVIOUS
<1>1. ASSUME NEW r \in Runs, Launch(r) PROVE TypeOK'
  BY <1>1 DEF Launch, Goto
<1>2. ASSUME NEW r \in Runs, Step(r) PROVE TypeOK'
  <2>1. CASE IndexRunning(r) BY <2>1 DEF IndexRunning, Upsert, Goto
  <2>2. CASE AppendStarted(r) BY <2>2 DEF AppendStarted, Append, Goto
  <2>3. CASE Dispatch(r) BY <2>3 DEF Dispatch, Goto
  <2>4. CASE SaveRaw(r) BY <2>4 DEF SaveRaw, Save, Goto
  <2>5. CASE AppendReceived(r) BY <2>5 DEF AppendReceived, Append, Goto
  <2>6. CASE IndexReceived(r) BY <2>6 DEF IndexReceived, Upsert, Goto
  <2>7. CASE Validate(r) BY <2>7 DEF Validate, Goto
  <2>8. CASE SaveParsed(r) BY <2>8 DEF SaveParsed, Save, Goto
  <2>9. CASE SaveValidation(r) BY <2>9 DEF SaveValidation, Save, Goto
  <2>10. CASE Promote(r) BY <2>10 DEF Promote, Goto
  <2>11. CASE SaveOutcome(r) BY <2>11 DEF SaveOutcome, Save, Goto
  <2>12. CASE AppendEnding(r) BY <2>12 DEF HoldsVerdict, AppendEnding, Append, Goto
  <2>13. CASE IndexEnding(r) BY <2>13 DEF IndexEnding, Upsert, Goto
  <2> QED BY <1>2, <2>1, <2>2, <2>3, <2>4, <2>5, <2>6, <2>7, <2>8, <2>9, <2>10, <2>11, <2>12, <2>13 DEF Step
<1>3. ASSUME NEW r \in Runs, Kill(r) PROVE TypeOK'
  BY <1>3 DEF Kill, Goto
<1>4. CASE Reconcile
  <2>1. CASE ReadTrace BY <2>1 DEF ReadTrace
  <2>2. CASE ReadRows BY <2>2 DEF ReadRows
  <2>3. CASE ReportOnly BY <2>3 DEF ReportOnly, EndReconcile
  <2>4. CASE Repair BY <2>4 DEF Repair
  <2>5. CASE Reload BY <2>5 DEF Reload
  <2>6. CASE EndRepair BY <2>6 DEF EndRepair, EndReconcile
  <2>7. ASSUME NEW r \in Runs, Classify(r) PROVE TypeOK'
    BY <2>7 DEF Classify, Asked
  <2>8. ASSUME NEW r \in Runs, MarkInterrupted(r) PROVE TypeOK'
    BY <2>8 DEF MarkInterrupted
  <2>9. ASSUME NEW r \in Runs, AppendReconciled(r) PROVE TypeOK'
    BY <2>9 DEF AppendReconciled
  <2> QED BY <1>4, <2>1, <2>2, <2>3, <2>4, <2>5, <2>6, <2>7, <2>8, <2>9 DEF Reconcile
<1>5. CASE KillReconciler
  BY <1>5 DEF KillReconciler, EndReconcile
<1>6. CASE UNCHANGED vars
  BY <1>6 DEF vars
<1> QED BY <1>1, <1>2, <1>3, <1>4, <1>5, <1>6 DEF Next
-----------------------------------------------------------------------------
LEMMA StepKeeps == ASSUME IInv, TypeOK', NEW r \in Runs, Step(r) PROVE IInv'
<1> USE NoneAssumption, OutputAssumption
    DEF IInv, TypeOK, HoldsOutput, HoldsVerdict, HoldsEnding, RepairSound, PromotedIsValidated,
        CompletedIsCanonical, TraceAgreesWithOutcome, RowAgreesWithTrace, Verified, Endings,
        Open, Statuses, CompletionEvents, bundle, durable, executor, reconciler, Goto
<1>1. CASE IndexRunning(r) BY <1>1 DEF IndexRunning, Upsert
<1>2. CASE AppendStarted(r) BY <1>2 DEF AppendStarted, Append
<1>3. CASE Dispatch(r) BY <1>3 DEF Dispatch
<1>4. CASE SaveRaw(r) BY <1>4 DEF SaveRaw, Save
<1>5. CASE AppendReceived(r) BY <1>5 DEF AppendReceived, Append
<1>6. CASE IndexReceived(r) BY <1>6 DEF IndexReceived, Upsert
<1>7. CASE Validate(r) BY <1>7 DEF Validate
<1>8. CASE SaveParsed(r) BY <1>8 DEF SaveParsed, Save
<1>9. CASE SaveValidation(r) BY <1>9 DEF SaveValidation, Save
<1>10. CASE Promote(r) BY <1>10 DEF Promote
<1>11. CASE SaveOutcome(r) BY <1>11 DEF SaveOutcome, Save
<1>12. CASE AppendEnding(r) BY <1>12 DEF AppendEnding, Append
<1>13. CASE IndexEnding(r) BY <1>13 DEF IndexEnding, Upsert
<1> QED BY <1>1, <1>2, <1>3, <1>4, <1>5, <1>6, <1>7, <1>8, <1>9, <1>10, <1>11, <1>12, <1>13 DEF Step

LEMMA LaunchKeeps == ASSUME IInv, TypeOK', NEW r \in Runs, Launch(r) PROVE IInv'
BY DEF IInv, TypeOK, HoldsOutput, HoldsVerdict, HoldsEnding, RepairSound, PromotedIsValidated,
   CompletedIsCanonical, TraceAgreesWithOutcome, RowAgreesWithTrace, Verified, durable,
   reconciler, Launch, Goto

LEMMA KillKeeps == ASSUME IInv, TypeOK', NEW r \in Runs, Kill(r) PROVE IInv'
BY DEF IInv, TypeOK, HoldsOutput, HoldsVerdict, HoldsEnding, RepairSound, PromotedIsValidated,
   CompletedIsCanonical, TraceAgreesWithOutcome, RowAgreesWithTrace, Verified, durable,
   reconciler, Kill, Goto

\* A step of the reconciler that reads, reports or gives up leaves what the
\* executions rely on as it was, and asks for repairs that are justified.
LEMMA ReadingKeeps ==
  ASSUME IInv, TypeOK', UNCHANGED <<executor, durable>>, RepairSound'
  PROVE  IInv'
BY DEF IInv, HoldsOutput, HoldsVerdict, HoldsEnding, PromotedIsValidated, CompletedIsCanonical,
   TraceAgreesWithOutcome, RowAgreesWithTrace, durable, executor

LEMMA ReconcileKeeps == ASSUME IInv, TypeOK', Reconcile \/ KillReconciler PROVE IInv'
<1> USE DEF durable, executor
<1>1. CASE ReadTrace
  <2>1. RepairSound'
    BY <1>1 DEF ReadTrace, IInv, RepairSound, Verified
  <2> QED BY <1>1, <2>1, ReadingKeeps DEF ReadTrace
<1>2. CASE ReadRows
  <2>1. RepairSound'
    BY <1>2 DEF ReadRows, IInv, RepairSound, Verified
  <2> QED BY <1>2, <2>1, ReadingKeeps DEF ReadRows
<1>3. CASE ReportOnly \/ EndRepair \/ KillReconciler
  <2>1. RepairSound'
    BY <1>3 DEF ReportOnly, EndRepair, KillReconciler, EndReconcile, RepairSound
  <2> QED BY <1>3, <2>1, ReadingKeeps DEF ReportOnly, EndRepair, KillReconciler
<1>4. CASE Repair
  <2>1. RepairSound'
    BY <1>4 DEF Repair, IInv, RepairSound, Verified
  <2> QED BY <1>4, <2>1, ReadingKeeps DEF Repair
<1>5. CASE Reload
  <2>1. RepairSound'
    BY <1>5 DEF Reload, IInv, RepairSound, Verified
  <2> QED BY <1>5, <2>1, ReadingKeeps DEF Reload
<1>6. ASSUME NEW r \in Runs, Classify(r) PROVE IInv'
  <2>1. "append_reconciled" \in Asked(r, seen[r], seenRow[r]) => Verified(r)
    BY DEF Asked, Actions, Unrecorded
  <2>2. RepairSound'
    BY <1>6, <2>1 DEF Classify, IInv, TypeOK, RepairSound, Verified
  <2> QED BY <1>6, <2>2, ReadingKeeps DEF Classify
<1>7. ASSUME NEW r \in Runs, MarkInterrupted(r) PROVE IInv'
  BY <1>7 DEF MarkInterrupted, IInv, TypeOK, HoldsOutput, HoldsVerdict, HoldsEnding,
     RepairSound, PromotedIsValidated, CompletedIsCanonical, TraceAgreesWithOutcome,
     RowAgreesWithTrace, Verified, Endings, bundle
<1>8. ASSUME NEW r \in Runs, AppendReconciled(r) PROVE IInv'
  BY <1>8 DEF AppendReconciled, IInv, TypeOK, HoldsOutput, HoldsVerdict, HoldsEnding,
     RepairSound, PromotedIsValidated, CompletedIsCanonical, TraceAgreesWithOutcome,
     RowAgreesWithTrace, Verified, CompletionEvents, bundle
<1> QED BY <1>1, <1>2, <1>3, <1>4, <1>5, <1>6, <1>7, <1>8 DEF Reconcile

LEMMA InitIInv == Init => IInv
BY OutputAssumption, NoneAssumption
   DEF Init, IInv, TypeOK, ExecSteps, Halted, RecSteps, Endings, Open, Statuses, HoldsOutput,
       HoldsVerdict, HoldsEnding, RepairSound, PromotedIsValidated, CompletedIsCanonical,
       TraceAgreesWithOutcome, RowAgreesWithTrace, CompletionEvents

LEMMA Inductive == Spec => []IInv
<1>1. IInv /\ [Next]_vars => IInv'
  <2> SUFFICES ASSUME IInv, [Next]_vars PROVE IInv'
    OBVIOUS
  <2>1. TypeOK'
    BY TypeKeeps DEF IInv
  <2>2. ASSUME NEW r \in Runs, Launch(r) PROVE IInv'
    BY <2>1, <2>2, LaunchKeeps
  <2>3. ASSUME NEW r \in Runs, Step(r) PROVE IInv'
    BY <2>1, <2>3, StepKeeps
  <2>4. ASSUME NEW r \in Runs, Kill(r) PROVE IInv'
    BY <2>1, <2>4, KillKeeps
  <2>5. CASE Reconcile \/ KillReconciler
    BY <2>1, <2>5, ReconcileKeeps
  <2>6. CASE UNCHANGED vars
    <3>1. RepairSound'
      BY <2>6 DEF vars, IInv, RepairSound, Verified
    <3> QED BY <2>1, <2>6, <3>1, ReadingKeeps DEF vars, executor, durable
  <2> QED BY <2>2, <2>3, <2>4, <2>5, <2>6 DEF Next
<1> QED BY InitIInv, <1>1, PTL DEF Spec

-----------------------------------------------------------------------------
\* Every variable keeps its type, however often the runs are executed, killed
\* and repaired: TypeOK of RunLifecycle.
THEOREM TypeCorrect == Spec => []TypeOK
BY Inductive, PTL DEF IInv

\* What promote_parsed puts at the canonical path is the validated output of
\* the run named there: PromotedIsValidated.
THEOREM OnlyValidatedIsPromoted == Spec => []PromotedIsValidated
BY Inductive, PTL DEF IInv

\* outcome.json says `completed' only of the run that holds the canonical path:
\* CompletedIsCanonical.
THEOREM OneAttemptCompletes == Spec => []CompletedIsCanonical
BY Inductive, PTL DEF IInv

\* What execute and apply_safe_repairs append to the trace never contradicts
\* outcome.json: TraceAgreesWithOutcome.
THEOREM TruthfulTrace == Spec => []TraceAgreesWithOutcome
BY Inductive, PTL DEF IInv

\* A terminal row of agent_runs is supported by the trace and the bundle:
\* RowAgreesWithTrace.
THEOREM SupportedRows == Spec => []RowAgreesWithTrace
BY Inductive, PTL DEF IInv

\* Neither upsert_agent_run nor mark_interrupted changes a terminal row:
\* TerminalRowsStay.
THEOREM StableRows == Spec => TerminalRowsStay
<1> DEFINE Stays == \A r \in Runs : row[r] \in Statuses \ Open => row'[r] = row[r]
<1>1. IInv /\ [Next]_vars => Stays
  <2> SUFFICES ASSUME IInv, [Next]_vars PROVE Stays
    OBVIOUS
  <2> USE DEF IInv, TypeOK, durable, bundle
  <2>1. ASSUME UNCHANGED row PROVE Stays
    BY <2>1
  <2>2. ASSUME NEW r \in Runs, NEW status, NEW next, Upsert(r, status, next) PROVE Stays
    BY <2>2, NoneAssumption DEF Upsert, Statuses, Open, Endings
  <2>3. ASSUME NEW r \in Runs, MarkInterrupted(r) PROVE Stays
    BY <2>3 DEF MarkInterrupted
  <2>4. ASSUME NEW r \in Runs, Step(r) PROVE Stays
    BY <2>1, <2>2, <2>4 DEF Step, IndexRunning, AppendStarted, Dispatch, SaveRaw, AppendReceived,
       IndexReceived, Validate, SaveParsed, SaveValidation, Promote, SaveOutcome, AppendEnding,
       IndexEnding
  <2>5. CASE Reconcile \/ KillReconciler
    BY <2>1, <2>3, <2>5 DEF Reconcile, KillReconciler, ReadTrace, ReadRows, ReportOnly, Repair,
       Reload, EndRepair, Classify, AppendReconciled
  <2> QED BY <2>1, <2>4, <2>5 DEF Next, Launch, Kill, vars
<1> QED BY Inductive, <1>1, PTL DEF Spec, TerminalRowsStay

-----------------------------------------------------------------------------
(***************************************************************************)
(* The refinement of RunStates, for agent_run_ids that are executed once.  *)
(* FirstExecution says how far the files of a run have come at each step   *)
(* of its one execution.                                                   *)
(***************************************************************************)

FirstExecution ==
  \A r \in Runs :
    /\ execs[r] <= 1
    /\ execs[r] = 0 <=> pc[r] = "idle"
    /\ pc[r] \in {"idle", "index_running", "start"} => "started" \notin trace[r]
    /\ pc[r] \in ExecSteps \ {"index_running", "start"} => "started" \in trace[r]
    /\ pc[r] \in {"idle", "index_running", "start", "dispatch", "save_raw"} => raw[r] = None
    /\ pc[r] \in {"trace_received", "index_received", "validate", "save_parsed",
                  "save_validation", "promote"} => raw[r] # None
    /\ pc[r] \in {"idle", "index_running", "start", "dispatch", "save_raw", "trace_received",
                  "index_received", "validate", "save_parsed", "save_validation"}
         => validation[r] = None
    /\ pc[r] \in {"idle", "index_running", "start", "dispatch", "save_raw", "trace_received",
                  "index_received", "validate", "save_parsed", "save_validation", "promote"}
         => canonical # r
    /\ pc[r] \in (ExecSteps \union {"idle"}) \ {"trace_ending", "index_ending"}
         => outcome[r] = None
    /\ pc[r] = "save_outcome" /\ ending[r] = "invalid"
         => raw[r] # None /\ validation[r] = "failed" /\ canonical # r
    /\ pc[r] = "save_outcome" /\ ending[r] = "failed"
         => raw[r] = None /\ validation[r] = None /\ canonical # r

LEMMA FirstExecutionKeeps ==
  ASSUME \A r \in Runs : MaxExec[r] <= 1, IInv, FirstExecution, [Next]_vars
  PROVE  FirstExecution'
<1> USE NoneAssumption, OutputAssumption, BoundAssumption
    DEF IInv, TypeOK, FirstExecution, HoldsOutput, ExecSteps, Halted, Endings, bundle, durable,
        executor, reconciler, Goto
<1>1. ASSUME NEW r \in Runs, Launch(r) PROVE FirstExecution'
  BY <1>1 DEF Launch
<1>2. ASSUME NEW r \in Runs, Step(r) PROVE FirstExecution'
  <2>1. CASE IndexRunning(r) BY <2>1 DEF IndexRunning, Upsert
  <2>2. CASE AppendStarted(r) BY <2>2 DEF AppendStarted, Append
  <2>3. CASE Dispatch(r) BY <2>3 DEF Dispatch
  <2>4. CASE SaveRaw(r) BY <2>4 DEF SaveRaw, Save
  <2>5. CASE AppendReceived(r) BY <2>5 DEF AppendReceived, Append
  <2>6. CASE IndexReceived(r) BY <2>6 DEF IndexReceived, Upsert
  <2>7. CASE Validate(r) BY <2>7 DEF Validate
  <2>8. CASE SaveParsed(r) BY <2>8 DEF SaveParsed, Save
  <2>9. CASE SaveValidation(r) BY <2>9 DEF SaveValidation, Save, HoldsVerdict
  <2>10. CASE Promote(r) BY <2>10 DEF Promote, HoldsVerdict
  <2>11. CASE SaveOutcome(r) BY <2>11 DEF SaveOutcome, Save
  <2>12. CASE AppendEnding(r) BY <2>12 DEF AppendEnding, Append
  <2>13. CASE IndexEnding(r) BY <2>13 DEF IndexEnding, Upsert
  <2> QED BY <1>2, <2>1, <2>2, <2>3, <2>4, <2>5, <2>6, <2>7, <2>8, <2>9, <2>10, <2>11, <2>12, <2>13 DEF Step
<1>3. ASSUME NEW r \in Runs, Kill(r) PROVE FirstExecution'
  BY <1>3 DEF Kill
<1>4. ASSUME UNCHANGED <<executor, bundle, canonical, trace>> PROVE FirstExecution'
  BY <1>4
<1>5. ASSUME NEW r \in Runs, AppendReconciled(r) PROVE FirstExecution'
  BY <1>5 DEF AppendReconciled
<1>6. CASE Reconcile \/ KillReconciler
  BY <1>4, <1>5, <1>6 DEF Reconcile, KillReconciler, ReadTrace, ReadRows, ReportOnly, Repair,
     Reload, EndRepair, Classify, MarkInterrupted
<1> QED BY <1>1, <1>2, <1>3, <1>4, <1>6 DEF Next, vars

\* The stage of a run depends on its own files, and on the canonical path.
Staged(r) ==
  /\ outcome[r] # None => stageBar[r] = outcome[r]
  /\ outcome[r] = None /\ canonical = r => stageBar[r] = "canonicalized"
  /\ outcome[r] = None /\ canonical # r =>
       /\ validation[r] = "passed" => stageBar[r] = "validated"
       /\ validation[r] # "passed" /\ raw[r] # None => stageBar[r] = "output_received"
       /\ validation[r] # "passed" /\ raw[r] = None =>
            stageBar[r] = IF "started" \in trace[r] THEN "running" ELSE "allocated"

LEMMA StageOf == ASSUME NEW r \in Runs PROVE Staged(r) /\ Staged(r)'
BY DEF Staged, stageBar

\* A step that only touches the files of r moves r only.
LEMMA OneMoves ==
  ASSUME TypeOK, TypeOK', NEW r \in Runs,
         \A q \in Runs \ {r} :
           /\ outcome'[q] = outcome[q] /\ validation'[q] = validation[q] /\ raw'[q] = raw[q]
           /\ trace'[q] = trace[q] /\ (canonical' = q <=> canonical = q)
  PROVE  stageBar' = [stageBar EXCEPT ![r] = stageBar'[r]]
<1>1. ASSUME NEW q \in Runs \ {r} PROVE stageBar'[q] = stageBar[q]
  BY DEF stageBar
<1>2. stageBar' = [q \in Runs |-> stageBar'[q]] /\ stageBar = [q \in Runs |-> stageBar[q]]
  BY DEF stageBar
<1> HIDE DEF stageBar
<1> QED BY <1>1, <1>2

\* A step that touches nothing the stage depends on is a stutter.
LEMMA NothingMoves ==
  ASSUME UNCHANGED <<outcome, validation, raw, canonical>>,
         \A r \in Runs : "started" \in trace'[r] <=> "started" \in trace[r]
  PROVE  UNCHANGED <<stageBar, canonical>>
BY DEF stageBar

\* Each step of an execution is a step of the diagram, or none.
LEMMA StepMoves ==
  ASSUME IInv, TypeOK', FirstExecution, NEW r \in Runs, Step(r)
  PROVE  [Diagram!RNext]_<<stageBar, canonical>>
<1> USE NoneAssumption DEF executor, reconciler, durable, bundle, Goto
<1>1. TypeOK /\ Staged(r) /\ Staged(r)'
  BY StageOf DEF IInv
<1>2. CASE \/ IndexRunning(r) \/ Dispatch(r) \/ AppendReceived(r) \/ IndexReceived(r)
           \/ Validate(r) \/ SaveParsed(r) \/ AppendEnding(r) \/ IndexEnding(r)
  <2>1. UNCHANGED <<outcome, validation, raw, canonical>>
    BY <1>2 DEF IndexRunning, Dispatch, AppendReceived, IndexReceived, Validate, SaveParsed,
       AppendEnding, IndexEnding
  <2>2. \A q \in Runs : "started" \in trace'[q] <=> "started" \in trace[q]
    <3>1. CASE AppendReceived(r)
      BY <1>1, <3>1 DEF TypeOK, AppendReceived, Append
    <3>2. CASE AppendEnding(r)
      <4>1. ending[r] # "started"
        BY <3>2 DEF AppendEnding, IInv, HoldsVerdict, Endings
      <4> QED BY <1>1, <3>2, <4>1 DEF TypeOK, AppendEnding, Append
    <3> QED BY <1>2, <3>1, <3>2 DEF IndexRunning, Dispatch, IndexReceived, Validate, SaveParsed,
            IndexEnding
  <2> QED BY <2>1, <2>2, NothingMoves
<1>3. CASE AppendStarted(r)
  <2>1. stageBar[r] = "allocated" /\ stageBar'[r] = "running"
    BY <1>1, <1>3 DEF TypeOK, AppendStarted, Append, FirstExecution, ExecSteps, Staged
  <2>2. stageBar' = [stageBar EXCEPT ![r] = stageBar'[r]]
    BY <1>1, <1>3, OneMoves DEF TypeOK, AppendStarted, Append
  <2>3. Diagram!Start(r)
    BY <1>3, <2>1, <2>2 DEF AppendStarted, Diagram!Start, Diagram!Move
  <2> QED BY <2>3 DEF Diagram!RNext
<1>4. CASE SaveRaw(r)
  <2>1. CASE UNCHANGED raw
    BY <1>4, <2>1, NothingMoves DEF SaveRaw
  <2>2. CASE raw' # raw
    <3>1. stageBar[r] = "running" /\ stageBar'[r] = "output_received"
      BY <1>1, <1>4, <2>2, OutputAssumption
         DEF TypeOK, SaveRaw, Save, FirstExecution, ExecSteps, Staged, IInv, HoldsOutput
    <3>2. stageBar' = [stageBar EXCEPT ![r] = stageBar'[r]]
      BY <1>1, <1>4, OneMoves DEF TypeOK, SaveRaw, Save
    <3>3. Diagram!Receive(r)
      BY <1>4, <3>1, <3>2 DEF SaveRaw, Diagram!Receive, Diagram!Move
    <3> QED BY <3>3 DEF Diagram!RNext
  <2> QED BY <2>1, <2>2
<1>5. CASE SaveValidation(r)
  <2>1. \/ UNCHANGED <<outcome, validation, raw, canonical, trace>>
        \/ validation'[r] = "failed" /\ UNCHANGED stageBar /\ UNCHANGED canonical
        \/ stageBar[r] = "output_received" /\ stageBar'[r] = "validated"
    <3>1. CASE ending[r] = "completed"
      BY <1>1, <1>5, <3>1 DEF TypeOK, SaveValidation, Save, FirstExecution, ExecSteps, Staged
    <3>2. CASE ending[r] # "completed" /\ validation' # validation
      <4>1. stageBar'[r] = stageBar[r]
        BY <1>1, <1>5, <3>2 DEF TypeOK, SaveValidation, Save, FirstExecution, ExecSteps, Staged
      <4>2. stageBar' = [stageBar EXCEPT ![r] = stageBar'[r]]
        BY <1>1, <1>5, OneMoves DEF TypeOK, SaveValidation, Save
      <4>3. stageBar' = stageBar
        BY <4>1, <4>2 DEF stageBar
      <4> QED BY <1>1, <1>5, <3>2, <4>3 DEF TypeOK, SaveValidation, Save
    <3>3. CASE ending[r] # "completed" /\ UNCHANGED validation
      BY <1>5, <3>3 DEF SaveValidation
    <3> QED BY <3>1, <3>2, <3>3
  <2>2. CASE UNCHANGED <<outcome, validation, raw, canonical, trace>>
    BY <2>2, NothingMoves
  <2>3. CASE stageBar[r] = "output_received" /\ stageBar'[r] = "validated"
    <3>1. stageBar' = [stageBar EXCEPT ![r] = stageBar'[r]]
      BY <1>1, <1>5, OneMoves DEF TypeOK, SaveValidation, Save
    <3>2. Diagram!Validate(r)
      BY <1>5, <2>3, <3>1 DEF SaveValidation, Diagram!Validate, Diagram!Move
    <3> QED BY <3>2 DEF Diagram!RNext
  <2> QED BY <2>1, <2>2, <2>3
<1>6. CASE Promote(r)
  <2>1. CASE UNCHANGED canonical
    BY <1>6, <2>1, NothingMoves DEF Promote
  <2>2. CASE canonical' # canonical
    <3>1. canonical = None /\ canonical' = r
      BY <1>6, <2>2 DEF Promote
    <3>2. stageBar[r] = "validated" /\ stageBar'[r] = "canonicalized"
      BY <1>1, <1>6, <3>1 DEF TypeOK, Promote, FirstExecution, ExecSteps, Staged, IInv,
         HoldsVerdict
    <3>3. stageBar' = [stageBar EXCEPT ![r] = stageBar'[r]]
      BY <1>1, <1>6, <3>1, OneMoves DEF TypeOK, Promote
    <3>4. Diagram!Promote(r)
      BY <3>1, <3>2, <3>3 DEF Diagram!Promote, Diagram!Move
    <3> QED BY <3>4 DEF Diagram!RNext
  <2> QED BY <2>1, <2>2
<1>7. CASE SaveOutcome(r)
  <2>1. CASE UNCHANGED outcome
    BY <1>7, <2>1, NothingMoves DEF SaveOutcome
  <2>2. CASE outcome' # outcome
    <3>1. outcome[r] = None /\ outcome'[r] = ending[r] /\ ending[r] \in Endings
      BY <1>1, <1>7, <2>2 DEF TypeOK, SaveOutcome, Save, IInv, HoldsVerdict
    <3>2. stageBar'[r] = ending[r]
      BY <1>1, <3>1 DEF Staged, Endings
    <3>3. stageBar' = [stageBar EXCEPT ![r] = stageBar'[r]]
      BY <1>1, <1>7, OneMoves DEF TypeOK, SaveOutcome, Save
    <3>4. CASE ending[r] = "completed"
      <4>1. canonical = r /\ stageBar[r] = "canonicalized"
        BY <1>1, <1>7, <3>1, <3>4 DEF SaveOutcome, IInv, HoldsEnding, Staged
      <4>2. Diagram!Complete(r)
        BY <1>7, <3>2, <3>3, <3>4, <4>1 DEF SaveOutcome, Diagram!Complete, Diagram!Move
      <4> QED BY <4>2 DEF Diagram!RNext
    <3>5. CASE ending[r] = "invalid"
      <4>1. stageBar[r] = "output_received"
        BY <1>1, <1>7, <3>1, <3>5 DEF SaveOutcome, FirstExecution, Staged
      <4>2. Diagram!Reject(r)
        BY <1>7, <3>2, <3>3, <3>5, <4>1 DEF SaveOutcome, Diagram!Reject, Diagram!Move
      <4> QED BY <4>2 DEF Diagram!RNext
    <3>6. CASE ending[r] = "failed"
      <4>1. stageBar[r] = "running"
        BY <1>1, <1>7, <3>1, <3>6 DEF SaveOutcome, FirstExecution, ExecSteps, Staged
      <4>2. Diagram!Fail(r)
        BY <1>7, <3>2, <3>3, <3>6, <4>1 DEF SaveOutcome, Diagram!Fail, Diagram!Move
      <4> QED BY <4>2 DEF Diagram!RNext
    <3> QED BY <3>1, <3>4, <3>5, <3>6 DEF Endings
  <2> QED BY <2>1, <2>2
<1> QED BY <1>2, <1>3, <1>4, <1>5, <1>6, <1>7 DEF Step

\* Launches, kills and the reconciler leave every stage as it is.
LEMMA OthersStay ==
  ASSUME IInv,
         \/ \E r \in Runs : Launch(r) \/ Kill(r)
         \/ Reconcile \/ KillReconciler \/ UNCHANGED vars
  PROVE  UNCHANGED <<stageBar, canonical>>
<1>1. UNCHANGED <<outcome, validation, raw, canonical>>
  BY DEF Launch, Kill, Reconcile, KillReconciler, ReadTrace, ReadRows, ReportOnly, Repair,
     Reload, EndRepair, Classify, MarkInterrupted, AppendReconciled, bundle, durable, vars
<1>2. ASSUME NEW r \in Runs, AppendReconciled(r)
      PROVE  \A q \in Runs : "started" \in trace'[q] <=> "started" \in trace[q]
  BY <1>2 DEF AppendReconciled, IInv, TypeOK
<1>3. \A q \in Runs : "started" \in trace'[q] <=> "started" \in trace[q]
  BY <1>2 DEF Launch, Kill, Reconcile, KillReconciler, ReadTrace, ReadRows, ReportOnly, Repair,
     Reload, EndRepair, Classify, MarkInterrupted, durable, bundle, vars
<1> QED BY <1>1, <1>3, NothingMoves

\* If every agent_run_id is executed at most once, then executions, kills and
\* repairs together follow the diagram of run states: FollowsRunStates.
THEOREM DiagramRefined ==
  ASSUME \A r \in Runs : MaxExec[r] <= 1
  PROVE  Spec => FollowsRunStates
<1>1. Init => FirstExecution /\ Diagram!RInit
  <2>1. Init => FirstExecution
    BY NoneAssumption DEF Init, FirstExecution, ExecSteps
  <2>2. ASSUME Init PROVE Diagram!RInit
    BY <2>2, NoneAssumption DEF Init, Diagram!RInit, stageBar
  <2> QED BY <2>1, <2>2
<1>2. IInv /\ FirstExecution /\ [Next]_vars => FirstExecution'
  BY FirstExecutionKeeps
<1>3. IInv /\ IInv' /\ FirstExecution /\ [Next]_vars => [Diagram!RNext]_<<stageBar, canonical>>
  <2> SUFFICES ASSUME IInv, IInv', FirstExecution, [Next]_vars
               PROVE  [Diagram!RNext]_<<stageBar, canonical>>
    OBVIOUS
  <2>1. ASSUME NEW r \in Runs, Step(r) PROVE [Diagram!RNext]_<<stageBar, canonical>>
    BY <2>1, StepMoves DEF IInv
  <2>2. ASSUME ~ \E r \in Runs : Step(r) PROVE UNCHANGED <<stageBar, canonical>>
    BY <2>2, OthersStay DEF Next
  <2> QED BY <2>1, <2>2
<1>4. Spec => [](IInv /\ FirstExecution)
  BY Inductive, <1>1, <1>2, PTL DEF Spec
<1> QED BY <1>1, <1>3, <1>4, PTL DEF Spec, FollowsRunStates, Diagram!RSpec, Diagram!rvars
=============================================================================
